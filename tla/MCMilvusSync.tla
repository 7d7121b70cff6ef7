----------------------------- MODULE MCMilvusSync -----------------------------
EXTENDS MilvusSync, TLC

CONSTANTS h1, h2, a, b, s

(* a and s run on the first server, b on the second.                       *)
MCHostOf == [t \in Task |-> IF t = b THEN h2 ELSE h1]
Symmetric == Permutations(Text)

(* The scenarios of the convergence run: one record with two texts, models *)
(* and generations and a fault, or several records of one text and model   *)
(* without faults, so that one write supersedes another record.  They bound *)
(* what the environment does, never a step of the loop or of an apply.     *)
First == CHOOSE m \in Memory : TRUE
OneRecord == \A m \in Memory : Exists(m) => m = First
SeveralRecords ==
  LET text == CHOOSE x \in Text : TRUE
      model == CHOOSE x \in Model : TRUE
  IN  /\ Exists(First)
      /\ \A m \in Memory : rows[m].text \in {text, None}
      /\ meta.generation = 1
      /\ meta.model = model
      /\ faults = 0
Scenario == OneRecord \/ SeveralRecords

ScenarioSpec == Init /\ [][Next /\ Scenario']_vars /\ Fairness
=============================================================================
