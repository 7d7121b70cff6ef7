---------------------------- MODULE RestoreCheck ----------------------------
(***************************************************************************)
(* The check of a restored memory database: its rows are indexed into a    *)
(* collection and a keyword file of the check's own, and these are         *)
(* compared with the manifest of the dump.  A crash, or a drop that fails, *)
(* leaves them to the next check.  One check runs at a time.               *)
(***************************************************************************)
EXTENDS Integers, FiniteSets

CONSTANTS
  Record,   \* the records of the manifest, and others
  Live      \* those that the manifest lists as live

ASSUME LiveAssumption == Live \subseteq Record

VARIABLES
  step,      \* "idle", "strays", "reset", "apply", "compare" or "clean"
  restored,  \* the rows of the restored database
  held,      \* the version of the rows in memories_restore
  lines,     \* the rows of the keyword file
  todo,      \* the records that are not applied yet
  verdict    \* the answer: "none", "ok" or "bad"

check == <<step, restored, held, lines, todo, verdict>>

(* A row as the dump has it, of the same version but with another text, or *)
(* of an older version.                                                    *)
Row == {"none", "good", "edited", "old"}

Version(row) == CASE row = "none" -> 0 [] row = "old" -> 1 [] OTHER -> 2

CheckTypeOK ==
  /\ step \in {"idle", "strays", "reset", "apply", "compare", "clean"}
  /\ restored \in [Record -> Row] /\ lines \in [Record -> Row]
  /\ held \in [Record -> 0..2]
  /\ todo \subseteq Record
  /\ verdict \in {"none", "ok", "bad"}

Empty == [r \in Record |-> "none"]

CheckInit ==
  /\ step = "idle" /\ restored = Empty /\ held = [r \in Record |-> 0]
  /\ lines = Empty /\ todo = {} /\ verdict = "none"

Begin ==
  /\ step = "idle"
  /\ restored' \in [Record -> Row]
  /\ step' = "strays" /\ verdict' = "none"
  /\ UNCHANGED <<held, lines, todo>>

(* rebuild: rows of the collection without a record are deleted.           *)
DropStrays ==
  /\ step = "strays"
  /\ held' = [r \in Record |-> IF restored[r] = "none" THEN 0 ELSE held[r]]
  /\ step' = "reset"
  /\ UNCHANGED <<restored, lines, todo, verdict>>

(* Mutant: the keyword file of an earlier check is kept.                   *)
ResetNone == lines

Reset == Empty

ResetFts ==
  /\ step = "reset"
  /\ lines' = Reset
  /\ todo' = {r \in Record : restored[r] # "none"}
  /\ step' = "apply"
  /\ UNCHANGED <<restored, held, verdict>>

(* A record is applied to both; each may fail.  A row of the keyword file  *)
(* is replaced by a newer version only.                                    *)
Apply(r) ==
  /\ step = "apply" /\ r \in todo
  /\ todo' = todo \ {r}
  /\ held' \in {held, [held EXCEPT ![r] = Version(restored[r])]}
  /\ lines' \in {lines, IF Version(restored[r]) > Version(lines[r])
                        THEN [lines EXCEPT ![r] = restored[r]] ELSE lines}
  /\ UNCHANGED <<step, restored, verdict>>

Applied == step = "apply" /\ todo = {} /\ step' = "compare"
           /\ UNCHANGED <<restored, held, lines, todo, verdict>>

(* _compare_restore: versions in both, hashes in the keyword file.         *)
Same(r) ==
  IF r \in Live THEN held[r] = Version("good") /\ lines[r] = "good"
                ELSE held[r] = 0 /\ lines[r] = "none"

Compare ==
  /\ step = "compare"
  /\ verdict' = IF \A r \in Record : Same(r) THEN "ok" ELSE "bad"
  /\ step' = "clean"
  /\ UNCHANGED <<restored, held, lines, todo>>

(* A step fails, or the time is up.                                        *)
Fail ==
  /\ step \notin {"idle", "clean"}
  /\ step' = "clean" /\ verdict' = "bad" /\ todo' = {}
  /\ UNCHANGED <<restored, held, lines>>

Clean ==
  /\ step = "clean"
  /\ step' = "idle"
  /\ held' \in {held, [r \in Record |-> 0]}
  /\ lines' = Empty
  /\ UNCHANGED <<restored, todo, verdict>>

Killed ==
  /\ step # "idle"
  /\ step' = "idle" /\ verdict' = "none" /\ todo' = {}
  /\ UNCHANGED <<restored, held, lines>>

CheckNext ==
  \/ Begin \/ DropStrays \/ ResetFts \/ (\E r \in Record : Apply(r)) \/ Applied
  \/ Compare \/ Fail \/ Clean \/ Killed
=============================================================================
