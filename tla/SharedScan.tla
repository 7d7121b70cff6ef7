----------------------------- MODULE SharedScan -----------------------------
(***************************************************************************)
(* The scan for the project roots of the index: a cached list is answered  *)
(* at once, and every caller without one waits for the one scan that runs. *)
(* The provider health of /health is shared the same way.                  *)
(***************************************************************************)
EXTENDS FiniteSets

CONSTANT Asker

VARIABLES
  roots,      \* the cached list: "none", "fresh" or "old"
  scanning,   \* a scan runs
  waiting     \* who waits for it

scan == <<roots, scanning, waiting>>

ScanTypeOK ==
  /\ roots \in {"none", "fresh", "old"} /\ scanning \in BOOLEAN
  /\ waiting \subseteq Asker
  /\ waiting # {} => scanning

ScanInit == roots = "none" /\ scanning = FALSE /\ waiting = {}

(* Mutant: a caller joins no scan, and starts none while one runs.         *)
JoinsNone(a) == IF scanning THEN scanning' = FALSE ELSE scanning' = TRUE

Joins(a) == scanning' = TRUE

Ask(a) ==
  /\ a \notin waiting
  /\ \/ roots = "none" /\ Joins(a) /\ waiting' = waiting \cup {a}
     \/ roots = "old" /\ Joins(a) /\ UNCHANGED waiting
  /\ UNCHANGED roots

(* A failed scan answers its waiters with the error and keeps the list.    *)
ScanEnds ==
  /\ scanning
  /\ roots' \in {"fresh", roots}
  /\ scanning' = FALSE /\ waiting' = {}

(* KNOWN_ROOTS_TTL_S passes.                                               *)
Expires == roots = "fresh" /\ roots' = "old" /\ UNCHANGED <<scanning, waiting>>

ScanNext == (\E a \in Asker : Ask(a)) \/ ScanEnds \/ Expires
=============================================================================
