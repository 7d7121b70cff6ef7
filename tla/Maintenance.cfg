SPECIFICATION Spec
CONSTANTS
  Old = {a}
  New = {n}
  None = None
  Tool = {"rewrite", "reembed", "redact", "drop", "retag"}
  Killed = {1}
  MaxFaults = 1
INVARIANTS
  TypeOK
  FinishedMeansCorrected
  NoOrphan
  BackupHoldsOld
PROPERTIES
  Healed
  RunEnds
CHECK_DEADLOCK FALSE
