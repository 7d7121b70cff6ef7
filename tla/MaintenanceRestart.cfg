SPECIFICATION Spec
CONSTANTS
  Old = {a, b}
  New = {}
  None = None
  Tool = {"reembed"}
  Killed = {}
  MaxFaults = 3
INVARIANT
  RestartIgnoresCheckpoint
CHECK_DEADLOCK FALSE
