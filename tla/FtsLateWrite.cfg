SPECIFICATION Spec
CONSTANTS
  Memory = {m1}
  Text = {x}
  Model = {o}
  None = None
  MaxVersion = 2
  MaxGeneration = 1
  Sync = {a}
  Service = {s, r}
  Start = start
  MaxFaults = 0
INVARIANTS
  NeverBroughtBack
