SPECIFICATION Spec
CONSTANTS
  Memory = {m1}
  Text = {x}
  Model = {o}
  None = None
  MaxVersion = 1
  MaxGeneration = 1
  h1 = h1
  h2 = h2
  a = a
  b = b
  s = s
  Host = {h1}
  Sync = {a}
  Service = {s}
  HostOf <- MCHostOf
  MaxRaces = 1
  MaxFaults = 0
INVARIANTS
  AckMeansHeld
