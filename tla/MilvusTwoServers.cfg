SPECIFICATION Spec
CONSTANTS
  Memory = {m1}
  Text = {x, y}
  Model = {o, n}
  None = None
  MaxVersion = 3
  MaxGeneration = 2
  h1 = h1
  h2 = h2
  a = a
  b = b
  s = s
  Host = {h1, h2}
  Sync = {a, b}
  Service = {}
  HostOf <- MCHostOf
  MaxRaces = 2
  MaxFaults = 1
INVARIANTS
  TypeOK
  AckMeansHeldUnlessPurged
  VectorsMatchModel
PROPERTIES
  NeverOlder
SYMMETRY Symmetric
