SPECIFICATION FairSpec
CONSTANTS
  Memory = {m1}
  Text = {x}
  Model = {o}
  None = None
  MaxVersion = 3
  MaxGeneration = 2
  Sync = {a}
  Service = {s}
  Start = start
  MaxFaults = 2
INVARIANTS
  TypeOK
  AckMeansIndexedUnlessForgotten
  NeverBroughtBackUnlessForgotten
PROPERTIES
  Converges
