SPECIFICATION ScenarioSpec
CONSTANTS
  Memory = {m1, m2}
  Text = {x, y}
  Model = {o, n}
  None = None
  MaxVersion = 2
  MaxGeneration = 2
  h1 = h1
  h2 = h2
  a = a
  b = b
  s = s
  Host = {h1}
  Sync = {a}
  Service = {s}
  HostOf <- MCHostOf
  MaxRaces = 2
  MaxFaults = 1
PROPERTIES
  Converges
  TombstoneStays
