SPECIFICATION Spec
CONSTANTS
  Workers <- MCWorkers
  Caller = {c1, c2}
  Loop = loop
  Asker = {a1, a2}
  Transcript = {f, g}
  MaxChanges = 4
  Memory = memory
  Turns = turns
  Rerank = rerank
  MaxTurns = 2
  Provider = {p, q}
  Enabled = {p}
  All = all
  None = none
  MaxStops = 1
  Record = {r, s}
  Live = {r}
INVARIANTS
  TypeOK
  RestoreHonest
PROPERTIES
  SearchAnswered
  QuietFileIndexed
  EmbedSpaced
  QueueServed
  PauseHolds
CHECK_DEADLOCK FALSE
