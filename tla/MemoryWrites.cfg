SPECIFICATION Spec
CONSTANTS
  Memory = {1, 2}
  Text = {x, y}
  Topic = {a}
  None = None
  Keep = Keep
  Followed = {1}
  Kind = {"add", "update", "delete"}
  Writer = {t, u}
  MaxVersion = 4
  MaxRetries <- MCRetries
  t = t
  u = u
  MaxCalls <- MCCalls
INVARIANTS
  TypeOK
  OneLiveRecord
  HistoryComplete
  RowLocksOrdered
PROPERTIES
  AddAnswered
  RefinesStore
SYMMETRY Symmetric
