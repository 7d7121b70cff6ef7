SPECIFICATION Spec
CONSTANTS
  Memory = {1, 2, 3}
  Text = {x, y, z}
  Topic = {a}
  None = None
  Keep = Keep
  Followed = {1}
  Kind = {"add", "delete"}
  Writer = {t}
  MaxVersion = 5
  MaxRetries <- MCRetries
  t = t
  u = u
  MaxCalls <- MCManyCalls
INVARIANTS
  NewerIsLater
SYMMETRY Symmetric
