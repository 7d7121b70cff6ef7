SPECIFICATION Spec
CONSTANTS
  File = {f}
  Script <- MCScript
  None = None
  Together <- MCTogether
  MaxFaults = 1
INVARIANTS
  TypeOK
  OffsetMeansStored
  OneVersion
PROPERTIES
  NewestStays
  EverySearchable
