CONSTANTS
  Objects = {o1, o2, o3, o4}
  NoObject = NoObject
  MaxFrame = 3
  StaleAfter = 1
  CounterSize = 2
SPECIFICATION Spec
INVARIANTS
  TypeOK
  OwnedOnce
  UniqueFrames
PROPERTIES
  AcknowledgmentExpires
  PredictionsResolve
