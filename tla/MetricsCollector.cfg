CONSTANTS
  Word = 256
  CounterSize = 3
  Second = 2
  Sizes = {0, 3}
  StartTimes = {1, 2}
  MaxTime = 5
  MaxCalls = 4
SPECIFICATION Spec
INVARIANTS
  TypeOK
  TotalsMatchSamples
  KeptIsWindow
  StaleOnlyIfStarved
  ReadingAgrees
