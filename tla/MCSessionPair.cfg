CONSTANTS
  Sessions = {s1, s2}
  Configs <- PairConfigs
  ArraySize = 8
  MaxFrames = 2
  NoSession = NoSession
  NoConfig = NoConfig
SPECIFICATION Spec
INVARIANTS
  TypeOK
  SessionOwnsItsLens
  CollectorOwnerRuns
  MeteredUnlessShared
PROPERTIES
  RunningLensStable
  UsesLensAsPromised
