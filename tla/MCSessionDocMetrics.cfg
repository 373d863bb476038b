CONSTANTS
  Sessions = {s1, s2}
  Configs <- PairConfigs
  ArraySize = 8
  MaxFrames = 1
  NoSession = NoSession
  NoConfig = NoConfig
SPECIFICATION Spec
INVARIANTS
  MetricsAreTheSessions
