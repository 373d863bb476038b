CONSTANTS
  Sessions = {s1}
  Configs <- EveryConfig
  ArraySize = 8
  MaxFrames = 1
  NoSession = NoSession
  NoConfig = NoConfig
SPECIFICATION Spec
INVARIANTS
  CandidatesComplete
  AttemptsFollowPlan
PROPERTIES
  CallsReturn
