SPECIFICATION Spec
CONSTANTS
  Documents <- MCDocuments
  NULL = NULL
  MaxInt = 524287
  MaxLoads = 2
  MaxShortages = 2
  InitialSlots = 12
  MediaApps = {"/bin/mpv"}
INVARIANTS
  TypeOK
  CrashOnlyIfShortOrNull
  NoLeakUnlessRejected
  ArgvInBounds
  LaunchAsConfigured
CHECK_DEADLOCK FALSE
