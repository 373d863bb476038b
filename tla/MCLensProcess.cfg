CONSTANTS
  Handles = {h1, h2}
  Pids = {p1, p2, p3}
  NoHandle = NoHandle
  NoPid = NoPid
SPECIFICATION Spec
INVARIANTS
  TypeOK
  NoDescriptorLeak
  LensInheritsNothing
  PidIsOwnChild
  StartMeansExec
  NoUntrackedChild
PROPERTIES
  CallsReturn
  ImplementsTransportLens
