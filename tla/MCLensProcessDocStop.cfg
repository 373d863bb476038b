CONSTANTS
  Handles = {h1, h2}
  Pids = {p1, p2}
  NoHandle = NoHandle
  NoPid = NoPid
SPECIFICATION Spec
INVARIANT StopTerminates
