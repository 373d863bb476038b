CONSTANTS
  Pointers = {p1, p2}
  Surfaces = {s1}
  Backend = backend
  HostListeners = {h1}
  MaxInits = 2
  MaxAttached = 2
  NULL = NULL
SPECIFICATION Spec
SYMMETRY Symmetry
INVARIANTS
  SignalsSoundUnlessTangled
  HotplugSound
