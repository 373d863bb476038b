CONSTANTS
  Objects = {o1, o2, o3, o4}
  NoObject = NoObject
  MaxFrame = 2
  StaleAfter = 1
  CounterSize = 2
  Surfaces = {s1}
  InitialCapacity = 2
  MaxId = 2
  MaxAge = 1
  MaxPresented = 2
  Word = 4
  Devices = {d1}
  NoSurface = NoSurface
SPECIFICATION Spec
PROPERTIES
  ShownFramesWereCommitted
