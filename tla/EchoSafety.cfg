SPECIFICATION Spec
CONSTANTS
  Key = {k1, k2}
  NoKey = nokey
  Capacity = 3
  Echoes = {"during", "later", "never"}
  MaxLater = 3
SYMMETRY KeySymmetry
INVARIANTS EchoInductive EchoIsNoCommand
PROPERTIES MemorySpec IgnoredIsRepeat LateOnlyIfCrossed
