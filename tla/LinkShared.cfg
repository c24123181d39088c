SPECIFICATION Spec
CONSTANTS
  BlockLength = 4
  StatusLength = 2
  EchoLength = 3
  MaxTrouble = 0
  MaxLate = 1
PROPERTY EchoIsAwaited
