SPECIFICATION Spec
CONSTANTS
  BlockLength = 4
  StatusLength = 2
  EchoLength = 3
  MaxTrouble = 2
  MaxLate = 1
INVARIANTS LinkTypeOK AcknowledgedIsDone
PROPERTIES SnapshotIsWhole PollRecovers
