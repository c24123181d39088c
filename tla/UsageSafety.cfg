SPECIFICATION Spec
CONSTANTS
  Zone = {z1, z2}
  NoZone = nozone
  Volumes = {1, 2}
  SaveErrors = {TRUE}
  ReadFailures = {{}, {z1}}
  MaxTotal = 4
INVARIANTS UsageTypeOK ShownIsSaved OneRecordBehind
 
