SPECIFICATION Spec
CONSTANTS
  cm = cm
  update = update
  j1 = j1
  j2 = j2
  Readers <- MCReaders
  Joints <- MCJoints
  Lifecycle = cm
  Update = update
  MaxSnapshots = 4
CHECK_DEADLOCK FALSE
PROPERTY ReportedIsMeasured
