\* A joint that is interpolated and one in MIT mode, or both in MIT mode.
CONSTANTS
  Joints = {j1, j2}
  MitSets = {{j2}, {j1, j2}}
  MaxSeq = 3
  Limit = 4
  MinLength = 1
  MaxLength = 3
  Gaps = {1, 4}
  OnTimeouts = {"hold", "disable", "estop"}
  Hooks = {"none", "zero"}
SPECIFICATION GateSpec
INVARIANTS OverwritesCounted TimeoutActsOnce RefusedLeavesNoTrace ReachedInTime
PROPERTY FirstAfterSafetyIsWhole
