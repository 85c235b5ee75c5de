\* The smallest instance that shows it.
CONSTANTS
  Joints = {j1, j2}
  MitSets = {{j2}}
  MaxSeq = 2
  Limit = 2
  MinLength = 1
  MaxLength = 2
  Gaps = {1}
  OnTimeouts = {"hold"}
  Hooks = {"none"}
SPECIFICATION GateSpec
PROPERTY EstopInNextCycle
