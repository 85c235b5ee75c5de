SPECIFICATION Spec
CONSTANTS
  Joints = {j1, j2}
CHECK_DEADLOCK FALSE
INVARIANT GoneIsReleased
INVARIANT PowerIsInvited
INVARIANT ServedByTick
PROPERTY InterruptReleases
