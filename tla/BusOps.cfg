SPECIFICATION Spec
CONSTANTS
  N = 2
  MitJoints = {2}
  Width = 2
  MaxItems = 2
  MaxRequests = 2
CHECK_DEADLOCK FALSE
INVARIANT VerifiedIsLive
INVARIANT PersistedIsInFlash
INVARIANT OkIsWhole
INVARIANT JogOkIsOff
PROPERTY FlashOnDemand
