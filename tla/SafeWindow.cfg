\* Two buses; one joint has to be calibrated first.
CONSTANTS
  hip = hip
  knee = knee
  tail = tail
  N = 2
  Own = 1
  Joints = {hip, knee, tail}
  BusOf <- TwoBuses
  Calibrated = {hip, tail}
  RequireCalibrated = TRUE
SPECIFICATION WindowSpec
INVARIANTS OwnPowerInvited PoweredIsVisible ReadyIsLoaded
PROPERTY OthersRestored
