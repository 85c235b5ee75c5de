\* Two starts; the thread may lose time anywhere.
CONSTANTS
  Period = 2
  MaxTime = 11
  MaxStarts = 2
SPECIFICATION Spec
INVARIANTS NextDeadlineNear MissedFits
CHECK_DEADLOCK FALSE
