\* Two nodes with the same two buses in opposite orders, and a tool in shared mode on one of them.
CONSTANTS
  left = left
  right = right
  tool = tool
  can0 = can0
  can1 = can1
  varLock = varLock
  custom = custom
  Procs <- MCProcs
  Buses <- MCBuses
  Place <- MCPlace
  LockMode <- MCLockMode
  Dir <- SameDir
SPECIFICATION FairSpec
INVARIANTS OneMaster OwnerFileTrue DownKeepsNothing
PROPERTIES MastershipSpec StartEnds
