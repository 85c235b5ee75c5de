\* The callback groups of the code: services and poll timer in one, transitions in another.
CONSTANTS
  svc = svc
  poll = poll
  life = life
  Clients <- MCClients
  Lifecycle <- MCLifecycle
  Group <- TwoGroups
  CanTimeout = TRUE
SPECIFICATION FairSpec
INVARIANT ParkedWhileCalled
PROPERTIES OwnershipSpec PauseGranted WindowsEnd StopReturns
