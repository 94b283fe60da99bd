SPECIFICATION CoreSpec
CONSTANTS
  Parts = {"ipc", "capabilities"}
  Idle = Idle
  None = None
  boot = boot
  t1 = t1
  t2 = t2
  Boot = boot
  Threads = {boot, t1, t2}
  Endpoints = {e1, e2}
  Notifications = {n1}
  Program <- ClientsAndServers
  MaxCalls = 2
  MAX_ENDPOINT_CALLERS = 2
  Capacity = 3
  Spaces = {cs1, cs2}
  Slots = 2
  Nodes = 4
  Budget = 2
  Objects = {o1, o2}
  Rights = {MANAGE}
  MANAGE = MANAGE
  MaxGeneration = 2
  MaxIssued = 4
  MaxSteps = 6
SYMMETRY CoreSymmetry
INVARIANTS TypeOK SchedConsistent KernelUp WakeupPending ReplyReachesCaller
INVARIANTS TreeLinked ReferencesExact NeverUsableAgain RevokeReachesSubtree
PROPERTIES CallReturnsReply DeleteSparesOthers
CHECK_DEADLOCK FALSE
