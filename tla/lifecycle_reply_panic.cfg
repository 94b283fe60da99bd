SPECIFICATION LSpec
CONSTANTS
  Idle = Idle
  None = None
  boot = boot
  t1 = t1
  t2 = t2
  e1 = e1
  Boot = boot
  Endpoints = {e1}
  Threads = {boot, t1, t2}
  Notifications = {}
  Program <- TerminatedCaller
  Supervisor <- Flat
  Holds <- AllHold
  MaxCalls = 1
  MAX_ENDPOINT_CALLERS = 2
  Capacity = 3
INVARIANT KernelUp
CHECK_DEADLOCK FALSE
