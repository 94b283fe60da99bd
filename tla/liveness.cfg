SPECIFICATION MCSpec
CONSTANTS
  None = None
  Holders = {init, drv1, drv2, drv3}
  Creator = init
  LevelObjects = {1}
  MaxObjects = 2
  Idle = Idle
  boot = boot
  t1 = t1
  t2 = t2
  t3 = t3
  Boot = boot
  Threads = {boot, t1, t2, t3}
  Endpoints = {e1}
  Notifications = {n1}
  Program <- ServerProgram
  MaxCalls = 2
  MAX_ENDPOINT_CALLERS = 2
  Capacity = 4
INVARIANT ControllerAgrees
PROPERTIES EventServed CallCompletes SignalConsumed
CHECK_DEADLOCK FALSE
