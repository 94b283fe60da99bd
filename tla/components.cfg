SPECIFICATION MCSpec
CONSTANTS
  t1 = t1
  t2 = t2
  t3 = t3
  Parts = {"frames", "pages", "storage", "heap", "waitsets", "drivers", "services", "lifecycle", "platform", "tcp", "ring", "slab", "pci"}
  PageBytes = 2
  WordBits = 3
  WordsPerFrame = 2
  AddressLimit = 18
  MaxMemoryRegions = 3
  MaxUsableRanges = 2
  MaxBootReservations = 2
  RunLengths = {1, 2}
  RegionMaps <- MCRegionMaps
  FrameSet = {1, 2, 3, 4, 5, 6, 7, 8, 9, 10, 11, 12, 13, 14, 15, 16, 17, 18, 19, 20, 21}
  LowEntries = 4
  HeapPages = 1
  StackPages = 2
  MaxStacks = 4
  MaxSpaces = 3
  UserPages <- MCUserPages
  Framebuffer = {TRUE, FALSE}
  ApicPages = {90, 5}
  Data = 99
  TotalBlocks = 8
  MinBlocks = 8
  EraseAlign = 2
  ReservedBlocks = 3
  Sizes = {0, 1}
  MaxWrites = 2
  MaxFaults = 2
  MaxBlocks = 4
  MaxChunks = 2
  ChunkSize = 4
  HeapEnd = 11
  Layouts <- MCLayouts
  Threads = {t1, t2, t3}
  Idle = idle
  None = none
  Capacity = 3
  Sources <- MCSources
  Signals = {1, 2}
  Cookie <- MCCookie
  MaxSubscriptions = 2
  MaxEvents = 2
  Drivers <- MCDrivers
  MaxRestarts <- MCMaxRestarts
  Image <- MCImage
  MaxBuilds = 3
  Endpoints = {channel}
  Notifications = {n1}
  Boot = t1
  Program <- MCProgram
  Supervisor <- MCSupervisor
  Holds <- MCHolds
  MaxCalls = 2
  MAX_ENDPOINT_CALLERS = 2
  InitThread = t1
  RamfsThread = t2
  ScriptThread = t3
  Channel = channel
  ModuleLists <- MCModuleLists
  MaxManifest = 10
  ArchiveLimit = 6
  Machines <- MCMachines
  HhdmOffset = 100
  IsaIrqs = {0, 1, 2}
  MaxLeases = 4
  Absent = Absent
  Mss = 2
  FirstSsthresh = 4
  Rto = 1
  Sessions <- MCSessions
  MaxSent = 2
  MaxReceived = 2
  MaxDupAcks = 4
  MaxRetransmits = 1
  RingCapacity = 4
  IndexRange = 16
  SlabFrames = {f1, f2}
  SlotCount = 3
  Buses <- MCBuses
  LastDevice = 1
  LastFunction = 1
  FirstCap = 1
  LastCap = 4
  MaxCaps = 6
  LineLimit = 16
INVARIANTS CloseWakesAll ZombieNotExecuting FramesUsedOnce KernelHalfShared RecoversCommitted AllocationsDisjoint EventsKept DriversSupervised ServicesAnswer OwnedInterrupts NothingForgotten RingIsQueue SlotsPartitioned ScansAgree
PROPERTIES PoolRefined NoResurrection
CHECK_DEADLOCK FALSE
