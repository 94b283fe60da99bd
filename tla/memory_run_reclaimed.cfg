SPECIFICATION MCSpec
CONSTANTS
  None = None
  Spaces = {cs1, cs2}
  Slots = 2
  Nodes = 4
  Budget = 2
  Objects = {1, 2, 3}
  Rights = {MAP, READ, WRITE, EXECUTE, MANAGE}
  MANAGE = MANAGE
  MAP = MAP
  READ = READ
  WRITE = WRITE
  EXECUTE = EXECUTE
  MaxGeneration = 2
  AddressSpaces = {as1}
  MapsInto <- MCMapsInto
  LastPage = 2
  PagesPerTable = 1
  FrameCount = 4
  ObjectLimit = 3
  MemoryLimit = 3
  ArenaCapacity = 3
  Sizes = {1, 2}
  RunSizes = {2}
  Requests <- MCRequests
  PageRights <- MCPageRights
  Offsets = {0, 1}
  ImageFactories = {cs1, cs2}
  MaxDerives = 1
  MaxEnds = 3
SYMMETRY Symmetry
INVARIANT FramesHeldWhileShown
CHECK_DEADLOCK FALSE
