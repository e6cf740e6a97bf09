\* Pages of 4 bytes, tables of 2 entries; the heap starts in the middle of a
\* table, as 0x4444_4444_0000 does, and ends after the first byte of a page.
SPECIFICATION Spec
CONSTANTS
  PageSize = 4
  Fanout = 2
  HEAP_START = 12
  HEAP_SIZE = 13
  MemoryMaps <- MCMaps
  LastBus = 1
  DeviceCount = 32
  FunctionCount = 8
  Machines <- MCMachines
INVARIANTS FramesSound HeapBacked DevicesFound
PROPERTY BootCompletes
CHECK_DEADLOCK FALSE
