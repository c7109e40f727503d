SPECIFICATION StartupSpec
CONSTANTS
  Board <- MCBoard
  CPU_NUMBER_MAX = 4
  IntId = {0, 30, 31, 32}
  Timer = 30
  BLOCK <- MCBlock
  ENTRIES <- MCEntries
  BOOT_TABLES = 8
  PT_TABLES = 6
  VIRT_BASE = 128
  Config <- MCConfig
  Machine <- MCMachine
INVARIANTS
  
  InterruptsConfigured
  BootVerdict
  TranslationExact
  TablesApart
  DevicesMapped
PROPERTIES
  SwitchKeepsKernel
  BootEnds
