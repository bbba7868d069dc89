CONSTANTS
  kPTEsPerTable = 4
  BYTES_OF_SECTOR = 4
  LoadAddr = 2
  KernelAddr = 32
  MB = 8
  KernelEnd = 56
  TablesAddr = 64
  CheckEnd = 168
  Top = 180
  FileSizes = {1, 3, 4, 5, 8}
  Memories = {64, 168, 169, 180}
  Sizes <- SizeTexts
  Radix = 10
  IntMod = 4096
  U64Mod = 4096
  Kilo = 4
  KBPerPage = 4
  PtrMod = 180
  TCBs = {0, 1, 2}
  Booting = 0
  Turns = {1, 2}
SPECIFICATION SpecMachine
INVARIANTS
  TypeOK
  KernelInPlace
  
  RegistersKept
  TaskStarts
PROPERTY
  EntriesStay
CHECK_DEADLOCK FALSE
