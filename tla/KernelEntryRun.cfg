SPECIFICATION EntrySpec
CONSTANTS
  N = 3
  W = 4
INVARIANTS
  KernelExclusive
  UnlocksItsOwnLock
  BootBeforeKernel
PROPERTIES
  EveryCpuBoots
  
