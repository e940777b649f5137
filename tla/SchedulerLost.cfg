SPECIFICATION Spec
CONSTANTS
  CPUs <- MCCPUs
  Threads = {t1, t2, t3}
  Root = t1
  NoThread = none
  DefaultBudget = 3
  CreateAffs <- ValidAffs
  SetAffs <- NegativeAffs
INVARIANTS
  NoLostThread
