SPECIFICATION FairSpec
CONSTANTS
  CPUs <- MCCPUs
  Threads = {t1, t2, t3}
  Root = t1
  NoThread = none
  DefaultBudget = 3
  CreateAffs <- ValidAffs
  SetAffs <- MCSetAffs
INVARIANTS
  TypeOK
  QueuesExact
  NoLostThread
  CurrentExact
  NeverHangs
PROPERTIES
  FifoDispatch
  PlacedByAffinity
  
