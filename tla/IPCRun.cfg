SPECIFICATION IpcFairSpec
CONSTANTS
  CPUs <- TwoCpus
  Threads = {t1, t2, s1, s2}
  Shadows = {s1, s2}
  Root = t1
  NoThread = none
  DefaultBudget = 3
  CreateAffs <- AffNone
  SetAffs <- AffOne
INVARIANTS
  EveryThreadAccounted
  OneRunnerPerContext
  NeverHangs

  
