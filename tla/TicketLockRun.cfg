SPECIFICATION FairSpec
CONSTANTS
  N = 3
  W = 4
INVARIANTS
  MutualExclusion
  TicketsExact
PROPERTIES
  EveryTicketServed
  ImplementsFifo
