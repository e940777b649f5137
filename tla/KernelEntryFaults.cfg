SPECIFICATION SpecWithFaults
CONSTANTS
  N = 2
  W = 4
INVARIANTS
  KernelExclusive
