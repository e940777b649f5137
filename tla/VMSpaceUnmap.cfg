SPECIFICATION SpecAnyUnmap
CONSTANTS
  Levels = 3
  Fanout = 2
  Spaces = {s1}
  data = data
  lazy = lazy
  device = device
  heap1 = heap1
  Pmos = {data, lazy, device}
  PmoType <- MCPmoType
  PmoSize <- MCPmoSize
  HeapPmo <- MCHeapPmo
  HeapStart = 5
  Starts = {0, 3, 6}
  Perms <- MCPerms
INVARIANTS
  TableMatchesRegions
