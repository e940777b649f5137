SPECIFICATION Spec
CONSTANTS
  Processes = {p0, p1}
  Root = p0
  Threads = {t0, t1, t2}
  RootThread = t0
  Vmspaces = {v0, v1}
  RootVmspace = v0
  Pmos = {m1}
  Connections = {c1}
  Null = Null
  NSlots = 7
INVARIANTS
  
  ReleasesAllCaps
  ThreadsKeepTheirProcess
  CallsStayValid
SYMMETRY NewObjects
CHECK_DEADLOCK FALSE
