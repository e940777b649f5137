SPECIFICATION Spec
CONSTANTS
  Byte = 256
  ElfError = ElfError
  ENOENT = ENOENT
  Trailer = Trailer
  Ramdisk <- Archive
  RamdiskAddr = 16
  RootPath = pRoot
  FileName <- FileNames
  Programs <- ProgramTable
  Requests <- SomeRequests
  MaxSpawns = 2
  PageSize = 64
  StrSize = 8
  StackBase = 1024
  StackSize = 128
  TmpVaddr = 2048
  CpioBin = 4096
  InfoVaddr = 8192
  SharedInfo = 8320
  SharedVaddr = 8448
  Plat = Plat
  Msg <- Message
  Nobody = Nobody
  pRoot = pRoot
  pServer = pServer
  pChild = pChild
  pLone = pLone
  pMissing = pMissing
  fRoot = fRoot
  fServer = fServer
  fChild = fChild
  fLone = fLone
  fMissing = fMissing
  Filler = Filler
INVARIANTS
  ImageExact
  ArgumentsReachMain
  MessageShared
PROPERTIES
  EveryLaunchCompletes
CHECK_DEADLOCK FALSE
