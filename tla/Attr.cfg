\* Other processes and a thread of the application, on a machine of 64 bits.
CONSTANTS
  num = num
  big = big
  ro = ro
  version = version
  Keys = {num, big, ro, version}
  Stuff = {num, big, ro, version}
  NoKey = NoKey
  NoStuff = NoStuff
  Hash <- MCHash
  AbusThread = abus
  LocalThreads = {app}
  NoThread = NoThread
  Type <- MCType
  Flags <- MCFlags
  IntMin <- MCIntMin
  IntMax = 1
  LongMin <- MCLongMin
  LongMax = 7
  Empty = Empty
  Unknown = Unknown
  Declared <- MCDeclared
  RemoteOps <- MCRemoteOps
  LocalOps <- MCDeclOps
  Alone = {"undecl"}
SPECIFICATION FairSpec
INVARIANTS
  HolderAlone
  GetShowsSnapshot
  LastEventCurrent
  AttrsSound
PROPERTY
  MutexReleased
