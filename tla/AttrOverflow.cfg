\* A get as int of a long long that does not fit, from another process.
CONSTANTS
  num = num
  big = big
  ro = ro
  version = version
  Keys = {num, big, ro, version}
  Stuff = {num, big, ro, version}
  NoKey = NoKey
  NoStuff = NoStuff
  Hash <- MCHash
  AbusThread = abus
  LocalThreads = {app}
  NoThread = NoThread
  Type <- MCType
  Flags <- MCFlags
  IntMin <- MCIntMin
  IntMax = 1
  LongMin <- MCLongMin
  LongMax = 7
  Empty = Empty
  Unknown = Unknown
  Declared <- MCDeclared
  RemoteOps <- MCRemoteOps
  LocalOps <- MCLocalOps
  Alone = {"undecl"}
SPECIFICATION Spec
INVARIANT
  OverflowFails
