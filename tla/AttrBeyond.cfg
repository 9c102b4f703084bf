\* What the code does beyond the uses that the passing runs cover: each of
\* these is violated.  The first is set below.
\*   LocalOps <- MCDeclOps; Alone = {}; INVARIANT NoFault
\*   LocalOps <- MCLocalOps; Alone = {"undecl"}; INVARIANT GetRetrievesAll
\*   LocalOps <- MCLocalOps; Alone = {"undecl"}; INVARIANT OkMeansHandled
CONSTANTS
  num = num
  big = big
  ro = ro
  version = version
  Keys = {num, big, ro, version}
  Stuff = {num, big, ro, version}
  NoKey = NoKey
  NoStuff = NoStuff
  Hash <- MCHash
  AbusThread = abus
  LocalThreads = {app}
  NoThread = NoThread
  Type <- MCType
  Flags <- MCFlags
  IntMin <- MCIntMin
  IntMax = 1
  LongMin <- MCLongMin
  LongMax = 7
  Empty = Empty
  Unknown = Unknown
  Declared <- MCDeclared
  RemoteOps <- MCRemoteOps
  LocalOps <- MCDeclOps
  Alone = {}
SPECIFICATION Spec
INVARIANT NoFault
