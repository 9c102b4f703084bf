\* Calls may all be over, hence no check for deadlock.
CONSTANTS
  p = p
  q = q
  x = x
  c1 = c1
  c2 = c2
  c3 = c3
  c4 = c4
  c5 = c5
  c6 = c6
  Procs = {p, q, x}
  Calls = {c1, c2, c3, c4}
  From <- MCFrom
  To <- MCTo
  Nested = {c3, c4}
  Kept = {}
  Unlimited = {c2}
  Names = 4
  NoAddress = NoAddress
  Depth = 1
  MaxCrashes = 1
SPECIFICATION FairSpec
INVARIANTS
  OwnAnswer
  SocketsSound
PROPERTIES
  ImplementsRemoteCall
  NobodyStuck
CHECK_DEADLOCK FALSE
