\* What the code does beyond the uses that the passing runs cover: each of
\* these is violated.  The first is set below.
\*   Allowed = {"race"}; MaxStarts = 1; INVARIANT SocketKept
\*   Allowed = {"share"}; MaxStarts = 2; INVARIANT DeclaredReachable
\*   Allowed = {"reuse"}; MaxStarts = 2; INVARIANT DeclaredReachable
\*   Allowed = {"fall"}; MaxStarts = 1; INVARIANT DeclaredReachable
\*   Allowed = {"poll"}; MaxStarts = 1; INVARIANT NoFault
\*   Allowed = {"cancel"}; MaxStarts = 1; INVARIANT NoOrphan
\*   Allowed = {}; MaxStarts = 1; INVARIANT AlwaysRead
\*   Allowed = {}; MaxStarts = 1; INVARIANT NeverFaults
CONSTANTS
  p1 = p1
  p2 = p2
  t1 = t1
  t2 = t2
  t3 = t3
  a = a
  b = b
  Pids = {p1, p2}
  NoPid = NoPid
  Services = {a, b}
  NoService = NoService
  Threads = {t1, t2, t3}
  Owner <- MCOwner
  Provides <- MCProvides
  Allowed = {"race"}
  MaxStarts = 1
SPECIFICATION Spec
INVARIANT SocketKept
CHECK_DEADLOCK FALSE
