\* Processes may all be dead, with no start left, hence no check for deadlock.
CONSTANTS
  p1 = p1
  p2 = p2
  t1 = t1
  t2 = t2
  t3 = t3
  a = a
  b = b
  Pids = {p1, p2}
  NoPid = NoPid
  Services = {a, b}
  NoService = NoService
  Threads = {t1, t2, t3}
  Owner <- MCOwner
  Provides <- MCProvides
  Allowed = {}
  MaxStarts = 3
SPECIFICATION FairSpec
INVARIANTS
  DeclaredReachable
  CleanStop
PROPERTY
  CallsReturn
CHECK_DEADLOCK FALSE
