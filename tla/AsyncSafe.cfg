\* Unserialised request creation: ids may be duplicated by the abus->id++ race.
CONSTANTS
  r1 = r1
  r2 = r2
  Reqs = {r1, r2}
  NoReq = NoReq
  ThreadedReqs = {r2}
  WaitedReqs = {r1, r2}
  IdMod = 3
  IdLimit = 3
  SerialInit = FALSE
  CleanupAfter = {"cancel","wait"}
SPECIFICATION Spec
INVARIANTS
  TypeOK
  CallbackAtMostOnce
  CancelledNeverCalled
  LateUsesOnly
  WaitOkMeansResolved
  TableHoldsLive
