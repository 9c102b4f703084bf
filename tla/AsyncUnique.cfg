\* Serialised request creation, so that no two requests have the same id;
\* the fairness of the threads of the library.
CONSTANTS
  r1 = r1
  r2 = r2
  Reqs = {r1, r2}
  NoReq = NoReq
  ThreadedReqs = {r2}
  WaitedReqs = {r1}
  IdMod = 3
  IdLimit = 2
  SerialInit = TRUE
  CleanupAfter = {"cancel","wait","send"}
SPECIFICATION FairSpec
INVARIANTS
  OwnResponse
  CancelFailsOnlyIfAnswered
PROPERTIES
  ImplementsOutcome
  NobodyLeftWaiting
