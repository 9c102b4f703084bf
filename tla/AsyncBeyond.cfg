\* What the code does beyond the uses that the passing runs cover: each of
\* these is violated.  The first is set below.
\*   Reqs = {r1, r2}; ThreadedReqs = {r2}; WaitedReqs = {r1, r2}; IdLimit = 2; SerialInit = TRUE; CleanupAfter = {"wait"}; SPECIFICATION Spec; INVARIANT RequestsInTime
\*   Reqs = {r1, r2}; ThreadedReqs = {}; WaitedReqs = {r1, r2}; IdLimit = 2; SerialInit = TRUE; CleanupAfter = {}; SPECIFICATION Spec; INVARIANT CancelReadsInTime
\*   Reqs = {r1, r2}; ThreadedReqs = {r2}; WaitedReqs = {r1, r2}; IdLimit = 2; SerialInit = TRUE; CleanupAfter = {}; SPECIFICATION Spec; INVARIANT BackReadsInTime
\*   Reqs = {r1, r2}; ThreadedReqs = {r2}; WaitedReqs = {r1, r2}; IdLimit = 2; SerialInit = TRUE; CleanupAfter = {"cancel","send"}; SPECIFICATION Spec; PROPERTY TimeoutMeansNoResponse
\*   Reqs = {r1, r2}; ThreadedReqs = {r2}; WaitedReqs = {r1, r2}; IdLimit = 3; SerialInit = TRUE; CleanupAfter = {"cancel","send"}; SPECIFICATION Spec; INVARIANT IdDefined
\*   Reqs = {r1, r2}; ThreadedReqs = {r2}; WaitedReqs = {r1, r2}; IdLimit = 2; SerialInit = FALSE; CleanupAfter = {"cancel","send"}; SPECIFICATION Spec; INVARIANT OwnResponse
\*   Reqs = {r1}; ThreadedReqs = {}; WaitedReqs = {r1}; IdLimit = 2; SerialInit = TRUE; CleanupAfter = {"cancel","send"}; SPECIFICATION FairSpec; PROPERTY AlwaysCalledBack
CONSTANTS
  r1 = r1
  r2 = r2
  Reqs = {r1, r2}
  NoReq = NoReq
  ThreadedReqs = {r2}
  WaitedReqs = {r1, r2}
  IdMod = 3
  IdLimit = 2
  SerialInit = TRUE
  CleanupAfter = {"wait"}
SPECIFICATION Spec
INVARIANT RequestsInTime
