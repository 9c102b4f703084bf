\* What the code does beyond the uses that the passing runs cover: each of
\* these is violated.  The first is set below.
\*   Calls = {c1, c2, c3, c4, c5, c6}; From <- MCFrom2; To <- MCTo2; Nested = {c3, c4}; Kept = {}; Unlimited = {}; Names = 6; MaxCrashes = 0; SPECIFICATION Spec; INVARIANT NoCircularWait
\*   Calls = {c1, c2}; From <- MCFrom1; To <- MCTo1; Nested = {}; Kept = {}; Unlimited = {}; Names = 1; MaxCrashes = 0; SPECIFICATION FairSpec; INVARIANT OwnAnswer
\*   Calls = {c1, c2}; From <- MCFrom1; To <- MCTo1; Nested = {}; Kept = {c1, c2}; Unlimited = {}; Names = 1; MaxCrashes = 0; SPECIFICATION FairSpec; INVARIANT OwnAnswer
\*   Calls = {c1}; From <- MCFrom1; To <- MCTo1; Nested = {}; Kept = {c1}; Unlimited = {}; Names = 1; MaxCrashes = 0; SPECIFICATION FairSpec; PROPERTY CallEnds
\*   Calls = {c1, c2}; From <- MCFrom1; To <- MCTo1; Nested = {}; Kept = {}; Unlimited = {c1, c2}; Names = 2; MaxCrashes = 1; SPECIFICATION FairSpec; PROPERTY EveryCallEnds
CONSTANTS
  p = p
  q = q
  x = x
  c1 = c1
  c2 = c2
  c3 = c3
  c4 = c4
  c5 = c5
  c6 = c6
  Procs = {p, q, x}
  Calls = {c1, c2, c3, c4, c5, c6}
  From <- MCFrom2
  To <- MCTo2
  Nested = {c3, c4}
  Kept = {}
  Unlimited = {}
  Names = 6
  NoAddress = NoAddress
  Depth = 1
  MaxCrashes = 0
SPECIFICATION Spec
INVARIANT NoCircularWait
CHECK_DEADLOCK FALSE
