\* What the code does beyond the uses that the passing runs cover: each of
\* these is violated.  The first is set below.
\*   DeclFlags <- FlagsThreaded; Reqs = {1, 2}; WithId = {1, 2}; Changes = {}; MaxThreads = 2; INVARIANT NoFault
\*   DeclFlags <- FlagsThreaded; Reqs = {1, 2}; WithId = {1, 2}; Changes = {"redecl"}; MaxThreads = 2; INVARIANT ExclOne
\*   DeclFlags <- FlagsInline; Reqs = {1, 3}; WithId = {1, 3}; Changes = {"undecl"}; MaxThreads = 0; PROPERTY UndeclRemovesOwn
\*   DeclFlags <- FlagsInline; Reqs = {1, 3}; WithId = {1, 3}; Changes = {"undecl"}; MaxThreads = 0; INVARIANT NoFault
\*   DeclFlags <- FlagsInline; Reqs = {1, 3}; WithId = {1, 3}; Changes = {"decl"}; MaxThreads = 0; INVARIANT AnsweredOnce
CONSTANTS
  m1 = m1
  m2 = m2
  a1 = a1
  a2 = a2
  Methods = {m1, m2}
  NoMethod = NoMethod
  DeclFlags <- FlagsThreaded
  Reqs = {1, 2}
  NoReq = NoReq
  Target <- MCTarget
  WithId = {1, 2}
  Apps = {a1}
  Changes = {}
  Serial = FALSE
  MaxGen = 1
  MaxThreads = 2
SPECIFICATION Spec
INVARIANT NoFault
