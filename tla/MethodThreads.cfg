\* Methods declared before they are used; three requests share two threads.
CONSTANTS
  m1 = m1
  m2 = m2
  a1 = a1
  a2 = a2
  Methods = {m1, m2}
  NoMethod = NoMethod
  DeclFlags <- FlagsThreaded
  Reqs = {1, 2, 3, 4, 5}
  NoReq = NoReq
  Target <- MCTarget
  WithId = {1, 2, 3}
  Apps = {a1}
  Changes = {}
  Serial = FALSE
  MaxGen = 1
  MaxThreads = 2
SPECIFICATION FairSpec
INVARIANTS
  TypeOK
  ExclOne
  AnsweredOnce
PROPERTY
  Answered
