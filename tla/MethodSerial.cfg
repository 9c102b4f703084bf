\* Poll operation: methods come and go between requests.
CONSTANTS
  m1 = m1
  m2 = m2
  a1 = a1
  a2 = a2
  Methods = {m1, m2}
  NoMethod = NoMethod
  DeclFlags <- FlagsInline
  Reqs = {1, 3, 4, 5}
  NoReq = NoReq
  Target <- MCTarget
  WithId = {1, 3}
  Apps = {a1, a2}
  Changes = {"decl", "redecl", "undecl"}
  Serial = TRUE
  MaxGen = 2
  MaxThreads = 0
SPECIFICATION Spec
INVARIANT NoFault
PROPERTY UndeclRemovesOwn
