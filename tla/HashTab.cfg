\* A table of initial size 2, as hcreate(1) makes it for event subscribers.
CONSTANTS
  Keys = {0, 1, 2, 3, 4}
  NoKey = NoKey
  Stuff = {s1, s2}
  NoStuff = NoStuff
  Hash <- MCHash
  InitSize = 2
SPECIFICATION UseSpec
INVARIANT
  LoopVisitsAll
PROPERTY
  ImplementsDictionary
