\* The event comes and goes; publication from callbacks in the A-Bus thread only.
CONSTANTS
  e1 = e1
  e2 = e2
  abus = abus
  app = app
  Keys = {0, 1, 2}
  NoKey = NoKey
  Stuff = {e1, e2}
  NoStuff = NoStuff
  Hash <- MCHash
  Publishers = {abus}
  AbusThread = abus
  ServiceName <- Svc
  EventName <- Evt
  MaxSubs = 3
  Overlap = FALSE
  MaxInbox = 2
SPECIFICATION FairSpec
INVARIANTS
  PublishReachesAll
  SubscribersSound
PROPERTY
  PublishEnds
