\* What the code does beyond the uses that the passing runs cover: each of
\* these is violated.  The first is set below.
\*   Publishers = {app}; Overlap = FALSE; INVARIANT PublishReachesAll
\*   Publishers = {app}; Overlap = TRUE; INVARIANT FaultOnlyIfDropped
\*   Publishers = {abus}; Overlap = FALSE; INVARIANT GoneUnsubscribed
\*   Publishers = {abus}; Overlap = FALSE; INVARIANT NoFault
\*   Publishers = {abus}; Overlap = FALSE; PROPERTY OnlyOwnUnsubscribe
\*   Publishers = {abus}; Overlap = FALSE; PROPERTY SubscribeOkMeansSubscribed
CONSTANTS
  e1 = e1
  e2 = e2
  abus = abus
  app = app
  Keys = {0, 1, 2}
  NoKey = NoKey
  Stuff = {e1, e2}
  NoStuff = NoStuff
  Hash <- MCHash
  Publishers = {app}
  AbusThread = abus
  ServiceName <- Svc
  EventName <- Evt
  MaxSubs = 3
  Overlap = FALSE
  MaxInbox = 2
SPECIFICATION Spec
INVARIANT PublishReachesAll
