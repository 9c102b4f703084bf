\* What the code does beyond the uses that the passing runs cover: each of
\* these is violated.  The first is set below.
\*   INVARIANT EveryNumberRead
\*   INVARIANT DoneHasDocument
CONSTANTS
  Sources <- MCSources
SPECIFICATION Spec
INVARIANT EveryNumberRead
CHECK_DEADLOCK FALSE
