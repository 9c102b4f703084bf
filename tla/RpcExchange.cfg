\* The exchange ends, hence no check for deadlock.
CONSTANTS
  Params <- MCParams
  Ids <- MCIds
  Codes <- MCCodes
  Methods <- MCMethods
  Called <- MCCalled
  Internal <- MCInternal
  Tables <- MCTables
  Entries <- MCEntries
  Texts <- MCTexts
  Garbage = {"NUL", "}"}
  Sizes <- MCSizes
  MaxAppend = 2
SPECIFICATION Spec
INVARIANTS
  MessagesWhole
  RequestsArrive
  ResponsesArrive
  ListsComplete
CHECK_DEADLOCK FALSE
