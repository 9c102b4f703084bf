\* What the code does beyond the uses that the passing runs cover: each of
\* these is violated.  The first is set below.
\*   Params <- Exponents; Tables <- MCTables; Texts <- MCTexts; Sizes <- MCSizes; MaxAppend = 1; INVARIANT DoubleArrives
\*   Params <- MCParams; Tables <- MCTables; Texts <- MCTexts; Sizes <- MCSizes; MaxAppend = 0; INVARIANT ResponseIsJson
\*   Params <- MCParams; Tables <- MCTables; Texts <- MCTexts; Sizes = {60}; MaxAppend = 2; INVARIANT AppendReportsCut
\*   Params <- MCParams; Tables <- PrefixTables; Texts <- MCTexts; Sizes <- MCSizes; MaxAppend = 0; INVARIANT IntrospectionComplete
\*   Params <- MCParams; Tables <- MCTables; Texts <- MCTexts; Sizes <- MCSizes; MaxAppend = 0; INVARIANT AlwaysRelayedAsNamed
\*   Params <- MCParams; Tables <- MCTables; Texts <- MCTexts; Sizes = {60}; MaxAppend = 1; INVARIANT BinaryArrives
\*   Params <- MCParams; Tables <- MCTables; Texts <- MCTexts; Sizes = {250}; MaxAppend = 2; INVARIANT ErrorAlwaysArrives
\*   Params <- MCParams; Tables <- MCTables; Texts <- MCTexts; Sizes = {60}; MaxAppend = 1; INVARIANT ReaderSurvives
\*   Params <- MCParams; Tables <- MCTables; Texts <- MCTexts; Sizes <- MCSizes; MaxAppend = 1; INVARIANT OnlyAnswersEnd
CONSTANTS
  Params <- Exponents
  Ids <- MCIds
  Codes <- MCCodes
  Methods <- MCMethods
  Called <- MCCalled
  Internal <- MCInternal
  Tables <- MCTables
  Entries <- MCEntries
  Texts <- MCTexts
  Garbage = {"NUL", "}"}
  Sizes <- MCSizes
  MaxAppend = 1
SPECIFICATION Spec
INVARIANT DoubleArrives
CHECK_DEADLOCK FALSE
