\* Texts end where their bound is, hence no check for deadlock.
CONSTANT Sources <- MCSources
SPECIFICATION Spec
INVARIANTS
  WithinLimits
  CallbackSeesJson
  AcceptedSurvives
CHECK_DEADLOCK FALSE
