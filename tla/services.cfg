SPECIFICATION Spec
CONSTANTS
  Faults = TRUE
  Conversations = {k1, k2}
  Private = {}
  MaxIterations = 2
  MaxRequests = 3
  MaxAtOnce = 2
  MaxCalls = 2
  MaxSelects = 1
  Callers = {c1, c2}
  Slugs = {all, s1}
  FirstSlug = all
  MaxViews = 3
  AtOnce = 2
  Transactional = FALSE
  MaxStarts = 3
  Attributes = {"name", "title", "width"}
  MaxAttributes = 2
  MaxEntries = 2
INVARIANTS ConfirmedRuns HistoryAccepted ScreenAgrees OneDefault MigrationsFinish RoundTrips
SYMMETRY AnyConversation
CHECK_DEADLOCK FALSE
