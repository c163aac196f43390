SPECIFICATION Spec
CONSTANTS
  Clients = {c1}
  GivenDocs = {g}
  Locales = {en, fr}
  Values = {x}
  Calls = {"create", "update", "delete", "discard", "publish", "unpublish", "wf_publish", "wf_unpublish"}
  UniqueValues = FALSE
  CopyAccepted = TRUE
  Interrupted = FALSE
  MaxCalls = 5
  NoRow = NoRow
INVARIANTS VariantsUnique
PROPERTIES PublishTakesEffect
CHECK_DEADLOCK FALSE
