SPECIFICATION Spec
CONSTANTS
  Clients = {c1, c2}
  GivenDocs = {g}
  Locales = {en}
  Values = {x, y}
  Calls = {"create", "update", "delete", "publish", "unpublish", "wf_publish", "wf_unpublish"}
  UniqueValues = FALSE
  CopyAccepted = TRUE
  Interrupted = TRUE
  MaxCalls = 4
  NoRow = NoRow
PROPERTIES PublishKeepsEntries 
CHECK_DEADLOCK FALSE
