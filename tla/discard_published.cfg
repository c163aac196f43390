SPECIFICATION Spec
CONSTANTS
  Clients = {c1}
  GivenDocs = {g}
  Locales = {en}
  Values = {x}
  Calls = {"create", "discard", "publish"}
  UniqueValues = FALSE
  CopyAccepted = TRUE
  Interrupted = FALSE
  MaxCalls = 3
  NoRow = NoRow
PROPERTIES DiscardKeepsPublished
CHECK_DEADLOCK FALSE
