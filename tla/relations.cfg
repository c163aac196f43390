SPECIFICATION ImportSpec
CONSTANTS
  Clients = {c1, c2}
  Names = {n1, n2}
  BookLists <- FewBooks
  TagLists <- FewTags
  Calls = {"create", "update", "delete", "publish", "book", "deleteBook"}
  Faults = TRUE
  MaxAuthors = 3
  MaxBooks = 3
  MaxCalls = 2
  Files <- TwoFiles
  Modes = {"createOnly", "updateOnly", "upsert"}
  n1 = n1
  n2 = n2
  c1 = c1
  c2 = c2
SYMMETRY ClientsAlike
INVARIANTS TotalsFresh SavedIsServed ImportAsAsked
CHECK_DEADLOCK FALSE
