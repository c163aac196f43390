SPECIFICATION Spec
CONSTANTS
  Appliers = {p1}
  Uids = {u1, u2}
  Tables = {t1, t2}
  Attrs = {a, b}
  Families = {int, str}
  Requests <- TwoTypes
  ToolSaves <- ToolSave
  Backend = "sqlite"
  DropAfterCommit = FALSE
  MaxApplies = 4
  NoFamily = NoFamily
  NoSchema = NoSchema
  NoRow = NoRow
  NoTable = NoTable
  u1 = u1
  u2 = u2
  t1 = t1
  t2 = t2
  a = a
  b = b
  int = int
  str = str
PROPERTIES SavesDecide ImplementsCatalog
