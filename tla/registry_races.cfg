SPECIFICATION FairSpec
CONSTANTS
  Appliers = {p1, p2}
  Uids = {u1}
  Tables = {t1, t2}
  Attrs = {a, b}
  Families = {int, str}
  Requests <- OneType
  ToolSaves <- NoToolSave
  Backend = "postgres"
  DropAfterCommit = TRUE
  MaxApplies = 3
  NoFamily = NoFamily
  NoSchema = NoSchema
  NoRow = NoRow
  NoTable = NoTable
  u1 = u1
  u2 = u2
  t1 = t1
  t2 = t2
  a = a
  b = b
  int = int
  str = str
INVARIANTS AuditTrail ServedIsStored
PROPERTIES StorageRetained EveryApplyReturns
