SPECIFICATION Spec
CONSTANTS
  Faults = TRUE
  Lines = {l1, l2}
  MaxFormer = 1
  MaxSaves = 3
  Overlap = FALSE
  Lost = FALSE
  Uids <- FewUids
  CopyOf <- CopyUid
  u1 = u1
  u2 = u2
  Names = {f, g}
  Others = TRUE
  MaxPages = 2
  MaxClicks = 2
  MaxEdits = 1
  AtOnce = 1
  MaxTouches = 1
  Imported = FALSE
  MaxEntries = 2
  Sizes = {1, 2}
  MaxMoves = 3
  MaxFormula = 5
  FieldNames = {"f", "g", "h"}
  MaxReads = 2
  MaxPairs = 3
  MaxRows = 4
  Width = 4
  Wide = 6
  MaxTemplate = 6
  ContentTypes = {"s", "t"}
  Selections <- FewSelections
  DatasetsOf <- DatasetsIn
  MaxActs = 5
  MaxCalls = 2
  Tabs = {tab1, tab2}
  Accounts = {"ann", "bob"}
  MaxUses = 6
  MaxPending = 2
  TaskTypes = {"set", "call"}
  MaxTasks = 3
  MaxSteps = 4
  MaxSent = 2
INVARIANTS StoredOnce CleanIsStored NeverStranded ImportedAsAnalyzed LoggedOutStaysOut
  FormulasCompute StoreAnswers TemplatesRender
PROPERTIES SavedMeansStored GoneOnlyIfAsked UntouchedKept
SYMMETRY NamesAlike
CHECK_DEADLOCK FALSE
