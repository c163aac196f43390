SPECIFICATION Spec
CONSTANTS
  Clients = {c1, c2}
  Defs = {d}
  ValidDefs = {d}
  Listening = {d}
  Tasks = {t1, t2}
  Calls = {"create", "save", "activate", "deactivate", "delete", "execute", "event", "webhook", "retry", "cancel"}
  Faults = TRUE
  MaxWorkflows = 1
  MaxExecs = 1
  MaxCalls = 5
  NoWorkflow = NoWorkflow
  NoExecution = NoExecution
INVARIANTS ActiveAgrees RunsRecorded
PROPERTIES FinalIsFinal
CHECK_DEADLOCK FALSE
