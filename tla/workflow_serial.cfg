SPECIFICATION FairSpec
CONSTANTS
  Clients = {c1}
  Defs = {d, bad}
  ValidDefs = {d}
  Listening = {d}
  Tasks = {t1}
  Calls = {"create", "save", "activate", "deactivate", "delete", "execute", "event", "webhook", "retry", "cancel"}
  Faults = FALSE
  MaxWorkflows = 2
  MaxExecs = 2
  MaxCalls = 5
  NoWorkflow = NoWorkflow
  NoExecution = NoExecution
PROPERTIES ImplementsBook ExecutionsEnd
CHECK_DEADLOCK FALSE
