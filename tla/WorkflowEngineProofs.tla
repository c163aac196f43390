------------------------ MODULE WorkflowEngineProofs ------------------------
(***************************************************************************)
(* Theorems about WorkflowEngine, for any number of requests, workflows,   *)
(* executions and tasks, and whatever dies when.                           *)
(***************************************************************************)
EXTENDS WorkflowEngine, TLAPS

Inv == TypeOK /\ HeldInv

-----------------------------------------------------------------------------
(* Type correctness.  First, what a call's step does to its own locals.    *)

LEMMA GotoLocals ==
    ASSUME pc \in [Clients -> StepType], job \in [Clients -> JobType],
           NEW c \in Clients, NEW step \in StepType, NEW locals \in JobType,
           Goto(c, step, locals)
    PROVE  /\ pc' \in [Clients -> StepType]
           /\ job' \in [Clients -> JobType]
           /\ pc'[c] = step /\ job'[c] = locals
           /\ \A d \in Clients \ {c} : pc'[d] = pc[d] /\ job'[d] = job[d]
BY DEF Goto

LEMMA IdleJobType == IdleJob \in JobType /\ "idle" \in StepType
BY DEF IdleJob, JobType, StepType, Status

\* What a step of c may do to the locals, so that every call holds what it needs.
Held(step, locals) ==
    /\ step \in {"save", "activate", "deactivate", "insert"} => locals.row \in Workflow
    /\ step \in {"spawn", "cancel"} => locals.id \in ExecIds
    /\ step = "delete" => locals.id \in WorkflowIds

LEMMA GotoHeld ==
    ASSUME Inv, NEW c \in Clients, NEW step \in StepType, NEW locals \in JobType,
           Goto(c, step, locals), Held(step, locals)
    PROVE  /\ pc' \in [Clients -> StepType]
           /\ job' \in [Clients -> JobType]
           /\ HeldInv'
<1>1. /\ pc' \in [Clients -> StepType]
      /\ job' \in [Clients -> JobType]
      /\ pc'[c] = step /\ job'[c] = locals
      /\ \A d \in Clients \ {c} : pc'[d] = pc[d] /\ job'[d] = job[d]
  BY GotoLocals DEF Inv, TypeOK
<1>2. ASSUME NEW d \in Clients PROVE Held(pc'[d], job'[d])
  <2>1. CASE d = c
    BY <1>1, <2>1
  <2>2. CASE d # c
    BY <1>1, <2>2 DEF Inv, HeldInv, Held
  <2> QED
    BY <2>1, <2>2
<1> QED
  BY <1>1, <1>2 DEF HeldInv, Held

LEMMA ReturnHeld ==
    ASSUME Inv, NEW c \in Clients, Return(c)
    PROVE  /\ pc' \in [Clients -> StepType]
           /\ job' \in [Clients -> JobType]
           /\ HeldInv'
<1>1. Held("idle", IdleJob)
  BY DEF Held
<1> QED
  BY <1>1, GotoHeld, IdleJobType DEF Return

\* The variables other than the locals.
TablesOK ==
    /\ workflows \in [WorkflowIds -> Workflow \cup {NoWorkflow}]
    /\ created \in 0..MaxWorkflows
    /\ execs \in [ExecIds -> Execution \cup {NoExecution}]
    /\ started \in 0..MaxExecs
    /\ thread \in [ExecIds -> Thread]
    /\ calls \in Nat

LEMMA InitTypes == Init => Inv
<1> SUFFICES ASSUME Init PROVE Inv
  OBVIOUS
<1>1. NoThread \in Thread
  BY DEF NoThread, Thread
<1> QED
  BY <1>1, IdleJobType, EngineAssumption DEF Init, Inv, TypeOK, HeldInv

-----------------------------------------------------------------------------
(* The rows written to the workflow table, and the statuses.               *)

LEMMA RowTypes ==
    ASSUME Inv, NEW c \in Clients
    PROVE  /\ \A d \in Defs :
                 [active |-> FALSE, version |-> 1, doc |-> NewDocument(d)] \in Workflow
           /\ pc[c] = "save" => \A active \in BOOLEAN, d \in Defs : Saved(c, active, d) \in Workflow
           /\ pc[c] \in {"activate", "deactivate"} /\ Stored(job[c].id) =>
                 \A active \in BOOLEAN : SetActive(c, active) \in Workflow
<1>1. ASSUME NEW d \in Defs
      PROVE  [active |-> FALSE, version |-> 1, doc |-> NewDocument(d)] \in Workflow
  BY DEF Workflow, Document, NewDocument
<1>2. job[c] \in JobType /\ (pc[c] \in {"save", "activate", "deactivate"} => job[c].row \in Workflow)
  BY DEF Inv, TypeOK, HeldInv
<1>3. ASSUME pc[c] = "save", NEW active \in BOOLEAN, NEW d \in Defs
      PROVE  Saved(c, active, d) \in Workflow
  <2>1. job[c].row.version + 1 \in Nat /\ job[c].id \in Nat
    BY <1>2, <1>3 DEF Workflow, JobType
  <2> QED
    BY <2>1 DEF Saved, Workflow, Document
<1>4. ASSUME pc[c] \in {"activate", "deactivate"}, Stored(job[c].id), NEW active \in BOOLEAN
      PROVE  SetActive(c, active) \in Workflow
  <2>1. workflows[job[c].id] \in Workflow
    BY <1>4 DEF Inv, TypeOK, Stored
  <2>2. PICK doc \in Document : doc = job[c].row.doc
    BY <1>2, <1>4 DEF Workflow
  <2>3. [doc EXCEPT !.active = active] \in Document
    BY <2>2 DEF Document
  <2> QED
    BY <2>1, <2>2, <2>3 DEF SetActive, Workflow
<1> QED
  BY <1>1, <1>3, <1>4

LEMMA StatusTypes ==
    ASSUME Inv, NEW e \in ExecIds, NEW status \in Status, SetStatus(e, status)
    PROVE  /\ execs' \in [ExecIds -> Execution \cup {NoExecution}]
           /\ \A x \in ExecIds : execs'[x] = NoExecution <=> execs[x] = NoExecution
           /\ execs[e] # NoExecution =>
                 execs'[e].status = status /\ execs'[e].ran = execs[e].ran
                                           /\ execs'[e].tasks = execs[e].tasks
           /\ \A x \in ExecIds \ {e} : execs'[x] = execs[x]
<1>1. execs \in [ExecIds -> Execution \cup {NoExecution}]
  BY DEF Inv, TypeOK
<1>2. CASE execs[e] = NoExecution
  BY <1>1, <1>2 DEF SetStatus
<1>3. CASE execs[e] # NoExecution
  <2>1. PICK x \in Execution : x = execs[e]
    BY <1>1, <1>3
  <2>2. [x EXCEPT !.status = status] \in Execution
    BY <2>1 DEF Execution
  <2>3. execs' = [execs EXCEPT ![e] = [x EXCEPT !.status = status]]
    BY <1>3, <2>1 DEF SetStatus
  <2> QED
    BY <1>1, <1>3, <2>1, <2>2, <2>3, NoRowAssumption DEF Execution
<1> QED
  BY <1>2, <1>3

-----------------------------------------------------------------------------
(* Steps of requests.                                                      *)

\* Every step of a request goes to a step with the locals it needs.
LEMMA RequestLocals ==
    ASSUME Inv, NEW c \in Clients, Request(c)
    PROVE  /\ pc' \in [Clients -> StepType]
           /\ job' \in [Clients -> JobType]
           /\ HeldInv'
<1>1. job[c] \in JobType /\ HeldInv
  BY DEF Inv, TypeOK
<1>2. CASE UNCHANGED <<pc, job>>
  BY <1>2 DEF Inv, TypeOK, HeldInv
<1>3. CASE Return(c)
  BY <1>3, ReturnHeld
<1>4. CASE ReadWorkflow(c)
  <2>1. PICK call \in {"save", "activate", "deactivate", "delete"}, w \in WorkflowIds :
           /\ Stored(w)
           /\ Goto(c, call, [IdleJob EXCEPT !.id = w, !.row = workflows[w]])
    BY <1>4 DEF ReadWorkflow
  <2>2. workflows[w] \in Workflow
    BY <2>1 DEF Inv, TypeOK, Stored
  <2>3. [IdleJob EXCEPT !.id = w, !.row = workflows[w]] \in JobType
    <3>1. w \in Nat
      BY EngineAssumption DEF WorkflowIds
    <3> QED
      BY <2>2, <3>1, IdleJobType DEF JobType
  <2>4. Held(call, [IdleJob EXCEPT !.id = w, !.row = workflows[w]]) /\ call \in StepType
    BY <2>2, IdleJobType DEF Held, IdleJob, StepType
  <2> QED
    BY <2>1, <2>3, <2>4, GotoHeld
<1>5. CASE DeleteWorkflow(c)
  <2>1. "purge" \in StepType /\ Held("purge", job[c])
    BY DEF Held, StepType
  <2> QED
    BY <1>1, <1>5, <2>1, GotoHeld DEF DeleteWorkflow
<1>6. CASE RequestRun(c)
  <2>0. PICK call \in {"execute", "event", "webhook", "retry"} :
           \E todo \in Wanted(call) : Goto(c, "load", [IdleJob EXCEPT !.todo = todo])
    BY <1>6 DEF RequestRun
  <2>1. PICK todo \in Wanted(call) : Goto(c, "load", [IdleJob EXCEPT !.todo = todo])
    BY <2>0
  <2>2. Matching \in SUBSET Start /\ {StartOf(w) : w \in Loaded} \in SUBSET Start
    <3>1. ASSUME NEW w \in WorkflowIds, Stored(w)
          PROVE  StartOf(w) \in Start
      <4>1. workflows[w] \in Workflow
        BY <3>1 DEF Inv, TypeOK, Stored
      <4>2. workflows[w].doc \in Document
        BY <4>1 DEF Workflow
      <4>3. workflows[w].doc.id \in Nat /\ w \in Nat
        BY <4>2 DEF Document, WorkflowIds
      <4> QED
        BY <4>3 DEF Start, StartOf
    <3> QED
      BY <3>1 DEF Matching, Loaded
  <2>3. todo \in SUBSET Start
    <3>1. CASE call = "execute"
      BY <2>1, <3>1 DEF Wanted, Start, WorkflowIds
    <3>2. CASE call = "event"
      BY <2>1, <2>2, <3>2 DEF Wanted
    <3>3. CASE call = "webhook"
      BY <2>1, <2>2, <3>3 DEF Wanted
    <3>4. CASE call = "retry"
      BY <2>1, <3>4 DEF Wanted, Start, Inv, TypeOK, Execution
    <3> QED
      BY <2>1, <3>1, <3>2, <3>3, <3>4
  <2>4. [IdleJob EXCEPT !.todo = todo] \in JobType
    BY <2>3, IdleJobType DEF JobType
  <2>5. "load" \in StepType /\ Held("load", [IdleJob EXCEPT !.todo = todo])
    BY DEF Held, StepType
  <2> QED
    BY <2>1, <2>4, <2>5, GotoHeld
<1>7. CASE LoadWorkflow(c)
  <2>1. PICK s \in job[c].todo :
          IF Runnable(s.id)
          THEN Goto(c, "insert", [job[c] EXCEPT !.id = s.of, !.row = workflows[s.id],
                                                !.todo = @ \ {s}])
          ELSE Goto(c, "load", [job[c] EXCEPT !.todo = @ \ {s}])
    BY <1>7 DEF LoadWorkflow
  <2>2. s \in Start
    BY <1>1, <2>1 DEF JobType
  <2>3. CASE Runnable(s.id)
    <3> DEFINE locals == [job[c] EXCEPT !.id = s.of, !.row = workflows[s.id], !.todo = @ \ {s}]
    <3>1. workflows[s.id] \in Workflow
      BY <2>3 DEF Runnable, Stored, Inv, TypeOK
    <3>2. locals \in JobType /\ locals.row \in Workflow
      BY <1>1, <2>2, <3>1 DEF JobType, Start
    <3>3. "insert" \in StepType /\ Held("insert", locals)
      BY <3>2 DEF Held, StepType
    <3>4. Goto(c, "insert", locals)
      BY <2>1, <2>3
    <3> QED
      BY <3>2, <3>3, <3>4, GotoHeld
  <2>4. CASE ~Runnable(s.id)
    <3>1. [job[c] EXCEPT !.todo = @ \ {s}] \in JobType
      BY <1>1 DEF JobType
    <3>2. "load" \in StepType /\ Held("load", [job[c] EXCEPT !.todo = @ \ {s}])
      BY DEF Held, StepType
    <3> QED
      BY <2>1, <2>4, <3>1, <3>2, GotoHeld
  <2> QED
    BY <2>3, <2>4
<1>8. CASE InsertExecution(c)
  <2>1. Goto(c, "spawn", [job[c] EXCEPT !.id = started + 1]) /\ started + 1 \in ExecIds
    BY <1>8, EngineAssumption DEF InsertExecution, Inv, TypeOK, ExecIds
  <2>2. [job[c] EXCEPT !.id = started + 1] \in JobType
    BY <1>1, <2>1 DEF JobType, ExecIds
  <2>3. "spawn" \in StepType /\ Held("spawn", [job[c] EXCEPT !.id = started + 1])
    BY <1>1, <2>1 DEF Held, StepType, JobType
  <2> QED
    BY <2>1, <2>2, <2>3, GotoHeld
<1>9. CASE Spawn(c)
  <2>1. Goto(c, "load", [job[c] EXCEPT !.id = 0, !.row = NoWorkflow])
    BY <1>9 DEF Spawn
  <2>2. [job[c] EXCEPT !.id = 0, !.row = NoWorkflow] \in JobType
    BY <1>1 DEF JobType
  <2>3. "load" \in StepType /\ Held("load", [job[c] EXCEPT !.id = 0, !.row = NoWorkflow])
    BY DEF Held, StepType
  <2> QED
    BY <2>1, <2>2, <2>3, GotoHeld
<1>10. CASE CancelRead(c)
  <2>1. PICK e \in ExecIds :
           /\ execs[e] # NoExecution
           /\ Goto(c, "cancel", [IdleJob EXCEPT !.id = e, !.seen = execs[e].status])
    BY <1>10 DEF CancelRead
  <2>2. execs[e].status \in Status /\ e \in Nat
    BY <2>1 DEF Inv, TypeOK, Execution, ExecIds
  <2>3. [IdleJob EXCEPT !.id = e, !.seen = execs[e].status] \in JobType
    BY <2>2, IdleJobType DEF JobType
  <2>4. "cancel" \in StepType /\ Held("cancel", [IdleJob EXCEPT !.id = e, !.seen = execs[e].status])
    BY DEF Held, StepType, IdleJob
  <2> QED
    BY <2>1, <2>3, <2>4, GotoHeld
<1> QED
  BY <1>2, <1>3, <1>4, <1>5, <1>6, <1>7, <1>8, <1>9, <1>10
  DEF Request, Create, Save, Switch, WriteRow, PurgeExecutions, NoMore, CancelWrite, RequestFault

\* Every step of a request keeps the types of the tables.
LEMMA RequestTables ==
    ASSUME Inv, NEW c \in Clients, Request(c)
    PROVE  TablesOK'
<1>1. TablesOK /\ job[c] \in JobType
  BY DEF Inv, TypeOK, TablesOK
<1>2. CASE Create(c)
  <2>1. created + 1 \in WorkflowIds /\ created + 1 \in 0..MaxWorkflows /\ calls + 1 \in Nat
    BY <1>1, <1>2, EngineAssumption DEF Create, TablesOK, WorkflowIds
  <2>2. PICK d \in Defs : workflows' = [workflows EXCEPT ![created + 1] =
              [active |-> FALSE, version |-> 1, doc |-> NewDocument(d)]]
    BY <1>2 DEF Create
  <2>3. [active |-> FALSE, version |-> 1, doc |-> NewDocument(d)] \in Workflow
    BY RowTypes
  <2> QED
    BY <1>1, <1>2, <2>1, <2>2, <2>3 DEF Create, CanCall, TablesOK
<1>3. CASE Save(c)
  <2>1. PICK active \in BOOLEAN, d \in Defs : WriteRow(c, Saved(c, active, d))
    BY <1>3 DEF Save
  <2>2. Saved(c, active, d) \in Workflow
    BY <1>3, RowTypes DEF Save
  <2> QED
    BY <1>1, <2>1, <2>2 DEF WriteRow, TablesOK
<1>4. CASE Switch(c)
  <2>1. Stored(job[c].id) => SetActive(c, pc[c] = "activate") \in Workflow
    BY <1>4, RowTypes DEF Switch
  <2> QED
    BY <1>1, <1>4, <2>1 DEF Switch, WriteRow, TablesOK
<1>5. CASE DeleteWorkflow(c)
  BY <1>1, <1>5 DEF DeleteWorkflow, TablesOK
<1>6. CASE PurgeExecutions(c)
  BY <1>1, <1>6 DEF PurgeExecutions, TablesOK
<1>7. CASE InsertExecution(c)
  <2>1. started + 1 \in ExecIds /\ started + 1 \in 0..MaxExecs
    BY <1>1, <1>7, EngineAssumption DEF InsertExecution, TablesOK, ExecIds
  <2>2. job[c].row \in Workflow /\ job[c].id \in Nat
    BY <1>1, <1>7 DEF InsertExecution, Inv, HeldInv, JobType
  <2>3. job[c].row.doc.id \in Nat
    BY <2>2 DEF Workflow, Document
  <2>4. [workflow |-> job[c].row.doc.id, status |-> "running",
         tasks |-> [t \in Tasks |-> "notExecuted"], of |-> job[c].id, ran |-> {}] \in Execution
    BY <2>2, <2>3 DEF Execution, Status
  <2> QED
    BY <1>1, <1>7, <2>1, <2>4 DEF InsertExecution, TablesOK
<1>8. CASE Spawn(c)
  <2>1. job[c].id \in ExecIds
    BY <1>8 DEF Spawn, Inv, HeldInv
  <2>2. [thread[job[c].id] EXCEPT !.phase = "run"] \in Thread
    BY <1>1, <2>1 DEF TablesOK, Thread
  <2> QED
    BY <1>1, <1>8, <2>1, <2>2 DEF Spawn, TablesOK
<1>9. CASE CancelWrite(c)
  <2>1. job[c].id \in ExecIds /\ "cancelled" \in Status
    BY <1>9 DEF CancelWrite, Inv, HeldInv, Status
  <2>2. execs' = execs \/ SetStatus(job[c].id, "cancelled")
    BY <1>9 DEF CancelWrite
  <2>3. execs' \in [ExecIds -> Execution \cup {NoExecution}]
    BY <1>1, <2>1, <2>2, StatusTypes DEF TablesOK
  <2> QED
    BY <1>1, <1>9, <2>3 DEF CancelWrite, TablesOK
<1>10. CASE \/ ReadWorkflow(c) \/ RequestRun(c) \/ LoadWorkflow(c) \/ NoMore(c)
            \/ CancelRead(c) \/ RequestFault(c)
  <2>1. UNCHANGED <<workflows, created, execs, started, thread>>
    BY <1>10 DEF ReadWorkflow, RequestRun, LoadWorkflow, NoMore, CancelRead, RequestFault
  <2>2. calls' = calls \/ calls' = calls + 1
    BY <1>10
    DEF ReadWorkflow, RequestRun, LoadWorkflow, NoMore, CancelRead, RequestFault, CanCall
  <2> QED
    BY <1>1, <2>1, <2>2 DEF TablesOK
<1> QED
  BY <1>2, <1>3, <1>4, <1>5, <1>6, <1>7, <1>8, <1>9, <1>10 DEF Request

-----------------------------------------------------------------------------
(* Steps of threads.                                                       *)

LEMMA RunTables ==
    ASSUME Inv, NEW e \in ExecIds, Run(e)
    PROVE  TablesOK' /\ UNCHANGED <<workflows, created, started, pc, job, calls>>
<1>1. TablesOK /\ thread[e] \in Thread /\ NoThread \in Thread
  BY DEF Inv, TypeOK, TablesOK, Thread, NoThread
<1>2. CASE RunTasks(e)
  <2>1. PICK ran \in SUBSET Tasks, ok \in BOOLEAN, failed \in SUBSET Tasks :
          /\ thread' = [thread EXCEPT ![e] =
                [phase |-> "record", left |-> ran, failed |-> failed, ok |-> ok]]
          /\ execs' = IF execs[e] = NoExecution THEN execs
                      ELSE [execs EXCEPT ![e].ran = ran]
    BY <1>2 DEF RunTasks
  <2>2. execs[e] # NoExecution => [execs[e] EXCEPT !.ran = ran] \in Execution
    BY <1>1, <2>1 DEF TablesOK, Execution
  <2>3. [phase |-> "record", left |-> ran, failed |-> failed, ok |-> ok] \in Thread
    BY <2>1 DEF Thread
  <2> QED
    BY <1>1, <1>2, <2>1, <2>2, <2>3 DEF RunTasks, TablesOK
<1>3. CASE RecordTask(e)
  <2>1. PICK t \in thread[e].left :
          /\ execs' = IF execs[e] = NoExecution THEN execs
                      ELSE [execs EXCEPT ![e].tasks[t] =
                               IF t \in thread[e].failed THEN "failed" ELSE "success"]
          /\ thread' = [thread EXCEPT ![e].left = @ \ {t}]
    BY <1>3 DEF RecordTask
  <2>2. ASSUME execs[e] # NoExecution, NEW r \in {"failed", "success"}
        PROVE  [execs[e] EXCEPT !.tasks[t] = r] \in Execution
    <3>1. PICK x \in Execution : x = execs[e]
      BY <1>1, <2>2 DEF TablesOK
    <3>2. [x.tasks EXCEPT ![t] = r] \in [Tasks -> {"notExecuted", "success", "failed"}]
      BY <3>1 DEF Execution
    <3> QED
      BY <3>1, <3>2 DEF Execution
  <2>3. [thread[e] EXCEPT !.left = @ \ {t}] \in Thread
    BY <1>1 DEF Thread
  <2> QED
    BY <1>1, <1>3, <2>1, <2>2, <2>3 DEF RecordTask, TablesOK
<1>4. CASE Finish(e) \/ FinishFailing(e)
  <2>1. SetStatus(e, "success") \/ SetStatus(e, "failed")
    BY <1>4 DEF Finish, FinishFailing
  <2>2. execs' \in [ExecIds -> Execution \cup {NoExecution}]
    BY <2>1, StatusTypes DEF Status
  <2> QED
    BY <1>1, <1>4, <2>2 DEF Finish, FinishFailing, TablesOK
<1>5. CASE ThreadFault(e)
  <2>1. [thread[e] EXCEPT !.phase = "failing"] \in Thread
    BY <1>1 DEF Thread
  <2> QED
    BY <1>1, <1>5, <2>1 DEF ThreadFault, TablesOK
<1> QED
  BY <1>2, <1>3, <1>4, <1>5 DEF Run

LEMMA InvStep == Inv /\ [Next]_vars => Inv'
<1> SUFFICES ASSUME Inv, [Next]_vars PROVE Inv'
  OBVIOUS
<1>1. ASSUME NEW c \in Clients, Request(c) PROVE Inv'
  BY <1>1, RequestLocals, RequestTables DEF Inv, TypeOK, TablesOK
<1>2. ASSUME NEW e \in ExecIds, Run(e) PROVE Inv'
  BY <1>2, RunTables DEF Inv, TypeOK, TablesOK, HeldInv
<1>3. CASE Restart
  BY <1>3, IdleJobType DEF Restart, Inv, TypeOK, HeldInv, NoThread, Thread
<1>4. CASE UNCHANGED vars
  BY <1>4 DEF vars, Inv, TypeOK, HeldInv
<1> QED
  BY <1>1, <1>2, <1>3, <1>4 DEF Next

LEMMA InvAlways == Spec => []Inv
BY InitTypes, InvStep, PTL DEF Spec

(* Every variable has its type, always: a row of the two tables is whole or *)
(* is not there, and clients and threads hold values of their kinds.       *)
THEOREM TypeCorrect == Spec => []TypeOK
<1>1. Inv => TypeOK
  BY DEF Inv
<1> QED
  BY <1>1, InvAlways, PTL

(* The flag of the row and the flag in its document agree, always.         *)
THEOREM FlagsAgree == Spec => []ActiveAgrees
<1>1. Init => ActiveAgrees
  BY DEF Init, ActiveAgrees, Stored
<1>2. Inv /\ ActiveAgrees /\ [Next]_vars => ActiveAgrees'
  <2> SUFFICES ASSUME Inv, ActiveAgrees, [Next]_vars PROVE ActiveAgrees'
    OBVIOUS
  <2>1. ASSUME NEW c \in Clients, NEW row, WriteRow(c, row),
               Stored(job[c].id) => row \in Workflow /\ row.active = row.doc.active
        PROVE  ActiveAgrees'
    <3>1. ASSUME NEW w \in WorkflowIds, workflows'[w] # NoWorkflow
          PROVE  workflows'[w].active = workflows'[w].doc.active
      <4>1. CASE w = job[c].id /\ Stored(w)
        BY <2>1, <4>1 DEF WriteRow, Inv, TypeOK
      <4>2. CASE ~(w = job[c].id /\ Stored(w))
        BY <2>1, <3>1, <4>2 DEF WriteRow, Inv, TypeOK, ActiveAgrees, Stored
      <4> QED
        BY <4>1, <4>2
    <3> QED
      BY <3>1 DEF ActiveAgrees, Stored
  <2>2. ASSUME NEW c \in Clients, Request(c) PROVE ActiveAgrees'
    <3>1. CASE Create(c)
      <4>1. PICK d \in Defs : workflows' = [workflows EXCEPT ![created + 1] =
                [active |-> FALSE, version |-> 1, doc |-> NewDocument(d)]]
        BY <3>1 DEF Create
      <4>2. NewDocument(d).active = FALSE
        BY DEF NewDocument
      <4>3. ASSUME NEW w \in WorkflowIds, workflows'[w] # NoWorkflow
            PROVE  workflows'[w].active = workflows'[w].doc.active
        BY <4>1, <4>2, <4>3 DEF Inv, TypeOK, ActiveAgrees, Stored
      <4> QED
        BY <4>3 DEF ActiveAgrees, Stored
    <3>2. CASE Save(c)
      <4>1. PICK active \in BOOLEAN, d \in Defs : WriteRow(c, Saved(c, active, d))
        BY <3>2 DEF Save
      <4>2. Saved(c, active, d) \in Workflow
        BY <3>2, RowTypes DEF Save
      <4>3. Saved(c, active, d).active = Saved(c, active, d).doc.active
        BY DEF Saved
      <4> QED
        BY <2>1, <4>1, <4>2, <4>3
    <3>3. CASE Switch(c)
      <4> DEFINE row == SetActive(c, pc[c] = "activate")
      <4>1. Stored(job[c].id) => row \in Workflow
        BY <3>3, RowTypes DEF Switch
      <4>2. ASSUME Stored(job[c].id) PROVE row.active = row.doc.active
        <5>1. workflows[job[c].id] \in Workflow
          BY <4>2 DEF Stored, Inv, TypeOK
        <5>2. PICK doc \in Document : doc = job[c].row.doc
          BY <3>3 DEF Switch, Inv, HeldInv, Workflow
        <5>3. PICK active \in BOOLEAN : active = (pc[c] = "activate")
          OBVIOUS
        <5>4. row.active = active /\ row.doc = [doc EXCEPT !.active = active]
          BY <5>1, <5>2, <5>3 DEF SetActive, Workflow
        <5>5. [doc EXCEPT !.active = active].active = active
          BY <5>2 DEF Document
        <5> HIDE DEF row
        <5> QED
          BY <5>4, <5>5
      <4>3. WriteRow(c, row)
        BY <3>3 DEF Switch
      <4> HIDE DEF row
      <4> QED
        BY <2>1, <4>1, <4>2, <4>3
    <3>4. CASE DeleteWorkflow(c)
      BY <3>4 DEF DeleteWorkflow, Inv, TypeOK, ActiveAgrees, Stored
    <3>5. CASE UNCHANGED workflows
      BY <3>5 DEF ActiveAgrees, Stored
    <3> QED
      BY <2>2, <3>1, <3>2, <3>3, <3>4, <3>5
      DEF Request, ReadWorkflow, PurgeExecutions, RequestRun, LoadWorkflow, NoMore,
          InsertExecution, Spawn, CancelRead, CancelWrite, RequestFault
  <2>3. ASSUME NEW e \in ExecIds, Run(e) PROVE ActiveAgrees'
    BY <2>3, RunTables DEF ActiveAgrees, Stored
  <2>4. CASE Restart \/ UNCHANGED vars
    BY <2>4 DEF Restart, vars, ActiveAgrees, Stored
  <2> QED
    BY <2>2, <2>3, <2>4 DEF Next
<1> QED
  BY <1>1, <1>2, InvAlways, PTL DEF Spec

-----------------------------------------------------------------------------
(* Executions and their threads.                                           *)

\* What a step may do to an execution whose thread does not move: cancel or delete it.
Kept(e) ==
    \/ execs'[e] = NoExecution
    \/ /\ execs[e] # NoExecution
       /\ execs'[e].ran = execs[e].ran /\ execs'[e].tasks = execs[e].tasks
       /\ execs'[e].status = execs[e].status \/ execs'[e].status = "cancelled"

\* No call comes to the point where it starts a thread.
NoneArrives == \A d \in Clients : pc'[d] = "spawn" => pc[d] = "spawn" /\ job'[d].id = job[d].id

\* The requests that insert no execution and start no thread.
Plain(c) ==
    /\ Request(c)
    /\ ~InsertExecution(c) /\ ~Spawn(c)

LEMMA GotoArrives ==
    ASSUME Inv, NEW c \in Clients, NEW step, NEW locals, step # "spawn", Goto(c, step, locals)
    PROVE  NoneArrives
BY DEF Goto, NoneArrives, Inv, TypeOK

LEMMA PlainKeeps ==
    ASSUME Inv, NEW c \in Clients, Plain(c)
    PROVE  /\ UNCHANGED <<started, thread>>
           /\ \A e \in ExecIds : Kept(e)
           /\ NoneArrives
<1>1. UNCHANGED <<started, thread>>
  BY DEF Plain, Request, Create, ReadWorkflow, Save, Switch, WriteRow, DeleteWorkflow,
         PurgeExecutions, RequestRun, LoadWorkflow, NoMore, CancelRead, CancelWrite, RequestFault
<1>2. ASSUME UNCHANGED execs PROVE \A e \in ExecIds : Kept(e)
  BY <1>2 DEF Kept
<1>3. ASSUME UNCHANGED <<pc, job>> PROVE NoneArrives
  BY <1>3 DEF NoneArrives
<1>4. ASSUME Return(c) PROVE NoneArrives
  BY <1>4, GotoArrives DEF Return
<1>5. CASE Create(c)
  BY <1>1, <1>2, <1>3, <1>5 DEF Create
<1>6. CASE ReadWorkflow(c)
  <2>1. UNCHANGED execs
    BY <1>6 DEF ReadWorkflow
  <2>2. PICK call \in {"save", "activate", "deactivate", "delete"}, w \in WorkflowIds :
           Goto(c, call, [IdleJob EXCEPT !.id = w, !.row = workflows[w]])
    BY <1>6 DEF ReadWorkflow
  <2> QED
    BY <1>1, <1>2, <2>1, <2>2, GotoArrives
<1>7. CASE Save(c) \/ Switch(c) \/ NoMore(c) \/ RequestFault(c)
  BY <1>1, <1>2, <1>4, <1>7 DEF Save, Switch, WriteRow, NoMore, RequestFault
<1>8. CASE DeleteWorkflow(c)
  BY <1>1, <1>2, <1>8, GotoArrives DEF DeleteWorkflow
<1>9. CASE PurgeExecutions(c)
  <2>1. ASSUME NEW e \in ExecIds PROVE Kept(e)
    BY <1>9 DEF PurgeExecutions, Kept
  <2> QED
    BY <1>1, <1>4, <1>9, <2>1 DEF PurgeExecutions
<1>10. CASE RequestRun(c)
  <2>1. PICK call \in {"execute", "event", "webhook", "retry"} :
           \E todo \in Wanted(call) : Goto(c, "load", [IdleJob EXCEPT !.todo = todo])
    BY <1>10 DEF RequestRun
  <2>2. PICK todo \in Wanted(call) : Goto(c, "load", [IdleJob EXCEPT !.todo = todo])
    BY <2>1
  <2> QED
    BY <1>1, <1>2, <1>10, <2>2, GotoArrives DEF RequestRun
<1>11. CASE LoadWorkflow(c)
  <2>1. PICK s \in job[c].todo :
          IF Runnable(s.id)
          THEN Goto(c, "insert", [job[c] EXCEPT !.id = s.of, !.row = workflows[s.id],
                                                !.todo = @ \ {s}])
          ELSE Goto(c, "load", [job[c] EXCEPT !.todo = @ \ {s}])
    BY <1>11 DEF LoadWorkflow
  <2>2. NoneArrives
    BY <2>1, GotoArrives
  <2> QED
    BY <1>1, <1>2, <1>11, <2>2 DEF LoadWorkflow
<1>12. CASE CancelRead(c)
  <2>1. PICK e \in ExecIds :
           Goto(c, "cancel", [IdleJob EXCEPT !.id = e, !.seen = execs[e].status])
    BY <1>12 DEF CancelRead
  <2> QED
    BY <1>1, <1>2, <1>12, <2>1, GotoArrives DEF CancelRead
<1>13. CASE CancelWrite(c)
  <2>1. job[c].id \in ExecIds /\ "cancelled" \in Status
    BY <1>13 DEF CancelWrite, Inv, HeldInv, Status
  <2>2. UNCHANGED execs \/ SetStatus(job[c].id, "cancelled")
    BY <1>13 DEF CancelWrite
  <2>3. ASSUME NEW e \in ExecIds PROVE Kept(e)
    BY <2>1, <2>2, StatusTypes DEF Kept
  <2> QED
    BY <1>1, <1>4, <1>13, <2>3 DEF CancelWrite
<1> QED
  BY <1>5, <1>6, <1>7, <1>8, <1>9, <1>10, <1>11, <1>12, <1>13 DEF Plain, Request

LEMMA PlainThreads ==
    ASSUME Inv, ThreadInv, UNCHANGED <<started, thread>>, \A e \in ExecIds : Kept(e), NoneArrives
    PROVE  ThreadInv'
<1>1. ASSUME NEW e \in ExecIds, Unfinished(e) PROVE Unfinished(e)'
  BY <1>1 DEF Unfinished, Kept
<1>2. ASSUME NEW e \in ExecIds
      PROVE  /\ execs'[e] # NoExecution => e <= started'
             /\ thread'[e].phase # "none" => e <= started' /\ Unfinished(e)'
  BY <1>1, <1>2 DEF ThreadInv, Kept
<1>3. ASSUME NEW e \in ExecIds, thread'[e].phase = "record"
      PROVE  /\ thread'[e].ok => thread'[e].failed = {}
             /\ execs'[e] # NoExecution =>
                  \A t \in execs'[e].ran \ (thread'[e].left \cup thread'[e].failed) :
                      execs'[e].tasks[t] = "success"
  BY <1>3 DEF ThreadInv, Kept
<1>4. ASSUME NEW c \in Clients, pc'[c] = "spawn"
      PROVE  /\ job'[c].id <= started'
             /\ thread'[job'[c].id].phase = "none"
             /\ Unfinished(job[c].id)'
             /\ \A d \in Clients \ {c} : pc'[d] = "spawn" => job'[d].id # job'[c].id
  <2>1. pc[c] = "spawn" /\ job'[c].id = job[c].id /\ job[c].id \in ExecIds
    BY <1>4 DEF NoneArrives, Inv, HeldInv
  <2>2. Unfinished(job[c].id)'
    BY <1>4, <2>1 DEF ThreadInv, Unfinished, Kept
  <2> QED
    BY <1>4, <2>1, <2>2 DEF ThreadInv, NoneArrives
<1> QED
  BY <1>2, <1>3, <1>4 DEF ThreadInv, Unfinished, NoneArrives

LEMMA InsertThreads ==
    ASSUME Inv, ThreadInv, NEW c \in Clients, InsertExecution(c)
    PROVE  /\ ThreadInv'
           /\ execs[started + 1] = NoExecution
           /\ \A e \in ExecIds : e # started + 1 => execs'[e] = execs[e]
           /\ execs'[started + 1].status = "running" /\ execs'[started + 1].ran = {}
<1> DEFINE n == started + 1
<1>1. n \in ExecIds /\ started \in Nat /\ started' = n
  BY EngineAssumption DEF InsertExecution, Inv, TypeOK, ExecIds
<1>2. execs[n] = NoExecution /\ thread[n].phase = "none"
  BY <1>1 DEF ThreadInv
<1>3. /\ \A e \in ExecIds : e # n => execs'[e] = execs[e]
      /\ execs'[n].status = "running" /\ execs'[n].ran = {}
      /\ UNCHANGED thread
  BY <1>1 DEF InsertExecution, Inv, TypeOK
<1>4. /\ pc'[c] = "spawn" /\ job'[c].id = n
      /\ \A d \in Clients \ {c} : pc'[d] = pc[d] /\ job'[d] = job[d]
  <2>1. Goto(c, "spawn", [job[c] EXCEPT !.id = n])
    BY DEF InsertExecution
  <2> QED
    BY <2>1 DEF Goto, Inv, TypeOK, JobType
<1> HIDE DEF n
<1>5. \A e \in ExecIds : e \in Nat
  BY EngineAssumption DEF ExecIds
<1>6. ASSUME NEW e \in ExecIds
      PROVE  /\ execs'[e] # NoExecution => e <= started'
             /\ thread'[e].phase # "none" => e <= started' /\ Unfinished(e)'
             /\ thread'[e].phase = "record" =>
                  /\ thread'[e].ok => thread'[e].failed = {}
                  /\ execs'[e] # NoExecution =>
                       \A t \in execs'[e].ran \ (thread'[e].left \cup thread'[e].failed) :
                           execs'[e].tasks[t] = "success"
  <2>1. CASE e = n
    BY <1>1, <1>2, <1>3, <1>5, <2>1
  <2>2. CASE e # n
    <3>1. e <= started => e <= n
      BY <1>1, <1>5 DEF n
    <3> QED
      BY <1>1, <1>3, <2>2, <3>1 DEF ThreadInv, Unfinished
  <2> QED
    BY <2>1, <2>2
<1>7. ASSUME NEW d \in Clients, pc'[d] = "spawn"
      PROVE  /\ job'[d].id <= started'
             /\ thread'[job'[d].id].phase = "none"
             /\ Unfinished(job[d].id)'
             /\ job'[d].id \in ExecIds
             /\ d # c => job'[d].id # n
  <2>1. CASE d = c
    BY <1>1, <1>2, <1>3, <1>4, <1>5, <2>1 DEF Unfinished
  <2>2. CASE d # c
    <3>1. /\ job[d].id \in ExecIds /\ job[d].id <= started /\ Unfinished(job[d].id)
          /\ thread[job[d].id].phase = "none" /\ job'[d].id = job[d].id
      BY <1>4, <1>7, <2>2 DEF ThreadInv, Inv, HeldInv
    <3>2. job[d].id # n /\ job[d].id <= n
      BY <1>1, <1>5, <3>1 DEF n
    <3> QED
      BY <1>1, <1>3, <3>1, <3>2 DEF Unfinished
  <2> QED
    BY <2>1, <2>2
<1>8. ASSUME NEW d \in Clients, NEW x \in Clients \ {d}, pc'[d] = "spawn", pc'[x] = "spawn"
      PROVE  job'[x].id # job'[d].id
  <2>1. CASE d = c \/ x = c
    BY <1>4, <1>7, <1>8, <2>1
  <2>2. CASE d # c /\ x # c
    BY <1>4, <1>8, <2>2 DEF ThreadInv
  <2> QED
    BY <2>1, <2>2
<1> QED
  BY <1>2, <1>3, <1>6, <1>7, <1>8 DEF ThreadInv, Unfinished, n

LEMMA SpawnThreads ==
    ASSUME Inv, ThreadInv, NEW c \in Clients, Spawn(c)
    PROVE  ThreadInv' /\ UNCHANGED execs
<1> DEFINE n == job[c].id
<1>1. /\ n \in ExecIds /\ n <= started /\ Unfinished(n)
      /\ \A d \in Clients \ {c} : pc[d] = "spawn" => job[d].id # n
  BY DEF Spawn, ThreadInv, Inv, HeldInv
<1>2. /\ UNCHANGED <<execs, started>>
      /\ thread'[n].phase = "run"
      /\ \A e \in ExecIds : e # n => thread'[e] = thread[e]
  BY <1>1 DEF Spawn, Inv, TypeOK, Thread
<1>3. /\ pc'[c] = "load"
      /\ \A d \in Clients \ {c} : pc'[d] = pc[d] /\ job'[d] = job[d]
  <2>1. Goto(c, "load", [job[c] EXCEPT !.id = 0, !.row = NoWorkflow])
    BY DEF Spawn
  <2> QED
    BY <2>1 DEF Goto, Inv, TypeOK
<1> HIDE DEF n
<1>4. ASSUME NEW e \in ExecIds
      PROVE  /\ execs'[e] # NoExecution => e <= started'
             /\ thread'[e].phase # "none" => e <= started' /\ Unfinished(e)'
             /\ thread'[e].phase = "record" =>
                  /\ thread'[e].ok => thread'[e].failed = {}
                  /\ execs'[e] # NoExecution =>
                       \A t \in execs'[e].ran \ (thread'[e].left \cup thread'[e].failed) :
                           execs'[e].tasks[t] = "success"
  <2>1. CASE e = n
    BY <1>1, <1>2, <2>1 DEF ThreadInv, Unfinished
  <2>2. CASE e # n
    BY <1>2, <2>2 DEF ThreadInv, Unfinished
  <2> QED
    BY <2>1, <2>2
<1>5. ASSUME NEW d \in Clients, pc'[d] = "spawn"
      PROVE  /\ job'[d].id <= started'
             /\ thread'[job'[d].id].phase = "none"
             /\ Unfinished(job[d].id)'
             /\ \A x \in Clients \ {d} : pc'[x] = "spawn" => job'[x].id # job'[d].id
  <2>1. d # c /\ pc[d] = "spawn" /\ job'[d] = job[d] /\ job[d].id \in ExecIds
    BY <1>3, <1>5 DEF Inv, HeldInv
  <2>2. /\ job[d].id # n /\ job[d].id <= started /\ thread[job[d].id].phase = "none"
        /\ Unfinished(job[d].id)
    BY <1>1, <2>1 DEF ThreadInv
  <2>3. ASSUME NEW x \in Clients \ {d}, pc'[x] = "spawn" PROVE job'[x].id # job'[d].id
    BY <1>3, <2>1, <2>3 DEF ThreadInv
  <2> QED
    BY <1>2, <2>1, <2>2, <2>3 DEF Unfinished
<1> QED
  BY <1>2, <1>4, <1>5 DEF ThreadInv, Unfinished

\* What the thread of e may do: nothing to the others, and once it is done it is gone.
LEMMA RunThreads ==
    ASSUME Inv, ThreadInv, NEW e \in ExecIds, Run(e)
    PROVE  /\ ThreadInv'
           /\ \A x \in ExecIds \ {e} : execs'[x] = execs[x]
           /\ Unfinished(e)
           /\ execs[e] = NoExecution => execs'[e] = NoExecution
           /\ \/ UNCHANGED execs
              \/ thread'[e].phase = "none"
              \/ execs[e] # NoExecution => execs'[e].status = execs[e].status
           /\ execs'[e] # NoExecution /\ execs'[e].status = "success" =>
                 \A t \in execs'[e].ran : execs'[e].tasks[t] = "success"
<1>1. thread[e].phase # "none"
  BY DEF Run, RunTasks, RecordTask, Finish, RecordedAll, FinishFailing, ThreadFault
<1>2. e <= started /\ Unfinished(e)
  BY <1>1 DEF ThreadInv
<1>3. UNCHANGED <<started, pc, job>>
  BY RunTables
<1>4. /\ \A x \in ExecIds \ {e} : execs'[x] = execs[x] /\ thread'[x] = thread[x]
      /\ execs[e] = NoExecution => execs'[e] = NoExecution
  BY DEF Run, RunTasks, RecordTask, Finish, RecordedAll, FinishFailing, SetStatus, ThreadFault,
         Inv, TypeOK
<1> DEFINE Recorded(x) == thread'[x].phase = "record" =>
                  /\ thread'[x].ok => thread'[x].failed = {}
                  /\ execs'[x] # NoExecution =>
                       \A t \in execs'[x].ran \ (thread'[x].left \cup thread'[x].failed) :
                           execs'[x].tasks[t] = "success"
           Quiet == execs[e] # NoExecution => execs'[e].status = execs[e].status
           Honest == execs'[e] # NoExecution /\ execs'[e].status = "success" =>
                        \A t \in execs'[e].ran : execs'[e].tasks[t] = "success"
<1>5. ASSUME thread'[e].phase # "none" => Unfinished(e)', Recorded(e)
      PROVE  ThreadInv'
  <2>1. ASSUME NEW c \in Clients, pc'[c] = "spawn"
        PROVE  /\ job'[c].id <= started'
               /\ thread'[job'[c].id].phase = "none"
               /\ Unfinished(job[c].id)'
               /\ \A d \in Clients \ {c} : pc'[d] = "spawn" => job'[d].id # job'[c].id
    <3>1. job[c].id \in ExecIds \ {e} /\ Unfinished(job[c].id)
      BY <1>1, <1>3, <2>1 DEF ThreadInv, Inv, HeldInv
    <3> QED
      BY <1>3, <1>4, <2>1, <3>1 DEF ThreadInv, Unfinished
  <2>2. ASSUME NEW x \in ExecIds
        PROVE  /\ execs'[x] # NoExecution => x <= started'
               /\ thread'[x].phase # "none" => x <= started' /\ Unfinished(x)'
               /\ Recorded(x)
    <3>1. CASE x = e
      BY <1>2, <1>3, <1>5, <3>1
    <3>2. CASE x # e
      BY <1>3, <1>4, <3>2 DEF ThreadInv, Unfinished
    <3> QED
      BY <3>1, <3>2
  <2> QED
    BY <1>3, <2>1, <2>2 DEF ThreadInv, Unfinished
<1>6. ASSUME Quiet PROVE Unfinished(e)' /\ Honest
  BY <1>2, <1>4, <1>6 DEF Unfinished
<1>7. CASE RunTasks(e)
  <2>1. PICK ran \in SUBSET Tasks, ok \in BOOLEAN :
          \E failed \in {f \in SUBSET ran : \A t, u \in f : t = u} :
              /\ failed = {} <=> ok \/ ran = {}
              /\ thread' = [thread EXCEPT ![e] =
                    [phase |-> "record", left |-> ran, failed |-> failed, ok |-> ok]]
              /\ execs' = IF execs[e] = NoExecution THEN execs
                          ELSE [execs EXCEPT ![e].ran = ran]
    BY <1>7 DEF RunTasks
  <2>2. PICK failed \in {f \in SUBSET ran : \A t, u \in f : t = u} :
              /\ failed = {} <=> ok \/ ran = {}
              /\ thread' = [thread EXCEPT ![e] =
                    [phase |-> "record", left |-> ran, failed |-> failed, ok |-> ok]]
              /\ execs' = IF execs[e] = NoExecution THEN execs
                          ELSE [execs EXCEPT ![e].ran = ran]
    BY <2>1
  <2>3. /\ thread'[e].left = ran /\ thread'[e].failed = failed /\ thread'[e].ok = ok
        /\ execs[e] # NoExecution => execs'[e].ran = ran /\ execs'[e].status = execs[e].status
    BY <2>2 DEF Inv, TypeOK, Execution
  <2> QED
    BY <1>2, <1>4, <1>5, <1>6, <2>2, <2>3
<1>8. CASE RecordTask(e)
  <2>1. PICK t \in thread[e].left :
          /\ execs' = IF execs[e] = NoExecution THEN execs
                      ELSE [execs EXCEPT ![e].tasks[t] =
                               IF t \in thread[e].failed THEN "failed" ELSE "success"]
          /\ thread' = [thread EXCEPT ![e].left = @ \ {t}]
    BY <1>8 DEF RecordTask
  <2>2. /\ thread'[e].phase = "record" /\ thread'[e].ok = thread[e].ok
        /\ thread'[e].failed = thread[e].failed /\ thread'[e].left = thread[e].left \ {t}
    BY <1>8, <2>1 DEF RecordTask, Inv, TypeOK, Thread
  <2>3. ASSUME execs[e] # NoExecution
        PROVE  /\ execs'[e].ran = execs[e].ran /\ execs'[e].status = execs[e].status
               /\ \A u \in Tasks \ {t} : execs'[e].tasks[u] = execs[e].tasks[u]
               /\ t \notin thread[e].failed => execs'[e].tasks[t] = "success"
    <3>1. PICK x \in Execution : x = execs[e]
      BY <2>3 DEF Inv, TypeOK
    <3>2. execs'[e] = [x EXCEPT !.tasks[t] = IF t \in thread[e].failed THEN "failed" ELSE "success"]
      BY <2>1, <2>3, <3>1 DEF Inv, TypeOK
    <3>3. t \in Tasks
      BY <2>1 DEF Inv, TypeOK, Thread
    <3> QED
      BY <3>1, <3>2, <3>3 DEF Execution
  <2>4. Recorded(e)
    <3>1. thread[e].ok => thread[e].failed = {}
      BY <1>8 DEF RecordTask, ThreadInv
    <3>2. ASSUME execs'[e] # NoExecution,
                 NEW u \in execs'[e].ran \ (thread'[e].left \cup thread'[e].failed)
          PROVE  execs'[e].tasks[u] = "success"
      <4>1. execs[e] # NoExecution /\ execs[e] \in Execution
        BY <1>4, <3>2 DEF Inv, TypeOK
      <4>2. u \in Tasks /\ u \in execs[e].ran
        BY <2>3, <3>2, <4>1 DEF Execution
      <4>3. CASE u = t
        BY <2>2, <2>3, <3>2, <4>1, <4>3
      <4>4. CASE u # t
        <5>1. execs[e].tasks[u] = "success"
          BY <1>8, <2>2, <3>2, <4>1, <4>2, <4>4 DEF RecordTask, ThreadInv
        <5> QED
          BY <2>3, <4>1, <4>2, <4>4, <5>1
      <4> QED
        BY <4>3, <4>4
    <3> QED
      BY <2>2, <3>1, <3>2
  <2> QED
    BY <1>2, <1>4, <1>5, <1>6, <2>3, <2>4
<1>9. CASE Finish(e)
  <2>1. /\ thread'[e].phase = "none"
        /\ SetStatus(e, IF thread[e].ok THEN "success" ELSE "failed")
        /\ thread[e].phase = "record" /\ thread[e].left = {}
    BY <1>9 DEF Finish, RecordedAll, NoThread, Inv, TypeOK
  <2>2. Honest
    <3>1. ASSUME execs'[e] # NoExecution, execs'[e].status = "success", NEW t \in execs'[e].ran
          PROVE  execs'[e].tasks[t] = "success"
      <4>1. /\ execs[e] # NoExecution
            /\ execs'[e].status = IF thread[e].ok THEN "success" ELSE "failed"
            /\ execs'[e].ran = execs[e].ran /\ execs'[e].tasks = execs[e].tasks
        <5>1. (IF thread[e].ok THEN "success" ELSE "failed") \in Status
          BY DEF Status
        <5> QED
          BY <1>4, <2>1, <3>1, <5>1, StatusTypes
      <4>2. thread[e].ok /\ thread[e].failed = {}
        BY <2>1, <3>1, <4>1 DEF ThreadInv
      <4> QED
        BY <2>1, <3>1, <4>1, <4>2 DEF ThreadInv
    <3> QED
      BY <3>1
  <2> QED
    BY <1>2, <1>4, <1>5, <2>1, <2>2
<1>10. CASE FinishFailing(e)
  <2>1. /\ thread'[e].phase = "none" /\ SetStatus(e, "failed") /\ "failed" \in Status
    BY <1>10 DEF FinishFailing, NoThread, Inv, TypeOK, Status
  <2>2. Honest
    BY <1>4, <2>1, StatusTypes
  <2> QED
    BY <1>2, <1>4, <1>5, <2>1, <2>2
<1>11. CASE ThreadFault(e)
  <2>1. UNCHANGED execs /\ thread'[e].phase # "record"
    BY <1>11 DEF ThreadFault, NoThread, Inv, TypeOK, Thread
  <2> QED
    BY <1>2, <1>4, <1>5, <1>6, <2>1
<1> QED
  BY <1>7, <1>8, <1>9, <1>10, <1>11 DEF Run

LEMMA RestartThreads == Inv /\ ThreadInv /\ Restart => ThreadInv' /\ UNCHANGED execs
BY DEF Inv, TypeOK, Restart, ThreadInv, Unfinished, NoThread

LEMMA IdleThreads == Inv /\ ThreadInv /\ UNCHANGED vars => ThreadInv'
BY DEF vars, ThreadInv, Unfinished

LEMMA ThreadStep == Inv /\ ThreadInv /\ [Next]_vars => ThreadInv'
<1> SUFFICES ASSUME Inv, ThreadInv, [Next]_vars PROVE ThreadInv'
  OBVIOUS
<1>1. ASSUME NEW c \in Clients, Request(c) PROVE ThreadInv'
  BY <1>1, PlainKeeps, PlainThreads, InsertThreads, SpawnThreads DEF Plain
<1>2. ASSUME NEW e \in ExecIds, Run(e) PROVE ThreadInv'
  BY <1>2, RunThreads
<1> QED
  BY <1>1, <1>2, RestartThreads, IdleThreads DEF Next

LEMMA ThreadAlways == Spec => [](Inv /\ ThreadInv)
<1>1. Init => ThreadInv
  BY DEF Init, ThreadInv, Unfinished, NoThread
<1> QED
  BY <1>1, InitTypes, InvStep, ThreadStep, PTL DEF Spec

(* A successful execution has a record of every task that ran, always.     *)
THEOREM Recorded == Spec => []RunsRecorded
<1>1. Init => RunsRecorded
  BY DEF Init, RunsRecorded
<1>2. Inv /\ ThreadInv /\ RunsRecorded /\ [Next]_vars => RunsRecorded'
  <2> SUFFICES ASSUME Inv, ThreadInv, RunsRecorded, [Next]_vars,
                      NEW e \in ExecIds, execs'[e] # NoExecution, execs'[e].status = "success"
               PROVE  \A t \in execs'[e].ran : execs'[e].tasks[t] = "success"
    BY DEF RunsRecorded
  <2>1. CASE Kept(e)
    BY <2>1 DEF Kept, RunsRecorded
  <2>2. CASE UNCHANGED execs
    BY <2>2 DEF RunsRecorded
  <2>3. ASSUME NEW c \in Clients, Request(c)
        PROVE  \A t \in execs'[e].ran : execs'[e].tasks[t] = "success"
    <3>1. CASE Plain(c)
      BY <2>1, <3>1, PlainKeeps
    <3>2. CASE InsertExecution(c)
      <4>1. e # started + 1
        BY <3>2, InsertThreads
      <4> QED
        BY <3>2, <4>1, InsertThreads DEF RunsRecorded
    <3>3. CASE Spawn(c)
      BY <2>2, <3>3, SpawnThreads
    <3> QED
      BY <2>3, <3>1, <3>2, <3>3 DEF Plain
  <2>4. ASSUME NEW x \in ExecIds, Run(x)
        PROVE  \A t \in execs'[e].ran : execs'[e].tasks[t] = "success"
    BY <2>4, RunThreads DEF RunsRecorded
  <2>5. CASE Restart \/ UNCHANGED vars
    BY <2>2, <2>5, RestartThreads DEF vars
  <2> QED
    BY <2>3, <2>4, <2>5 DEF Next
<1> QED
  BY <1>1, <1>2, ThreadAlways, PTL DEF Spec

(* The status of a finished execution changes in two ways only: a cancel   *)
(* that still read running, and the end of a run that was cancelled.       *)
THEOREM FinalStatus == Spec => FinalIsFinal
<1> DEFINE Allowed(e) ==
              \/ execs'[e].status = "cancelled"
                    /\ \E c \in Clients : pc[c] = "cancel" /\ job[c].id = e /\ job[c].seen = "running"
              \/ execs[e].status = "cancelled"
                    /\ thread[e].phase # "none" /\ thread'[e].phase = "none"
           Step == \A e \in ExecIds :
              Final(e) /\ execs'[e] # NoExecution /\ execs'[e].status # execs[e].status => Allowed(e)
<1>1. Inv /\ ThreadInv /\ [Next]_vars => Step
  <2> SUFFICES ASSUME Inv, ThreadInv, [Next]_vars, NEW e \in ExecIds, Final(e),
                      execs'[e] # NoExecution, execs'[e].status # execs[e].status
               PROVE  Allowed(e)
    OBVIOUS
  <2>1. execs[e] # NoExecution
    BY DEF Final
  <2>2. ASSUME NEW c \in Clients, Request(c) PROVE Allowed(e)
    <3>1. CASE CancelWrite(c)
      <4>1. /\ pc[c] = "cancel" /\ job[c].seen = "running" /\ job[c].id \in ExecIds
            /\ SetStatus(job[c].id, "cancelled") /\ "cancelled" \in Status
        BY <3>1 DEF CancelWrite, Inv, HeldInv, Status
      <4> QED
        BY <2>1, <4>1, StatusTypes
    <3>2. CASE InsertExecution(c)
      BY <2>1, <3>2, InsertThreads
    <3>3. CASE PurgeExecutions(c)
      BY <3>3 DEF PurgeExecutions
    <3>4. CASE UNCHANGED execs
      BY <3>4
    <3> QED
      BY <2>2, <3>1, <3>2, <3>3, <3>4
      DEF Request, Create, ReadWorkflow, Save, Switch, WriteRow, DeleteWorkflow, RequestRun,
          LoadWorkflow, NoMore, Spawn, CancelRead, RequestFault
  <2>3. ASSUME NEW x \in ExecIds, Run(x) PROVE Allowed(e)
    <3>1. x = e /\ Unfinished(e) /\ thread'[e].phase = "none"
      BY <2>1, <2>3, RunThreads
    <3>2. execs[e].status = "cancelled"
      BY <2>1, <3>1 DEF Unfinished, Final
    <3>3. thread[e].phase # "none"
      BY <2>3, <3>1
      DEF Run, RunTasks, RecordTask, Finish, RecordedAll, FinishFailing, ThreadFault
    <3> QED
      BY <3>1, <3>2, <3>3
  <2>4. CASE Restart \/ UNCHANGED vars
    BY <2>4 DEF Restart, vars
  <2> QED
    BY <2>2, <2>3, <2>4 DEF Next
<1>2. Inv /\ ThreadInv /\ [Next]_vars => [Step]_vars
  BY <1>1
<1> QED
  BY <1>2, ThreadAlways, PTL DEF Spec, FinalIsFinal

-----------------------------------------------------------------------------
(* Refinement: one call at a time, the stored workflows are a book.        *)

OneCall == \A c, d \in Clients : c = d

\* The entry of a row in the book.
Entry(row) == [version |-> row.version, active |-> row.doc.active, def |-> row.doc.def]

LEMMA BookOf ==
    ASSUME Inv
    PROVE  /\ Book \in [WorkflowIds -> {Entry(r) : r \in Workflow} \cup {NoWorkflow}]
           /\ \A w \in WorkflowIds : Stored(w) => Book[w] = Entry(workflows[w])
           /\ \A w \in WorkflowIds : ~Stored(w) => Book[w] = NoWorkflow
           /\ \A r \in Workflow : Entry(r) # NoWorkflow
<1>1. workflows \in [WorkflowIds -> Workflow \cup {NoWorkflow}]
  BY DEF Inv, TypeOK
<1>2. \A w \in WorkflowIds : Book[w] = IF Stored(w) THEN Entry(workflows[w]) ELSE NoWorkflow
  BY DEF Book, Entry
<1>3. ASSUME NEW r \in Workflow PROVE Entry(r) # NoWorkflow
  <2>1. Entry(r) \in [version : Nat, active : BOOLEAN, def : Defs]
    BY DEF Entry, Workflow, Document
  <2> QED
    BY <2>1, NoRowAssumption
<1>4. Book \in [WorkflowIds -> {Entry(r) : r \in Workflow} \cup {NoWorkflow}]
  <2>1. ASSUME NEW w \in WorkflowIds
        PROVE  Book[w] \in {Entry(r) : r \in Workflow} \cup {NoWorkflow}
    BY <1>1, <1>2 DEF Stored
  <2> QED
    BY <2>1 DEF Book
<1> QED
  BY <1>2, <1>3, <1>4

\* A step that writes one row, and a step that writes none.
LEMMA BookWrite ==
    ASSUME Inv, Inv', NEW w \in WorkflowIds, NEW row \in Workflow \cup {NoWorkflow},
           workflows' = [workflows EXCEPT ![w] = row]
    PROVE  Book' = [Book EXCEPT ![w] = IF row = NoWorkflow THEN NoWorkflow ELSE Entry(row)]
<1> DEFINE n == IF row = NoWorkflow THEN NoWorkflow ELSE Entry(row)
<1>1. \A v \in WorkflowIds : workflows'[v] = IF v = w THEN row ELSE workflows[v]
  BY DEF Inv, TypeOK
<1>2. Book' = [v \in WorkflowIds |-> IF v = w THEN n ELSE Book[v]]
  BY <1>1 DEF Book, Stored, Entry
<1>3. [Book EXCEPT ![w] = n] = [v \in WorkflowIds |-> IF v = w THEN n ELSE Book[v]]
  BY DEF Book
<1> QED
  BY <1>2, <1>3

LEMMA BookStutter == UNCHANGED workflows => UNCHANGED Book
BY DEF Book, Stored

\* One call at a time, what it has read is still so when it writes.
LEMMA FreshStep ==
    ASSUME OneCall, Inv, FreshInv, [Next]_vars
    PROVE  FreshInv'
<1>0. pc \in [Clients -> StepType] /\ job \in [Clients -> JobType]
  BY DEF Inv, TypeOK
<1>1. ASSUME NEW c \in Clients, Request(c) PROVE FreshInv'
  <2>1. Clients = {c}
    BY DEF OneCall
  <2>2. CASE ReadWorkflow(c)
    <3>1. PICK call \in {"save", "activate", "deactivate", "delete"}, w \in WorkflowIds :
             /\ Stored(w) /\ UNCHANGED workflows
             /\ call = "activate" => workflows[w].doc.def \in ValidDefs
             /\ Goto(c, call, [IdleJob EXCEPT !.id = w, !.row = workflows[w]])
      BY <2>2 DEF ReadWorkflow
    <3> DEFINE locals == [IdleJob EXCEPT !.id = w, !.row = workflows[w]]
    <3>2. locals.id = w /\ locals.row = workflows[w]
      BY DEF IdleJob
    <3> HIDE DEF locals
    <3>3. pc'[c] = call /\ job'[c] = locals
      BY <1>0, <3>1 DEF Goto, locals
    <3> QED
      BY <2>1, <3>1, <3>2, <3>3 DEF FreshInv, Stored
  <2>3. CASE pc'[c] \notin {"save", "activate", "deactivate"}
    BY <2>1, <2>3 DEF FreshInv
  <2>4. CASE UNCHANGED <<workflows, pc, job>>
    BY <2>4 DEF FreshInv, Stored
  <2>5. CASE Create(c)
    BY <1>0, <2>3, <2>5 DEF Create, CanCall
  <2> QED
    BY <1>0, <1>1, <2>2, <2>3, <2>4, <2>5
    DEF Request, Save, Switch, WriteRow, DeleteWorkflow, PurgeExecutions, RequestRun,
        LoadWorkflow, NoMore, InsertExecution, Spawn, CancelRead, CancelWrite, RequestFault,
        Return, Goto
<1>2. CASE Restart
  BY <1>2 DEF Restart, FreshInv
<1>3. CASE UNCHANGED <<workflows, pc, job>>
  BY <1>3 DEF FreshInv, Stored
<1> QED
  BY <1>1, <1>2, <1>3
  DEF Next, vars, Run, RunTasks, RecordTask, Finish, FinishFailing, ThreadFault

LEMMA IdsStep ==
    ASSUME Inv, Inv', IdsInv, [Next]_vars
    PROVE  IdsInv'
<1>0. workflows \in [WorkflowIds -> Workflow \cup {NoWorkflow}] /\ created \in Nat
  BY EngineAssumption DEF Inv, TypeOK
<1>1. CASE UNCHANGED <<workflows, created>>
  BY <1>1 DEF IdsInv, Stored
<1>2. ASSUME NEW c \in Clients, Request(c) PROVE IdsInv'
  <2>1. CASE Create(c)
    <3>1. created' = created + 1
          /\ \A w \in WorkflowIds : w # created + 1 => workflows'[w] = workflows[w]
      BY <1>0, <2>1 DEF Create
    <3> QED
      BY <1>0, <3>1 DEF IdsInv, Stored, WorkflowIds
  <2>2. CASE Save(c) \/ Switch(c)
    <3>1. created' = created /\ \A w \in WorkflowIds : ~Stored(w) => ~Stored(w)'
      BY <1>0, <2>2 DEF Save, Switch, WriteRow, Stored
    <3> QED
      BY <3>1 DEF IdsInv
  <2>3. CASE DeleteWorkflow(c)
    BY <1>0, <2>3 DEF DeleteWorkflow, IdsInv, Stored
  <2> QED
    BY <1>1, <1>2, <2>1, <2>2, <2>3
    DEF Request, ReadWorkflow, PurgeExecutions, RequestRun, LoadWorkflow, NoMore,
        InsertExecution, Spawn, CancelRead, CancelWrite, RequestFault
<1> QED
  BY <1>1, <1>2
  DEF Next, vars, Restart, Run, RunTasks, RecordTask, Finish, FinishFailing, ThreadFault

\* Every step of the engine is a step of the book, or leaves it alone.
LEMMA BookStep ==
    ASSUME OneCall, Inv, Inv', IdsInv, FreshInv, [Next]_vars
    PROVE  [Versions!Next]_Book
<1>0. workflows \in [WorkflowIds -> Workflow \cup {NoWorkflow}]
  BY DEF Inv, TypeOK
<1>1. ASSUME NEW c \in Clients, Request(c) PROVE [Versions!Next]_Book
  <2>1. CASE Create(c)
    <3>1. PICK d \in Defs : workflows' = [workflows EXCEPT ![created + 1] =
              [active |-> FALSE, version |-> 1, doc |-> NewDocument(d)]]
      BY <2>1 DEF Create
    <3> DEFINE w == created + 1
               row == [active |-> FALSE, version |-> 1, doc |-> NewDocument(d)]
    <3>2. w \in WorkflowIds /\ row \in Workflow
      BY <2>1, RowTypes, EngineAssumption DEF Create, Inv, TypeOK, WorkflowIds
    <3>3. ~Stored(w)
      BY <3>2, EngineAssumption DEF IdsInv, Inv, TypeOK
    <3>4. Entry(row) = [version |-> 1, active |-> FALSE, def |-> d]
      BY DEF Entry, NewDocument
    <3>5. Book' = [Book EXCEPT ![w] = Entry(row)]
      BY <3>1, <3>2, BookWrite, NoRowAssumption
    <3>6. Versions!Create(w)
      BY <3>2, <3>3, <3>4, <3>5, BookOf DEF Versions!Create
    <3> QED
      BY <3>2, <3>6 DEF Versions!Next
  <2>2. CASE Save(c)
    <3>1. PICK active \in BOOLEAN, d \in Defs : WriteRow(c, Saved(c, active, d))
      BY <2>2 DEF Save
    <3> DEFINE w == job[c].id
               row == Saved(c, active, d)
    <3>2. /\ w \in WorkflowIds /\ Stored(w) /\ job[c].row = workflows[w]
          /\ row \in Workflow
          /\ workflows' = [workflows EXCEPT ![w] = row]
      BY <2>2, <3>1, RowTypes DEF Save, FreshInv, Stored, WriteRow
    <3>3. Entry(row) = [version |-> Entry(workflows[w]).version + 1, active |-> active, def |-> d]
      BY <3>2 DEF Entry, Saved
    <3> HIDE DEF row, w
    <3>4. Book' = [Book EXCEPT ![w] = Entry(row)]
      BY <3>2, BookWrite, NoRowAssumption
    <3>5. Book[w] = Entry(workflows[w]) /\ Book[w] # NoWorkflow
      BY <1>0, <3>2, BookOf DEF Stored
    <3>6. Book' = [Book EXCEPT ![w] = [version |-> @.version + 1, active |-> active, def |-> d]]
      BY <3>3, <3>4, <3>5
    <3>7. Versions!Save(w)
      BY <3>5, <3>6 DEF Versions!Save
    <3> QED
      BY <3>2, <3>7 DEF Versions!Next
  <2>3. CASE Switch(c)
    <3> DEFINE w == job[c].id
               active == pc[c] = "activate"
               row == SetActive(c, active)
    <3>1. /\ w \in WorkflowIds /\ Stored(w) /\ job[c].row = workflows[w]
          /\ active \in BOOLEAN
          /\ active => workflows[w].doc.def \in ValidDefs
          /\ row \in Workflow
          /\ workflows' = [workflows EXCEPT ![w] = row]
      BY <2>3, RowTypes DEF Switch, FreshInv, Stored, WriteRow
    <3>2. workflows[w] \in Workflow /\ workflows[w].doc \in Document
      BY <1>0, <3>1 DEF Stored, Workflow
    <3>3. Entry(row) = [Entry(workflows[w]) EXCEPT !.active = active]
      <4>1. row = [workflows[w] EXCEPT !.active = active,
                                       !.doc = [workflows[w].doc EXCEPT !.active = active]]
        BY <3>1 DEF SetActive
      <4> HIDE DEF row, active, w
      <4>2. row.version = workflows[w].version /\ row.doc.active = active
            /\ row.doc.def = workflows[w].doc.def
        BY <3>2, <4>1 DEF Workflow, Document
      <4> QED
        BY <4>2 DEF Entry
    <3> HIDE DEF row, active, w
    <3>4. Book' = [Book EXCEPT ![w] = Entry(row)]
      BY <3>1, BookWrite, NoRowAssumption
    <3>5. Book[w] = Entry(workflows[w]) /\ Book[w] # NoWorkflow /\ Book[w].def = workflows[w].doc.def
      BY <3>1, <3>2, BookOf DEF Entry
    <3>6. Book' = [Book EXCEPT ![w].active = active]
      BY <3>3, <3>4, <3>5
    <3>7. Versions!Switch(w)
      BY <3>1, <3>5, <3>6 DEF Versions!Switch
    <3> QED
      BY <3>1, <3>7 DEF Versions!Next
  <2>4. CASE DeleteWorkflow(c)
    <3>1. job[c].id \in WorkflowIds /\ workflows' = [workflows EXCEPT ![job[c].id] = NoWorkflow]
      BY <2>4 DEF DeleteWorkflow, Inv, HeldInv
    <3>2. Book' = [Book EXCEPT ![job[c].id] = NoWorkflow]
      BY <3>1, BookWrite
    <3> QED
      BY <3>1, <3>2 DEF Versions!Next, Versions!Delete
  <2>5. CASE UNCHANGED workflows
    BY <2>5, BookStutter
  <2> QED
    BY <1>1, <2>1, <2>2, <2>3, <2>4, <2>5
    DEF Request, ReadWorkflow, PurgeExecutions, RequestRun, LoadWorkflow, NoMore,
        InsertExecution, Spawn, CancelRead, CancelWrite, RequestFault
<1>2. CASE UNCHANGED workflows
  BY <1>2, BookStutter
<1> QED
  BY <1>1, <1>2
  DEF Next, vars, Restart, Run, RunTasks, RecordTask, Finish, FinishFailing, ThreadFault

(* When requests do not overlap, whatever dies when, the stored workflows  *)
(* are a book of versions: saves count the version up and alone change the *)
(* definition, and only a valid one is turned on by an activation.         *)
THEOREM BookOfVersions ==
    ASSUME OneCall
    PROVE  Spec => ImplementsBook
<1>1. Init => IdsInv /\ FreshInv /\ Versions!Init
  BY DEF Init, IdsInv, FreshInv, Versions!Init, Book, Stored
<1>2. Inv /\ Inv' /\ IdsInv /\ [Next]_vars => IdsInv'
  BY IdsStep
<1>3. Inv /\ FreshInv /\ [Next]_vars => FreshInv'
  BY FreshStep
<1>4. Inv /\ Inv' /\ IdsInv /\ FreshInv /\ [Next]_vars => [Versions!Next]_Book
  BY BookStep
<1> QED
  BY <1>1, <1>2, <1>3, <1>4, InvAlways, PTL DEF Spec, ImplementsBook, Versions!Spec

=============================================================================
