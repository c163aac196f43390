--------------------------- MODULE WorkflowEngine ---------------------------
(***************************************************************************)
(* Workflows and their executions (crates/services/src/workflow): the      *)
(* stored definitions of mod.rs, the triggers of triggers.rs, and the      *)
(* engine of engine.rs, which runs each execution in a thread of its own.  *)
(*                                                                         *)
(* Nothing here uses a transaction: a request reads a row, and writes it   *)
(* in a later step; an execution is inserted, then its thread is started;  *)
(* the thread runs the tasks, records them one by one, and at last writes  *)
(* the status.  Requests, threads and a crash of the process interleave.   *)
(*                                                                         *)
(* Left out: the permission checks, and what the tasks do to content (see  *)
(* ContentLifecycle).  The OWS runtime that runs the tasks is external: it *)
(* may run any of them, and succeed or fail.                               *)
(***************************************************************************)
EXTENDS Naturals

CONSTANTS
    Clients,        \* requests in progress at the same time
    Defs,           \* workflow definitions
    ValidDefs,      \* those validate_workflow accepts
    Listening,      \* those with a trigger for the event or webhook
    Tasks,          \* the tasks of a definition
    Calls,          \* the calls clients make, of Call below
    Faults,         \* may requests, threads and the process die?
    MaxWorkflows, MaxExecs, MaxCalls    \* bounds: rows inserted, calls started

Call == {"create", "save", "activate", "deactivate", "delete",
         "execute", "event", "webhook", "retry", "cancel"}

WorkflowIds == 1..MaxWorkflows
ExecIds == 1..MaxExecs

ASSUME EngineAssumption ==
    /\ ValidDefs \subseteq Defs /\ Listening \subseteq Defs
    /\ Calls \subseteq Call
    /\ Faults \in BOOLEAN
    /\ MaxWorkflows \in Nat /\ MaxExecs \in Nat /\ MaxCalls \in Nat

\* The document in definition_json repeats the id, the flag and the version.
Document == [id : Nat, active : BOOLEAN, version : Nat, def : Defs]

Workflow == [active : BOOLEAN, version : Nat, doc : Document]

(* A request to run the workflow id; of is the row it was meant for, which *)
(* the code does not keep.                                                 *)
Start == [id : Nat, of : Nat]

Status == {"running", "success", "failed", "cancelled"}

\* ran, which the code does not store, is the set of tasks the runtime ran.
Execution == [workflow : Nat, status : Status,
              tasks : [Tasks -> {"notExecuted", "success", "failed"}],
              of : Nat, ran : SUBSET Tasks]

\* The thread of an execution: where it is, what it has still to record.
Thread == [phase : {"none", "run", "record", "failing"}, left : SUBSET Tasks,
           failed : SUBSET Tasks, ok : BOOLEAN]

CONSTANTS NoWorkflow, NoExecution
ASSUME NoRowAssumption ==
    /\ NoWorkflow \notin Workflow /\ NoExecution \notin Execution
    /\ NoWorkflow \notin [version : Nat, active : BOOLEAN, def : Defs]

VARIABLES
    workflows,      \* the workflow table
    created,        \* its last id
    execs,          \* workflow_execution, with its workflow_node_run rows
    started,        \* its last id
    thread,         \* the thread of each execution
    pc,             \* the step each client's call is at
    job,            \* the locals of each call
    calls           \* calls started, for the bound

vars == <<workflows, created, execs, started, thread, pc, job, calls>>

NoThread == [phase |-> "none", left |-> {}, failed |-> {}, ok |-> TRUE]

\* id: what the call works on; row, seen: the workflow and the status it has read;
\* todo: the workflows it still has to run.
IdleJob == [id |-> 0, row |-> NoWorkflow, seen |-> "none", todo |-> {}]

Init ==
    /\ workflows = [w \in WorkflowIds |-> NoWorkflow]
    /\ created = 0
    /\ execs = [e \in ExecIds |-> NoExecution]
    /\ started = 0
    /\ thread = [e \in ExecIds |-> NoThread]
    /\ pc = [c \in Clients |-> "idle"]
    /\ job = [c \in Clients |-> IdleJob]
    /\ calls = 0

-----------------------------------------------------------------------------
(* Definitions.                                                            *)

CanCall(c, call) ==
    /\ pc[c] = "idle" /\ call \in Calls /\ calls < MaxCalls
    /\ calls' = calls + 1

Goto(c, step, locals) ==
    /\ pc' = [pc EXCEPT ![c] = step]
    /\ job' = [job EXCEPT ![c] = locals]

Return(c) == Goto(c, "idle", IdleJob)

Stored(w) == w \in WorkflowIds /\ workflows[w] # NoWorkflow

NewDocument(d) == [id |-> 0, active |-> FALSE, version |-> 1, def |-> d]

\* A workflow is created, imported, duplicated, or seeded at the first start:
\* inactive, in version 1, and with id 0 in its document.
Create(c) ==
    /\ CanCall(c, "create")
    /\ created < MaxWorkflows
    /\ \E d \in Defs :
          workflows' = [workflows EXCEPT ![created + 1] =
              [active |-> FALSE, version |-> 1, doc |-> NewDocument(d)]]
    /\ created' = created + 1
    /\ UNCHANGED <<execs, started, thread, pc, job>>

\* Saving, activating, deactivating and deleting read the row first.
ReadWorkflow(c) ==
    /\ \E call \in {"save", "activate", "deactivate", "delete"}, w \in WorkflowIds :
          /\ CanCall(c, call)
          /\ Stored(w)
          /\ call = "activate" => workflows[w].doc.def \in ValidDefs
          /\ Goto(c, call, [IdleJob EXCEPT !.id = w, !.row = workflows[w]])
    /\ UNCHANGED <<workflows, created, execs, started, thread>>

\* Mutant of Saved: the version is not counted up.
SavedAgain(c, active, d) ==
    [active  |-> active,
     version |-> job[c].row.version,
     doc     |-> [id |-> job[c].id, active |-> active, version |-> job[c].row.version, def |-> d]]

\* The row a save writes: the document is the client's, flag and all.
Saved(c, active, d) ==
    [active  |-> active,
     version |-> job[c].row.version + 1,
     doc     |-> [id |-> job[c].id, active |-> active, version |-> job[c].row.version + 1,
                  def |-> d]]

\* Mutant of SetActive: the flag in the document is forgotten.
SetActiveColumn(c, active) == [workflows[job[c].id] EXCEPT !.active = active]

\* The row an activation writes: it puts back the document it has read, and
\* leaves the version column alone.
SetActive(c, active) ==
    [workflows[job[c].id] EXCEPT
        !.active = active,
        !.doc = [job[c].row.doc EXCEPT !.active = active]]

\* An update of a row that is gone is an error, and writes nothing.
WriteRow(c, row) ==
    /\ workflows' = IF Stored(job[c].id) THEN [workflows EXCEPT ![job[c].id] = row]
                    ELSE workflows
    /\ Return(c)
    /\ UNCHANGED <<created, execs, started, thread, calls>>

Save(c) ==
    /\ pc[c] = "save"
    /\ \E active \in BOOLEAN, d \in Defs : WriteRow(c, Saved(c, active, d))

Switch(c) ==
    /\ pc[c] \in {"activate", "deactivate"}
    /\ WriteRow(c, SetActive(c, pc[c] = "activate"))

\* workflow_delete: the row, which may be gone by now, then the executions that
\* have its id.
DeleteWorkflow(c) ==
    /\ pc[c] = "delete"
    /\ workflows' = [workflows EXCEPT ![job[c].id] = NoWorkflow]
    /\ Goto(c, "purge", job[c])
    /\ UNCHANGED <<created, execs, started, thread, calls>>

PurgeExecutions(c) ==
    /\ pc[c] = "purge"
    /\ execs' = [e \in ExecIds |->
          IF execs[e] # NoExecution /\ execs[e].workflow = job[c].id
          THEN NoExecution ELSE execs[e]]
    /\ Return(c)
    /\ UNCHANGED <<workflows, created, started, thread, calls>>

-----------------------------------------------------------------------------
(* Starting executions.                                                    *)

\* load_active_workflows, and of these the ones with a trigger.
Loaded == {w \in WorkflowIds :
              Stored(w) /\ workflows[w].active /\ workflows[w].doc.def \in Listening}

\* The id to run is the document's.
StartOf(w) == [id |-> workflows[w].doc.id, of |-> w]

\* matching_workflows looks at the flag in the document too; webhooks do not.
Matching == {StartOf(w) : w \in {v \in Loaded : workflows[v].doc.active}}

\* What a call wants to run: the workflow of the request, all that an event matches,
\* the first that a webhook matches, or that of an execution.
Wanted(call) ==
    CASE call = "execute" -> {{[id |-> w, of |-> w]} : w \in WorkflowIds}
      [] call = "event" -> {Matching}
      [] call = "webhook" -> {{StartOf(w)} : w \in Loaded}
      [] call = "retry" -> {{[id |-> execs[e].workflow, of |-> execs[e].of]} :
                                e \in {x \in ExecIds : execs[x] # NoExecution}}

RequestRun(c) ==
    /\ \E call \in {"execute", "event", "webhook", "retry"} :
          /\ CanCall(c, call)
          /\ \E todo \in Wanted(call) : Goto(c, "load", [IdleJob EXCEPT !.todo = todo])
    /\ UNCHANGED <<workflows, created, execs, started, thread>>

Runnable(w) == Stored(w) /\ workflows[w].doc.def \in ValidDefs

\* The first steps of execute_workflow, for one of the workflows to run: load it,
\* validate it.  A refusal ends a request; an event goes on with the others.
LoadWorkflow(c) ==
    /\ pc[c] = "load"
    /\ \E s \in job[c].todo :
          IF Runnable(s.id)
          THEN Goto(c, "insert", [job[c] EXCEPT !.id = s.of, !.row = workflows[s.id],
                                                !.todo = @ \ {s}])
          ELSE Goto(c, "load", [job[c] EXCEPT !.todo = @ \ {s}])
    /\ UNCHANGED <<workflows, created, execs, started, thread, calls>>

NoMore(c) ==
    /\ pc[c] = "load"
    /\ job[c].todo = {}
    /\ Return(c)
    /\ UNCHANGED <<workflows, created, execs, started, thread, calls>>

\* create_execution: running, before there is a thread.
InsertExecution(c) ==
    /\ pc[c] = "insert"
    /\ started < MaxExecs
    /\ execs' = [execs EXCEPT ![started + 1] =
          [workflow |-> job[c].row.doc.id, status |-> "running",
           tasks |-> [t \in Tasks |-> "notExecuted"], of |-> job[c].id, ran |-> {}]]
    /\ started' = started + 1
    /\ Goto(c, "spawn", [job[c] EXCEPT !.id = started + 1])
    /\ UNCHANGED <<workflows, created, thread, calls>>

Spawn(c) ==
    /\ pc[c] = "spawn"
    /\ thread' = [thread EXCEPT ![job[c].id].phase = "run"]
    /\ Goto(c, "load", [job[c] EXCEPT !.id = 0, !.row = NoWorkflow])
    /\ UNCHANGED <<workflows, created, execs, started, calls>>

-----------------------------------------------------------------------------
(* Cancelling: the status is read, and written in a later step.            *)

CancelRead(c) ==
    /\ CanCall(c, "cancel")
    /\ \E e \in ExecIds :
          /\ execs[e] # NoExecution
          /\ Goto(c, "cancel", [IdleJob EXCEPT !.id = e, !.seen = execs[e].status])
    /\ UNCHANGED <<workflows, created, execs, started, thread>>

\* update_execution: whatever the status is by now.
SetStatus(e, status) ==
    execs' = IF execs[e] = NoExecution THEN execs
             ELSE [execs EXCEPT ![e].status = status]

\* Mutant of CancelWrite: a finished execution is cancelled as well.
CancelAny(c) ==
    /\ pc[c] = "cancel"
    /\ SetStatus(job[c].id, "cancelled")
    /\ Return(c)
    /\ UNCHANGED <<workflows, created, started, thread, calls>>

CancelWrite(c) ==
    /\ pc[c] = "cancel"
    /\ IF job[c].seen = "running" THEN SetStatus(job[c].id, "cancelled") ELSE UNCHANGED execs
    /\ Return(c)
    /\ UNCHANGED <<workflows, created, started, thread, calls>>

-----------------------------------------------------------------------------
(* The thread of an execution: run_execution.                              *)

\* The runtime is done: it ran some tasks; if it failed, at the last of them.
RunTasks(e) ==
    /\ thread[e].phase = "run"
    /\ \E ran \in SUBSET Tasks, ok \in BOOLEAN :
          \E failed \in {f \in SUBSET ran : \A t, u \in f : t = u} :
              /\ failed = {} <=> ok \/ ran = {}
              /\ thread' = [thread EXCEPT ![e] =
                    [phase |-> "record", left |-> ran, failed |-> failed, ok |-> ok]]
              /\ execs' = IF execs[e] = NoExecution THEN execs
                          ELSE [execs EXCEPT ![e].ran = ran]
    /\ UNCHANGED <<workflows, created, started, pc, job, calls>>

\* persist_task_runs, one task at a time.
RecordTask(e) ==
    /\ thread[e].phase = "record"
    /\ \E t \in thread[e].left :
          /\ execs' = IF execs[e] = NoExecution THEN execs
                      ELSE [execs EXCEPT ![e].tasks[t] =
                               IF t \in thread[e].failed THEN "failed" ELSE "success"]
          /\ thread' = [thread EXCEPT ![e].left = @ \ {t}]
    /\ UNCHANGED <<workflows, created, started, pc, job, calls>>

\* Mutant of RecordedAll: the status is written first.
RecordedSome(e) == thread[e].phase = "record"

RecordedAll(e) == thread[e].phase = "record" /\ thread[e].left = {}

\* Mutant of Finish: a run that failed is not written.
FinishIfOk(e) ==
    /\ RecordedAll(e)
    /\ IF thread[e].ok THEN SetStatus(e, "success") ELSE UNCHANGED execs
    /\ thread' = [thread EXCEPT ![e] = NoThread]
    /\ UNCHANGED <<workflows, created, started, pc, job, calls>>

Finish(e) ==
    /\ RecordedAll(e)
    /\ SetStatus(e, IF thread[e].ok THEN "success" ELSE "failed")
    /\ thread' = [thread EXCEPT ![e] = NoThread]
    /\ UNCHANGED <<workflows, created, started, pc, job, calls>>

\* run_execution returned an error of the database: the thread says so.
FinishFailing(e) ==
    /\ thread[e].phase = "failing"
    /\ SetStatus(e, "failed")
    /\ thread' = [thread EXCEPT ![e] = NoThread]
    /\ UNCHANGED <<workflows, created, started, pc, job, calls>>

-----------------------------------------------------------------------------
(* Faults.                                                                 *)

\* The database fails while the thread records or finishes; or the thread ends
\* without having written a status.
ThreadFault(e) ==
    /\ Faults
    /\ \/ /\ thread[e].phase = "record"
          /\ thread' = [thread EXCEPT ![e].phase = "failing"]
       \/ /\ thread[e].phase \in {"run", "failing"}
          /\ thread' = [thread EXCEPT ![e] = NoThread]
    /\ UNCHANGED <<workflows, created, execs, started, pc, job, calls>>

\* A database error, or a client that goes away.
RequestFault(c) ==
    /\ Faults
    /\ pc[c] # "idle"
    /\ Return(c)
    /\ UNCHANGED <<workflows, created, execs, started, thread, calls>>

\* The process dies and starts again: nothing looks at what was running.
Restart ==
    /\ Faults
    /\ thread' = [e \in ExecIds |-> NoThread]
    /\ pc' = [c \in Clients |-> "idle"]
    /\ job' = [c \in Clients |-> IdleJob]
    /\ UNCHANGED <<workflows, created, execs, started, calls>>

-----------------------------------------------------------------------------
Request(c) ==
    \/ Create(c)
    \/ ReadWorkflow(c)
    \/ Save(c)
    \/ Switch(c)
    \/ DeleteWorkflow(c)
    \/ PurgeExecutions(c)
    \/ RequestRun(c)
    \/ LoadWorkflow(c)
    \/ NoMore(c)
    \/ InsertExecution(c)
    \/ Spawn(c)
    \/ CancelRead(c)
    \/ CancelWrite(c)
    \/ RequestFault(c)

Run(e) ==
    \/ RunTasks(e)
    \/ RecordTask(e)
    \/ Finish(e)
    \/ FinishFailing(e)
    \/ ThreadFault(e)

Next == (\E c \in Clients : Request(c)) \/ (\E e \in ExecIds : Run(e)) \/ Restart

Spec == Init /\ [][Next]_vars

(* A request that has begun runs on, and so does a thread; the runtime     *)
(* returns.  Nobody need make a call.                                      *)
Fairness ==
    /\ \A c \in Clients : WF_vars(pc[c] # "idle" /\ Request(c))
    /\ \A e \in ExecIds : WF_vars(Run(e))

FairSpec == Spec /\ Fairness

-----------------------------------------------------------------------------
(* Properties.                                                             *)

JobType == [id : Nat, row : Workflow \cup {NoWorkflow}, seen : Status \cup {"none"},
            todo : SUBSET Start]

StepType == {"idle", "save", "activate", "deactivate", "delete", "purge",
             "load", "insert", "spawn", "cancel"}

(* Every variable has its type: no row of the two tables is half written.  *)
TypeOK ==
    /\ workflows \in [WorkflowIds -> Workflow \cup {NoWorkflow}]
    /\ created \in 0..MaxWorkflows
    /\ execs \in [ExecIds -> Execution \cup {NoExecution}]
    /\ started \in 0..MaxExecs
    /\ thread \in [ExecIds -> Thread]
    /\ pc \in [Clients -> StepType]
    /\ job \in [Clients -> JobType]
    /\ calls \in Nat

(* The list and the triggers agree on what is active: the flag of the row  *)
(* and the flag in its document are the same, however saves, activations   *)
(* and deactivations overlap.                                              *)
ActiveAgrees == \A w \in WorkflowIds : Stored(w) => workflows[w].active = workflows[w].doc.active

(* An execution that says success has a record of every task that ran, and *)
(* each says success, wherever its thread or the process may have died.    *)
RunsRecorded ==
    \A e \in ExecIds :
        execs[e] # NoExecution /\ execs[e].status = "success" =>
            \A t \in execs[e].ran : execs[e].tasks[t] = "success"

Final(e) == execs[e] # NoExecution /\ execs[e].status # "running"

(* A finished execution keeps its status, but for the two ways in which a  *)
(* cancel and the end of the run overtake each other: a cancel that still  *)
(* read running, and the end of a run that was cancelled meanwhile.        *)
FinalIsFinal ==
    [][\A e \in ExecIds :
          Final(e) /\ execs'[e] # NoExecution /\ execs'[e].status # execs[e].status =>
              \/ execs'[e].status = "cancelled"
                    /\ \E c \in Clients : pc[c] = "cancel" /\ job[c].id = e /\ job[c].seen = "running"
              \/ execs[e].status = "cancelled"
                    /\ thread[e].phase # "none" /\ thread'[e].phase = "none"]_vars

(* Every execution ends, if nothing dies: none stays running for ever.     *)
ExecutionsEnd ==
    \A e \in ExecIds :
        (execs[e] # NoExecution /\ execs[e].status = "running")
            ~> (execs[e] = NoExecution \/ Final(e))

(* What an event or a request wants to run is started, unless by then it   *)
(* has been deleted or its definition is not valid.                        *)
MatchedIsStarted ==
    [][\A c \in Clients : pc[c] = "load" /\ pc'[c] = "load" =>
          \A s \in job[c].todo \ job'[c].todo : ~Runnable(s.of)]_vars

(* One after the other, saves and activations treat a workflow as a book   *)
(* of versions.                                                            *)
Book == [w \in WorkflowIds |->
            IF Stored(w)
            THEN [version |-> workflows[w].version, active |-> workflows[w].doc.active,
                  def |-> workflows[w].doc.def]
            ELSE NoWorkflow]
Versions == INSTANCE WorkflowBook WITH Ids <- WorkflowIds, None <- NoWorkflow, book <- Book
ImplementsBook == Versions!Spec

-----------------------------------------------------------------------------
(* The inductive invariants behind FinalIsFinal, RunsRecorded and           *)
(* ImplementsBook.                                                         *)

\* A call holds what its next step needs.
HeldInv ==
    \A c \in Clients :
        /\ pc[c] \in {"save", "activate", "deactivate", "insert"} => job[c].row \in Workflow
        /\ pc[c] \in {"spawn", "cancel"} => job[c].id \in ExecIds
        /\ pc[c] = "delete" => job[c].id \in WorkflowIds

\* Ids are given once.
IdsInv == \A w \in WorkflowIds : Stored(w) => w <= created

\* When nothing overlaps, a call that is about to write a workflow has just read it.
FreshInv ==
    \A c \in Clients : pc[c] \in {"save", "activate", "deactivate"} =>
        /\ Stored(job[c].id)
        /\ job[c].row = workflows[job[c].id]
        /\ pc[c] = "activate" => job[c].row.doc.def \in ValidDefs

Unfinished(e) == execs[e] # NoExecution => execs[e].status \in {"running", "cancelled"}

\* An execution has one thread at most, started once and before it is finished,
\* and the thread has recorded what it has no longer to record.
ThreadInv ==
    /\ \A e \in ExecIds :
          /\ execs[e] # NoExecution => e <= started
          /\ thread[e].phase # "none" => e <= started /\ Unfinished(e)
          /\ thread[e].phase = "record" =>
                /\ thread[e].ok => thread[e].failed = {}
                /\ execs[e] # NoExecution =>
                      \A t \in execs[e].ran \ (thread[e].left \cup thread[e].failed) :
                          execs[e].tasks[t] = "success"
    /\ \A c \in Clients : pc[c] = "spawn" =>
          /\ job[c].id <= started
          /\ thread[job[c].id].phase = "none"
          /\ Unfinished(job[c].id)
          /\ \A d \in Clients \ {c} : pc[d] = "spawn" => job[d].id # job[c].id

=============================================================================
