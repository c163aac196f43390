--------------------------- MODULE WorkflowEditor ---------------------------
(***************************************************************************)
(* The editor of a workflow (app/src/screens/workflow_editor.rs): it loads *)
(* the document, adds, changes and removes tasks in its copy, and sends    *)
(* the copy back; activation answers with the document of the server.  A   *)
(* call may fail, and another administrator may save (WorkflowEngine takes *)
(* a save and an activation apart).                                        *)
(***************************************************************************)
EXTENDS Naturals, Sequences, SequencesExt

CONSTANTS
    TaskTypes,
    MaxTasks, \* bound: tasks of a document
    MaxSteps, \* bound: what the user does, and others do
    MaxSent \* bound: calls under way

VARIABLES
    stored, \* server: the document
    load, \* screen: "loading", "loaded" or "failed"
    doc, \* screen: its copy
    dirty, \* screen: unsaved changes
    sent, \* calls under way
    executing, \* screen: an execution is being started
    removed, \* history: a task was removed from the copy
    confused, \* history: the copy may differ from what is stored without being dirty
    steps

flowVars == <<stored, load, doc, dirty, sent, executing, removed, confused, steps>>

\* Of the constants.
EditorAssumption == MaxTasks \in Nat /\ MaxSteps \in Nat /\ MaxSent \in Nat

\* A task has a name made of its type and a number, and settings, that were changed or not.
Task(type, n) == [type |-> type, n |-> n, changed |-> FALSE]
Name(task) == <<task.type, task.n>>
Document(tasks) == [tasks |-> tasks, status |-> "inactive"]

\* The copy when nothing could be loaded: the server does not take such a document.
NoDocument == [tasks |-> <<>>, status |-> "none"]

Step == steps < MaxSteps /\ steps' = steps + 1
Call(does, d) == [does |-> does, doc |-> d, served |-> FALSE, ok |-> FALSE]
Saving == \E k \in DOMAIN sent : sent[k].does = "save"

\* A new workflow has no tasks.  The screen asks for it as it opens.
Init ==
    /\ stored = Document(<<>>)
    /\ load = "loading" /\ doc = NoDocument /\ dirty = FALSE
    /\ sent = <<Call("get", NoDocument)>> /\ executing = FALSE
    /\ removed = FALSE /\ confused = FALSE /\ steps = 0

-----------------------------------------------------------------------------
(* The tasks of the copy. *)

\* The copy has new tasks, and the screen says so.  The palette, with which tasks are added, arrives after
\* the document did, or did not.
SetTasks(tasks) ==
    /\ load # "loading" /\ Step
    /\ doc' = [doc EXCEPT !.tasks = tasks]
    /\ dirty' = TRUE
    /\ confused' = (confused \/ Saving)
    /\ UNCHANGED <<stored, load, sent, executing>>

\* The name of a new task has the number of tasks in it.
NextNumber == Len(doc.tasks) + 1

AddTask(type) ==
    /\ Len(doc.tasks) < MaxTasks
    /\ SetTasks(Append(doc.tasks, Task(type, NextNumber)))
    /\ UNCHANGED removed

\* Tasks are removed and changed by name.
RemoveTask(i) ==
    /\ SetTasks(SelectSeq(doc.tasks, LAMBDA t : Name(t) # Name(doc.tasks[i])))
    /\ removed' = TRUE

UpdateTask(i) ==
    /\ SetTasks([k \in DOMAIN doc.tasks |->
           IF Name(doc.tasks[k]) = Name(doc.tasks[i]) THEN [doc.tasks[k] EXCEPT !.changed = TRUE] ELSE doc.tasks[k]])
    /\ UNCHANGED removed

-----------------------------------------------------------------------------
(* Calls. *)

\* A call begins beside others, or alone.
Begin(does, d) ==
    /\ Step /\ Len(sent) < MaxSent
    /\ sent' = Append(sent, Call(does, d))
    /\ confused' = (confused \/ sent # <<>>)
    /\ UNCHANGED <<stored, load, doc, dirty, executing, removed>>

\* Save is enabled when there is something to save and no save under way.
Save == dirty /\ ~Saving /\ Begin("save", doc)

\* There is a button for one of them, by what the copy says.
SetActive == Begin(IF doc.status = "active" THEN "deactivate" ELSE "activate", doc)

\* The server reads the document; or saves a whole one, active or not as the copy has it; or sets the flag
\* of its own, which it refuses for a document that is not valid; or the call fails.
Serve(k) ==
    /\ k \in DOMAIN sent /\ ~sent[k].served
    /\ \E ok \in BOOLEAN :
          LET new == CASE sent[k].does = "get" -> stored
                       [] sent[k].does = "save" -> sent[k].doc
                       [] sent[k].does = "activate" -> [stored EXCEPT !.status = "active"]
                       [] OTHER -> [stored EXCEPT !.status = "inactive"]
          IN  /\ ok => sent[k].does # "save" \/ sent[k].doc.status # "none"
              /\ stored' = IF ok THEN new ELSE stored
              /\ sent' = [sent EXCEPT ![k].served = TRUE, ![k].ok = ok, ![k].doc = new]
    /\ UNCHANGED <<load, doc, dirty, executing, removed, confused, steps>>

\* After a save nothing counts as unsaved, even if it failed; any other answer is a document, which
\* replaces the copy.
Answered(k) ==
    /\ k \in DOMAIN sent /\ sent[k].served
    /\ IF sent[k].does = "save"
       THEN dirty' = FALSE /\ confused' = (confused \/ ~sent[k].ok) /\ UNCHANGED doc
       ELSE doc' = (IF sent[k].ok THEN sent[k].doc ELSE doc) /\ UNCHANGED <<dirty, confused>>
    /\ load' = IF sent[k].does # "get" THEN load ELSE IF sent[k].ok THEN "loaded" ELSE "failed"
    /\ sent' = RemoveAt(sent, k)
    /\ UNCHANGED <<stored, executing, removed, steps>>

\* The stored document is executed, and the execution shown; the button is disabled meanwhile.
Execute ==
    /\ ~executing /\ Step
    /\ executing' = TRUE
    /\ UNCHANGED <<stored, load, doc, dirty, sent, removed, confused>>

ExecuteEnds ==
    /\ executing /\ executing' = FALSE
    /\ UNCHANGED <<stored, load, doc, dirty, sent, removed, confused, steps>>

\* Another administrator saves tasks: one more than there were, or none.
SaveElsewhere ==
    /\ Step
    /\ \/ \E type \in TaskTypes :
              /\ Len(stored.tasks) < MaxTasks
              /\ stored' = [stored EXCEPT !.tasks = Append(@, Task(type, Len(@) + 1))]
       \/ stored' = [stored EXCEPT !.tasks = <<>>]
    /\ confused' = (confused \/ load # "loading" \/ \E k \in DOMAIN sent : sent[k].served)
    /\ UNCHANGED <<load, doc, dirty, sent, executing, removed>>

Next ==
    \/ Save \/ SetActive \/ Execute \/ ExecuteEnds \/ SaveElsewhere
    \/ \E type \in TaskTypes : AddTask(type)
    \/ \E i \in DOMAIN doc.tasks : RemoveTask(i) \/ UpdateTask(i)
    \/ \E k \in DOMAIN sent : Serve(k) \/ Answered(k)

Spec == Init /\ [][Next]_flowVars

-----------------------------------------------------------------------------

\* With no call under way and no unsaved changes, the editor shows the tasks and the status that are
\* stored.  Not after a save that failed, which the screen does not tell, after changes during a save,
\* calls that overlap, or what others saved since.
CleanIsStored == doc.status # "none" /\ ~dirty /\ sent = <<>> /\ ~confused => doc = stored

\* The tasks of the copy have different names, so that each can be changed and removed by itself, as
\* long as none was removed.
NamesApart == ~removed => \A i, j \in DOMAIN doc.tasks : Name(doc.tasks[i]) = Name(doc.tasks[j]) => i = j
=============================================================================
