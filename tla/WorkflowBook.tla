----------------------------- MODULE WorkflowBook -----------------------------
(***************************************************************************)
(* What the workflow service promises of a stored workflow: a save makes   *)
(* the next version, and is the only way to change the definition; turning *)
(* a workflow on or off changes nothing else; only a definition that was   *)
(* saved on or is valid is turned on.  WorkflowEngine implements it as     *)
(* long as requests do not overlap: see ImplementsBook there.              *)
(***************************************************************************)
EXTENDS Naturals

CONSTANTS Ids, Defs, ValidDefs, None

VARIABLE book       \* the version, flag and definition of each workflow, or None

Init == book = [w \in Ids |-> None]

Create(w) ==
    /\ book[w] = None
    /\ \E d \in Defs :
          book' = [book EXCEPT ![w] = [version |-> 1, active |-> FALSE, def |-> d]]

Save(w) ==
    /\ book[w] # None
    /\ \E a \in BOOLEAN, d \in Defs :
          book' = [book EXCEPT ![w] = [version |-> @.version + 1, active |-> a, def |-> d]]

Switch(w) ==
    /\ book[w] # None
    /\ \E a \in BOOLEAN :
          /\ a => book[w].def \in ValidDefs
          /\ book' = [book EXCEPT ![w].active = a]

Delete(w) == book' = [book EXCEPT ![w] = None]

Next == \E w \in Ids : Create(w) \/ Save(w) \/ Switch(w) \/ Delete(w)

Spec == Init /\ [][Next]_book
=============================================================================
