------------------------------ MODULE Catalog ------------------------------
(***************************************************************************)
(* What the Content-Type Builder promises of the set of content types in   *)
(* use: a batch is applied as a whole, is never a full replacement, and    *)
(* removes only what it names.  SchemaRegistry implements it: see          *)
(* ImplementsCatalog there.                                                *)
(***************************************************************************)
CONSTANTS
    Uids, Schemas, NoSchema,
    Requests,       \* batches: [desired : Definitions, removed : SUBSET Uids]
    ToolSaves       \* single saves: pairs of a uid and a schema

VARIABLE inUse      \* the schema of each content type in use, or NoSchema

Definitions == [Uids -> Schemas \cup {NoSchema}]

Init == inUse = [u \in Uids |-> NoSchema]

(* A content type of the batch gets the batch's schema; one that had been  *)
(* removed may stay out of use (the versions of the code count up from a   *)
(* negative number).  A removed one goes; all others stay what they are.   *)
Save(desired, removed) ==
    \E out \in SUBSET {u \in Uids : inUse[u] = NoSchema} :
        inUse' = [u \in Uids |->
                    IF desired[u] # NoSchema
                    THEN IF u \in out THEN NoSchema ELSE desired[u]
                    ELSE IF u \in removed THEN NoSchema ELSE inUse[u]]

Next ==
    \/ \E b \in Requests : Save(b.desired, b.removed)
    \/ \E x \in ToolSaves : Save([inUse EXCEPT ![x[1]] = x[2]], {})

Spec == Init /\ [][Next]_inUse
=============================================================================
