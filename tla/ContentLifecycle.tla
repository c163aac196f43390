------------------------- MODULE ContentLifecycle -------------------------
(***************************************************************************)
(* The life of an entry of a Draft & Publish content type: cm_create,      *)
(* cm_update, cm_delete, cm_discard_draft, cm_publish and cm_unpublish     *)
(* (crates/services/src/content.rs) over the rows of one content table     *)
(* (crates/dynamic-store/src/dml.rs), and the publish and unpublish steps  *)
(* of workflows (crates/services/src/workflow/executors.rs), which do the  *)
(* same without a transaction.                                             *)
(*                                                                         *)
(* A row is never erased: deleting sets deleted_at.  A call reads its row, *)
(* and writes in a later step; calls of different clients interleave.      *)
(* Left out: the links between entries and their computed values, and the  *)
(* events that calls dispatch to workflows when they are done.             *)
(***************************************************************************)
EXTENDS Naturals, FiniteSets

CONSTANTS
    Clients,        \* requests and workflow runs in progress at the same time
    GivenDocs,      \* document ids clients choose themselves when they create
    Locales,
    Values,         \* contents of an entry
    Calls,          \* the calls clients make, of Call below
    UniqueValues,   \* is an attribute unique (or of type uid)?
    CopyAccepted,   \* does a stored row pass validate_payload when written again?
    Interrupted,    \* may calls fail between their steps?
    MaxCalls        \* bound: calls started, each of which inserts a row at most

Call == {"create", "update", "delete", "discard",
         "publish", "unpublish", "wf_publish", "wf_unpublish"}

\* Calls of one statement, which hold nothing between steps.
AtOnceCall == {"create", "delete", "discard"}

ASSUME LifecycleAssumption ==
    /\ GivenDocs \cap Nat = {}
    /\ Calls \subseteq Call
    /\ UniqueValues \in BOOLEAN /\ CopyAccepted \in BOOLEAN /\ Interrupted \in BOOLEAN
    /\ MaxCalls \in Nat

(* A generated document id (a UUID) is modelled by the id of the row it is *)
(* generated for: no other row has had it before.                          *)
Docs == GivenDocs \cup Nat

States == {"draft", "published"}

\* entry is the row an entry began as, carried along by its copies: what the
\* user takes for one entry.  The table has no such column.
Row == [id : Nat, doc : Docs, locale : Locales, state : States, val : Values,
        deleted : BOOLEAN, entry : Nat]

CONSTANT NoRow
ASSUME NoRowAssumption == NoRow \notin Row

VARIABLES
    rows,       \* the content table
    nextId,     \* its id sequence
    pc,         \* the step each client's call is at
    job,        \* the row each call has read, and the id of the copy it made
    reply,      \* the last answer of each client
    calls       \* calls started, for the bound

vars == <<rows, nextId, pc, job, reply, calls>>

IdleJob == [row |-> NoRow, copy |-> 0]

Init ==
    /\ rows = {}
    /\ nextId = 1
    /\ pc = [c \in Clients |-> "idle"]
    /\ job = [c \in Clients |-> IdleJob]
    /\ reply = [c \in Clients |-> "none"]
    /\ calls = 0

-----------------------------------------------------------------------------
(* The statements of the store.                                            *)

\* find_by_document_id returns one of these: it names neither the locale nor
\* the state, and has no order.
Found(d) == {r \in rows : r.doc = d /\ ~r.deleted}

\* The unique indexes know nothing of deleted_at.  Those of attributes are per
\* locale: the content type is localized.
Collides(r) ==
    \E q \in rows :
        \/ q.doc = r.doc /\ q.locale = r.locale /\ q.state = r.state
        \/ UniqueValues /\ q.val = r.val /\ q.locale = r.locale /\ q.id # r.id

\* Mutant of SoftDeleted: one variant of the document is deleted, not all.
SoftDeletedOne(table, d) ==
    LET live == {r \in table : r.doc = d /\ ~r.deleted} IN
    IF live = {} THEN table
    ELSE LET x == CHOOSE r \in live : TRUE IN (table \ {x}) \cup {[x EXCEPT !.deleted = TRUE]}

\* delete_one: every live row of the document.
SoftDeleted(table, d) == {IF r.doc = d THEN [r EXCEPT !.deleted = TRUE] ELSE r : r \in table}

-----------------------------------------------------------------------------
(* Calls of one statement.                                                 *)

Answer(c, answer) ==
    /\ pc' = [pc EXCEPT ![c] = "idle"]
    /\ job' = [job EXCEPT ![c] = IdleJob]
    /\ reply' = [reply EXCEPT ![c] = answer]

CanCall(c, call) == pc[c] = "idle" /\ call \in Calls /\ calls < MaxCalls

\* The entry a new row belongs to: that of the document, if it is there.
EntryOf(d) == IF Found(d) = {} THEN nextId ELSE (CHOOSE r \in Found(d) : TRUE).entry

Create(c) ==
    /\ CanCall(c, "create")
    /\ \E d \in GivenDocs \cup {nextId}, l \in Locales, s \in States, v \in Values :
          LET new == [id |-> nextId, doc |-> d, locale |-> l, state |-> s, val |-> v,
                      deleted |-> FALSE, entry |-> EntryOf(d)] IN
          IF Collides(new)
          THEN Answer(c, "refused") /\ UNCHANGED <<rows, nextId>>
          ELSE Answer(c, "ok") /\ rows' = rows \cup {new} /\ nextId' = nextId + 1
    /\ calls' = calls + 1

Gone(c) ==
    /\ \E d \in {r.doc : r \in rows} : rows' = SoftDeleted(rows, d)
    /\ Answer(c, "ok")
    /\ calls' = calls + 1
    /\ UNCHANGED nextId

Delete(c) == CanCall(c, "delete") /\ Gone(c)

\* Discarding a draft is the same statement: it names no state.
Discard(c) == CanCall(c, "discard") /\ Gone(c)

-----------------------------------------------------------------------------
(* Calls that read a row first.                                            *)

Read(c) ==
    /\ \E call \in Calls \ AtOnceCall, d \in {r.doc : r \in rows} :
          /\ CanCall(c, call)
          /\ \E r \in Found(d) :
                /\ pc' = [pc EXCEPT ![c] = call]
                /\ job' = [job EXCEPT ![c].row = r]
    /\ reply' = [reply EXCEPT ![c] = "none"]
    /\ calls' = calls + 1
    /\ UNCHANGED <<rows, nextId>>

\* update_by_id: whatever has become of the row since it was read.
Write(c) ==
    /\ pc[c] = "update"
    /\ \E v \in Values :
          LET new == [job[c].row EXCEPT !.val = v] IN
          IF UniqueValues /\ \E q \in rows :
                q.val = v /\ q.locale = new.locale /\ q.id # new.id
          THEN Answer(c, "refused") /\ UNCHANGED rows
          ELSE /\ Answer(c, "ok")
               /\ rows' = {IF r.id = new.id THEN [r EXCEPT !.val = v] ELSE r : r \in rows}
    /\ UNCHANGED <<nextId, calls>>

\* Mutant of Copy: the state is copied as well.
CopyAsRead(c) ==
    [job[c].row EXCEPT !.id = nextId, !.doc = IF pc[c] = "unpublish" THEN @ ELSE nextId]

\* The copy of the row that was read, in its new state.  Only unpublishing by
\* request keeps the document id.
Copy(c) ==
    [job[c].row EXCEPT
        !.id = nextId,
        !.doc = IF pc[c] = "unpublish" THEN @ ELSE nextId,
        !.state = IF pc[c] \in {"publish", "wf_publish"} THEN "published" ELSE "draft"]

Insertable(c) == CopyAccepted /\ ~Collides(Copy(c))

\* cm_publish and cm_unpublish: one transaction inserts the copy and deletes
\* what the document shows.
CommitCopy(c) ==
    /\ pc[c] \in {"publish", "unpublish"}
    /\ Insertable(c)
    /\ rows' = SoftDeleted(rows \cup {Copy(c)}, job[c].row.doc)
    /\ nextId' = nextId + 1
    /\ Answer(c, "ok")
    /\ UNCHANGED calls

\* Mutant of InsertCopy: the original is deleted before the copy is made.
DeleteFirst(c) ==
    /\ pc[c] \in {"wf_publish", "wf_unpublish"}
    /\ Insertable(c)
    /\ rows' = SoftDeleted(rows, job[c].row.doc)
    /\ pc' = [pc EXCEPT ![c] = "wf_delete"]
    /\ UNCHANGED <<nextId, job, reply, calls>>

\* The workflow steps: two statements, each committed by itself.
InsertCopy(c) ==
    /\ pc[c] \in {"wf_publish", "wf_unpublish"}
    /\ Insertable(c)
    /\ rows' = rows \cup {Copy(c)}
    /\ nextId' = nextId + 1
    /\ pc' = [pc EXCEPT ![c] = "wf_delete"]
    /\ job' = [job EXCEPT ![c].copy = nextId]
    /\ UNCHANGED <<reply, calls>>

DeleteOriginal(c) ==
    /\ pc[c] = "wf_delete"
    /\ rows' = SoftDeleted(rows, job[c].row.doc)
    /\ Answer(c, "ok")
    /\ UNCHANGED <<nextId, calls>>

\* The insert is refused: by validate_payload, or by a unique index.
Refused(c) ==
    /\ pc[c] \in {"publish", "unpublish", "wf_publish", "wf_unpublish"}
    /\ ~Insertable(c)
    /\ Answer(c, "refused")
    /\ UNCHANGED <<rows, nextId, calls>>

\* A database error, a client that goes away, or a process that dies, between
\* two steps of a call: an open transaction is rolled back.
Fail(c) ==
    /\ Interrupted
    /\ pc[c] # "idle"
    /\ Answer(c, "failed")
    /\ UNCHANGED <<rows, nextId, calls>>

Step(c) ==
    \/ Create(c)
    \/ Delete(c)
    \/ Discard(c)
    \/ Read(c)
    \/ Write(c)
    \/ CommitCopy(c)
    \/ InsertCopy(c)
    \/ DeleteOriginal(c)
    \/ Refused(c)
    \/ Fail(c)

Next == \E c \in Clients : Step(c)

Spec == Init /\ [][Next]_vars

-----------------------------------------------------------------------------
(* Properties.                                                             *)

(* Every variable has its type, and no id is given twice.                  *)
TypeOK ==
    /\ rows \subseteq Row
    /\ nextId \in Nat \ {0}
    /\ \A r \in rows : r.id < nextId
    /\ \A r, q \in rows : r.id = q.id => r = q
    /\ pc \in [Clients -> {"idle", "wf_delete"} \cup (Call \ AtOnceCall)]
    /\ job \in [Clients -> [row : Row \cup {NoRow}, copy : Nat]]
    /\ reply \in [Clients -> {"none", "ok", "refused", "failed"}]
    /\ calls \in Nat

Alive(table, e) == \E r \in table : r.entry = e /\ ~r.deleted

(* Whatever else is going on, publishing (and the unpublish step of a      *)
(* workflow) never leaves an entry without any row: at each of its steps,  *)
(* what was there before, of the entry and of all others, has a live row   *)
(* after it.  Only when the copy itself has been deleted meanwhile may the *)
(* last step delete the entry; and two entries may have the document id a  *)
(* client chose for both, of which the one goes with the other.            *)
PublishKeepsEntries ==
    [][\A c \in Clients :
          /\ pc[c] \in {"publish", "wf_publish", "wf_unpublish", "wf_delete"}
          /\ pc[c] = "wf_delete" => \E r \in rows : r.id = job[c].copy /\ ~r.deleted
          /\ pc'[c] # pc[c]
          => \A r \in rows :
                ~r.deleted /\ r.doc \notin GivenDocs => Alive(rows', r.entry)]_vars

(* When no call is under way, an entry has at most one live variant of     *)
(* each locale and state.                                                  *)
VariantsUnique ==
    (\A c \in Clients : pc[c] = "idle") => \A r, q \in rows :
        /\ ~r.deleted /\ ~q.deleted
        /\ r.entry = q.entry /\ r.locale = q.locale /\ r.state = q.state
        => r = q

(* An entry that was deleted stays deleted.                                *)
DeletedStaysDeleted ==
    [][\A r \in rows : ~Alive(rows, r.entry) => ~Alive(rows', r.entry)]_vars

(* What is published is what the entry says: a publish that answers Ok     *)
(* leaves a live published row with the content of a row that was live     *)
(* until then, and that still had the content that was read.               *)
PublishCopiesCurrent ==
    [][\A c \in Clients : pc[c] = "publish" /\ reply'[c] = "ok" /\ pc'[c] = "idle" =>
          \E r \in rows, q \in rows' :
              /\ r.id = job[c].row.id /\ ~r.deleted /\ r.val = job[c].row.val
              /\ q.entry = r.entry /\ q.locale = r.locale /\ q.val = r.val
              /\ q.state = "published" /\ ~q.deleted]_vars

(* A copy never collides with the rows of the table: publishing an entry   *)
(* that is there is not refused.                                           *)
PublishAccepted ==
    [][\A c \in Clients : pc[c] = "publish" => reply'[c] # "refused"]_vars

(* Calls that do not overlap: what is published is the entry as it was      *)
(* saved, nothing is refused that could be published, and what is deleted   *)
(* is gone.                                                                 *)
PublishTakesEffect == PublishCopiesCurrent /\ PublishAccepted /\ DeletedStaysDeleted

(* Unpublishing by request brings the entry back as a draft.               *)
UnpublishGivesDraft ==
    [][\A c \in Clients : pc[c] = "unpublish" /\ reply'[c] = "ok" /\ pc'[c] = "idle" =>
          \E r \in rows' : r.entry = job[c].row.entry /\ ~r.deleted /\ r.state = "draft"]_vars

(* An update that answers Ok changed a row that readers still find.        *)
UpdateIsSeen ==
    [][\A c \in Clients : pc[c] = "update" /\ reply'[c] = "ok" =>
          \E r \in rows' : r.id = job[c].row.id /\ ~r.deleted]_vars

(* Discarding a draft keeps what is published, as cm_discard_draft says of  *)
(* itself.                                                                 *)
DiscardKeepsPublished ==
    [][(\E c \in Clients : Discard(c)) =>
          \A r \in rows : ~r.deleted /\ r.state = "published" => r \in rows']_vars

(* However calls overlap and fail, what readers find changes as if each    *)
(* call took effect at once, and each of the two statements of a workflow  *)
(* step: no reader finds half of a call, or two variants where one belongs.*)
(* To readers an unpublish by request is a deletion (UnpublishGivesDraft   *)
(* fails); discarding a draft is left out, as it is one as well.           *)
Visible ==
    {[doc |-> r.doc, locale |-> r.locale, state |-> r.state, val |-> r.val] :
        r \in {q \in rows : ~q.deleted}}
AtOnce == INSTANCE Entries WITH Docs <- GivenDocs \cup 1..MaxCalls, visible <- Visible
ImplementsEntries == AtOnce!Spec

-----------------------------------------------------------------------------
(* The inductive invariant behind PublishKeepsEntries.                     *)

\* Row r is what became of x: only its content or its mark may differ.
SameRow(r, x) == r.id = x.id /\ r.doc = x.doc /\ r.entry = x.entry

\* No row has a document id that is still to be generated; a call's row was
\* live when it was read and is in the table, and so is the copy a workflow
\* step has made, of the same entry and under another document id.
HeldInv ==
    /\ \A r \in rows : r.doc \in Nat => r.doc < nextId
    /\ \A c \in Clients : pc[c] # "idle" =>
          /\ job[c].row \in Row /\ ~job[c].row.deleted
          /\ \E r \in rows : SameRow(r, job[c].row)
    /\ \A c \in Clients : pc[c] = "wf_delete" =>
          \E r \in rows :
              /\ r.id = job[c].copy
              /\ r.entry = job[c].row.entry
              /\ r.doc # job[c].row.doc

-----------------------------------------------------------------------------
(* The inductive invariants behind VariantsUnique, PublishTakesEffect and  *)
(* ImplementsEntries.                                                      *)

SameKey(r, q) == r.doc = q.doc /\ r.locale = q.locale /\ r.state = q.state

\* However calls overlap: one row for each document, locale and state, deleted
\* or not, and no entry that is still to begin.
KeyInv ==
    /\ \A r, q \in rows : SameKey(r, q) => r = q
    /\ \A r \in rows : r.entry < nextId

\* When calls do not overlap, the row a call has read is still in the table.
ReadInv == \A c \in Clients : pc[c] \notin {"idle", "wf_delete"} => job[c].row \in rows

\* The documents that will be left, once the workflow steps under way are done.
Staying(d) == \A c \in Clients : pc[c] = "wf_delete" => d # job[c].row.doc

\* When calls neither overlap nor fail, what is live of an entry is of one document.
OneDocInv ==
    \A r, q \in rows :
        /\ ~r.deleted /\ ~q.deleted /\ Staying(r.doc) /\ Staying(q.doc)
        /\ r.entry = q.entry
        => r.doc = q.doc

\* The calls under way that have still to insert their row.
Copying == {c \in Clients : pc[c] \in {"publish", "unpublish", "wf_publish", "wf_unpublish"}}

\* A call inserts one row at most, so that a document id was given by a client or
\* generated by one of the calls.
BoundInv ==
    /\ IsFiniteSet(Copying)
    /\ nextId + Cardinality(Copying) <= calls + 1
    /\ calls <= MaxCalls
    /\ \A r \in rows : r.doc \in GivenDocs \cup 1..MaxCalls

=============================================================================
