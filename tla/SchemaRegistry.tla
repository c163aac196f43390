--------------------------- MODULE SchemaRegistry ---------------------------
(***************************************************************************)
(* The content-type registry of the server: the Content-Type Builder's     *)
(* ctb_apply (crates/services/src/content_type_builder.rs) with everything *)
(* it changes: the rows of content_type_schemas, the schema_change_log,    *)
(* the physical content tables, and the in-memory schema cache that every  *)
(* request of the server reads.                                            *)
(*                                                                         *)
(* Several requests run ctb_apply at the same time (Axum handlers over one *)
(* AppContext).  One call is the steps                                     *)
(*                                                                         *)
(*     Submit / AiSave / AiDelete   validate, read the cache, diff         *)
(*     Begin                        open the transaction, DDL, read rows   *)
(*     Commit                       upsert rows, write the log, commit     *)
(*     LoadRows                     rebuild_cache: select version > 0      *)
(*     SwapCache                    rebuild_cache: replace, answer Ok      *)
(*                                                                         *)
(* and Fail, a database error or a dropped request, may end it anywhere.   *)
(* The registration of the table and the grants that follow SwapCache      *)
(* touch none of this and are left out.                                    *)
(***************************************************************************)
EXTENDS Integers, FiniteSets

CONSTANTS
    Appliers,           \* requests that can be in ctb_apply at the same time
    Uids,               \* content-type uids
    Tables,             \* physical table names
    Attrs,              \* attribute names
    Families,           \* SQL families of attributes (model.rs, SqlFamily)
    Requests,           \* the batches clients send
    ToolSaves,          \* uid and schema of the saves the AI tools make
    Backend,            \* "postgres" or "sqlite"
    DropAfterCommit,    \* may a call end between its commit and its rebuild?
    MaxApplies,         \* bound: calls started
    NoFamily, NoSchema, NoRow, NoTable

(* An attribute is abstracted to its SQL family: what diff() and the DDL   *)
(* distinguish.  A schema is its table name and its attributes.            *)
Schema == [table : Tables, attrs : [Attrs -> Families \cup {NoFamily}]]

Registry == [Uids -> Schema \cup {NoSchema}]

Batch == [desired : Registry, removed : SUBSET Uids]

ASSUME ConstantsAssumption ==
    /\ NoFamily \notin Families
    /\ NoSchema \notin Schema
    /\ Backend \in {"postgres", "sqlite"}
    /\ DropAfterCommit \in BOOLEAN
    /\ MaxApplies \in Nat
    /\ Requests \subseteq Batch
    /\ ToolSaves \subseteq Uids \X Schema

Row == [version : Int, deleted : BOOLEAN, schema : Schema]
ASSUME NoRowAssumption == NoRow \notin Row

Table == [cols : [Attrs -> Families \cup {NoFamily}],
          detached : SUBSET (Attrs \X Families)]
ASSUME NoTableAssumption == NoTable \notin Table

LogEntry == [id : Nat, uid : Uids, kind : {"Created", "Updated", "Removed"},
             from : Int, to : Int]

VARIABLES
    rows,       \* content_type_schemas, one row per uid, never deleted
    log,        \* schema_change_log
    tables,     \* content tables with their live and detached columns
    cache,      \* SchemaCache: what the server serves
    up,         \* is the server process running?
    pc,         \* where each call of ctb_apply is
    job,        \* the locals of each call
    reply,      \* the last answer of each applier
    applies     \* calls started, for the bound

vars == <<rows, log, tables, cache, up, pc, job, reply, applies>>

EmptyRegistry == [u \in Uids |-> NoSchema]

\* The locals of a call before its transaction.
NewJob(ticket, batch, current) ==
    [ticket  |-> ticket,
     batch   |-> batch,
     current |-> current,
     seen    |-> [u \in Uids |-> NoRow],
     locks   |-> {},
     loaded  |-> EmptyRegistry]

IdleJob == NewJob(0, [desired |-> EmptyRegistry, removed |-> {}], EmptyRegistry)

Init ==
    /\ rows = [u \in Uids |-> NoRow]
    /\ log = {}
    /\ tables = [t \in Tables |-> NoTable]
    /\ cache = EmptyRegistry
    /\ up = TRUE
    /\ pc = [p \in Appliers |-> "idle"]
    /\ job = [p \in Appliers |-> IdleJob]
    /\ reply = [p \in Appliers |-> "none"]
    /\ applies = 0

-----------------------------------------------------------------------------
(* diff: the change of one content type between the cache snapshot the     *)
(* call took and the batch.                                                *)

Has(s, a) == s.attrs[a] # NoFamily

Added(cur, new) == {a \in Attrs : Has(new, a) /\ ~Has(cur, a)}

Dropped(cur, new) == {a \in Attrs : Has(cur, a) /\ ~Has(new, a)}

Changed(cur, new) ==
    {a \in Attrs : Has(cur, a) /\ Has(new, a) /\ cur.attrs[a] # new.attrs[a]}

DiffKind(cur, new) ==
    IF cur = NoSchema THEN "Created"
    ELSE IF Added(cur, new) \cup Dropped(cur, new) \cup Changed(cur, new) = {}
         THEN "Unchanged" ELSE "Updated"

\* The content types the batch creates or updates, and those it removes: a
\* uid is removed only if it is listed, served, and not also in the batch.
Desired(p) == {u \in Uids : job[p].batch.desired[u] # NoSchema}

\* Mutant of Removed: the batch is taken for the whole registry.
RemovedIfAbsent(p) == {u \in Uids \ Desired(p) : job[p].current[u] # NoSchema}

Removed(p) ==
    {u \in job[p].batch.removed \ Desired(p) : job[p].current[u] # NoSchema}

Kind(p, u) == DiffKind(job[p].current[u], job[p].batch.desired[u])

-----------------------------------------------------------------------------
(* DDL.  CREATE TABLE is IF NOT EXISTS.  An update adds the new columns,   *)
(* and for a change of family renames the old column away and adds a new   *)
(* one.  Nothing is dropped: not the columns of removed attributes, not    *)
(* the tables of removed content types.                                    *)

CreateHostTable(t, new) ==
    IF tables[t] = NoTable THEN [cols |-> new.attrs, detached |-> {}] ELSE tables[t]

\* Mutants of ApplyUpdate: a changed column is dropped instead of renamed, and
\* is renamed away with no new one added.
ApplyUpdateDropping(t, cur, new) ==
    [tables[t] EXCEPT !.cols = [a \in Attrs |->
        IF a \in Added(cur, new) \cup Changed(cur, new) THEN new.attrs[a] ELSE @[a]]]
ApplyUpdateDetaching(t, cur, new) ==
    [cols |-> [a \in Attrs |->
                 IF a \in Changed(cur, new) THEN NoFamily
                 ELSE IF a \in Added(cur, new) THEN new.attrs[a] ELSE tables[t].cols[a]],
     detached |-> tables[t].detached \cup
                 {<<a, tables[t].cols[a]>> : a \in Changed(cur, new)}]

ApplyUpdate(t, cur, new) ==
    LET old == tables[t] IN
    [cols |-> [a \in Attrs |->
                 IF \/ a \in Added(cur, new) /\ old.cols[a] = NoFamily
                    \/ a \in Changed(cur, new)
                 THEN new.attrs[a] ELSE old.cols[a]],
     detached |-> old.detached \cup
                 {<<a, old.cols[a]>> : a \in {b \in Changed(cur, new) : old.cols[b] # NoFamily}}]

\* Altering needs the table, renaming needs the column, and SQLite knows no
\* ADD COLUMN IF NOT EXISTS: it fails on a column that is still there.
UpdateSucceeds(t, cur, new) ==
    /\ Added(cur, new) \cup Changed(cur, new) # {} => tables[t] # NoTable
    /\ \A a \in Changed(cur, new) : tables[t].cols[a] # NoFamily
    /\ Backend = "sqlite" =>
          /\ tables[t] # NoTable
          /\ \A a \in Added(cur, new) : tables[t].cols[a] = NoFamily

DdlSucceeds(p) ==
    \A u \in Desired(p) :
        Kind(p, u) = "Updated" =>
            LET new == job[p].batch.desired[u] IN
            UpdateSucceeds(new.table, job[p].current[u], new)

ApplySchemaDiff(p, u) ==
    LET new == job[p].batch.desired[u] IN
    CASE Kind(p, u) = "Created" -> CreateHostTable(new.table, new)
      [] Kind(p, u) = "Updated" /\ tables[new.table] # NoTable ->
            ApplyUpdate(new.table, job[p].current[u], new)
      [] OTHER -> tables[new.table]

TablesAfter(p) ==
    [t \in Tables |->
        IF \E u \in Desired(p) : job[p].batch.desired[u].table = t
        THEN ApplySchemaDiff(p, CHOOSE u \in Desired(p) : job[p].batch.desired[u].table = t)
        ELSE tables[t]]

\* The tables the transaction creates or alters: PostgreSQL keeps them locked
\* until it ends, SQLite locks the whole database.
Locks(p) ==
    IF Backend = "sqlite" THEN Tables
    ELSE {job[p].batch.desired[u].table : u \in
            {v \in Desired(p) :
                LET new == job[p].batch.desired[v] IN
                \/ Kind(p, v) = "Updated"
                     /\ Added(job[p].current[v], new) \cup Changed(job[p].current[v], new) # {}
                \/ Kind(p, v) = "Created" /\ tables[new.table] = NoTable}}

-----------------------------------------------------------------------------
(* Steps of ctb_apply.                                                     *)

\* validate_schemas checks the batch only against itself: within it, no two
\* content types may use one table.
Valid(b) ==
    \A u, v \in Uids :
        /\ u # v
        /\ b.desired[u] # NoSchema
        /\ b.desired[v] # NoSchema
        => b.desired[u].table # b.desired[v].table

Start(p, b) ==
    /\ up
    /\ pc[p] = "idle"
    /\ applies < MaxApplies
    /\ Valid(b)
    /\ pc' = [pc EXCEPT ![p] = "begin"]
    /\ job' = [job EXCEPT ![p] = NewJob(applies + 1, b, cache)]
    /\ reply' = [reply EXCEPT ![p] = "none"]
    /\ applies' = applies + 1
    /\ UNCHANGED <<rows, log, tables, cache, up>>

\* POST /content-type-builder/schema, and the bundle import.
Submit(p) == \E b \in Requests : Start(p, b)

\* The AI tools read the whole registry from the cache and send it back, with
\* one content type replaced, or with one listed as removed.
AiSave(p) ==
    \E x \in ToolSaves :
        Start(p, [desired |-> [cache EXCEPT ![x[1]] = x[2]], removed |-> {}])

AiDelete(p) ==
    \E u \in Uids :
        /\ cache[u] # NoSchema
        /\ Start(p, [desired |-> cache, removed |-> {u}])

Begin(p) ==
    /\ pc[p] = "begin"
    /\ DdlSucceeds(p)
    /\ \A q \in Appliers \ {p} : job[q].locks \cap Locks(p) = {}
    /\ pc' = [pc EXCEPT ![p] = "commit"]
    /\ job' = [job EXCEPT ![p] = [@ EXCEPT !.seen = rows, !.locks = Locks(p)]]
    /\ UNCHANGED <<rows, log, tables, cache, up, reply, applies>>

\* Versions count up from what the transaction read; removal negates.
PreviousVersion(p, u) == IF job[p].seen[u] = NoRow THEN 0 ELSE job[p].seen[u].version

UpsertedRow(p, u) ==
    [version |-> PreviousVersion(p, u) + 1,
     deleted |-> IF job[p].seen[u] = NoRow THEN FALSE ELSE job[p].seen[u].deleted,
     schema  |-> job[p].batch.desired[u]]

RemovedRow(p, u) ==
    [version |-> -PreviousVersion(p, u), deleted |-> TRUE, schema |-> job[p].seen[u].schema]

\* Mutant of Logged: a removal is not logged.
LoggedSaves(p) == {u \in Desired(p) : Kind(p, u) # "Unchanged"}

\* One entry per content type the batch changes; the call's ticket keeps the
\* entries of different calls apart, as the row id of the log does.
Logged(p) == {u \in Desired(p) : Kind(p, u) # "Unchanged"} \cup Removed(p)

Entry(p, u) ==
    [id   |-> job[p].ticket,
     uid  |-> u,
     kind |-> IF u \in Removed(p) THEN "Removed" ELSE Kind(p, u),
     from |-> PreviousVersion(p, u),
     to   |-> IF u \in Removed(p) THEN -PreviousVersion(p, u) ELSE PreviousVersion(p, u) + 1]

NewEntries(p) == {Entry(p, u) : u \in Logged(p)}

\* The uid is unique: inserting a row another call has inserted meanwhile fails.
Conflicts(p) == \E u \in Desired(p) : job[p].seen[u] = NoRow /\ rows[u] # NoRow

Commit(p) ==
    /\ pc[p] = "commit"
    /\ ~Conflicts(p)
    /\ rows' = [u \in Uids |->
                  CASE u \in Desired(p) -> UpsertedRow(p, u)
                    [] u \in Removed(p) /\ job[p].seen[u] # NoRow -> RemovedRow(p, u)
                    [] OTHER -> rows[u]]
    /\ log' = log \cup NewEntries(p)
    /\ tables' = TablesAfter(p)
    /\ pc' = [pc EXCEPT ![p] = "load"]
    /\ job' = [job EXCEPT ![p].locks = {}]
    /\ UNCHANGED <<cache, up, reply, applies>>

\* What a select of the rows with version > 0 returns.
Live(u) == rows[u] # NoRow /\ rows[u].version > 0

LiveSchemas == [u \in Uids |-> IF Live(u) THEN rows[u].schema ELSE NoSchema]

\* Mutant of LoadRows: the rebuild starts from the snapshot the diff was made of.
LoadSnapshot(p) ==
    /\ pc[p] = "load"
    /\ pc' = [pc EXCEPT ![p] = "swap"]
    /\ job' = [job EXCEPT ![p].loaded = job[p].current]
    /\ UNCHANGED <<rows, log, tables, cache, up, reply, applies>>

LoadRows(p) ==
    /\ pc[p] = "load"
    /\ pc' = [pc EXCEPT ![p] = "swap"]
    /\ job' = [job EXCEPT ![p].loaded = LiveSchemas]
    /\ UNCHANGED <<rows, log, tables, cache, up, reply, applies>>

\* The call returns: the transaction, if still open, is rolled back.
\* Mutant of Return: the failed call leaves its transaction open.
ReturnLocked(p, answer) ==
    /\ pc' = [pc EXCEPT ![p] = "idle"]
    /\ job' = [job EXCEPT ![p] = [IdleJob EXCEPT !.locks = job[p].locks]]
    /\ reply' = [reply EXCEPT ![p] = answer]

Return(p, answer) ==
    /\ pc' = [pc EXCEPT ![p] = "idle"]
    /\ job' = [job EXCEPT ![p] = IdleJob]
    /\ reply' = [reply EXCEPT ![p] = answer]

SwapCache(p) ==
    /\ pc[p] = "swap"
    /\ cache' = job[p].loaded
    /\ Return(p, "ok")
    /\ UNCHANGED <<rows, log, tables, up, applies>>

\* The DDL or the insert is refused by the database.
Refused(p) ==
    /\ \/ pc[p] = "begin" /\ ~DdlSucceeds(p)
       \/ pc[p] = "commit" /\ Conflicts(p)
    /\ Return(p, "error")
    /\ UNCHANGED <<rows, log, tables, cache, up, applies>>

\* Any other database error, or a client that goes away: Axum drops the
\* handler at its next await.
Fail(p) ==
    /\ pc[p] \in {"begin", "commit"} \/ (DropAfterCommit /\ pc[p] \in {"load", "swap"})
    /\ Return(p, "error")
    /\ UNCHANGED <<rows, log, tables, cache, up, applies>>

-----------------------------------------------------------------------------
(* The process dies with its cache and its open transactions, and starts   *)
(* again: load_schema_cache runs before the first request is served.       *)

Crash ==
    /\ up
    /\ up' = FALSE
    /\ cache' = EmptyRegistry
    /\ pc' = [p \in Appliers |-> "idle"]
    /\ job' = [p \in Appliers |-> IdleJob]
    /\ reply' = [p \in Appliers |-> "none"]
    /\ UNCHANGED <<rows, log, tables, applies>>

Boot ==
    /\ ~up
    /\ up' = TRUE
    /\ cache' = LiveSchemas
    /\ UNCHANGED <<rows, log, tables, pc, job, reply, applies>>

-----------------------------------------------------------------------------
Step(p) ==
    \/ Submit(p)
    \/ AiSave(p)
    \/ AiDelete(p)
    \/ Begin(p)
    \/ Commit(p)
    \/ LoadRows(p)
    \/ SwapCache(p)
    \/ Refused(p)
    \/ Fail(p)

Next == (\E p \in Appliers : Step(p)) \/ Crash \/ Boot

Spec == Init /\ [][Next]_vars

(* A started call runs on: its task is scheduled, and the database grants  *)
(* locks in turn, so a call that can take its locks again and again does.  *)
Fairness ==
    /\ \A p \in Appliers :
          /\ SF_vars(Begin(p))
          /\ WF_vars(Commit(p) \/ LoadRows(p) \/ SwapCache(p) \/ Refused(p))
    /\ WF_vars(Boot)

FairSpec == Spec /\ Fairness

-----------------------------------------------------------------------------
(* Properties.                                                             *)

JobType ==
    [ticket : Nat, batch : Batch, current : Registry,
     seen : [Uids -> Row \cup {NoRow}], locks : SUBSET Tables, loaded : Registry]

(* Every variable has its type: a row, a log entry, a table or the locals  *)
(* of a call are never half written.                                       *)
TypeOK ==
    /\ rows \in [Uids -> Row \cup {NoRow}]
    /\ log \subseteq LogEntry
    /\ tables \in [Tables -> Table \cup {NoTable}]
    /\ cache \in Registry
    /\ up \in BOOLEAN
    /\ pc \in [Appliers -> {"idle", "begin", "commit", "load", "swap"}]
    /\ job \in [Appliers -> JobType]
    /\ reply \in [Appliers -> {"none", "ok", "error"}]
    /\ applies \in Nat

\* The log explains a row r of the content type u.
Accounted(u, r) ==
    r # NoRow =>
        /\ \E e \in log : e.uid = u /\ e.kind = "Created" /\ e.from = 0
        /\ r.deleted => \E e \in log : e.uid = u /\ e.kind = "Removed"
        /\ r.version <= 0 => r.deleted

(* Whatever calls overlap and fail, the log accounts for the registry: a   *)
(* content type that has a row was logged as created from version 0, one   *)
(* that is marked deleted was logged as removed, and one out of use (its   *)
(* version is not positive) is marked deleted.                             *)
AuditTrail == \A u \in Uids : Accounted(u, rows[u])

(* The DDL never destroys data: no step drops a table, and the column of   *)
(* an attribute stays live or is kept detached.                            *)
StorageRetained ==
    [][\A t \in Tables : tables[t] # NoTable =>
          /\ tables'[t] # NoTable
          /\ tables[t].detached \subseteq tables'[t].detached
          /\ \A a \in Attrs : tables[t].cols[a] # NoFamily =>
                \/ tables'[t].cols[a] = tables[t].cols[a]
                \/ /\ <<a, tables[t].cols[a]>> \in tables'[t].detached
                   /\ tables'[t].cols[a] # NoFamily]_vars

\* A schema whose table exists and has a column for each of its attributes.
Stored(s) ==
    /\ tables[s.table] # NoTable
    /\ \A a \in Attrs : Has(s, a) => tables[s.table].cols[a] # NoFamily

CreatedOnce(u) ==
    \A e, f \in log :
        e.uid = u /\ f.uid = u /\ e.kind = "Created" /\ f.kind = "Created" => e = f

(* Each content type keeps one table of its own in whatever clients send.  *)
NamesAre(f) ==
    /\ \A u, v \in Uids : f[u] = f[v] => u = v
    /\ \A b \in Requests, u \in Uids :
          b.desired[u] # NoSchema => b.desired[u].table = f[u]
    /\ \A x \in ToolSaves : x[2].table = f[x[1]]

StableNames == \E f \in [Uids -> Tables] : NamesAre(f)

(* With stable table names, and however many stale diffs are applied at    *)
(* the same time, every attribute the registry or the cache knows has its  *)
(* column, as long as the content type was diffed as new only once.        *)
ServedIsStored ==
    StableNames =>
        \A u \in Uids : CreatedOnce(u) =>
            /\ rows[u] # NoRow => Stored(rows[u].schema)
            /\ cache[u] # NoSchema => Stored(cache[u])

(* A call that answers Ok leaves the cache with what the registry holds,   *)
(* as the design has it: rebuilt after every save.                         *)
OkMeansCacheCurrent ==
    [][\A p \in Appliers : pc[p] = "swap" /\ reply'[p] = "ok" => cache' = LiveSchemas']_vars

(* Every call of ctb_apply returns: none waits for ever for the table      *)
(* locks of another.                                                       *)
EveryApplyReturns == \A p \in Appliers : pc[p] # "idle" ~> pc[p] = "idle"

(* Only a batch that contains a content type puts it into use.             *)
OnlySavesRevive ==
    [][\A u \in Uids : ~Live(u) /\ Live(u)' =>
          \E p \in Appliers : pc[p] = "commit" /\ u \in Desired(p)]_vars

(* Calls that do not overlap: saves decide what is served, and when they    *)
(* answer Ok it is.                                                         *)
SavesDecide == OkMeansCacheCurrent /\ OnlySavesRevive

(* A save that answers Ok is served: its content types are in the cache.   *)
SavedIsServed ==
    [][\A p \in Appliers : reply'[p] = "ok" /\ pc[p] = "swap" =>
          \A u \in Desired(p) : cache'[u] # NoSchema]_vars

(* The content types in use change as the abstract catalog says: batch by  *)
(* batch, each as a whole, and never as a full replacement.                *)
AbstractCatalog == INSTANCE Catalog WITH Schemas <- Schema, inUse <- LiveSchemas
ImplementsCatalog == AbstractCatalog!Spec

-----------------------------------------------------------------------------
(* The inductive invariants behind AuditTrail, ServedIsStored, SavesDecide *)
(* and ImplementsCatalog.                                                  *)

\* What a call read stays explained; whatever is or was served has a row.
AuditInv ==
    /\ \A u \in Uids : Accounted(u, rows[u])
    /\ \A u \in Uids : cache[u] # NoSchema => rows[u] # NoRow
    /\ \A p \in Appliers, u \in Uids :
          /\ Accounted(u, job[p].seen[u])
          /\ job[p].current[u] # NoSchema =>
                rows[u] # NoRow /\ (pc[p] = "commit" => job[p].seen[u] # NoRow)
          /\ job[p].loaded[u] # NoSchema => rows[u] # NoRow

\* No two calls under way share a ticket, and none finds its own in the log
\* before it commits.
TicketInv ==
    /\ \A e \in log : e.id <= applies
    /\ \A p \in Appliers : job[p].ticket <= applies
    /\ \A p, q \in Appliers :
          p # q /\ pc[p] # "idle" /\ pc[q] # "idle" => job[p].ticket # job[q].ticket
    /\ \A p \in Appliers :
          pc[p] \in {"begin", "commit"} => \A e \in log : e.id # job[p].ticket

\* A schema of u under its own name, stored unless u was created twice.
Kept(f, u, s) == s.table = f[u] /\ (CreatedOnce(u) => Stored(s))

StoredInv(f) ==
    \A u \in Uids :
        /\ tables[f[u]] # NoTable => \E e \in log : e.uid = u /\ e.kind = "Created"
        /\ rows[u] # NoRow => Kept(f, u, rows[u].schema)
        /\ cache[u] # NoSchema => Kept(f, u, cache[u])
        /\ \A p \in Appliers :
              /\ job[p].batch.desired[u] # NoSchema => job[p].batch.desired[u].table = f[u]
              /\ job[p].current[u] # NoSchema => Kept(f, u, job[p].current[u])
              /\ job[p].loaded[u] # NoSchema => Kept(f, u, job[p].loaded[u])
              /\ job[p].seen[u] # NoRow => Kept(f, u, job[p].seen[u].schema)

\* A batch that was sent while the content types in use were what they are.
SentNow(b) ==
    \/ b \in Requests
    \/ \E x \in ToolSaves :
          b = [desired |-> [LiveSchemas EXCEPT ![x[1]] = x[2]], removed |-> {}]
    \/ \E u \in Uids : LiveSchemas[u] # NoSchema /\ b = [desired |-> LiveSchemas, removed |-> {u}]

\* When calls do not overlap, and none ends between its commit and its rebuild:
\* the cache is current but in between, and nothing a call has read has changed.
SerialInv ==
    /\ up /\ (\A p \in Appliers : pc[p] \notin {"load", "swap"}) => cache = LiveSchemas
    /\ \A p \in Appliers :
          /\ pc[p] \in {"begin", "commit"} =>
                job[p].current = LiveSchemas /\ SentNow(job[p].batch)
          /\ pc[p] = "commit" => job[p].seen = rows
          /\ pc[p] = "swap" => job[p].loaded = LiveSchemas

=============================================================================
