------------------------ MODULE SchemaRegistryProofs ------------------------
(***************************************************************************)
(* Theorems about SchemaRegistry, for every set of calls, content types,   *)
(* tables, attributes and batches.                                         *)
(***************************************************************************)
EXTENDS SchemaRegistry, TLAPS

-----------------------------------------------------------------------------
(* Type correctness.                                                       *)

LEMMA NewJobType ==
    ASSUME NEW n \in Nat, NEW b \in Batch, NEW c \in Registry
    PROVE  NewJob(n, b, c) \in JobType
BY DEF NewJob, JobType, EmptyRegistry, Registry

LEMMA EmptyTypes ==
    /\ EmptyRegistry \in Registry
    /\ IdleJob \in JobType
<1>1. EmptyRegistry \in Registry
  BY DEF EmptyRegistry, Registry
<1>2. [desired |-> EmptyRegistry, removed |-> {}] \in Batch
  BY <1>1 DEF Batch
<1> QED
  BY <1>1, <1>2, NewJobType DEF IdleJob

(* The locals of a call keep their types when it starts.                   *)
LEMMA StartType ==
    ASSUME TypeOK, NEW p \in Appliers, NEW b \in Batch, Start(p, b)
    PROVE  TypeOK'
<1>1. NewJob(applies + 1, b, cache) \in JobType
  BY NewJobType DEF TypeOK
<1> QED
  BY <1>1 DEF TypeOK, Start

LEMMA ToolBatches ==
    ASSUME TypeOK
    PROVE  /\ \A x \in ToolSaves :
                 [desired |-> [cache EXCEPT ![x[1]] = x[2]], removed |-> {}] \in Batch
           /\ \A u \in Uids : [desired |-> cache, removed |-> {u}] \in Batch
BY ConstantsAssumption DEF TypeOK, Batch, Registry

LEMMA ReturnType ==
    ASSUME TypeOK, NEW p \in Appliers, NEW answer \in {"ok", "error"}, Return(p, answer)
    PROVE  /\ pc' \in [Appliers -> {"idle", "begin", "commit", "load", "swap"}]
           /\ job' \in [Appliers -> JobType]
           /\ reply' \in [Appliers -> {"none", "ok", "error"}]
BY EmptyTypes DEF TypeOK, Return

LEMMA LiveType == TypeOK => LiveSchemas \in Registry
BY NoRowAssumption DEF TypeOK, LiveSchemas, Live, Registry, Row

(* An update of a table leaves it well formed.                             *)
LEMMA UpdateType ==
    ASSUME NEW t \in Tables, tables[t] \in Table, NEW cur, NEW new \in Schema
    PROVE  ApplyUpdate(t, cur, new) \in Table
<1> DEFINE old == tables[t]
<1>1. /\ old.cols \in [Attrs -> Families \cup {NoFamily}]
      /\ old.detached \in SUBSET (Attrs \X Families)
      /\ new.attrs \in [Attrs -> Families \cup {NoFamily}]
  BY DEF Table, Schema
<1>2. {<<a, old.cols[a]>> : a \in {b \in Changed(cur, new) : old.cols[b] # NoFamily}}
        \subseteq Attrs \X Families
  <2>1. ASSUME NEW a \in Changed(cur, new), old.cols[a] # NoFamily
        PROVE  <<a, old.cols[a]>> \in Attrs \X Families
    BY <1>1, <2>1 DEF Changed
  <2> QED
    BY <2>1
<1> QED
  BY <1>1, <1>2 DEF ApplyUpdate, Table

(* The DDL leaves every table well formed.                                 *)
LEMMA TablesAfterType ==
    ASSUME TypeOK, NEW p \in Appliers
    PROVE  TablesAfter(p) \in [Tables -> Table \cup {NoTable}]
<1>1. ASSUME NEW u \in Desired(p)
      PROVE  ApplySchemaDiff(p, u) \in Table \cup {NoTable}
  <2> DEFINE new == job[p].batch.desired[u]
             cur == job[p].current[u]
  <2>1. new \in Schema /\ cur \in Schema \cup {NoSchema} /\ u \in Uids
    BY <1>1 DEF TypeOK, JobType, Batch, Registry, Desired
  <2>2. new.table \in Tables /\ new.attrs \in [Attrs -> Families \cup {NoFamily}]
    BY <2>1 DEF Schema
  <2>3. tables[new.table] \in Table \cup {NoTable}
    BY <2>2 DEF TypeOK
  <2>4. CreateHostTable(new.table, new) \in Table \cup {NoTable}
    BY <2>2, <2>3 DEF CreateHostTable, Table
  <2>5. tables[new.table] # NoTable => ApplyUpdate(new.table, cur, new) \in Table
    BY <2>1, <2>2, <2>3, UpdateType
  <2> QED
    BY <2>3, <2>4, <2>5 DEF ApplySchemaDiff
<1> QED
  BY <1>1 DEF TablesAfter, TypeOK

(* What a commit writes has the types of the rows and of the log.          *)
LEMMA PreviousVersionType ==
    ASSUME TypeOK, NEW p \in Appliers, NEW u \in Uids
    PROVE  PreviousVersion(p, u) \in Int
BY DEF TypeOK, PreviousVersion, JobType, Row

LEMMA UpsertedRowType ==
    ASSUME TypeOK, NEW p \in Appliers, NEW u \in Uids, u \in Desired(p)
    PROVE  UpsertedRow(p, u) \in Row
<1>1. job[p].batch.desired[u] \in Schema
  BY DEF TypeOK, JobType, Desired, Batch, Registry
<1>2. job[p].seen[u] # NoRow => job[p].seen[u].deleted \in BOOLEAN
  BY DEF TypeOK, JobType, Row
<1>3. PreviousVersion(p, u) + 1 \in Int
  BY PreviousVersionType
<1> QED
  BY <1>1, <1>2, <1>3 DEF UpsertedRow, Row

LEMMA RemovedRowType ==
    ASSUME TypeOK, NEW p \in Appliers, NEW u \in Uids, job[p].seen[u] # NoRow
    PROVE  RemovedRow(p, u) \in Row
<1>1. job[p].seen[u].schema \in Schema
  BY DEF TypeOK, JobType, Row
<1>2. -PreviousVersion(p, u) \in Int
  BY PreviousVersionType
<1> QED
  BY <1>1, <1>2 DEF RemovedRow, Row

LEMMA CommitType ==
    ASSUME TypeOK, NEW p \in Appliers, Commit(p)
    PROVE  TypeOK'
<1>1. job[p] \in JobType
  BY DEF TypeOK
<1>2. ASSUME NEW u \in Uids PROVE PreviousVersion(p, u) \in Int
  BY PreviousVersionType
<1>3. ASSUME NEW u \in Uids, u \in Desired(p) PROVE UpsertedRow(p, u) \in Row
  BY <1>3, UpsertedRowType
<1>4. ASSUME NEW u \in Uids, job[p].seen[u] # NoRow PROVE RemovedRow(p, u) \in Row
  BY <1>4, RemovedRowType
<1>5. rows' \in [Uids -> Row \cup {NoRow}]
  BY <1>3, <1>4 DEF Commit, TypeOK
<1>6. NewEntries(p) \subseteq LogEntry
  <2>1. ASSUME NEW u \in Logged(p)
        PROVE  Entry(p, u) \in LogEntry
    <3>1. u \in Uids
      BY <1>1, <2>1 DEF Logged, Desired, Removed, JobType, Batch
    <3>2. (IF u \in Removed(p) THEN "Removed" ELSE Kind(p, u)) \in {"Created", "Updated", "Removed"}
      BY <2>1 DEF Logged, Kind, DiffKind
    <3> QED
      BY <1>1, <1>2, <3>1, <3>2 DEF Entry, LogEntry, JobType
  <2> QED
    BY <2>1 DEF NewEntries
<1>7. tables' \in [Tables -> Table \cup {NoTable}]
  BY TablesAfterType DEF Commit
<1>8. job' \in [Appliers -> JobType]
  BY DEF Commit, TypeOK, JobType
<1> QED
  BY <1>5, <1>6, <1>7, <1>8 DEF Commit, TypeOK

(* Every variable keeps its type in every behaviour of the registry.       *)
THEOREM TypeCorrect == Spec => []TypeOK
<1>1. Init => TypeOK
  BY EmptyTypes, ConstantsAssumption DEF Init, TypeOK
<1>2. TypeOK /\ [Next]_vars => TypeOK'
  <2> SUFFICES ASSUME TypeOK, [Next]_vars PROVE TypeOK'
    OBVIOUS
  <2>1. ASSUME NEW p \in Appliers, Submit(p) PROVE TypeOK'
    BY <2>1, StartType, ConstantsAssumption DEF Submit
  <2>2. ASSUME NEW p \in Appliers, AiSave(p) PROVE TypeOK'
    <3>1. PICK x \in ToolSaves :
            Start(p, [desired |-> [cache EXCEPT ![x[1]] = x[2]], removed |-> {}])
      BY <2>2 DEF AiSave
    <3> QED
      BY <3>1, ToolBatches, StartType
  <2>3. ASSUME NEW p \in Appliers, AiDelete(p) PROVE TypeOK'
    <3>1. PICK u \in Uids : Start(p, [desired |-> cache, removed |-> {u}])
      BY <2>3 DEF AiDelete
    <3> QED
      BY <3>1, ToolBatches, StartType
  <2>4. ASSUME NEW p \in Appliers, Begin(p) PROVE TypeOK'
    <3>1. Locks(p) \subseteq Tables
      BY DEF Locks, TypeOK, JobType, Batch, Registry, Desired, Schema
    <3>2. [job[p] EXCEPT !.seen = rows, !.locks = Locks(p)] \in JobType
      BY <3>1 DEF TypeOK, JobType
    <3>3. job' \in [Appliers -> JobType]
      BY <2>4, <3>2 DEF Begin, TypeOK
    <3> QED
      BY <2>4, <3>3 DEF Begin, TypeOK
  <2>5. ASSUME NEW p \in Appliers, Commit(p) PROVE TypeOK'
    BY <2>5, CommitType
  <2>6. ASSUME NEW p \in Appliers, LoadRows(p) PROVE TypeOK'
    <3>1. job' \in [Appliers -> JobType]
      BY <2>6, LiveType DEF LoadRows, TypeOK, JobType
    <3> QED
      BY <2>6, <3>1 DEF LoadRows, TypeOK
  <2>7. ASSUME NEW p \in Appliers, SwapCache(p) PROVE TypeOK'
    BY <2>7, ReturnType DEF SwapCache, TypeOK, JobType
  <2>8. ASSUME NEW p \in Appliers, Refused(p) PROVE TypeOK'
    BY <2>8, ReturnType DEF Refused, TypeOK
  <2>9. ASSUME NEW p \in Appliers, Fail(p) PROVE TypeOK'
    BY <2>9, ReturnType DEF Fail, TypeOK
  <2>10. CASE Crash
    BY <2>10, EmptyTypes DEF Crash, TypeOK
  <2>11. CASE Boot
    BY <2>11, LiveType DEF Boot, TypeOK
  <2>12. CASE UNCHANGED vars
    BY <2>12 DEF vars, TypeOK
  <2> QED
    BY <2>1, <2>2, <2>3, <2>4, <2>5, <2>6, <2>7, <2>8, <2>9, <2>10, <2>11, <2>12
       DEF Next, Step
<1> QED
  BY <1>1, <1>2, PTL DEF Spec

-----------------------------------------------------------------------------
(* Data retention.                                                         *)

\* What StorageRetained says of one table.
TableRetained(t) ==
    tables[t] # NoTable =>
        /\ tables'[t] # NoTable
        /\ tables[t].detached \subseteq tables'[t].detached
        /\ \A a \in Attrs : tables[t].cols[a] # NoFamily =>
              \/ tables'[t].cols[a] = tables[t].cols[a]
              \/ /\ <<a, tables[t].cols[a]>> \in tables'[t].detached
                 /\ tables'[t].cols[a] # NoFamily

(* A commit retains every table: its DDL creates, adds and renames only.   *)
LEMMA CommitRetains ==
    ASSUME TypeOK, NEW p \in Appliers, Commit(p), NEW t \in Tables
    PROVE  TableRetained(t)
<1>1. tables' \in [Tables -> Table \cup {NoTable}] /\ tables'[t] = TablesAfter(p)[t]
  BY TablesAfterType DEF Commit
<1>2. CASE \E u \in Desired(p) : job[p].batch.desired[u].table = t
  <2>1. PICK u \in Desired(p) :
           job[p].batch.desired[u].table = t /\ tables'[t] = ApplySchemaDiff(p, u)
    BY <1>1, <1>2 DEF TablesAfter
  <2> DEFINE new == job[p].batch.desired[u]
             cur == job[p].current[u]
             old == tables[t]
  <2>2. CASE Kind(p, u) = "Created"
    BY <2>1, <2>2 DEF ApplySchemaDiff, CreateHostTable, TableRetained
  <2>3. CASE Kind(p, u) = "Updated" /\ old # NoTable
    <3>1. tables'[t] = ApplyUpdate(t, cur, new)
      BY <2>1, <2>3 DEF ApplySchemaDiff
    <3>2. tables'[t] # NoTable
      <4>1. old \in Table
        BY <2>3 DEF TypeOK
      <4>2. new \in Schema
        BY DEF TypeOK, JobType, Batch, Registry, Desired
      <4> QED
        BY <3>1, <4>1, <4>2, UpdateType, NoTableAssumption
    <3>3. old.detached \subseteq tables'[t].detached
      BY <3>1 DEF ApplyUpdate
    <3>4. ASSUME NEW a \in Attrs, old.cols[a] # NoFamily
          PROVE  \/ tables'[t].cols[a] = old.cols[a]
                 \/ /\ <<a, old.cols[a]>> \in tables'[t].detached
                    /\ tables'[t].cols[a] # NoFamily
      <4>1. CASE a \in Changed(cur, new)
        <5>1. tables'[t].cols[a] = new.attrs[a]
          BY <3>1, <4>1 DEF ApplyUpdate
        <5>2. new.attrs[a] # NoFamily
          BY <4>1 DEF Changed, Has
        <5>3. <<a, old.cols[a]>> \in tables'[t].detached
          BY <3>1, <3>4, <4>1 DEF ApplyUpdate
        <5> QED
          BY <5>1, <5>2, <5>3
      <4>2. CASE a \notin Changed(cur, new)
        <5>1. a \in Added(cur, new) => old.cols[a] # NoFamily
          BY <3>4
        <5> QED
          BY <3>1, <4>2, <5>1, <3>4 DEF ApplyUpdate
      <4> QED
        BY <4>1, <4>2
    <3> QED
      BY <3>2, <3>3, <3>4 DEF TableRetained
  <2> QED
    BY <2>1, <2>2, <2>3 DEF ApplySchemaDiff, TableRetained
<1>3. CASE ~\E u \in Desired(p) : job[p].batch.desired[u].table = t
  BY <1>1, <1>3 DEF TablesAfter, TableRetained
<1> QED
  BY <1>2, <1>3

(* The DDL never destroys data, whatever batches overlap and fail.         *)
THEOREM DataRetained == Spec => StorageRetained
<1>1. TypeOK /\ [Next]_vars => [\A t \in Tables : TableRetained(t)]_vars
  <2> SUFFICES ASSUME TypeOK, [Next]_vars, NEW t \in Tables PROVE TableRetained(t)
    OBVIOUS
  <2>1. ASSUME tables' = tables PROVE TableRetained(t)
    BY <2>1 DEF TableRetained
  <2>2. ASSUME NEW p \in Appliers, Commit(p) PROVE TableRetained(t)
    BY <2>2, CommitRetains
  <2> QED
    BY <2>1, <2>2 DEF Next, Step, Submit, AiSave, AiDelete, Start, Begin, LoadRows,
                      SwapCache, Refused, Fail, Crash, Boot, vars
<1> QED
  BY <1>1, TypeCorrect, PTL DEF Spec, StorageRetained, TableRetained

-----------------------------------------------------------------------------
(* The audit trail.                                                        *)

\* A growing log keeps a row explained.
LEMMA AccountedGrows ==
    ASSUME NEW u \in Uids, NEW r, Accounted(u, r), log \subseteq log'
    PROVE  Accounted(u, r)'
BY DEF Accounted

\* Only a commit touches the rows and the log.
LEMMA OnlyCommitWrites ==
    ASSUME [Next]_vars, ~\E p \in Appliers : Commit(p)
    PROVE  UNCHANGED <<rows, log, tables>>
BY DEF Next, Step, Submit, AiSave, AiDelete, Start, Begin, LoadRows, SwapCache,
       Refused, Fail, Crash, Boot, vars

LEMMA AuditInvInit == Init => AuditInv
BY DEF Init, AuditInv, Accounted, IdleJob, NewJob, EmptyRegistry

(* What a commit writes is explained by what it logs.                      *)
LEMMA CommitAudited ==
    ASSUME TypeOK, AuditInv, NEW p \in Appliers, Commit(p)
    PROVE  AuditInv'
<1>1. log \subseteq log' /\ NewEntries(p) \subseteq log'
  BY DEF Commit
<1>2. ASSUME NEW u \in Uids, rows[u] # NoRow PROVE rows'[u] # NoRow
  <2>1. CASE u \in Desired(p)
    <3>1. rows'[u] = UpsertedRow(p, u)
      BY <2>1 DEF Commit, Removed
    <3> QED
      BY <3>1, <2>1, UpsertedRowType, NoRowAssumption
  <2>2. CASE u \in Removed(p) /\ job[p].seen[u] # NoRow
    <3>1. rows'[u] = RemovedRow(p, u)
      BY <2>2 DEF Commit, Removed
    <3> QED
      BY <3>1, <2>2, <1>2, RemovedRowType, NoRowAssumption
  <2>3. CASE u \notin Desired(p) /\ ~(u \in Removed(p) /\ job[p].seen[u] # NoRow)
    BY <1>2, <2>3 DEF Commit
  <2> QED
    BY <2>1, <2>2, <2>3
<1>3. ASSUME NEW u \in Uids PROVE Accounted(u, rows[u])'
  <2>1. Accounted(u, job[p].seen[u]) /\ Accounted(u, rows[u])
    BY DEF AuditInv
  <2>2. CASE u \in Desired(p)
    <3>1. rows'[u] = UpsertedRow(p, u)
      BY <2>2 DEF Commit, Removed
    <3>2. CASE job[p].seen[u] = NoRow
      <4>1. job[p].current[u] = NoSchema
        BY <3>2 DEF AuditInv, Commit
      <4>2. u \in Logged(p) /\ u \notin Removed(p) /\ Kind(p, u) = "Created"
        BY <2>2, <4>1 DEF Logged, Kind, DiffKind, Removed
      <4>3. /\ Entry(p, u) \in NewEntries(p)
            /\ Entry(p, u).uid = u /\ Entry(p, u).kind = "Created" /\ Entry(p, u).from = 0
        BY <3>2, <4>2 DEF NewEntries, Entry, PreviousVersion
      <4>4. rows'[u].version = 1 /\ rows'[u].deleted = FALSE
        BY <3>1, <3>2 DEF UpsertedRow, PreviousVersion
      <4> QED
        BY <1>1, <4>3, <4>4 DEF Accounted
    <3>3. CASE job[p].seen[u] # NoRow
      <4>1. job[p].seen[u].version \in Int
        BY <3>3 DEF TypeOK, JobType, Row
      <4>2. /\ rows'[u].version = job[p].seen[u].version + 1
            /\ rows'[u].deleted = job[p].seen[u].deleted
        BY <3>1, <3>3 DEF UpsertedRow, PreviousVersion
      <4> QED
        BY <1>1, <2>1, <3>3, <4>1, <4>2 DEF Accounted
    <3> QED
      BY <3>2, <3>3
  <2>3. CASE u \in Removed(p) /\ job[p].seen[u] # NoRow
    <3>1. rows'[u] = RemovedRow(p, u)
      BY <2>3 DEF Commit, Removed
    <3>2. /\ Entry(p, u) \in NewEntries(p)
          /\ Entry(p, u).uid = u /\ Entry(p, u).kind = "Removed"
      BY <2>3 DEF NewEntries, Entry, Logged
    <3> QED
      BY <1>1, <2>1, <2>3, <3>1, <3>2 DEF Accounted, RemovedRow
  <2>4. CASE u \notin Desired(p) /\ ~(u \in Removed(p) /\ job[p].seen[u] # NoRow)
    <3>1. rows'[u] = rows[u]
      BY <2>4 DEF Commit
    <3> QED
      BY <1>1, <2>1, <3>1 DEF Accounted
  <2> QED
    BY <2>2, <2>3, <2>4
<1>4. ASSUME NEW q \in Appliers
      PROVE  /\ job'[q].seen = job[q].seen
             /\ job'[q].current = job[q].current
             /\ job'[q].loaded = job[q].loaded
             /\ pc'[q] = "commit" => pc[q] = "commit"
  BY DEF Commit, TypeOK, JobType
<1>5. ASSUME NEW q \in Appliers, NEW u \in Uids PROVE Accounted(u, job[q].seen[u])'
  BY <1>1, <1>4 DEF AuditInv, Accounted
<1> QED
  BY <1>2, <1>3, <1>4, <1>5 DEF AuditInv, Commit

\* The batches a call may start with.
Sent(b) ==
    \/ b \in Requests
    \/ \E x \in ToolSaves :
          b = [desired |-> [cache EXCEPT ![x[1]] = x[2]], removed |-> {}]
    \/ \E u \in Uids : b = [desired |-> cache, removed |-> {u}]

\* What a step other than a commit does to the locals of one call.
CallStep(q) ==
    \/ job'[q] = job[q] /\ pc'[q] = pc[q]
    \/ job'[q] = IdleJob /\ pc'[q] = "idle"
    \/ /\ \E b \in Batch : Sent(b) /\ job'[q] = NewJob(applies + 1, b, cache)
       /\ pc'[q] = "begin"
       /\ \E b \in Batch : Start(q, b)
    \/ /\ job'[q] = [job[q] EXCEPT !.seen = rows, !.locks = Locks(q)]
       /\ pc[q] = "begin" /\ pc'[q] = "commit"
    \/ /\ job'[q] = [job[q] EXCEPT !.loaded = LiveSchemas]
       /\ pc[q] = "load" /\ pc'[q] = "swap"

LEMMA CallSteps ==
    ASSUME TypeOK, [Next]_vars, ~\E p \in Appliers : Commit(p), NEW q \in Appliers
    PROVE  CallStep(q)
<1>1. ASSUME NEW p \in Appliers, NEW b \in Batch, Start(p, b), Sent(b) PROVE CallStep(q)
  BY <1>1 DEF TypeOK, Start, CallStep
<1>2. ASSUME NEW p \in Appliers, Submit(p) PROVE CallStep(q)
  BY <1>1, <1>2, ConstantsAssumption DEF Submit, Sent
<1>3. ASSUME NEW p \in Appliers, AiSave(p) PROVE CallStep(q)
  <2>1. PICK x \in ToolSaves :
          Start(p, [desired |-> [cache EXCEPT ![x[1]] = x[2]], removed |-> {}])
    BY <1>3 DEF AiSave
  <2> QED
    BY <2>1, <1>1, ToolBatches DEF Sent
<1>4. ASSUME NEW p \in Appliers, AiDelete(p) PROVE CallStep(q)
  <2>1. PICK u \in Uids : Start(p, [desired |-> cache, removed |-> {u}])
    BY <1>4 DEF AiDelete
  <2> QED
    BY <2>1, <1>1, ToolBatches DEF Sent
<1>5. ASSUME NEW p \in Appliers, Begin(p) PROVE CallStep(q)
  BY <1>5 DEF TypeOK, Begin, CallStep
<1>6. ASSUME NEW p \in Appliers, LoadRows(p) PROVE CallStep(q)
  BY <1>6 DEF TypeOK, LoadRows, CallStep
<1>7. ASSUME NEW p \in Appliers, SwapCache(p) \/ Refused(p) \/ Fail(p) PROVE CallStep(q)
  BY <1>7 DEF TypeOK, SwapCache, Refused, Fail, Return, CallStep
<1>8. CASE Crash \/ Boot \/ UNCHANGED vars
  BY <1>8 DEF Crash, Boot, vars, CallStep
<1> QED
  BY <1>2, <1>3, <1>4, <1>5, <1>6, <1>7, <1>8 DEF Next, Step

(* The other steps only copy explained rows and served schemas.            *)
LEMMA OthersAudited ==
    ASSUME TypeOK, AuditInv, [Next]_vars, ~\E p \in Appliers : Commit(p)
    PROVE  AuditInv'
<1>1. UNCHANGED <<rows, log, tables>>
  BY OnlyCommitWrites
<1>2. ASSUME NEW u \in Uids, LiveSchemas[u] # NoSchema PROVE rows[u] # NoRow
  BY <1>2 DEF LiveSchemas, Live
<1>3. ASSUME NEW u \in Uids, cache'[u] # NoSchema PROVE rows[u] # NoRow
  BY <1>2, <1>3 DEF AuditInv, Next, Step, Submit, AiSave, AiDelete, Start, Begin, LoadRows,
                    SwapCache, Return, Refused, Fail, Crash, Boot, vars, EmptyRegistry
<1>4. ASSUME NEW q \in Appliers PROVE CallStep(q)
  BY CallSteps
<1>5. ASSUME NEW q \in Appliers, NEW u \in Uids
      PROVE  /\ Accounted(u, job[q].seen[u])'
             /\ job'[q].current[u] # NoSchema =>
                   rows[u] # NoRow /\ (pc'[q] = "commit" => job'[q].seen[u] # NoRow)
             /\ job'[q].loaded[u] # NoSchema => rows[u] # NoRow
  <2>1. job[q] \in JobType /\ Accounted(u, rows[u])
    BY DEF TypeOK, AuditInv
  <2>2. CASE job'[q] = job[q] /\ pc'[q] = pc[q]
    BY <1>1, <2>2 DEF AuditInv, Accounted
  <2>3. CASE job'[q] = IdleJob /\ pc'[q] = "idle"
    BY <2>3 DEF Accounted, IdleJob, NewJob, EmptyRegistry
  <2>4. CASE \E b \in Batch : Sent(b) /\ job'[q] = NewJob(applies + 1, b, cache) /\ pc'[q] = "begin"
    BY <2>4 DEF AuditInv, Accounted, NewJob, EmptyRegistry
  <2>5. CASE /\ job'[q] = [job[q] EXCEPT !.seen = rows, !.locks = Locks(q)]
             /\ pc[q] = "begin" /\ pc'[q] = "commit"
    <3>1. /\ job'[q].seen = rows
          /\ job'[q].current = job[q].current
          /\ job'[q].loaded = job[q].loaded
      BY <2>1, <2>5 DEF JobType
    <3> QED
      BY <1>1, <2>1, <3>1 DEF AuditInv, Accounted
  <2>6. CASE /\ job'[q] = [job[q] EXCEPT !.loaded = LiveSchemas]
             /\ pc[q] = "load" /\ pc'[q] = "swap"
    <3>1. /\ job'[q].seen = job[q].seen
          /\ job'[q].current = job[q].current
          /\ job'[q].loaded = LiveSchemas
      BY <2>1, <2>6 DEF JobType
    <3> QED
      BY <1>1, <1>2, <2>6, <3>1 DEF AuditInv, Accounted
  <2> QED
    BY <1>4, <2>2, <2>3, <2>4, <2>5, <2>6 DEF CallStep
<1> QED
  BY <1>1, <1>3, <1>5 DEF AuditInv, Accounted

(* The change log accounts for the registry in every behaviour.            *)
THEOREM Audited == Spec => []AuditTrail
<1>1. TypeOK /\ AuditInv /\ [Next]_vars => AuditInv'
  BY CommitAudited, OthersAudited
<1>2. AuditInv => AuditTrail
  BY DEF AuditInv, AuditTrail
<1> QED
  BY AuditInvInit, TypeCorrect, <1>1, <1>2, PTL DEF Spec

-----------------------------------------------------------------------------
(* Tickets: the entries of different calls are different.                  *)

LEMMA TicketInvInit == Init => TicketInv
BY DEF Init, TicketInv, IdleJob, NewJob

LEMMA TicketStep ==
    ASSUME TypeOK, TicketInv, [Next]_vars
    PROVE  TicketInv'
<1>1. ASSUME NEW p \in Appliers, NEW b \in Batch, Start(p, b) PROVE TicketInv'
  <2>1. /\ job'[p].ticket = applies + 1
        /\ \A q \in Appliers \ {p} : job'[q] = job[q] /\ pc'[q] = pc[q]
    BY <1>1 DEF Start, NewJob, TypeOK
  <2>2. \A q \in Appliers : job[q].ticket \in Nat
    BY DEF TypeOK, JobType
  <2>3. \A e \in log : e.id \in Nat
    BY DEF TypeOK, LogEntry
  <2>4. log' = log /\ applies' = applies + 1 /\ applies \in Nat
    BY <1>1 DEF Start, TypeOK
  <2> QED
    BY <2>1, <2>2, <2>3, <2>4 DEF TicketInv
<1>2. ASSUME NEW p \in Appliers, Commit(p) PROVE TicketInv'
  <2>1. \A q \in Appliers : job'[q].ticket = job[q].ticket
    BY <1>2 DEF Commit, TypeOK, JobType
  <2>2. /\ \A q \in Appliers \ {p} : pc'[q] = pc[q]
        /\ pc[p] = "commit" /\ pc'[p] = "load" /\ applies' = applies
    BY <1>2 DEF Commit, TypeOK
  <2>3. \A e \in log' : e \in log \/ e.id = job[p].ticket
    BY <1>2 DEF Commit, NewEntries, Entry
  <2> QED
    BY <2>1, <2>2, <2>3 DEF TicketInv
<1>3. CASE /\ ~\E p \in Appliers : Commit(p)
           /\ ~\E p \in Appliers, b \in Batch : Start(p, b)
  <2>1. log' = log
    BY <1>3, OnlyCommitWrites
  <2>2. applies' = applies
    BY <1>3, ToolBatches, ConstantsAssumption
       DEF Next, Step, Submit, AiSave, AiDelete, Begin, Commit, LoadRows, SwapCache,
           Refused, Fail, Crash, Boot, vars
  <2>3. ASSUME NEW q \in Appliers
        PROVE  \/ job'[q].ticket = 0 /\ pc'[q] = "idle"
               \/ /\ job'[q].ticket = job[q].ticket
                  /\ pc'[q] # "idle" => pc[q] # "idle"
                  /\ pc'[q] \in {"begin", "commit"} => pc[q] \in {"begin", "commit"}
    <3>1. job[q] \in JobType
      BY DEF TypeOK
    <3>2. IdleJob.ticket = 0
      BY DEF IdleJob, NewJob
    <3>3. CallStep(q)
      BY <1>3, CallSteps
    <3> QED
      BY <1>3, <3>1, <3>2, <3>3 DEF CallStep, JobType
  <2>4. applies \in Nat
    BY DEF TypeOK
  <2> QED
    BY <2>1, <2>2, <2>3, <2>4 DEF TicketInv
<1> QED
  BY <1>1, <1>2, <1>3

-----------------------------------------------------------------------------
(* Served content types have their columns.                                *)

\* Retained tables keep a stored schema stored, a growing log keeps a schema
\* kept.
LEMMA KeptGrows ==
    ASSUME NEW f, NEW u \in Uids, NEW s \in Schema, Kept(f, u, s),
           log \subseteq log', \A t \in Tables : TableRetained(t)
    PROVE  Kept(f, u, s)'
<1>1. CreatedOnce(u)' => CreatedOnce(u)
  BY DEF CreatedOnce
<1>2. s.table \in Tables
  BY DEF Schema
<1>3. ASSUME Stored(s) PROVE Stored(s)'
  BY <1>2, <1>3 DEF Stored, TableRetained
<1> QED
  BY <1>1, <1>3 DEF Kept

LEMMA StepRetains ==
    ASSUME TypeOK, [Next]_vars
    PROVE  (\A t \in Tables : TableRetained(t)) /\ log \subseteq log'
<1>1. CASE \E p \in Appliers : Commit(p)
  BY <1>1, CommitRetains DEF Commit
<1>2. CASE ~\E p \in Appliers : Commit(p)
  BY <1>2, OnlyCommitWrites DEF TableRetained
<1> QED
  BY <1>1, <1>2

LEMMA StoredInvInit ==
    ASSUME NEW f \in [Uids -> Tables]
    PROVE  Init => StoredInv(f)
BY DEF Init, StoredInv, IdleJob, NewJob, EmptyRegistry

\* Each content type of a batch has its own table changed, and no other.
LEMMA OwnTable ==
    ASSUME NEW f \in [Uids -> Tables], NamesAre(f), StoredInv(f), TypeOK,
           NEW p \in Appliers, NEW u \in Uids
    PROVE  /\ u \in Desired(p) => TablesAfter(p)[f[u]] = ApplySchemaDiff(p, u)
           /\ u \notin Desired(p) => TablesAfter(p)[f[u]] = tables[f[u]]
<1>1. \A v \in Desired(p) : v \in Uids /\ job[p].batch.desired[v].table = f[v]
  BY DEF StoredInv, Desired
<1>2. \A v \in Desired(p) : job[p].batch.desired[v].table = f[u] <=> v = u
  BY <1>1 DEF NamesAre
<1>3. f[u] \in Tables
  OBVIOUS
<1> QED
  BY <1>2, <1>3 DEF TablesAfter

(* The heart of the argument: a commit leaves each schema of its batch     *)
(* with its table and columns.  An update finds the columns of what it was *)
(* diffed against; a creation makes the table, because a table that exists *)
(* was logged as created before.                                           *)
LEMMA CommitStores ==
    ASSUME NEW f \in [Uids -> Tables], NamesAre(f), StoredInv(f), TypeOK, TicketInv,
           NEW p \in Appliers, Commit(p), NEW u \in Uids, u \in Desired(p),
           NEW new \in Schema, new = job[p].batch.desired[u]
    PROVE  Kept(f, u, new)'
<1>0. PICK cur \in Schema \cup {NoSchema} : cur = job[p].current[u]
  BY DEF TypeOK, JobType, Registry
<1>1. new.table = f[u] /\ f[u] \in Tables
  BY DEF Desired, StoredInv
<1>2. tables'[f[u]] = ApplySchemaDiff(p, u)
  BY OwnTable DEF Commit
<1>4. SUFFICES ASSUME CreatedOnce(u)' PROVE Stored(new)'
  BY <1>1 DEF Kept
<1>5. CreatedOnce(u)
  BY <1>4 DEF CreatedOnce, Commit
<1>6. CASE Kind(p, u) = "Created"
  <2>1. Entry(p, u) \in log' /\ Entry(p, u).uid = u /\ Entry(p, u).kind = "Created"
    <3>1. u \notin Removed(p) /\ u \in Logged(p)
      BY <1>6 DEF Removed, Logged
    <3> QED
      BY <3>1, <1>6 DEF Commit, NewEntries, Entry
  <2>2. ASSUME NEW e \in log, e.uid = u, e.kind = "Created" PROVE FALSE
    <3>1. e.id # job[p].ticket
      BY <2>2 DEF TicketInv, Commit
    <3>2. e = Entry(p, u)
      BY <1>4, <2>1, <2>2 DEF CreatedOnce, Commit
    <3> QED
      BY <3>1, <3>2 DEF Entry
  <2>3. tables[f[u]] = NoTable
    BY <2>2 DEF StoredInv
  <2>4. tables'[f[u]] = [cols |-> new.attrs, detached |-> {}]
    BY <1>1, <1>2, <1>6, <2>3 DEF ApplySchemaDiff, CreateHostTable
  <2>5. [cols |-> new.attrs, detached |-> {}] \in Table
    BY <1>1 DEF Table, Schema
  <2> QED
    BY <1>1, <2>4, <2>5, NoTableAssumption DEF Stored, Has
<1>7. CASE Kind(p, u) # "Created"
  <2>1. cur # NoSchema
    BY <1>0, <1>7 DEF Kind, DiffKind
  <2>2. Stored(cur) /\ cur.table = f[u] /\ cur \in Schema
    BY <1>0, <1>5, <2>1 DEF StoredInv, Kept
  <2>3. tables[f[u]] \in Table /\ tables[f[u]] # NoTable
    BY <1>1, <2>2 DEF Stored, TypeOK
  <2>4. CASE Kind(p, u) = "Updated"
    <3>1. tables'[f[u]] = ApplyUpdate(f[u], cur, new)
      BY <1>0, <1>1, <1>2, <2>3, <2>4 DEF ApplySchemaDiff
    <3>2. tables'[f[u]] # NoTable
      BY <1>1, <2>3, <3>1, UpdateType, NoTableAssumption
    <3>3. ASSUME NEW a \in Attrs, Has(new, a) PROVE tables'[f[u]].cols[a] # NoFamily
      <4>1. a \in Added(cur, new) \/ Has(cur, a)
        BY <3>3 DEF Added
      <4>2. Has(cur, a) => tables[f[u]].cols[a] # NoFamily
        BY <2>2 DEF Stored
      <4>3. tables'[f[u]].cols[a] \in {new.attrs[a], tables[f[u]].cols[a]}
        BY <3>1 DEF ApplyUpdate
      <4>4. a \in Added(cur, new) /\ tables[f[u]].cols[a] = NoFamily
              => tables'[f[u]].cols[a] = new.attrs[a]
        BY <3>1 DEF ApplyUpdate
      <4> QED
        BY <3>3, <4>1, <4>2, <4>3, <4>4 DEF Has
    <3> QED
      BY <1>1, <3>2, <3>3 DEF Stored
  <2>5. CASE Kind(p, u) = "Unchanged"
    <3>1. tables'[f[u]] = tables[f[u]]
      BY <1>1, <1>2, <2>5 DEF ApplySchemaDiff
    <3>2. \A a \in Attrs : Has(new, a) => Has(cur, a)
      BY <1>0, <2>1, <2>5 DEF Kind, DiffKind, Added
    <3> QED
      BY <1>1, <2>2, <2>3, <3>1, <3>2 DEF Stored
  <2> QED
    BY <1>0, <1>7, <2>4, <2>5 DEF Kind, DiffKind
<1> QED
  BY <1>6, <1>7

LEMMA CommitKeeps ==
    ASSUME NEW f \in [Uids -> Tables], NamesAre(f), StoredInv(f), TypeOK, TicketInv,
           NEW p \in Appliers, Commit(p)
    PROVE  StoredInv(f)'
<1>1. log \subseteq log' /\ \A t \in Tables : TableRetained(t)
  BY CommitRetains DEF Commit
<1>2. ASSUME NEW q \in Appliers
      PROVE  /\ job'[q].batch = job[q].batch
             /\ job'[q].current = job[q].current
             /\ job'[q].loaded = job[q].loaded
             /\ job'[q].seen = job[q].seen
  BY DEF Commit, TypeOK, JobType
<1>3. ASSUME NEW u \in Uids, tables'[f[u]] # NoTable
      PROVE  \E e \in log' : e.uid = u /\ e.kind = "Created"
  <2>1. CASE tables[f[u]] # NoTable
    BY <1>1, <2>1 DEF StoredInv
  <2>2. CASE tables[f[u]] = NoTable
    <3>1. u \in Desired(p) /\ tables'[f[u]] = ApplySchemaDiff(p, u)
      BY <1>3, <2>2, OwnTable DEF Commit
    <3>2. job[p].batch.desired[u].table = f[u]
      BY <3>1 DEF StoredInv, Desired
    <3>3. Kind(p, u) = "Created"
      BY <1>3, <2>2, <3>1, <3>2 DEF ApplySchemaDiff
    <3>4. u \notin Removed(p) /\ u \in Logged(p)
      BY <3>1, <3>3 DEF Removed, Logged
    <3> QED
      <4>1. Entry(p, u) \in log' /\ Entry(p, u).uid = u /\ Entry(p, u).kind = "Created"
        BY <3>3, <3>4 DEF Commit, NewEntries, Entry
      <4> QED
        BY <4>1
  <2> QED
    BY <2>1, <2>2
<1>4. ASSUME NEW u \in Uids, rows'[u] # NoRow PROVE Kept(f, u, rows[u].schema)'
  <2>1. CASE u \in Desired(p)
    <3>1. PICK s \in Schema : s = job[p].batch.desired[u]
      BY <2>1 DEF TypeOK, JobType, Batch, Registry, Desired
    <3>2. rows'[u].schema = s
      BY <2>1, <3>1 DEF Commit, Removed, UpsertedRow
    <3>3. Kept(f, u, s)'
      BY <2>1, <3>1, CommitStores
    <3> QED
      BY <3>2, <3>3 DEF Kept, Stored
  <2>2. CASE u \in Removed(p) /\ job[p].seen[u] # NoRow
    <3>1. PICK s \in Schema : s = job[p].seen[u].schema
      BY <2>2 DEF TypeOK, JobType, Row
    <3>2. rows'[u].schema = s
      BY <2>2, <3>1 DEF Commit, Removed, RemovedRow
    <3>3. Kept(f, u, s)
      BY <2>2, <3>1 DEF StoredInv
    <3>4. Kept(f, u, s)'
      BY <1>1, <3>3, KeptGrows
    <3> QED
      BY <3>2, <3>4 DEF Kept, Stored
  <2>3. CASE u \notin Desired(p) /\ ~(u \in Removed(p) /\ job[p].seen[u] # NoRow)
    <3>1. rows'[u] = rows[u]
      BY <2>3 DEF Commit
    <3> QED
      BY <1>1, <1>4, <3>1, KeptGrows DEF StoredInv, TypeOK, Row
  <2> QED
    BY <2>1, <2>2, <2>3
<1>5. cache' = cache
  BY DEF Commit
<1>6. ASSUME NEW u \in Uids, NEW s \in Schema, Kept(f, u, s) PROVE Kept(f, u, s)'
  BY <1>1, <1>6, KeptGrows
<1> QED
  BY <1>2, <1>3, <1>4, <1>5, <1>6 DEF StoredInv, TypeOK, JobType, Registry, Row

\* The names a call starts with are the names of the clients or of the cache.
LEMMA SentNames ==
    ASSUME NEW f \in [Uids -> Tables], NamesAre(f), StoredInv(f), TypeOK,
           NEW b \in Batch, Sent(b), NEW u \in Uids, b.desired[u] # NoSchema
    PROVE  b.desired[u].table = f[u]
<1>1. cache[u] # NoSchema => cache[u].table = f[u]
  BY DEF StoredInv, Kept
<1>2. CASE b \in Requests
  BY <1>2 DEF NamesAre
<1>3. CASE \E x \in ToolSaves : b = [desired |-> [cache EXCEPT ![x[1]] = x[2]], removed |-> {}]
  BY <1>1, <1>3, ConstantsAssumption DEF NamesAre, TypeOK, Registry
<1>4. CASE \E v \in Uids : b = [desired |-> cache, removed |-> {v}]
  BY <1>1, <1>4
<1> QED
  BY <1>2, <1>3, <1>4 DEF Sent

LEMMA OthersKeep ==
    ASSUME NEW f \in [Uids -> Tables], NamesAre(f), StoredInv(f), TypeOK, [Next]_vars,
           ~\E p \in Appliers : Commit(p)
    PROVE  StoredInv(f)'
<1>1. UNCHANGED <<rows, log, tables>>
  BY OnlyCommitWrites
<1>3. ASSUME NEW u \in Uids, LiveSchemas[u] # NoSchema PROVE Kept(f, u, LiveSchemas[u])
  BY <1>3 DEF StoredInv, LiveSchemas, Live
<1>4. ASSUME NEW u \in Uids, cache'[u] # NoSchema PROVE Kept(f, u, cache'[u])
  <2>1. \/ cache' = cache
        \/ cache' = EmptyRegistry
        \/ cache' = LiveSchemas
        \/ \E p \in Appliers : cache' = job[p].loaded
    BY <1>1 DEF Next, Step, Submit, AiSave, AiDelete, Start, Begin, Commit, LoadRows,
                SwapCache, Refused, Fail, Crash, Boot, vars
  <2> QED
    BY <1>3, <1>4, <2>1 DEF StoredInv, EmptyRegistry
<1>5. ASSUME NEW q \in Appliers, NEW u \in Uids
      PROVE  /\ job'[q].batch.desired[u] # NoSchema => job'[q].batch.desired[u].table = f[u]
             /\ job'[q].current[u] # NoSchema => Kept(f, u, job'[q].current[u])
             /\ job'[q].loaded[u] # NoSchema => Kept(f, u, job'[q].loaded[u])
             /\ job'[q].seen[u] # NoRow => Kept(f, u, job'[q].seen[u].schema)
  <2>1. job[q] \in JobType
    BY DEF TypeOK
  <2>2. CASE job'[q] = job[q] /\ pc'[q] = pc[q]
    BY <2>2 DEF StoredInv
  <2>3. CASE job'[q] = IdleJob /\ pc'[q] = "idle"
    BY <2>3 DEF IdleJob, NewJob, EmptyRegistry
  <2>4. CASE \E b \in Batch : Sent(b) /\ job'[q] = NewJob(applies + 1, b, cache) /\ pc'[q] = "begin"
    BY <2>4, SentNames DEF StoredInv, NewJob, EmptyRegistry
  <2>5. CASE /\ job'[q] = [job[q] EXCEPT !.seen = rows, !.locks = Locks(q)]
             /\ pc[q] = "begin" /\ pc'[q] = "commit"
    <3>1. /\ job'[q].seen = rows
          /\ job'[q].batch = job[q].batch
          /\ job'[q].current = job[q].current
          /\ job'[q].loaded = job[q].loaded
      BY <2>1, <2>5 DEF JobType
    <3> QED
      BY <3>1 DEF StoredInv
  <2>6. CASE /\ job'[q] = [job[q] EXCEPT !.loaded = LiveSchemas]
             /\ pc[q] = "load" /\ pc'[q] = "swap"
    <3>1. /\ job'[q].seen = job[q].seen
          /\ job'[q].batch = job[q].batch
          /\ job'[q].current = job[q].current
          /\ job'[q].loaded = LiveSchemas
      BY <2>1, <2>6 DEF JobType
    <3> QED
      BY <1>3, <3>1 DEF StoredInv
  <2>7. CallStep(q)
    BY CallSteps
  <2> QED
    BY <2>2, <2>3, <2>4, <2>5, <2>6, <2>7 DEF CallStep
<1>6. ASSUME NEW u \in Uids
      PROVE  /\ rows'[u] # NoRow => Kept(f, u, rows[u].schema)'
             /\ cache'[u] # NoSchema => Kept(f, u, cache[u])'
  BY <1>1, <1>4 DEF StoredInv, Kept, CreatedOnce, Stored
<1>7. ASSUME NEW q \in Appliers, NEW u \in Uids
      PROVE  /\ job'[q].current[u] # NoSchema => Kept(f, u, job[q].current[u])'
             /\ job'[q].loaded[u] # NoSchema => Kept(f, u, job[q].loaded[u])'
             /\ job'[q].seen[u] # NoRow => Kept(f, u, job[q].seen[u].schema)'
  <2>1. CreatedOnce(u)' => CreatedOnce(u)
    BY <1>1 DEF CreatedOnce
  <2>2. tables' = tables
    BY <1>1
  <2>3. job'[q].current[u] # NoSchema => Kept(f, u, job[q].current[u])'
    <3>1. job'[q].current[u] # NoSchema => Kept(f, u, job'[q].current[u])
      BY <1>5
    <3> QED
      BY <2>1, <2>2, <3>1 DEF Kept, Stored
  <2>4. job'[q].loaded[u] # NoSchema => Kept(f, u, job[q].loaded[u])'
    <3>1. job'[q].loaded[u] # NoSchema => Kept(f, u, job'[q].loaded[u])
      BY <1>5
    <3> QED
      BY <2>1, <2>2, <3>1 DEF Kept, Stored
  <2>5. job'[q].seen[u] # NoRow => Kept(f, u, job[q].seen[u].schema)'
    <3>1. job'[q].seen[u] # NoRow => Kept(f, u, job'[q].seen[u].schema)
      BY <1>5
    <3> QED
      BY <2>1, <2>2, <3>1 DEF Kept, Stored
  <2> QED
    BY <2>3, <2>4, <2>5
<1>8. \A u \in Uids : tables'[f[u]] # NoTable => \E e \in log' : e.uid = u /\ e.kind = "Created"
  BY <1>1 DEF StoredInv
<1> QED
  BY <1>5, <1>6, <1>7, <1>8 DEF StoredInv

(* However many stale diffs commit in whatever order, a content type that  *)
(* was diffed as new only once has every column its schema speaks of.      *)
THEOREM ServedStored == Spec => []ServedIsStored
<1>1. CASE StableNames
  <2>1. PICK f \in [Uids -> Tables] : NamesAre(f)
    BY <1>1 DEF StableNames
  <2>2. Init => StoredInv(f)
    BY StoredInvInit
  <2>3. TypeOK /\ TicketInv /\ StoredInv(f) /\ [Next]_vars => StoredInv(f)'
    BY <2>1, CommitKeeps, OthersKeep
  <2>4. StoredInv(f) => ServedIsStored
    BY DEF StoredInv, Kept, ServedIsStored
  <2>5. TypeOK /\ TicketInv /\ [Next]_vars => TicketInv'
    BY TicketStep
  <2> QED
    BY <2>2, <2>3, <2>4, <2>5, TypeCorrect, TicketInvInit, PTL DEF Spec
<1>2. CASE ~StableNames
  <2>1. ServedIsStored
    BY <1>2 DEF ServedIsStored
  <2> QED
    BY <2>1, PTL
<1> QED
  BY <1>1, <1>2

-----------------------------------------------------------------------------
(* Calls that do not overlap.                                              *)

OneCall == \A p, q \in Appliers : p = q

LEMMA SerialStep ==
    ASSUME OneCall, ~DropAfterCommit, TypeOK, SerialInv, [Next]_vars
    PROVE  SerialInv'
<1>0. /\ pc \in [Appliers -> {"idle", "begin", "commit", "load", "swap"}]
      /\ job \in [Appliers -> JobType]
  BY DEF TypeOK
<1>1. ASSUME NEW p \in Appliers, Commit(p) PROVE SerialInv'
  <2>1. Appliers = {p} /\ pc'[p] = "load"
    BY <1>0, <1>1 DEF OneCall, Commit
  <2> QED
    BY <2>1 DEF SerialInv
<1>2. ASSUME UNCHANGED rows, UNCHANGED LiveSchemas, NEW p \in Appliers, Step(p), ~Commit(p)
      PROVE  SerialInv'
  <2>1. Appliers = {p}
    BY DEF OneCall
  <2>2. \A b : SentNow(b)' <=> SentNow(b)
    BY <1>2 DEF SentNow
  <2>3. ASSUME NEW b, Start(p, b), cache = LiveSchemas => SentNow(b) PROVE SerialInv'
    <3>1. /\ pc'[p] = "begin" /\ cache' = cache /\ up' = up
          /\ job'[p].current = cache /\ job'[p].batch = b
          /\ cache = LiveSchemas
      BY <1>0, <2>1, <2>3 DEF Start, NewJob, SerialInv
    <3> QED
      BY <1>2, <2>1, <2>2, <2>3, <3>1 DEF SerialInv
  <2>4. CASE Submit(p)
    BY <2>3, <2>4 DEF Submit, SentNow
  <2>5. CASE AiSave(p)
    BY <2>3, <2>5 DEF AiSave, SentNow
  <2>6. CASE AiDelete(p)
    <3>1. PICK u \in Uids : cache[u] # NoSchema /\ Start(p, [desired |-> cache, removed |-> {u}])
      BY <2>6 DEF AiDelete
    <3> QED
      BY <2>3, <3>1 DEF SentNow
  <2>7. CASE Begin(p)
    <3>1. /\ pc[p] = "begin" /\ pc'[p] = "commit" /\ UNCHANGED <<cache, up>>
          /\ job'[p] = [job[p] EXCEPT !.seen = rows, !.locks = Locks(p)]
      BY <1>0, <2>7 DEF Begin
    <3>2. /\ job'[p].seen = rows /\ job'[p].current = job[p].current
          /\ job'[p].batch = job[p].batch
      BY <1>0, <3>1 DEF JobType
    <3> QED
      BY <1>2, <2>1, <2>2, <3>1, <3>2 DEF SerialInv
  <2>8. CASE LoadRows(p)
    <3>1. pc'[p] = "swap" /\ job'[p] = [job[p] EXCEPT !.loaded = LiveSchemas]
      BY <1>0, <2>8 DEF LoadRows
    <3>2. job'[p].loaded = LiveSchemas
      BY <1>0, <3>1 DEF JobType
    <3> QED
      BY <1>2, <2>1, <3>1, <3>2 DEF SerialInv
  <2>9. CASE SwapCache(p)
    <3>1. pc'[p] = "idle" /\ cache' = LiveSchemas
      BY <1>0, <2>9 DEF SwapCache, Return, SerialInv
    <3> QED
      BY <1>2, <2>1, <3>1 DEF SerialInv
  <2>10. CASE Refused(p) \/ Fail(p)
    <3>1. pc[p] \in {"begin", "commit"} /\ pc'[p] = "idle" /\ UNCHANGED <<cache, up>>
      BY <1>0, <2>10 DEF Refused, Fail, Return
    <3> QED
      BY <1>2, <2>1, <3>1 DEF SerialInv
  <2> QED
    BY <1>2, <2>4, <2>5, <2>6, <2>7, <2>8, <2>9, <2>10 DEF Step
<1>3. ASSUME ~\E p \in Appliers : Commit(p) PROVE UNCHANGED rows /\ UNCHANGED LiveSchemas
  BY <1>3, OnlyCommitWrites DEF LiveSchemas, Live
<1>4. CASE Crash
  BY <1>4 DEF Crash, SerialInv
<1>5. ASSUME UNCHANGED rows, UNCHANGED LiveSchemas, UNCHANGED <<pc, job>>,
             (UNCHANGED <<cache, up>>) \/ cache' = LiveSchemas
      PROVE  SerialInv'
  <2>1. \A b : SentNow(b)' <=> SentNow(b)
    BY <1>5 DEF SentNow
  <2> QED
    BY <1>5, <2>1 DEF SerialInv
<1>6. CASE Boot \/ UNCHANGED vars
  <2>1. UNCHANGED rows /\ UNCHANGED LiveSchemas
    BY <1>6 DEF Boot, vars, LiveSchemas, Live
  <2> QED
    BY <1>5, <1>6, <2>1 DEF Boot, vars
<1> QED
  BY <1>1, <1>2, <1>3, <1>4, <1>6 DEF Next

LEMMA SerialAlways ==
    ASSUME OneCall, ~DropAfterCommit
    PROVE  Spec => [](TypeOK /\ SerialInv)
<1>1. Init => SerialInv
  BY DEF Init, SerialInv, EmptyRegistry, LiveSchemas, Live
<1>2. TypeOK /\ SerialInv /\ [Next]_vars => SerialInv'
  BY SerialStep
<1> QED
  BY <1>1, <1>2, TypeCorrect, PTL DEF Spec

(* What a commit makes of the content types in use, when nothing has       *)
(* changed since the call took its snapshots.                              *)
LEMMA CommitInUse ==
    ASSUME TypeOK, SerialInv, NEW p \in Appliers, Commit(p), NEW u \in Uids
    PROVE  /\ u \in Desired(p) =>
                 /\ Live(u) => Live(u)'
                 /\ LiveSchemas'[u] = IF Live(u)' THEN job[p].batch.desired[u] ELSE NoSchema
           /\ u \notin Desired(p) =>
                 LiveSchemas'[u] = IF u \in job[p].batch.removed THEN NoSchema ELSE LiveSchemas[u]
           /\ u \notin Desired(p) /\ Live(u)' => Live(u)
<1>1. job[p].seen = rows /\ job[p].current = LiveSchemas
  BY DEF Commit, SerialInv
<1>2. /\ rows[u] # NoRow => rows[u].version \in Int /\ rows[u].schema \in Schema
      /\ NoSchema \notin Schema
  BY ConstantsAssumption DEF TypeOK, Row
<1>3. LiveSchemas'[u] = IF Live(u)' THEN rows'[u].schema ELSE NoSchema
  BY DEF LiveSchemas
<1>4. LiveSchemas[u] = IF Live(u) THEN rows[u].schema ELSE NoSchema
  BY DEF LiveSchemas
<1>5. CASE u \in Desired(p)
  <2>1. rows'[u] = UpsertedRow(p, u)
    BY <1>5 DEF Commit, Removed
  <2>2. /\ rows'[u].version = PreviousVersion(p, u) + 1
        /\ rows'[u].schema = job[p].batch.desired[u]
        /\ rows'[u] # NoRow
    <3>1. rows'[u] # NoRow
      BY <1>5, <2>1, UpsertedRowType, NoRowAssumption
    <3>2. /\ UpsertedRow(p, u).version = PreviousVersion(p, u) + 1
          /\ UpsertedRow(p, u).schema = job[p].batch.desired[u]
      BY DEF UpsertedRow
    <3> QED
      BY <2>1, <3>1, <3>2
  <2>3. Live(u) => rows'[u].version > 0
    BY <1>1, <1>2, <2>2 DEF Live, PreviousVersion
  <2> QED
    BY <1>3, <1>5, <2>2, <2>3 DEF Live
<1>6. CASE u \in Removed(p)
  <2>1. Live(u) /\ u \notin Desired(p) /\ u \in job[p].batch.removed
    BY <1>1, <1>4, <1>6 DEF Removed
  <2>2. rows'[u] = RemovedRow(p, u)
    BY <1>1, <1>6, <2>1 DEF Commit, Live
  <2>3. rows'[u].version = -rows[u].version /\ rows[u].version > 0
    BY <1>1, <2>1, <2>2 DEF RemovedRow, PreviousVersion, Live
  <2>4. ~Live(u)'
    BY <1>2, <2>1, <2>3 DEF Live
  <2> QED
    BY <1>3, <2>1, <2>4
<1>7. CASE u \notin Desired(p) /\ u \notin Removed(p)
  <2>1. rows'[u] = rows[u]
    BY <1>7 DEF Commit
  <2>2. LiveSchemas'[u] = LiveSchemas[u] /\ (Live(u)' <=> Live(u))
    BY <1>3, <1>4, <2>1 DEF Live
  <2>3. u \in job[p].batch.removed => LiveSchemas[u] = NoSchema
    BY <1>1, <1>7 DEF Removed
  <2> QED
    BY <1>7, <2>2, <2>3
<1> QED
  BY <1>5, <1>6, <1>7

(* When calls do not overlap and none is dropped between its commit and    *)
(* its rebuild, whatever else fails or crashes: a save that answers Ok is  *)
(* what is served, and only a save puts a content type into use again.     *)
THEOREM SavesAreDecisive ==
    ASSUME OneCall, ~DropAfterCommit
    PROVE  Spec => SavesDecide
<1> DEFINE Current == \A p \in Appliers :
                          pc[p] = "swap" /\ reply'[p] = "ok" => cache' = LiveSchemas'
           Revived == \A u \in Uids : ~Live(u) /\ Live(u)' =>
                          \E p \in Appliers : pc[p] = "commit" /\ u \in Desired(p)
<1>1. TypeOK /\ SerialInv /\ [Next]_vars => [Current]_vars
  <2> SUFFICES ASSUME TypeOK, SerialInv, Next, NEW p \in Appliers, pc[p] = "swap", reply'[p] = "ok",
                      vars' # vars
               PROVE  cache' = LiveSchemas'
    OBVIOUS
  <2>0. /\ \A q \in Appliers : q = p
        /\ reply \in [Appliers -> {"none", "ok", "error"}]
    BY DEF OneCall, TypeOK
  <2>1. SwapCache(p) \/ (Boot /\ ~up)
    BY <2>0 DEF Next, Step, Submit, AiSave, AiDelete, Start, Begin, Commit, LoadRows, Refused, Fail,
                Return, Crash, Boot
  <2>2. CASE SwapCache(p)
    <3>1. cache' = LiveSchemas /\ rows' = rows
      BY <2>2 DEF SwapCache, SerialInv
    <3> QED
      BY <3>1 DEF LiveSchemas, Live
  <2>3. CASE Boot
    BY <2>3 DEF Boot, LiveSchemas, Live
  <2> QED
    BY <2>1, <2>2, <2>3
<1>2. TypeOK /\ SerialInv /\ [Next]_vars => [Revived]_vars
  <2> SUFFICES ASSUME TypeOK, SerialInv, [Next]_vars, NEW u \in Uids, ~Live(u), Live(u)'
               PROVE  \E p \in Appliers : pc[p] = "commit" /\ u \in Desired(p)
    OBVIOUS
  <2>1. PICK p \in Appliers : Commit(p)
    BY OnlyCommitWrites DEF Live
  <2> QED
    BY <2>1, CommitInUse DEF Commit
<1> QED
  BY <1>1, <1>2, SerialAlways, PTL DEF Spec, SavesDecide, OkMeansCacheCurrent, OnlySavesRevive

-----------------------------------------------------------------------------
(* Refinement: the content types in use change as the catalog says.        *)

LEMMA CommitSaves ==
    ASSUME TypeOK, SerialInv, NEW p \in Appliers, Commit(p)
    PROVE  AbstractCatalog!Save(job[p].batch.desired, job[p].batch.removed)
<1> DEFINE desired == job[p].batch.desired
           removed == job[p].batch.removed
           out == {u \in Uids : u \in Desired(p) /\ ~Live(u)'}
<1>1. ASSUME NEW u \in out PROVE LiveSchemas[u] = NoSchema
  BY CommitInUse DEF LiveSchemas
<1>2. ASSUME NEW u \in Uids
      PROVE  LiveSchemas'[u] =
                IF desired[u] # NoSchema
                THEN IF u \in out THEN NoSchema ELSE desired[u]
                ELSE IF u \in removed THEN NoSchema ELSE LiveSchemas[u]
  BY CommitInUse DEF Desired
<1>3. out \in SUBSET {u \in Uids : LiveSchemas[u] = NoSchema}
  BY <1>1
<1> HIDE DEF out, desired, removed
<1>4. LiveSchemas' = [u \in Uids |->
                IF desired[u] # NoSchema
                THEN IF u \in out THEN NoSchema ELSE desired[u]
                ELSE IF u \in removed THEN NoSchema ELSE LiveSchemas[u]]
  BY <1>2 DEF LiveSchemas
<1>5. AbstractCatalog!Save(desired, removed)
  BY <1>3, <1>4 DEF AbstractCatalog!Save
<1> QED
  BY <1>5 DEF desired, removed

LEMMA CatalogStep ==
    ASSUME TypeOK, SerialInv, [Next]_vars
    PROVE  [AbstractCatalog!Next]_LiveSchemas
<1>1. CASE ~\E p \in Appliers : Commit(p)
  BY <1>1, OnlyCommitWrites DEF LiveSchemas, Live
<1>2. ASSUME NEW p \in Appliers, Commit(p) PROVE [AbstractCatalog!Next]_LiveSchemas
  <2> DEFINE b == job[p].batch
  <2>1. SentNow(b) /\ AbstractCatalog!Save(b.desired, b.removed)
    BY <1>2, CommitSaves DEF SerialInv, Commit
  <2>2. CASE b \in Requests
    BY <2>1, <2>2 DEF AbstractCatalog!Next
  <2>3. CASE \E x \in ToolSaves :
                b = [desired |-> [LiveSchemas EXCEPT ![x[1]] = x[2]], removed |-> {}]
    <3> HIDE DEF b
    <3>0. PICK x \in ToolSaves :
             b = [desired |-> [LiveSchemas EXCEPT ![x[1]] = x[2]], removed |-> {}]
      BY <2>3
    <3> DEFINE after == [LiveSchemas EXCEPT ![x[1]] = x[2]]
    <3>1. b.desired = after /\ b.removed = {}
      <4>1. b = [desired |-> after, removed |-> {}]
        BY <3>0
      <4> HIDE DEF after
      <4> QED
        BY <4>1
    <3>2. AbstractCatalog!Save([LiveSchemas EXCEPT ![x[1]] = x[2]], {})
      BY <2>1, <3>1
    <3> QED
      BY <3>2 DEF AbstractCatalog!Next
  <2>4. CASE \E u \in Uids : LiveSchemas[u] # NoSchema
                                /\ b = [desired |-> LiveSchemas, removed |-> {u}]
    <3>1. PICK u \in Uids :
             LiveSchemas[u] # NoSchema /\ b.desired = LiveSchemas /\ b.removed = {u}
      BY <2>4
    <3>2. ASSUME NEW v \in Uids PROVE LiveSchemas'[v] = LiveSchemas[v]
      <4>1. CASE LiveSchemas[v] # NoSchema
        <5>1. v \in Desired(p) /\ Live(v)
          BY <3>1, <4>1 DEF Desired, LiveSchemas
        <5> QED
          BY <1>2, <3>1, <5>1, CommitInUse
      <4>2. CASE LiveSchemas[v] = NoSchema
        <5>1. v \notin Desired(p) /\ v \notin b.removed
          BY <3>1, <4>2 DEF Desired
        <5> QED
          BY <1>2, <5>1, CommitInUse
      <4> QED
        BY <4>1, <4>2
    <3>3. LiveSchemas' = LiveSchemas
      BY <3>2 DEF LiveSchemas
    <3> QED
      BY <3>3
  <2> QED
    BY <2>1, <2>2, <2>3, <2>4 DEF SentNow
<1> QED
  BY <1>1, <1>2

(* When calls do not overlap and none is dropped between its commit and    *)
(* its rebuild, the content types in use change as the catalog says: batch *)
(* by batch, each as a whole, and never as a full replacement.             *)
THEOREM BatchByBatch ==
    ASSUME OneCall, ~DropAfterCommit
    PROVE  Spec => ImplementsCatalog
<1>1. Init => AbstractCatalog!Init
  BY DEF Init, AbstractCatalog!Init, LiveSchemas, Live
<1>2. TypeOK /\ SerialInv /\ [Next]_vars => [AbstractCatalog!Next]_LiveSchemas
  BY CatalogStep
<1> QED
  BY <1>1, <1>2, SerialAlways, PTL DEF Spec, ImplementsCatalog, AbstractCatalog!Spec

=============================================================================
