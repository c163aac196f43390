----------------------- MODULE ContentLifecycleProofs -----------------------
(***************************************************************************)
(* Theorems about ContentLifecycle, for every set of clients, document     *)
(* ids, locales and contents, and whichever calls are made and fail.       *)
(***************************************************************************)
EXTENDS ContentLifecycle, FiniteSetTheorems, TLAPS

-----------------------------------------------------------------------------
(* What deleting a document does to a table: the rows keep their identity, *)
(* and those of other documents are what they were.                        *)
LEMMA SoftDeletedRows ==
    ASSUME NEW table \in SUBSET Row, NEW d
    PROVE  /\ SoftDeleted(table, d) \subseteq Row
           /\ \A r \in table : \E q \in SoftDeleted(table, d) : SameRow(q, r)
           /\ \A q \in SoftDeleted(table, d) : \E r \in table : SameRow(q, r)
           /\ \A r \in table : r.doc # d => r \in SoftDeleted(table, d)
           /\ (\A r, q \in table : r.id = q.id => r = q)
                => \A r, q \in SoftDeleted(table, d) : r.id = q.id => r = q
<1> DEFINE After(r) == IF r.doc = d THEN [r EXCEPT !.deleted = TRUE] ELSE r
<1>1. SoftDeleted(table, d) = {After(r) : r \in table}
  BY DEF SoftDeleted
<1>2. ASSUME NEW r \in table
      PROVE  /\ After(r) \in Row
             /\ SameRow(After(r), r)
             /\ r.doc # d => After(r) = r
  BY <1>2 DEF Row, SameRow
<1> HIDE DEF After
<1>3. ASSUME NEW r \in table, NEW q \in table, After(r).id = After(q).id,
             \A x, y \in table : x.id = y.id => x = y
      PROVE  After(r) = After(q)
  BY <1>2, <1>3 DEF SameRow
<1> QED
  BY <1>1, <1>2, <1>3

Updated(table, i, v) == {IF r.id = i THEN [r EXCEPT !.val = v] ELSE r : r \in table}

(* An update of one row by its id, likewise.                               *)
LEMMA UpdatedRows ==
    ASSUME NEW table \in SUBSET Row, NEW i, NEW v \in Values, NEW after,
           after = Updated(table, i, v)
    PROVE  /\ after \subseteq Row
           /\ \A r \in table : \E q \in after : SameRow(q, r)
           /\ \A q \in after : \E r \in table : SameRow(q, r)
           /\ (\A r, q \in table : r.id = q.id => r = q)
                => \A r, q \in after : r.id = q.id => r = q
<1> DEFINE After(r) == IF r.id = i THEN [r EXCEPT !.val = v] ELSE r
<1>0. after = {After(r) : r \in table}
  BY DEF Updated
<1>1. ASSUME NEW r \in table
      PROVE  After(r) \in Row /\ SameRow(After(r), r)
  BY <1>1 DEF Row, SameRow
<1> HIDE DEF After
<1>2. ASSUME NEW r \in table, NEW q \in table, After(r).id = After(q).id,
             \A x, y \in table : x.id = y.id => x = y
      PROVE  After(r) = After(q)
  BY <1>1, <1>2 DEF SameRow
<1> QED
  BY <1>0, <1>1, <1>2

-----------------------------------------------------------------------------
(* Steps on the table: rows appear with the next id, and keep their        *)
(* identity ever after.                                                    *)

\* The rows of one table that have become the rows of another.
Become(t1, t2) ==
    /\ \A r \in t1 : \E q \in t2 : SameRow(q, r)
    /\ \A q \in t2 : \E r \in t1 : SameRow(q, r)

\* A table and its id sequence, well formed.
TableOK(table, next) ==
    /\ table \subseteq Row
    /\ next \in Nat \ {0}
    /\ \A r \in table : r.id < next
    /\ \A r, q \in table : r.id = q.id => r = q
    /\ \A r \in table : r.doc \in Nat => r.doc < next

LEMMA SameRowTransitive ==
    ASSUME NEW r, NEW q, NEW x, SameRow(r, q), SameRow(q, x)
    PROVE  SameRow(r, x)
BY DEF SameRow

(* Inserting a row with the next id, under a document id already in use or *)
(* just generated, keeps the table well formed.                            *)
LEMMA InsertKeepsTable ==
    ASSUME NEW table, NEW next, TableOK(table, next), NEW new \in Row, new.id = next,
           new.doc \in Nat => new.doc <= next
    PROVE  TableOK(table \cup {new}, next + 1)
BY DEF TableOK, Row

LEMMA SoftDeleteKeepsTable ==
    ASSUME NEW table, NEW next, TableOK(table, next), NEW d
    PROVE  TableOK(SoftDeleted(table, d), next) /\ Become(table, SoftDeleted(table, d))
<1> DEFINE after == SoftDeleted(table, d)
<1>1. /\ after \subseteq Row
      /\ \A q \in after : \E r \in table : SameRow(q, r)
      /\ \A r, q \in after : r.id = q.id => r = q
      /\ Become(table, after)
  BY SoftDeletedRows DEF TableOK, Become
<1> QED
  BY <1>1 DEF TableOK, SameRow

-----------------------------------------------------------------------------
(* Type correctness, with what the calls hold.                             *)

Inv == TypeOK /\ HeldInv

LEMMA TableOfInv == Inv => TableOK(rows, nextId)
BY DEF Inv, TypeOK, HeldInv, TableOK

(* A step keeps the invariant if it keeps the table well formed, loses no  *)
(* row, and leaves the calls of others alone.                              *)
LEMMA StepKeepsInv ==
    ASSUME Inv, NEW c \in Clients,
           TableOK(rows', nextId'),
           \A r \in rows : \E q \in rows' : SameRow(q, r),
           pc' \in [Clients -> {"idle", "wf_delete"} \cup (Call \ AtOnceCall)],
           job' \in [Clients -> [row : Row \cup {NoRow}, copy : Nat]],
           reply' \in [Clients -> {"none", "ok", "refused", "failed"}],
           calls' \in Nat,
           \A b \in Clients \ {c} : pc'[b] = pc[b] /\ job'[b] = job[b],
           pc'[c] # "idle" =>
               /\ job'[c].row \in Row /\ ~job'[c].row.deleted
               /\ \E r \in rows' : SameRow(r, job'[c].row),
           pc'[c] = "wf_delete" =>
               \E r \in rows' : /\ r.id = job'[c].copy
                                /\ r.entry = job'[c].row.entry
                                /\ r.doc # job'[c].row.doc
    PROVE  Inv'
<1>1. TypeOK'
  BY DEF TypeOK, TableOK
<1>2. ASSUME NEW b \in Clients, pc'[b] # "idle"
      PROVE  /\ job'[b].row \in Row /\ ~job'[b].row.deleted
             /\ \E r \in rows' : SameRow(r, job'[b].row)
  <2>1. CASE b = c
    BY <1>2, <2>1
  <2>2. CASE b # c
    <3>1. PICK r \in rows : /\ job[b].row \in Row /\ ~job[b].row.deleted
                            /\ SameRow(r, job[b].row)
      BY <1>2, <2>2 DEF Inv, HeldInv
    <3>2. PICK q \in rows' : SameRow(q, r)
      OBVIOUS
    <3> QED
      BY <2>2, <3>1, <3>2, SameRowTransitive
  <2> QED
    BY <2>1, <2>2
<1>3. ASSUME NEW b \in Clients, pc'[b] = "wf_delete"
      PROVE  \E r \in rows' : /\ r.id = job'[b].copy
                              /\ r.entry = job'[b].row.entry
                              /\ r.doc # job'[b].row.doc
  <2>1. CASE b = c
    BY <1>3, <2>1
  <2>2. CASE b # c
    <3>1. PICK r \in rows : /\ r.id = job[b].copy
                            /\ r.entry = job[b].row.entry
                            /\ r.doc # job[b].row.doc
      BY <1>3, <2>2 DEF Inv, HeldInv
    <3>2. PICK q \in rows' : SameRow(q, r)
      OBVIOUS
    <3> QED
      BY <2>2, <3>1, <3>2 DEF SameRow
  <2> QED
    BY <2>1, <2>2
<1>4. \A r \in rows' : r.doc \in Nat => r.doc < nextId'
  BY DEF TableOK
<1> QED
  BY <1>1, <1>2, <1>3, <1>4 DEF Inv, HeldInv

LEMMA AnswerTypes ==
    ASSUME TypeOK, NEW c \in Clients, NEW answer \in {"ok", "refused", "failed"},
           Answer(c, answer)
    PROVE  /\ pc' \in [Clients -> {"idle", "wf_delete"} \cup (Call \ AtOnceCall)]
           /\ job' \in [Clients -> [row : Row \cup {NoRow}, copy : Nat]]
           /\ reply' \in [Clients -> {"none", "ok", "refused", "failed"}]
           /\ pc'[c] = "idle"
           /\ \A b \in Clients \ {c} : pc'[b] = pc[b] /\ job'[b] = job[b]
BY DEF TypeOK, Answer, IdleJob

LEMMA SameRowReflexive == \A r : SameRow(r, r)
BY DEF SameRow

(* The copy a call makes is a row of the same entry with the next id.      *)
LEMMA CopyRow ==
    ASSUME Inv, NEW c \in Clients,
           pc[c] \in {"publish", "unpublish", "wf_publish", "wf_unpublish"}
    PROVE  /\ Copy(c) \in Row
           /\ Copy(c).id = nextId
           /\ Copy(c).entry = job[c].row.entry
           /\ ~Copy(c).deleted
           /\ Copy(c).doc = IF pc[c] = "unpublish" THEN job[c].row.doc ELSE nextId
           /\ Copy(c).doc \in Nat => Copy(c).doc <= nextId
<1>1. /\ job[c].row \in Row /\ ~job[c].row.deleted
      /\ \E r \in rows : SameRow(r, job[c].row)
      /\ nextId \in Nat
  BY DEF Inv, HeldInv, TypeOK
<1>2. job[c].row.doc \in Nat => job[c].row.doc < nextId
  BY <1>1 DEF Inv, HeldInv, SameRow
<1>3. nextId \in Docs
  BY <1>1 DEF Docs
<1> DEFINE r == job[c].row
           d == IF pc[c] = "unpublish" THEN r.doc ELSE nextId
           s == IF pc[c] \in {"publish", "wf_publish"} THEN "published" ELSE "draft"
<1>4. d \in Docs /\ s \in States
  BY <1>1, <1>3 DEF Row, States
<1>5. Copy(c) = [r EXCEPT !.id = nextId, !.doc = d, !.state = s]
  BY <1>1 DEF Copy, Row
<1> HIDE DEF s
<1>6. d \in Nat => d <= nextId
  BY <1>1, <1>2
<1>7. d = IF pc[c] = "unpublish" THEN job[c].row.doc ELSE nextId
  OBVIOUS
<1>8. r \in Row /\ r = job[c].row
  BY <1>1
<1> HIDE DEF d, r
<1>9. /\ Copy(c) \in Row
      /\ Copy(c).id = nextId
      /\ Copy(c).entry = r.entry
      /\ Copy(c).deleted = r.deleted
      /\ Copy(c).doc = d
  BY <1>1, <1>4, <1>5, <1>8 DEF Row
<1> QED
  BY <1>1, <1>6, <1>7, <1>8, <1>9

-----------------------------------------------------------------------------
(* Each action keeps the invariant.                                        *)

LEMMA InsertGivesRows ==
    ASSUME NEW table, NEW new
    PROVE  \A r \in table : \E q \in table \cup {new} : SameRow(q, r)
BY SameRowReflexive

LEMMA CreateKeepsInv ==
    ASSUME Inv, NEW c \in Clients, Create(c)
    PROVE  Inv'
<1>1. PICK d \in GivenDocs \cup {nextId}, l \in Locales, s \in States, v \in Values :
         LET new == [id |-> nextId, doc |-> d, locale |-> l, state |-> s, val |-> v,
                     deleted |-> FALSE, entry |-> EntryOf(d)] IN
         IF Collides(new)
         THEN Answer(c, "refused") /\ UNCHANGED <<rows, nextId>>
         ELSE Answer(c, "ok") /\ rows' = rows \cup {new} /\ nextId' = nextId + 1
  BY DEF Create
<1> DEFINE new == [id |-> nextId, doc |-> d, locale |-> l, state |-> s, val |-> v,
                   deleted |-> FALSE, entry |-> EntryOf(d)]
<1>2. TypeOK /\ rows \subseteq Row /\ nextId \in Nat /\ calls' \in Nat
  BY DEF Inv, TypeOK, Create
<1>3. EntryOf(d) \in Nat
  BY <1>2 DEF EntryOf, Found, Row
<1>4. /\ new \in Row
      /\ new.id = nextId
      /\ new.doc \in Nat => new.doc <= nextId
  BY <1>2, <1>3, LifecycleAssumption DEF Row, Docs
<1> HIDE DEF new
<1>5. \/ Answer(c, "refused") /\ rows' = rows /\ nextId' = nextId
      \/ Answer(c, "ok") /\ rows' = rows \cup {new} /\ nextId' = nextId + 1
  BY <1>1 DEF new
<1>6. TableOK(rows', nextId') /\ \A r \in rows : \E q \in rows' : SameRow(q, r)
  BY <1>4, <1>5, TableOfInv, InsertKeepsTable, InsertGivesRows, SameRowReflexive
<1>7. CASE Answer(c, "refused")
  BY <1>2, <1>6, <1>7, AnswerTypes, StepKeepsInv
<1>8. CASE Answer(c, "ok")
  BY <1>2, <1>6, <1>8, AnswerTypes, StepKeepsInv
<1> QED
  BY <1>5, <1>7, <1>8

LEMMA DeleteKeepsInv ==
    ASSUME Inv, NEW c \in Clients, Delete(c) \/ Discard(c) \/ DeleteOriginal(c)
    PROVE  Inv'
<1>1. PICK d : rows' = SoftDeleted(rows, d)
  BY DEF Delete, Discard, Gone, DeleteOriginal
<1>2. /\ TypeOK /\ nextId' = nextId /\ calls' \in Nat
      /\ Answer(c, "ok")
  BY DEF Inv, TypeOK, Delete, Discard, Gone, DeleteOriginal
<1>3. TableOK(rows', nextId') /\ \A r \in rows : \E q \in rows' : SameRow(q, r)
  BY <1>1, <1>2, TableOfInv, SoftDeleteKeepsTable DEF Become
<1> QED
  BY <1>2, <1>3, AnswerTypes, StepKeepsInv

LEMMA ReadKeepsInv ==
    ASSUME Inv, NEW c \in Clients, Read(c)
    PROVE  Inv'
<1>1. PICK call \in Calls \ AtOnceCall, r \in rows :
         /\ ~r.deleted
         /\ pc' = [pc EXCEPT ![c] = call]
         /\ job' = [job EXCEPT ![c].row = r]
  BY DEF Read, Found
<1>2. /\ TypeOK /\ rows' = rows /\ nextId' = nextId
      /\ calls' \in Nat
      /\ reply' \in [Clients -> {"none", "ok", "refused", "failed"}]
  BY DEF Inv, TypeOK, Read
<1>3. call \in Call \ AtOnceCall /\ call # "wf_delete" /\ r \in Row
  BY <1>1, <1>2, LifecycleAssumption DEF Call, AtOnceCall, TypeOK
<1>4. /\ pc' \in [Clients -> {"idle", "wf_delete"} \cup (Call \ AtOnceCall)]
      /\ pc'[c] # "wf_delete"
      /\ job' \in [Clients -> [row : Row \cup {NoRow}, copy : Nat]]
      /\ job'[c].row = r
      /\ \A b \in Clients \ {c} : pc'[b] = pc[b] /\ job'[b] = job[b]
  BY <1>1, <1>2, <1>3 DEF TypeOK
<1>5. TableOK(rows', nextId') /\ \A x \in rows : \E q \in rows' : SameRow(q, x)
  BY <1>2, TableOfInv, SameRowReflexive
<1> QED
  BY <1>1, <1>2, <1>3, <1>4, <1>5, StepKeepsInv

LEMMA WriteKeepsInv ==
    ASSUME Inv, NEW c \in Clients, Write(c)
    PROVE  Inv'
<1>1. TypeOK /\ rows \subseteq Row /\ nextId' = nextId /\ calls' \in Nat
  BY DEF Inv, TypeOK, Write
<1>2. PICK v \in Values :
         \/ Answer(c, "refused") /\ rows' = rows
         \/ /\ Answer(c, "ok")
            /\ rows' = {IF r.id = [job[c].row EXCEPT !.val = v].id
                        THEN [r EXCEPT !.val = v] ELSE r : r \in rows}
  BY DEF Write
<1>3. CASE rows' = rows
  BY <1>1, <1>2, <1>3, TableOfInv, SameRowReflexive, AnswerTypes, StepKeepsInv
<1>4. CASE /\ Answer(c, "ok")
           /\ rows' = {IF r.id = [job[c].row EXCEPT !.val = v].id
                       THEN [r EXCEPT !.val = v] ELSE r : r \in rows}
  <2> DEFINE i == [job[c].row EXCEPT !.val = v].id
  <2>0. rows' = Updated(rows, i, v)
    BY <1>4 DEF Updated
  <2> HIDE DEF i
  <2>1. /\ rows' \subseteq Row
        /\ \A r \in rows : \E q \in rows' : SameRow(q, r)
        /\ \A q \in rows' : \E r \in rows : SameRow(q, r)
        /\ \A r, q \in rows' : r.id = q.id => r = q
    BY <1>1, <2>0, UpdatedRows DEF TypeOK
  <2>2. TableOK(rows', nextId')
    BY <1>1, <2>1, TableOfInv DEF TableOK, SameRow
  <2> QED
    BY <1>1, <1>4, <2>1, <2>2, AnswerTypes, StepKeepsInv
<1> QED
  BY <1>2, <1>3, <1>4

LEMMA CommitCopyKeepsInv ==
    ASSUME Inv, NEW c \in Clients, CommitCopy(c)
    PROVE  Inv'
<1> DEFINE new == Copy(c)
           table == rows \cup {new}
<1>1. /\ TypeOK /\ calls' \in Nat
      /\ rows' = SoftDeleted(table, job[c].row.doc)
      /\ nextId' = nextId + 1
      /\ Answer(c, "ok")
  BY DEF Inv, TypeOK, CommitCopy
<1>2. new \in Row /\ new.id = nextId /\ (new.doc \in Nat => new.doc <= nextId)
  BY CopyRow DEF CommitCopy
<1> HIDE DEF new
<1>3. TableOK(table, nextId + 1) /\ \A r \in rows : \E q \in table : SameRow(q, r)
  BY <1>2, TableOfInv, InsertKeepsTable, InsertGivesRows
<1> HIDE DEF table
<1>4. TableOK(rows', nextId') /\ Become(table, rows')
  BY <1>1, <1>3, SoftDeleteKeepsTable
<1>5. \A r \in rows : \E q \in rows' : SameRow(q, r)
  BY <1>3, <1>4, SameRowTransitive DEF Become
<1> QED
  BY <1>1, <1>4, <1>5, AnswerTypes, StepKeepsInv

LEMMA InsertCopyKeepsInv ==
    ASSUME Inv, NEW c \in Clients, InsertCopy(c)
    PROVE  Inv'
<1> DEFINE new == Copy(c)
<1>1. /\ TypeOK /\ calls' \in Nat /\ nextId \in Nat
      /\ reply' \in [Clients -> {"none", "ok", "refused", "failed"}]
      /\ rows' = rows \cup {new}
      /\ nextId' = nextId + 1
      /\ pc' = [pc EXCEPT ![c] = "wf_delete"]
      /\ job' = [job EXCEPT ![c].copy = nextId]
  BY DEF Inv, TypeOK, InsertCopy
<1>2. /\ new \in Row /\ new.id = nextId
      /\ new.doc = nextId /\ new.entry = job[c].row.entry
  BY CopyRow DEF InsertCopy
<1> HIDE DEF new
<1>3. TableOK(rows', nextId') /\ \A r \in rows : \E q \in rows' : SameRow(q, r)
  <2>1. new.doc \in Nat => new.doc <= nextId
    BY <1>1, <1>2
  <2> QED
    BY <1>1, <1>2, <2>1, TableOfInv, InsertKeepsTable, InsertGivesRows
<1>4. /\ pc' \in [Clients -> {"idle", "wf_delete"} \cup (Call \ AtOnceCall)]
      /\ job' \in [Clients -> [row : Row \cup {NoRow}, copy : Nat]]
      /\ job'[c].row = job[c].row /\ job'[c].copy = nextId
      /\ \A b \in Clients \ {c} : pc'[b] = pc[b] /\ job'[b] = job[b]
  BY <1>1 DEF TypeOK
<1>5. PICK r \in rows : /\ job[c].row \in Row /\ ~job[c].row.deleted
                        /\ SameRow(r, job[c].row)
  BY DEF Inv, HeldInv, InsertCopy
<1>6. job'[c].row \in Row /\ ~job'[c].row.deleted /\ r \in rows'
  BY <1>1, <1>4, <1>5
<1>7. new.doc # job'[c].row.doc
  BY <1>1, <1>2, <1>4, <1>5 DEF Inv, HeldInv, SameRow
<1>8. \E q \in rows' : /\ q.id = job'[c].copy
                       /\ q.entry = job'[c].row.entry
                       /\ q.doc # job'[c].row.doc
  BY <1>1, <1>2, <1>4, <1>7
<1> QED
  BY <1>1, <1>3, <1>4, <1>5, <1>6, <1>8, StepKeepsInv

LEMMA RefusedKeepsInv ==
    ASSUME Inv, NEW c \in Clients, Refused(c) \/ Fail(c)
    PROVE  Inv'
<1>1. TypeOK /\ rows' = rows /\ nextId' = nextId /\ calls' \in Nat
  BY DEF Inv, TypeOK, Refused, Fail
<1>2. TableOK(rows', nextId') /\ \A r \in rows : \E q \in rows' : SameRow(q, r)
  BY <1>1, TableOfInv, SameRowReflexive
<1>3. CASE Answer(c, "refused")
  BY <1>1, <1>2, <1>3, AnswerTypes, StepKeepsInv
<1>4. CASE Answer(c, "failed")
  BY <1>1, <1>2, <1>4, AnswerTypes, StepKeepsInv
<1> QED
  BY <1>3, <1>4 DEF Refused, Fail

LEMMA InvInitially == Init => Inv
BY DEF Init, Inv, TypeOK, HeldInv, IdleJob

LEMMA NextKeepsInv == Inv /\ [Next]_vars => Inv'
<1>1. ASSUME Inv, NEW c \in Clients, Step(c)
      PROVE  Inv'
  BY <1>1, CreateKeepsInv, DeleteKeepsInv, ReadKeepsInv, WriteKeepsInv,
     CommitCopyKeepsInv, InsertCopyKeepsInv, RefusedKeepsInv DEF Step
<1>2. Inv /\ UNCHANGED vars => Inv'
  BY DEF vars, Inv, TypeOK, HeldInv
<1> QED
  BY <1>1, <1>2 DEF Next

(* Every variable has its type and no row id is given twice, whichever     *)
(* calls overlap and fail (content.rs, dml.rs).                            *)
THEOREM TypeCorrect == Spec => []TypeOK
<1>1. Inv => TypeOK
  BY DEF Inv
<1> QED
  BY <1>1, InvInitially, NextKeepsInv, PTL DEF Spec

-----------------------------------------------------------------------------
(* A document under a generated id is of one entry.                        *)

OneEntry(table) ==
    \A r, q \in table : r.doc = q.doc /\ r.doc \notin GivenDocs => r.entry = q.entry

LEMMA InsertKeepsOneEntry ==
    ASSUME NEW table, OneEntry(table), NEW new,
           \A r \in table :
              r.doc = new.doc /\ r.doc \notin GivenDocs => r.entry = new.entry
    PROVE  OneEntry(table \cup {new})
BY DEF OneEntry

LEMMA BecomeKeepsOneEntry ==
    ASSUME NEW t1, OneEntry(t1), NEW t2,
           \A q \in t2 : \E r \in t1 : SameRow(q, r)
    PROVE  OneEntry(t2)
BY DEF OneEntry, SameRow

(* The copy belongs to the entry of whatever has its document id: a        *)
(* generated id is new, and the unpublish request keeps its row's.         *)
LEMMA CopyOfOneEntry ==
    ASSUME Inv, OneEntry(rows), NEW c \in Clients,
           pc[c] \in {"publish", "unpublish", "wf_publish", "wf_unpublish"},
           NEW r \in rows, r.doc = Copy(c).doc, r.doc \notin GivenDocs
    PROVE  r.entry = Copy(c).entry
<1>1. PICK x \in rows : SameRow(x, job[c].row)
  BY DEF Inv, HeldInv
<1>2. /\ Copy(c).entry = job[c].row.entry
      /\ Copy(c).doc = IF pc[c] = "unpublish" THEN job[c].row.doc ELSE nextId
  BY CopyRow
<1>3. CASE pc[c] = "unpublish"
  BY <1>1, <1>2, <1>3 DEF SameRow, OneEntry
<1>4. CASE pc[c] # "unpublish"
  <2>1. r.doc = nextId /\ nextId \in Nat /\ r.doc < nextId
    BY <1>2, <1>4 DEF Inv, HeldInv, TypeOK
  <2> QED
    BY <2>1
<1> QED
  BY <1>3, <1>4

LEMMA OneEntryStep ==
    ASSUME Inv, OneEntry(rows), [Next]_vars
    PROVE  OneEntry(rows')
<1>1. CASE rows' = rows
  BY <1>1
<1>2. ASSUME NEW c \in Clients, Create(c)
      PROVE  OneEntry(rows')
  <2>1. PICK new : /\ rows' = rows \/ rows' = rows \cup {new}
                   /\ new.doc \in GivenDocs \cup {nextId}
    <3>1. PICK d \in GivenDocs \cup {nextId}, l \in Locales, st \in States, v \in Values :
             LET new == [id |-> nextId, doc |-> d, locale |-> l, state |-> st, val |-> v,
                         deleted |-> FALSE, entry |-> EntryOf(d)] IN
             rows' = rows \/ rows' = rows \cup {new}
      BY <1>2 DEF Create
    <3> WITNESS [id |-> nextId, doc |-> d, locale |-> l, state |-> st, val |-> v,
                 deleted |-> FALSE, entry |-> EntryOf(d)]
    <3> QED
      BY <3>1
  <2>2. \A r \in rows : r.doc = new.doc => r.doc \in GivenDocs
    BY <2>1 DEF Inv, HeldInv, TypeOK
  <2> QED
    BY <2>1, <2>2, InsertKeepsOneEntry
<1>3. ASSUME NEW c \in Clients, Delete(c) \/ Discard(c) \/ DeleteOriginal(c)
      PROVE  OneEntry(rows')
  <2>1. PICK d : rows' = SoftDeleted(rows, d)
    BY <1>3 DEF Delete, Discard, Gone, DeleteOriginal
  <2>2. \A q \in rows' : \E r \in rows : SameRow(q, r)
    BY <2>1, SoftDeletedRows DEF Inv, TypeOK
  <2> QED
    BY <2>2, BecomeKeepsOneEntry
<1>4. ASSUME NEW c \in Clients, Write(c)
      PROVE  OneEntry(rows')
  <2>1. PICK v \in Values :
           rows' = rows \/ rows' = Updated(rows, [job[c].row EXCEPT !.val = v].id, v)
    BY <1>4 DEF Write, Updated
  <2>2. \A q \in rows' : \E r \in rows : SameRow(q, r)
    BY <2>1, UpdatedRows, SameRowReflexive DEF Inv, TypeOK
  <2> QED
    BY <2>2, BecomeKeepsOneEntry
<1>5. ASSUME NEW c \in Clients, CommitCopy(c) \/ InsertCopy(c)
      PROVE  OneEntry(rows')
  <2> DEFINE table == rows \cup {Copy(c)}
  <2>1. pc[c] \in {"publish", "unpublish", "wf_publish", "wf_unpublish"}
    BY <1>5 DEF CommitCopy, InsertCopy
  <2>2. OneEntry(table) /\ table \in SUBSET Row
    BY <2>1, CopyOfOneEntry, CopyRow, InsertKeepsOneEntry DEF Inv, TypeOK
  <2>3. rows' = table \/ rows' = SoftDeleted(table, job[c].row.doc)
    BY <1>5 DEF CommitCopy, InsertCopy
  <2> HIDE DEF table
  <2>4. \A q \in rows' : \E r \in table : SameRow(q, r)
    BY <2>2, <2>3, SoftDeletedRows, SameRowReflexive
  <2> QED
    BY <2>2, <2>4, BecomeKeepsOneEntry
<1> QED
  BY <1>1, <1>2, <1>3, <1>4, <1>5 DEF Next, Step, Read, Refused, Fail, vars

-----------------------------------------------------------------------------
(* Publishing loses nothing.                                               *)

LEMMA CommitKeepsEntries ==
    ASSUME Inv, OneEntry(rows), NEW c \in Clients, CommitCopy(c), pc[c] = "publish",
           NEW r \in rows, ~r.deleted, r.doc \notin GivenDocs
    PROVE  Alive(rows', r.entry)
<1> DEFINE d == job[c].row.doc
           table == rows \cup {Copy(c)}
<1>1. PICK x \in rows : SameRow(x, job[c].row)
  BY DEF Inv, HeldInv
<1>2. /\ Copy(c) \in Row /\ ~Copy(c).deleted
      /\ Copy(c).entry = job[c].row.entry /\ Copy(c).doc = nextId
  BY CopyRow
<1>3. rows' = SoftDeleted(table, d) /\ table \in SUBSET Row
  BY <1>2 DEF CommitCopy, Inv, TypeOK
<1>4. nextId \in Nat /\ (x.doc \in Nat => x.doc < nextId)
  BY DEF Inv, HeldInv, TypeOK
<1>5. Copy(c).doc # d
  BY <1>1, <1>2, <1>4 DEF SameRow
<1>6. \A y \in table : y.doc # d => y \in rows'
  <2> HIDE DEF table, d
  <2> QED
    BY <1>3, SoftDeletedRows
<1>7. CASE r.doc = d
  BY <1>1, <1>2, <1>5, <1>6, <1>7 DEF SameRow, OneEntry, Alive
<1>8. CASE r.doc # d
  BY <1>6, <1>8 DEF Alive
<1> QED
  BY <1>7, <1>8

LEMMA DeleteOriginalKeepsEntries ==
    ASSUME Inv, OneEntry(rows), NEW c \in Clients, DeleteOriginal(c),
           \E q \in rows : q.id = job[c].copy /\ ~q.deleted,
           NEW r \in rows, ~r.deleted, r.doc \notin GivenDocs
    PROVE  Alive(rows', r.entry)
<1> DEFINE d == job[c].row.doc
<1>1. PICK x \in rows : SameRow(x, job[c].row)
  BY DEF Inv, HeldInv, DeleteOriginal
<1>2. PICK q \in rows : q.id = job[c].copy /\ q.entry = job[c].row.entry /\ q.doc # d
  BY DEF Inv, HeldInv, DeleteOriginal
<1>3. ~q.deleted
  BY <1>2 DEF Inv, TypeOK
<1>4. rows' = SoftDeleted(rows, d)
  BY DEF DeleteOriginal
<1>5. \A y \in rows : y.doc # d => y \in rows'
  <2> HIDE DEF d
  <2> QED
    BY <1>4, SoftDeletedRows DEF Inv, TypeOK
<1>6. CASE r.doc = d
  BY <1>1, <1>2, <1>3, <1>5, <1>6 DEF SameRow, OneEntry, Alive
<1>7. CASE r.doc # d
  BY <1>5, <1>7 DEF Alive
<1> QED
  BY <1>6, <1>7

\* What PublishKeepsEntries says of the steps of one client.
KeepsEntries(c) ==
    /\ pc[c] \in {"publish", "wf_publish", "wf_unpublish", "wf_delete"}
    /\ pc[c] = "wf_delete" => \E r \in rows : r.id = job[c].copy /\ ~r.deleted
    /\ pc'[c] # pc[c]
    => \A r \in rows : ~r.deleted /\ r.doc \notin GivenDocs => Alive(rows', r.entry)

(* Only a call's own step moves it.                                        *)
LEMMA OthersStay ==
    ASSUME Inv, NEW b \in Clients, NEW c \in Clients, Step(b), b # c
    PROVE  pc'[c] = pc[c]
BY DEF Inv, TypeOK, Step, Create, Delete, Discard, Gone, Read, Write, CommitCopy, InsertCopy,
       DeleteOriginal, Refused, Fail, Answer

LEMMA StepKeepsEntries ==
    ASSUME Inv, OneEntry(rows), [Next]_vars, NEW c \in Clients
    PROVE  KeepsEntries(c)
<1> SUFFICES ASSUME pc[c] \in {"publish", "wf_publish", "wf_unpublish", "wf_delete"},
                    pc[c] = "wf_delete" =>
                        \E r \in rows : r.id = job[c].copy /\ ~r.deleted,
                    pc'[c] # pc[c],
                    NEW r \in rows, ~r.deleted, r.doc \notin GivenDocs
             PROVE  Alive(rows', r.entry)
  BY DEF KeepsEntries
<1>1. Step(c)
  BY OthersStay DEF Next, vars
<1>2. CASE CommitCopy(c)
  BY <1>2, CommitKeepsEntries DEF CommitCopy
<1>3. CASE InsertCopy(c)
  BY <1>3 DEF InsertCopy, Alive
<1>4. CASE DeleteOriginal(c)
  BY <1>4, DeleteOriginalKeepsEntries DEF DeleteOriginal
<1>5. CASE Refused(c) \/ Fail(c)
  BY <1>5 DEF Refused, Fail, Alive
<1> QED
  BY <1>1, <1>2, <1>3, <1>4, <1>5 DEF Step, Create, Delete, Discard, Read, Write, CanCall

(* Whatever else is going on, and whichever steps fail, a publish or a     *)
(* workflow's unpublish never leaves an entry of a generated document id   *)
(* without any row: the copy has a document id of its own (content.rs,     *)
(* cm_publish; executors.rs, execute_publish_content), and what is deleted *)
(* is of the same entry.  Under an id given by clients it need not be: two *)
(* entries may have it.                                                    *)
THEOREM EntriesKept == Spec => PublishKeepsEntries
<1>1. Init => OneEntry(rows)
  BY DEF Init, OneEntry
<1>2. Inv /\ OneEntry(rows) /\ [Next]_vars => OneEntry(rows)'
  BY OneEntryStep DEF OneEntry
<1>3. Inv /\ OneEntry(rows) /\ [Next]_vars => [\A c \in Clients : KeepsEntries(c)]_vars
  BY StepKeepsEntries
<1> QED
  BY <1>1, <1>2, <1>3, InvInitially, NextKeepsInv, PTL
     DEF Spec, PublishKeepsEntries, KeepsEntries

-----------------------------------------------------------------------------
(* What each step does to the rows, but for their contents.                *)

\* Row r has become q, which is live only if r was.
Kin(q, r) ==
    /\ SameRow(q, r) /\ q.locale = r.locale /\ q.state = r.state
    /\ q.deleted \in BOOLEAN /\ r.deleted \in BOOLEAN
    /\ ~q.deleted => ~r.deleted

LEMMA SoftDeletedKin ==
    ASSUME NEW table \in SUBSET Row, NEW d
    PROVE  \A q \in SoftDeleted(table, d) : \E r \in table :
              Kin(q, r) /\ (~q.deleted => q = r /\ r.doc # d)
<1> DEFINE After(r) == IF r.doc = d THEN [r EXCEPT !.deleted = TRUE] ELSE r
<1>1. SoftDeleted(table, d) = {After(r) : r \in table}
  BY DEF SoftDeleted
<1>2. ASSUME NEW r \in table
      PROVE  Kin(After(r), r) /\ (~After(r).deleted => After(r) = r /\ r.doc # d)
  BY <1>2 DEF Row, Kin, SameRow
<1> HIDE DEF After
<1> QED
  BY <1>1, <1>2

LEMMA UpdatedKin ==
    ASSUME NEW table \in SUBSET Row, NEW i, NEW v
    PROVE  \A q \in Updated(table, i, v) : \E r \in table : Kin(q, r)
<1> DEFINE After(r) == IF r.id = i THEN [r EXCEPT !.val = v] ELSE r
<1>1. Updated(table, i, v) = {After(r) : r \in table}
  BY DEF Updated
<1>2. ASSUME NEW r \in table PROVE Kin(After(r), r)
  BY <1>2 DEF Row, Kin, SameRow
<1> HIDE DEF After
<1> QED
  BY <1>1, <1>2

LEMMA WrittenRows ==
    ASSUME Inv, NEW c \in Clients, Write(c)
    PROVE  \/ rows' = rows
           \/ /\ reply'[c] = "ok"
              /\ \E v \in Values : rows' = Updated(rows, job[c].row.id, v)
<1>1. PICK v \in Values :
         \/ rows' = rows
         \/ Answer(c, "ok") /\ rows' = Updated(rows, [job[c].row EXCEPT !.val = v].id, v)
  BY DEF Write, Updated
<1>2. job[c].row \in Row
  BY DEF Write, Inv, HeldInv
<1>3. [job[c].row EXCEPT !.val = v].id = job[c].row.id
  BY <1>2 DEF Row
<1> QED
  BY <1>1, <1>3 DEF Answer, Inv, TypeOK

(* The row a create inserts: of a new entry, or of the one the document    *)
(* has already.                                                            *)
LEMMA CreatedRow ==
    ASSUME Inv, NEW c \in Clients, Create(c), rows' # rows
    PROVE  \E new \in Row :
              /\ rows' = rows \cup {new} /\ nextId' = nextId + 1
              /\ new.id = nextId /\ ~new.deleted
              /\ new.doc \in GivenDocs \cup {nextId}
              /\ ~Collides(new)
              /\ \/ new.entry = nextId
                 \/ \E x \in rows : ~x.deleted /\ x.doc = new.doc /\ new.entry = x.entry
<1>1. PICK d \in GivenDocs \cup {nextId}, l \in Locales, s \in States, v \in Values :
         LET new == [id |-> nextId, doc |-> d, locale |-> l, state |-> s, val |-> v,
                     deleted |-> FALSE, entry |-> EntryOf(d)] IN
         ~Collides(new) /\ rows' = rows \cup {new} /\ nextId' = nextId + 1
  BY DEF Create
<1> DEFINE new == [id |-> nextId, doc |-> d, locale |-> l, state |-> s, val |-> v,
                   deleted |-> FALSE, entry |-> EntryOf(d)]
<1>2. rows \subseteq Row /\ nextId \in Nat
  BY DEF Inv, TypeOK
<1>3. EntryOf(d) = nextId \/ \E x \in Found(d) : EntryOf(d) = x.entry
  BY DEF EntryOf
<1>4. new \in Row
  BY <1>2, <1>3, LifecycleAssumption DEF Row, Docs, Found
<1>5. new.id = nextId /\ ~new.deleted /\ new.doc = d /\ new.entry = EntryOf(d)
  OBVIOUS
<1>6. ~Collides(new) /\ rows' = rows \cup {new} /\ nextId' = nextId + 1
  BY <1>1
<1> HIDE DEF new
<1> QED
  BY <1>3, <1>4, <1>5, <1>6 DEF Found

(* A step that makes no row leaves rows that were there before.            *)
LEMMA OldRows ==
    ASSUME Inv, NEW c \in Clients,
           \/ Delete(c) \/ Discard(c) \/ Read(c) \/ Write(c)
           \/ DeleteOriginal(c) \/ Refused(c) \/ Fail(c)
    PROVE  nextId' = nextId /\ \A q \in rows' : \E r \in rows : Kin(q, r)
<1>1. nextId' = nextId /\ rows \in SUBSET Row
  BY DEF Inv, TypeOK, Delete, Discard, Gone, Read, Write, DeleteOriginal, Refused, Fail
<1>2. CASE rows' = rows
  BY <1>1, <1>2 DEF Kin, SameRow, Row
<1>3. CASE Delete(c) \/ Discard(c) \/ DeleteOriginal(c)
  <2>1. PICK d : rows' = SoftDeleted(rows, d)
    BY <1>3 DEF Delete, Discard, Gone, DeleteOriginal
  <2> QED
    BY <1>1, <2>1, SoftDeletedKin
<1>4. CASE Write(c)
  BY <1>1, <1>2, <1>4, WrittenRows, UpdatedKin
<1> QED
  BY <1>1, <1>2, <1>3, <1>4 DEF Read, Refused, Fail

-----------------------------------------------------------------------------
(* Keys and entries, however calls overlap.                                *)

LEMMA KinKeepsKeys ==
    ASSUME NEW t1, \A r, q \in t1 : SameKey(r, q) => r = q,
           NEW t2, \A r, q \in t2 : r.id = q.id => r = q,
           \A q \in t2 : \E r \in t1 : Kin(q, r)
    PROVE  \A r, q \in t2 : SameKey(r, q) => r = q
<1> SUFFICES ASSUME NEW r \in t2, NEW q \in t2, SameKey(r, q) PROVE r = q
  OBVIOUS
<1>1. PICK x \in t1, y \in t1 : Kin(r, x) /\ Kin(q, y)
  OBVIOUS
<1>2. SameKey(x, y)
  BY <1>1 DEF Kin, SameKey, SameRow
<1>3. x = y
  BY <1>2
<1>4. r.id = q.id
  BY <1>1, <1>3 DEF Kin, SameRow
<1> QED
  BY <1>4

LEMMA InsertKeepsKeys ==
    ASSUME \A r, q \in rows : SameKey(r, q) => r = q, NEW new, ~Collides(new)
    PROVE  \A r, q \in rows \cup {new} : SameKey(r, q) => r = q
BY DEF Collides, SameKey

LEMMA KeyStep ==
    ASSUME Inv, Inv', KeyInv, [Next]_vars
    PROVE  KeyInv'
<1>1. nextId \in Nat /\ \A r, q \in rows' : r.id = q.id => r = q
  BY DEF Inv, TypeOK
<1>2. CASE rows' = rows /\ nextId' = nextId
  BY <1>2 DEF KeyInv
<1>3. ASSUME NEW c \in Clients, Create(c), rows' # rows PROVE KeyInv'
  <2>1. PICK new \in Row :
           /\ rows' = rows \cup {new} /\ nextId' = nextId + 1 /\ ~Collides(new)
           /\ new.entry = nextId \/ \E x \in rows : new.entry = x.entry
    BY <1>3, CreatedRow
  <2>2. \A r, q \in rows' : SameKey(r, q) => r = q
    BY <2>1, InsertKeepsKeys DEF KeyInv
  <2>3. ASSUME NEW r \in rows' PROVE r.entry < nextId'
    BY <1>1, <2>1 DEF KeyInv, Row, Inv, TypeOK
  <2> QED
    BY <2>2, <2>3 DEF KeyInv
<1>4. ASSUME NEW c \in Clients, CommitCopy(c) \/ InsertCopy(c) PROVE KeyInv'
  <2> DEFINE table == rows \cup {Copy(c)}
  <2>1. pc[c] \in {"publish", "unpublish", "wf_publish", "wf_unpublish"} /\ ~Collides(Copy(c))
        /\ nextId' = nextId + 1
    BY <1>4 DEF CommitCopy, InsertCopy, Insertable
  <2>2. table \in SUBSET Row /\ \A r, q \in table : SameKey(r, q) => r = q
    BY <2>1, InsertKeepsKeys, CopyRow DEF KeyInv, Inv, TypeOK
  <2>3. \A r \in table : r.entry < nextId'
    <3>1. PICK x \in rows : SameRow(x, job[c].row)
      BY <2>1 DEF Inv, HeldInv
    <3>2. Copy(c).entry = x.entry
      BY <2>1, <3>1, CopyRow DEF SameRow
    <3> QED
      BY <1>1, <2>1, <3>1, <3>2 DEF KeyInv, Row, Inv, TypeOK
  <2>4. rows' = table \/ rows' = SoftDeleted(table, job[c].row.doc)
    BY <1>4 DEF CommitCopy, InsertCopy
  <2> HIDE DEF table
  <2>5. \A q \in rows' : \E r \in table : Kin(q, r)
    <3>1. \A q \in table : Kin(q, q)
      BY <2>2 DEF Kin, SameRow, Row
    <3> QED
      BY <2>2, <2>4, <3>1, SoftDeletedKin
  <2> QED
    BY <1>1, <2>2, <2>3, <2>5, KinKeepsKeys DEF KeyInv, Kin, SameRow
<1>5. ASSUME NEW c \in Clients,
             \/ Delete(c) \/ Discard(c) \/ Read(c) \/ Write(c)
           \/ DeleteOriginal(c) \/ Refused(c) \/ Fail(c)
      PROVE  KeyInv'
  <2>1. nextId' = nextId /\ \A q \in rows' : \E r \in rows : Kin(q, r)
    BY <1>5, OldRows
  <2> QED
    BY <1>1, <2>1, KinKeepsKeys DEF KeyInv, Kin, SameRow
<1>6. ASSUME NEW c \in Clients, Create(c), rows' = rows PROVE KeyInv'
  <2>1. nextId' = nextId \/ nextId' = nextId + 1
    BY <1>6 DEF Create
  <2> QED
    BY <1>1, <1>6, <2>1 DEF KeyInv, Inv, TypeOK, Row
<1> QED
  BY <1>2, <1>3, <1>4, <1>5, <1>6 DEF Next, Step, vars

LEMMA KeyAlways == Spec => [](Inv /\ KeyInv)
<1>1. Init => KeyInv
  BY DEF Init, KeyInv
<1>2. Inv /\ Inv' /\ KeyInv /\ [Next]_vars => KeyInv'
  BY KeyStep
<1> QED
  BY <1>1, <1>2, InvInitially, NextKeepsInv, PTL DEF Spec

-----------------------------------------------------------------------------
(* Calls that do not overlap.                                              *)

OneCall == \A c, d \in Clients : c = d

(* A call that has read a row finds it as it was.                          *)
LEMMA ReadStep ==
    ASSUME OneCall, Inv, ReadInv, [Next]_vars
    PROVE  ReadInv'
<1>0. pc \in [Clients -> {"idle", "wf_delete"} \cup (Call \ AtOnceCall)]
      /\ job \in [Clients -> [row : Row \cup {NoRow}, copy : Nat]]
  BY DEF Inv, TypeOK
<1>1. ASSUME NEW c \in Clients, Step(c) PROVE ReadInv'
  <2>1. Clients = {c}
    BY DEF OneCall
  <2>2. CASE Read(c)
    <3>1. PICK r \in rows : job' = [job EXCEPT ![c].row = r] /\ rows' = rows
      BY <2>2 DEF Read, Found
    <3>2. job'[c].row = r
      BY <1>0, <3>1
    <3> QED
      BY <2>1, <3>1, <3>2 DEF ReadInv
  <2>3. CASE pc'[c] \in {"idle", "wf_delete"}
    BY <2>1, <2>3 DEF ReadInv
  <2> QED
    BY <1>0, <1>1, <2>2, <2>3
    DEF Step, Create, Delete, Discard, Gone, Write, CommitCopy, InsertCopy, DeleteOriginal,
        Refused, Fail, Answer
<1>2. CASE UNCHANGED vars
  BY <1>2 DEF vars, ReadInv
<1> QED
  BY <1>1, <1>2 DEF Next

(* A copy under a generated document id.                                   *)
LEMMA NewDocument ==
    ASSUME Inv, NEW c \in Clients, pc[c] \in {"publish", "wf_publish", "wf_unpublish"}
    PROVE  /\ Copy(c) \in Row /\ ~Copy(c).deleted
           /\ Copy(c).doc = nextId /\ Copy(c).entry = job[c].row.entry
           /\ job[c].row.doc # nextId
           /\ \A r \in rows : r.doc # nextId
<1>1. \A r \in rows : r.doc # nextId
  BY DEF Inv, HeldInv, TypeOK
<1>2. PICK x \in rows : SameRow(x, job[c].row)
  BY DEF Inv, HeldInv
<1> QED
  BY <1>1, <1>2, CopyRow DEF SameRow

(* The live rows of an entry stay those of one document.                   *)
LEMMA OneDocStep ==
    ASSUME OneCall, ~Interrupted, Inv, Inv', KeyInv, ReadInv, OneDocInv, [Next]_vars
    PROVE  OneDocInv'
<1>0. /\ pc \in [Clients -> {"idle", "wf_delete"} \cup (Call \ AtOnceCall)]
      /\ job \in [Clients -> [row : Row \cup {NoRow}, copy : Nat]]
      /\ rows \in SUBSET Row /\ nextId \in Nat
  BY DEF Inv, TypeOK
<1> DEFINE Remains(table, r) == r \in table /\ ~r.deleted
<1>1. ASSUME NEW c \in Clients, Step(c) PROVE OneDocInv'
  <2>1. Clients = {c}
    BY DEF OneCall
  <2>2. /\ \A d : pc[c] # "wf_delete" => Staying(d)
        /\ \A d : Staying(d)' <=> (pc'[c] = "wf_delete" => d # job'[c].row.doc)
    BY <2>1 DEF Staying
  <2>3. ASSUME pc[c] # "wf_delete", \A q \in rows' : \E r \in rows : Kin(q, r)
        PROVE  OneDocInv'
    <3> SUFFICES ASSUME NEW q1 \in rows', NEW q2 \in rows', ~q1.deleted, ~q2.deleted,
                        q1.entry = q2.entry
                 PROVE  q1.doc = q2.doc
      BY DEF OneDocInv
    <3>1. PICK r1 \in rows, r2 \in rows : Kin(q1, r1) /\ Kin(q2, r2)
      BY <2>3
    <3>2. ~r1.deleted /\ ~r2.deleted /\ r1.entry = r2.entry
      BY <3>1 DEF Kin, SameRow
    <3>3. r1.doc = r2.doc
      BY <2>2, <2>3, <3>2 DEF OneDocInv
    <3> QED
      BY <3>1, <3>3 DEF Kin, SameRow
  <2>4. CASE Delete(c) \/ Discard(c) \/ Read(c) \/ Write(c) \/ Refused(c)
    <3>1. pc[c] # "wf_delete"
      BY <2>4 DEF Delete, Discard, Read, Write, Refused, CanCall
    <3> QED
      BY <2>3, <2>4, <3>1, OldRows
  <2>5. CASE DeleteOriginal(c)
    <3>1. pc[c] = "wf_delete" /\ rows' = SoftDeleted(rows, job[c].row.doc)
      BY <2>5 DEF DeleteOriginal
    <3>2. \A q \in rows' : ~q.deleted => q \in rows /\ q.doc # job[c].row.doc
      BY <1>0, <3>1, SoftDeletedKin
    <3>3. \A q \in rows' : ~q.deleted => q \in rows /\ Staying(q.doc)
      BY <2>1, <3>2 DEF Staying
    <3> QED
      BY <3>3 DEF OneDocInv
  <2>6. CASE Create(c)
    <3>0. pc[c] # "wf_delete"
      BY <2>6 DEF Create, CanCall
    <3>1. CASE rows' = rows
      BY <2>2, <3>0, <3>1 DEF OneDocInv
    <3>2. CASE rows' # rows
      <4>1. PICK new \in Row :
               /\ rows' = rows \cup {new}
               /\ \/ new.entry = nextId
                  \/ \E x \in rows : ~x.deleted /\ x.doc = new.doc /\ new.entry = x.entry
        BY <2>6, <3>2, CreatedRow
      <4>2. ASSUME NEW r \in rows, ~r.deleted, r.entry = new.entry PROVE r.doc = new.doc
        BY <1>0, <2>2, <3>0, <4>1, <4>2 DEF OneDocInv, KeyInv
      <4> QED
        BY <2>2, <3>0, <4>1, <4>2 DEF OneDocInv
    <3> QED
      BY <3>1, <3>2
  <2>7. ASSUME pc[c] \notin {"idle", "wf_delete"},
               NEW r \in rows, ~r.deleted, r.entry = job[c].row.entry
        PROVE  r.doc = job[c].row.doc
    <3>1. job[c].row \in rows /\ ~job[c].row.deleted
      BY <2>7 DEF ReadInv, Inv, HeldInv
    <3> QED
      BY <2>2, <2>7, <3>1 DEF OneDocInv
  <2>8. CASE CommitCopy(c)
    <3> DEFINE d == job[c].row.doc
    <3>1. /\ pc[c] \in {"publish", "unpublish"}
          /\ rows' = SoftDeleted(rows \cup {Copy(c)}, d)
      BY <2>8 DEF CommitCopy
    <3>2. /\ Copy(c) \in Row /\ Copy(c).entry = job[c].row.entry
          /\ rows \cup {Copy(c)} \in SUBSET Row
      BY <1>0, <3>1, CopyRow
    <3>3. \A q \in rows' : ~q.deleted => q \in rows \cup {Copy(c)} /\ q.doc # d
      <4> HIDE DEF d
      <4> QED
        BY <3>1, <3>2, SoftDeletedKin
    <3>4. \A q \in rows' : ~q.deleted /\ q.entry = job[c].row.entry => q = Copy(c)
      BY <2>7, <3>1, <3>3
    <3>5. \A q \in rows' : ~q.deleted /\ q.entry # job[c].row.entry => q \in rows
      BY <3>2, <3>3
    <3> QED
      BY <2>2, <3>1, <3>4, <3>5 DEF OneDocInv
  <2>9. CASE InsertCopy(c)
    <3>1. /\ pc[c] \in {"wf_publish", "wf_unpublish"} /\ pc'[c] = "wf_delete"
          /\ rows' = rows \cup {Copy(c)}
          /\ job'[c].row = job[c].row
      BY <1>0, <2>9 DEF InsertCopy
    <3>2. Copy(c).entry = job[c].row.entry
      BY <3>1, CopyRow
    <3>3. ASSUME NEW q \in rows', ~q.deleted, Staying(q.doc)'
          PROVE  IF q.entry = job[c].row.entry THEN q = Copy(c) ELSE q \in rows
      <4>1. q.doc # job[c].row.doc
        BY <2>2, <3>1, <3>3
      <4> QED
        BY <2>7, <3>1, <3>2, <3>3, <4>1
    <3> QED
      BY <2>2, <3>1, <3>3 DEF OneDocInv
  <2> QED
    BY <1>1, <2>4, <2>5, <2>6, <2>8, <2>9 DEF Step, Fail
<1>2. CASE UNCHANGED vars
  BY <1>2 DEF vars, OneDocInv, Staying
<1> QED
  BY <1>1, <1>2 DEF Next

LEMMA ReadAlways ==
    ASSUME OneCall
    PROVE  Spec => [](Inv /\ KeyInv /\ ReadInv)
<1>1. Init => ReadInv
  BY DEF Init, ReadInv
<1>2. Inv /\ ReadInv /\ [Next]_vars => ReadInv'
  BY ReadStep
<1> QED
  BY <1>1, <1>2, KeyAlways, PTL DEF Spec

(* When calls neither overlap nor fail between their steps, an entry has   *)
(* at most one live variant of each locale and state, whatever document    *)
(* ids its clients choose.                                                 *)
THEOREM VariantsOnce ==
    ASSUME OneCall, ~Interrupted
    PROVE  Spec => []VariantsUnique
<1>1. Init => OneDocInv
  BY DEF Init, OneDocInv
<1>2. Inv /\ Inv' /\ KeyInv /\ ReadInv /\ OneDocInv /\ [Next]_vars => OneDocInv'
  BY OneDocStep
<1>3. KeyInv /\ OneDocInv => VariantsUnique
  <2> SUFFICES ASSUME KeyInv, OneDocInv, \A c \in Clients : pc[c] = "idle",
                      NEW r \in rows, NEW q \in rows, ~r.deleted, ~q.deleted,
                      r.entry = q.entry, r.locale = q.locale, r.state = q.state
               PROVE  r = q
    BY DEF VariantsUnique
  <2>1. \A d : Staying(d)
    BY DEF Staying
  <2>2. r.doc = q.doc
    BY <2>1 DEF OneDocInv
  <2> QED
    BY <2>2 DEF KeyInv, SameKey
<1> QED
  BY <1>1, <1>2, <1>3, ReadAlways, PTL DEF Spec

(* What a step makes live is of an entry that was live, or of a new one.   *)
LEMMA DeletedStep ==
    ASSUME OneCall, Inv, KeyInv, ReadInv, [Next]_vars, NEW r \in rows, Alive(rows', r.entry)
    PROVE  Alive(rows, r.entry)
<1>0. rows \in SUBSET Row /\ nextId \in Nat /\ r.entry < nextId
  BY DEF Inv, TypeOK, KeyInv
<1>1. PICK q \in rows' : q.entry = r.entry /\ ~q.deleted
  BY DEF Alive
<1>2. CASE q \in rows
  BY <1>1, <1>2 DEF Alive
<1>3. ASSUME NEW c \in Clients, Step(c), q \notin rows PROVE Alive(rows, r.entry)
  <2>1. CASE \/ Delete(c) \/ Discard(c) \/ Read(c) \/ Write(c)
            \/ DeleteOriginal(c) \/ Refused(c) \/ Fail(c)
    <3>1. PICK x \in rows : Kin(q, x)
      BY <2>1, OldRows
    <3> QED
      BY <1>1, <3>1 DEF Kin, SameRow, Alive
  <2>2. CASE Create(c)
    <3>1. q.entry = nextId \/ \E x \in rows : ~x.deleted /\ q.entry = x.entry
      BY <1>3, <2>2, CreatedRow
    <3> QED
      BY <1>0, <1>1, <3>1 DEF Alive
  <2>3. CASE CommitCopy(c) \/ InsertCopy(c)
    <3>1. pc[c] \in {"publish", "unpublish", "wf_publish", "wf_unpublish"}
      BY <2>3 DEF CommitCopy, InsertCopy
    <3>2. /\ job[c].row \in rows /\ ~job[c].row.deleted
          /\ Copy(c).entry = job[c].row.entry
          /\ rows \cup {Copy(c)} \in SUBSET Row
      BY <1>0, <3>1, CopyRow DEF ReadInv, Inv, HeldInv
    <3>3. \/ rows' = rows \cup {Copy(c)}
          \/ rows' = SoftDeleted(rows \cup {Copy(c)}, job[c].row.doc)
      BY <2>3 DEF CommitCopy, InsertCopy
    <3>4. q = Copy(c)
      BY <1>1, <1>3, <3>2, <3>3, SoftDeletedKin
    <3> QED
      BY <1>1, <3>2, <3>4 DEF Alive
  <2> QED
    BY <1>3, <2>1, <2>2, <2>3 DEF Step
<1> QED
  BY <1>2, <1>3 DEF Next, vars, Alive

\* What PublishCopiesCurrent says of the steps of one client.
CopiesCurrent(c) ==
    pc[c] = "publish" /\ reply'[c] = "ok" /\ pc'[c] = "idle" =>
        \E r \in rows, q \in rows' :
            /\ r.id = job[c].row.id /\ ~r.deleted /\ r.val = job[c].row.val
            /\ q.entry = r.entry /\ q.locale = r.locale /\ q.val = r.val
            /\ q.state = "published" /\ ~q.deleted

(* The steps of a publish.                                                 *)
LEMMA PublishStep ==
    ASSUME OneCall, CopyAccepted, ~UniqueValues, Inv, ReadInv,
           NEW c \in Clients, pc[c] = "publish", Step(c)
    PROVE  CopiesCurrent(c) /\ reply'[c] # "refused"
<1>0. /\ rows \in SUBSET Row
      /\ reply \in [Clients -> {"none", "ok", "refused", "failed"}]
  BY DEF Inv, TypeOK
<1>1. ~Collides(Copy(c))
  BY NewDocument DEF Collides
<1>2. CASE CommitCopy(c)
  <2>1. /\ rows' = SoftDeleted(rows \cup {Copy(c)}, job[c].row.doc)
        /\ reply'[c] = "ok"
    BY <1>0, <1>2 DEF CommitCopy, Answer
  <2>2. /\ Copy(c) \in Row /\ ~Copy(c).deleted /\ Copy(c).doc # job[c].row.doc
        /\ Copy(c).entry = job[c].row.entry
    BY NewDocument
  <2>3. Copy(c) \in rows'
    <3>1. rows \cup {Copy(c)} \in SUBSET Row
      BY <1>0, <2>2
    <3> QED
      BY <2>1, <2>2, <3>1, SoftDeletedRows
  <2>4. job[c].row \in rows /\ job[c].row \in Row /\ ~job[c].row.deleted
    BY DEF ReadInv, Inv, HeldInv
  <2>5. Copy(c).locale = job[c].row.locale /\ Copy(c).val = job[c].row.val
        /\ Copy(c).state = "published"
    BY <2>4 DEF Copy, Row
  <2> QED
    BY <2>1, <2>2, <2>3, <2>4, <2>5 DEF CopiesCurrent
<1>3. CASE Fail(c)
  BY <1>0, <1>3 DEF Fail, Answer, CopiesCurrent
<1> QED
  BY <1>1, <1>2, <1>3
  DEF Step, Create, Delete, Discard, Read, Write, InsertCopy, DeleteOriginal, Refused, Insertable,
      CanCall

(* When calls do not overlap, whichever fail: a publish that answers Ok    *)
(* shows the entry as it was saved; where stored rows pass the validation  *)
(* again and no attribute is unique, none is refused; and no call brings   *)
(* back an entry that was deleted.                                         *)
THEOREM PublishWorks ==
    ASSUME OneCall, CopyAccepted, ~UniqueValues
    PROVE  Spec => PublishTakesEffect
<1> DEFINE Current == \A c \in Clients : CopiesCurrent(c)
           Accepted == \A c \in Clients : pc[c] = "publish" => reply'[c] # "refused"
           Buried == \A r \in rows : ~Alive(rows, r.entry) => ~Alive(rows', r.entry)
<1>1. Inv /\ KeyInv /\ ReadInv /\ [Next]_vars => [Current]_vars
  <2> SUFFICES ASSUME Inv, ReadInv, Next, NEW c \in Clients PROVE CopiesCurrent(c)
    OBVIOUS
  <2>1. Step(c)
    BY DEF Next, OneCall
  <2> QED
    BY <2>1, PublishStep DEF CopiesCurrent
<1>2. Inv /\ KeyInv /\ ReadInv /\ [Next]_vars => [Accepted]_vars
  <2> SUFFICES ASSUME Inv, ReadInv, Next, NEW c \in Clients, pc[c] = "publish"
               PROVE  reply'[c] # "refused"
    OBVIOUS
  <2>1. Step(c)
    BY DEF Next, OneCall
  <2> QED
    BY <2>1, PublishStep
<1>3. Inv /\ KeyInv /\ ReadInv /\ [Next]_vars => [Buried]_vars
  BY DeletedStep
<1> QED
  BY <1>1, <1>2, <1>3, ReadAlways, PTL
  DEF Spec, PublishTakesEffect, PublishCopiesCurrent, PublishAccepted, DeletedStaysDeleted,
      CopiesCurrent

-----------------------------------------------------------------------------
(* Refinement: calls take effect at once.                                  *)

(* The calls that still have to insert their row are finitely many: a step *)
(* adds or removes its own.                                                *)
LEMMA CopyingStep ==
    ASSUME Inv, NEW c \in Clients, Step(c), IsFiniteSet(Copying)
    PROVE  /\ IsFiniteSet(Copying') /\ Cardinality(Copying) \in Nat
           /\ Cardinality(Copying') \in Nat
           /\ Read(c) => Cardinality(Copying') <= Cardinality(Copying) + 1
           /\ ~Read(c) => Cardinality(Copying') <= Cardinality(Copying)
           /\ CommitCopy(c) \/ InsertCopy(c) =>
                 Cardinality(Copying') = Cardinality(Copying) - 1
<1>0. pc \in [Clients -> {"idle", "wf_delete"} \cup (Call \ AtOnceCall)]
  BY DEF Inv, TypeOK
<1>1. PICK step : pc' = [pc EXCEPT ![c] = step]
  BY DEF Step, Create, Delete, Discard, Gone, Read, Write, CommitCopy, InsertCopy,
         DeleteOriginal, Refused, Fail, Answer
<1>2. ~Read(c) => step \in {"idle", "wf_delete"}
  BY <1>0, <1>1
  DEF Step, Create, Delete, Discard, Gone, Write, CommitCopy, InsertCopy, DeleteOriginal,
      Refused, Fail, Answer
<1>3. CommitCopy(c) \/ InsertCopy(c) => c \in Copying /\ ~Read(c)
  BY DEF CommitCopy, InsertCopy, Copying, Read, CanCall
<1>4. Copying' \in {Copying, Copying \cup {c}, Copying \ {c}}
  BY <1>0, <1>1 DEF Copying
<1>5. ~Read(c) => Copying' = Copying \ {c}
  BY <1>0, <1>1, <1>2 DEF Copying
<1> HIDE DEF Copying
<1>6. /\ IsFiniteSet(Copying \cup {c})
      /\ Cardinality(Copying \cup {c}) \in {Cardinality(Copying), Cardinality(Copying) + 1}
  BY FS_AddElement
<1>7. /\ IsFiniteSet(Copying \ {c})
      /\ Cardinality(Copying \ {c}) =
            IF c \in Copying THEN Cardinality(Copying) - 1 ELSE Cardinality(Copying)
  BY FS_RemoveElement
<1>8. /\ Cardinality(Copying) \in Nat /\ Cardinality(Copying \cup {c}) \in Nat
      /\ Cardinality(Copying \ {c}) \in Nat
  BY <1>6, <1>7, FS_CardinalityType
<1> DEFINE n == Cardinality(Copying)
           m == Cardinality(Copying')
<1>9. IsFiniteSet(Copying') /\ m \in {n - 1, n, n + 1} /\ m \in Nat /\ n \in Nat
  BY <1>4, <1>6, <1>7, <1>8
<1>10. ~Read(c) => m = IF c \in Copying THEN n - 1 ELSE n
  BY <1>5, <1>7
<1> HIDE DEF n, m
<1>11. /\ Read(c) => m <= n + 1
       /\ ~Read(c) => m <= n
       /\ CommitCopy(c) \/ InsertCopy(c) => m = n - 1
  BY <1>3, <1>9, <1>10
<1> QED
  BY <1>9, <1>11 DEF n, m

(* The row a copy inserts, whichever call makes it.                        *)
LEMMA CopiedRow ==
    ASSUME Inv, NEW c \in Clients, CommitCopy(c) \/ InsertCopy(c)
    PROVE  /\ Copy(c) \in Row /\ ~Copy(c).deleted /\ ~Collides(Copy(c))
           /\ Copy(c).doc = nextId \/ \E r \in rows : Copy(c).doc = r.doc
           /\ \E r \in rows : r.doc = job[c].row.doc
           /\ pc[c] = "unpublish" => Copy(c).doc = job[c].row.doc
           /\ pc[c] # "unpublish" =>
                 /\ Copy(c).doc = nextId /\ job[c].row.doc # nextId
                 /\ \A r \in rows : r.doc # nextId
<1>1. pc[c] \in {"publish", "unpublish", "wf_publish", "wf_unpublish"} /\ ~Collides(Copy(c))
  BY DEF CommitCopy, InsertCopy, Insertable
<1>2. PICK x \in rows : x.doc = job[c].row.doc
  BY <1>1 DEF Inv, HeldInv, SameRow
<1> QED
  BY <1>1, <1>2, CopyRow, NewDocument

LEMMA BoundStep ==
    ASSUME Inv, BoundInv, [Next]_vars
    PROVE  BoundInv'
<1>0. /\ rows \in SUBSET Row /\ nextId \in Nat \ {0} /\ calls \in Nat /\ MaxCalls \in Nat
  BY LifecycleAssumption DEF Inv, TypeOK
<1>1. ASSUME NEW c \in Clients, Step(c) PROVE BoundInv'
  <2>1. /\ IsFiniteSet(Copying') /\ Cardinality(Copying) \in Nat
        /\ Cardinality(Copying') \in Nat
        /\ Read(c) => Cardinality(Copying') <= Cardinality(Copying) + 1
        /\ ~Read(c) => Cardinality(Copying') <= Cardinality(Copying)
        /\ CommitCopy(c) \/ InsertCopy(c) =>
              Cardinality(Copying') = Cardinality(Copying) - 1
    BY <1>1, CopyingStep DEF BoundInv
  <2>2. CASE Create(c)
    <3>1. calls' = calls + 1 /\ calls < MaxCalls /\ nextId' \in {nextId, nextId + 1} /\ ~Read(c)
      BY <2>2 DEF Create, CanCall, Read, AtOnceCall, Answer, Inv, TypeOK
    <3>2. ASSUME NEW r \in rows' PROVE r.doc \in GivenDocs \cup 1..MaxCalls
      <4>1. r \in rows \/ r.doc \in GivenDocs \cup {nextId}
        BY <2>2, CreatedRow
      <4> QED
        BY <1>0, <2>1, <3>1, <4>1 DEF BoundInv
    <3> QED
      BY <1>0, <2>1, <3>1, <3>2 DEF BoundInv
  <2>3. CASE \/ Delete(c) \/ Discard(c) \/ Read(c) \/ Write(c)
             \/ DeleteOriginal(c) \/ Refused(c) \/ Fail(c)
    <3>1. nextId' = nextId /\ \A r \in rows' : r.doc \in GivenDocs \cup 1..MaxCalls
      BY <2>3, OldRows DEF BoundInv, Kin, SameRow
    <3>2. \/ calls' = calls /\ ~Read(c)
          \/ calls' = calls + 1 /\ calls < MaxCalls
      <4>1. CASE Delete(c) \/ Discard(c) \/ Read(c)
        BY <4>1 DEF Delete, Discard, Gone, Read, CanCall
      <4>2. CASE Write(c) \/ DeleteOriginal(c) \/ Refused(c) \/ Fail(c)
        BY <4>2 DEF Write, DeleteOriginal, Refused, Fail, Read, CanCall
      <4> QED
        BY <2>3, <4>1, <4>2
    <3> QED
      BY <1>0, <2>1, <3>1, <3>2 DEF BoundInv
  <2>4. CASE CommitCopy(c) \/ InsertCopy(c)
    <3>1. nextId' = nextId + 1 /\ calls' = calls /\ ~Read(c)
      BY <2>4 DEF CommitCopy, InsertCopy, Read, CanCall
    <3>2. nextId <= MaxCalls
      BY <1>0, <2>1, <2>4 DEF BoundInv
    <3>3. Copy(c).doc \in GivenDocs \cup 1..MaxCalls
      BY <1>0, <2>4, <3>2, CopiedRow DEF BoundInv
    <3>4. ASSUME NEW q \in rows' PROVE q.doc \in GivenDocs \cup 1..MaxCalls
      <4> DEFINE table == rows \cup {Copy(c)}
      <4>1. rows' = table \/ rows' = SoftDeleted(table, job[c].row.doc)
        BY <2>4 DEF CommitCopy, InsertCopy
      <4>2. table \in SUBSET Row /\ \A r \in table : r.doc \in GivenDocs \cup 1..MaxCalls
        BY <1>0, <2>4, <3>3, CopiedRow DEF BoundInv
      <4> HIDE DEF table
      <4>3. \E r \in table : SameRow(q, r)
        BY <4>1, <4>2, SoftDeletedRows, SameRowReflexive
      <4> QED
        BY <4>2, <4>3 DEF SameRow
    <3> QED
      BY <1>0, <2>1, <2>4, <3>1, <3>4 DEF BoundInv
  <2> QED
    BY <1>1, <2>2, <2>3, <2>4 DEF Step
<1>2. CASE UNCHANGED vars
  BY <1>2 DEF vars, BoundInv, Copying
<1> QED
  BY <1>1, <1>2 DEF Next

\* What a reader sees of a row.
Shown(r) == [doc |-> r.doc, locale |-> r.locale, state |-> r.state, val |-> r.val]

Live(table) == {r \in table : ~r.deleted}

LEMMA VisibleShown ==
    /\ Visible = {Shown(r) : r \in Live(rows)}
    /\ Visible' = {Shown(r) : r \in Live(rows')}
BY DEF Visible, Shown, Live

LEMMA SoftDeletedLive ==
    ASSUME NEW table \in SUBSET Row, NEW d
    PROVE  Live(SoftDeleted(table, d)) = {x \in Live(table) : x.doc # d}
<1>1. \A q \in SoftDeleted(table, d) : ~q.deleted => q \in table /\ q.doc # d
  BY SoftDeletedKin
<1>2. \A x \in table : x.doc # d => x \in SoftDeleted(table, d)
  BY SoftDeletedRows
<1> QED
  BY <1>1, <1>2 DEF Live

(* A row that is inserted: a variant its document has not had.             *)
LEMMA InsertAtOnce ==
    ASSUME BoundInv', NEW new \in Row, rows' = rows \cup {new}, ~new.deleted, ~Collides(new)
    PROVE  AtOnce!Create
<1>1. Shown(new) \in AtOnce!Variant
  BY DEF AtOnce!Variant, Shown, Row, States, BoundInv
<1>2. Visible' = Visible \cup {Shown(new)}
  BY DEF Visible, Shown
<1>3. ASSUME NEW w \in AtOnce!Of(Shown(new).doc)
      PROVE  w.locale # Shown(new).locale \/ w.state # Shown(new).state
  BY <1>3 DEF AtOnce!Of, Visible, Shown, Collides
<1> QED
  BY <1>1, <1>2, <1>3 DEF AtOnce!Create

(* A document that goes, whichever call deletes it.                        *)
LEMMA DeleteAtOnce ==
    ASSUME Inv, BoundInv, NEW r \in rows, NEW d, d = r.doc,
           Live(rows') = {x \in Live(rows) : x.doc # d}
    PROVE  AtOnce!Delete
<1>1. d \in GivenDocs \cup 1..MaxCalls
  BY DEF BoundInv
<1>2. Visible' = Visible \ AtOnce!Of(d)
  BY VisibleShown DEF AtOnce!Of, Shown
<1> QED
  BY <1>1, <1>2 DEF AtOnce!Delete

(* A commit of cm_publish or cm_unpublish.                                 *)
LEMMA CommitAtOnce ==
    ASSUME Inv, BoundInv, BoundInv', NEW c \in Clients, CommitCopy(c)
    PROVE  AtOnce!Publish \/ AtOnce!Delete
<1> DEFINE new == Copy(c)
           d == job[c].row.doc
<1>1. /\ pc[c] \in {"publish", "unpublish"}
      /\ rows' = SoftDeleted(rows \cup {new}, d) /\ rows \in SUBSET Row
  BY DEF CommitCopy, Inv, TypeOK
<1>2. /\ new \in Row /\ ~new.deleted
      /\ \E r \in rows : r.doc = d
      /\ pc[c] = "unpublish" => new.doc = d
      /\ pc[c] # "unpublish" => new.doc = nextId /\ d # nextId /\ \A r \in rows : r.doc # nextId
  BY CopiedRow
<1>3. pc[c] = "publish" => new.state = "published"
  <2>1. job[c].row \in Row
    BY <1>1 DEF Inv, HeldInv
  <2> QED
    BY <2>1 DEF Copy, Row
<1> HIDE DEF new, d
<1>4. Live(rows') = {x \in Live(rows \cup {new}) : x.doc # d}
  <2>1. rows \cup {new} \in SUBSET Row
    BY <1>1, <1>2
  <2> QED
    BY <1>1, <2>1, SoftDeletedLive
<1>5. CASE pc[c] = "unpublish"
  <2>1. Live(rows') = {x \in Live(rows) : x.doc # d}
    BY <1>2, <1>4, <1>5 DEF Live
  <2> QED
    BY <1>2, <2>1, DeleteAtOnce
<1>6. CASE pc[c] = "publish"
  <2>1. Live(rows') = {x \in Live(rows) : x.doc # d} \cup {new} /\ new \in rows'
    BY <1>2, <1>4, <1>6 DEF Live
  <2>2. Shown(new) \in AtOnce!Variant
    BY <1>2, <2>1 DEF AtOnce!Variant, Shown, Row, States, BoundInv
  <2>3. Visible' = (Visible \ AtOnce!Of(d)) \cup {Shown(new)}
    BY <2>1, VisibleShown DEF AtOnce!Of, Shown
  <2>4. AtOnce!Of(Shown(new).doc) = {} /\ Shown(new).state = "published"
    BY <1>2, <1>3, <1>6 DEF AtOnce!Of, Visible, Shown
  <2>5. d \in GivenDocs \cup 1..MaxCalls
    BY <1>2 DEF BoundInv
  <2> QED
    BY <2>2, <2>3, <2>4, <2>5 DEF AtOnce!Publish
<1> QED
  BY <1>1, <1>5, <1>6

LEMMA UpdateAtOnce ==
    ASSUME Inv, KeyInv, NEW c \in Clients, Write(c), rows' # rows
    PROVE  AtOnce!Update \/ UNCHANGED Visible
<1>1. PICK v \in Values : rows' = Updated(rows, job[c].row.id, v)
  BY WrittenRows
<1>2. PICK x \in rows : x.id = job[c].row.id
  BY DEF Write, Inv, HeldInv, SameRow
<1> DEFINE y == [x EXCEPT !.val = v]
<1>3. /\ x \in Row /\ y.deleted = x.deleted
      /\ Shown(y) = [Shown(x) EXCEPT !.val = v]
  BY <1>2 DEF Inv, TypeOK, Row, Shown
<1>4. rows' = (rows \ {x}) \cup {y}
  <2>1. \A r \in rows : r.id = x.id <=> r = x
    BY DEF Inv, TypeOK
  <2> QED
    BY <1>1, <1>2, <2>1 DEF Updated
<1> HIDE DEF y
<1>5. Visible' = {Shown(r) : r \in Live(rows')}
  BY DEF Visible, Shown, Live
<1>6. CASE x.deleted
  <2>1. Live(rows') = Live(rows)
    BY <1>3, <1>4, <1>6 DEF Live
  <2> QED
    BY <1>5, <2>1, VisibleShown
<1>7. CASE ~x.deleted
  <2>1. Live(rows') = (Live(rows) \ {x}) \cup {y} /\ x \in Live(rows)
    BY <1>3, <1>4, <1>7 DEF Live
  <2>2. \A r \in Live(rows) : Shown(r) = Shown(x) => r = x
    BY DEF Live, KeyInv, SameKey, Shown
  <2>3. Visible' = (Visible \ {Shown(x)}) \cup {Shown(y)}
    BY <1>5, <2>1, <2>2, VisibleShown
  <2>4. Shown(x) \in Visible
    BY <2>1, VisibleShown
  <2> QED
    BY <1>3, <2>3, <2>4 DEF AtOnce!Update
<1> QED
  BY <1>6, <1>7 DEF Inv, TypeOK, Row

LEMMA StepAtOnce ==
    ASSUME "discard" \notin Calls, Inv, KeyInv, BoundInv, BoundInv', [Next]_vars
    PROVE  [AtOnce!Next]_Visible
<1>1. CASE rows' = rows
  BY <1>1 DEF Visible
<1>2. ASSUME NEW c \in Clients, Step(c), rows' # rows PROVE [AtOnce!Next]_Visible
  <2>1. CASE Create(c)
    BY <1>2, <2>1, CreatedRow, InsertAtOnce DEF AtOnce!Next
  <2>2. CASE Delete(c) \/ DeleteOriginal(c)
    <3>1. PICK r \in rows : rows' = SoftDeleted(rows, r.doc)
      BY <2>2 DEF Delete, Gone, DeleteOriginal, Inv, HeldInv, SameRow
    <3>2. Live(rows') = {x \in Live(rows) : x.doc # r.doc}
      BY <3>1, SoftDeletedLive DEF Inv, TypeOK
    <3> QED
      BY <3>2, DeleteAtOnce DEF AtOnce!Next
  <2>3. CASE Write(c)
    BY <1>2, <2>3, UpdateAtOnce DEF AtOnce!Next
  <2>4. CASE CommitCopy(c)
    BY <2>4, CommitAtOnce DEF AtOnce!Next
  <2>5. CASE InsertCopy(c)
    BY <2>5, CopiedRow, InsertAtOnce DEF AtOnce!Next, InsertCopy
  <2> QED
    BY <1>2, <2>1, <2>2, <2>3, <2>4, <2>5 DEF Step, Discard, CanCall, Read, Refused, Fail
<1> QED
  BY <1>1, <1>2 DEF Next, vars

(* However calls overlap and fail, readers find what they would if every   *)
(* call took effect at once and as a whole, and so each statement of the   *)
(* publish and unpublish steps of workflows.  Discarding a draft is left   *)
(* out: what it does is not what it says.                                  *)
THEOREM CallsAtOnce ==
    ASSUME "discard" \notin Calls
    PROVE  Spec => ImplementsEntries
<1>1. Init => BoundInv /\ AtOnce!Init
  <2>1. Init => Copying = {}
    BY DEF Init, Copying
  <2>2. IsFiniteSet({}) /\ Cardinality({}) = 0
    BY FS_EmptySet
  <2> SUFFICES ASSUME Init PROVE BoundInv /\ AtOnce!Init
    OBVIOUS
  <2>3. IsFiniteSet(Copying) /\ nextId + Cardinality(Copying) = 1
    <3>1. Copying = {} /\ nextId = 1
      BY <2>1 DEF Init
    <3>2. Cardinality(Copying) = 0 /\ IsFiniteSet(Copying)
      BY <2>2, <3>1
    <3> QED
      BY <3>1, <3>2
  <2> QED
    BY <2>3, LifecycleAssumption DEF Init, BoundInv, AtOnce!Init, Visible
<1>2. Inv /\ BoundInv /\ [Next]_vars => BoundInv'
  BY BoundStep
<1>3. Inv /\ KeyInv /\ BoundInv /\ BoundInv' /\ [Next]_vars => [AtOnce!Next]_Visible
  BY StepAtOnce
<1> QED
  BY <1>1, <1>2, <1>3, KeyAlways, PTL DEF Spec, ImplementsEntries, AtOnce!Spec

=============================================================================
