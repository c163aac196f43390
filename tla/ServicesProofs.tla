--------------------------- MODULE ServicesProofs ---------------------------
(***************************************************************************)
(* Proofs about the services of MCServices: saved views and migrations.    *)
(***************************************************************************)
EXTENDS MCServices, FiniteSetTheorems, TLAPS

-----------------------------------------------------------------------------
(* Saved views. *)

LEMMA ViewsConstants ==
    /\ FirstSlug \in Slugs /\ MaxViews \in Nat \ {0}
    /\ Views!Idle \in Views!Call
  BY ServicesAssumption DEF Views!ViewsAssumption, Views!Idle, Views!Call, Views!Ids

LEMMA SameCardinality == \A S : Views!Cardinality(S) = Cardinality(S)
  BY DEF Views!Cardinality, Cardinality, Views!IsFiniteSet, IsFiniteSet

(* What a call does to itself, and what it knows of the others. *)
LEMMA CallSet ==
    ASSUME Views!ViewsTypeOK, NEW c \in Callers, NEW k \in Views!Call, Views!Set(c, k)
    PROVE  /\ call' \in [Callers -> Views!Call] /\ apart' \in BOOLEAN
           /\ call'[c] = k
           /\ \A d \in Callers \ {c} : call'[d] = call[d]
           /\ apart' => apart /\ \A d \in Callers \ {c} : call[d] = Views!Idle
  BY DEF Views!ViewsTypeOK, Views!Set

(* There are finitely many views. *)
LEMMA ViewsFinite ==
    ASSUME Views!ViewsTypeOK
    PROVE  /\ Views!Views \subseteq Views!Ids
           /\ IsFiniteSet(Views!Views) /\ Cardinality(Views!Views) \in Nat
<1>1. Views!Views \subseteq Views!Ids
  BY ViewsConstants DEF Views!ViewsTypeOK, Views!Ids
<1>2. IsFiniteSet(Views!Ids)
  BY FS_Interval, ViewsConstants DEF Views!Ids
<1> QED
  BY <1>1, <1>2, FS_Subset, FS_CardinalityType

(* An order of the views is a sequence of ids. *)
LEMMA OrdersAreSequences ==
    ASSUME Views!ViewsTypeOK
    PROVE  Views!Orders \subseteq Seq(Views!Ids)
<1>1. Views!Views \subseteq Views!Ids /\ Cardinality(Views!Views) \in Nat
  BY ViewsFinite
<1>2. ASSUME NEW n \in Nat, NEW o \in [1 .. n -> Views!Views]
      PROVE  o \in Seq(Views!Ids)
  <2>1. o \in [1 .. n -> Views!Ids]
    BY <1>1
  <2>2. DOMAIN o = 1 .. n /\ Len(o) = n
    BY <2>1
  <2> QED
    BY <2>1, <2>2
<1>3. ASSUME NEW o \in Views!Orders
      PROVE  o \in [1 .. Cardinality(Views!Views) -> Views!Views]
  BY SameCardinality DEF Views!Orders, Views!TupleOf
<1> QED
  BY <1>1, <1>2, <1>3

(* The rows after each statement. *)
LEMMA InsertedRows ==
    ASSUME Views!ViewsTypeOK, last < MaxViews, NEW row \in Views!View, Views!SlugFree(row.slug, 0),
           table' = Views!Inserted(row), last' = last + 1
    PROVE  /\ Views!Views' = Views!Views \cup {last + 1} /\ last + 1 \notin Views!Views
           /\ table'[last + 1] = row
           /\ \A v \in Views!Views : table'[v] = table[v]
           /\ last' \in 0 .. MaxViews /\ Views!Views' \subseteq 1 .. last'
           /\ table' \in [Views!Views' -> Views!View]
           /\ \A v \in Views!Views' : Views!SlugFree(table[v].slug, v)'
<1>1. Views!Views' = Views!Views \cup {last + 1} /\ last + 1 \notin Views!Views
  BY ViewsConstants DEF Views!ViewsTypeOK, Views!Inserted, Views!Views
<1>2. table'[last + 1] = row /\ \A v \in Views!Views : table'[v] = table[v]
  BY <1>1 DEF Views!Inserted
<1>3. last' \in 0 .. MaxViews /\ Views!Views' \subseteq 1 .. last'
  BY <1>1, ViewsConstants DEF Views!ViewsTypeOK
<1>4. table' \in [Views!Views' -> Views!View]
  <2>1. table' = [v \in Views!Views' |-> table'[v]]
    BY <1>1 DEF Views!Inserted
  <2>2. \A v \in Views!Views' : table'[v] \in Views!View
    BY <1>1, <1>2 DEF Views!ViewsTypeOK
  <2> QED
    BY <2>1, <2>2
<1>5. \A v \in Views!Views' : Views!SlugFree(table[v].slug, v)'
  <2>1. \A v \in Views!Views : table[v].slug # row.slug
    BY DEF Views!SlugFree, Views!ViewsTypeOK
  <2>2. \A v, w \in Views!Views' : v # w => table'[w].slug # table'[v].slug
    BY <1>1, <1>2, <2>1 DEF Views!SlugFree, Views!ViewsTypeOK
  <2> QED
    BY <2>2 DEF Views!SlugFree
<1> QED
  BY <1>1, <1>2, <1>3, <1>4, <1>5

(* An update of the table that keeps the rows and their slugs. *)
LEMMA UpdatedRows ==
    ASSUME Views!ViewsTypeOK, table' \in [Views!Views -> Views!View], last' = last,
           \A v \in Views!Views : table'[v].slug = table[v].slug
    PROVE  /\ Views!Views' = Views!Views
           /\ last' \in 0 .. MaxViews /\ Views!Views' \subseteq 1 .. last'
           /\ table' \in [Views!Views' -> Views!View]
           /\ \A v \in Views!Views' : Views!SlugFree(table[v].slug, v)'
<1>1. Views!Views' = Views!Views
  BY DEF Views!Views
<1> QED
  BY <1>1 DEF Views!ViewsTypeOK, Views!SlugFree

LEMMA ClearedRows ==
    ASSUME Views!ViewsTypeOK, table' = Views!Cleared
    PROVE  /\ table' \in [Views!Views -> Views!View]
           /\ \A v \in Views!Views : table'[v] = [table[v] EXCEPT !.default = FALSE]
           /\ \A v \in Views!Views : table'[v].slug = table[v].slug /\ ~table'[v].default
  BY DEF Views!ViewsTypeOK, Views!Cleared, Views!View

LEMMA MarkedRows ==
    ASSUME Views!ViewsTypeOK, NEW id, table' = Views!Marked(id)
    PROVE  /\ table' \in [Views!Views -> Views!View]
           /\ \A v \in Views!Views : /\ table'[v].slug = table[v].slug
                                     /\ table'[v].default <=> table[v].default \/ v = id
<1>1. \A v \in Views!Views : /\ table'[v] = [table[v] EXCEPT !.default = @ \/ v = id]
                              /\ table[v] \in Views!View
  BY DEF Views!ViewsTypeOK, Views!Marked
<1>2. \A v \in Views!Views : /\ table'[v].slug = table[v].slug
                              /\ table'[v].default = (table[v].default \/ v = id)
                              /\ table'[v] \in Views!View
  BY <1>1 DEF Views!View
<1> QED
  BY <1>2 DEF Views!Marked

LEMMA PlacedRows ==
    ASSUME Views!ViewsTypeOK, NEW id, NEW place \in Nat, table' = Views!Placed(id, place)
    PROVE  /\ table' \in [Views!Views -> Views!View]
           /\ \A v \in Views!Views : /\ table'[v].slug = table[v].slug
                                     /\ table'[v].default = table[v].default
  BY DEF Views!ViewsTypeOK, Views!Placed, Views!View

LEMMA RenamedRows ==
    ASSUME Views!ViewsTypeOK, NEW id \in Views!Views, NEW slug \in Slugs, Views!SlugFree(slug, id),
           table' = [table EXCEPT ![id].slug = slug], last' = last
    PROVE  /\ Views!Views' = Views!Views
           /\ last' \in 0 .. MaxViews /\ Views!Views' \subseteq 1 .. last'
           /\ table' \in [Views!Views' -> Views!View]
           /\ \A v \in Views!Views' : Views!SlugFree(table[v].slug, v)'
           /\ \A v \in Views!Views : table'[v].default = table[v].default
<1>1. Views!Views' = Views!Views
  BY DEF Views!ViewsTypeOK, Views!Views
<1>2. table'[id] = [table[id] EXCEPT !.slug = slug] /\ \A v \in Views!Views \ {id} : table'[v] = table[v]
  BY DEF Views!ViewsTypeOK
<1>3. /\ table'[id] \in Views!View /\ table'[id].slug = slug
      /\ table'[id].default = table[id].default
  BY <1>2 DEF Views!ViewsTypeOK, Views!View
<1>4. table' \in [Views!Views' -> Views!View]
  BY <1>1, <1>2, <1>3 DEF Views!ViewsTypeOK
<1> QED
  BY <1>1, <1>2, <1>3, <1>4 DEF Views!ViewsTypeOK, Views!SlugFree

LEMMA RemovedRows ==
    ASSUME Views!ViewsTypeOK, NEW id, table' = Views!Without(id), last' = last
    PROVE  /\ Views!Views' = Views!Views \ {id}
           /\ \A v \in Views!Views' : table'[v] = table[v]
           /\ last' \in 0 .. MaxViews /\ Views!Views' \subseteq 1 .. last'
           /\ table' \in [Views!Views' -> Views!View]
           /\ \A v \in Views!Views' : Views!SlugFree(table[v].slug, v)'
<1>1. Views!Views' = Views!Views \ {id} /\ \A v \in Views!Views' : table'[v] = table[v]
  BY DEF Views!Without, Views!Views
<1>2. table' \in [Views!Views' -> Views!View]
  BY <1>1 DEF Views!ViewsTypeOK, Views!Without
<1>3. last' \in 0 .. MaxViews /\ Views!Views' \subseteq 1 .. last'
  BY <1>1 DEF Views!ViewsTypeOK
<1>4. ASSUME NEW v \in Views!Views' PROVE Views!SlugFree(table[v].slug, v)'
  <2>1. v \in Views!Views /\ table'[v] = table[v] /\ \A w \in Views!Views \ {v} : table[w].slug # table[v].slug
    BY <1>1 DEF Views!ViewsTypeOK, Views!SlugFree
  <2> QED
    BY <1>1, <2>1 DEF Views!SlugFree
<1> QED
  BY <1>1, <1>2, <1>3, <1>4

(* A call in progress keeps the type of the table and of itself. *)
LEMMA ViewsKeepType ==
    Views!ViewsTypeOK /\ [Views!Next]_views => Views!ViewsTypeOK'
<1> SUFFICES ASSUME Views!ViewsTypeOK, [Views!Next]_views
             PROVE  Views!ViewsTypeOK'
  OBVIOUS
<1> DEFINE Rows == /\ last' \in 0 .. MaxViews /\ Views!Views' \subseteq 1 .. last'
                   /\ table' \in [Views!Views' -> Views!View]
                   /\ \A v \in Views!Views' : Views!SlugFree(table[v].slug, v)'
           Calls == call' \in [Callers -> Views!Call] /\ apart' \in BOOLEAN
<1>1. Rows /\ Calls => Views!ViewsTypeOK'
  BY DEF Views!ViewsTypeOK
<1>2. UNCHANGED <<table, last>> => Rows
  BY DEF Views!ViewsTypeOK, Views!Views, Views!SlugFree
<1>3. ASSUME NEW c \in Callers, NEW k \in Views!Call, Views!Set(c, k)
      PROVE  Calls
  BY <1>3, CallSet
<1>4. ASSUME NEW c \in Callers, Views!Done(c)
      PROVE  Calls
  BY <1>3, <1>4, ViewsConstants DEF Views!Done
<1>5. ASSUME NEW c \in Callers
      PROVE  call[c] \in Views!Call
  BY DEF Views!ViewsTypeOK
<1> HIDE DEF Rows, Calls
<1>6. ASSUME UNCHANGED views
      PROVE  Views!ViewsTypeOK'
  <2>1. Calls
    BY <1>6 DEF Calls, views, Views!ViewsTypeOK
  <2> QED
    BY <1>1, <1>2, <1>6, <2>1 DEF views
<1>7. ASSUME NEW c \in Callers, Views!List(c)
      PROVE  Views!ViewsTypeOK'
  <2>1. ASSUME NEW at \in {"counted", "select"}
        PROVE  [Views!Idle EXCEPT !.op = "list", !.at = at] \in Views!Call
    BY ViewsConstants DEF Views!Idle, Views!Call, Views!Ops
  <2> QED
    BY <1>1, <1>2, <1>3, <1>7, <2>1 DEF Views!List
<1>8. ASSUME NEW c \in Callers, Views!EnsureDefault(c)
      PROVE  Views!ViewsTypeOK'
  <2>1. CASE ~Views!SlugFree(FirstSlug, 0)
    BY <1>1, <1>2, <1>4, <1>8, <2>1 DEF Views!EnsureDefault
  <2>2. CASE Views!SlugFree(FirstSlug, 0)
    <3> DEFINE row == [slug |-> FirstSlug, default |-> TRUE, position |-> 0]
    <3>1. row \in Views!View /\ row.slug = FirstSlug
      BY ViewsConstants DEF Views!View
    <3>2. /\ last < MaxViews /\ table' = Views!Inserted(row) /\ last' = last + 1
          /\ Views!Set(c, [call[c] EXCEPT !.at = "select"])
      BY <1>8, <2>2 DEF Views!EnsureDefault
    <3>3. Rows
      BY <2>2, <3>1, <3>2, InsertedRows DEF Rows
    <3>4. [call[c] EXCEPT !.at = "select"] \in Views!Call
      BY <1>5 DEF Views!Call
    <3> QED
      BY <1>1, <1>3, <3>2, <3>3, <3>4
  <2> QED
    BY <2>1, <2>2
<1>9. ASSUME NEW c \in Callers, Views!Select(c) \/ Views!FindDeleted(c) \/ Views!FindNext(c)
      PROVE  Views!ViewsTypeOK'
  <2>1. UNCHANGED <<table, last>>
    BY <1>9 DEF Views!Select, Views!FindDeleted, Views!FindNext
  <2>2. CASE Views!Done(c)
    BY <1>1, <1>2, <1>4, <2>1, <2>2
  <2>3. CASE Views!FindDeleted(c) /\ ~Views!Done(c)
    <3>1. call[c].id \in Views!Views
          /\ Views!Set(c, [call[c] EXCEPT !.at = "found", !.default = table[call[c].id].default])
      BY <2>3 DEF Views!FindDeleted
    <3>2. [call[c] EXCEPT !.at = "found", !.default = table[call[c].id].default] \in Views!Call
      BY <1>5, <3>1 DEF Views!Call, Views!ViewsTypeOK, Views!View
    <3> QED
      BY <1>1, <1>2, <1>3, <2>1, <3>1, <3>2
  <2>4. CASE Views!FindNext(c) /\ ~Views!Done(c)
    <3>1. PICK v \in Views!Views : Views!Set(c, [call[c] EXCEPT !.at = "next", !.id = v])
      BY <2>4 DEF Views!FindNext
    <3>2. v \in 0 .. MaxViews
      BY ViewsConstants DEF Views!ViewsTypeOK
    <3>3. [call[c] EXCEPT !.at = "next", !.id = v] \in Views!Call
      BY <1>5, <3>2 DEF Views!Call
    <3> QED
      BY <1>1, <1>2, <1>3, <2>1, <3>1, <3>3
  <2> QED
    BY <1>9, <2>2, <2>3, <2>4 DEF Views!Select
<1>10. ASSUME NEW c \in Callers, NEW s \in Slugs, NEW v \in Views!Views,
              Views!Duplicate(c, v, s) \/ Views!Delete(c, v) \/ Views!SetDefault(c, v)
       PROVE  Views!ViewsTypeOK'
  <2>1. v \in 0 .. MaxViews
    BY ViewsConstants DEF Views!ViewsTypeOK
  <2>2. /\ [Views!Idle EXCEPT !.op = "duplicate", !.at = "next", !.id = v, !.slug = s] \in Views!Call
        /\ [Views!Idle EXCEPT !.op = "delete", !.at = "counted", !.id = v] \in Views!Call
        /\ [Views!Idle EXCEPT !.op = "default", !.at = "found", !.id = v] \in Views!Call
    BY <2>1, ViewsConstants DEF Views!Idle, Views!Call, Views!Ops
  <2> QED
    BY <1>1, <1>2, <1>3, <1>10, <2>2 DEF Views!Duplicate, Views!Delete, Views!SetDefault
<1>11. ASSUME NEW c \in Callers, NEW s \in Slugs, Views!Create(c, s)
       PROVE  Views!ViewsTypeOK'
  <2>1. ASSUME NEW b \in BOOLEAN
        PROVE  [Views!Idle EXCEPT !.op = "create", !.at = "found", !.slug = s, !.default = b] \in Views!Call
    BY ViewsConstants DEF Views!Idle, Views!Call, Views!Ops
  <2> QED
    BY <1>1, <1>2, <1>3, <1>11, <2>1 DEF Views!Create
<1>12. ASSUME NEW c \in Callers, Views!CreateCopy(c) \/ Views!CountViews(c)
       PROVE  Views!ViewsTypeOK'
  <2>1. ASSUME NEW b \in BOOLEAN
        PROVE  [call[c] EXCEPT !.op = "create", !.at = "found", !.default = b] \in Views!Call
    BY <1>5 DEF Views!Call, Views!Ops
  <2>2. [call[c] EXCEPT !.at = "counted", !.count = Cardinality(Views!Views)] \in Views!Call
    <3>1. Cardinality(Views!Views) \in Nat
      BY ViewsFinite
    <3> QED
      BY <1>5, <3>1 DEF Views!Call
  <2> QED
    BY <1>1, <1>2, <1>3, <1>12, <2>1, <2>2, SameCardinality DEF Views!CreateCopy, Views!CountViews
<1>13. ASSUME NEW c \in Callers, Views!InsertView(c)
       PROVE  Views!ViewsTypeOK'
  <2> DEFINE row == [slug |-> call[c].slug, default |-> call[c].default, position |-> call[c].count]
  <2>1. row \in Views!View /\ row.slug = call[c].slug
    BY <1>5 DEF Views!View, Views!Call
  <2>2. CASE ~Views!SlugFree(call[c].slug, 0)
    BY <1>1, <1>2, <1>4, <1>13, <2>2 DEF Views!InsertView
  <2>3. CASE Views!SlugFree(call[c].slug, 0)
    <3>1. last < MaxViews /\ table' = Views!Inserted(row) /\ last' = last + 1 /\ Views!Done(c)
      BY <1>13, <2>3 DEF Views!InsertView
    <3>2. Rows
      BY <2>1, <2>3, <3>1, InsertedRows DEF Rows
    <3> QED
      BY <1>1, <1>4, <3>1, <3>2
  <2> QED
    BY <2>2, <2>3
<1>14. ASSUME NEW c \in Callers, NEW v \in Views!Views, NEW s \in Slugs, Views!Rename(c, v, s)
       PROVE  Views!ViewsTypeOK'
  BY <1>1, <1>4, <1>14, RenamedRows DEF Views!Rename, Rows
<1>15. ASSUME NEW c \in Callers, Views!DeleteRow(c)
       PROVE  Views!ViewsTypeOK'
  <2>1. Rows
    BY <1>15, RemovedRows DEF Views!DeleteRow, Rows
  <2>2. [call[c] EXCEPT !.at = "deleted"] \in Views!Call
    BY <1>5 DEF Views!Call
  <2> QED
    BY <1>1, <1>3, <1>4, <1>15, <2>1, <2>2 DEF Views!DeleteRow
<1>16. ASSUME NEW c \in Callers, Views!Promote(c) \/ Views!MarkDefault(c)
       PROVE  Views!ViewsTypeOK'
  <2>1. Rows
    BY <1>16, MarkedRows, UpdatedRows DEF Views!Promote, Views!MarkDefault, Rows
  <2> QED
    BY <1>1, <1>4, <1>16, <2>1 DEF Views!Promote, Views!MarkDefault
<1>17. ASSUME NEW c \in Callers, Views!ClearDefaults(c)
       PROVE  Views!ViewsTypeOK'
  <2>1. Rows
    BY <1>17, ClearedRows, UpdatedRows DEF Views!ClearDefaults, Rows
  <2>2. [call[c] EXCEPT !.at = "cleared"] \in Views!Call
    BY <1>5 DEF Views!Call
  <2> QED
    BY <1>1, <1>3, <1>17, <2>1, <2>2 DEF Views!ClearDefaults
<1>18. ASSUME NEW c \in Callers, NEW o \in Views!Orders, Views!Reorder(c, o)
       PROVE  Views!ViewsTypeOK'
  <2>1. [Views!Idle EXCEPT !.op = "reorder", !.at = "next", !.order = o] \in Views!Call
    BY OrdersAreSequences, ViewsConstants DEF Views!Idle, Views!Call, Views!Ops
  <2> QED
    BY <1>1, <1>2, <1>3, <1>18, <2>1 DEF Views!Reorder
<1>19. ASSUME NEW c \in Callers, Views!Place(c)
       PROVE  Views!ViewsTypeOK'
  <2> DEFINE k == call[c].count + 1
  <2>1. call[c].count \in Nat /\ k \in Nat /\ k - 1 \in Nat
    BY <1>5 DEF Views!Call
  <2>2. CASE k > Len(call[c].order)
    <3>1. ASSUME NEW at \in {"counted", "select"}
          PROVE  [Views!Idle EXCEPT !.op = "list", !.at = at] \in Views!Call
      BY ViewsConstants DEF Views!Idle, Views!Call, Views!Ops
    <3> QED
      BY <1>1, <1>2, <1>3, <1>19, <2>2, <3>1 DEF Views!Place
  <2>3. CASE ~(k > Len(call[c].order))
    <3>1. /\ table' = Views!Placed(call[c].order[k], k - 1) /\ last' = last
          /\ Views!Set(c, [call[c] EXCEPT !.count = k]) \/ Views!Done(c)
      BY <1>19, <2>3 DEF Views!Place
    <3>2. Rows
      BY <2>1, <3>1, PlacedRows, UpdatedRows DEF Rows
    <3>3. [call[c] EXCEPT !.count = k] \in Views!Call
      BY <1>5, <2>1 DEF Views!Call
    <3> QED
      BY <1>1, <1>3, <1>4, <3>1, <3>2, <3>3
  <2> QED
    BY <2>2, <2>3
<1>20. ASSUME NEW c \in Callers, Views!CutOff(c)
       PROVE  Views!ViewsTypeOK'
  <2>1. Calls
    BY <1>20, ViewsConstants DEF Calls, Views!CutOff, Views!ViewsTypeOK
  <2> QED
    BY <1>1, <1>2, <1>20, <2>1 DEF Views!CutOff
<1> QED
  BY <1>6, <1>7, <1>8, <1>9, <1>10, <1>11, <1>12, <1>13, <1>14, <1>15, <1>16, <1>17, <1>18, <1>19, <1>20,
     ViewsConstants DEF Views!Next
(* Exactly one default, without its cardinality. *)
LEMMA KeptIsOne ==
    Views!ViewsTypeOK => (Views!Kept <=> (last = 0 \/ \E v \in Views!Views : Views!Defaults = {v}))
<1> SUFFICES ASSUME Views!ViewsTypeOK
             PROVE  Views!Kept <=> (last = 0 \/ \E v \in Views!Views : Views!Defaults = {v})
  OBVIOUS
<1>1. last = 0 => Views!Views = {}
  BY DEF Views!ViewsTypeOK
<1>2. IsFiniteSet(Views!Defaults)
  BY ViewsFinite, FS_Subset DEF Views!Defaults
<1>3. Cardinality(Views!Defaults) = 1 <=> \E v : Views!Defaults = {v}
  BY <1>2, FS_Singleton
<1>4. \A v : Views!Defaults = {v} => v \in Views!Views /\ last # 0
  BY <1>1 DEF Views!Defaults
<1> QED
  BY <1>1, <1>3, <1>4, SameCardinality DEF Views!Kept

(* With more than one view there is another one. *)
LEMMA AnotherView ==
    ASSUME Views!ViewsTypeOK, Views!Cardinality(Views!Views) > 1, NEW v
    PROVE  Views!Views \ {v} # {}
<1> SUFFICES ASSUME Views!Views \subseteq {v} PROVE FALSE
  OBVIOUS
<1>1. Cardinality(Views!Views) <= Cardinality({v}) /\ Cardinality({v}) = 1
  BY FS_Singleton, FS_Subset
<1> QED
  BY <1>1, ViewsFinite, SameCardinality

(* A step that sets its own call keeps the invariant if it keeps what it   *)
(* knows of its own call: while calls are apart the others are idle.       *)
LEMMA ApartKept ==
    ASSUME Views!ViewsTypeOK, Views!ApartInv, NEW c \in Callers, NEW k \in Views!Call, Views!Set(c, k),
           ASSUME Views!Found(c), Views!Kept \/ Views!Owes(c)
           PROVE  Views!Found(c)' /\ (Views!Kept' \/ Views!Owes(c)')
    PROVE  Views!ApartInv'
<1> SUFFICES ASSUME apart' PROVE Views!ApartInv'
  BY DEF Views!ApartInv
<1>1. apart /\ \A d \in Callers \ {c} : call[d] = Views!Idle /\ call'[d] = Views!Idle
  BY CallSet
<1>2. \A d \in Callers \ {c} : ~Views!Owes(d) /\ Views!Found(d)'
  BY <1>1 DEF Views!Owes, Views!At, Views!Idle, Views!Found
<1>3. Views!Found(c) /\ (Views!Kept \/ Views!Owes(c))
  BY <1>1, <1>2 DEF Views!ApartInv
<1>4. Views!Found(c)' /\ (Views!Kept' \/ Views!Owes(c)')
  BY <1>3
<1>5. (\A d \in Callers : Views!Found(d))' /\ (Views!Kept \/ \E d \in Callers : Views!Owes(d))'
  BY <1>2, <1>4
<1>6. (\A d, e \in Callers : call[d] # Views!Idle /\ call[e] # Views!Idle => d = e)'
  BY <1>1
<1> QED
  BY <1>5, <1>6 DEF Views!ApartInv

(* Each step, of a call that runs alone. *)
LEMMA ApartStep ==
    Views!ViewsTypeOK /\ Views!ViewsTypeOK' /\ Views!ApartInv /\ [Views!Next]_views => Views!ApartInv'
<1> SUFFICES ASSUME Views!ViewsTypeOK, Views!ViewsTypeOK', Views!ApartInv, [Views!Next]_views
             PROVE  Views!ApartInv'
  OBVIOUS
<1> DEFINE Rest == last = 0 \/ \E v \in Views!Views : Views!Defaults = {v}
           Good(c) == Views!Found(c) /\ (Rest \/ Views!Owes(c))
           Same == UNCHANGED <<table, last>>
<1>1. (Views!Kept <=> Rest) /\ (Views!Kept' <=> Rest')
  BY KeptIsOne, PTL
<1>2. ASSUME NEW c \in Callers, NEW k, Views!Set(c, k)
      PROVE  k \in Views!Call /\ call'[c] = k /\ call' = [call EXCEPT ![c] = k]
  BY <1>2 DEF Views!Set, Views!ViewsTypeOK
<1>3. ASSUME NEW c \in Callers, NEW k, Views!Set(c, k), Good(c) => Good(c)'
      PROVE  Views!ApartInv'
  BY <1>1, <1>2, <1>3, ApartKept
<1>4. ASSUME NEW c \in Callers, Views!Done(c), Good(c) => Rest'
      PROVE  Views!ApartInv'
  <2>1. Views!Set(c, Views!Idle) /\ call'[c] = Views!Idle
    BY <1>2, <1>4 DEF Views!Done
  <2>2. Views!Found(c)'
    BY <2>1 DEF Views!Found, Views!Owes, Views!At, Views!Idle
  <2> QED
    BY <1>3, <1>4, <2>1, <2>2
<1>5. Same => Views!Views' = Views!Views /\ Views!Defaults' = Views!Defaults /\ (Rest => Rest')
  BY DEF Views!Views, Views!Defaults
<1>6. UNCHANGED views => Views!ApartInv'
  BY DEF views, Views!ApartInv, Views!Found, Views!Owes, Views!Kept, Views!At, Views!Defaults, Views!Views
<1>7. ASSUME NEW c \in Callers, ~Views!Owes(c), Good(c)
      PROVE  Rest
  BY <1>7
<1>8. Rest /\ Views!Views # {} => Views!Defaults # {}
  <2>1. last = 0 => Views!Views = {}
    BY DEF Views!ViewsTypeOK
  <2>2. \A v : Views!Defaults = {v} => Views!Defaults # {}
    OBVIOUS
  <2> QED
    BY <2>1, <2>2
<1>9. ASSUME NEW c \in Callers, Good(c)
      PROVE  Views!Found(c)
  BY <1>9
<1>10. ASSUME NEW c \in Callers, Views!Found(c)', Rest' \/ Views!Owes(c)'
       PROVE  Good(c)'
  BY <1>10
<1>11. Views!Defaults \subseteq Views!Views
  BY DEF Views!Defaults
<1> HIDE DEF Good
<1>12. ASSUME NEW c \in Callers, Views!List(c)
       PROVE  Views!ApartInv'
  <2>1. Views!Set(c, [Views!Idle EXCEPT !.op = "list", !.at = IF Views!Views = {} THEN "counted" ELSE "select"]) /\ Same
    BY <1>12 DEF Views!List
  <2>2. call'[c].op = "list" /\ call'[c].at = (IF Views!Views = {} THEN "counted" ELSE "select")
    <3>1. call'[c] = [Views!Idle EXCEPT !.op = "list", !.at = IF Views!Views = {} THEN "counted" ELSE "select"]
      BY <1>2, <2>1
    <3> QED
      BY <3>1 DEF Views!Idle
  <2>3. ~Views!Owes(c)
    BY <1>12 DEF Views!List, Views!CanCall, Views!Owes, Views!At, Views!Idle
  <2>4. Views!Found(c)'
    BY <1>5, <2>1, <2>2 DEF Views!Found, Views!Owes, Views!At
  <2> QED
    BY <1>3, <1>5, <1>7, <1>10, <2>1, <2>3, <2>4
<1>13. ASSUME NEW c \in Callers, Views!EnsureDefault(c)
       PROVE  Views!ApartInv'
  <2>1. ~Views!Owes(c)
    BY <1>13 DEF Views!EnsureDefault, Views!Owes, Views!At
  <2>2. CASE Views!Done(c) /\ Same
    BY <1>4, <1>5, <1>7, <2>1, <2>2
  <2>3. CASE ~(Views!Done(c) /\ Same)
    <3> DEFINE row == [slug |-> FirstSlug, default |-> TRUE, position |-> 0]
    <3>1. /\ table' = Views!Inserted(row) /\ last' = last + 1 /\ last < MaxViews
          /\ Views!SlugFree(FirstSlug, 0) /\ Views!Set(c, [call[c] EXCEPT !.at = "select"])
      BY <1>13, <2>3 DEF Views!EnsureDefault
    <3>2. row \in Views!View /\ row.slug = FirstSlug /\ row.default
      BY ViewsConstants DEF Views!View
    <3>3. Views!Views' = Views!Views \cup {last + 1} /\ table'[last + 1] = row
      BY <3>1, <3>2, InsertedRows
    <3>4. call'[c].op = "list" /\ call'[c].at = "select"
      BY <1>2, <1>13, <3>1 DEF Views!EnsureDefault, Views!At, Views!Call
    <3>5. ASSUME Good(c) PROVE Good(c)'
      <4>1. Views!Views = {}
        BY <1>9, <1>13, <3>5 DEF Views!EnsureDefault, Views!Found
      <4>2. Views!Views' = {last + 1} /\ Views!Defaults' = {last + 1}
        BY <3>2, <3>3, <4>1 DEF Views!Defaults
      <4>3. Rest'
        BY <4>2
      <4>4. Views!Found(c)'
        BY <3>4 DEF Views!Found, Views!Owes, Views!At
      <4> QED
        BY <1>10, <4>3, <4>4
    <3> QED
      BY <1>3, <3>1, <3>5
  <2> QED
    BY <2>2, <2>3
<1>14. ASSUME NEW c \in Callers, Views!Select(c)
       PROVE  Views!ApartInv'
  <2>1. ~Views!Owes(c) /\ Views!Done(c) /\ Same
    BY <1>14 DEF Views!Select, Views!Owes, Views!At
  <2> QED
    BY <1>4, <1>5, <1>7, <2>1
<1>15. ASSUME NEW c \in Callers, NEW s \in Slugs, Views!Create(c, s)
       PROVE  Views!ApartInv'
  <2> DEFINE k == [Views!Idle EXCEPT !.op = "create", !.at = "found", !.slug = s, !.default = (Views!Defaults = {})]
  <2>1. Views!Set(c, k) /\ Same /\ ~Views!Owes(c)
    BY <1>15 DEF Views!Create, Views!CanCall, Views!Owes, Views!At, Views!Idle
  <2>2. call'[c].op = "create" /\ call'[c].at = "found" /\ call'[c].default = (Views!Defaults = {})
    <3>1. call'[c] = k
      BY <1>2, <2>1
    <3> QED
      BY <3>1 DEF Views!Idle
  <2>3. Views!Found(c)'
    BY <1>5, <2>1, <2>2 DEF Views!Found, Views!Owes, Views!At
  <2> QED
    BY <1>3, <1>5, <1>7, <1>10, <2>1, <2>3
<1>16. ASSUME NEW c \in Callers, NEW s \in Slugs, NEW v \in Views!Views, Views!Duplicate(c, v, s)
       PROVE  Views!ApartInv'
  <2> DEFINE k == [Views!Idle EXCEPT !.op = "duplicate", !.at = "next", !.id = v, !.slug = s]
  <2>1. Views!Set(c, k) /\ Same /\ ~Views!Owes(c)
    BY <1>16 DEF Views!Duplicate, Views!CanCall, Views!Owes, Views!At, Views!Idle
  <2>2. call'[c].op = "duplicate" /\ call'[c].at = "next"
    <3>1. call'[c] = k
      BY <1>2, <2>1
    <3> QED
      BY <3>1 DEF Views!Idle
  <2>3. Views!Found(c)'
    BY <2>2 DEF Views!Found, Views!Owes, Views!At
  <2> QED
    BY <1>3, <1>5, <1>7, <1>10, <2>1, <2>3
<1>17. ASSUME NEW c \in Callers, Views!CreateCopy(c)
       PROVE  Views!ApartInv'
  <2> DEFINE k == [call[c] EXCEPT !.op = "create", !.at = "found", !.default = (Views!Defaults = {})]
  <2>1. Views!Set(c, k) /\ Same /\ ~Views!Owes(c)
    BY <1>17 DEF Views!CreateCopy, Views!Owes, Views!At
  <2>2. call'[c].op = "create" /\ call'[c].at = "found" /\ call'[c].default = (Views!Defaults = {})
    <3>1. call'[c] = k /\ call[c] \in Views!Call
      BY <1>2, <2>1 DEF Views!ViewsTypeOK
    <3> QED
      BY <3>1 DEF Views!Call
  <2>3. Views!Found(c)'
    BY <1>5, <2>1, <2>2 DEF Views!Found, Views!Owes, Views!At
  <2> QED
    BY <1>3, <1>5, <1>7, <1>10, <2>1, <2>3
<1>18. ASSUME NEW c \in Callers, Views!CountViews(c)
       PROVE  Views!ApartInv'
  <2> DEFINE k == [call[c] EXCEPT !.at = "counted", !.count = Views!Cardinality(Views!Views)]
  <2>1. Views!Set(c, k) /\ Same /\ ~Views!Owes(c) /\ call[c].op = "create"
    BY <1>18 DEF Views!CountViews, Views!Owes, Views!At
  <2>2. call'[c].op = "create" /\ call'[c].at = "counted" /\ call'[c].default = call[c].default
    <3>1. call'[c] = k /\ call[c] \in Views!Call
      BY <1>2, <2>1 DEF Views!ViewsTypeOK
    <3> QED
      BY <2>1, <3>1 DEF Views!Call
  <2>3. Good(c) => Views!Found(c)'
    BY <1>5, <1>9, <2>1, <2>2 DEF Views!Found, Views!Owes, Views!At
  <2> QED
    BY <1>3, <1>5, <1>7, <1>10, <2>1, <2>3
<1>19. ASSUME NEW c \in Callers, Views!InsertView(c)
       PROVE  Views!ApartInv'
  <2>1. ~Views!Owes(c) /\ Views!Done(c) /\ call[c].op = "create" /\ call[c] \in Views!Call
    BY <1>19 DEF Views!InsertView, Views!Owes, Views!At, Views!ViewsTypeOK
  <2>2. CASE Same
    BY <1>4, <1>5, <1>7, <2>1, <2>2
  <2>3. CASE ~Same
    <3> DEFINE row == [slug |-> call[c].slug, default |-> call[c].default, position |-> call[c].count]
    <3>1. /\ table' = Views!Inserted(row) /\ last' = last + 1 /\ last < MaxViews
          /\ Views!SlugFree(call[c].slug, 0)
      BY <1>19, <2>3 DEF Views!InsertView
    <3>2. row \in Views!View /\ row.slug = call[c].slug /\ row.default = call[c].default
      BY <2>1 DEF Views!View, Views!Call
    <3>3. /\ Views!Views' = Views!Views \cup {last + 1} /\ table'[last + 1] = row
          /\ last + 1 \notin Views!Views /\ \A v \in Views!Views : table'[v] = table[v]
      BY <3>1, <3>2, InsertedRows
    <3>4. ASSUME Good(c) PROVE Rest'
      <4>1. Rest /\ (call[c].default <=> Views!Defaults = {})
        BY <1>7, <1>9, <2>1, <3>4 DEF Views!Found
      <4>2. CASE call[c].default
        <5>1. Views!Views = {}
          BY <1>8, <4>1, <4>2
        <5>2. Views!Defaults' = {last + 1} /\ last + 1 \in Views!Views'
          BY <3>2, <3>3, <4>2, <5>1 DEF Views!Defaults
        <5> QED
          BY <5>2
      <4>3. CASE ~call[c].default
        <5>1. Views!Views # {} /\ last # 0
          BY <1>11, <4>1, <4>3 DEF Views!ViewsTypeOK
        <5>2. Views!Defaults' = Views!Defaults
          BY <3>2, <3>3, <4>3 DEF Views!Defaults
        <5> QED
          BY <3>3, <4>1, <5>1, <5>2
      <4> QED
        BY <4>2, <4>3
    <3> QED
      BY <1>4, <2>1, <3>4
  <2> QED
    BY <2>2, <2>3
<1>20. ASSUME NEW c \in Callers, NEW v \in Views!Views, NEW s \in Slugs, Views!Rename(c, v, s)
       PROVE  Views!ApartInv'
  <2>1. ~Views!Owes(c) /\ Views!Done(c) /\ last' = last
    BY <1>20 DEF Views!Rename, Views!CanCall, Views!Owes, Views!At, Views!Idle
  <2>2. Views!Views' = Views!Views /\ \A w \in Views!Views : table'[w].default = table[w].default
    BY <1>20, RenamedRows DEF Views!Rename
  <2>3. Views!Defaults' = Views!Defaults
    BY <2>2 DEF Views!Defaults
  <2> QED
    BY <1>4, <1>7, <2>1, <2>2, <2>3
<1>21. ASSUME NEW c \in Callers, NEW v \in Views!Views, Views!Delete(c, v)
       PROVE  Views!ApartInv'
  <2> DEFINE k == [Views!Idle EXCEPT !.op = "delete", !.at = "counted", !.id = v]
  <2>1. Views!Set(c, k) /\ Same /\ ~Views!Owes(c) /\ Views!Cardinality(Views!Views) > 1
    BY <1>21 DEF Views!Delete, Views!CanCall, Views!Owes, Views!At, Views!Idle
  <2>2. call'[c].op = "delete" /\ call'[c].at = "counted"
    <3>1. call'[c] = k
      BY <1>2, <2>1
    <3> QED
      BY <3>1 DEF Views!Idle
  <2>3. Views!Found(c)'
    BY <1>5, <2>1, <2>2 DEF Views!Found, Views!Owes, Views!At
  <2> QED
    BY <1>3, <1>5, <1>7, <1>10, <2>1, <2>3
<1>22. ASSUME NEW c \in Callers, NEW v \in Views!Views, Views!SetDefault(c, v)
       PROVE  Views!ApartInv'
  <2> DEFINE k == [Views!Idle EXCEPT !.op = "default", !.at = "found", !.id = v]
  <2>1. Views!Set(c, k) /\ Same /\ ~Views!Owes(c)
    BY <1>22 DEF Views!SetDefault, Views!CanCall, Views!Owes, Views!At, Views!Idle
  <2>2. call'[c].op = "default" /\ call'[c].at = "found" /\ call'[c].id = v
    <3>1. call'[c] = k
      BY <1>2, <2>1
    <3> QED
      BY <3>1 DEF Views!Idle
  <2>3. Views!Found(c)'
    BY <1>5, <2>1, <2>2 DEF Views!Found, Views!Owes, Views!At
  <2> QED
    BY <1>3, <1>5, <1>7, <1>10, <2>1, <2>3
<1>23. ASSUME NEW c \in Callers, Views!FindDeleted(c)
       PROVE  Views!ApartInv'
  <2>1. Same /\ ~Views!Owes(c) /\ call[c].op = "delete" /\ call[c].at = "counted"
    BY <1>23 DEF Views!FindDeleted, Views!Owes, Views!At
  <2>2. CASE Views!Done(c)
    BY <1>4, <1>5, <1>7, <2>1, <2>2
  <2>3. CASE ~Views!Done(c)
    <3> DEFINE k == [call[c] EXCEPT !.at = "found", !.default = table[call[c].id].default]
    <3>1. call[c].id \in Views!Views /\ Views!Set(c, k)
      BY <1>23, <2>3 DEF Views!FindDeleted
    <3>2. call'[c] = k /\ call[c] \in Views!Call
      BY <1>2, <3>1 DEF Views!ViewsTypeOK
    <3>3. /\ call'[c].op = "delete" /\ call'[c].at = "found" /\ call'[c].id = call[c].id
          /\ call'[c].default = table[call[c].id].default
      BY <2>1, <3>2 DEF Views!Call
    <3>4. table' = table
      BY <2>1
    <3>5. Good(c) => Views!Found(c)'
      BY <1>5, <1>9, <2>1, <3>1, <3>3, <3>4 DEF Views!Found, Views!Owes, Views!At
    <3> QED
      BY <1>3, <1>5, <1>7, <1>10, <2>1, <3>1, <3>5
  <2> QED
    BY <2>2, <2>3
<1>24. ASSUME NEW c \in Callers, Views!DeleteRow(c)
       PROVE  Views!ApartInv'
  <2>1. /\ ~Views!Owes(c) /\ call[c].op = "delete" /\ call[c].at = "found" /\ call[c] \in Views!Call
        /\ table' = Views!Without(call[c].id) /\ last' = last
    BY <1>24 DEF Views!DeleteRow, Views!Owes, Views!At, Views!ViewsTypeOK
  <2>2. Views!Views' = Views!Views \ {call[c].id} /\ \A v \in Views!Views' : table'[v] = table[v]
    BY <2>1, RemovedRows
  <2>3. Views!Defaults' = Views!Defaults \ {call[c].id}
    BY <2>2 DEF Views!Defaults
  <2>4. ASSUME Good(c)
        PROVE  /\ Rest /\ last # 0 /\ Views!Views' # {} /\ call[c].id \in Views!Views
               /\ call[c].default <=> call[c].id \in Views!Defaults
    <3>1. Rest
      BY <1>7, <2>1, <2>4
    <3>2. /\ Views!Cardinality(Views!Views) > 1 /\ call[c].id \in Views!Views
          /\ call[c].default = table[call[c].id].default
      BY <1>9, <2>1, <2>4 DEF Views!Found, Views!At
    <3>3. Views!Views' # {}
      BY <2>2, <3>2, AnotherView
    <3>4. call[c].default <=> call[c].id \in Views!Defaults
      BY <3>2 DEF Views!Defaults
    <3>5. last = 0 => Views!Views = {}
      BY DEF Views!ViewsTypeOK
    <3>6. last # 0
      BY <3>2, <3>5
    <3> QED
      BY <3>1, <3>2, <3>3, <3>4, <3>6
  <2>5. CASE call[c].default
    <3> DEFINE k == [call[c] EXCEPT !.at = "deleted"]
    <3>1. Views!Set(c, k)
      BY <1>24, <2>5 DEF Views!DeleteRow
    <3>2. call'[c] = k
      BY <1>2, <3>1
    <3>3. call'[c].op = "delete" /\ call'[c].at = "deleted"
      BY <2>1, <3>2 DEF Views!Call
    <3>4. ASSUME Good(c) PROVE Views!Defaults' = {} /\ Views!Views' # {}
      <4>1. call[c].id \in Views!Defaults /\ last # 0
        BY <2>4, <2>5, <3>4
      <4>2. PICK v \in Views!Views : Views!Defaults = {v}
        BY <2>4, <3>4, <4>1
      <4> QED
        BY <2>3, <2>4, <3>4, <4>1, <4>2
    <3>5. Good(c) => Views!Found(c)' /\ Views!Owes(c)'
      BY <3>3, <3>4 DEF Views!Found, Views!Owes, Views!At
    <3> QED
      BY <1>3, <1>10, <3>1, <3>5
  <2>6. CASE ~call[c].default
    <3>1. Views!Done(c)
      BY <1>24, <2>6 DEF Views!DeleteRow
    <3>2. ASSUME Good(c) PROVE Rest'
      <4>1. Views!Defaults' = Views!Defaults
        BY <2>3, <2>4, <2>6, <3>2
      <4>2. last' # 0
        BY <2>1, <2>4, <3>2
      <4>3. PICK v \in Views!Views : Views!Defaults = {v}
        BY <2>1, <2>4, <3>2, <4>2
      <4>4. v \in Views!Views'
        BY <2>2, <2>4, <2>6, <3>2, <4>3
      <4> QED
        BY <4>1, <4>3, <4>4
    <3> QED
      BY <1>4, <3>1, <3>2
  <2> QED
    BY <2>5, <2>6
<1>25. ASSUME NEW c \in Callers, Views!FindNext(c)
       PROVE  Views!ApartInv'
  <2>1. Same /\ Views!Owes(c) /\ call[c].op = "delete" /\ call[c].at = "deleted" /\ call[c] \in Views!Call
    BY <1>25 DEF Views!FindNext, Views!Owes, Views!At, Views!ViewsTypeOK
  <2>2. Good(c) => Views!Defaults = {} /\ Views!Views # {}
    BY <1>9, <2>1 DEF Views!Found
  <2>3. CASE \E v \in Views!Views : Views!Set(c, [call[c] EXCEPT !.at = "next", !.id = v])
    <3>1. PICK v \in Views!Views : Views!Set(c, [call[c] EXCEPT !.at = "next", !.id = v])
      BY <2>3
    <3>2. call'[c] = [call[c] EXCEPT !.at = "next", !.id = v]
      BY <1>2, <3>1
    <3>3. call'[c].op = "delete" /\ call'[c].at = "next" /\ call'[c].id = v
      BY <2>1, <3>2 DEF Views!Call
    <3>4. Good(c) => Views!Found(c)' /\ Views!Owes(c)'
      BY <1>5, <2>1, <2>2, <3>3 DEF Views!Found, Views!Owes, Views!At
    <3> QED
      BY <1>3, <1>10, <3>1, <3>4
  <2>4. CASE Views!Views = {} /\ Views!Done(c)
    BY <1>4, <2>2, <2>4
  <2> QED
    BY <1>25, <2>3, <2>4 DEF Views!FindNext
<1>26. ASSUME NEW c \in Callers, Views!Promote(c) \/ Views!MarkDefault(c)
       PROVE  Views!ApartInv'
  <2>1. /\ Views!Owes(c) /\ table' = Views!Marked(call[c].id) /\ last' = last /\ Views!Done(c)
        /\ Views!At(c, "delete", "next") \/ call[c].op = "default"
    BY <1>26 DEF Views!Promote, Views!MarkDefault, Views!Owes, Views!At
  <2>2. Good(c) => Views!Defaults = {} /\ call[c].id \in Views!Views
    BY <1>9, <2>1 DEF Views!Found
  <2>3. /\ table' \in [Views!Views -> Views!View]
        /\ \A v \in Views!Views : table'[v].default <=> table[v].default \/ v = call[c].id
    BY <2>1, MarkedRows
  <2>4. Views!Views' = Views!Views
    BY <2>3 DEF Views!Views
  <2>5. Good(c) => Views!Defaults' = {call[c].id}
    BY <2>2, <2>3, <2>4 DEF Views!Defaults
  <2> QED
    BY <1>4, <2>1, <2>2, <2>4, <2>5
<1>27. ASSUME NEW c \in Callers, Views!ClearDefaults(c)
       PROVE  Views!ApartInv'
  <2> DEFINE k == [call[c] EXCEPT !.at = "cleared"]
  <2>1. /\ table' = Views!Cleared /\ Views!Set(c, k) /\ ~Views!Owes(c) /\ call[c].op = "default"
        /\ call[c] \in Views!Call
    BY <1>27 DEF Views!ClearDefaults, Views!Owes, Views!At, Views!ViewsTypeOK
  <2>2. call'[c] = k
    BY <1>2, <2>1
  <2>3. call'[c].op = "default" /\ call'[c].at = "cleared" /\ call'[c].id = call[c].id
    BY <2>1, <2>2 DEF Views!Call
  <2>4. Views!Views' = Views!Views /\ \A v \in Views!Views : ~table'[v].default
    BY <2>1, ClearedRows DEF Views!Views
  <2>5. Views!Defaults' = {}
    BY <2>4 DEF Views!Defaults
  <2>6. Good(c) => call[c].id \in Views!Views
    BY <1>9, <2>1 DEF Views!Found
  <2>7. Good(c) => Views!Found(c)' /\ Views!Owes(c)'
    BY <2>3, <2>4, <2>5, <2>6 DEF Views!Found, Views!Owes, Views!At
  <2> QED
    BY <1>3, <1>10, <2>1, <2>7
<1>28. ASSUME NEW c \in Callers, NEW o \in Views!Orders, Views!Reorder(c, o)
       PROVE  Views!ApartInv'
  <2> DEFINE k == [Views!Idle EXCEPT !.op = "reorder", !.at = "next", !.order = o]
  <2>1. Views!Set(c, k) /\ Same /\ ~Views!Owes(c)
    BY <1>28 DEF Views!Reorder, Views!CanCall, Views!Owes, Views!At, Views!Idle
  <2>2. call'[c].op = "reorder"
    <3>1. call'[c] = k
      BY <1>2, <2>1
    <3> QED
      BY <3>1 DEF Views!Idle
  <2>3. Views!Found(c)'
    BY <2>2 DEF Views!Found, Views!Owes, Views!At
  <2> QED
    BY <1>3, <1>5, <1>7, <1>10, <2>1, <2>3
<1>29. ASSUME NEW c \in Callers, Views!Place(c)
       PROVE  Views!ApartInv'
  <2> DEFINE n == call[c].count + 1
             list == [Views!Idle EXCEPT !.op = "list", !.at = IF Views!Views = {} THEN "counted" ELSE "select"]
  <2>1. /\ ~Views!Owes(c) /\ call[c].op = "reorder" /\ call[c] \in Views!Call /\ call[c].count \in Nat
        /\ last' = last
    BY <1>29 DEF Views!Place, Views!Owes, Views!At, Views!ViewsTypeOK, Views!Call
  <2>2. CASE n > Len(call[c].order)
    <3>1. Same /\ Views!Set(c, list)
      BY <1>29, <2>2 DEF Views!Place
    <3>2. call'[c] = list
      BY <1>2, <3>1
    <3>3. call'[c].op = "list" /\ call'[c].at = (IF Views!Views = {} THEN "counted" ELSE "select")
      BY <3>2 DEF Views!Idle
    <3>4. Views!Found(c)'
      BY <1>5, <3>1, <3>3 DEF Views!Found, Views!Owes, Views!At
    <3> QED
      BY <1>3, <1>5, <1>7, <1>10, <2>1, <3>1, <3>4
  <2>3. CASE ~(n > Len(call[c].order))
    <3>1. /\ table' = Views!Placed(call[c].order[n], n - 1)
          /\ Views!Set(c, [call[c] EXCEPT !.count = n]) \/ Views!Done(c)
      BY <1>29, <2>3 DEF Views!Place
    <3>2. /\ table' \in [Views!Views -> Views!View]
          /\ \A v \in Views!Views : table'[v].default = table[v].default
      BY <2>1, <3>1, PlacedRows
    <3>3. Views!Views' = Views!Views
      BY <3>2 DEF Views!Views
    <3>4. Views!Defaults' = Views!Defaults
      BY <3>2, <3>3 DEF Views!Defaults
    <3>5. Good(c) => Rest'
      BY <1>7, <2>1, <3>3, <3>4
    <3>6. CASE Views!Done(c)
      BY <1>4, <3>5, <3>6
    <3>7. CASE Views!Set(c, [call[c] EXCEPT !.count = n])
      <4>1. call'[c] = [call[c] EXCEPT !.count = n]
        BY <1>2, <3>7
      <4>2. call'[c].op = "reorder"
        BY <2>1, <4>1 DEF Views!Call
      <4>3. Views!Found(c)'
        BY <4>2 DEF Views!Found, Views!Owes, Views!At
      <4> QED
        BY <1>3, <1>10, <3>5, <3>7, <4>3
    <3> QED
      BY <3>1, <3>6, <3>7
  <2> QED
    BY <2>2, <2>3
<1>30. ASSUME NEW c \in Callers, Views!CutOff(c)
       PROVE  Views!ApartInv'
  BY <1>30 DEF Views!CutOff, Views!ApartInv
<1> QED
  BY <1>6, <1>12, <1>13, <1>14, <1>15, <1>16, <1>17, <1>18, <1>19, <1>20, <1>21, <1>22, <1>23, <1>24, <1>25,
     <1>26, <1>27, <1>28, <1>29, <1>30 DEF Views!Next

(* The type of the views, and what calls that run apart know, always.      *)
LEMMA ViewsAlways == Spec => [](Views!ViewsTypeOK /\ Views!ApartInv)
<1>1. Init => Views!ViewsTypeOK /\ Views!ApartInv
  <2> SUFFICES ASSUME Init PROVE Views!ViewsTypeOK /\ Views!ApartInv
    OBVIOUS
  <2>1. table = <<>> /\ last = 0 /\ call = [c \in Callers |-> Views!Idle] /\ apart = TRUE
    BY DEF Init, Views!Init
  <2>2. Views!Views = {} /\ Views!Kept
    BY <2>1 DEF Views!Views, Views!Kept
  <2>3. table \in [{} -> Views!View]
    BY <2>1
  <2>4. Views!ViewsTypeOK
    BY <2>1, <2>2, <2>3, ViewsConstants DEF Views!ViewsTypeOK
  <2>5. \A c \in Callers : Views!Found(c)
    BY <2>1 DEF Views!Found, Views!Owes, Views!At, Views!Idle
  <2> QED
    BY <2>1, <2>2, <2>4, <2>5 DEF Views!ApartInv
<1>2. Views!ViewsTypeOK /\ Views!ApartInv /\ [Next]_vars => (Views!ViewsTypeOK /\ Views!ApartInv)'
  <2>1. [Next]_vars => [Views!Next]_views
    BY DEF Next, vars
  <2> QED
    BY <2>1, ViewsKeepType, ApartStep
<1> QED
  BY <1>1, <1>2, PTL DEF Spec

(* Calls that neither overlap nor are cut off keep a view, once there is   *)
(* one, and exactly one default, whatever names, orders and views they are *)
(* given (views.rs).                                                       *)
THEOREM OneDefaultKept == Spec => []OneDefault
<1>1. Views!ApartInv => OneDefault
  BY DEF Views!ApartInv, OneDefault, Views!OneDefault, Views!Owes, Views!At, Views!Idle
<1> QED
  BY <1>1, ViewsAlways, PTL

-----------------------------------------------------------------------------
(* The migrations. *)

Names == {"init", "dev_admin", "rbac", "workflow", "presets", "ai", "ai_privacy", "views"}

(* A list of statements that the statements before them allow. *)
Plain(s) == s.does = "table" /\ s.on # "content_type_views"
Sound(list) ==
    /\ list \in Seq(Migrate!Range(list))
    /\ \A i \in 1 .. Len(list) :
          \/ Plain(list[i])
          \/ list[i].does \in {"index", "unique"} /\ \E j \in 1 .. i - 1 : list[j] = Migrate!Table(list[i].on)

LEMMA OrderIsNames ==
    /\ Migrate!Range(Migrate!Order) = Names
    /\ DOMAIN Migrate!Order = 1 .. 8
  BY DEF Migrate!Range, Migrate!Order, Names

LEMMA SoundSchemas == Sound(Migrate!InitSchemas)
  BY DEF Sound, Plain, Migrate!InitSchemas, Migrate!Table, Migrate!Index, Migrate!UniqueIndex, Migrate!Range
LEMMA SoundAdmin == Sound(Migrate!InitAdmin)
  BY DEF Sound, Plain, Migrate!InitAdmin, Migrate!Table, Migrate!Index, Migrate!UniqueIndex, Migrate!Range

LEMMA SoundBoth ==
    ASSUME NEW p, NEW q, Sound(p), Sound(q)
    PROVE  /\ Sound(p \o q)
           /\ Len(p \o q) = Len(p) + Len(q) /\ Len(p) \in Nat /\ Len(q) \in Nat
           /\ \A i \in 1 .. Len(p) : (p \o q)[i] = p[i]
           /\ \A i \in 1 .. Len(q) : (p \o q)[Len(p) + i] = q[i]
<1> DEFINE S == Migrate!Range(p) \cup Migrate!Range(q)
           both == p \o q
<1>1. p \in Seq(S) /\ q \in Seq(S)
  BY DEF Sound
<1> HIDE DEF S
<1>2. Len(p) \in Nat /\ Len(q) \in Nat /\ both \in Seq(S) /\ Len(both) = Len(p) + Len(q)
  BY <1>1
<1>3. \A i \in 1 .. Len(p) : both[i] = p[i]
  BY <1>1
<1>4. \A i \in 1 .. Len(q) : both[Len(p) + i] = q[i]
  BY <1>1
<1> HIDE DEF both
<1>5. both \in Seq(Migrate!Range(both))
  <2>1. both \in [1 .. Len(both) -> S] /\ DOMAIN both = 1 .. Len(both)
    BY <1>2
  <2>2. both \in [1 .. Len(both) -> Migrate!Range(both)]
    BY <2>1 DEF Migrate!Range
  <2>3. Len(both) \in Nat
    BY <1>2
  <2> QED
    BY <2>2, <2>3
<1>6. ASSUME NEW i \in 1 .. Len(both)
      PROVE  \/ Plain(both[i])
             \/ both[i].does \in {"index", "unique"} /\ \E j \in 1 .. i - 1 : both[j] = Migrate!Table(both[i].on)
  <2>1. CASE i \in 1 .. Len(p)
    <3>1. \/ Plain(p[i])
          \/ p[i].does \in {"index", "unique"} /\ \E j \in 1 .. i - 1 : p[j] = Migrate!Table(p[i].on)
      BY <2>1 DEF Sound
    <3>2. both[i] = p[i] /\ \A j \in 1 .. i - 1 : both[j] = p[j]
      BY <1>2, <1>3, <2>1
    <3> QED
      BY <3>1, <3>2
  <2>2. CASE i \notin 1 .. Len(p)
    <3>1. PICK k \in 1 .. Len(q) : i = Len(p) + k
      <4>1. i - Len(p) \in 1 .. Len(q) /\ i = Len(p) + (i - Len(p))
        BY <1>2, <2>2
      <4> QED
        BY <4>1
    <3>2. \/ Plain(q[k])
          \/ q[k].does \in {"index", "unique"} /\ \E j \in 1 .. k - 1 : q[j] = Migrate!Table(q[k].on)
      BY DEF Sound
    <3>3. both[i] = q[k]
      BY <1>4, <3>1
    <3>4. ASSUME NEW j \in 1 .. k - 1
          PROVE  Len(p) + j \in 1 .. i - 1 /\ both[Len(p) + j] = q[j]
      BY <1>2, <1>4, <3>1
    <3> QED
      BY <3>2, <3>3, <3>4
  <2> QED
    BY <2>1, <2>2
<1> QED
  BY <1>2, <1>3, <1>4, <1>5, <1>6 DEF Sound, both
LEMMA SoundUploads == Sound(Migrate!InitUploads)
  BY DEF Sound, Plain, Migrate!InitUploads, Migrate!Table, Migrate!Index, Migrate!UniqueIndex, Migrate!Range
LEMMA SoundRest == Sound(Migrate!InitRest)
  BY DEF Sound, Plain, Migrate!InitRest, Migrate!Table, Migrate!Index, Migrate!UniqueIndex, Migrate!Range
LEMMA SoundWorkflow == Sound(Migrate!Workflow)
  BY DEF Sound, Plain, Migrate!Workflow, Migrate!Table, Migrate!Index, Migrate!UniqueIndex, Migrate!Range
LEMMA SoundPresets == Sound(Migrate!Presets)
  BY DEF Sound, Plain, Migrate!Presets, Migrate!Table, Migrate!Index, Migrate!UniqueIndex, Migrate!Range
LEMMA SoundAi == Sound(Migrate!Ai)
  BY DEF Sound, Plain, Migrate!Ai, Migrate!Table, Migrate!Index, Migrate!UniqueIndex, Migrate!Range

(* What two lists join has the statements of both. *)
LEMMA JoinedRange ==
    ASSUME NEW p, NEW q, Sound(p), Sound(q)
    PROVE  Migrate!Range(p) \cup Migrate!Range(q) \subseteq Migrate!Range(p \o q)
<1> DEFINE both == p \o q
<1>1. DOMAIN p = 1 .. Len(p) /\ DOMAIN q = 1 .. Len(q)
  BY DEF Sound
<1>2. /\ Sound(both) /\ Len(both) = Len(p) + Len(q) /\ Len(p) \in Nat /\ Len(q) \in Nat
      /\ \A i \in 1 .. Len(p) : both[i] = p[i]
      /\ \A i \in 1 .. Len(q) : both[Len(p) + i] = q[i]
  BY SoundBoth
<1> HIDE DEF both
<1>3. DOMAIN both = 1 .. Len(both)
  BY <1>2 DEF Sound
<1>4. \A i \in 1 .. Len(p) : i \in DOMAIN both
  BY <1>2, <1>3
<1>5. \A i \in 1 .. Len(q) : Len(p) + i \in DOMAIN both
  BY <1>2, <1>3
<1>6. Migrate!Range(p) \subseteq Migrate!Range(both)
  BY <1>1, <1>2, <1>4 DEF Migrate!Range
<1>7. Migrate!Range(q) \subseteq Migrate!Range(both)
  BY <1>1, <1>2, <1>5 DEF Migrate!Range
<1> QED
  BY <1>6, <1>7 DEF both

(* The first migration, and the tables that others speak of. *)
LEMMA SoundInit ==
    /\ Sound(Migrate!Statements["init"])
    /\ {Migrate!Table("content_type_schemas"), Migrate!UniqueIndex("content_type_schemas", <<"uid">>),
        Migrate!Table("admin_user"), Migrate!Table("admin_role"), Migrate!Table("admin_user_role")}
          \subseteq Migrate!Range(Migrate!Statements["init"])
<1> DEFINE p == Migrate!InitSchemas \o Migrate!InitAdmin
           q == p \o Migrate!InitUploads
           r == q \o Migrate!InitRest
<1>1. Sound(p) /\ Migrate!Range(Migrate!InitSchemas) \cup Migrate!Range(Migrate!InitAdmin) \subseteq Migrate!Range(p)
  BY SoundSchemas, SoundAdmin, SoundBoth, JoinedRange
<1> HIDE DEF p
<1>2. Sound(q) /\ Migrate!Range(p) \subseteq Migrate!Range(q)
  BY <1>1, SoundUploads, SoundBoth, JoinedRange
<1> HIDE DEF q
<1>3. Sound(r) /\ Migrate!Range(q) \subseteq Migrate!Range(r)
  BY <1>2, SoundRest, SoundBoth, JoinedRange
<1>4. Migrate!Statements["init"] = r
  BY DEF Migrate!Statements, p, q, r
<1> HIDE DEF r
<1>5. /\ Migrate!InitSchemas[1] = Migrate!Table("content_type_schemas")
      /\ Migrate!InitSchemas[2] = Migrate!UniqueIndex("content_type_schemas", <<"uid">>)
      /\ {1, 2} \subseteq DOMAIN Migrate!InitSchemas
  BY DEF Migrate!InitSchemas
<1>6. /\ Migrate!InitAdmin[1] = Migrate!Table("admin_user") /\ Migrate!InitAdmin[3] = Migrate!Table("admin_role")
      /\ Migrate!InitAdmin[8] = Migrate!Table("admin_user_role")
      /\ {1, 3, 8} \subseteq DOMAIN Migrate!InitAdmin
  BY DEF Migrate!InitAdmin
<1>7. {Migrate!Table("content_type_schemas"), Migrate!UniqueIndex("content_type_schemas", <<"uid">>)}
        \subseteq Migrate!Range(Migrate!InitSchemas)
  BY <1>5 DEF Migrate!Range
<1>8. {Migrate!Table("admin_user"), Migrate!Table("admin_role"), Migrate!Table("admin_user_role")}
        \subseteq Migrate!Range(Migrate!InitAdmin)
  BY <1>6 DEF Migrate!Range
<1> QED
  BY <1>1, <1>2, <1>3, <1>4, <1>7, <1>8

(* What every statement needs is made before it. *)
Before(m, i) ==
    {s \in {Migrate!Statements[m][j] : j \in 1 .. i - 1} : s.does \in Migrate!Makes}
      \cup Migrate!Creates(IF m = "ai_privacy" THEN {"ai"} ELSE IF m = "init" THEN {} ELSE {"init"})
Placed(m, i) ==
    LET s == Migrate!Statements[m][i] IN
    /\ Migrate!Needs(s) \subseteq Before(m, i)
    /\ s.does = "column" => m = "ai_privacy" /\ i = 1 /\ s = Migrate!Column("ai_conversation", "privacy_mode")
    /\ s.does = "external" => /\ m = "rbac" /\ s \in Migrate!Range(Migrate!Rbac)
                              /\ \A j \in 1 .. i - 1 : Migrate!Statements[m][j] # s
    /\ s.does \in Migrate!Makes <=> m # "dev_admin"

LEMMA NeedsOf ==
    ASSUME NEW s
    PROVE  /\ s.does \in {"index", "unique", "column"} => Migrate!Needs(s) = {Migrate!Table(s.on)}
           /\ s.does \in {"count_users", "insert_role", "insert_user", "link_user"} =>
                Migrate!Needs(s) = {Migrate!Table("admin_user"), Migrate!Table("admin_role"), Migrate!Table("admin_user_role")}
           /\ s.does = "external" \/ Plain(s) => Migrate!Needs(s) = {}
           /\ s = Migrate!Table("content_type_views") => s.does = "table"
<1>1. s = Migrate!Table("content_type_views") => s.does = "table" /\ s.on = "content_type_views"
  BY DEF Migrate!Table
<1>2. ASSUME s.does \in {"index", "unique", "column"} PROVE Migrate!Needs(s) = {Migrate!Table(s.on)}
  <2>1. s # Migrate!Table("content_type_views")
    BY <1>1, <1>2
  <2> QED
    BY <1>2, <2>1 DEF Migrate!Needs
<1>3. ASSUME s.does \in {"count_users", "insert_role", "insert_user", "link_user"}
      PROVE  Migrate!Needs(s) = {Migrate!Table("admin_user"), Migrate!Table("admin_role"), Migrate!Table("admin_user_role")}
  <2>1. s # Migrate!Table("content_type_views")
    BY <1>1, <1>3
  <2> QED
    BY <1>3, <2>1 DEF Migrate!Needs
<1>4. ASSUME s.does = "external" \/ Plain(s) PROVE Migrate!Needs(s) = {}
  <2>1. s # Migrate!Table("content_type_views")
    BY <1>1, <1>4 DEF Plain
  <2> QED
    BY <1>4, <2>1 DEF Migrate!Needs, Plain
<1> QED
  BY <1>1, <1>2, <1>3, <1>4

LEMMA SoundIsPlaced ==
    ASSUME NEW m \in Names, Sound(Migrate!Statements[m]), NEW i \in 1 .. Len(Migrate!Statements[m])
    PROVE  m # "dev_admin" => Placed(m, i)
<1> DEFINE q == Migrate!Statements[m]
           s == q[i]
<1>1. \/ Plain(s)
      \/ s.does \in {"index", "unique"} /\ \E j \in 1 .. i - 1 : q[j] = Migrate!Table(s.on)
  BY DEF Sound
<1>2. CASE Plain(s)
  <2>1. Migrate!Needs(s) = {}
    BY <1>2, NeedsOf
  <2> QED
    BY <1>2, <2>1 DEF Placed, Plain, Migrate!Makes
<1>3. CASE s.does \in {"index", "unique"} /\ \E j \in 1 .. i - 1 : q[j] = Migrate!Table(s.on)
  <2>1. Migrate!Needs(s) = {Migrate!Table(s.on)}
    BY <1>3, NeedsOf
  <2>2. Migrate!Table(s.on).does \in Migrate!Makes
    BY DEF Migrate!Table, Migrate!Makes
  <2>3. Migrate!Needs(s) \subseteq Before(m, i)
    BY <1>3, <2>1, <2>2 DEF Before
  <2> QED
    BY <1>3, <2>3 DEF Placed, Migrate!Makes
<1> QED
  BY <1>1, <1>2, <1>3

LEMMA AllPlaced ==
    ASSUME NEW m \in Names
    PROVE  /\ Len(Migrate!Statements[m]) \in Nat
           /\ DOMAIN Migrate!Statements[m] = 1 .. Len(Migrate!Statements[m])
           /\ \A i \in 1 .. Len(Migrate!Statements[m]) : Placed(m, i)
<1> DEFINE q == Migrate!Statements[m]
           Goal == Len(q) \in Nat /\ DOMAIN q = 1 .. Len(q) /\ \A i \in 1 .. Len(q) : Placed(m, i)
<1>1. Sound(q) => Len(q) \in Nat /\ DOMAIN q = 1 .. Len(q)
  BY DEF Sound
<1>2. m # "dev_admin" /\ Sound(q) => Goal
  BY <1>1, SoundIsPlaced
<1>3. CASE m \in {"init", "workflow", "presets", "ai"}
  <2>1. m = "init" => Sound(q)
    BY SoundInit
  <2>2. m = "workflow" => Sound(q)
    BY SoundWorkflow DEF Migrate!Statements
  <2>3. m = "presets" => Sound(q)
    BY SoundPresets DEF Migrate!Statements
  <2>4. m = "ai" => Sound(q)
    BY SoundAi DEF Migrate!Statements
  <2> QED
    BY <1>2, <1>3, <2>1, <2>2, <2>3, <2>4
<1>4. Migrate!Range(Migrate!Statements["init"]) \cap {s \in Migrate!Range(Migrate!Statements["init"]) : s.does \in Migrate!Makes}
         \subseteq Migrate!Creates({"init"})
  BY DEF Migrate!Creates
<1>5. {Migrate!Table("content_type_schemas"), Migrate!UniqueIndex("content_type_schemas", <<"uid">>),
        Migrate!Table("admin_user"), Migrate!Table("admin_role"), Migrate!Table("admin_user_role")}
        \subseteq Migrate!Creates({"init"})
  <2>1. ASSUME NEW t PROVE Migrate!Table(t).does \in Migrate!Makes /\ Migrate!UniqueIndex(t, <<"uid">>).does \in Migrate!Makes
    BY DEF Migrate!Table, Migrate!UniqueIndex, Migrate!Makes
  <2> QED
    BY <1>4, <2>1, SoundInit
<1>6. CASE m = "dev_admin"
  <2>1. q = Migrate!DevAdmin
    BY <1>6 DEF Migrate!Statements
  <2>2. \A i \in 1 .. 4 : q[i].does \in {"count_users", "insert_role", "insert_user", "link_user"}
    <3>1. /\ q[1] = Migrate!Do("count_users") /\ q[2] = Migrate!Do("insert_role")
          /\ q[3] = Migrate!Do("insert_user") /\ q[4] = Migrate!Do("link_user")
      BY <2>1 DEF Migrate!DevAdmin
    <3>2. /\ q[1].does = "count_users" /\ q[2].does = "insert_role"
          /\ q[3].does = "insert_user" /\ q[4].does = "link_user"
      BY <3>1 DEF Migrate!Do
    <3> QED
      BY <3>2
  <2>3. ASSUME NEW i \in 1 .. 4
        PROVE  Migrate!Needs(q[i]) = {Migrate!Table("admin_user"), Migrate!Table("admin_role"), Migrate!Table("admin_user_role")}
    BY <2>2, NeedsOf
  <2>4. ASSUME NEW i \in 1 .. 4
        PROVE  Placed(m, i)
    <3>1. Migrate!Needs(q[i]) \subseteq Before(m, i)
      BY <1>5, <1>6, <2>3 DEF Before
    <3> QED
      BY <1>6, <2>2, <3>1 DEF Placed, Migrate!Makes
  <2> QED
    <3>1. Len(q) = 4 /\ DOMAIN q = 1 .. 4
      BY <2>1 DEF Migrate!DevAdmin
    <3> QED
      BY <2>4, <3>1
<1>7. CASE m = "rbac"
  <2>1. q = Migrate!Rbac /\ Len(q) = 2 /\ DOMAIN q = 1 .. 2
    BY <1>7 DEF Migrate!Statements, Migrate!Rbac
  <2>2. q[1] # q[2] /\ \A i \in 1 .. 2 : q[i].does = "external"
    BY <2>1 DEF Migrate!Rbac, Migrate!Table
  <2>3. ASSUME NEW i \in 1 .. 2
        PROVE  Migrate!Needs(q[i]) = {}
    BY <2>2, NeedsOf
  <2>4. ASSUME NEW i \in 1 .. 2
        PROVE  Placed(m, i)
    <3>1. q[i] \in Migrate!Range(Migrate!Rbac)
      BY <2>1 DEF Migrate!Range
    <3>2. \A j \in 1 .. i - 1 : q[j] # q[i]
      BY <2>2
    <3> QED
      BY <1>7, <2>2, <2>3, <3>1, <3>2 DEF Placed, Migrate!Makes
  <2> QED
    BY <2>1, <2>4
<1>8. CASE m = "ai_privacy"
  <2>1. q = <<Migrate!Column("ai_conversation", "privacy_mode")>> /\ Len(q) = 1 /\ DOMAIN q = 1 .. 1
    BY <1>8 DEF Migrate!Statements, Migrate!AiPrivacy
  <2>2. q[1] = Migrate!Column("ai_conversation", "privacy_mode")
    BY <2>1
  <2>3. q[1].does = "column" /\ Migrate!Needs(q[1]) = {Migrate!Table("ai_conversation")}
    <3>1. q[1].does = "column" /\ q[1].on = "ai_conversation"
      BY <2>2 DEF Migrate!Column
    <3> QED
      BY <3>1, NeedsOf
  <2>4. Migrate!Table("ai_conversation") \in Migrate!Creates({"ai"})
    <3>1. Migrate!Ai[4] = Migrate!Table("ai_conversation") /\ 4 \in DOMAIN Migrate!Ai
      BY DEF Migrate!Ai
    <3>2. Migrate!Table("ai_conversation") \in Migrate!Range(Migrate!Statements["ai"])
      BY <3>1 DEF Migrate!Range, Migrate!Statements
    <3>3. Migrate!Table("ai_conversation").does \in Migrate!Makes
      BY DEF Migrate!Table, Migrate!Makes
    <3> QED
      BY <3>2, <3>3 DEF Migrate!Creates
  <2>5. Placed(m, 1)
    BY <1>8, <2>2, <2>3, <2>4 DEF Placed, Before, Migrate!Makes
  <2> QED
    BY <2>1, <2>5
<1>9. CASE m = "views"
  <2>1. q = Migrate!Views /\ Len(q) = 3 /\ DOMAIN q = 1 .. 3
    BY <1>9 DEF Migrate!Statements, Migrate!Views
  <2>2. /\ q[1] = Migrate!Table("content_type_views")
        /\ q[2].does = "index" /\ q[2].on = "content_type_views"
        /\ q[3].does = "unique" /\ q[3].on = "content_type_views"
    BY <2>1 DEF Migrate!Views, Migrate!Index, Migrate!UniqueIndex
  <2>3. q[1].does = "table"
    BY <2>2 DEF Migrate!Table
  <2>4. Migrate!Needs(q[1]) = {Migrate!Table("content_type_schemas"), Migrate!UniqueIndex("content_type_schemas", <<"uid">>)}
    BY <2>2, <2>3 DEF Migrate!Needs
  <2>5. Migrate!Needs(q[2]) = {q[1]} /\ Migrate!Needs(q[3]) = {q[1]}
    BY <2>2, NeedsOf
  <2>6. q[1] \in Before(m, 2) /\ q[1] \in Before(m, 3)
    BY <2>3 DEF Before, Migrate!Makes
  <2>7. Placed(m, 1)
    BY <1>5, <1>9, <2>3, <2>4 DEF Placed, Before, Migrate!Makes
  <2>8. Placed(m, 2) /\ Placed(m, 3)
    BY <1>9, <2>2, <2>5, <2>6 DEF Placed, Migrate!Makes
  <2> QED
    BY <2>1, <2>7, <2>8
<1> QED
  BY <1>3, <1>6, <1>7, <1>8, <1>9 DEF Names
(* What a set of migrations creates. *)
LEMMA Created ==
    ASSUME NEW S
    PROVE  /\ \A s : s \in Migrate!Creates(S) <=>
                s.does \in Migrate!Makes /\ \E m \in S : s \in Migrate!Range(Migrate!Statements[m])
           /\ \A T \in SUBSET S : Migrate!Creates(T) \subseteq Migrate!Creates(S)
  BY DEF Migrate!Creates

LEMMA Places ==
    /\ Migrate!Place("init") = 1 /\ Migrate!Place("dev_admin") = 2 /\ Migrate!Place("rbac") = 3
    /\ Migrate!Place("workflow") = 4 /\ Migrate!Place("presets") = 5 /\ Migrate!Place("ai") = 6
    /\ Migrate!Place("ai_privacy") = 7 /\ Migrate!Place("views") = 8
<1>1. ASSUME NEW k \in 1 .. 8
      PROVE  Migrate!Place(Migrate!Order[k]) = k
  <2>1. \A j \in 1 .. 8 : Migrate!Order[j] = Migrate!Order[k] => j = k
    BY DEF Migrate!Order
  <2> QED
    BY <2>1, OrderIsNames DEF Migrate!Place
<1>2. /\ Migrate!Order[1] = "init" /\ Migrate!Order[2] = "dev_admin" /\ Migrate!Order[3] = "rbac"
      /\ Migrate!Order[4] = "workflow" /\ Migrate!Order[5] = "presets" /\ Migrate!Order[6] = "ai"
      /\ Migrate!Order[7] = "ai_privacy" /\ Migrate!Order[8] = "views"
  BY DEF Migrate!Order
<1>3. {1, 2, 3, 4, 5, 6, 7, 8} = 1 .. 8
  OBVIOUS
<1> QED
  BY <1>1, <1>2, <1>3

(* The migration that is run comes before those that are still to run. *)
LEMMA FirstIsFirst ==
    ASSUME pending \subseteq Names, pending # {}
    PROVE  /\ Migrate!First \in pending
           /\ "init" \in pending => Migrate!First = "init"
           /\ Migrate!First = "ai_privacy" => "ai" \notin pending
<1>1. \E m \in pending : \A n \in pending : Migrate!Place(m) <= Migrate!Place(n)
  <2> DEFINE Least(m) == m \in pending /\ \A n \in pending : Migrate!Place(m) <= Migrate!Place(n)
  <2>1. ASSUME "init" \in pending PROVE Least("init")
    BY <2>1, Places DEF Names
  <2>2. ASSUME "dev_admin" \in pending, pending \cap {"init"} = {} PROVE Least("dev_admin")
    BY <2>2, Places DEF Names
  <2>3. ASSUME "rbac" \in pending, pending \cap {"init", "dev_admin"} = {} PROVE Least("rbac")
    BY <2>3, Places DEF Names
  <2>4. ASSUME "workflow" \in pending, pending \cap {"init", "dev_admin", "rbac"} = {} PROVE Least("workflow")
    BY <2>4, Places DEF Names
  <2>5. ASSUME "presets" \in pending, pending \cap {"init", "dev_admin", "rbac", "workflow"} = {} PROVE Least("presets")
    BY <2>5, Places DEF Names
  <2>6. ASSUME "ai" \in pending, pending \cap {"init", "dev_admin", "rbac", "workflow", "presets"} = {} PROVE Least("ai")
    BY <2>6, Places DEF Names
  <2>7. ASSUME "ai_privacy" \in pending, pending \cap {"init", "dev_admin", "rbac", "workflow", "presets", "ai"} = {} PROVE Least("ai_privacy")
    BY <2>7, Places DEF Names
  <2>8. ASSUME "views" \in pending, pending \cap {"init", "dev_admin", "rbac", "workflow", "presets", "ai", "ai_privacy"} = {} PROVE Least("views")
    BY <2>8, Places DEF Names
  <2> HIDE DEF Least
  <2>9. \E m \in Names : Least(m)
    BY <2>1, <2>2, <2>3, <2>4, <2>5, <2>6, <2>7, <2>8 DEF Names
  <2> QED
    BY <2>9 DEF Least
<1>2. Migrate!First \in pending /\ \A n \in pending : Migrate!Place(Migrate!First) <= Migrate!Place(n)
  BY <1>1 DEF Migrate!First
<1> QED
  BY <1>2, Places DEF Names
(* While a start runs a migration, what its next statement needs is there. *)
LEMMA Ready ==
    ASSUME Migrate!MigrationInv, Migrate!Running
    PROVE  /\ Migrate!First \in Names /\ Migrate!First \notin recorded /\ Migrate!First \in pending
           /\ Migrate!First # "init" => "init" \in recorded
           /\ Migrate!First = "ai_privacy" => "ai" \in recorded
           /\ Len(Migrate!Todo) \in Nat /\ step \in 1 .. Len(Migrate!Todo) + 1
           /\ \A i \in 1 .. Len(Migrate!Todo) : Placed(Migrate!First, i)
           /\ step <= Len(Migrate!Todo) => Migrate!Needs(Migrate!Todo[step]) \subseteq objects
<1>1. pending = Names \ recorded /\ pending # {}
  BY OrderIsNames DEF Migrate!MigrationInv, Migrate!Running
<1>2. Migrate!First \in pending /\ ("init" \in pending => Migrate!First = "init")
        /\ (Migrate!First = "ai_privacy" => "ai" \notin pending)
  BY <1>1, FirstIsFirst
<1>3. /\ Migrate!First \in Names /\ Migrate!First \notin recorded
      /\ Migrate!First # "init" => "init" \in recorded
      /\ Migrate!First = "ai_privacy" => "ai" \in recorded
  BY <1>1, <1>2 DEF Names
<1>4. /\ Len(Migrate!Todo) \in Nat
      /\ \A i \in 1 .. Len(Migrate!Todo) : Placed(Migrate!First, i)
  BY <1>3, AllPlaced DEF Migrate!Todo
<1>5. step \in 1 .. Len(Migrate!Todo) + 1 /\ Migrate!Run(step - 1) \subseteq objects
  BY DEF Migrate!MigrationInv
<1>6. Migrate!Creates(recorded) \subseteq objects
  BY DEF Migrate!MigrationInv
<1>7. ASSUME step <= Len(Migrate!Todo)
      PROVE  Migrate!Needs(Migrate!Todo[step]) \subseteq objects
  <2>1. step \in 1 .. Len(Migrate!Todo)
    BY <1>4, <1>5, <1>7
  <2>2. Migrate!Needs(Migrate!Todo[step]) \subseteq Before(Migrate!First, step)
    BY <1>4, <2>1 DEF Placed, Migrate!Todo
  <2>3. Migrate!Creates(IF Migrate!First = "ai_privacy" THEN {"ai"} ELSE IF Migrate!First = "init" THEN {} ELSE {"init"})
          \subseteq Migrate!Creates(recorded)
    BY <1>3, Created
  <2>4. {s \in {Migrate!Statements[Migrate!First][j] : j \in 1 .. step - 1} : s.does \in Migrate!Makes} = Migrate!Run(step - 1)
    BY DEF Migrate!Run, Migrate!Todo
  <2> QED
    BY <1>5, <1>6, <2>2, <2>3, <2>4 DEF Before
<1> QED
  BY <1>2, <1>3, <1>4, <1>5, <1>7

(* What may be refused is the new column, or SeaORM's tables, and only     *)
(* after a migration that was cut off.                                     *)
LEMMA InvResumes == Migrate!MigrationInv => Migrate!Resumes
<1> SUFFICES ASSUME Migrate!MigrationInv, Migrate!Fails
             PROVE  ~Transactional /\ Migrate!Todo[step] \in {Migrate!Column("ai_conversation", "privacy_mode")} \cup Migrate!Range(Migrate!Rbac)
  BY DEF Migrate!Resumes
<1> DEFINE s == Migrate!Todo[step]
           m == Migrate!First
<1>1. Migrate!Running /\ step <= Len(Migrate!Todo) /\ Migrate!Refused(s)
  BY DEF Migrate!Fails
<1>2. /\ m \in Names /\ m \notin recorded /\ step \in 1 .. Len(Migrate!Todo)
      /\ Placed(m, step) /\ Migrate!Needs(s) \subseteq objects
  BY <1>1, Ready
<1>3. s \in objects /\ s.does \in {"column", "external"}
  BY <1>1, <1>2 DEF Migrate!Refused, Migrate!Repeatable
<1>4. s \in {Migrate!Column("ai_conversation", "privacy_mode")} \cup Migrate!Range(Migrate!Rbac)
  BY <1>2, <1>3 DEF Placed, Migrate!Todo
<1>5. ASSUME Transactional PROVE FALSE
  <2>1. objects = Migrate!Creates(recorded) \cup Migrate!Run(step - 1)
    BY <1>1, <1>5 DEF Migrate!MigrationInv, Migrate!Exact
  <2>2. CASE s \in Migrate!Creates(recorded)
    <3>1. PICK n \in recorded : s \in Migrate!Range(Migrate!Statements[n])
      BY <2>2, Created
    <3>2. n \in Names
      BY OrderIsNames DEF Migrate!MigrationInv
    <3>3. PICK i \in 1 .. Len(Migrate!Statements[n]) : s = Migrate!Statements[n][i]
      BY <3>1, <3>2, AllPlaced DEF Migrate!Range
    <3>4. Placed(n, i)
      BY <3>2, AllPlaced
    <3>5. n = m
      BY <1>2, <1>3, <3>3, <3>4 DEF Placed, Migrate!Todo
    <3> QED
      BY <1>2, <3>5
  <2>3. CASE s \in Migrate!Run(step - 1)
    <3>1. PICK j \in 1 .. step - 1 : s = Migrate!Todo[j]
      BY <2>3 DEF Migrate!Run
    <3>2. step # 1 /\ \E k \in 1 .. step - 1 : Migrate!Todo[k] = s
      BY <1>2, <3>1
    <3> QED
      BY <1>2, <1>3, <3>2 DEF Placed, Migrate!Todo
  <2> QED
    BY <1>3, <2>1, <2>2, <2>3
<1> QED
  BY <1>4, <1>5
(* A server that serves has run every migration. *)
LEMMA InvServes == Migrate!MigrationInv => Migrate!ServesMigrated
  BY DEF Migrate!MigrationInv, Migrate!ServesMigrated, Migrate!Seeded

(* A step of the first migration, to the next of its statements. *)
LEMMA MigrationAdvances ==
    ASSUME Migrate!MigrationInv, Migrate!Running, step <= Len(Migrate!Todo),
           UNCHANGED <<recorded, server, pending, before>>,
           objects' = objects \cup {s \in {Migrate!Todo[step]} : s.does \in Migrate!Makes},
           \/ step' = step + 1
           \/ step' = Len(Migrate!Todo) + 1 /\ Migrate!First = "dev_admin",
           Migrate!Seeded(people')
    PROVE  Migrate!MigrationInv'
<1> DEFINE m == Migrate!First
           made == {s \in {Migrate!Todo[step]} : s.does \in Migrate!Makes}
<1>1. /\ m \in Names /\ Len(Migrate!Todo) \in Nat /\ step \in 1 .. Len(Migrate!Todo) + 1
      /\ \A i \in 1 .. Len(Migrate!Todo) : Placed(m, i)
      /\ DOMAIN Migrate!Todo = 1 .. Len(Migrate!Todo)
  BY Ready, AllPlaced DEF Migrate!Todo
<1>2. step \in 1 .. Len(Migrate!Todo) /\ step' \in 1 .. Len(Migrate!Todo) + 1
  BY <1>1
<1>3. Migrate!First' = Migrate!First /\ Migrate!Todo' = Migrate!Todo /\ Migrate!Running' = Migrate!Running
  BY DEF Migrate!First, Migrate!Todo, Migrate!Running
<1>4. (Migrate!Run(step - 1))' = Migrate!Run(step - 1) \cup made
  <2>1. CASE step' = step + 1
    <3>1. 1 .. step' - 1 = (1 .. step - 1) \cup {step}
      BY <1>2, <2>1
    <3> QED
      BY <1>3, <3>1 DEF Migrate!Run
  <2>2. CASE step' = Len(Migrate!Todo) + 1 /\ m = "dev_admin"
    <3>1. \A i \in 1 .. Len(Migrate!Todo) : Migrate!Todo[i].does \notin Migrate!Makes
      BY <1>1, <2>2 DEF Placed, Migrate!Todo
    <3>2. 1 .. step' - 1 = 1 .. Len(Migrate!Todo) /\ 1 .. step - 1 \subseteq 1 .. Len(Migrate!Todo)
      BY <1>1, <1>2, <2>2
    <3>3. made = {}
      BY <1>2, <3>1
    <3>4. (Migrate!Run(step - 1))' = {} /\ Migrate!Run(step - 1) = {}
      BY <1>3, <3>1, <3>2 DEF Migrate!Run
    <3> QED
      BY <3>3, <3>4
  <2> QED
    BY <2>1, <2>2
<1>5. made \subseteq Migrate!Creates(Migrate!Range(Migrate!Order))
  <2>1. Migrate!Todo[step] \in Migrate!Range(Migrate!Statements[m])
    BY <1>1, <1>2 DEF Migrate!Range, Migrate!Todo
  <2> QED
    BY <1>1, <2>1, Created, OrderIsNames
<1>6. /\ recorded' = recorded /\ server' = server /\ pending' = pending /\ before' = before
      /\ objects' = objects \cup made
  OBVIOUS
<1>7. server = "migrating" /\ pending # {}
  BY DEF Migrate!Running
<1>8. Migrate!Creates(recorded)' = Migrate!Creates(recorded)
  BY DEF Migrate!Creates
<1>9. Migrate!Sorted(recorded)'
  BY <1>6 DEF Migrate!Sorted, Migrate!MigrationInv
<1>10. (Migrate!Run(step - 1) \subseteq objects)'
  BY <1>4, <1>6 DEF Migrate!MigrationInv
<1>11. Transactional => Migrate!Exact'
  BY <1>3, <1>4, <1>6, <1>8 DEF Migrate!Exact, Migrate!MigrationInv
<1>12. Migrate!Creates(recorded)' \subseteq objects' /\ objects' \subseteq Migrate!Creates(Migrate!Range(Migrate!Order))
  BY <1>5, <1>6, <1>8 DEF Migrate!MigrationInv
<1>13. Transactional => Migrate!RollsBack'
  BY <1>6, <1>7 DEF Migrate!MigrationInv, Migrate!RollsBack, Migrate!Sorted, Migrate!Creates
<1>14. (recorded \subseteq Migrate!Range(Migrate!Order) /\ pending = Migrate!Range(Migrate!Order) \ recorded)'
  BY <1>6, <1>7 DEF Migrate!MigrationInv
<1>15. (step \in 1 .. Len(Migrate!Todo) + 1)'
  BY <1>2, <1>3
<1> QED
  BY <1>6, <1>7, <1>9, <1>10, <1>11, <1>12, <1>13, <1>14, <1>15 DEF Migrate!MigrationInv

LEMMA MigrationRecords ==
    ASSUME Migrate!MigrationInv, Migrate!Record
    PROVE  Migrate!MigrationInv'
<1> DEFINE m == Migrate!First
<1>1. /\ Migrate!Running /\ step > Len(Migrate!Todo) /\ recorded' = recorded \cup {m}
      /\ pending' = pending \ {m} /\ step' = 1
      /\ objects' = objects /\ people' = people /\ server' = server /\ before' = before
  BY DEF Migrate!Record, Migrate!Done
<1>2. /\ m \in Names /\ m \notin recorded /\ m \in pending
      /\ m # "init" => "init" \in recorded
      /\ m = "ai_privacy" => "ai" \in recorded
      /\ Len(Migrate!Todo) \in Nat /\ step = Len(Migrate!Todo) + 1
      /\ DOMAIN Migrate!Todo = 1 .. Len(Migrate!Todo)
  BY <1>1, Ready, AllPlaced DEF Migrate!Todo
<1>3. Migrate!Creates(recorded)' = Migrate!Creates(recorded) \cup Migrate!Run(step - 1)
  <2>1. 1 .. step - 1 = DOMAIN Migrate!Todo
    BY <1>2
  <2>2. Migrate!Run(step - 1) = {s \in Migrate!Range(Migrate!Statements[m]) : s.does \in Migrate!Makes}
    BY <2>1 DEF Migrate!Run, Migrate!Range, Migrate!Todo
  <2>3. Migrate!Creates(recorded)' = Migrate!Creates(recorded \cup {m})
    BY <1>1 DEF Migrate!Creates
  <2> QED
    BY <2>2, <2>3, Created
<1>4. server = "migrating" /\ pending = Names \ recorded
  BY <1>1, OrderIsNames DEF Migrate!Running, Migrate!MigrationInv
<1>5. (pending = Names \ recorded /\ recorded \subseteq Names)'
  BY <1>1, <1>2, <1>4, OrderIsNames DEF Migrate!MigrationInv
<1>6. Migrate!Sorted(recorded)'
  BY <1>1, <1>2 DEF Migrate!Sorted, Migrate!MigrationInv
<1>7. (Migrate!Creates(recorded) \subseteq objects /\ objects \subseteq Migrate!Creates(Migrate!Range(Migrate!Order)))'
  BY <1>1, <1>3 DEF Migrate!MigrationInv
<1>8. Migrate!Run(step - 1)' = {}
  <2>1. 1 .. step' - 1 = {}
    BY <1>1
  <2> QED
    BY <2>1 DEF Migrate!Run
<1>9. Transactional => Migrate!Exact'
  BY <1>1, <1>3, <1>8 DEF Migrate!Exact, Migrate!MigrationInv
<1>10. (Migrate!Running => step \in 1 .. Len(Migrate!Todo) + 1)'
  <2> SUFFICES ASSUME pending' # {} PROVE step' \in 1 .. Len(Migrate!Todo') + 1
    BY DEF Migrate!Running
  <2>1. Migrate!First' \in Names
    <3>1. pending \subseteq Names /\ pending # {} => Migrate!First \in pending
      BY FirstIsFirst
    <3>2. (pending \subseteq Names /\ pending # {} => Migrate!First \in pending)'
      BY FirstIsFirst, PTL
    <3> QED
      BY <1>5, <3>2
  <2>2. Len(Migrate!Todo') \in Nat
    BY <2>1, AllPlaced DEF Migrate!Todo
  <2> QED
    BY <1>1, <2>2
<1>11. Transactional => Migrate!RollsBack'
  BY <1>1, <1>4 DEF Migrate!MigrationInv, Migrate!RollsBack, Migrate!Sorted, Migrate!Creates
<1>12. Migrate!Seeded(people') /\ server' = "migrating"
  BY <1>1, <1>4 DEF Migrate!MigrationInv
<1> QED
  <2>1. (recorded \subseteq Migrate!Range(Migrate!Order) /\ pending = Migrate!Range(Migrate!Order) \ recorded)'
    BY <1>5, OrderIsNames
  <2> QED
    BY <1>6, <1>7, <1>8, <1>9, <1>10, <1>11, <1>12, <2>1 DEF Migrate!MigrationInv
LEMMA BothSeeded == Migrate!Seeded(Migrate!Nobody) /\ Migrate!Seeded(Migrate!Someone)
  BY DEF Migrate!Nobody, Migrate!Someone, Migrate!Seeded, Migrate!People

LEMMA MigrationStarts ==
    ASSUME Migrate!MigrationInv, Migrate!Start
    PROVE  Migrate!MigrationInv'
<1>1. /\ server = "off" /\ server' = "migrating" /\ step' = 1
      /\ pending' = Migrate!Range(Migrate!Order) \ recorded /\ before' = <<objects, people, recorded>>
      /\ objects' = objects /\ people' = people /\ recorded' = recorded
  BY DEF Migrate!Start, Migrate!State
<1>2. before'[1] = objects /\ before'[2] = people /\ before'[3] = recorded
  BY <1>1
<1>3. Migrate!Sorted(recorded)' /\ Migrate!Creates(recorded)' = Migrate!Creates(recorded)
  BY <1>1 DEF Migrate!Sorted, Migrate!Creates, Migrate!MigrationInv
<1>4. Migrate!Run(step - 1)' = {}
  <2>1. 1 .. step' - 1 = {}
    BY <1>1
  <2> QED
    BY <2>1 DEF Migrate!Run
<1>5. Transactional => objects = Migrate!Creates(recorded)
  BY <1>1 DEF Migrate!MigrationInv, Migrate!Exact, Migrate!Running
<1>6. Transactional => Migrate!Exact'
  BY <1>1, <1>3, <1>4, <1>5 DEF Migrate!Exact
<1>7. Transactional => Migrate!RollsBack'
  <2>1. Migrate!Creates(before[3])' = Migrate!Creates(recorded)
    BY <1>2 DEF Migrate!Creates
  <2>2. Migrate!Sorted(before[3])'
    BY <1>2 DEF Migrate!Sorted, Migrate!MigrationInv
  <2> QED
    BY <1>2, <1>5, <2>1, <2>2 DEF Migrate!RollsBack, Migrate!MigrationInv
<1>8. (Migrate!Running => step \in 1 .. Len(Migrate!Todo) + 1)'
  <2> SUFFICES ASSUME pending' # {} PROVE step' \in 1 .. Len(Migrate!Todo') + 1
    BY DEF Migrate!Running
  <2>1. (pending \subseteq Names /\ pending # {} => Migrate!First \in pending)'
    <3>1. pending \subseteq Names /\ pending # {} => Migrate!First \in pending
      BY FirstIsFirst
    <3> QED
      BY FirstIsFirst, PTL
  <2>2. Migrate!First' \in Names
    BY <1>1, <2>1, OrderIsNames
  <2>3. Len(Migrate!Todo') \in Nat
    BY <2>2, AllPlaced DEF Migrate!Todo
  <2> QED
    BY <1>1, <2>3
<1>9. objects' \subseteq Migrate!Creates(Migrate!Range(Migrate!Order)) /\ Migrate!Creates(recorded)' \subseteq objects'
  BY <1>1, <1>3 DEF Migrate!MigrationInv
<1>10. recorded' \subseteq Migrate!Range(Migrate!Order) /\ Migrate!Seeded(people')
  BY <1>1 DEF Migrate!MigrationInv
<1> QED
  BY <1>1, <1>3, <1>4, <1>6, <1>7, <1>8, <1>9, <1>10 DEF Migrate!MigrationInv

(* A process that dies: its transaction, if it has one, leaves nothing.    *)
LEMMA MigrationStops ==
    ASSUME Migrate!MigrationInv, Migrate!Stop
    PROVE  Migrate!MigrationInv'
<1>1. server' = "off" /\ pending' = {} /\ ~Migrate!Running'
  BY DEF Migrate!Stop, Migrate!Running
<1>2. CASE Transactional /\ server = "migrating"
  <2>1. objects' = before[1] /\ people' = before[2] /\ recorded' = before[3] /\ Migrate!RollsBack
    BY <1>2 DEF Migrate!Stop, Migrate!MigrationInv
  <2>2. Migrate!Creates(recorded)' = objects'
    BY <2>1 DEF Migrate!Creates, Migrate!RollsBack
  <2>3. Migrate!Sorted(recorded)' /\ recorded' \subseteq Migrate!Range(Migrate!Order) /\ Migrate!Seeded(people')
    BY <2>1 DEF Migrate!RollsBack, Migrate!Sorted
  <2>4. objects' \subseteq Migrate!Creates(Migrate!Range(Migrate!Order))
    BY <2>1, <2>3, Created DEF Migrate!RollsBack
  <2>5. Migrate!Exact'
    BY <1>1, <2>2 DEF Migrate!Exact
  <2> QED
    BY <1>1, <2>2, <2>3, <2>4, <2>5 DEF Migrate!MigrationInv
<1>3. CASE ~(Transactional /\ server = "migrating")
  <2>1. objects' = objects /\ people' = people /\ recorded' = recorded
    BY <1>3 DEF Migrate!Stop
  <2>2. Migrate!Sorted(recorded)' /\ Migrate!Creates(recorded)' = Migrate!Creates(recorded)
    BY <2>1 DEF Migrate!Sorted, Migrate!Creates, Migrate!MigrationInv
  <2>3. Transactional => Migrate!Exact'
    BY <1>1, <1>3, <2>1, <2>2 DEF Migrate!Exact, Migrate!MigrationInv, Migrate!Running
  <2>4. recorded' \subseteq Migrate!Range(Migrate!Order) /\ Migrate!Seeded(people')
    BY <2>1 DEF Migrate!MigrationInv
  <2>5. objects' \subseteq Migrate!Creates(Migrate!Range(Migrate!Order)) /\ Migrate!Creates(recorded)' \subseteq objects'
    BY <2>1, <2>2 DEF Migrate!MigrationInv
  <2> QED
    BY <1>1, <2>2, <2>3, <2>4, <2>5 DEF Migrate!MigrationInv
<1> QED
  BY <1>2, <1>3

LEMMA MigrationStep ==
    Migrate!MigrationInv /\ [Migrate!Next]_migrations => Migrate!MigrationInv'
<1> SUFFICES ASSUME Migrate!MigrationInv, [Migrate!Next]_migrations
             PROVE  Migrate!MigrationInv'
  OBVIOUS
<1>1. CASE Migrate!Start
  BY <1>1, MigrationStarts
<1>2. CASE Migrate!Create
  <2>1. /\ Migrate!Running /\ step <= Len(Migrate!Todo) /\ step' = step + 1
        /\ Migrate!Todo[step].does \in Migrate!Makes
        /\ objects' = objects \cup {s \in {Migrate!Todo[step]} : s.does \in Migrate!Makes}
        /\ UNCHANGED <<people, recorded, server, pending, before>>
    BY <1>2 DEF Migrate!Create
  <2>2. Migrate!Seeded(people')
    BY <2>1 DEF Migrate!MigrationInv, Migrate!Seeded
  <2> QED
    BY <2>1, <2>2, MigrationAdvances
<1>3. CASE Migrate!CountUsers \/ Migrate!InsertRole \/ Migrate!InsertUser \/ Migrate!LinkUser
  <2>1. /\ Migrate!Running /\ step <= Len(Migrate!Todo)
        /\ Migrate!Todo[step].does \notin Migrate!Makes
        /\ objects' = objects \cup {s \in {Migrate!Todo[step]} : s.does \in Migrate!Makes}
        /\ UNCHANGED <<recorded, server, pending, before>>
        /\ step' \in {step + 1, Len(Migrate!Todo) + 1}
    BY <1>3 DEF Migrate!CountUsers, Migrate!InsertRole, Migrate!InsertUser, Migrate!LinkUser, Migrate!Do, Migrate!Makes
  <2>2. Migrate!First = "dev_admin"
    <3>1. step \in 1 .. Len(Migrate!Todo) /\ \A i \in 1 .. Len(Migrate!Todo) : Placed(Migrate!First, i)
      BY <2>1, Ready
    <3> QED
      BY <2>1, <3>1 DEF Placed, Migrate!Todo
  <2>3. Migrate!Seeded(people')
    <3>1. Migrate!Seeded(people)
      BY DEF Migrate!MigrationInv
    <3>2. CASE people' = people
      BY <3>1, <3>2 DEF Migrate!Seeded, Migrate!People
    <3>3. CASE people' = [people EXCEPT !.role = TRUE]
      BY <3>1, <3>3 DEF Migrate!Seeded, Migrate!People
    <3>4. CASE people.role /\ people' = [people EXCEPT !.users = people.users \cup {"admin"}]
      BY <3>1, <3>4 DEF Migrate!Seeded, Migrate!People
    <3>5. CASE people' = [people EXCEPT !.linked = people.linked \cup {"admin"}]
      BY <3>1, <3>5 DEF Migrate!Seeded, Migrate!People
    <3> QED
      BY <1>3, <3>2, <3>3, <3>4, <3>5 DEF Migrate!CountUsers, Migrate!InsertRole, Migrate!InsertUser, Migrate!LinkUser
  <2> QED
    BY <2>1, <2>2, <2>3, MigrationAdvances
<1>4. CASE Migrate!Record
  BY <1>4, MigrationRecords
<1>5. CASE Migrate!Migrated
  <2>1. /\ server = "migrating" /\ server' = "serving" /\ pending = {} /\ pending' = {}
        /\ objects' = objects /\ people' = people /\ recorded' = recorded
        /\ ~Migrate!Running /\ ~Migrate!Running'
    BY <1>5 DEF Migrate!Migrated, Migrate!Running, Migrate!migrating
  <2>2. recorded = Migrate!Range(Migrate!Order)
    BY <2>1 DEF Migrate!MigrationInv
  <2>3. Migrate!Sorted(recorded)' /\ Migrate!Creates(recorded)' = Migrate!Creates(recorded)
    BY <2>1 DEF Migrate!Sorted, Migrate!Creates, Migrate!MigrationInv
  <2>4. Transactional => Migrate!Exact'
    BY <2>1, <2>3 DEF Migrate!Exact, Migrate!MigrationInv
  <2>5. objects' \subseteq Migrate!Creates(Migrate!Range(Migrate!Order)) /\ Migrate!Creates(recorded)' \subseteq objects'
    BY <2>1, <2>3 DEF Migrate!MigrationInv
  <2>6. Migrate!Seeded(people')
    BY <2>1 DEF Migrate!MigrationInv
  <2> QED
    BY <2>1, <2>2, <2>3, <2>4, <2>5, <2>6 DEF Migrate!MigrationInv
<1>6. CASE Migrate!Crash \/ Migrate!StartFails
  BY <1>6, MigrationStops DEF Migrate!Crash, Migrate!StartFails
<1>7. CASE Migrate!Register \/ UNCHANGED migrations
  <2>1. /\ server' = server /\ pending' = pending /\ objects' = objects /\ recorded' = recorded
        /\ step' = step /\ before' = before
    BY <1>7 DEF Migrate!Register, Migrate!migrating, migrations
  <2>2. Migrate!Seeded(people')
    <3>1. people' = people \/ people' = Migrate!Someone
      BY <1>7 DEF Migrate!Register, migrations
    <3> QED
      BY <3>1, BothSeeded DEF Migrate!MigrationInv
  <2>3. /\ Migrate!Sorted(recorded)' = Migrate!Sorted(recorded) /\ Migrate!Creates(recorded)' = Migrate!Creates(recorded)
        /\ Migrate!Running' = Migrate!Running /\ Migrate!Todo' = Migrate!Todo
    BY <2>1 DEF Migrate!Sorted, Migrate!Creates, Migrate!Running, Migrate!Todo, Migrate!First
  <2>4. Migrate!Run(step - 1)' = Migrate!Run(step - 1)
    BY <2>1, <2>3 DEF Migrate!Run
  <2>5. Migrate!Exact' = Migrate!Exact
    BY <2>1, <2>3, <2>4 DEF Migrate!Exact
  <2>6. Migrate!RollsBack' = Migrate!RollsBack
    BY <2>1 DEF Migrate!RollsBack, Migrate!Sorted, Migrate!Creates
  <2> QED
    BY <2>1, <2>2, <2>3, <2>4, <2>5, <2>6 DEF Migrate!MigrationInv
<1> QED
  BY <1>1, <1>2, <1>3, <1>4, <1>5, <1>6, <1>7 DEF Migrate!Next, Migrate!Process

(* Every start finds what the last one left, an older server among them.   *)
LEMMA MigrationAlways == Spec => []Migrate!MigrationInv
<1>1. Init => Migrate!MigrationInv
  <2> SUFFICES ASSUME Migrate!Init PROVE Migrate!MigrationInv
    BY DEF Init
  <2>1. PICK n \in 0 .. Len(Migrate!Written) :
           /\ recorded = {Migrate!Written[k] : k \in 1 .. n}
           /\ objects = Migrate!Creates(recorded)
           /\ people \in {Migrate!Nobody} \cup (IF n > 0 THEN {Migrate!Someone} ELSE {})
           /\ server = "off" /\ pending = {}
    BY DEF Migrate!Init
  <2>2. Len(Migrate!Written) = 8 /\ \A k \in 1 .. 8 : Migrate!Written[k] \in Names
    BY DEF Migrate!Written, Names
  <2>3. recorded \subseteq Names
    BY <2>1, <2>2
  <2>4. Migrate!Sorted(recorded)
    <3>1. Migrate!Written[1] = "init" /\ Migrate!Written[5] = "ai"
      BY DEF Migrate!Written
    <3>2. \A k \in 1 .. 8 : Migrate!Written[k] = "ai_privacy" => k = 6
      BY DEF Migrate!Written
    <3>3. recorded # {} => 1 \in 1 .. n
      BY <2>1, <2>2
    <3>4. "ai_privacy" \in recorded => 5 \in 1 .. n
      BY <2>1, <2>2, <3>2
    <3> QED
      BY <2>1, <3>1, <3>3, <3>4 DEF Migrate!Sorted
  <2>5. Migrate!Seeded(people)
    <3>1. people = Migrate!Nobody \/ people = Migrate!Someone
      BY <2>1
    <3> QED
      BY <3>1, BothSeeded
  <2>6. ~Migrate!Running /\ Migrate!Exact
    BY <2>1 DEF Migrate!Running, Migrate!Exact
  <2>7. Migrate!Creates(recorded) \subseteq Migrate!Creates(Names)
    BY <2>3, Created
  <2> QED
    BY <2>1, <2>3, <2>4, <2>5, <2>6, <2>7, OrderIsNames DEF Migrate!MigrationInv
<1>2. Migrate!MigrationInv /\ [Next]_vars => Migrate!MigrationInv'
  <2>1. [Next]_vars => [Migrate!Next]_migrations
    BY DEF Next, vars
  <2> QED
    BY <2>1, MigrationStep
<1> QED
  BY <1>1, <1>2, PTL DEF Spec

(* However often a start is cut off, and from whatever version it comes: a *)
(* server that serves has every table, index and column, and a start that  *)
(* is refused a statement is one on a database without transactional DDL,  *)
(* at the new column or at SeaORM's own tables (migration.rs).             *)
THEOREM Migrates == Spec => []MigrationsFinish
<1>1. Migrate!MigrationInv => MigrationsFinish
  BY InvServes, InvResumes DEF MigrationsFinish
<1> QED
  BY <1>1, MigrationAlways, PTL
=============================================================================
