--------------------------- MODULE ImportingProofs ---------------------------
(***************************************************************************)
(* Theorems about Importing, and with it about ContentRelations, for any   *)
(* number of clients, rows, lists and files, wherever a call is cut off.   *)
(***************************************************************************)
EXTENDS Importing, FiniteSetTheorems, SequenceTheorems, WellFoundedInduction, TLAPS

StepType == {"idle", "books", "reconcile", "clear", "set", "tags", "unlink", "link",
             "refresh", "reply", "author", "record", "recorded"}

\* The steps of persist_relations, for an author.
Relating == {"books", "reconcile", "clear", "set", "tags", "unlink", "link"}

JobType == [id : 0..(MaxAuthors + MaxBooks), books : BookLists \cup {NotGiven},
            tags : TagLists \cup {NotGiven}, ids : Seq(Nat), clear : SUBSET BookIds,
            todo : Seq(Nat), then : {"refresh", "recorded"}]

Report == [created : Nat, updated : Nat, skipped : Nat, failed : Nat, errors : Nat]

Locals == pc \in [Clients -> StepType] /\ job \in [Clients -> JobType]

Tables ==
    /\ authors \in [AuthorIds -> Author]
    /\ books \in [BookIds -> Book]
    /\ links \in [AuthorIds -> Seq(Link)]

Imports ==
    /\ file \in [Clients -> Seq(Record)]
    /\ at \in [Clients -> Nat \ {0}]
    /\ existing \in [Clients -> [Names -> AuthorIds \cup {NoAuthor}]]
    /\ report \in [Clients -> Report]

Flags == alone \in [Clients -> BOOLEAN] /\ stale \in BOOLEAN /\ calls \in 0..MaxCalls

\* What a call is about was inserted, and rows are never taken out.
JobInv(c) ==
    /\ pc[c] \in Relating => job[c].id \in Present(authors)
    /\ pc[c] \in {"reconcile", "clear"} => InList(job[c].ids) \subseteq Present(books)
    /\ pc[c] \in {"set", "unlink", "link"} => InList(job[c].todo) \subseteq Present(books)
    /\ pc[c] \in {"unlink", "link"} => Len(job[c].todo) <= Len(job[c].ids)
    /\ pc[c] = "author" => /\ job[c].id \in BookIds
                           /\ Head(job[c].ids) \in Present(authors) \cup {NoAuthor}

JobsInv == \A c \in Clients : JobInv(c)

RowsInv ==
    /\ \A b \in BookIds : books[b].author # NoAuthor => books[b].author \in Present(authors)
    /\ \A a \in AuthorIds : \A l \in InList(links[a]) : l.book \in Present(books)

Typed == Locals /\ Tables /\ Imports /\ Flags /\ JobsInv /\ RowsInv

-----------------------------------------------------------------------------
(* What holds between the steps of a call.                                 *)

\* Where a call has written nothing that its refresh has not seen.
Clean == {"idle", "reply", "record"}

TotalsInv ==
    ~stale /\ (\A c \in Clients : pc[c] \in Clean) =>
        \A a \in Live(authors) : authors[a].total = Cardinality(BooksOf(a))

\* A call that is alone since it began is alone.
AloneInv == \A c \in Clients : alone[c] => \A d \in Clients \ {c} : pc[d] = "idle"

\* The books of a save that runs alone.
BooksInv(c) ==
    /\ pc[c] \in {"reconcile", "clear"} =>
          job[c].ids = job[c].books /\ InList(job[c].ids) \subseteq Live(books)
    /\ pc[c] = "clear" =>
          \A b \in Live(books) : b \in InList(job[c].ids) \cup job[c].clear \/ books[b].author = NoAuthor
    /\ pc[c] = "set" =>
          /\ InList(job[c].books) \subseteq Live(books) /\ InList(job[c].todo) \subseteq InList(job[c].books)
          /\ \A b \in Live(books) : b \notin InList(job[c].books) => books[b].author # job[c].id
          /\ \A b \in InList(job[c].books) \ InList(job[c].todo) : books[b].author = job[c].id
    /\ pc[c] \in {"tags", "unlink", "link", "refresh", "reply", "recorded"} /\ job[c].books # NotGiven =>
          BooksOf(job[c].id) = InList(job[c].books)
    /\ pc[c] = "author" => job[c].books = NotGiven

\* The rows of the join table for the first tags of a list.
Rows(tags, n) == [i \in 1..n |-> [book |-> tags[i], order |-> i]]

\* Its tags: those not yet linked are the end of the list.
TagsInv(c) ==
    LET tags == job[c].tags
        todo == job[c].todo IN
    /\ pc[c] \in {"unlink", "link"} => job[c].ids = tags
    /\ pc[c] = "unlink" => todo = tags
    /\ pc[c] = "link" =>
          /\ \A i \in 1..Len(todo) : todo[i] = tags[Len(tags) - Len(todo) + i]
          /\ links[job[c].id] = Rows(tags, Len(tags) - Len(todo))
    /\ pc[c] \in {"refresh", "reply", "recorded"} /\ tags # NotGiven =>
          job[c].id \in AuthorIds /\ links[job[c].id] = Rows(tags, Len(tags))
    /\ pc[c] = "author" => tags = NotGiven

ServedInv == \A c \in Clients : alone[c] => BooksInv(c) /\ TagsInv(c)

-----------------------------------------------------------------------------
(* What an import that runs alone knows of the table.                      *)

InImport(c) == pc[c] \in {"record", "recorded"} \/ (pc[c] \in Relating /\ job[c].then = "recorded")

\* The records whose entry is written, or was refused.
Handled(c) == IF pc[c] = "record" THEN 1..(at[c] - 1) ELSE 1..at[c]

MapInv ==
    \A c \in Clients : alone[c] /\ InImport(c) =>
        \A n \in Names :
            /\ existing[c][n] # NoAuthor => existing[c][n] \in Named(n)
            /\ (\A i \in Handled(c) : file[c][i].name # n) /\ existing[c][n] = NoAuthor => Named(n) = {}

-----------------------------------------------------------------------------
(* Numbers and places.                                                     *)

\* A bounded set of numbers has a last one: of the sets of numbers above one
\* of its own, which are finite, one has no other within it.
LEMMA LastOf ==
    ASSUME NEW n \in Nat, NEW T \in SUBSET (1..n), T # {}
    PROVE  \E x \in T : \A y \in T : y <= x
  <1> DEFINE Above(x) == {y \in T : y > x}
             Sets == {Above(x) : x \in T}
  <1>1. IsFiniteSet(T)
    <2>1. IsFiniteSet(1..n)
      BY FS_Interval
    <2> QED BY <2>1, FS_Subset
  <1>2. \A x \in T : Above(x) \in FiniteSubsetsOf(T)
    BY <1>1, FS_Subset DEF FiniteSubsetsOf
  <1>3. Sets \subseteq FiniteSubsetsOf(T) /\ Sets # {}
    BY <1>2
  <1>4. IsWellFoundedOn(StrictSubsetOrdering(T), FiniteSubsetsOf(T))
    BY FS_StrictSubsetOrderingWellFounded
  <1> HIDE DEF Sets
  <1>5. PICK S \in Sets : \A R \in Sets : <<R, S>> \notin StrictSubsetOrdering(T)
    BY <1>3, <1>4, WFMin
  <1>6. PICK x \in T : S = Above(x)
    BY DEF Sets
  <1>7. ASSUME NEW y \in T, ~(y <= x) PROVE FALSE
    <2>0. y > x /\ x \in Nat /\ y \in Nat /\ T \subseteq Nat
      BY <1>7
    <2>1. y \in Above(x) /\ y \notin Above(y)
      BY <2>0
    <2>2. Above(y) \subseteq Above(x)
      <3>1. ASSUME NEW z \in T, z > y PROVE z > x
        BY <2>0, <3>1
      <3> QED BY <3>1
    <2>3. <<Above(y), S>> \in StrictSubsetOrdering(T)
      BY <1>6, <2>1, <2>2 DEF StrictSubsetOrdering
    <2> QED BY <1>5, <2>3 DEF Sets
  <1> QED BY <1>7

LEMMA PlacesAround ==
    ASSUME NEW n \in Nat, NEW m \in 1..n
    PROVE  /\ IsFiniteSet(1..(m - 1)) /\ Cardinality(1..(m - 1)) = m - 1
           /\ IsFiniteSet((m + 1)..n) /\ Cardinality((m + 1)..n) = n - m
  <1>1. m - 1 \in Int /\ m + 1 \in Int /\ n \in Int /\ 1 \in Int /\ m \in Int
    OBVIOUS
  <1>2. IsFiniteSet(1..(m - 1)) /\ Cardinality(1..(m - 1)) = IF 1 > m - 1 THEN 0 ELSE (m - 1) - 1 + 1
    BY <1>1, FS_Interval
  <1>3. IsFiniteSet((m + 1)..n) /\ Cardinality((m + 1)..n) = IF m + 1 > n THEN 0 ELSE n - (m + 1) + 1
    BY <1>1, FS_Interval
  <1> QED BY <1>2, <1>3

\* Who goes through all places in order goes through them one by one.
LEMMA InOrder ==
    ASSUME NEW n \in Nat, NEW p \in [1..n -> 1..n],
           \A w \in 1..n : \E i \in 1..n : p[i] = w,
           \A i, j \in 1..n : i < j => p[i] <= p[j]
    PROVE  \A i \in 1..n : p[i] = i
  <1> SUFFICES ASSUME NEW k \in 1..n PROVE p[k] = k
    OBVIOUS
  <1>0. k \in Nat /\ p[k] \in 1..n /\ p[k] \in Nat
    OBVIOUS
  \* The places before p[k] are those of steps before k.
  <1>1. p[k] <= k
    <2> DEFINE f == [i \in 1..(k - 1) |-> p[i]]
               W == {p[i] : i \in 1..(k - 1)}
    <2>1. f \in Surjection(1..(k - 1), W)
      BY DEF Surjection
    <2>2. IsFiniteSet(1..(k - 1)) /\ Cardinality(1..(k - 1)) = k - 1
      BY PlacesAround
    <2>3. IsFiniteSet(W) /\ Cardinality(W) <= k - 1
      BY <2>1, <2>2, FS_Surjection
    <2>4. 1..(p[k] - 1) \subseteq W
      <3>1. ASSUME NEW w \in 1..(p[k] - 1) PROVE w \in W
        <4>1. w \in 1..n /\ w < p[k]
          BY <1>0
        <4>2. PICK i \in 1..n : p[i] = w
          BY <4>1
        <4>3. CASE i >= k
          <5>1. p[k] <= p[i]
            BY <1>0, <4>3
          <5> QED BY <1>0, <4>1, <4>2, <5>1
        <4>4. CASE i < k
          BY <1>0, <4>2, <4>4
        <4> QED BY <1>0, <4>3, <4>4
      <3> QED BY <3>1
    <2>5. IsFiniteSet(1..(p[k] - 1)) /\ Cardinality(1..(p[k] - 1)) = p[k] - 1
      BY <1>0, PlacesAround
    <2>6. Cardinality(1..(p[k] - 1)) <= Cardinality(W)
      BY <2>3, <2>4, FS_Subset
    <2>7. Cardinality(W) \in Nat
      BY <2>3, FS_CardinalityType
    <2> QED BY <1>0, <2>3, <2>5, <2>6, <2>7
  \* The places after it are those of steps after k.
  <1>2. n - p[k] <= n - k
    <2> DEFINE f == [i \in (k + 1)..n |-> p[i]]
               W == {p[i] : i \in (k + 1)..n}
    <2>1. f \in Surjection((k + 1)..n, W)
      BY DEF Surjection
    <2>2. IsFiniteSet((k + 1)..n) /\ Cardinality((k + 1)..n) = n - k
      BY PlacesAround
    <2>3. IsFiniteSet(W) /\ Cardinality(W) <= n - k
      BY <2>1, <2>2, FS_Surjection
    <2>4. (p[k] + 1)..n \subseteq W
      <3>1. ASSUME NEW w \in (p[k] + 1)..n PROVE w \in W
        <4>1. w \in 1..n /\ w > p[k]
          BY <1>0
        <4>2. PICK i \in 1..n : p[i] = w
          BY <4>1
        <4>3. CASE i <= k
          <5>1. p[i] <= p[k]
            BY <1>0, <4>3
          <5> QED BY <1>0, <4>1, <4>2, <5>1
        <4>4. CASE i > k
          BY <1>0, <4>2, <4>4
        <4> QED BY <1>0, <4>3, <4>4
      <3> QED BY <3>1
    <2>5. IsFiniteSet((p[k] + 1)..n) /\ Cardinality((p[k] + 1)..n) = n - p[k]
      BY <1>0, PlacesAround
    <2>6. Cardinality((p[k] + 1)..n) <= Cardinality(W)
      BY <2>3, <2>4, FS_Subset
    <2>7. Cardinality(W) \in Nat
      BY <2>3, FS_CardinalityType
    <2> QED BY <1>0, <2>3, <2>5, <2>6, <2>7
  <1> QED BY <1>0, <1>1, <1>2

-----------------------------------------------------------------------------
(* Types.                                                                  *)

LEMMA Bounds ==
    /\ MaxAuthors \in Nat \ {0} /\ MaxBooks \in Nat \ {0, 1} /\ MaxCalls \in Nat
    /\ 0 \notin AuthorIds /\ AuthorIds \subseteq 0..(MaxAuthors + MaxBooks)
    /\ BookIds \subseteq 0..(MaxAuthors + MaxBooks)
  BY RelationsAssumption DEF AuthorIds, BookIds

LEMMA ListTyped ==
    ASSUME NEW list \in BookLists \cup TagLists \cup {NotGiven}
    PROVE  list \in Seq(Nat)
  <1>1. NotGiven \in Seq(Nat)
    BY Bounds DEF NotGiven
  <1>2. BookIds \cup {Unknown} \subseteq Nat
    BY Bounds DEF BookIds, Unknown
  <1>3. Seq(BookIds \cup {Unknown}) \subseteq Seq(Nat)
    BY <1>2
  <1> QED BY <1>1, <1>3, RelationsAssumption

LEMMA IdleTyped == IdleJob \in JobType
  <1>1. <<>> \in Seq(Nat)
    OBVIOUS
  <1> QED BY <1>1, Bounds DEF IdleJob, JobType

Act(c) ==
    \/ (Save(c) \/ Persist(c) \/ Finish(c) \/ CutOff(c)) /\ UNCHANGED importVars
    \/ Import(c)

\* Everybody else stays where he is, and is alone no more.
LEMMA OthersStay ==
    ASSUME Locals, Flags, NEW c \in Clients, Act(c)
    PROVE  \A d \in Clients \ {c} : pc'[d] = pc[d] /\ job'[d] = job[d] /\ ~alone'[d]
  <1>1. ASSUME NEW s, NEW l, Goto(c, s, l) \/ Begin(c, s, l)
        PROVE  \A d \in Clients \ {c} : pc'[d] = pc[d] /\ job'[d] = job[d] /\ ~alone'[d]
    BY <1>1 DEF Goto, Begin, Locals, Flags
  <1>2. \E s, l : Goto(c, s, l) \/ Begin(c, s, l)
    BY DEF Act, Save, Persist, Finish, CutOff, Import, CreateAuthor, UpdateAuthor, DeleteAuthor,
           PublishAuthor, SaveBook, DeleteBook, ResolveBooks, ReadTargets, ClearBook, Cleared, SetBook,
           BooksSet, ResolveTags, DeleteLinks, InsertLink, Linked, FailRelation, SetAuthor, Refresh,
           Reply, Unrefreshed, StartImport, Refuse, Skip, Insert, Update, WriteRecord, Recorded,
           FailRecord, Tally, EndImport
  <1> QED BY <1>1, <1>2

LEMMA PresentTyped ==
    ASSUME Tables
    PROVE  /\ Live(authors) \subseteq Present(authors) /\ Present(authors) \subseteq AuthorIds
           /\ Live(books) \subseteq Present(books) /\ Present(books) \subseteq BookIds
  BY DEF Tables, Live, Present

\* The next entry of a call, typed.
LEMMA CountTyped ==
    ASSUME Tables, NEW a
    PROVE  CountOf(a) \in 0..NotComputed
  <1>1. IsFiniteSet(BookIds) /\ Cardinality(BookIds) = MaxBooks
    <2>1. 1 \in Int /\ MaxBooks \in Int /\ ~(1 > MaxBooks)
      BY Bounds
    <2> QED BY <2>1, FS_Interval DEF BookIds
  <1>2. BooksOf(a) \in SUBSET BookIds
    BY PresentTyped DEF BooksOf
  <1>3. IsFiniteSet(BooksOf(a)) /\ Cardinality(BooksOf(a)) <= MaxBooks
    BY <1>1, <1>2, FS_Subset
  <1>4. Cardinality(BooksOf(a)) \in Nat
    BY <1>3, FS_CardinalityType
  <1> QED BY <1>3, <1>4, Bounds DEF CountOf, NotComputed

\* Where a step takes its call.
LEMMA Goes ==
    ASSUME Locals, Flags, NEW c \in Clients, NEW s \in StepType, NEW l \in JobType,
           Goto(c, s, l) \/ Begin(c, s, l)
    PROVE  Locals' /\ pc'[c] = s /\ job'[c] = l /\ alone' \in [Clients -> BOOLEAN]
  BY DEF Goto, Begin, Locals, Flags

LEMMA TailTyped ==
    ASSUME NEW S, NEW list \in Seq(S), list # <<>>
    PROVE  /\ Tail(list) \in Seq(S) /\ Head(list) \in S /\ Len(Tail(list)) = Len(list) - 1
           /\ InList(Tail(list)) \subseteq InList(list) /\ Head(list) \in InList(list)
  <1>1. Len(list) \in Nat \ {0} /\ DOMAIN list = 1..Len(list)
    OBVIOUS
  <1>2. \A i \in DOMAIN Tail(list) : Tail(list)[i] = list[i + 1] /\ i + 1 \in DOMAIN list
    BY <1>1
  <1>3. InList(Tail(list)) \subseteq InList(list)
    BY <1>2 DEF InList
  <1>4. Head(list) = list[1] /\ 1 \in DOMAIN list
    BY <1>1
  <1>5. Tail(list) \in Seq(S) /\ Head(list) \in S /\ Len(Tail(list)) = Len(list) - 1
    BY <1>1
  <1> QED BY <1>3, <1>4, <1>5 DEF InList

LEMMA PersistedTyped ==
    ASSUME Locals, NEW c \in Clients
    PROVE  Persisted(c) \in {"tags", "refresh", "recorded"} /\ job[c] \in JobType
           /\ job[c].then \in {"refresh", "recorded"}
  <1>1. job[c] \in JobType
    BY DEF Locals
  <1> QED BY <1>1 DEF Persisted, JobType

LEMMA Steps ==
    ASSUME Typed, NEW c \in Clients, Act(c)
    PROVE  \E s \in StepType, l \in JobType : Goto(c, s, l) \/ Begin(c, s, l)
  <1> USE DEF Typed
  <1>0. job[c] \in JobType /\ IdleJob \in JobType /\ {"tags", "refresh", "recorded"} \subseteq StepType
    BY IdleTyped DEF Locals, StepType
  <1>1. ASSUME CreateAuthor(c) \/ UpdateAuthor(c)
        PROVE  \E l \in JobType : Begin(c, "books", l)
    <2>1. PICK a \in AuthorIds, bs \in BookLists, ts \in TagLists :
             Begin(c, "books", [IdleJob EXCEPT !.id = a, !.books = bs, !.tags = ts])
      BY <1>1, PresentTyped DEF CreateAuthor, UpdateAuthor
    <2>2. [IdleJob EXCEPT !.id = a, !.books = bs, !.tags = ts] \in JobType
      BY <1>0, Bounds DEF JobType
    <2> QED BY <2>1, <2>2
  <1>2. ASSUME DeleteAuthor(c) \/ DeleteBook(c) PROVE \E l \in JobType : Begin(c, "refresh", l)
    <2>1. PICK i \in AuthorIds \cup BookIds : Begin(c, "refresh", [IdleJob EXCEPT !.id = i])
      BY <1>2, PresentTyped DEF DeleteAuthor, DeleteBook
    <2>2. [IdleJob EXCEPT !.id = i] \in JobType
      BY <1>0, Bounds DEF JobType
    <2> QED BY <2>1, <2>2
  <1>3. ASSUME SaveBook(c) PROVE \E l \in JobType : Begin(c, "author", l)
    <2>1. PICK b \in BookIds, a \in Live(authors) \cup {NoAuthor} :
             Begin(c, "author", [IdleJob EXCEPT !.id = b, !.ids = <<a>>])
      BY <1>3 DEF SaveBook
    <2>2. a \in Nat /\ <<a>> \in Seq(Nat)
      <3>1. a \in AuthorIds \cup {NoAuthor} /\ AuthorIds \cup {NoAuthor} \subseteq Nat
        BY PresentTyped, Bounds DEF AuthorIds, NoAuthor
      <3> QED BY <3>1
    <2>3. [IdleJob EXCEPT !.id = b, !.ids = <<a>>] \in JobType
      BY <1>0, <2>2, Bounds DEF JobType
    <2> QED BY <2>1, <2>3
  <1>4. ASSUME ResolveBooks(c)
        PROVE  \E s \in {"tags", "refresh", "recorded", "reconcile"}, l \in JobType : Goto(c, s, l)
    <2>1. job[c].books \in Seq(Nat)
      BY <1>0, ListTyped DEF JobType
    <2>2. [job[c] EXCEPT !.ids = job[c].books] \in JobType
      BY <1>0, <2>1 DEF JobType
    <2> QED BY <1>0, <1>4, <2>2, PersistedTyped DEF ResolveBooks
  <1>5. ASSUME ReadTargets(c) \/ ClearBook(c) PROVE \E l \in JobType : Goto(c, "clear", l)
    <2>1. ToClear(c) \in SUBSET BookIds /\ job[c].clear \in SUBSET BookIds
      BY <1>0, PresentTyped DEF ToClear, JobType
    <2>2. [job[c] EXCEPT !.clear = ToClear(c)] \in JobType
          /\ \A b : [job[c] EXCEPT !.clear = @ \ {b}] \in JobType
      BY <1>0, <2>1 DEF JobType
    <2> QED BY <1>5, <2>2 DEF ReadTargets, ClearBook
  <1>6. ASSUME Cleared(c) \/ SetBook(c) PROVE \E l \in JobType : Goto(c, "set", l)
    <2>1. job[c].ids \in Seq(Nat) /\ job[c].todo \in Seq(Nat)
      BY <1>0 DEF JobType
    <2>2. job[c].todo # <<>> => Tail(job[c].todo) \in Seq(Nat)
      BY <2>1
    <2>3. [job[c] EXCEPT !.todo = job[c].ids] \in JobType
          /\ (job[c].todo # <<>> => [job[c] EXCEPT !.todo = Tail(@)] \in JobType)
      BY <1>0, <2>1, <2>2 DEF JobType
    <2> QED BY <1>6, <2>3 DEF Cleared, SetBook
  <1>7. ASSUME BooksSet(c) \/ Linked(c)
        PROVE  \E s \in {"tags", "refresh", "recorded"}, l \in JobType : Goto(c, s, l)
    BY <1>7, PersistedTyped DEF BooksSet, Linked
  <1>8. ASSUME ResolveTags(c) PROVE \E l \in JobType : Goto(c, "unlink", l)
    <2>1. job[c].tags \in Seq(Nat)
      BY <1>0, ListTyped DEF JobType
    <2>2. [job[c] EXCEPT !.ids = job[c].tags, !.todo = job[c].tags] \in JobType
      BY <1>0, <2>1 DEF JobType
    <2> QED BY <1>8, <2>2 DEF ResolveTags
  <1>9. ASSUME DeleteLinks(c) \/ InsertLink(c) PROVE \E l \in JobType : Goto(c, "link", l)
    <2>1. job[c].todo \in Seq(Nat)
      BY <1>0 DEF JobType
    <2>2. job[c].todo # <<>> => Tail(job[c].todo) \in Seq(Nat)
      BY <2>1
    <2>3. job[c].todo # <<>> => [job[c] EXCEPT !.todo = Tail(@)] \in JobType
      BY <1>0, <2>2 DEF JobType
    <2> QED BY <1>0, <1>9, <2>3 DEF DeleteLinks, InsertLink
  <1>10. ASSUME SetAuthor(c) \/ Refresh(c)
         PROVE  \E s \in {"refresh", "reply"} : Goto(c, s, job[c])
    BY <1>10 DEF SetAuthor, Refresh
  <1>11. ASSUME PublishAuthor(c) \/ FailRelation(c) \/ Reply(c) \/ CutOff(c) \/ EndImport(c)
         PROVE  Goto(c, "idle", IdleJob) \/ Begin(c, "idle", IdleJob)
    BY <1>11 DEF PublishAuthor, FailRelation, Reply, CutOff, Unrefreshed, EndImport
  <1>12. ASSUME StartImport(c) \/ Refuse(c) \/ Skip(c) \/ Recorded(c) \/ FailRecord(c)
         PROVE  Goto(c, "record", IdleJob) \/ Begin(c, "record", IdleJob)
    BY <1>12 DEF StartImport, Refuse, Skip, Recorded, FailRecord, Tally
  <1>13. ASSUME Insert(c) \/ Update(c) PROVE \E l \in JobType : Goto(c, "books", l)
    <2>1. PICK a \in AuthorIds : WriteRecord(c, a) /\ Ended(c) = FALSE
      BY <1>13, PresentTyped DEF Insert, Update, AtValid
    <2>2. Current(c) \in Record
      <3>1. file[c] \in Seq(Record) /\ at[c] \in Nat \ {0} /\ ~(at[c] > Len(file[c]))
        BY <2>1 DEF Imports, Ended
      <3> QED BY <3>1 DEF Current
    <2>3. [IdleJob EXCEPT !.id = a, !.books = Current(c).books,
                          !.tags = Current(c).tags, !.then = "recorded"] \in JobType
      BY <1>0, <2>2, Bounds DEF JobType, Record
    <2> QED BY <2>1, <2>3 DEF WriteRecord
  <1>14. {"idle", "books", "reconcile", "clear", "set", "tags", "unlink", "link", "refresh",
          "reply", "author", "record", "recorded"} \subseteq StepType
    BY DEF StepType
  <1> QED BY <1>0, <1>1, <1>2, <1>3, <1>4, <1>5, <1>6, <1>7, <1>8, <1>9, <1>10, <1>11, <1>12, <1>13, <1>14
          DEF Act, Save, Persist, Finish, Import

\* What a step does to the tables: rows stay, and have their types.
LEMMA AuthorsStep ==
    ASSUME Typed, NEW c \in Clients, Act(c)
    PROVE  authors' \in [AuthorIds -> Author] /\ Present(authors) \subseteq Present(authors)'
  <1> USE DEF Typed
  <1>0. authors \in [AuthorIds -> Author] /\ NotComputed \in 0..NotComputed
        /\ Live(authors) \subseteq Present(authors) /\ Present(authors) \subseteq AuthorIds
    BY PresentTyped, Bounds DEF Tables, NotComputed
  <1>1. \A n \in Names : NewAuthor(n) \in Author /\ NewAuthor(n).state = "live"
    BY <1>0 DEF NewAuthor, Author, RowState
  <1>2. ASSUME NEW a \in AuthorIds, NEW n \in Names, IsNext(authors, a),
               authors' = [authors EXCEPT ![a] = NewAuthor(n)]
        PROVE  authors' \in [AuthorIds -> Author] /\ Present(authors) \subseteq Present(authors)'
    BY <1>0, <1>1, <1>2 DEF Present
  <1>3. ASSUME NEW a \in Live(authors), authors' = [authors EXCEPT ![a].state = "deleted"]
        PROVE  authors' \in [AuthorIds -> Author] /\ Present(authors) \subseteq Present(authors)'
    BY <1>0, <1>3 DEF Present, Author, RowState
  <1>4. ASSUME NEW a \in Live(authors), NEW b \in AuthorIds, IsNext(authors, b),
               authors' = [authors EXCEPT ![a].state = "deleted", ![b] = NewAuthor(authors[a].name)]
        PROVE  authors' \in [AuthorIds -> Author] /\ Present(authors) \subseteq Present(authors)'
    <2>1. authors[a].name \in Names /\ [authors[a] EXCEPT !.state = "deleted"] \in Author
      BY <1>0 DEF Author, RowState
    <2>2. authors' \in [AuthorIds -> Author]
      BY <1>0, <1>1, <1>4, <2>1
    <2>3. \A i \in AuthorIds : authors'[i].state = IF i = b THEN "live" ELSE IF i = a THEN "deleted" ELSE authors[i].state
      BY <1>0, <1>1, <1>4, <2>1 DEF Author
    <2> QED BY <1>0, <2>2, <2>3 DEF Present
  <1>5. ASSUME Refresh(c)
        PROVE  authors' \in [AuthorIds -> Author] /\ Present(authors) \subseteq Present(authors)'
    <2>1. \A a \in AuthorIds : CountOf(a) \in 0..NotComputed
      BY CountTyped
    <2>2. authors' = [a \in AuthorIds |->
             IF a \in Present(authors) THEN [authors[a] EXCEPT !.total = CountOf(a)] ELSE authors[a]]
      BY <1>5 DEF Refresh
    <2>3. \A a \in AuthorIds : authors'[a] \in Author /\ authors'[a].state = authors[a].state
      BY <1>0, <2>1, <2>2 DEF Author
    <2> QED BY <1>0, <2>2, <2>3 DEF Present
  <1>6. ASSUME Insert(c) \/ Update(c) PROVE Current(c).name \in Names
    <2>1. file[c] \in Seq(Record) /\ at[c] \in Nat \ {0} /\ ~(at[c] > Len(file[c]))
      BY <1>6 DEF Imports, Ended, Insert, Update, AtValid
    <2>2. Current(c) \in Record
      BY <2>1 DEF Current
    <2> QED BY <2>2 DEF Record
  <1>7. ASSUME Update(c)
        PROVE  authors' \in [AuthorIds -> Author] /\ Present(authors) \subseteq Present(authors)'
    <2>1. authors' = [authors EXCEPT ![Match(c)].name = Current(c).name]
      BY <1>7 DEF Update
    <2>2. authors' \in [AuthorIds -> Author]
      BY <1>0, <1>6, <1>7, <2>1 DEF Author
    <2>3. \A i \in AuthorIds : authors'[i].state = authors[i].state
      BY <1>0, <2>1 DEF Author
    <2> QED BY <1>0, <2>2, <2>3 DEF Present
  <1>8. CASE CreateAuthor(c) \/ Insert(c)
    BY <1>2, <1>6, <1>8 DEF CreateAuthor, Insert
  <1>9. CASE DeleteAuthor(c) \/ PublishAuthor(c)
    BY <1>3, <1>4, <1>9 DEF DeleteAuthor, PublishAuthor
  <1>10. CASE UNCHANGED authors
    BY <1>0, <1>10 DEF Present
  <1> QED BY <1>5, <1>7, <1>8, <1>9, <1>10
          DEF Act, Save, Persist, Finish, CutOff, Import, UpdateAuthor, SaveBook, DeleteBook, ResolveBooks,
              ReadTargets, ClearBook, Cleared, SetBook, BooksSet, ResolveTags, DeleteLinks, InsertLink, Linked,
              FailRelation, SetAuthor, Reply, StartImport, Refuse, Skip, Recorded, FailRecord, Tally, EndImport

LEMMA BooksStep ==
    ASSUME Typed, NEW c \in Clients, Act(c)
    PROVE  /\ books' \in [BookIds -> Book] /\ Present(books) \subseteq Present(books)'
           /\ \A b \in BookIds : books'[b].author \in Present(authors) \cup {NoAuthor}
  <1> USE DEF Typed
  <1> DEFINE Ok == /\ books' \in [BookIds -> Book] /\ Present(books) \subseteq Present(books)'
                   /\ \A b \in BookIds : books'[b].author \in Present(authors) \cup {NoAuthor}
  <1>0. /\ books \in [BookIds -> Book] /\ Present(authors) \subseteq AuthorIds
        /\ Live(books) \subseteq Present(books) /\ Present(books) \subseteq BookIds
        /\ \A b \in BookIds : books[b].author \in Present(authors) \cup {NoAuthor}
    BY PresentTyped DEF Tables, RowsInv
  <1>1. ASSUME NEW b \in BookIds, NEW a \in Present(authors) \cup {NoAuthor},
               books' = [books EXCEPT ![b].author = a]
        PROVE  Ok
    BY <1>0, <1>1 DEF Present, Book
  <1>2. ASSUME ClearBook(c) \/ SetBook(c) \/ SetAuthor(c) PROVE Ok
    <2>1. /\ job[c].clear \in SUBSET BookIds
          /\ pc[c] = "set" /\ job[c].todo # <<>> => Head(job[c].todo) \in Present(books)
      <3>1. job[c] \in JobType /\ JobInv(c)
        BY DEF Locals, JobsInv
      <3>2. job[c].todo \in Seq(Nat)
        BY <3>1 DEF JobType
      <3> QED BY <3>1, <3>2, TailTyped DEF JobType, JobInv
    <2>2. CASE ClearBook(c)
      BY <1>1, <2>1, <2>2 DEF ClearBook
    <2>3. CASE SetBook(c)
      <3>1. job[c].id \in Present(authors)
        BY <2>3 DEF SetBook, JobsInv, JobInv, Relating
      <3> QED BY <1>0, <1>1, <2>1, <2>3, <3>1 DEF SetBook
    <2>4. CASE SetAuthor(c)
      <3>1. job[c].id \in BookIds /\ Head(job[c].ids) \in Present(authors) \cup {NoAuthor}
        BY <2>4 DEF SetAuthor, JobsInv, JobInv
      <3> QED BY <1>1, <2>4, <3>1 DEF SetAuthor
    <2> QED BY <1>2, <2>2, <2>3, <2>4
  <1>3. ASSUME NEW b \in BookIds, books' = [books EXCEPT ![b] = NextBook(NoAuthor)] PROVE Ok
    <2>1. NextBook(NoAuthor) \in Book /\ NextBook(NoAuthor).state = "live"
          /\ NextBook(NoAuthor).author = NoAuthor
      BY DEF NextBook, Book, RowState
    <2> QED BY <1>0, <1>3, <2>1 DEF Present
  <1>4. ASSUME DeleteBook(c) PROVE Ok
    <2>1. PICK b \in BookIds : books' = [books EXCEPT ![b].state = "deleted"]
      BY <1>0, <1>4 DEF DeleteBook
    <2> QED BY <1>0, <2>1 DEF Present, Book, RowState
  <1>5. ASSUME UNCHANGED books PROVE Ok
    BY <1>0, <1>5 DEF Present
  <1>6. ASSUME SaveBook(c) PROVE Ok
    BY <1>3, <1>5, <1>6 DEF SaveBook
  <1> HIDE DEF Ok
  <1>7. \/ UNCHANGED books
        \/ ClearBook(c) \/ SetBook(c) \/ SetAuthor(c) \/ SaveBook(c) \/ DeleteBook(c)
    BY DEF Act, Save, Persist, Finish, CutOff, Import, CreateAuthor, UpdateAuthor, DeleteAuthor, PublishAuthor,
           ResolveBooks, ReadTargets, Cleared, BooksSet, ResolveTags, DeleteLinks, InsertLink, Linked,
           FailRelation, Refresh, Reply, StartImport, Refuse, Skip, Insert, Update, WriteRecord, Recorded,
           FailRecord, Tally, EndImport
  <1>8. Ok
    BY <1>2, <1>4, <1>5, <1>6, <1>7
  <1> QED BY <1>8 DEF Ok

LEMMA LinksStep ==
    ASSUME Typed, NEW c \in Clients, Act(c)
    PROVE  /\ links' \in [AuthorIds -> Seq(Link)]
           /\ \A a \in AuthorIds : \A l \in InList(links'[a]) : l.book \in Present(books)
  <1> USE DEF Typed
  <1>0. /\ links \in [AuthorIds -> Seq(Link)] /\ Present(books) \subseteq BookIds
        /\ \A a \in AuthorIds : \A l \in InList(links[a]) : l.book \in Present(books)
    BY PresentTyped DEF Tables, RowsInv
  <1>1. CASE DeleteLinks(c)
    <2>1. links' = [links EXCEPT ![job[c].id] = <<>>]
      BY <1>1 DEF DeleteLinks, Unlinked
    <2>2. <<>> \in Seq(Link) /\ InList(<<>>) = {}
      BY DEF InList
    <2> QED BY <1>0, <2>1, <2>2
  <1>2. CASE InsertLink(c)
    <2>1. job[c] \in JobType /\ JobInv(c) /\ pc[c] = "link" /\ job[c].todo # <<>>
      BY <1>2 DEF InsertLink, Locals, JobsInv
    <2>2. job[c].todo \in Seq(Nat) /\ job[c].ids \in Seq(Nat) /\ Len(job[c].todo) <= Len(job[c].ids)
      BY <2>1 DEF JobType, JobInv
    <2>3. Head(job[c].todo) \in Present(books)
      BY <2>1, <2>2, TailTyped DEF JobInv
    <2> DEFINE new == [book |-> Head(job[c].todo), order |-> Len(job[c].ids) - Len(job[c].todo) + 1]
    <2>4. new \in Link /\ new.book \in Present(books)
      BY <1>0, <2>2, <2>3 DEF Link
    <2>5. links' = [links EXCEPT ![job[c].id] = Append(@, new)]
      BY <1>2 DEF InsertLink
    <2> HIDE DEF new
    <2>6. ASSUME NEW list \in Seq(Link), \A l \in InList(list) : l.book \in Present(books)
          PROVE  Append(list, new) \in Seq(Link) /\ \A l \in InList(Append(list, new)) : l.book \in Present(books)
      <3>1. Append(list, new) \in Seq(Link) /\ Len(Append(list, new)) = Len(list) + 1
            /\ \A i \in 1..(Len(list) + 1) : Append(list, new)[i] = IF i <= Len(list) THEN list[i] ELSE new
        BY <2>4
      <3>2. ASSUME NEW i \in DOMAIN Append(list, new) PROVE Append(list, new)[i].book \in Present(books)
        <4>1. i \in 1..(Len(list) + 1)
          BY <3>1
        <4>2. CASE i <= Len(list)
          <5>1. i \in DOMAIN list
            BY <4>1, <4>2
          <5> QED BY <2>6, <3>1, <4>1, <4>2, <5>1 DEF InList
        <4> QED BY <2>4, <3>1, <4>1, <4>2
      <3> QED BY <3>1, <3>2 DEF InList
    <2> QED BY <1>0, <2>5, <2>6
  <1>3. CASE UNCHANGED links
    BY <1>0, <1>3
  <1> QED BY <1>1, <1>2, <1>3
          DEF Act, Save, Persist, Finish, CutOff, Import, CreateAuthor, UpdateAuthor, DeleteAuthor, PublishAuthor,
              SaveBook, DeleteBook, ResolveBooks, ReadTargets, ClearBook, Cleared, SetBook, BooksSet, ResolveTags,
              Linked, FailRelation, SetAuthor, Refresh, Reply, StartImport, Refuse, Skip, Insert, Update,
              WriteRecord, Recorded, FailRecord, Tally, EndImport

LEMMA CurrentTyped ==
    ASSUME Imports, NEW c \in Clients, ~Ended(c)
    PROVE  Current(c) \in Record
  <1>1. file[c] \in Seq(Record) /\ at[c] \in Nat \ {0} /\ ~(at[c] > Len(file[c]))
    BY DEF Imports, Ended
  <1> QED BY <1>1 DEF Current

\* Each name has the last of its authors, which is one.
LEMMA ExistingFound ==
    ASSUME Tables
    PROVE  /\ LoadExisting \in [Names -> AuthorIds \cup {NoAuthor}]
           /\ \A n \in Names : IF Named(n) = {} THEN LoadExisting[n] = NoAuthor
                               ELSE LoadExisting[n] \in Named(n)
  <1>1. \A n \in Names : Named(n) \in SUBSET (1..MaxAuthors)
    BY PresentTyped DEF Named, AuthorIds
  <1>2. ASSUME NEW n \in Names, Named(n) # {}
        PROVE  (CHOOSE a \in Named(n) : \A b \in Named(n) : b <= a) \in Named(n)
    <2>1. \E a \in Named(n) : \A b \in Named(n) : b <= a
      BY <1>1, <1>2, LastOf, Bounds
    <2> QED BY <2>1
  <1>3. \A n \in Names : LoadExisting[n] = IF Named(n) = {} THEN NoAuthor
                                           ELSE CHOOSE a \in Named(n) : \A b \in Named(n) : b <= a
    BY DEF LoadExisting
  <1>4. \A n \in Names : IF Named(n) = {} THEN LoadExisting[n] = NoAuthor ELSE LoadExisting[n] \in Named(n)
    BY <1>2, <1>3
  <1>5. \A n \in Names : LoadExisting[n] \in AuthorIds \cup {NoAuthor}
    BY <1>1, <1>4 DEF AuthorIds
  <1>6. LoadExisting = [n \in Names |-> LoadExisting[n]]
    BY DEF LoadExisting
  <1> QED BY <1>4, <1>5, <1>6

LEMMA ReportTyped ==
    ASSUME NEW r \in Report
    PROVE  /\ [r EXCEPT !.failed = @ + 1, !.errors = @ + 1] \in Report
           /\ [r EXCEPT !.failed = @ + 1] \in Report
           /\ [r EXCEPT !.skipped = @ + 1] \in Report
           /\ [r EXCEPT !.created = @ + 1] \in Report
           /\ [r EXCEPT !.updated = @ + 1] \in Report
  <1>1. /\ r.created + 1 \in Nat /\ r.updated + 1 \in Nat /\ r.skipped + 1 \in Nat
        /\ r.failed + 1 \in Nat /\ r.errors + 1 \in Nat
    BY DEF Report
  <1>2. ASSUME NEW v \in Nat, NEW w \in Nat
        PROVE  /\ [r EXCEPT !.failed = v, !.errors = w] \in Report
               /\ [r EXCEPT !.failed = v] \in Report
               /\ [r EXCEPT !.skipped = v] \in Report
               /\ [r EXCEPT !.created = v] \in Report
               /\ [r EXCEPT !.updated = v] \in Report
    BY DEF Report
  <1> QED BY <1>1, <1>2

LEMMA ImportsStep ==
    ASSUME Typed, NEW c \in Clients, Act(c)
    PROVE  Imports'
  <1> USE DEF Typed
  <1>1. report[c] \in Report /\ NoReport \in Report
    BY DEF Imports, Report, NoReport
  <1>2. CASE StartImport(c)
    <2>1. LoadExisting \in [Names -> AuthorIds \cup {NoAuthor}]
      BY ExistingFound
    <2>2. PICK f \in Seq(Record) : file' = [file EXCEPT ![c] = f]
      BY <1>2, ImportAssumption DEF StartImport
    <2>3. at' \in [Clients -> Nat \ {0}] /\ file' \in [Clients -> Seq(Record)]
      BY <1>2, <2>2 DEF StartImport, Imports
    <2>4. existing' \in [Clients -> [Names -> AuthorIds \cup {NoAuthor}]] /\ report' \in [Clients -> Report]
      BY <1>1, <1>2, <2>1 DEF StartImport, Imports
    <2> QED BY <2>3, <2>4 DEF Imports
  <1>3. ASSUME NEW r \in Report, Tally(c, r) PROVE Imports'
    BY <1>3 DEF Tally, Imports
  <1>4. CASE Refuse(c) \/ Skip(c) \/ Recorded(c) \/ FailRecord(c)
    BY <1>1, <1>3, <1>4, ReportTyped DEF Refuse, Skip, Recorded, FailRecord, CountedFailure
  <1>8. CASE UNCHANGED importVars
    BY <1>8 DEF importVars, Imports
  <1> QED BY <1>2, <1>4, <1>8 DEF Act, Import, Insert, Update, WriteRecord, EndImport

LEMMA FlagsStep ==
    ASSUME Typed, NEW c \in Clients, Act(c)
    PROVE  Flags'
  <1> USE DEF Typed
  <1>1. PICK s \in StepType, l \in JobType : Goto(c, s, l) \/ Begin(c, s, l)
    BY Steps
  <1>2. alone' \in [Clients -> BOOLEAN]
    BY <1>1, Goes
  <1>3. ASSUME NEW t, NEW m, Begin(c, t, m) PROVE calls' \in 0..MaxCalls
    BY <1>3, Bounds DEF Begin, Flags
  <1>4. calls' = calls \/ \E t, m : Begin(c, t, m)
    BY DEF Act, Save, Persist, Finish, CutOff, Import, CreateAuthor, UpdateAuthor, DeleteAuthor,
           PublishAuthor, SaveBook, DeleteBook, ResolveBooks, ReadTargets, ClearBook, Cleared, SetBook,
           BooksSet, ResolveTags, DeleteLinks, InsertLink, Linked, FailRelation, SetAuthor, Refresh,
           Reply, StartImport, Refuse, Skip, Insert, Update, WriteRecord, Recorded,
           FailRecord, Tally, EndImport
  <1>5. stale' \in BOOLEAN
    <2>1. stale \in BOOLEAN
      BY DEF Flags
    <2>2. stale' = stale \/ stale' = TRUE \/ stale' = FALSE \/ Unrefreshed(c)
      BY DEF Act, Save, Persist, Finish, CutOff, Import, CreateAuthor, UpdateAuthor, DeleteAuthor,
           PublishAuthor, SaveBook, DeleteBook, ResolveBooks, ReadTargets, ClearBook, Cleared, SetBook,
           BooksSet, ResolveTags, DeleteLinks, InsertLink, Linked, FailRelation, SetAuthor, Refresh,
           Reply, StartImport, Refuse, Skip, Insert, Update, WriteRecord, Recorded,
           FailRecord, EndImport
    <2> QED BY <2>1, <2>2 DEF Unrefreshed
  <1>6. calls' \in 0..MaxCalls
    BY <1>3, <1>4 DEF Flags
  <1> QED BY <1>2, <1>5, <1>6 DEF Flags

LEMMA JobStep ==
    ASSUME Typed, NEW c \in Clients, Act(c)
    PROVE  JobInv(c)'
  <1> USE DEF Typed
  <1>0. job[c] \in JobType /\ JobInv(c) /\ pc[c] \in StepType
    BY DEF Locals, JobsInv
  <1>1. ASSUME NEW s, NEW l, Goto(c, s, l) \/ Begin(c, s, l)
        PROVE  pc'[c] = s /\ job'[c] = l
    BY <1>1 DEF Goto, Begin, Locals
  <1>2. Present(authors) \subseteq Present(authors)' /\ Present(books) \subseteq Present(books)'
    BY AuthorsStep, BooksStep
  <1>3. Live(books) \subseteq Present(books) /\ Present(books) \subseteq BookIds
        /\ Live(authors) \subseteq Present(authors)
    BY PresentTyped
  \* A step that does not begin a job about an author leaves it as it was.
  <1>4. ASSUME pc[c] \in Relating => pc'[c] \notin {"author"} /\ job'[c].id = job[c].id,
               pc[c] \in Relating,
               pc'[c] \in {"reconcile", "clear"} => InList(job'[c].ids) \subseteq Present(books),
               pc'[c] \in {"set", "unlink", "link"} => InList(job'[c].todo) \subseteq Present(books),
               pc'[c] \in {"unlink", "link"} => Len(job'[c].todo) <= Len(job'[c].ids)
        PROVE  JobInv(c)'
    BY <1>0, <1>2, <1>4 DEF JobInv
  <1>5. CASE ResolveBooks(c)
    <2>1. CASE job[c].books = NotGiven
      <3>1. pc'[c] \in {"tags", "refresh", "recorded"} /\ job'[c] = job[c] /\ pc[c] = "books"
        BY <1>1, <1>5, <2>1, PersistedTyped DEF ResolveBooks
      <3> QED BY <1>4, <3>1 DEF Relating
    <2>2. CASE job[c].books # NotGiven
      <3>1. pc'[c] = "reconcile" /\ job'[c] = [job[c] EXCEPT !.ids = job[c].books] /\ pc[c] = "books"
        BY <1>1, <1>5, <2>2 DEF ResolveBooks
      <3>2. InList(job[c].books) \subseteq Live(books)
        BY <1>5, <2>2 DEF ResolveBooks, Resolved, InList
      <3>3. job'[c].ids = job[c].books /\ job'[c].id = job[c].id
        BY <1>0, <3>1 DEF JobType
      <3> QED BY <1>3, <1>4, <3>1, <3>2, <3>3 DEF Relating
    <2> QED BY <2>1, <2>2
  <1>6. CASE ReadTargets(c) \/ ClearBook(c)
    <2>1. pc'[c] = "clear" /\ job'[c].ids = job[c].ids /\ job'[c].id = job[c].id
          /\ pc[c] \in {"reconcile", "clear"}
      <3>1. /\ pc[c] \in {"reconcile", "clear"} /\ pc'[c] = "clear"
            /\ \E v : job'[c] = [job[c] EXCEPT !.clear = v]
        BY <1>1, <1>6 DEF ReadTargets, ClearBook
      <3> QED BY <1>0, <3>1 DEF JobType
    <2>2. InList(job[c].ids) \subseteq Present(books)
      BY <1>0, <2>1 DEF JobInv
    <2> QED BY <1>4, <2>1, <2>2 DEF Relating
  <1>7. CASE Cleared(c)
    <2>1. pc'[c] = "set" /\ job'[c].todo = job[c].ids /\ job'[c].id = job[c].id /\ pc[c] = "clear"
      <3>1. pc'[c] = "set" /\ job'[c] = [job[c] EXCEPT !.todo = job[c].ids] /\ pc[c] = "clear"
        BY <1>1, <1>7 DEF Cleared
      <3> QED BY <1>0, <3>1 DEF JobType
    <2>2. InList(job[c].ids) \subseteq Present(books)
      BY <1>0, <2>1 DEF JobInv
    <2> QED BY <1>4, <2>1, <2>2 DEF Relating
  <1>8. CASE SetBook(c) \/ InsertLink(c) \/ DeleteLinks(c)
    <2>1. /\ pc[c] \in {"set", "unlink", "link"} /\ pc'[c] \in {"set", "link"}
          /\ pc'[c] = "link" => pc[c] \in {"unlink", "link"}
          /\ job'[c].ids = job[c].ids /\ job'[c].id = job[c].id
          /\ \/ job'[c].todo = job[c].todo
             \/ job[c].todo # <<>> /\ job'[c].todo = Tail(job[c].todo)
      <3>1. CASE DeleteLinks(c)
        BY <1>1, <3>1 DEF DeleteLinks
      <3>2. CASE SetBook(c) \/ InsertLink(c)
        <4>1. /\ pc[c] \in {"set", "link"} /\ pc'[c] = pc[c] /\ job[c].todo # <<>>
              /\ job'[c] = [job[c] EXCEPT !.todo = Tail(job[c].todo)]
          BY <1>1, <3>2 DEF SetBook, InsertLink
        <4>2. /\ job'[c].ids = job[c].ids /\ job'[c].id = job[c].id
              /\ job'[c].todo = Tail(job[c].todo)
          BY <1>0, <4>1 DEF JobType
        <4> QED BY <4>1, <4>2
      <3> QED BY <1>8, <3>1, <3>2
    <2>2. job[c].todo \in Seq(Nat) /\ job[c].ids \in Seq(Nat)
      BY <1>0 DEF JobType
    <2>3. InList(job'[c].todo) \subseteq InList(job[c].todo) /\ Len(job'[c].todo) <= Len(job[c].todo)
          /\ Len(job'[c].todo) \in Nat
      <3>1. Len(job[c].todo) \in Nat
        BY <2>2
      <3>2. CASE job'[c].todo = job[c].todo
        BY <3>1, <3>2
      <3>3. CASE job[c].todo # <<>> /\ job'[c].todo = Tail(job[c].todo)
        <4>1. InList(Tail(job[c].todo)) \subseteq InList(job[c].todo) /\ Len(Tail(job[c].todo)) = Len(job[c].todo) - 1
              /\ Tail(job[c].todo) \in Seq(Nat)
          BY <2>2, <3>3, TailTyped
        <4>2. Len(job'[c].todo) = Len(job[c].todo) - 1 /\ InList(job'[c].todo) \subseteq InList(job[c].todo)
              /\ Len(job'[c].todo) \in Nat
          BY <3>3, <4>1
        <4> QED BY <3>1, <4>2
      <3> QED BY <2>1, <3>2, <3>3
    <2>4. InList(job[c].todo) \subseteq Present(books)
          /\ (pc'[c] = "link" => Len(job[c].todo) <= Len(job[c].ids))
      BY <1>0, <2>1 DEF JobInv
    <2>5. pc'[c] = "link" => Len(job'[c].todo) <= Len(job'[c].ids)
      <3>1. Len(job[c].todo) \in Nat /\ Len(job[c].ids) \in Nat
        BY <2>2
      <3> QED BY <2>1, <2>3, <2>4, <3>1
    <2> QED BY <1>4, <2>1, <2>3, <2>4, <2>5 DEF Relating
  <1>9. CASE BooksSet(c) \/ Linked(c)
    <2>1. pc'[c] \in {"tags", "refresh", "recorded"} /\ job'[c] = job[c] /\ pc[c] \in {"set", "link"}
      BY <1>1, <1>9, PersistedTyped DEF BooksSet, Linked
    <2> QED BY <1>4, <2>1 DEF Relating
  <1>10. CASE ResolveTags(c)
    <2>1. pc'[c] = "unlink" /\ job'[c] = [job[c] EXCEPT !.ids = job[c].tags, !.todo = job[c].tags]
          /\ pc[c] = "tags" /\ InList(job[c].tags) \subseteq Live(books)
      BY <1>1, <1>10 DEF ResolveTags, Resolved, InList
    <2>2. job'[c].ids = job[c].tags /\ job'[c].todo = job[c].tags /\ job'[c].id = job[c].id
      BY <1>0, <2>1 DEF JobType
    <2>3. Len(job[c].tags) \in Nat
      BY <1>0, ListTyped DEF JobType
    <2> QED BY <1>3, <1>4, <2>1, <2>2, <2>3 DEF Relating
  <1>11. CASE CreateAuthor(c) \/ UpdateAuthor(c) \/ Insert(c) \/ Update(c)
    <2>1. pc'[c] = "books" /\ job'[c].id \in Present(authors)'
      <3>1. PICK a \in AuthorIds :
               /\ pc'[c] = "books" /\ job'[c].id = a
               /\ a \in Live(authors) \/ \E n : authors' = [authors EXCEPT ![a] = NewAuthor(n)]
        <4>1. CASE CreateAuthor(c)
          <5>1. PICK a \in AuthorIds, n \in Names, bs \in BookLists, ts \in TagLists :
                   /\ authors' = [authors EXCEPT ![a] = NewAuthor(n)]
                   /\ Begin(c, "books", [IdleJob EXCEPT !.id = a, !.books = bs, !.tags = ts])
            BY <4>1 DEF CreateAuthor
          <5> DEFINE l == [IdleJob EXCEPT !.id = a, !.books = bs, !.tags = ts]
          <5>2. l.id = a
            BY DEF IdleJob
          <5> HIDE DEF l
          <5>3. pc'[c] = "books" /\ job'[c] = l
            BY <1>1, <5>1 DEF l
          <5> QED BY <5>1, <5>2, <5>3
        <4>2. CASE UpdateAuthor(c)
          <5>1. PICK a \in Live(authors), bs \in BookLists, ts \in TagLists :
                   Begin(c, "books", [IdleJob EXCEPT !.id = a, !.books = bs, !.tags = ts])
            BY <4>2 DEF UpdateAuthor
          <5> DEFINE l == [IdleJob EXCEPT !.id = a, !.books = bs, !.tags = ts]
          <5>2. l.id = a
            BY DEF IdleJob
          <5> HIDE DEF l
          <5>3. pc'[c] = "books" /\ job'[c] = l
            BY <1>1, <5>1 DEF l
          <5> QED BY <5>2, <5>3, PresentTyped DEF Typed
        <4>3. CASE Insert(c) \/ Update(c)
          <5>1. PICK a \in AuthorIds :
                   /\ a \in Live(authors) \/ \E n : authors' = [authors EXCEPT ![a] = NewAuthor(n)]
                   /\ WriteRecord(c, a)
            BY <4>3, PresentTyped DEF Insert, Update
          <5> DEFINE l == [IdleJob EXCEPT !.id = a, !.books = Current(c).books,
                                          !.tags = Current(c).tags, !.then = "recorded"]
          <5>2. l.id = a
            BY DEF IdleJob
          <5> HIDE DEF l
          <5>3. pc'[c] = "books" /\ job'[c] = l
            BY <1>1, <5>1 DEF WriteRecord, l
          <5> QED BY <5>1, <5>2, <5>3
        <4> QED BY <1>11, <4>1, <4>2, <4>3
      <3>2. pc'[c] = "books" /\ job'[c].id = a
        BY <3>1
      <3>3. CASE a \in Live(authors)
        BY <1>2, <1>3, <3>2, <3>3
      <3>4. ASSUME NEW n, authors' = [authors EXCEPT ![a] = NewAuthor(n)] PROVE a \in Present(authors)'
        BY <3>4 DEF Tables, Present, NewAuthor
      <3> QED BY <3>1, <3>2, <3>3, <3>4
    <2> QED BY <2>1 DEF JobInv, Relating
  <1>12. CASE SaveBook(c)
    <2>1. PICK b \in BookIds, a \in Live(authors) \cup {NoAuthor} :
             Begin(c, "author", [IdleJob EXCEPT !.id = b, !.ids = <<a>>])
      BY <1>12 DEF SaveBook
    <2>2. pc'[c] = "author" /\ job'[c].id = b /\ Head(job'[c].ids) = a
      <3>1. pc'[c] = "author" /\ job'[c] = [IdleJob EXCEPT !.id = b, !.ids = <<a>>]
        BY <1>1, <2>1
      <3> QED BY <3>1 DEF IdleJob
    <2> QED BY <1>2, <1>3, <2>2 DEF JobInv, Relating
  <1>13. CASE pc'[c] \in {"idle", "refresh", "reply", "record"}
    BY <1>13 DEF JobInv, Relating
  <1>14. ASSUME DeleteAuthor(c) \/ DeleteBook(c) \/ PublishAuthor(c) \/ FailRelation(c) \/ SetAuthor(c)
                \/ Refresh(c) \/ Reply(c) \/ CutOff(c) \/ StartImport(c) \/ Refuse(c) \/ Skip(c)
                \/ Recorded(c) \/ FailRecord(c) \/ EndImport(c)
         PROVE  pc'[c] \in {"idle", "refresh", "reply", "record"}
    BY <1>1, <1>14 DEF DeleteAuthor, DeleteBook, PublishAuthor, FailRelation, SetAuthor, Refresh, Reply, CutOff,
       StartImport, Refuse, Skip, Recorded, FailRecord, EndImport, Unrefreshed, Tally
  <1> QED BY <1>5, <1>6, <1>7, <1>8, <1>9, <1>10, <1>11, <1>12, <1>13, <1>14 DEF Act, Save, Persist, Finish, Import

LEMMA TypedStep ==
    ASSUME Typed, NEW c \in Clients, Act(c)
    PROVE  Typed'
  <1>1. PICK s \in StepType, l \in JobType : Goto(c, s, l) \/ Begin(c, s, l)
    BY Steps
  <1>2. Locals'
    BY <1>1, Goes DEF Typed
  <1>3. Present(authors) \subseteq Present(authors)' /\ Present(books) \subseteq Present(books)'
    BY AuthorsStep, BooksStep
  <1>4. Tables' /\ RowsInv'
    <2>1. Tables'
      BY AuthorsStep, BooksStep, LinksStep DEF Tables
    <2>2. \A b \in BookIds : books'[b].author # NoAuthor => books'[b].author \in Present(authors)'
      BY <1>3, BooksStep
    <2>3. \A a \in AuthorIds : \A k \in InList(links'[a]) : k.book \in Present(books)'
      BY <1>3, LinksStep
    <2>4. \A a \in AuthorIds : InList(links'[a]) = InList(links[a])'
      OBVIOUS
    <2> QED BY <2>1, <2>2, <2>3 DEF RowsInv, InList
  <1>5. JobsInv'
    <2>1. ASSUME NEW d \in Clients \ {c} PROVE JobInv(d)'
      <3>1. pc'[d] = pc[d] /\ job'[d] = job[d] /\ JobInv(d)
        BY OthersStay DEF Typed, JobsInv
      <3> QED BY <1>3, <3>1 DEF JobInv, InList
    <2> QED BY <2>1, JobStep DEF JobsInv
  <1> QED BY <1>2, <1>4, <1>5, ImportsStep, FlagsStep DEF Typed

-----------------------------------------------------------------------------
(* Between the steps of a call.                                            *)

LEMMA AloneStep ==
    ASSUME Typed, AloneInv, NEW c \in Clients, Act(c)
    PROVE  AloneInv'
  <1>1. ASSUME NEW s, NEW l, Goto(c, s, l) \/ Begin(c, s, l), alone'[c]
        PROVE  \A d \in Clients \ {c} : pc[d] = "idle"
    BY <1>1 DEF Goto, Begin, AloneInv, Typed, Flags
  <1>2. \E s, l : Goto(c, s, l) \/ Begin(c, s, l)
    BY Steps
  <1>3. \A d \in Clients \ {c} : pc'[d] = pc[d] /\ ~alone'[d]
    BY OthersStay DEF Typed
  <1> QED BY <1>1, <1>2, <1>3 DEF AloneInv

\* A step after which everybody is clean and nothing is stale is a refresh, or
\* writes nothing and comes from such a state.
LEMMA TotalsStep ==
    ASSUME Typed, TotalsInv, NEW c \in Clients, Act(c)
    PROVE  TotalsInv'
  <1> SUFFICES ASSUME ~stale', \A d \in Clients : pc'[d] \in Clean
               PROVE  \A a \in Live(authors)' : authors'[a].total = Cardinality(BooksOf(a))'
    BY DEF TotalsInv
  <1>1. ASSUME NEW s, NEW l, Goto(c, s, l) \/ Begin(c, s, l) PROVE pc'[c] = s
    BY <1>1 DEF Goto, Begin, Typed, Locals
  <1>2. CASE Refresh(c)
    <2>1. /\ authors' = [a \in AuthorIds |->
                IF a \in Present(authors) THEN [authors[a] EXCEPT !.total = CountOf(a)] ELSE authors[a]]
          /\ books' = books /\ authors \in [AuthorIds -> Author]
      BY <1>2 DEF Refresh, Typed, Tables
    <2>2. ASSUME NEW a \in Live(authors)' PROVE authors'[a].total = CountOf(a)
      <3>1. a \in AuthorIds /\ authors'[a].state = "live"
        BY <2>1 DEF Live
      <3>2. a \in Present(authors)
        BY <2>1, <3>1 DEF Present, Author
      <3> QED BY <2>1, <3>1, <3>2 DEF Author
    <2>3. \A a : BooksOf(a)' = BooksOf(a)
      BY <2>1 DEF BooksOf, Live
    <2> QED BY <2>2, <2>3 DEF CountOf
  <1>3. ASSUME pc[c] \in Clean, stale' = stale, authors' = authors, books' = books
        PROVE  \A a \in Live(authors)' : authors'[a].total = Cardinality(BooksOf(a))'
    <2>1. \A d \in Clients : pc[d] \in Clean
      BY <1>3, OthersStay DEF Typed
    <2>2. Live(authors)' = Live(authors) /\ \A a : BooksOf(a)' = BooksOf(a)
      BY <1>3 DEF BooksOf, Live
    <2> QED BY <1>3, <2>1, <2>2 DEF TotalsInv
  <1>4. ASSUME StartImport(c) \/ Refuse(c) \/ Skip(c) \/ EndImport(c) \/ Reply(c)
        PROVE  pc[c] \in Clean /\ stale' = stale /\ authors' = authors /\ books' = books
    <2>1. \A r : Tally(c, r) => authors' = authors /\ books' = books
      BY DEF Tally
    <2>2. CASE Refuse(c) \/ Skip(c)
      BY <2>1, <2>2 DEF Refuse, Skip, AtValid, Clean
    <2>3. CASE StartImport(c) \/ EndImport(c) \/ Reply(c)
      BY <2>3 DEF StartImport, EndImport, Reply, Clean
    <2> QED BY <1>4, <2>2, <2>3
  <1>5. ASSUME FailRelation(c) \/ CutOff(c)
        PROVE  pc[c] \in Clean /\ stale' = stale /\ authors' = authors /\ books' = books
    BY <1>5 DEF FailRelation, CutOff, Unrefreshed, Clean, Typed, Flags
  <1>6. ASSUME PublishAuthor(c) \/ Recorded(c) \/ FailRecord(c) PROVE FALSE
    BY <1>6 DEF PublishAuthor, Recorded, FailRecord
  <1>7. ASSUME CreateAuthor(c) \/ UpdateAuthor(c) \/ DeleteAuthor(c) \/ SaveBook(c) \/ DeleteBook(c)
               \/ Persist(c) \/ SetAuthor(c) \/ Insert(c) \/ Update(c)
        PROVE  FALSE
    <2>1. pc'[c] \notin Clean
      BY <1>1, <1>7, PersistedTyped
         DEF CreateAuthor, UpdateAuthor, DeleteAuthor, SaveBook, DeleteBook, Persist, SetAuthor, Insert, Update,
             WriteRecord, ResolveBooks, ReadTargets, ClearBook, Cleared, SetBook, BooksSet, ResolveTags,
             DeleteLinks, InsertLink, Linked, Clean, Typed
    <2> QED BY <2>1
  <1> QED BY <1>2, <1>3, <1>4, <1>5, <1>6, <1>7 DEF Act, Save, Finish, Import

\* The end of a list is an item and the end after it.
LEMMA HeadAndTail ==
    ASSUME NEW S, NEW list \in Seq(S), list # <<>>
    PROVE  /\ InList(list) = InList(Tail(list)) \cup {Head(list)}
           /\ \A i \in 1..Len(Tail(list)) : Tail(list)[i] = list[i + 1]
           /\ list[1] = Head(list)
  <1>1. /\ Len(list) \in Nat \ {0} /\ DOMAIN list = 1..Len(list) /\ Head(list) = list[1]
        /\ DOMAIN Tail(list) = 1..(Len(list) - 1) /\ Len(Tail(list)) = Len(list) - 1
    OBVIOUS
  <1>2. \A i \in 1..(Len(list) - 1) : Tail(list)[i] = list[i + 1]
    BY <1>1
  <1>3. ASSUME NEW i \in DOMAIN list PROVE list[i] \in InList(Tail(list)) \cup {Head(list)}
    <2>1. CASE i = 1
      BY <1>1, <2>1
    <2>2. CASE i # 1
      <3>1. i - 1 \in DOMAIN Tail(list) /\ Tail(list)[i - 1] = list[i]
        BY <1>1, <1>2, <1>3, <2>2
      <3> QED BY <3>1 DEF InList
    <2> QED BY <2>1, <2>2
  <1>4. InList(Tail(list)) \cup {Head(list)} \subseteq InList(list)
    BY TailTyped
  <1> QED BY <1>1, <1>2, <1>3, <1>4 DEF InList

\* The books of a save that runs alone, step by step.
LEMMA BooksInvStep ==
    ASSUME Typed, NEW c \in Clients, Act(c), BooksInv(c) \/ ~alone[c], alone'[c]
    PROVE  BooksInv(c)'
  <1>0. job[c] \in JobType /\ JobInv(c) /\ books \in [BookIds -> Book] /\ alone \in [Clients -> BOOLEAN]
    BY DEF Typed, Locals, JobsInv, Tables, Flags
  <1>1. ASSUME NEW s, NEW l, Goto(c, s, l) \/ Begin(c, s, l)
        PROVE  pc'[c] = s /\ job'[c] = l
    BY <1>1 DEF Goto, Begin, Typed, Locals
  <1>2. ASSUME NEW s, NEW l, Goto(c, s, l) PROVE BooksInv(c)
    BY <1>0, <1>2 DEF Goto
  <1>3. /\ Live(books) \subseteq BookIds /\ Present(authors) \subseteq AuthorIds
        /\ \A a : BooksOf(a) = {b \in Live(books) : books[b].author = a}
    BY PresentTyped DEF Typed, BooksOf
  <1>4. CASE ResolveBooks(c)
    <2>1. CASE job[c].books = NotGiven
      <3>1. pc'[c] \in {"tags", "refresh", "recorded"} /\ job'[c] = job[c]
        BY <1>1, <1>4, <2>1, PersistedTyped DEF ResolveBooks, Typed
      <3> QED BY <2>1, <3>1 DEF BooksInv
    <2>2. CASE job[c].books # NotGiven
      <3>1. pc'[c] = "reconcile" /\ job'[c] = [job[c] EXCEPT !.ids = job[c].books] /\ books' = books
        BY <1>1, <1>4, <2>2 DEF ResolveBooks
      <3>2. InList(job[c].books) \subseteq Live(books)
        BY <1>4, <2>2 DEF ResolveBooks, Resolved, InList
      <3>3. job'[c].ids = job[c].books /\ job'[c].books = job[c].books
        BY <1>0, <3>1 DEF JobType
      <3> QED BY <3>1, <3>2, <3>3 DEF BooksInv, InList, Live
    <2> QED BY <2>1, <2>2
  <1>5. CASE ReadTargets(c)
    <2>1. /\ pc[c] = "reconcile" /\ pc'[c] = "clear" /\ job'[c] = [job[c] EXCEPT !.clear = ToClear(c)]
          /\ books' = books /\ BooksInv(c)
      BY <1>1, <1>2, <1>5 DEF ReadTargets
    <2>2. job'[c].ids = job[c].ids /\ job'[c].books = job[c].books /\ job'[c].clear = ToClear(c)
      BY <1>0, <2>1 DEF JobType
    <2> QED BY <2>1, <2>2 DEF BooksInv, InList, Live, ToClear
  <1>6. CASE ClearBook(c)
    <2>1. PICK b \in job[c].clear : /\ books' = [books EXCEPT ![b].author = NoAuthor]
                                    /\ Goto(c, "clear", [job[c] EXCEPT !.clear = @ \ {b}])
      BY <1>6 DEF ClearBook
    <2>2. /\ pc[c] = "clear" /\ pc'[c] = "clear" /\ job'[c] = [job[c] EXCEPT !.clear = @ \ {b}]
          /\ BooksInv(c)
      BY <1>1, <1>2, <1>6, <2>1 DEF ClearBook
    <2>3. job'[c].ids = job[c].ids /\ job'[c].books = job[c].books /\ job'[c].clear = job[c].clear \ {b}
      BY <1>0, <2>2 DEF JobType
    <2>4. /\ Live(books)' = Live(books)
          /\ \A e \in Live(books) : books'[e].author = IF e = b THEN NoAuthor ELSE books[e].author
      BY <1>0, <1>3, <2>1 DEF Live, Book
    <2> QED BY <2>2, <2>3, <2>4 DEF BooksInv, InList
  <1>7. CASE Cleared(c)
    <2>1. /\ pc[c] = "clear" /\ pc'[c] = "set" /\ job'[c] = [job[c] EXCEPT !.todo = job[c].ids]
          /\ books' = books /\ BooksInv(c) /\ job[c].clear = {}
      BY <1>1, <1>2, <1>7 DEF Cleared
    <2>2. job'[c].id = job[c].id /\ job'[c].books = job[c].books /\ job'[c].todo = job[c].ids
      BY <1>0, <2>1 DEF JobType
    <2>3. job[c].id # NoAuthor
      BY <1>0, <1>3, <2>1, Bounds DEF JobInv, Relating, NoAuthor
    <2> QED BY <2>1, <2>2, <2>3 DEF BooksInv, InList, Live
  <1>8. CASE SetBook(c)
    <2> DEFINE b == Head(job[c].todo)
    <2>1. /\ pc[c] = "set" /\ pc'[c] = "set" /\ job'[c] = [job[c] EXCEPT !.todo = Tail(@)]
          /\ BooksInv(c) /\ job[c].todo # <<>> /\ books' = [books EXCEPT ![b].author = job[c].id]
      BY <1>1, <1>2, <1>8 DEF SetBook
    <2>2. job'[c].id = job[c].id /\ job'[c].books = job[c].books /\ job'[c].todo = Tail(job[c].todo)
      BY <1>0, <2>1 DEF JobType
    <2>3. InList(job[c].todo) = InList(Tail(job[c].todo)) \cup {b}
      BY <1>0, <2>1, HeadAndTail DEF JobType
    <2> HIDE DEF b
    <2>4. /\ Live(books)' = Live(books)
          /\ \A e \in Live(books) : books'[e].author = IF e = b THEN job[c].id ELSE books[e].author
      BY <1>0, <1>3, <2>1 DEF Live, Book
    <2>5. /\ InList(job[c].books)' = InList(job[c].books)
          /\ InList(job[c].todo)' = InList(Tail(job[c].todo))
      BY <2>2 DEF InList
    <2>6. /\ InList(job[c].books) \subseteq Live(books) /\ InList(job[c].todo) \subseteq InList(job[c].books)
          /\ \A e \in Live(books) : e \notin InList(job[c].books) => books[e].author # job[c].id
          /\ \A e \in InList(job[c].books) \ InList(job[c].todo) : books[e].author = job[c].id
      BY <2>1 DEF BooksInv
    <2>7. \A e \in Live(books) : e \notin InList(job[c].books) => books'[e].author # job[c].id
      BY <2>3, <2>4, <2>6
    <2>8. \A e \in InList(job[c].books) \ InList(Tail(job[c].todo)) : books'[e].author = job[c].id
      BY <2>3, <2>4, <2>6
    <2> QED BY <2>1, <2>2, <2>3, <2>4, <2>5, <2>6, <2>7, <2>8 DEF BooksInv
  <1>9. CASE BooksSet(c)
    <2>1. /\ pc[c] = "set" /\ pc'[c] \in {"tags", "refresh", "recorded"} /\ job'[c] = job[c]
          /\ books' = books /\ BooksInv(c) /\ job[c].todo = <<>>
      BY <1>1, <1>2, <1>9, PersistedTyped DEF BooksSet, Typed
    <2>2. InList(job[c].todo) = {}
      BY <2>1 DEF InList
    <2>3. BooksOf(job[c].id) = InList(job[c].books)
      BY <1>3, <2>1, <2>2 DEF BooksInv
    <2>4. BooksOf(job[c].id)' = BooksOf(job[c].id) /\ InList(job[c].books)' = InList(job[c].books)
      BY <2>1 DEF BooksOf, Live, InList
    <2> QED BY <2>1, <2>3, <2>4 DEF BooksInv
  <1>10. ASSUME Goto(c, pc'[c], job'[c]), books' = books,
                pc[c] \in {"tags", "unlink", "link", "refresh", "reply"},
                pc'[c] \in {"tags", "unlink", "link", "refresh", "reply", "recorded"},
                job'[c].books = job[c].books, job'[c].id = job[c].id
         PROVE  BooksInv(c)'
    <2>1. BooksInv(c)
      BY <1>2, <1>10
    <2>2. BooksOf(job[c].id)' = BooksOf(job[c].id) /\ InList(job[c].books)' = InList(job[c].books)
      BY <1>10 DEF BooksOf, Live, InList
    <2> QED BY <1>10, <2>1, <2>2 DEF BooksInv
  <1>11. CASE ResolveTags(c) \/ InsertLink(c)
    <2>1. /\ Goto(c, pc'[c], job'[c]) /\ books' = books /\ pc[c] \in {"tags", "link"}
          /\ pc'[c] \in {"unlink", "link"}
          /\ \E v, w : job'[c] = [job[c] EXCEPT !.ids = v, !.todo = w] \/ job'[c] = [job[c] EXCEPT !.todo = w]
      BY <1>1, <1>11 DEF ResolveTags, InsertLink
    <2>2. job'[c].books = job[c].books /\ job'[c].id = job[c].id
      BY <1>0, <2>1 DEF JobType
    <2> QED BY <1>10, <2>1, <2>2
  <1>12. CASE DeleteLinks(c) \/ Linked(c) \/ Refresh(c)
    <2>1. /\ Goto(c, pc'[c], job'[c]) /\ books' = books /\ pc[c] \in {"unlink", "link", "refresh"}
          /\ pc'[c] \in {"link", "refresh", "recorded", "reply"} /\ job'[c] = job[c]
      BY <1>1, <1>12, PersistedTyped DEF DeleteLinks, Linked, Refresh, Typed
    <2> QED BY <1>10, <2>1
  <1>13. CASE SetAuthor(c)
    <2>1. pc[c] = "author" /\ pc'[c] = "refresh" /\ job'[c] = job[c] /\ BooksInv(c)
      BY <1>1, <1>2, <1>13 DEF SetAuthor
    <2> QED BY <2>1 DEF BooksInv
  <1>14. CASE pc'[c] \in {"idle", "books", "record"}
    BY <1>14 DEF BooksInv
  <1>15. CASE DeleteAuthor(c) \/ DeleteBook(c) \/ SaveBook(c)
    <2>1. /\ pc'[c] \in {"refresh", "author"}
          /\ \E i, is : job'[c] = [IdleJob EXCEPT !.id = i] \/ job'[c] = [IdleJob EXCEPT !.id = i, !.ids = is]
      <3>1. CASE DeleteAuthor(c) \/ DeleteBook(c)
        BY <1>1, <3>1 DEF DeleteAuthor, DeleteBook
      <3>2. CASE SaveBook(c)
        <4>1. \E i, is : Begin(c, "author", [IdleJob EXCEPT !.id = i, !.ids = is])
          BY <3>2 DEF SaveBook
        <4> QED BY <1>1, <4>1
      <3> QED BY <1>15, <3>1, <3>2
    <2>2. job'[c].books = NotGiven
      BY <2>1 DEF IdleJob
    <2> QED BY <2>1, <2>2 DEF BooksInv
  <1>16. ASSUME CreateAuthor(c) \/ UpdateAuthor(c) \/ PublishAuthor(c) \/ FailRelation(c) \/ Reply(c)
                \/ CutOff(c) \/ Import(c)
         PROVE  pc'[c] \in {"idle", "books", "record"}
    BY <1>1, <1>16 DEF CreateAuthor, UpdateAuthor, PublishAuthor, FailRelation, Reply, CutOff, Unrefreshed, Import,
       StartImport, Refuse, Skip, Insert, Update, WriteRecord, Recorded, FailRecord, Tally, EndImport
  <1> QED BY <1>4, <1>5, <1>6, <1>7, <1>8, <1>9, <1>11, <1>12, <1>13, <1>14, <1>15, <1>16
          DEF Act, Save, Persist, Finish

\* The row inserted is that of the next tag of the list.
LEMMA NextRow ==
    ASSUME NEW tags \in Seq(Nat), NEW todo \in Seq(Nat), todo # <<>>, Len(todo) <= Len(tags),
           \A i \in 1..Len(todo) : todo[i] = tags[Len(tags) - Len(todo) + i]
    PROVE  /\ Append(Rows(tags, Len(tags) - Len(todo)),
                     [book |-> Head(todo), order |-> Len(tags) - Len(todo) + 1])
              = Rows(tags, Len(tags) - Len(Tail(todo)))
           /\ \A i \in 1..Len(Tail(todo)) : Tail(todo)[i] = tags[Len(tags) - Len(Tail(todo)) + i]
  <1>1. PICK k \in Nat : Len(todo) = k /\ k > 0
    OBVIOUS
  <1>2. PICK n \in Nat : Len(tags) - k = n /\ Len(tags) = n + k
    <2>1. Len(tags) \in Nat
      OBVIOUS
    <2>2. Len(tags) - k \in Nat /\ Len(tags) = (Len(tags) - k) + k
      BY <1>1, <2>1
    <2> QED BY <2>2
  <1>3. /\ Len(Tail(todo)) = k - 1 /\ Len(tags) - (k - 1) = n + 1 /\ Head(todo) = todo[1]
        /\ \A i \in 1..(k - 1) : Tail(todo)[i] = todo[i + 1]
    BY <1>1, <1>2
  <1>4. \A i \in 1..k : todo[i] = tags[n + i]
    BY <1>1, <1>2
  <1>5. Head(todo) = tags[n + 1]
    BY <1>1, <1>3, <1>4
  <1>6. ASSUME NEW i \in 1..(k - 1) PROVE Tail(todo)[i] = tags[(n + 1) + i]
    <2>1. i + 1 \in 1..k /\ n + (i + 1) = (n + 1) + i
      OBVIOUS
    <2> QED BY <1>3, <1>4, <2>1
  <1>7. \A i \in 1..(n + 1) : tags[i] \in Nat
    BY <1>1, <1>2
  <1> DEFINE S == [book : Nat, order : Nat]
             row(i) == [book |-> tags[i], order |-> i]
  <1>8. \A i \in 1..(n + 1) : row(i) \in S
    BY <1>7
  <1> HIDE DEF S, row
  <1>9. /\ Rows(tags, n) = [i \in 1..n |-> row(i)] /\ Rows(tags, n) \in Seq(S) /\ Len(Rows(tags, n)) = n
        /\ Rows(tags, n + 1) = [i \in 1..(n + 1) |-> row(i)] /\ Rows(tags, n + 1) \in Seq(S)
        /\ Len(Rows(tags, n + 1)) = n + 1
    <2>1. Rows(tags, n) = [i \in 1..n |-> row(i)] /\ Rows(tags, n + 1) = [i \in 1..(n + 1) |-> row(i)]
      BY DEF Rows, row
    <2>2. \A m \in {n, n + 1} : [i \in 1..m |-> row(i)] \in Seq(S) /\ Len([i \in 1..m |-> row(i)]) = m
      BY <1>8
    <2> QED BY <2>1, <2>2
  <1>10. /\ Append(Rows(tags, n), row(n + 1)) \in Seq(S) /\ Len(Append(Rows(tags, n), row(n + 1))) = n + 1
         /\ \A i \in 1..n : Append(Rows(tags, n), row(n + 1))[i] = Rows(tags, n)[i]
         /\ Append(Rows(tags, n), row(n + 1))[n + 1] = row(n + 1)
    <2>1. row(n + 1) \in S
      BY <1>8
    <2> QED BY <1>9, <2>1, AppendProperties
  <1>11. Append(Rows(tags, n), row(n + 1)) = Rows(tags, n + 1)
    <2>1. ASSUME NEW i \in 1..(n + 1) PROVE Append(Rows(tags, n), row(n + 1))[i] = Rows(tags, n + 1)[i]
      <3>1. Rows(tags, n + 1)[i] = row(i)
        BY <1>9
      <3>2. CASE i = n + 1
        BY <1>10, <3>1, <3>2
      <3>3. CASE i # n + 1
        <4>1. i \in 1..n
          BY <3>3
        <4>2. Rows(tags, n)[i] = row(i)
          BY <1>9, <4>1
        <4> QED BY <1>10, <3>1, <4>1, <4>2
      <3> QED BY <3>2, <3>3
    <2> QED BY <1>9, <1>10, <2>1, SeqEqual
  <1>12. row(n + 1) = [book |-> Head(todo), order |-> Len(tags) - Len(todo) + 1]
    <2>1. Len(tags) - Len(todo) + 1 = n + 1
      BY <1>1, <1>2
    <2> QED BY <1>5, <2>1 DEF row
  <1>13. Len(tags) - Len(Tail(todo)) = n + 1
    BY <1>3
  <1>14. Len(tags) - Len(todo) = n
    BY <1>1, <1>2
  <1>15. Append(Rows(tags, n), row(n + 1)) = Append(Rows(tags, Len(tags) - Len(todo)),
            [book |-> Head(todo), order |-> Len(tags) - Len(todo) + 1])
    BY <1>12, <1>14
  <1> QED BY <1>3, <1>6, <1>11, <1>13, <1>15

\* Its tags: a row is inserted for the next of the list.
LEMMA TagsInvStep ==
    ASSUME Typed, NEW c \in Clients, Act(c), TagsInv(c) \/ ~alone[c], alone'[c]
    PROVE  TagsInv(c)'
  <1>0. job[c] \in JobType /\ JobInv(c) /\ alone \in [Clients -> BOOLEAN] /\ links \in [AuthorIds -> Seq(Link)]
        /\ Present(authors) \subseteq AuthorIds
    BY PresentTyped DEF Typed, Locals, JobsInv, Tables, Flags
  <1>a. /\ job[c].todo \in Seq(Nat) /\ job[c].ids \in Seq(Nat) /\ job[c].tags \in Seq(Nat)
        /\ pc[c] \in Relating => job[c].id \in AuthorIds
    BY <1>0, ListTyped DEF JobType, JobInv
  <1>1. ASSUME NEW s, NEW l, Goto(c, s, l) \/ Begin(c, s, l)
        PROVE  pc'[c] = s /\ job'[c] = l
    BY <1>1 DEF Goto, Begin, Typed, Locals
  <1>2. ASSUME NEW s, NEW l, Goto(c, s, l) PROVE TagsInv(c)
    BY <1>0, <1>2 DEF Goto
  <1>3. CASE ResolveTags(c)
    <2>1. /\ pc'[c] = "unlink" /\ job'[c] = [job[c] EXCEPT !.ids = job[c].tags, !.todo = job[c].tags]
      BY <1>1, <1>3 DEF ResolveTags
    <2>2. job'[c].ids = job[c].tags /\ job'[c].todo = job[c].tags /\ job'[c].tags = job[c].tags
      BY <1>0, <2>1 DEF JobType
    <2> QED BY <2>1, <2>2 DEF TagsInv
  <1>4. CASE DeleteLinks(c)
    <2>1. /\ pc[c] = "unlink" /\ pc'[c] = "link" /\ job'[c] = job[c] /\ TagsInv(c)
          /\ links' = [links EXCEPT ![job[c].id] = <<>>]
      BY <1>1, <1>2, <1>4 DEF DeleteLinks, Unlinked
    <2>2. job[c].id \in AuthorIds
      BY <1>a, <2>1 DEF Relating
    <2>3. links'[job[c].id] = <<>>
      BY <1>0, <2>1, <2>2
    <2>4. job[c].ids = job[c].tags /\ job[c].todo = job[c].tags
      BY <2>1 DEF TagsInv
    <2>5. Len(job[c].tags) - Len(job[c].todo) = 0
      BY <1>a, <2>4
    <2>6. Rows(job[c].tags, 0) = <<>>
      BY DEF Rows
    <2>7. \A i \in 1..Len(job[c].todo) : job[c].todo[i] = job[c].tags[Len(job[c].tags) - Len(job[c].todo) + i]
      BY <1>a, <2>4, <2>5
    <2>8. links'[job[c].id] = Rows(job[c].tags, Len(job[c].tags) - Len(job[c].todo))
      BY <2>3, <2>5, <2>6
    <2> QED BY <2>1, <2>4, <2>7, <2>8 DEF TagsInv, Rows
  <1>5. CASE InsertLink(c)
    <2> DEFINE tags == job[c].tags
               todo == job[c].todo
               new == [book |-> Head(todo), order |-> Len(job[c].ids) - Len(todo) + 1]
    <2>1. /\ pc[c] = "link" /\ pc'[c] = "link" /\ job'[c] = [job[c] EXCEPT !.todo = Tail(@)] /\ TagsInv(c)
          /\ todo # <<>> /\ links' = [links EXCEPT ![job[c].id] = Append(@, new)]
      BY <1>1, <1>2, <1>5 DEF InsertLink
    <2>2. /\ job'[c].ids = job[c].ids /\ job'[c].id = job[c].id /\ job'[c].tags = tags
          /\ job'[c].todo = Tail(todo)
      BY <1>0, <2>1 DEF JobType
    <2>3. /\ job[c].ids = tags /\ links[job[c].id] = Rows(tags, Len(tags) - Len(todo))
          /\ \A i \in 1..Len(todo) : todo[i] = tags[Len(tags) - Len(todo) + i]
          /\ Len(todo) <= Len(tags) /\ job[c].id \in AuthorIds
      <3>1. /\ job[c].ids = tags /\ links[job[c].id] = Rows(tags, Len(tags) - Len(todo))
            /\ \A i \in 1..Len(todo) : todo[i] = tags[Len(tags) - Len(todo) + i]
        BY <2>1 DEF TagsInv
      <3>2. Len(todo) <= Len(job[c].ids)
        BY <1>0, <2>1 DEF JobInv
      <3>3. job[c].id \in AuthorIds
        BY <1>a, <2>1 DEF Relating
      <3> QED BY <3>1, <3>2, <3>3
    <2>4. links'[job[c].id] = Append(Rows(tags, Len(tags) - Len(todo)), new)
      BY <1>0, <2>1, <2>3
    <2>5. /\ links'[job[c].id] = Rows(tags, Len(tags) - Len(Tail(todo)))
          /\ \A i \in 1..Len(Tail(todo)) : Tail(todo)[i] = tags[Len(tags) - Len(Tail(todo)) + i]
      <3>1. new = [book |-> Head(todo), order |-> Len(tags) - Len(todo) + 1]
        BY <2>3
      <3>2. tags \in Seq(Nat) /\ todo \in Seq(Nat) /\ todo # <<>>
        BY <1>a, <2>1
      <3> HIDE DEF tags, todo, new
      <3>3. /\ Append(Rows(tags, Len(tags) - Len(todo)), new) = Rows(tags, Len(tags) - Len(Tail(todo)))
            /\ \A i \in 1..Len(Tail(todo)) : Tail(todo)[i] = tags[Len(tags) - Len(Tail(todo)) + i]
        BY <2>3, <3>1, <3>2, NextRow
      <3> QED BY <2>4, <3>3
    <2>6. /\ job'[c].ids = job'[c].tags
          /\ \A i \in 1..Len(job'[c].todo) :
                job'[c].todo[i] = job'[c].tags[Len(job'[c].tags) - Len(job'[c].todo) + i]
          /\ links'[job'[c].id] = Rows(job'[c].tags, Len(job'[c].tags) - Len(job'[c].todo))
      BY <2>2, <2>3, <2>5
    <2> QED BY <2>1, <2>6 DEF TagsInv, Rows
  <1>6. CASE Linked(c)
    <2>1. /\ pc[c] = "link" /\ pc'[c] \in {"refresh", "recorded"} /\ job'[c] = job[c] /\ TagsInv(c)
          /\ job[c].todo = <<>> /\ links' = links
      BY <1>1, <1>2, <1>6, PersistedTyped DEF Linked, Typed
    <2>2. job[c].id \in AuthorIds /\ Len(job[c].tags) - Len(job[c].todo) = Len(job[c].tags)
      BY <1>a, <2>1 DEF Relating
    <2>3. links[job[c].id] = Rows(job[c].tags, Len(job[c].tags))
      BY <2>1, <2>2 DEF TagsInv
    <2> QED BY <2>1, <2>2, <2>3 DEF TagsInv, Rows
  <1>7. CASE ResolveBooks(c) \/ BooksSet(c)
    <2>1. /\ pc'[c] \in {"reconcile", "tags", "refresh", "recorded"}
          /\ pc'[c] \in {"refresh", "recorded"} => job'[c] = job[c] /\ job[c].tags = NotGiven
      BY <1>1, <1>7, PersistedTyped DEF ResolveBooks, BooksSet, Persisted, Typed
    <2> QED BY <2>1 DEF TagsInv
  <1>8. CASE Refresh(c)
    <2>1. pc[c] = "refresh" /\ pc'[c] = "reply" /\ job'[c] = job[c] /\ TagsInv(c) /\ links' = links
      BY <1>1, <1>2, <1>8 DEF Refresh
    <2> QED BY <2>1 DEF TagsInv, Rows
  <1>b. CASE SetAuthor(c)
    <2>1. pc[c] = "author" /\ pc'[c] = "refresh" /\ job'[c] = job[c] /\ TagsInv(c)
      BY <1>1, <1>2, <1>b DEF SetAuthor
    <2> QED BY <2>1 DEF TagsInv
  <1>9. CASE DeleteAuthor(c) \/ DeleteBook(c) \/ SaveBook(c)
    <2>1. /\ pc'[c] \in {"refresh", "author"}
          /\ \E i, is : job'[c] = [IdleJob EXCEPT !.id = i] \/ job'[c] = [IdleJob EXCEPT !.id = i, !.ids = is]
      <3>1. CASE DeleteAuthor(c) \/ DeleteBook(c)
        BY <1>1, <3>1 DEF DeleteAuthor, DeleteBook
      <3>2. CASE SaveBook(c)
        <4>1. \E i, is : Begin(c, "author", [IdleJob EXCEPT !.id = i, !.ids = is])
          BY <3>2 DEF SaveBook
        <4> QED BY <1>1, <4>1
      <3> QED BY <1>9, <3>1, <3>2
    <2>2. job'[c].tags = NotGiven
      BY <2>1 DEF IdleJob
    <2> QED BY <2>1, <2>2 DEF TagsInv
  <1>10. CASE pc'[c] \in {"idle", "books", "record", "clear", "set"}
    BY <1>10 DEF TagsInv
  <1>11. ASSUME CreateAuthor(c) \/ UpdateAuthor(c) \/ PublishAuthor(c) \/ FailRelation(c) \/ Reply(c)
                \/ CutOff(c) \/ Import(c)
         PROVE  pc'[c] \in {"idle", "books", "record"}
    BY <1>1, <1>11 DEF CreateAuthor, UpdateAuthor, PublishAuthor, FailRelation, Reply, CutOff, Unrefreshed, Import,
       StartImport, Refuse, Skip, Insert, Update, WriteRecord, Recorded, FailRecord, Tally, EndImport
  <1>12. ASSUME ReadTargets(c) \/ ClearBook(c) \/ Cleared(c) \/ SetBook(c) PROVE pc'[c] \in {"clear", "set"}
    BY <1>1, <1>12 DEF ReadTargets, ClearBook, Cleared, SetBook
  <1> QED BY <1>3, <1>4, <1>5, <1>6, <1>7, <1>8, <1>b, <1>9, <1>10, <1>11, <1>12 DEF Act, Save, Persist, Finish

LEMMA ServedStep ==
    ASSUME Typed, ServedInv, NEW c \in Clients, Act(c)
    PROVE  ServedInv'
  <1>1. \A d \in Clients \ {c} : ~alone'[d]
    BY OthersStay DEF Typed
  <1>2. (BooksInv(c) /\ TagsInv(c)) \/ ~alone[c]
    BY DEF ServedInv
  <1> QED BY <1>1, <1>2, BooksInvStep, TagsInvStep DEF ServedInv

\* What an import that runs alone knows stays so: an entry it inserts is one of
\* a record it has handled, and one it updates keeps its name.
LEMMA MapStep ==
    ASSUME Typed, MapInv, NEW c \in Clients, Act(c)
    PROVE  MapInv'
  <1> DEFINE Knows(n) == /\ existing[c][n] # NoAuthor => existing[c][n] \in Named(n)
                         /\ (\A i \in Handled(c) : file[c][i].name # n) /\ existing[c][n] = NoAuthor
                            => Named(n) = {}
  <1>0. /\ job[c] \in JobType /\ alone \in [Clients -> BOOLEAN] /\ authors \in [AuthorIds -> Author]
        /\ at \in [Clients -> Nat \ {0}] /\ 0 \notin AuthorIds
    BY Bounds DEF Typed, Locals, Flags, Tables, Imports
  <1> SUFFICES ASSUME alone'[c], InImport(c)', NEW n \in Names PROVE Knows(n)'
    <2>1. \A d \in Clients \ {c} : ~alone'[d]
      BY OthersStay DEF Typed
    <2> QED BY <2>1 DEF MapInv
  <1>1. ASSUME NEW s, NEW l, Goto(c, s, l) \/ Begin(c, s, l)
        PROVE  pc'[c] = s /\ job'[c] = l
    BY <1>1 DEF Goto, Begin, Typed, Locals
  <1>2. ASSUME NEW s, NEW l, Goto(c, s, l), InImport(c) PROVE Knows(n)
    BY <1>0, <1>2 DEF Goto, MapInv
  <1>3. ASSUME authors' = authors PROVE \A m : Named(m)' = Named(m)
    BY <1>3 DEF Named, Live
  <1>4. CASE StartImport(c)
    <2>1. existing'[c] = LoadExisting /\ authors' = authors
      BY <1>4 DEF StartImport, Typed, Imports
    <2>2. IF Named(n) = {} THEN LoadExisting[n] = NoAuthor ELSE LoadExisting[n] \in Named(n)
      BY ExistingFound DEF Typed
    <2>3. NoAuthor \notin Named(n)
      BY <1>0, PresentTyped DEF Named, NoAuthor, Typed
    <2> QED BY <1>3, <2>1, <2>2, <2>3
  <1>5. CASE Refuse(c) \/ Skip(c) \/ Recorded(c) \/ FailRecord(c)
    <2>1. PICK r : Tally(c, r) /\ \/ pc[c] \in {"record", "recorded"}
                                  \/ pc[c] \in Relating /\ job[c].then = "recorded"
      <3>1. CASE Refuse(c) \/ Skip(c) \/ Recorded(c)
        BY <3>1 DEF Refuse, Skip, AtValid, Recorded
      <3>2. CASE FailRecord(c)
        BY <3>2 DEF FailRecord, NotFound, Relating
      <3> QED BY <1>5, <3>1, <3>2
    <2>2. /\ Goto(c, "record", IdleJob) /\ at'[c] = at[c] + 1 /\ file' = file /\ existing' = existing
          /\ authors' = authors /\ InImport(c)
      BY <1>0, <2>1 DEF Tally, InImport
    <2>3. pc'[c] = "record"
      BY <1>1, <2>2
    <2>4. Handled(c) \subseteq 1..at[c] /\ Handled(c)' = 1..at[c]
      <3>1. at[c] \in Nat
        BY <1>0
      <3> QED BY <2>2, <2>3, <3>1 DEF Handled
    <2>5. Knows(n)
      BY <1>2, <2>2
    <2> QED BY <1>3, <2>2, <2>4, <2>5
  <1>6. CASE Insert(c)
    <2>1. PICK a \in AuthorIds : /\ IsNext(authors, a) /\ authors' = [authors EXCEPT ![a] = NewAuthor(Current(c).name)]
                                 /\ WriteRecord(c, a)
      BY <1>6 DEF Insert
    <2>2. pc[c] = "record" /\ InImport(c) /\ pc'[c] = "books" /\ importVars' = importVars
      BY <1>1, <1>6, <2>1 DEF Insert, AtValid, InImport, WriteRecord
    <2>3. Handled(c)' = 1..at[c] /\ Handled(c) \subseteq 1..at[c] /\ at[c] \in 1..at[c]
      <3>1. at[c] \in Nat \ {0}
        BY <1>0
      <3> QED BY <2>2, <3>1 DEF Handled, importVars
    <2>4. Knows(n)
      BY <1>2, <2>1, <2>2 DEF WriteRecord
    <2>5. a \notin Present(authors)
      BY <2>1 DEF IsNext
    <2>6. Named(n)' = IF n = Current(c).name THEN Named(n) \cup {a} ELSE Named(n)
      <3>1. /\ \A i \in AuthorIds : authors'[i] = IF i = a THEN NewAuthor(Current(c).name) ELSE authors[i]
            /\ DOMAIN authors' = AuthorIds /\ DOMAIN authors = AuthorIds
        BY <1>0, <2>1
      <3>2. authors[a].state # "live"
        BY <1>0, <2>5 DEF Present
      <3>3. NewAuthor(Current(c).name).state = "live" /\ NewAuthor(Current(c).name).name = Current(c).name
        BY DEF NewAuthor
      <3> QED BY <3>1, <3>2, <3>3 DEF Named, Live
    <2> QED BY <2>2, <2>3, <2>4, <2>6 DEF importVars, Current
  <1>7. CASE Update(c)
    <2>1. /\ Match(c) \in Live(authors) /\ AtValid(c) /\ WriteRecord(c, Match(c))
          /\ authors' = [authors EXCEPT ![Match(c)].name = Current(c).name]
      BY <1>7 DEF Update
    <2>2. pc[c] = "record" /\ InImport(c) /\ pc'[c] = "books" /\ importVars' = importVars
      BY <1>1, <2>1 DEF AtValid, InImport, WriteRecord
    <2>3. Handled(c)' = 1..at[c] /\ Handled(c) \subseteq 1..at[c]
      <3>1. at[c] \in Nat \ {0}
        BY <1>0
      <3> QED BY <2>2, <3>1 DEF Handled, importVars
    <2>4. Knows(n) /\ alone[c]
      BY <1>0, <1>2, <2>1, <2>2 DEF WriteRecord, Goto
    <2>5. Match(c) \in Named(Current(c).name)
      <3>1. Match(c) \in AuthorIds
        BY <2>1, PresentTyped DEF Typed
      <3>2. Match(c) = existing[c][Current(c).name] /\ Match(c) # NoAuthor
        BY <1>0, <3>1 DEF Match, NoAuthor
      <3>3. Current(c).name \in Names
        BY <2>1, CurrentTyped DEF AtValid, Record, Typed
      <3> QED BY <2>2, <2>4, <3>2, <3>3 DEF MapInv
    <2>6. authors' = authors
      <3>1. authors[Match(c)].name = Current(c).name /\ Match(c) \in AuthorIds
        BY <2>1, <2>5, PresentTyped DEF Named, Typed
      <3>2. authors[Match(c)] \in Author /\ [authors[Match(c)] EXCEPT !.name = Current(c).name] = authors[Match(c)]
        BY <1>0, <3>1 DEF Author
      <3> QED BY <1>0, <2>1, <3>1, <3>2
    <2> QED BY <1>3, <2>2, <2>3, <2>4, <2>6 DEF importVars
  \* The relations of a record.
  <1>8. CASE Persist(c) /\ UNCHANGED importVars
    <2>1. authors' = authors /\ pc[c] \in Relating
      BY <1>8 DEF Persist, ResolveBooks, ReadTargets, ClearBook, Cleared, SetBook, BooksSet, ResolveTags,
         DeleteLinks, InsertLink, Linked, Relating
    <2>2. /\ \E s, l : Goto(c, s, l) /\ l.then = job[c].then
          /\ pc'[c] \in Relating \cup {job[c].then}
      <3>1. CASE ResolveBooks(c)
        <4>1. CASE job[c].books = NotGiven
          BY <1>1, <3>1, <4>1 DEF ResolveBooks, Persisted, Relating
        <4>2. CASE job[c].books # NotGiven
          <5>1. Goto(c, "reconcile", [job[c] EXCEPT !.ids = job[c].books])
            BY <3>1, <4>2 DEF ResolveBooks
          <5>2. pc'[c] = "reconcile"
            BY <1>1, <5>1
          <5>3. [job[c] EXCEPT !.ids = job[c].books].then = job[c].then
            BY <1>0 DEF JobType
          <5> QED BY <5>1, <5>2, <5>3 DEF Relating
        <4> QED BY <4>1, <4>2
      <3>2. CASE ReadTargets(c) \/ ClearBook(c)
        <4>1. PICK v : Goto(c, "clear", [job[c] EXCEPT !.clear = v])
          BY <3>2 DEF ReadTargets, ClearBook
        <4>2. [job[c] EXCEPT !.clear = v].then = job[c].then
          BY <1>0 DEF JobType
        <4> QED BY <1>1, <4>1, <4>2 DEF Relating
      <3>3. CASE Cleared(c) \/ SetBook(c) \/ InsertLink(c)
        <4>1. PICK v, s : s \in {"set", "link"} /\ Goto(c, s, [job[c] EXCEPT !.todo = v])
          <5>1. CASE Cleared(c)
            BY <5>1 DEF Cleared
          <5>2. CASE SetBook(c)
            BY <5>2 DEF SetBook
          <5>3. CASE InsertLink(c)
            BY <5>3 DEF InsertLink
          <5> QED BY <3>3, <5>1, <5>2, <5>3
        <4>2. [job[c] EXCEPT !.todo = v].then = job[c].then
          BY <1>0 DEF JobType
        <4> QED BY <1>1, <4>1, <4>2 DEF Relating
      <3>4. CASE BooksSet(c) \/ Linked(c) \/ DeleteLinks(c)
        <4>1. PICK s \in {"tags", "link", job[c].then} : Goto(c, s, job[c])
          BY <3>4 DEF BooksSet, Linked, DeleteLinks, Persisted
        <4> QED BY <1>1, <4>1 DEF Relating
      <3>5. CASE ResolveTags(c)
        <4>1. Goto(c, "unlink", [job[c] EXCEPT !.ids = job[c].tags, !.todo = job[c].tags])
          BY <3>5 DEF ResolveTags
        <4>2. [job[c] EXCEPT !.ids = job[c].tags, !.todo = job[c].tags].then = job[c].then
          BY <1>0 DEF JobType
        <4> QED BY <1>1, <4>1, <4>2 DEF Relating
      <3> QED BY <1>8, <3>1, <3>2, <3>3, <3>4, <3>5 DEF Persist
    <2>3. job'[c].then = job[c].then /\ job[c].then \in {"refresh", "recorded"}
      BY <1>0, <1>1, <2>2 DEF JobType
    <2>4. InImport(c) /\ Handled(c)' = Handled(c)
      BY <1>8, <2>1, <2>2, <2>3 DEF InImport, Handled, Relating, importVars
    <2>5. Knows(n)
      BY <1>2, <2>2, <2>4
    <2> QED BY <1>3, <1>8, <2>1, <2>4, <2>5 DEF importVars
  \* The other steps do not leave a call in an import.
  <1>9. ASSUME Save(c) \/ Finish(c) \/ CutOff(c) \/ EndImport(c) PROVE FALSE
    <2>1. ASSUME CreateAuthor(c) \/ UpdateAuthor(c) PROVE pc'[c] = "books" /\ job'[c].then = "refresh"
      <3>1. PICK a, bs, ts : Begin(c, "books", [IdleJob EXCEPT !.id = a, !.books = bs, !.tags = ts])
        BY <2>1 DEF CreateAuthor, UpdateAuthor
      <3>2. [IdleJob EXCEPT !.id = a, !.books = bs, !.tags = ts].then = "refresh"
        BY DEF IdleJob
      <3> QED BY <1>1, <3>1, <3>2
    <2>2. ASSUME DeleteAuthor(c) \/ PublishAuthor(c) \/ SaveBook(c) \/ DeleteBook(c) \/ Finish(c) \/ CutOff(c)
                 \/ EndImport(c)
          PROVE  pc'[c] \in {"idle", "refresh", "author", "reply"}
      BY <1>1, <2>2 DEF DeleteAuthor, PublishAuthor, SaveBook, DeleteBook, Finish, FailRelation, SetAuthor, Refresh,
         Reply, CutOff, Unrefreshed, EndImport
    <2> QED BY <1>9, <2>1, <2>2 DEF Save, InImport, Relating
  <1> HIDE DEF Knows
  <1> QED BY <1>4, <1>5, <1>6, <1>7, <1>8, <1>9 DEF Act, Import

\* Each record that is done with is counted, and counted once.
LEMMA CountedStep ==
    ASSUME Typed, ReportAccounts, NEW c \in Clients, Act(c)
    PROVE  ReportAccounts'
  <1> DEFINE Adds(r, k) == r.created + r.updated + r.skipped + r.failed = k - 1 /\ r.errors <= r.failed
  <1>0. report \in [Clients -> Report] /\ at \in [Clients -> Nat \ {0}]
    BY DEF Typed, Imports
  <1>1. ASSUME NEW r, NEW k, report' = [report EXCEPT ![c] = r], at' = [at EXCEPT ![c] = k], Adds(r, k)
        PROVE  ReportAccounts'
    BY <1>0, <1>1 DEF ReportAccounts
  <1>2. ASSUME NEW r \in Report, NEW k \in Nat \ {0}, Adds(r, k)
        PROVE  /\ Adds([r EXCEPT !.failed = @ + 1, !.errors = @ + 1], k + 1)
               /\ Adds([r EXCEPT !.failed = @ + 1], k + 1)
               /\ Adds([r EXCEPT !.skipped = @ + 1], k + 1)
               /\ Adds([r EXCEPT !.created = @ + 1], k + 1)
               /\ Adds([r EXCEPT !.updated = @ + 1], k + 1)
    <2>1. /\ r.created \in Nat /\ r.updated \in Nat /\ r.skipped \in Nat
          /\ r.failed \in Nat /\ r.errors \in Nat
      BY DEF Report
    <2>2. ASSUME NEW v, NEW w
          PROVE  /\ LET q == [r EXCEPT !.failed = v, !.errors = w] IN
                    /\ q.created = r.created /\ q.updated = r.updated /\ q.skipped = r.skipped
                    /\ q.failed = v /\ q.errors = w
                 /\ LET q == [r EXCEPT !.failed = v] IN
                    /\ q.created = r.created /\ q.updated = r.updated /\ q.skipped = r.skipped
                    /\ q.failed = v /\ q.errors = r.errors
      BY DEF Report
    <2>3. ASSUME NEW v
          PROVE  /\ LET q == [r EXCEPT !.skipped = v] IN
                    /\ q.created = r.created /\ q.updated = r.updated /\ q.skipped = v
                    /\ q.failed = r.failed /\ q.errors = r.errors
                 /\ LET q == [r EXCEPT !.created = v] IN
                    /\ q.created = v /\ q.updated = r.updated /\ q.skipped = r.skipped
                    /\ q.failed = r.failed /\ q.errors = r.errors
                 /\ LET q == [r EXCEPT !.updated = v] IN
                    /\ q.created = r.created /\ q.updated = v /\ q.skipped = r.skipped
                    /\ q.failed = r.failed /\ q.errors = r.errors
      BY DEF Report
    <2> QED BY <1>2, <2>1, <2>2, <2>3
  <1>3. Adds(report[c], at[c])
    BY DEF ReportAccounts
  <1>4. CASE Refuse(c) \/ Skip(c) \/ Recorded(c) \/ FailRecord(c)
    <2> DEFINE old == report[c]
               Tallies == {[old EXCEPT !.failed = @ + 1, !.errors = @ + 1], [old EXCEPT !.failed = @ + 1],
                           [old EXCEPT !.skipped = @ + 1], [old EXCEPT !.created = @ + 1],
                           [old EXCEPT !.updated = @ + 1]}
    <2>a. \A r \in Tallies : Adds(r, at[c] + 1)
      <3>1. old \in Report /\ at[c] \in Nat \ {0} /\ Adds(old, at[c])
        BY <1>0, <1>3
      <3> HIDE DEF old, Adds
      <3> QED BY <1>2, <3>1
    <2>b. \E r \in Tallies : Tally(c, r)
      BY <1>4 DEF Refuse, Skip, Recorded, FailRecord, CountedFailure
    <2> HIDE DEF Tallies
    <2>1. PICK r : Tally(c, r) /\ Adds(r, at[c] + 1)
      BY <2>a, <2>b
    <2> QED BY <1>1, <2>1 DEF Tally
  <1>5. CASE StartImport(c)
    <2>1. Adds(NoReport, 1)
      BY DEF NoReport
    <2> QED BY <1>1, <1>5, <2>1 DEF StartImport
  <1>6. CASE UNCHANGED importVars
    BY <1>6 DEF ReportAccounts, importVars
  <1> QED BY <1>4, <1>5, <1>6 DEF Act, Import, Insert, Update, WriteRecord, EndImport

-----------------------------------------------------------------------------
(* The invariant of a specification, and what it gives.                    *)

Invariant == Typed /\ TotalsInv /\ AloneInv /\ ServedInv /\ MapInv /\ ReportAccounts

LEMMA InitInvariant == ImportInit => Invariant
  <1> SUFFICES ASSUME ImportInit PROVE Invariant
    OBVIOUS
  <1> USE DEF ImportInit, Init
  <1>1. PICK n \in Names, owned \in {{}, {1}} :
          /\ authors = [a \in AuthorIds |->
                IF a = 1 THEN [state |-> "live", name |-> n, total |-> Cardinality(owned)]
                ELSE [state |-> "absent", name |-> n, total |-> NotComputed]]
          /\ books = [b \in BookIds |->
                [state |-> IF b = MaxBooks THEN "absent" ELSE "live",
                 author |-> IF b \in owned THEN 1 ELSE NoAuthor]]
    OBVIOUS
  <1>2. 1 \in AuthorIds /\ 1 \in BookIds /\ 1 # MaxBooks /\ NoAuthor # 1
    BY Bounds DEF AuthorIds, BookIds, NoAuthor
  <1>3. Cardinality(owned) \in 0..NotComputed /\ NotComputed \in 0..NotComputed
    <2>1. Cardinality({}) = 0 /\ Cardinality({1}) = 1
      BY FS_EmptySet, FS_Singleton
    <2>2. 0 \in 0..NotComputed /\ 1 \in 0..NotComputed /\ NotComputed \in 0..NotComputed
      BY Bounds DEF NotComputed
    <2>3. owned = {} \/ owned = {1}
      OBVIOUS
    <2> QED BY <2>1, <2>2, <2>3
  <1>4. Locals
    <2>1. "idle" \in StepType
      BY DEF StepType
    <2> QED BY <2>1, IdleTyped DEF Locals
  <1>5. Tables
    <2>1. \A a \in AuthorIds : authors[a] \in Author
      BY <1>1, <1>3 DEF Author, RowState
    <2>2. \A b \in BookIds : books[b] \in Book
      BY <1>1, <1>2 DEF Book, RowState
    <2>3. links \in [AuthorIds -> Seq(Link)]
      OBVIOUS
    <2> QED BY <1>1, <2>1, <2>2, <2>3 DEF Tables
  <1>6. Imports
    <2>1. NoneFound \in [Names -> AuthorIds \cup {NoAuthor}] /\ NoReport \in Report
      BY DEF NoneFound, NoReport, Report
    <2>2. <<>> \in Seq(Record)
      OBVIOUS
    <2> QED BY <2>1, <2>2 DEF Imports
  <1>7. Flags
    <2>1. alone = [c \in Clients |-> FALSE] /\ stale = FALSE /\ calls = 0
      OBVIOUS
    <2>2. 0 \in 0..MaxCalls
      BY Bounds
    <2> QED BY <2>1, <2>2 DEF Flags
  <1>8. \A c \in Clients : pc[c] = "idle" /\ ~alone[c]
    OBVIOUS
  <1>9. JobsInv
    BY <1>8 DEF JobsInv, JobInv, Relating
  <1>10. RowsInv
    <2>1. \A b \in BookIds : books[b].author # NoAuthor => books[b].author \in Present(authors)
      BY <1>1, <1>2 DEF Present
    <2>2. \A a \in AuthorIds : InList(links[a]) = {}
      BY DEF InList
    <2> QED BY <2>1, <2>2 DEF RowsInv
  <1>11. TotalsInv
    <2>1. BooksOf(1) = owned
      <3>1. \A b \in BookIds : books[b].author = IF b \in owned THEN 1 ELSE NoAuthor
        BY <1>1
      <3>2. \A b \in BookIds : books[b].state = "live" <=> b # MaxBooks
        BY <1>1
      <3> QED BY <1>1, <1>2, <3>1, <3>2 DEF BooksOf, Live
    <2>2. \A a \in Live(authors) : a = 1
      BY <1>1 DEF Live
    <2>3. authors[1].total = Cardinality(owned)
      BY <1>1, <1>2
    <2> QED BY <2>1, <2>2, <2>3 DEF TotalsInv
  <1>12. AloneInv /\ ServedInv /\ MapInv
    BY <1>8 DEF AloneInv, ServedInv, MapInv
  <1>13. ReportAccounts
    BY DEF ReportAccounts, NoReport
  <1> QED BY <1>4, <1>5, <1>6, <1>7, <1>9, <1>10, <1>11, <1>12, <1>13 DEF Invariant, Typed

LEMMA NextInvariant == Invariant /\ [ImportNext]_allVars => Invariant'
  <1> SUFFICES ASSUME Invariant, [ImportNext]_allVars PROVE Invariant'
    OBVIOUS
  <1>1. CASE ImportNext
    <2>1. PICK c \in Clients : Act(c)
      BY <1>1 DEF ImportNext, Next, Act
    <2> QED BY <2>1, TypedStep, TotalsStep, AloneStep, ServedStep, MapStep, CountedStep DEF Invariant
  <1>2. CASE UNCHANGED allVars
    <2>1. Typed'
      BY <1>2 DEF allVars, vars, importVars, Invariant, Typed, Locals, Tables, Imports, Flags, JobsInv, JobInv, RowsInv,
         Present, InList
    <2>a. TotalsInv'
      <3>1. /\ pc' = pc /\ stale' = stale /\ authors' = authors /\ Live(authors)' = Live(authors)
            /\ \A a : BooksOf(a)' = BooksOf(a)
        BY <1>2 DEF allVars, vars, BooksOf, Live
      <3> QED BY <3>1 DEF Invariant, TotalsInv
    <2>2. AloneInv'
      BY <1>2 DEF allVars, vars, Invariant, AloneInv
    <2>3. ServedInv'
      <3>1. /\ pc' = pc /\ job' = job /\ links' = links /\ books' = books /\ alone' = alone
            /\ Live(books)' = Live(books) /\ \A a : BooksOf(a)' = BooksOf(a)
        BY <1>2 DEF allVars, vars, BooksOf, Live
      <3>2. \A c \in Clients : BooksInv(c) => BooksInv(c)'
        BY <3>1 DEF BooksInv, InList
      <3>3. \A c \in Clients : TagsInv(c) => TagsInv(c)'
        BY <3>1 DEF TagsInv, Rows
      <3> QED BY <3>1, <3>2, <3>3 DEF Invariant, ServedInv
    <2>4. MapInv'
      BY <1>2 DEF allVars, vars, importVars, Invariant, MapInv, InImport, Handled, Named, Live
    <2>5. ReportAccounts'
      BY <1>2 DEF allVars, importVars, Invariant, ReportAccounts
    <2> QED BY <2>1, <2>a, <2>2, <2>3, <2>4, <2>5 DEF Invariant
  <1> QED BY <1>1, <1>2

(* The invariant holds of every behaviour, with any number of clients that  *)
(* save and import at the same time.                                        *)
THEOREM InvariantHolds == ImportSpec => []Invariant
  BY InitInvariant, NextInvariant, PTL DEF ImportSpec

(* The tables and the calls have their types, and a key or a link names a   *)
(* row that was inserted: persist_relations resolves before it writes.      *)
THEOREM TypeCorrect == ImportSpec => []TypeOK
  <1>1. Invariant => TypeOK
    BY DEF Invariant, Typed, Locals, JobType, Tables, Flags, RowsInv, TypeOK
  <1> QED BY <1>1, InvariantHolds, PTL

(* Every call persists before it refreshes, so that whoever ends last leaves *)
(* totals that count all books: of overlapping saves, and of imports.       *)
THEOREM TotalsAreFresh == ImportSpec => []TotalsFresh
  <1>1. Invariant => TotalsFresh
    BY DEF Invariant, TotalsInv, TotalsFresh, Idle, Clean, ServedBooks
  <1> QED BY <1>1, InvariantHolds, PTL

\* The rows of a list, read in order, are the list.
LEMMA ServedInOrder ==
    ASSUME NEW a, NEW tags \in Seq(Nat), links[a] = Rows(tags, Len(tags))
    PROVE  ServedTags(a) = tags
  <1> DEFINE n == Len(tags)
             rows == links[a]
             Fits(p) == /\ \A w \in DOMAIN rows : \E i \in DOMAIN rows : p[i] = w
                        /\ \A i, j \in DOMAIN rows : i < j => rows[p[i]].order <= rows[p[j]].order
             place == CHOOSE p \in [DOMAIN rows -> DOMAIN rows] : Fits(p)
             same == [i \in 1..n |-> i]
  <1>1. n \in Nat /\ DOMAIN rows = 1..n /\ \A i \in 1..n : rows[i].order = i /\ rows[i].book = tags[i]
    BY DEF Rows
  <1>2. same \in [DOMAIN rows -> DOMAIN rows] /\ Fits(same)
    BY <1>1
  <1>3. place \in [DOMAIN rows -> DOMAIN rows] /\ Fits(place)
    <2> HIDE DEF Fits, rows, same
    <2> QED BY <1>2
  <1>4. ServedTags(a) = [i \in DOMAIN rows |-> rows[place[i]].book]
    BY DEF ServedTags
  <1> HIDE DEF place
  <1>5. \A i \in 1..n : place[i] = i
    <2>1. place \in [1..n -> 1..n] /\ \A w \in 1..n : \E i \in 1..n : place[i] = w
      BY <1>1, <1>3
    <2>2. \A i, j \in 1..n : i < j => place[i] <= place[j]
      <3>1. ASSUME NEW i \in 1..n, NEW j \in 1..n, i < j PROVE place[i] <= place[j]
        <4>1. rows[place[i]].order <= rows[place[j]].order /\ place[i] \in 1..n /\ place[j] \in 1..n
          BY <1>1, <1>3, <2>1, <3>1
        <4> QED BY <1>1, <4>1
      <3> QED BY <3>1
    <2> QED BY <1>1, <2>1, <2>2, InOrder
  <1>6. ServedTags(a) = [i \in 1..n |-> tags[i]]
    BY <1>1, <1>4, <1>5
  <1> QED BY <1>6

(* A save that runs alone serves the books it was given, and the tags in    *)
(* their order: what persist_relations wrote is what populate reads.        *)
THEOREM SavesAreServed == ImportSpec => []SavedIsServed
  <1>1. Invariant => SavedIsServed
    <2> SUFFICES ASSUME Invariant, NEW c \in Clients, pc[c] = "reply", alone[c]
                 PROVE  /\ job[c].books # NotGiven => ServedBooks(job[c].id) = InList(job[c].books)
                        /\ job[c].tags # NotGiven => ServedTags(job[c].id) = job[c].tags
      BY DEF SavedIsServed
    <2>1. BooksInv(c) /\ TagsInv(c) /\ job[c] \in JobType
      BY DEF Invariant, ServedInv, Typed, Locals
    <2>2. job[c].tags \in Seq(Nat)
      BY <2>1, ListTyped DEF JobType
    <2>3. job[c].books # NotGiven => ServedBooks(job[c].id) = InList(job[c].books)
      BY <2>1 DEF BooksInv, ServedBooks
    <2>4. job[c].tags # NotGiven => ServedTags(job[c].id) = job[c].tags
      BY <2>1, <2>2, ServedInOrder DEF TagsInv
    <2> QED BY <2>3, <2>4
  <1> QED BY <1>1, InvariantHolds, PTL

(* An upsert that runs alone finds the entry to update whenever there is    *)
(* one, from a map read once and for all, and an import counts each record  *)
(* it is done with once, and lists errors only of records it counts failed. *)
THEOREM ImportsAsAsked == ImportSpec => []ImportAsAsked
  <1>1. Invariant => UpsertFindsExisting
    <2> SUFFICES ASSUME Invariant, NEW c \in Clients, AtValid(c), mode[c] = "upsert", alone[c],
                        \A i \in 1..(at[c] - 1) : file[c][i].name # Current(c).name
                 PROVE  IF Named(Current(c).name) = {} THEN Match(c) = NoAuthor
                        ELSE Match(c) \in Named(Current(c).name)
      BY DEF UpsertFindsExisting
    <2> DEFINE n == Current(c).name
    <2>1. n \in Names
      BY CurrentTyped DEF AtValid, Record, Invariant, Typed
    <2>2. Match(c) = existing[c][n]
      BY DEF Match
    <2>3. pc[c] = "record" /\ InImport(c) /\ Handled(c) = 1..(at[c] - 1)
      BY DEF AtValid, InImport, Handled
    <2>4. /\ existing[c][n] # NoAuthor => existing[c][n] \in Named(n)
          /\ (\A i \in Handled(c) : file[c][i].name # n) /\ existing[c][n] = NoAuthor => Named(n) = {}
      <3> HIDE DEF n
      <3> QED BY <2>1, <2>3 DEF Invariant, MapInv
    <2>5. existing[c][n] = NoAuthor => Named(n) = {}
      BY <2>3, <2>4
    <2> QED BY <2>2, <2>4, <2>5
  <1>2. Invariant => ReportAccounts
    BY DEF Invariant
  <1> QED BY <1>1, <1>2, InvariantHolds, PTL DEF ImportAsAsked
=============================================================================
