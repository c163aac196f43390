-------------------------- MODULE ContentRelations --------------------------
(***************************************************************************)
(* Relations and computed values of content entries                        *)
(* (crates/services/src/content.rs, crates/dynamic-store/src/dml.rs).      *)
(*                                                                         *)
(* Two content types stand for all: an author has many books (one-to-many, *)
(* mapped by the book's author, a many-to-one), tags (many-to-many with    *)
(* books, through a join table), and total, a persisted formula that       *)
(* counts the live books of the author.  Attributes are written in the     *)
(* order of the schema: books, then tags.                                  *)
(*                                                                         *)
(* A save writes the row, then each relation that is in the payload, then  *)
(* refreshes the formulas of every content type.  Every statement commits  *)
(* by itself and is one step here; a save that fails half way leaves what  *)
(* it has done.  A bulk call is a sequence of saves that stops at the      *)
(* first error, which is what a client here may do one by one.             *)
(***************************************************************************)
EXTENDS Naturals, Sequences, FiniteSets

CONSTANTS
    Clients,            \* requests in progress at the same time
    Names,              \* the values of an author's name
    BookLists,          \* what a payload may give for books
    TagLists,           \* what it may give for tags
    Calls,              \* the calls clients make
    Faults,             \* may a request be cut off between two statements?
    MaxAuthors, MaxBooks, MaxCalls      \* bounds: rows inserted, calls started

Call == {"create", "update", "delete", "publish", "book", "deleteBook"}

AuthorIds == 1..MaxAuthors
BookIds == 1..MaxBooks

\* A value in a payload names a book by id, document, code, sku or name, or it
\* names none: Unknown.  A payload need not have the attribute at all.
Unknown == 0
NotGiven == <<MaxBooks + 1>>

ASSUME RelationsAssumption ==
    /\ BookLists \subseteq Seq(BookIds \cup {Unknown}) \cup {NotGiven}
    /\ TagLists \subseteq Seq(BookIds \cup {Unknown}) \cup {NotGiven}
    /\ Calls \subseteq Call
    /\ Faults \in BOOLEAN
    /\ MaxAuthors \in Nat \ {0} /\ MaxBooks \in Nat \ {0, 1} /\ MaxCalls \in Nat

NoAuthor == 0       \* a foreign key that is null
NotComputed == MaxBooks + 1     \* a formula column no refresh has written

RowState == {"absent", "live", "deleted"}

Author == [state : RowState, name : Names, total : 0..NotComputed]
Book == [state : RowState, author : AuthorIds \cup {NoAuthor}]
Link == [book : BookIds, order : Nat]

VARIABLES
    authors,    \* one content table
    books,      \* the other
    links,      \* the join table of tags: the rows of each author, as inserted
    pc,         \* the step each client's call is at
    job,        \* its locals
    alone,      \* has no other call taken a step since this one began?
    stale,      \* has a call ended, after a write, without a refresh?
    calls       \* calls started, for the bound

vars == <<authors, books, links, pc, job, alone, stale, calls>>

\* id: the row written; ids: the targets resolved; clear, todo: those of which
\* rows are to be written still; then: the step after the relations.
IdleJob == [id |-> 0, books |-> NotGiven, tags |-> NotGiven, ids |-> <<>>,
            clear |-> {}, todo |-> <<>>, then |-> "refresh"]

Live(table) == {i \in DOMAIN table : table[i].state = "live"}
Present(table) == {i \in DOMAIN table : table[i].state # "absent"}
IsNext(table, i) == i \in DOMAIN table \ Present(table) /\ 1..(i - 1) \subseteq Present(table)

\* One author is there, with at most one of the books, and all the books but
\* the last: what earlier saves, each with its refresh, may have left.
Init ==
    /\ \E n \in Names, owned \in {{}, {1}} :
          /\ authors = [a \in AuthorIds |->
                IF a = 1 THEN [state |-> "live", name |-> n, total |-> Cardinality(owned)]
                ELSE [state |-> "absent", name |-> n, total |-> NotComputed]]
          /\ books = [b \in BookIds |->
                [state |-> IF b = MaxBooks THEN "absent" ELSE "live",
                 author |-> IF b \in owned THEN 1 ELSE NoAuthor]]
    /\ links = [a \in AuthorIds |-> <<>>]
    /\ pc = [c \in Clients |-> "idle"]
    /\ job = [c \in Clients |-> IdleJob]
    /\ alone = [c \in Clients |-> FALSE]
    /\ stale = FALSE
    /\ calls = 0

Idle == \A c \in Clients : pc[c] = "idle"

-----------------------------------------------------------------------------
(* Steps of a call.                                                        *)

Goto(c, step, locals) ==
    /\ pc' = [pc EXCEPT ![c] = step]
    /\ job' = [job EXCEPT ![c] = locals]
    /\ alone' = [d \in Clients |-> IF d = c THEN alone[c] ELSE FALSE]

\* The first step of a call.
Begin(c, step, locals) ==
    /\ calls < MaxCalls /\ calls' = calls + 1
    /\ pc' = [pc EXCEPT ![c] = step]
    /\ job' = [job EXCEPT ![c] = locals]
    /\ alone' = [d \in Clients |-> d = c /\ \A e \in Clients : pc[e] = "idle"]

CanCall(c, call) == pc[c] = "idle" /\ call \in Calls

\* A call that ends before its refresh is done.
Unrefreshed(c) ==
    /\ Goto(c, "idle", IdleJob)
    /\ stale' = (stale \/ pc[c] # "reply")

-----------------------------------------------------------------------------
(* cm_create, cm_update and cm_delete of an author.                        *)

\* insert_one: relations and computed columns are left out of the row.
NewAuthor(n) == [state |-> "live", name |-> n, total |-> NotComputed]

CreateAuthor(c) ==
    /\ CanCall(c, "create")
    /\ \E a \in AuthorIds, n \in Names, bs \in BookLists, ts \in TagLists :
          /\ IsNext(authors, a)
          /\ authors' = [authors EXCEPT ![a] = NewAuthor(n)]
          /\ Begin(c, "books", [IdleJob EXCEPT !.id = a, !.books = bs, !.tags = ts])
    /\ UNCHANGED <<books, links, stale>>

\* update_one finds the live row of the document, and writes its scalars: the
\* payloads here leave the name as it is.
UpdateAuthor(c) ==
    /\ CanCall(c, "update")
    /\ \E a \in Live(authors), bs \in BookLists, ts \in TagLists :
          Begin(c, "books", [IdleJob EXCEPT !.id = a, !.books = bs, !.tags = ts])
    /\ UNCHANGED <<authors, books, links, stale>>

\* delete_one: the links of the row, and the keys that point to it, stay.
DeleteAuthor(c) ==
    /\ CanCall(c, "delete")
    /\ \E a \in Live(authors) :
          /\ authors' = [authors EXCEPT ![a].state = "deleted"]
          /\ Begin(c, "refresh", [IdleJob EXCEPT !.id = a])
    /\ UNCHANGED <<books, links, stale>>

\* cm_publish, as one transaction: the copy has the scalars only, the draft is
\* deleted with its links, and nothing is refreshed.
PublishAuthor(c) ==
    /\ CanCall(c, "publish")
    /\ \E a \in Live(authors), new \in AuthorIds :
          /\ IsNext(authors, new)
          /\ authors' = [authors EXCEPT ![a].state = "deleted",
                                        ![new] = NewAuthor(authors[a].name)]
    /\ stale' = TRUE
    /\ Begin(c, "idle", IdleJob)
    /\ UNCHANGED <<books, links>>

-----------------------------------------------------------------------------
(* persist_relations, for the one-to-many side.                            *)

\* resolve_relation_ids: every value names a live target, or the call fails.
Resolved(values) == \A i \in DOMAIN values : values[i] \in Live(books)

\* The step after the relations: the refresh, or the next record of an import.
Persisted(c) == IF job[c].tags = NotGiven THEN job[c].then ELSE "tags"

ResolveBooks(c) ==
    /\ pc[c] = "books"
    /\ IF job[c].books = NotGiven
       THEN Goto(c, Persisted(c), job[c])
       ELSE /\ Resolved(job[c].books)
            /\ Goto(c, "reconcile", [job[c] EXCEPT !.ids = job[c].books])
    /\ UNCHANGED <<authors, books, links, stale, calls>>

InList(list) == {list[i] : i \in DOMAIN list}

\* Every live target that is not in the list, whoever it belongs to.
ToClear(c) == Live(books) \ InList(job[c].ids)

ReadTargets(c) ==
    /\ pc[c] = "reconcile"
    /\ Goto(c, "clear", [job[c] EXCEPT !.clear = ToClear(c)])
    /\ UNCHANGED <<authors, books, links, stale, calls>>

\* One row at a time; the order of the rows is left open.
ClearBook(c) ==
    /\ pc[c] = "clear"
    /\ \E b \in job[c].clear :
          /\ books' = [books EXCEPT ![b].author = NoAuthor]
          /\ Goto(c, "clear", [job[c] EXCEPT !.clear = @ \ {b}])
    /\ UNCHANGED <<authors, links, stale, calls>>

Cleared(c) ==
    /\ pc[c] = "clear" /\ job[c].clear = {}
    /\ Goto(c, "set", [job[c] EXCEPT !.todo = job[c].ids])
    /\ UNCHANGED <<authors, books, links, stale, calls>>

SetBook(c) ==
    /\ pc[c] = "set" /\ job[c].todo # <<>>
    /\ books' = [books EXCEPT ![Head(job[c].todo)].author = job[c].id]
    /\ Goto(c, "set", [job[c] EXCEPT !.todo = Tail(@)])
    /\ UNCHANGED <<authors, links, stale, calls>>

BooksSet(c) ==
    /\ pc[c] = "set" /\ job[c].todo = <<>>
    /\ Goto(c, Persisted(c), job[c])
    /\ UNCHANGED <<authors, books, links, stale, calls>>

-----------------------------------------------------------------------------
(* persist_relations, for the many-to-many side: replace_join_links.       *)

ResolveTags(c) ==
    /\ pc[c] = "tags"
    /\ Resolved(job[c].tags)
    /\ Goto(c, "unlink", [job[c] EXCEPT !.ids = job[c].tags, !.todo = job[c].tags])
    /\ UNCHANGED <<authors, books, links, stale, calls>>

\* Mutant of Unlinked: the rows of the owner are not deleted first.
UnlinkedNone(c) == links

Unlinked(c) == [links EXCEPT ![job[c].id] = <<>>]

DeleteLinks(c) ==
    /\ pc[c] = "unlink"
    /\ links' = Unlinked(c)
    /\ Goto(c, "link", job[c])
    /\ UNCHANGED <<authors, books, stale, calls>>

InsertLink(c) ==
    /\ pc[c] = "link" /\ job[c].todo # <<>>
    /\ links' = [links EXCEPT ![job[c].id] = Append(@,
          [book |-> Head(job[c].todo),
           order |-> Len(job[c].ids) - Len(job[c].todo) + 1])]
    /\ Goto(c, "link", [job[c] EXCEPT !.todo = Tail(@)])
    /\ UNCHANGED <<authors, books, stale, calls>>

Linked(c) ==
    /\ pc[c] = "link" /\ job[c].todo = <<>>
    /\ Goto(c, job[c].then, job[c])
    /\ UNCHANGED <<authors, books, links, stale, calls>>

\* A value that names no live target: the caller gets an error, and the row,
\* with the relations before this one, stays as it is.
NotFound(c) ==
    \/ pc[c] = "books" /\ job[c].books # NotGiven /\ ~Resolved(job[c].books)
    \/ pc[c] = "tags" /\ ~Resolved(job[c].tags)

FailRelation(c) ==
    /\ job[c].then = "refresh" /\ NotFound(c)
    /\ Unrefreshed(c)
    /\ UNCHANGED <<authors, books, links, calls>>

-----------------------------------------------------------------------------
(* The book's side, and the end of every save.                             *)

NextBook(author) == [state |-> "live", author |-> author]

\* cm_create or cm_update of a book, whose payload gives its author.  A value
\* that names no author is an error; this call then writes nothing of interest.
SaveBook(c) ==
    /\ CanCall(c, "book")
    /\ \E b \in BookIds, a \in Live(authors) \cup {NoAuthor} :
          /\ b \in Live(books) \/ IsNext(books, b)
          /\ books' = IF b \in Live(books) THEN books
                      ELSE [books EXCEPT ![b] = NextBook(NoAuthor)]
          /\ Begin(c, "author", [IdleJob EXCEPT !.id = b, !.ids = <<a>>])
    /\ UNCHANGED <<authors, links, stale>>

\* The key of the first target, or null.
SetAuthor(c) ==
    /\ pc[c] = "author"
    /\ books' = [books EXCEPT ![job[c].id].author = Head(job[c].ids)]
    /\ Goto(c, "refresh", job[c])
    /\ UNCHANGED <<authors, links, stale, calls>>

DeleteBook(c) ==
    /\ CanCall(c, "deleteBook")
    /\ \E b \in Live(books) :
          /\ books' = [books EXCEPT ![b].state = "deleted"]
          /\ Begin(c, "refresh", [IdleJob EXCEPT !.id = b])
    /\ UNCHANGED <<authors, links, stale>>

BooksOf(a) == {b \in Live(books) : books[b].author = a}

\* Mutant of CountOf: the aggregate forgets that a book may be deleted.
CountOfAll(a) == Cardinality({b \in Present(books) : books[b].author = a})

CountOf(a) == Cardinality(BooksOf(a))

\* refresh_relation_computed: one update for each content type with a formula,
\* of every row of its table.
Refresh(c) ==
    /\ pc[c] = "refresh"
    /\ authors' = [a \in AuthorIds |->
          IF a \in Present(authors) THEN [authors[a] EXCEPT !.total = CountOf(a)]
          ELSE authors[a]]
    /\ stale' = FALSE
    /\ Goto(c, "reply", job[c])
    /\ UNCHANGED <<books, links, calls>>

\* The row is read again, the event is dispatched, and the caller has its answer.
Reply(c) ==
    /\ pc[c] = "reply"
    /\ Goto(c, "idle", IdleJob)
    /\ UNCHANGED <<authors, books, links, stale, calls>>

\* A statement fails, the client hangs up, or the process stops.
CutOff(c) ==
    /\ Faults
    /\ pc[c] # "idle"
    /\ Unrefreshed(c)
    /\ UNCHANGED <<authors, books, links, calls>>

-----------------------------------------------------------------------------
Persist(c) ==
    \/ ResolveBooks(c) \/ ReadTargets(c) \/ ClearBook(c) \/ Cleared(c)
    \/ SetBook(c) \/ BooksSet(c)
    \/ ResolveTags(c) \/ DeleteLinks(c) \/ InsertLink(c) \/ Linked(c)

Save(c) ==
    \/ CreateAuthor(c) \/ UpdateAuthor(c) \/ DeleteAuthor(c) \/ PublishAuthor(c)
    \/ SaveBook(c) \/ DeleteBook(c)

Finish(c) == FailRelation(c) \/ SetAuthor(c) \/ Refresh(c) \/ Reply(c)

Next == \E c \in Clients : Save(c) \/ Persist(c) \/ Finish(c) \/ CutOff(c)

Spec == Init /\ [][Next]_vars

-----------------------------------------------------------------------------
(* What a request for the author gets (populate_relations).                *)

ServedBooks(a) == BooksOf(a)

\* Ordered by the order column, equal ones in any order.  A deleted target is
\* found by its id all the same.
ServedTags(a) ==
    LET rows == links[a]
        place == CHOOSE p \in [DOMAIN rows -> DOMAIN rows] :
                    /\ \A w \in DOMAIN rows : \E i \in DOMAIN rows : p[i] = w
                    /\ \A i, j \in DOMAIN rows : i < j => rows[p[i]].order <= rows[p[j]].order
    IN [i \in DOMAIN rows |-> rows[place[i]].book]

-----------------------------------------------------------------------------
(* Properties.                                                             *)

(* The tables and the calls have their types; a key and a link name a row   *)
(* that was inserted (no foreign key of the database says so).              *)
TypeOK ==
    /\ authors \in [AuthorIds -> Author]
    /\ books \in [BookIds -> Book]
    /\ \A a \in AuthorIds : links[a] \in Seq(Link)
    /\ \A b \in BookIds : books[b].author # NoAuthor => books[b].author \in Present(authors)
    /\ \A a \in AuthorIds : \A l \in InList(links[a]) : l.book \in Present(books)
    /\ \A c \in Clients : job[c].id \in 0..(MaxAuthors + MaxBooks)
    /\ alone \in [Clients -> BOOLEAN] /\ stale \in BOOLEAN /\ calls \in 0..MaxCalls

(* When no call is in progress, every author that was refreshed shows the   *)
(* number of books it has, whatever calls overlapped: persist before        *)
(* refresh, in every call.  Only a call that ended without its refresh (cut *)
(* off, failed in a relation, an import, a publish) leaves it stale, and    *)
(* only until the next refresh of anyone.                                   *)
TotalsFresh ==
    Idle /\ ~stale => \A a \in Live(authors) : authors[a].total = Cardinality(ServedBooks(a))

(* A save that ran alone gives what it was asked for: the author serves the *)
(* books and the tags of the payload, the tags in their order.              *)
SavedIsServed ==
    \A c \in Clients :
        pc[c] = "reply" /\ alone[c] =>
            /\ job[c].books # NotGiven => ServedBooks(job[c].id) = InList(job[c].books)
            /\ job[c].tags # NotGiven => ServedTags(job[c].id) = job[c].tags

(* Saving the books of one author takes no book from another that the list  *)
(* does not name: "Reconcile it so a form can attach, replace, or remove    *)
(* related entries normally" (content.rs).                                  *)
OthersKeepTheirBooks ==
    \A c \in Clients :
        pc[c] = "clear" /\ alone[c] =>
            \A b \in job[c].clear : books[b].author \in {NoAuthor, job[c].id}
=============================================================================
