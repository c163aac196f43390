----------------------------- MODULE ListScreen -----------------------------
(***************************************************************************)
(* The list of entries of a content type                                   *)
(* (app/src/screens/content_manager.rs, ContentManagerEntries), with the   *)
(* server behind it, and what others do to the entries meanwhile.  Loads   *)
(* are asked for, sent, answered by two statements of the server, and      *)
(* shown, in any order, and the user goes on.  Entries are numbers, listed *)
(* in their order.                                                         *)
(***************************************************************************)
EXTENDS Naturals, Sequences, FiniteSets

CONSTANTS
    MaxEntries, \* bound: entries there ever are
    Sizes, \* page sizes the user may choose
    MaxMoves \* bound: what the user does, and others do

VARIABLES
    stock, \* server: the entries
    page, size, total, listed, \* screen: page, page size, entries and those shown
    wanted, \* screen: a load is asked for (load_req)
    flight, \* loads sent and not yet shown, oldest first
    deleting, \* deletes sent and not yet carried out, each with the entries it still has to delete
    ticked, \* screen: entries with a tick
    moves,
    torn, \* history: an entry was added between the two statements of the load that is shown
    strayed \* history: the page or its size is not that of the last load shown, and none is asked for

vars == <<stock, page, size, total, listed, wanted, flight, deleting, ticked, moves, torn, strayed>>

\* Of the constants.
ListAssumption == MaxEntries \in Nat /\ Sizes \subseteq Nat \ {0} /\ MaxMoves \in Nat

Max(x, y) == IF x > y THEN x ELSE y
Pages(n, s) == Max((n + s - 1) \div s, 1)

\* The entries on a page.
OnPage(S, p, s) == {e \in S : LET before == Cardinality({d \in S : d < e}) IN before \div s = p - 1}

\* The screen opens on page 1, and asks for it.
Init ==
    /\ stock \in SUBSET (1..MaxEntries)
    /\ page = 1 /\ size \in Sizes /\ total = 0 /\ listed = {}
    /\ wanted = TRUE /\ flight = <<>> /\ deleting = {} /\ ticked = {}
    /\ moves = 0 /\ torn = FALSE /\ strayed = FALSE

-----------------------------------------------------------------------------
(* A load. *)

Load(p, s) == [page |-> p, size |-> s, step |-> "sent", ok |-> TRUE, rows |-> {}, total |-> 0, grown |-> FALSE]

\* The effect takes the request back, and sends the page the screen is on.
Send ==
    /\ wanted
    /\ wanted' = FALSE
    /\ flight' = Append(flight, Load(page, size))
    /\ UNCHANGED <<stock, page, size, total, listed, deleting, ticked, moves, torn, strayed>>

\* The server reads the page.
ReadRows(k) ==
    /\ flight[k].step = "sent"
    /\ flight' = [flight EXCEPT ![k].step = "rows", ![k].rows = OnPage(stock, flight[k].page, flight[k].size)]
    /\ UNCHANGED <<stock, page, size, total, listed, wanted, deleting, ticked, moves, torn, strayed>>

\* And counts the entries, by a statement of its own; or the load has failed.
Count(k) ==
    /\ flight[k].step = "rows"
    /\ \E ok \in BOOLEAN :
           flight' = [flight EXCEPT ![k].step = "answered", ![k].ok = ok, ![k].total = Cardinality(stock)]
    /\ UNCHANGED <<stock, page, size, total, listed, wanted, deleting, ticked, moves, torn, strayed>>

\* A mutant: a page that is no longer there is shown, empty.
BeyondNever(load) == FALSE

\* The page was taken away while the load was under way.
Beyond(load) == load.page > Pages(load.total, load.size)

\* An answer is shown; one from beyond the last page sends the screen back to that page.
Show(k) ==
    /\ flight[k].step = "answered"
    /\ LET load == flight[k]
           last == k = Len(flight)
       IN  \/ /\ ~load.ok
              /\ strayed' = (strayed \/ last)
              /\ UNCHANGED <<page, total, listed, wanted, torn>>
           \/ /\ load.ok /\ Beyond(load)
              /\ page' = Pages(load.total, load.size) /\ wanted' = TRUE /\ strayed' = FALSE
              /\ UNCHANGED <<total, listed, torn>>
           \/ /\ load.ok /\ ~Beyond(load)
              /\ total' = load.total /\ listed' = load.rows
              /\ torn' = load.grown /\ strayed' = (strayed \/ (last /\ k # 1))
              /\ UNCHANGED <<page, wanted>>
    /\ flight' = [j \in 1..(Len(flight) - 1) |-> IF j < k THEN flight[j] ELSE flight[j + 1]]
    /\ UNCHANGED <<stock, size, deleting, ticked, moves>>

-----------------------------------------------------------------------------
(* What the user does on the screen. *)

Move == moves < MaxMoves /\ moves' = moves + 1

\* The controls of the pages are there when there is an entry to show.
Turn(p) ==
    /\ Move /\ listed # {} /\ p \in 1..Pages(total, size) /\ p # page
    /\ page' = p /\ wanted' = TRUE /\ strayed' = FALSE
    /\ UNCHANGED <<stock, size, total, listed, flight, deleting, ticked, torn>>

Resize(s) ==
    /\ Move /\ listed # {} /\ s \in Sizes
    /\ size' = s /\ page' = 1 /\ wanted' = TRUE /\ strayed' = FALSE
    /\ UNCHANGED <<stock, total, listed, flight, deleting, ticked, torn>>

\* Another view brings its page size; the page stays.
SelectView(s) ==
    /\ Move /\ s \in Sizes
    /\ size' = s /\ wanted' = TRUE /\ strayed' = FALSE
    /\ UNCHANGED <<stock, page, total, listed, flight, deleting, ticked, torn>>

\* The views of the content type arrive: the page size is that of the default one, and nothing is loaded.
ViewsArrive(s) ==
    /\ Move /\ s \in Sizes
    /\ size' = s /\ strayed' = TRUE
    /\ UNCHANGED <<stock, page, total, listed, wanted, flight, deleting, ticked, torn>>

\* A header is sorted by, or a filter is added or taken away: what is listed is arranged anew on the
\* screen, which is now on page 1 without having loaded it.  (What this saves of the view is left out.)
Arrange ==
    /\ Move
    /\ page' = 1
    /\ UNCHANGED <<stock, size, total, listed, wanted, flight, deleting, ticked, torn, strayed>>

Tick(e) ==
    /\ e \in listed
    /\ ticked' = IF e \in ticked THEN ticked \ {e} ELSE ticked \cup {e}
    /\ Move
    /\ UNCHANGED <<stock, page, size, total, listed, wanted, flight, deleting, torn, strayed>>

\* All the entries with a tick, also those of other pages, one after the other.
BulkDelete ==
    /\ Move /\ ticked # {} /\ deleting = {}
    /\ deleting' = {[entries |-> ticked, bulk |-> TRUE]}
    /\ UNCHANGED <<stock, page, size, total, listed, wanted, flight, ticked, torn, strayed>>

\* The dialog for one entry: it closes, and asks for a load, before its delete is on its way.
DeleteOne(e) ==
    /\ Move /\ e \in listed /\ deleting = {}
    /\ deleting' = {[entries |-> {e}, bulk |-> FALSE]} /\ wanted' = TRUE /\ strayed' = FALSE
    /\ UNCHANGED <<stock, page, size, total, listed, flight, ticked, torn>>

\* One delete is carried out, or fails, which nobody notices.  The delete of a dialog ends with it,
\* perhaps before it is sent.
Delete ==
    \E d \in deleting : \E e \in d.entries : \E done \in BOOLEAN :
        /\ stock' = IF done THEN stock \ {e} ELSE stock
        /\ deleting' = IF d.entries = {e} /\ ~d.bulk THEN {} ELSE {[d EXCEPT !.entries = @ \ {e}]}
        /\ UNCHANGED <<page, size, total, listed, wanted, flight, ticked, moves, torn, strayed>>

\* After the last, the ticks go, and a load is asked for.
BulkDone ==
    /\ deleting = {[entries |-> {}, bulk |-> TRUE]}
    /\ deleting' = {} /\ ticked' = {} /\ wanted' = TRUE /\ strayed' = FALSE
    /\ UNCHANGED <<stock, page, size, total, listed, flight, moves, torn>>

\* Somebody else adds an entry, or deletes one.
Elsewhere(e) ==
    /\ Move
    /\ \/ e \in stock /\ stock' = stock \ {e} /\ UNCHANGED flight
       \/ /\ e \notin stock /\ stock' = stock \cup {e}
          /\ flight' = [k \in DOMAIN flight |-> [flight[k] EXCEPT !.grown = @ \/ flight[k].step = "rows"]]
    /\ UNCHANGED <<page, size, total, listed, wanted, deleting, ticked, torn, strayed>>

Next ==
    \/ Send
    \/ \E k \in DOMAIN flight : ReadRows(k) \/ Count(k) \/ Show(k)
    \/ \E p \in 1..MaxEntries : Turn(p)
    \/ \E s \in Sizes : Resize(s) \/ SelectView(s) \/ ViewsArrive(s)
    \/ Arrange
    \/ \E e \in 1..MaxEntries : Tick(e) \/ DeleteOne(e) \/ Elsewhere(e)
    \/ BulkDelete \/ Delete \/ BulkDone

-----------------------------------------------------------------------------

\* Nothing more comes of itself.
Quiet == ~wanted /\ flight = <<>>

\* At rest the screen does not make a collection with entries look empty, and it is not on a page
\* beyond its last one: whatever was deleted while it loaded, and whatever the user changed meanwhile
\* (what the comment in the load of ContentManagerEntries asks).  It says nothing of the rows if an
\* entry was added between the two statements of the load; and nothing of the page if the last load
\* failed, if its answer overtook that of an earlier one, or if the views arrived after it.
NeverStranded ==
    Quiet =>
        /\ ~torn => (listed = {} => total = 0)
        /\ ~strayed => page <= Pages(total, size)
=============================================================================
