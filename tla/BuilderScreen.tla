--------------------------- MODULE BuilderScreen ---------------------------
(***************************************************************************)
(* The Content-Type Builder of the application: the listing, and the       *)
(* editor of one content type (screens/content_type_builder.rs).  Each     *)
(* page loads all schemas once, changes its copy, and sends the whole copy *)
(* back; ctb_apply stores all of it or nothing (SchemaRegistry takes that  *)
(* call apart).  A call may fail, and another administrator may save.      *)
(*                                                                         *)
(* A field is a plain one or a relation to a content type.  Search, tabs,  *)
(* kinds, display names and the attributes' other settings are left out.   *)
(***************************************************************************)
EXTENDS Naturals, Sequences, FiniteSets, SequencesExt

CONSTANTS
    Uids,      \* the uids of content types
    Names,     \* the names of fields
    CopyOf(_), \* the uid the copy of a content type gets; its own where there is no uid left
    Faults,    \* may calls fail?
    Others,    \* does another administrator save?
    \* bounds: pages opened, clicks that call and saves of others, edits, calls at once
    MaxPages, MaxClicks, MaxEdits, AtOnce

\* Of the constants.
BuilderAssumption ==
    /\ IsFiniteSet(Uids) /\ Uids # {} /\ Names # {} /\ \A u \in Uids : CopyOf(u) \in Uids
    /\ Faults \in BOOLEAN /\ Others \in BOOLEAN
    /\ MaxPages \in Nat \ {0} /\ MaxClicks \in Nat /\ MaxEdits \in Nat /\ AtOnce \in Nat \ {0}

VARIABLES
    registry,  \* the fields of the content types that are stored
    onPage,    \* "list", or the content type in the editor
    load,      \* the load of the page's schemas: asked, or what was read
    working,   \* the page's copy of the schemas
    dirty,     \* is_dirty of the editor
    applies,   \* the calls under way: those the page waits for, and those a former page made
    pages, clicks, edits, \* counted for the bounds
    asked,     \* the types and fields whose removal, or other name, was confirmed
    current,   \* has the copy all schemas, and has nobody else, nor a former page, saved since?
    during     \* was the copy edited while it was being saved?

builderVars == <<registry, onPage, load, working, dirty, applies, pages, clicks, edits,
                 asked, current, during>>

Plain == "plain"
Fields == UNION {[S -> {Plain} \cup Uids] : S \in SUBSET Names}
Schema == [uid : Uids, fields : Fields]
Apply == [pc : {"called", "answered"}, of : {"create", "delete", "save", "import", "gone"},
          list : Seq(Schema), removed : SUBSET Uids, ok : BOOLEAN]
Load == [at : {"asked", "read", "over"}, list : Seq(Schema)]
Unread == [at |-> "asked", list |-> <<>>]

Listed(list) == {list[i].uid : i \in DOMAIN list}
InRegistry(u) == [uid |-> u, fields |-> registry[u]]
AllStored == LET us == SetToSeq(DOMAIN registry) IN [i \in DOMAIN us |-> InRegistry(us[i])]

\* The fields and one more, or with another definition of one.
With(fields, name, def) == [n \in DOMAIN fields \cup {name} |-> IF n = name THEN def ELSE fields[n]]

\* The elements of a sequence at some of its places, in their order.
Kept(seq, places) ==
    [k \in 1..Cardinality(places) |->
        seq[CHOOSE i \in places : Cardinality({j \in places : j < i}) = k - 1]]

\* Some content types, one of which may refer to another.
Init ==
    /\ \E S \in SUBSET Uids : \E f \in Names :
          registry \in [S -> {<<>>} \cup {With(<<>>, f, d) : d \in {Plain} \cup S}]
    /\ onPage \in {"list"} \cup Uids
    /\ load = Unread /\ working = <<>> /\ dirty = FALSE /\ applies = <<>>
    /\ pages = 1 /\ clicks = 0 /\ edits = 0
    /\ asked = {} /\ current = TRUE /\ during = FALSE

-----------------------------------------------------------------------------
(* The server. *)

\* validate_schemas: one schema for a uid, and every target of a relation is in the batch.
Valid(list) ==
    /\ IsInjective([i \in DOMAIN list |-> list[i].uid])
    /\ \A i \in DOMAIN list : \A n \in DOMAIN list[i].fields :
          list[i].fields[n] \in {Plain} \cup Listed(list)

FieldsIn(list, u) == list[CHOOSE i \in DOMAIN list : list[i].uid = u].fields

\* ctb_apply: what is listed is created or updated, what is removed and not listed goes.
Applied(list, removed) ==
    [u \in (DOMAIN registry \ removed) \cup Listed(list) |->
        IF u \in Listed(list) THEN FieldsIn(list, u) ELSE registry[u]]

Serve(i) ==
    LET a == applies[i] IN
    /\ a.pc = "called"
    /\ \E ok \in {Valid(a.list)} \cup (IF Faults THEN {FALSE} ELSE {}) :
          /\ registry' = IF ok THEN Applied(a.list, a.removed) ELSE registry
          /\ IF a.of = "gone"
             THEN applies' = RemoveAt(applies, i) /\ current' = (current /\ ~ok)
             ELSE applies' = [applies EXCEPT ![i].pc = "answered", ![i].ok = ok] /\ UNCHANGED current
    /\ UNCHANGED <<onPage, load, working, dirty, pages, clicks, edits, asked, during>>

\* Another administrator adds a field, or removes a content type nothing refers to.
SaveElsewhere ==
    /\ Others /\ current /\ load.at # "asked"
    /\ clicks < MaxClicks /\ clicks' = clicks + 1
    /\ \E u \in DOMAIN registry :
          \/ \E n \in Names \ DOMAIN registry[u] : registry' = [registry EXCEPT ![u] = With(@, n, Plain)]
          \/ /\ \A v \in DOMAIN registry \ {u} : \A n \in DOMAIN registry[v] : registry[v][n] # u
             /\ registry' = [v \in DOMAIN registry \ {u} |-> registry[v]]
    /\ current' = FALSE
    /\ UNCHANGED <<onPage, load, working, dirty, applies, pages, edits, asked, during>>

-----------------------------------------------------------------------------
(* Opening a page. *)

\* A page forgets the copy of the last one; its calls may still be served, or are dropped.
Open(next) ==
    /\ pages < MaxPages /\ next # onPage
    /\ onPage' = next /\ pages' = pages + 1
    /\ load' = Unread /\ working' = <<>> /\ dirty' = FALSE /\ during' = FALSE
    /\ current' = TRUE /\ asked' = {}
    /\ \E kept \in {applies, <<>>} :
          LET left == Kept(kept, {k \in DOMAIN kept : kept[k].pc = "called"})
          IN  applies' = [i \in DOMAIN left |-> [left[i] EXCEPT !.of = "gone"]]

\* From a row of the listing to the editor, and back.
OpenEditor(u) == onPage = "list" /\ u \in Listed(working) /\ Open(u) /\ UNCHANGED <<registry, clicks, edits>>
Back == onPage # "list" /\ Open("list") /\ UNCHANGED <<registry, clicks, edits>>

ReadSchemas ==
    /\ load.at = "asked"
    /\ \/ load' = [at |-> "read", list |-> AllStored]
          /\ UNCHANGED current
       \/ Faults /\ load' = [Unread EXCEPT !.at = "over"] /\ current' = FALSE
    /\ UNCHANGED <<registry, onPage, working, dirty, applies, pages, clicks, edits, asked, during>>

\* The copy is what was read, whatever has been done to it meanwhile.
Loaded ==
    /\ load.at = "read"
    /\ load' = [Unread EXCEPT !.at = "over"]
    /\ working' = load.list
    /\ UNCHANGED <<registry, onPage, dirty, applies, pages, clicks, edits, asked, current, during>>

-----------------------------------------------------------------------------
(* The listing: each of its actions sends the whole copy at once.          *)

Click(of, list, removed) ==
    /\ clicks < MaxClicks /\ Len(applies) < AtOnce
    /\ clicks' = clicks + 1
    /\ applies' = Append(applies, [pc |-> "called", of |-> of, list |-> list, removed |-> removed, ok |-> FALSE])
    /\ current' = (current /\ load.at = "over")
    /\ UNCHANGED <<registry, onPage, load, pages, edits>>

\* The new schema is in the copy from now on, also if the call fails.
Create(u) ==
    /\ onPage = "list"
    /\ working' = Append(working, [uid |-> u, fields |-> <<>>])
    /\ Click("create", working', {})
    /\ UNCHANGED <<dirty, asked, during>>

Duplicate(i) ==
    /\ onPage = "list" /\ CopyOf(working[i].uid) # working[i].uid
    /\ working' = Append(working, [working[i] EXCEPT !.uid = CopyOf(@)])
    /\ Click("save", working', {})
    /\ UNCHANGED <<dirty, asked, during>>

\* Confirmed: the row leaves the copy, also if the call fails.
Delete(u) ==
    /\ onPage = "list" /\ u \in Listed(working)
    /\ working' = Kept(working, {i \in DOMAIN working : working[i].uid # u})
    /\ Click("delete", working', {u})
    /\ asked' = asked \cup {u}
    /\ UNCHANGED <<dirty, during>>

\* Import: the bundle is applied, and is all the listing shows from then on.
ImportBundle(u) ==
    /\ onPage = "list"
    /\ Click("import", <<[uid |-> u, fields |-> IF u \in DOMAIN registry THEN registry[u] ELSE <<>>]>>, {})
    /\ UNCHANGED <<working, dirty, asked, during>>

-----------------------------------------------------------------------------
(* The editor: edits change the copy, and Save sends the whole copy.       *)

\* Mutant of Configured: the field is the only one afterwards.
ConfiguredAlone(fields, old, name, def) == With(<<>>, name, def)

\* FieldConfig: under another name the old field goes; a field that has the name is replaced.
Configured(fields, old, name, def) ==
    With([n \in DOMAIN fields \ ({old} \ {name}) |-> fields[n]], name, def)

Edit(i, fields) ==
    /\ edits < MaxEdits
    /\ edits' = edits + 1
    /\ working' = [working EXCEPT ![i].fields = fields]
    /\ dirty' = TRUE
    /\ during' = (during \/ \E k \in DOMAIN applies : applies[k].of = "save")
    /\ UNCHANGED <<registry, onPage, load, applies, pages, clicks, current>>

InEditor(i) == i \in DOMAIN working /\ working[i].uid = onPage

AddField(i, name, def) ==
    /\ InEditor(i)
    /\ Edit(i, Configured(working[i].fields, name, name, def))
    /\ UNCHANGED asked

EditField(i, old, name, def) ==
    /\ InEditor(i) /\ old \in DOMAIN working[i].fields
    /\ Edit(i, Configured(working[i].fields, old, name, def))
    /\ asked' = asked \cup {<<onPage, n>> : n \in {old} \ {name}}

RemoveField(i, name) ==
    /\ InEditor(i) /\ name \in DOMAIN working[i].fields
    /\ Edit(i, [n \in DOMAIN working[i].fields \ {name} |-> working[i].fields[n]])
    /\ asked' = asked \cup {<<onPage, name>>}

Save ==
    /\ onPage # "list" /\ dirty
    /\ Click("save", working, {})
    /\ UNCHANGED <<working, dirty, asked, during>>

-----------------------------------------------------------------------------
(* Answers. *)

\* Mutant of DirtyAfter: any answer counts as saved.
DirtyAfterAny(ok) == FALSE

DirtyAfter(ok) == dirty /\ ~ok

\* A created content type is opened in the editor; its fresh copy is that page's.
Answered(i) ==
    LET a == applies[i] IN
    /\ a.pc = "answered"
    /\ IF a.of = "create" /\ a.ok /\ pages < MaxPages
       THEN /\ Open(Last(a.list).uid) /\ UNCHANGED <<registry, clicks, edits>>
       ELSE /\ applies' = RemoveAt(applies, i)
            /\ dirty' = IF onPage = "list" THEN dirty ELSE DirtyAfter(a.ok)
            /\ working' = IF a.of = "import" /\ a.ok THEN a.list ELSE working
            /\ current' = (current /\ (a.of = "import" => ~a.ok))
            /\ UNCHANGED <<registry, onPage, load, pages, clicks, edits, asked, during>>

Next ==
    \/ SaveElsewhere \/ Back \/ ReadSchemas \/ Loaded \/ Save
    \/ \E u \in Uids : OpenEditor(u) \/ Create(u) \/ Delete(u) \/ ImportBundle(u)
    \/ \E i \in DOMAIN working :
          \/ Duplicate(i)
          \/ \E n \in Names : RemoveField(i, n)
          \/ \E n \in Names, d \in {Plain} \cup Listed(working) :
                AddField(i, n, d) \/ \E m \in Names : EditField(i, m, n, d)
    \/ \E i \in DOMAIN applies : Serve(i) \/ Answered(i)

Spec == Init /\ [][Next]_builderVars

-----------------------------------------------------------------------------
(* Properties. *)

\* Every variable keeps its type.
BuilderTypeOK ==
    /\ DOMAIN registry \subseteq Uids /\ \A u \in DOMAIN registry : registry[u] \in Fields
    /\ onPage \in {"list"} \cup Uids /\ load \in Load
    /\ working \in Seq(Schema) /\ applies \in Seq(Apply)
    /\ dirty \in BOOLEAN /\ current \in BOOLEAN /\ during \in BOOLEAN

\* When the editor offers nothing to save, what it shows is what is stored: unless somebody else
\* has saved since, or the copy was edited while it was being saved.
CleanIsStored ==
    onPage # "list" /\ load.at = "over" /\ ~dirty /\ applies = <<>> /\ current /\ ~during =>
        \A i \in DOMAIN working : working[i].uid \in DOMAIN registry /\ working[i] = InRegistry(working[i].uid)

\* While nobody else saves, a content type or a field leaves the registry only if its removal, or
\* another name for it, was confirmed on this page.
GoneOnlyIfAsked ==
    [][current /\ current' =>
          \A u \in DOMAIN registry :
             u \notin asked =>
                /\ u \in DOMAIN registry'
                /\ \A n \in DOMAIN registry[u] \ DOMAIN registry'[u] : <<u, n>> \in asked]_builderVars
=============================================================================
