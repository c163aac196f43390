----------------------------- MODULE SavedViews -----------------------------
(***************************************************************************)
(* The saved views of one content type: services/views.rs over the table   *)
(* content_type_views.  A call runs its statements one by one, without a   *)
(* transaction; what guards the table is its unique index on the slug.     *)
(***************************************************************************)
EXTENDS Naturals, FiniteSets, Sequences, SequencesExt

CONSTANTS
    Callers,   \* who calls: each has one call under way at most
    Slugs,     \* the slugs that names give
    FirstSlug, \* "all-records"
    MaxViews,  \* bound on the rows ever inserted
    AtOnce     \* bound on the calls under way at once

\* Of the constants.
ViewsAssumption ==
    /\ FirstSlug \in Slugs
    /\ MaxViews \in Nat \ {0} /\ AtOnce \in Nat \ {0}

VARIABLES
    table, \* the rows, by id
    last,  \* the last id given
    call,  \* the call of each caller
    apart  \* no two calls have overlapped, and none was cut off

viewVars == <<table, last, call, apart>>

Ids == 1 .. MaxViews
View == [slug : Slugs, default : BOOLEAN, position : Nat]
Ops == {"list", "create", "duplicate", "rename", "delete", "default", "reorder"}
Call == [op : Ops \cup {"none"}, at : {"idle", "found", "counted", "cleared", "deleted", "select", "next"},
         id : 0 .. MaxViews, slug : Slugs, default : BOOLEAN, count : Nat, order : Seq(Ids)]
Idle == [op |-> "none", at |-> "idle", id |-> 0, slug |-> FirstSlug, default |-> FALSE,
         count |-> 0, order |-> <<>>]

Views == DOMAIN table
Defaults == {v \in Views : table[v].default}
First(v) == v \in Views /\ \A w \in Views : table[v].position <= table[w].position

Init == table = <<>> /\ last = 0 /\ call = [c \in Callers |-> Idle] /\ apart = TRUE

\* The unique index of the migration; a second insert or rename with a slug fails.
SlugFree(slug, id) == \A v \in Views \ {id} : table[v].slug # slug

Inserted(row) == [v \in Views \cup {last + 1} |-> IF v = last + 1 THEN row ELSE table[v]]

\* An update by id changes nothing when the row has gone.
Marked(id) == [v \in Views |-> [table[v] EXCEPT !.default = @ \/ v = id]]

\* Mutant of Cleared: the flag of the first view is forgotten.
ClearedButOne == [v \in Views |-> [table[v] EXCEPT !.default = @ /\ v = 1]]

Cleared == [v \in Views |-> [table[v] EXCEPT !.default = FALSE]]

Placed(id, place) == [v \in Views |-> [table[v] EXCEPT !.position = IF v = id THEN place ELSE @]]

Without(id) == [v \in Views \ {id} |-> table[v]]

Set(c, record) ==
    /\ call' = [call EXCEPT ![c] = record]
    /\ apart' = (apart /\ \A d \in Callers \ {c} : call[d] = Idle)
At(c, op, place) == call[c].op = op /\ call[c].at = place
Done(c) == Set(c, Idle)

CanCall(c) == call[c] = Idle /\ Cardinality({d \in Callers : call[d] # Idle}) < AtOnce

-----------------------------------------------------------------------------
(* list_views: ensure_default counts, inserts the first view if there is   *)
(* none, and the views are selected.                                       *)

List(c) ==
    /\ CanCall(c)
    /\ Set(c, [Idle EXCEPT !.op = "list", !.at = IF Views = {} THEN "counted" ELSE "select"])
    /\ UNCHANGED <<table, last>>

EnsureDefault(c) ==
    /\ At(c, "list", "counted") /\ last < MaxViews
    /\ IF SlugFree(FirstSlug, 0)
       THEN /\ table' = Inserted([slug |-> FirstSlug, default |-> TRUE, position |-> 0])
            /\ last' = last + 1
            /\ Set(c, [call[c] EXCEPT !.at = "select"])
       ELSE Done(c) /\ UNCHANGED <<table, last>>

Select(c) == At(c, "list", "select") /\ Done(c) /\ UNCHANGED <<table, last>>

-----------------------------------------------------------------------------
(* create_view: is there a default, how many views are there, insert.      *)
(* duplicate_view reads the view first.                                    *)

Create(c, slug) ==
    /\ CanCall(c)
    /\ Set(c, [Idle EXCEPT !.op = "create", !.at = "found", !.slug = slug, !.default = Defaults = {}])
    /\ UNCHANGED <<table, last>>

Duplicate(c, id, slug) ==
    /\ CanCall(c)
    /\ Set(c, [Idle EXCEPT !.op = "duplicate", !.at = "next", !.id = id, !.slug = slug])
    /\ UNCHANGED <<table, last>>

CreateCopy(c) ==
    /\ At(c, "duplicate", "next")
    /\ Set(c, [call[c] EXCEPT !.op = "create", !.at = "found", !.default = Defaults = {}])
    /\ UNCHANGED <<table, last>>

CountViews(c) ==
    /\ At(c, "create", "found")
    /\ Set(c, [call[c] EXCEPT !.at = "counted", !.count = Cardinality(Views)])
    /\ UNCHANGED <<table, last>>

InsertView(c) ==
    /\ At(c, "create", "counted") /\ last < MaxViews
    /\ IF SlugFree(call[c].slug, 0)
       THEN /\ table' = Inserted([slug |-> call[c].slug, default |-> call[c].default,
                                  position |-> call[c].count])
            /\ last' = last + 1
       ELSE UNCHANGED <<table, last>>
    /\ Done(c)

\* update_view: the columns the request names; here the name, and its slug with it.
Rename(c, id, slug) ==
    /\ CanCall(c) /\ SlugFree(slug, id)
    /\ table' = [table EXCEPT ![id].slug = slug]
    /\ Done(c)
    /\ UNCHANGED last

-----------------------------------------------------------------------------
(* delete_view: more than one view, the view itself, its deletion, and the *)
(* promotion of the first of those left.                                   *)

Delete(c, id) ==
    /\ CanCall(c) /\ Cardinality(Views) > 1
    /\ Set(c, [Idle EXCEPT !.op = "delete", !.at = "counted", !.id = id])
    /\ UNCHANGED <<table, last>>

FindDeleted(c) ==
    /\ At(c, "delete", "counted")
    /\ IF call[c].id \in Views
       THEN Set(c, [call[c] EXCEPT !.at = "found", !.default = table[call[c].id].default])
       ELSE Done(c)
    /\ UNCHANGED <<table, last>>

DeleteRow(c) ==
    /\ At(c, "delete", "found")
    /\ table' = Without(call[c].id)
    /\ IF call[c].default THEN Set(c, [call[c] EXCEPT !.at = "deleted"]) ELSE Done(c)
    /\ UNCHANGED last

FindNext(c) ==
    /\ At(c, "delete", "deleted")
    /\ \/ \E v \in Views : First(v) /\ Set(c, [call[c] EXCEPT !.at = "next", !.id = v])
       \/ Views = {} /\ Done(c)
    /\ UNCHANGED <<table, last>>

Promote(c) ==
    /\ At(c, "delete", "next")
    /\ table' = Marked(call[c].id)
    /\ Done(c)
    /\ UNCHANGED last

-----------------------------------------------------------------------------
(* set_default_view: the view, every flag cleared, its flag set.           *)

SetDefault(c, id) ==
    /\ CanCall(c)
    /\ Set(c, [Idle EXCEPT !.op = "default", !.at = "found", !.id = id])
    /\ UNCHANGED <<table, last>>

ClearDefaults(c) ==
    /\ At(c, "default", "found")
    /\ table' = Cleared
    /\ Set(c, [call[c] EXCEPT !.at = "cleared"])
    /\ UNCHANGED last

MarkDefault(c) ==
    /\ At(c, "default", "cleared")
    /\ table' = Marked(call[c].id)
    /\ Done(c)
    /\ UNCHANGED last

\* reorder_views: one position after the other, then list_views; a view that has gone ends the call.
Reorder(c, order) ==
    /\ CanCall(c)
    /\ Set(c, [Idle EXCEPT !.op = "reorder", !.at = "next", !.order = order])
    /\ UNCHANGED <<table, last>>

Place(c) ==
    /\ At(c, "reorder", "next")
    /\ LET k == call[c].count + 1 IN
       IF k > Len(call[c].order)
       THEN UNCHANGED table /\ Set(c, [Idle EXCEPT !.op = "list", !.at = IF Views = {} THEN "counted" ELSE "select"])
       ELSE /\ table' = Placed(call[c].order[k], k - 1)
            /\ IF call[c].order[k] \in Views THEN Set(c, [call[c] EXCEPT !.count = k]) ELSE Done(c)
    /\ UNCHANGED last

Orders == {o \in TupleOf(Views, Cardinality(Views)) : IsInjective(o)}

\* The call is cut off between two statements: the client went away, or the database failed.
CutOff(c) ==
    /\ call[c] # Idle
    /\ call' = [call EXCEPT ![c] = Idle]
    /\ apart' = FALSE
    /\ UNCHANGED <<table, last>>

Next ==
    \E c \in Callers :
       \/ List(c) \/ EnsureDefault(c) \/ Select(c)
       \/ \E s \in Slugs : Create(c, s)
       \/ \E v \in Views, s \in Slugs : Duplicate(c, v, s) \/ Rename(c, v, s)
       \/ CreateCopy(c) \/ CountViews(c) \/ InsertView(c)
       \/ \E v \in Views : Delete(c, v) \/ SetDefault(c, v)
       \/ FindDeleted(c) \/ DeleteRow(c) \/ FindNext(c) \/ Promote(c)
       \/ ClearDefaults(c) \/ MarkDefault(c)
       \/ \E o \in Orders : Reorder(c, o)
       \/ Place(c) \/ CutOff(c)

Spec == Init /\ [][Next]_viewVars

-----------------------------------------------------------------------------
(* Properties. *)

\* Every variable keeps its type, and no two views have one slug.
ViewsTypeOK ==
    /\ last \in 0 .. MaxViews /\ Views \subseteq 1 .. last
    /\ table \in [Views -> View]
    /\ \A v \in Views : SlugFree(table[v].slug, v)
    /\ call \in [Callers -> Call] /\ apart \in BOOLEAN

\* Calls that neither overlap nor are cut off keep a view, once there is one, and exactly one of
\* the views is the default.
Kept == IF last = 0 THEN Views = {} ELSE Cardinality(Defaults) = 1
OneDefault == apart /\ (\A c \in Callers : call[c] = Idle) => Kept

\* What a call that runs alone has found so far, and what it owes: between clearing the flag and
\* setting one again there is no default, and the view that is to have it is there.
Owes(c) == At(c, "delete", "deleted") \/ At(c, "delete", "next") \/ At(c, "default", "cleared")
Found(c) ==
    /\ Owes(c) => Defaults = {} /\ Views # {}
    /\ At(c, "delete", "next") \/ call[c].op = "default" => call[c].id \in Views
    /\ call[c].op = "delete" /\ call[c].at \in {"counted", "found"} => Cardinality(Views) > 1
    /\ At(c, "delete", "found") => call[c].id \in Views /\ call[c].default = table[call[c].id].default
    /\ call[c].op = "create" => (call[c].default <=> Defaults = {})
    /\ At(c, "list", "counted") => Views = {}
ApartInv ==
    apart =>
       /\ \A c, d \in Callers : call[c] # Idle /\ call[d] # Idle => c = d
       /\ \A c \in Callers : Found(c)
       /\ Kept \/ \E c \in Callers : Owes(c)

\* "a content type must keep at least one view": once there is one, there always is.
KeepsAView == [][Views # {} => Views' # {}]_viewVars
=============================================================================
