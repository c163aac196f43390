---------------------------- MODULE EntryEditor ----------------------------
(***************************************************************************)
(* The editor of one entry whose lines are entries of another content type *)
(* (an invoice and its lines): ContentManagerEntry, EntryEditView,         *)
(* RelationField and InlineLineModal of the Content Manager, with the      *)
(* calls they make.  The lines of an entry that is not stored yet are      *)
(* staged; the lines of a stored one are stored at once.  Buttons are not  *)
(* disabled while a call is under way, and any call may fail: Save is then *)
(* pressed again.                                                          *)
(***************************************************************************)
EXTENDS Naturals, Sequences, FiniteSets, SequencesExt

CONSTANTS
    Lines,       \* the lines the user may add, each once
    MaxFormer,   \* bound on the lines the opened entry has already
    MaxSaves,    \* bound on the clicks on Save
    Overlap,     \* may Save be pressed while a save is under way?
    Faults,      \* may calls fail, without effect?
    Lost         \* may a call take effect and its answer be an error?

\* Of the constants.
EditorAssumption ==
    /\ MaxFormer \in Nat /\ MaxSaves \in Nat \ {0}
    /\ "former" \notin Lines
    /\ Overlap \in BOOLEAN /\ Faults \in BOOLEAN /\ Lost \in BOOLEAN

VARIABLES
    entries, \* how many entries are stored; they are numbered from 1
    rows,    \* the lines that are stored, deleted ones included
    route,   \* where the user is
    doc,     \* the document edited: saved_parent_id, or document_id; 0 for a new one
    staged,  \* pending_lines
    form,    \* the lines in the relation field of the form, and whether it is there
    saves,   \* the saves under way or done, in the order of the clicks
    change,  \* the call of a line editor or of a line's Remove button
    used     \* the lines added so far, and those that were removed before they were stored

vars == <<entries, rows, route, doc, staged, form, saves, change, used>>

Row == [line : Lines \cup {"former"}, entry : 0 .. MaxSaves, live : BOOLEAN]
Field == [there : BOOLEAN, lines : SUBSET Nat]
Absent == [there |-> FALSE, lines |-> {}]
Pending == [id : Nat \ {0}, line : Lines]
Save == [pc : {"called", "answered", "over"}, call : {"create", "update", "line"},
         doc : Nat, form : Field, left : Seq(Pending), all : SUBSET Lines,
         ok : BOOLEAN, new : Nat]
Change == [pc : {"none", "called", "answered"}, call : {"none", "add", "edit", "remove"},
           doc : Nat, line : Lines \cup {"former"}, row : Nat, ok : BOOLEAN]
NoChange == [pc |-> "none", call |-> "none", doc |-> 0, line |-> "former", row |-> 0, ok |-> FALSE]

\* A new entry, or one that is stored, with some lines.
Init ==
    /\ entries \in {0, 1}
    /\ \E n \in 0 .. (IF entries = 0 THEN 0 ELSE MaxFormer) :
          rows = [r \in 1 .. n |-> [line |-> "former", entry |-> 1, live |-> TRUE]]
    /\ route = "loading"
    /\ doc = entries
    /\ staged = <<>> /\ form = Absent /\ saves = <<>> /\ change = NoChange /\ used = {}

-----------------------------------------------------------------------------
(* The server.  Its calls are single steps here: ContentRelations takes    *)
(* them apart.                                                             *)

RowsOf(entry) == {r \in DOMAIN rows : rows[r].live /\ rows[r].entry = entry}

\* persist_relations for the one-to-many side: every line that is not listed is cleared,
\* whichever entry it is of, and every line that is gets this entry.
Linked(entry, field) ==
    IF ~field.there THEN rows
    ELSE [r \in DOMAIN rows |->
            IF ~rows[r].live THEN rows[r]
            ELSE [rows[r] EXCEPT !.entry = IF r \in field.lines THEN entry ELSE 0]]

\* resolve_relation_ids: a line that is no longer there makes the whole call fail.
Resolves(field) == \A r \in field.lines : rows[r].live

Stored(line, entry) == Append(rows, [line |-> line, entry |-> entry, live |-> TRUE])

Outcomes(works) == (IF works THEN {"done"} ELSE {"failed"}) \cup (IF Faults THEN {"failed"} ELSE {})
                   \cup (IF works /\ Lost THEN {"lost"} ELSE {})

\* cm_create and cm_update of the entry, and cm_create of a line.
ServeSave(i) ==
    /\ saves[i].pc = "called"
    /\ LET s == saves[i] IN
       \E o \in Outcomes(s.call = "line" \/ Resolves(s.form)) :
          /\ saves' = [saves EXCEPT ![i].pc = "answered", ![i].ok = o = "done",
                        ![i].new = IF s.call = "line" THEN Len(rows) + 1 ELSE entries + 1]
          /\ entries' = IF o # "failed" /\ s.call = "create" THEN entries + 1 ELSE entries
          /\ rows' = IF o = "failed" THEN rows
                     ELSE CASE s.call = "create" -> Linked(entries + 1, s.form)
                       [] s.call = "update" -> Linked(s.doc, s.form)
                       [] OTHER -> Stored(Head(s.left).line, s.doc)
    /\ UNCHANGED <<route, doc, staged, form, change, used>>

ServeChange ==
    /\ change.pc = "called"
    /\ \E o \in Outcomes(change.call = "add" \/ rows[change.row].live) :
          /\ change' = [change EXCEPT !.pc = "answered", !.ok = o = "done",
                           !.row = IF change.call = "add" THEN Len(rows) + 1 ELSE @]
          /\ rows' = IF o = "failed" THEN rows
                     ELSE CASE change.call = "add" -> Stored(change.line, change.doc)
                       [] change.call = "edit" -> [rows EXCEPT ![change.row].entry = change.doc]
                       [] OTHER -> [rows EXCEPT ![change.row].live = FALSE]
    /\ UNCHANGED <<entries, route, doc, staged, form, saves, used>>

-----------------------------------------------------------------------------
(* Opening and leaving. *)

\* The entry is read with its lines; when that fails the form stays empty.
Open ==
    /\ route = "loading"
    /\ route' = "editing"
    /\ form' \in (IF doc = 0 THEN {Absent} ELSE {[there |-> TRUE, lines |-> RowsOf(doc)]})
                 \cup (IF Faults THEN {Absent} ELSE {})
    /\ UNCHANGED <<entries, rows, doc, staged, saves, change, used>>

\* Back, and Delete of an entry that is not new: whatever is staged is gone.
Leave ==
    /\ route = "editing"
    /\ route' = "left"
    /\ UNCHANGED <<entries, rows, doc, staged, form, saves, change, used>>

-----------------------------------------------------------------------------
(* Lines. *)

\* The new pending id is one more than the largest in use.
NextPending == 1 + (IF staged = <<>> THEN 0 ELSE Max({staged[k].id : k \in DOMAIN staged}))

\* The elements of a sequence at some of its places, in their order.
Kept(seq, places) ==
    [k \in 1..Cardinality(places) |->
        seq[CHOOSE i \in places : Cardinality({j \in places : j < i}) = k - 1]]

Drop(seq, id) == Kept(seq, {k \in DOMAIN seq : seq[k].id # id})

\* "Save line" while the entry is new: the line is staged.
Stage(line) ==
    /\ route = "editing" /\ doc = 0 /\ line \notin used
    /\ staged' = Append(staged, [id |-> NextPending, line |-> line])
    /\ used' = used \cup {line}
    /\ UNCHANGED <<entries, rows, route, doc, form, saves, change>>

Unstage(k) ==
    /\ route = "editing"
    /\ staged' = Drop(staged, staged[k].id)
    /\ UNCHANGED <<entries, rows, route, doc, form, saves, change, used>>

Called(call, line, row) ==
    change' = [pc |-> "called", call |-> call, doc |-> doc, line |-> line, row |-> row, ok |-> FALSE]

\* "Save line" while the entry is stored: the line is stored at once, with the entry as its parent.
AddLine(line) ==
    /\ route = "editing" /\ doc # 0 /\ line \notin used /\ change.pc = "none"
    /\ Called("add", line, 0)
    /\ used' = used \cup {line}
    /\ UNCHANGED <<entries, rows, route, doc, staged, form, saves>>

EditLine(r) ==
    /\ route = "editing" /\ doc # 0 /\ change.pc = "none"
    /\ Called("edit", rows[r].line, r)
    /\ UNCHANGED <<entries, rows, route, doc, staged, form, saves, used>>

RemoveLine(r) ==
    /\ route = "editing" /\ change.pc = "none"
    /\ Called("remove", rows[r].line, r)
    /\ UNCHANGED <<entries, rows, route, doc, staged, form, saves, used>>

\* The answer changes the form as it is now, not as it was when the call was made.
EndChange ==
    /\ route = "editing" /\ change.pc = "answered"
    /\ change' = NoChange
    /\ form' = IF ~change.ok THEN form
               ELSE IF change.call = "remove" THEN [there |-> TRUE, lines |-> form.lines \ {change.row}]
               ELSE [there |-> TRUE, lines |-> form.lines \cup {change.row}]
    /\ UNCHANGED <<entries, rows, route, doc, staged, saves, used>>

-----------------------------------------------------------------------------
(* Save. *)

Saving == \E i \in DOMAIN saves : saves[i].pc # "over"

\* A click takes the form, the staged lines and the document as they are.
ClickSave ==
    /\ route = "editing" /\ Len(saves) < MaxSaves
    /\ Overlap \/ ~Saving
    /\ saves' = Append(saves, [pc |-> "called", call |-> IF doc = 0 THEN "create" ELSE "update",
                               doc |-> doc, form |-> form, left |-> staged,
                               all |-> {staged[k].line : k \in DOMAIN staged}, ok |-> FALSE, new |-> 0])
    /\ UNCHANGED <<entries, rows, route, doc, staged, form, change, used>>

\* Mutant of Rest: the lines after the first are given up.
RestNone(left) == <<>>

Rest(left) == Tail(left)

\* Mutant of ParentAfter: the entry is remembered when nothing is left to store.
ParentAtEnd(i, entry) == IF saves[i].call = "create" /\ saves[i].left = <<>> THEN entry ELSE doc

\* saved_parent_id: from then on, Save updates the entry.
ParentAfter(i, entry) == IF saves[i].call = "create" THEN entry ELSE doc

\* What is left is stored one line after the other; with the last one the editor is left.
Continued(i, entry, left) ==
    /\ saves' = [saves EXCEPT ![i].pc = IF left = <<>> THEN "over" ELSE "called",
                              ![i].call = "line", ![i].doc = entry, ![i].left = left]
    /\ route' = IF left = <<>> THEN "saved" ELSE route

EntrySaved(i) ==
    /\ route = "editing" /\ saves[i].pc = "answered" /\ saves[i].ok /\ saves[i].call # "line"
    /\ LET entry == IF saves[i].call = "create" THEN saves[i].new ELSE saves[i].doc IN
       /\ Continued(i, entry, saves[i].left)
       /\ doc' = ParentAfter(i, entry)
    /\ UNCHANGED <<entries, rows, staged, form, change, used>>

\* The line is no longer staged, and it is in the form.
LineSaved(i) ==
    /\ route = "editing" /\ saves[i].pc = "answered" /\ saves[i].ok /\ saves[i].call = "line"
    /\ Continued(i, saves[i].doc, Rest(saves[i].left))
    /\ staged' = Drop(staged, Head(saves[i].left).id)
    /\ form' = [there |-> TRUE, lines |-> form.lines \cup {saves[i].new}]
    /\ UNCHANGED <<entries, rows, doc, change, used>>

SaveFailed(i) ==
    /\ route = "editing" /\ saves[i].pc = "answered" /\ ~saves[i].ok
    /\ saves' = [saves EXCEPT ![i].pc = "over"]
    /\ UNCHANGED <<entries, rows, route, doc, staged, form, change, used>>

Next ==
    \/ Open \/ Leave \/ ClickSave \/ ServeChange \/ EndChange
    \/ \E l \in Lines : Stage(l) \/ AddLine(l)
    \/ \E k \in DOMAIN staged : Unstage(k)
    \/ \E r \in form.lines : EditLine(r) \/ RemoveLine(r)
    \/ \E i \in DOMAIN saves : ServeSave(i) \/ EntrySaved(i) \/ LineSaved(i) \/ SaveFailed(i)

Spec == Init /\ [][Next]_vars

-----------------------------------------------------------------------------
(* Properties. *)

\* Every variable keeps its type, and a stored line is of an entry that is stored or of none.
TypeOK ==
    /\ entries \in Nat /\ rows \in Seq(Row)
    /\ route \in {"loading", "editing", "left", "saved"}
    /\ doc \in 0 .. entries /\ staged \in Seq(Pending) /\ form \in Field
    /\ saves \in Seq(Save) /\ change \in Change /\ used \subseteq Lines
    /\ \A r \in DOMAIN rows : rows[r].entry <= entries

\* A save that failed halfway and is pressed again stores no second entry, and no line twice.
StoredOnce ==
    /\ entries <= 1
    /\ \A a, b \in DOMAIN rows : rows[a].line = rows[b].line /\ rows[a].line # "former" => a = b

\* When the editor says Saved and closes, every line that was staged at the click is stored, and
\* each of the lines that were staged or in the form belongs to the entry, unless it was removed.
SavedMeansStored ==
    [][\A i \in DOMAIN saves : route # "saved" /\ route' = "saved" /\ saves[i].pc = "answered" =>
          LET s == saves[i]
              entry == IF s.call = "create" THEN s.new ELSE s.doc
          IN /\ \A l \in s.all : \E r \in DOMAIN rows : rows[r].line = l
             /\ \A r \in DOMAIN rows :
                   rows[r].live /\ (rows[r].line \in s.all \/ r \in s.form.lines) =>
                      rows[r].entry = entry]_vars
=============================================================================
