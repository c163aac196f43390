----------------------------- MODULE AppScreens -----------------------------
(***************************************************************************)
(* The screens of the application (app/src/screens), each with the server  *)
(* behind it.  A user is at one of them, and the others are as they begin. *)
(* Nothing that one of them stores is shown by another.                    *)
(***************************************************************************)
EXTENDS Naturals, Sequences, FiniteSets

CONSTANTS
    Faults,
    Lines, MaxFormer, MaxSaves, Overlap, Lost,
    Uids, Names, CopyOf(_), Others, MaxPages, MaxClicks, MaxEdits, AtOnce,
    MaxTouches, Imported,
    MaxEntries, Sizes, MaxMoves,
    Selections, DatasetsOf(_), ContentTypes, MaxActs, MaxCalls,
    Tabs, Accounts, MaxUses, MaxPending,
    TaskTypes, MaxTasks, MaxSteps, MaxSent

VARIABLES
    at, \* what the user is at
    entries, rows, route, doc, staged, form, saves, change, used,
    registry, onPage, load, working, dirty, applies, pages, clicks, edits, asked, current, during,
    field, open, touched,
    stock, page, size, total, listed, wanted, flight, deleting, ticked, moves, torn, strayed,
    stage, files, header, datasets, targets, mappings, offered, kept, calls, finished, mixed, acts,
    storage, screen, token, bearer, fragment, pending, left, uses,
    saved, opening, copy, unsaved, sent, executing, dropped, confused, steps

Entry == INSTANCE EntryEditor
Types == INSTANCE BuilderScreen
Field == INSTANCE FieldForm WITH attr <- field
List == INSTANCE ListScreen
Wizard == INSTANCE ImportWizard
Signing == INSTANCE Session WITH route <- screen
Flow == INSTANCE WorkflowEditor WITH
    stored <- saved, load <- opening, doc <- copy, dirty <- unsaved, removed <- dropped

ASSUME ScreensAssumption ==
    /\ Entry!EditorAssumption /\ Types!BuilderAssumption /\ Field!FormAssumption /\ List!ListAssumption
    /\ Wizard!WizardAssumption /\ Signing!SessionAssumption /\ Flow!EditorAssumption

entry == <<entries, rows, route, doc, staged, form, saves, change, used>>
types == <<registry, onPage, load, working, dirty, applies, pages, clicks, edits, asked, current, during>>
forms == <<field, open, touched>>
lists == <<stock, page, size, total, listed, wanted, flight, deleting, ticked, moves, torn, strayed>>
wizard == <<stage, files, header, datasets, targets, mappings, offered, kept, calls, finished, mixed, acts>>
session == <<storage, screen, token, bearer, fragment, pending, left, uses>>
flow == <<saved, opening, copy, unsaved, sent, executing, dropped, confused, steps>>
screens == <<entry, types, forms, lists, wizard, session, flow>>

\* A user is at one screen, or at none of these; each begins as it does, and in the same way where the
\* user is not at it.
ScreensInit ==
    /\ at = "entry" \/ entries = 0
    /\ at = "types" \/ (registry = <<>> /\ onPage = "list")
    /\ at = "field" \/ field = CHOOSE f \in Field!Fields : TRUE
    /\ at = "list" \/ (stock = {} /\ size = CHOOSE s \in Sizes : TRUE)
    /\ at = "session" \/ storage = Signing!NoOne
    /\ Entry!Init /\ Types!Init /\ Field!Init /\ List!Init /\ Wizard!Init /\ Signing!Init /\ Flow!Init

ScreensNext ==
    \/ at = "entry" /\ Entry!Next /\ UNCHANGED <<at, types, forms, lists, wizard, session, flow>>
    \/ at = "types" /\ Types!Next /\ UNCHANGED <<at, entry, forms, lists, wizard, session, flow>>
    \/ at = "field" /\ Field!Next /\ UNCHANGED <<at, entry, types, lists, wizard, session, flow>>
    \/ at = "list" /\ List!Next /\ UNCHANGED <<at, entry, types, forms, wizard, session, flow>>
    \/ at = "wizard" /\ Wizard!Next /\ UNCHANGED <<at, entry, types, forms, lists, session, flow>>
    \/ at = "session" /\ Signing!Next /\ UNCHANGED <<at, entry, types, forms, lists, wizard, flow>>
    \/ at = "flow" /\ Flow!Next /\ UNCHANGED <<at, entry, types, forms, lists, wizard, session>>

ScreensSpec == ScreensInit /\ [][ScreensNext]_<<at, screens>>

-----------------------------------------------------------------------------
(* What is checked, stated in the modules of the screens. *)

\* A save that failed halfway and is pressed again stores nothing twice (content_manager.rs).
StoredOnce == Entry!StoredOnce

\* When the editor says Saved, every line is stored and belongs to the entry (content_manager.rs).
SavedMeansStored == Entry!SavedMeansStored

\* An editor of a content type, or of a workflow, with nothing to save shows what is stored; and the tasks
\* of a workflow have different names while none was removed (content_type_builder.rs, workflow_editor.rs).
CleanIsStored ==
    /\ Types!CleanIsStored
    /\ Flow!CleanIsStored
    /\ Flow!NamesApart

\* A content type or a field goes only if its removal was confirmed (content_type_builder.rs).
GoneOnlyIfAsked == Types!GoneOnlyIfAsked

\* A form changes the settings that were changed in it, and no other (content_type_builder.rs).
UntouchedKept == Field!UntouchedKept

\* A list that is at rest does not look empty when there are entries, and is not on a page beyond its
\* last, but for the answers ListScreen names (content_manager.rs).
NeverStranded == List!NeverStranded

\* The wizard has imported what it has had analysed (import_export.rs).
ImportedAsAnalyzed == at = "wizard" => Wizard!ImportedAsAnalyzed

\* A tab that was logged out has no token until someone logs in there again (app.rs).
LoggedOutStaysOut == Signing!LoggedOutStaysOut
=============================================================================
