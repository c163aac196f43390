----------------------------- MODULE Importing -----------------------------
(***************************************************************************)
(* The importer (crates/services/src/import_export/importer.rs) over the   *)
(* store of ContentRelations, where other clients save at the same time.   *)
(*                                                                         *)
(* An import takes the records of a file one by one.  It reads, once and   *)
(* before the first record, which entry has which value of the match field *)
(* (the author's name here).  A record is validated, inserted or updated,  *)
(* and its relations are persisted; unlike a save of the content manager,  *)
(* an import refreshes no computed value.  MaxCalls bounds calls and imports.*)
(*                                                                         *)
(* Parsing, mapping and transforming a source record give the target       *)
(* record, which is where the model starts: the files are its inputs.      *)
(***************************************************************************)
EXTENDS ContentRelations

CONSTANTS
    Files,              \* the files that may be imported: sequences of Record
    Modes               \* "createOnly", "updateOnly", "upsert"

\* valid: does validate_record accept it?  The name is the match field.
Record == [name : Names, valid : BOOLEAN,
           books : BookLists, tags : TagLists]

ASSUME ImportAssumption ==
    /\ Files \subseteq Seq(Record)
    /\ Modes \subseteq {"createOnly", "updateOnly", "upsert"}

VARIABLES
    file,       \* the file each client's import works on
    at,         \* the record it is at
    mode,       \* its mode
    existing,   \* what load_existing found: the author for each name, or none
    report      \* the summary it builds

importVars == <<file, at, mode, existing, report>>
allVars == <<vars, importVars>>

\* errors: the entries of the list of errors.
NoReport == [created |-> 0, updated |-> 0, skipped |-> 0, failed |-> 0, errors |-> 0]

NoneFound == [n \in Names |-> NoAuthor]

ImportInit ==
    /\ Init
    /\ file = [c \in Clients |-> <<>>]
    /\ at = [c \in Clients |-> 1]
    /\ mode = [c \in Clients |-> "createOnly"]
    /\ existing = [c \in Clients |-> NoneFound]
    /\ report = [c \in Clients |-> NoReport]

-----------------------------------------------------------------------------
(* The loop.                                                               *)

Named(n) == {a \in Live(authors) : authors[a].name = n}

\* Mutant of LoadExisting: it reads the first page of entries only.
LoadExistingPage ==
    [n \in Names |-> IF 1 \in Named(n) THEN 1 ELSE NoAuthor]

\* Of several authors with one name, the last one read stays in the map.
LoadExisting ==
    [n \in Names |->
        IF Named(n) = {} THEN NoAuthor
        ELSE CHOOSE a \in Named(n) : \A b \in Named(n) : b <= a]

StartImport(c) ==
    /\ pc[c] = "idle"
    /\ \E f \in Files, m \in Modes :
          /\ file' = [file EXCEPT ![c] = f]
          /\ mode' = [mode EXCEPT ![c] = m]
    /\ at' = [at EXCEPT ![c] = 1]
    /\ existing' = [existing EXCEPT ![c] = LoadExisting]
    /\ report' = [report EXCEPT ![c] = NoReport]
    /\ Begin(c, "record", IdleJob)
    /\ UNCHANGED <<authors, books, links, stale>>

Ended(c) == at[c] > Len(file[c])
Current(c) == file[c][at[c]]

\* The record is done with: count it, and go on.
Tally(c, counts) ==
    /\ report' = [report EXCEPT ![c] = counts]
    /\ at' = [at EXCEPT ![c] = @ + 1]
    /\ Goto(c, "record", IdleJob)
    /\ UNCHANGED <<authors, books, links, calls, file, mode, existing>>

Match(c) == IF mode[c] = "createOnly" THEN NoAuthor ELSE existing[c][Current(c).name]

AtValid(c) == pc[c] = "record" /\ ~Ended(c) /\ Current(c).valid

\* The record is invalid, or the entry it matched is no longer there.
Refuse(c) ==
    /\ pc[c] = "record" /\ ~Ended(c)
    /\ Current(c).valid => Match(c) # NoAuthor /\ Match(c) \notin Live(authors)
    /\ Tally(c, [report[c] EXCEPT !.failed = @ + 1, !.errors = @ + 1])
    /\ UNCHANGED stale

Skip(c) ==
    /\ AtValid(c) /\ mode[c] = "updateOnly" /\ Match(c) = NoAuthor
    /\ Tally(c, [report[c] EXCEPT !.skipped = @ + 1])
    /\ UNCHANGED stale

\* The row is written; its relations follow.
WriteRecord(c, a) ==
    /\ Goto(c, "books", [IdleJob EXCEPT !.id = a, !.books = Current(c).books,
                                        !.tags = Current(c).tags, !.then = "recorded"])
    /\ UNCHANGED <<books, links, stale, calls, importVars>>

Insert(c) ==
    /\ AtValid(c) /\ mode[c] # "updateOnly" /\ Match(c) = NoAuthor
    /\ \E a \in AuthorIds :
          /\ IsNext(authors, a)
          /\ authors' = [authors EXCEPT ![a] = NewAuthor(Current(c).name)]
          /\ WriteRecord(c, a)

Update(c) ==
    /\ AtValid(c) /\ Match(c) \in Live(authors)
    /\ authors' = [authors EXCEPT ![Match(c)].name = Current(c).name]
    /\ WriteRecord(c, Match(c))

\* The relations are in place, and no computed value is refreshed.
Recorded(c) ==
    /\ pc[c] = "recorded"
    /\ Tally(c, IF Match(c) = NoAuthor THEN [report[c] EXCEPT !.created = @ + 1]
                ELSE [report[c] EXCEPT !.updated = @ + 1])
    /\ stale' = TRUE

\* An error of persist_relations leaves dml_insert past the branch that lists
\* it: the record is counted, its row is there, and no error says so.
CountedFailure(r) == [r EXCEPT !.failed = @ + 1]

FailRecord(c) ==
    /\ job[c].then = "recorded" /\ NotFound(c)
    /\ Tally(c, CountedFailure(report[c]))
    /\ stale' = TRUE

EndImport(c) ==
    /\ pc[c] = "record" /\ Ended(c)
    /\ Goto(c, "idle", IdleJob)
    /\ UNCHANGED <<authors, books, links, stale, calls, importVars>>

Import(c) ==
    \/ StartImport(c) \/ Refuse(c) \/ Skip(c) \/ Insert(c) \/ Update(c)
    \/ Recorded(c) \/ FailRecord(c) \/ EndImport(c)

ImportNext == (Next /\ UNCHANGED importVars) \/ \E c \in Clients : Import(c)

ImportSpec == ImportInit /\ [][ImportNext]_allVars

-----------------------------------------------------------------------------
(* Properties.                                                             *)

(* An upsert that runs alone inserts a record only when no live entry has   *)
(* its match value, and else updates one that has: the map read before the  *)
(* first record is as good as the table.  Records of one file that share a  *)
(* value are the exception: each is inserted.                               *)
UpsertFindsExisting ==
    \A c \in Clients :
        AtValid(c) /\ mode[c] = "upsert" /\ alone[c]
        /\ (\A i \in 1..(at[c] - 1) : file[c][i].name # Current(c).name) =>
            IF Named(Current(c).name) = {} THEN Match(c) = NoAuthor
            ELSE Match(c) \in Named(Current(c).name)

(* Every record an import has passed is counted once, under one outcome,    *)
(* and every error in the list is of a record that is counted as failed.    *)
ReportAccounts ==
    \A c \in Clients : LET r == report[c] IN
        /\ r.created + r.updated + r.skipped + r.failed = at[c] - 1
        /\ r.errors <= r.failed

(* The converse, which importer.rs says of itself ("error already recorded  *)
(* in `errors`", "on write failure the error is recorded"), fails: see      *)
(* CountedFailure.                                                          *)
EveryFailureListed == \A c \in Clients : report[c].failed = report[c].errors

(* An import does what its mode says with each record, and counts it.        *)
ImportAsAsked == UpsertFindsExisting /\ ReportAccounts
=============================================================================
