---------------------------- MODULE ImportWizard ----------------------------
(***************************************************************************)
(* The import wizard (app/src/screens/import_export.rs): files, mapping,   *)
(* results.  Files are read, analysed and imported by calls that end when  *)
(* they end, while its boxes and buttons stay enabled: a Button that is    *)
(* busy only looks so.  A file is analysed into datasets, each of which    *)
(* gets a content type and a mapping; what is sent to be imported is the   *)
(* text of the file, to be parsed again.                                   *)
(***************************************************************************)
EXTENDS Naturals, Sequences, SequencesExt, FiniteSetsExt

CONSTANTS
    Selections, \* what may be selected on the disk: sequences of [name, text]
    DatasetsOf(_), \* the names of the datasets in a text
    ContentTypes,
    MaxActs, \* bound: clicks and choices of the user
    MaxCalls \* bound: calls and reads under way at a time

VARIABLES
    stage, \* step: 1 files, 2 mapping, 3 results
    files, header, \* the files, and csv_delimiter and csv_has_header as one setting
    datasets, \* sequence of [name, dataset, fields]
    targets, mappings, \* for each dataset
    offered, kept, \* the presets that are listed, and those that the server has
    calls, \* what is under way: reads, analyses, imports
    finished, \* whether there is a result to show
    mixed, \* whether files or settings have been changed during an analysis
    acts

vars == <<stage, files, header, datasets, targets, mappings, offered, kept, calls, finished, mixed, acts>>

NoType == "none"

IsSequence(s) == Len(s) \in Nat /\ DOMAIN s = 1..Len(s)

\* Files that are selected together are of one directory, and have different names.
OfOneDirectory(list) ==
    /\ IsSequence(list) /\ \A f \in DOMAIN list : IsSequence(DatasetsOf(list[f].text))
    /\ \A f, g \in DOMAIN list : list[f].name = list[g].name => f = g

\* Of the constants.
WizardAssumption ==
    /\ NoType \notin ContentTypes /\ MaxActs \in Nat /\ MaxCalls \in Nat \ {0}
    /\ \A list \in Selections : OfOneDirectory(list)

\* Where no call is under way.
Idle == [does |-> "nothing"]

Init ==
    /\ stage = 1 /\ files = <<>> /\ header = TRUE
    /\ datasets = <<>> /\ targets = <<>> /\ mappings = <<>>
    /\ offered = {} /\ kept = {}
    /\ calls = [i \in 1..MaxCalls |-> Idle] /\ finished = FALSE /\ mixed = FALSE /\ acts = 0

-----------------------------------------------------------------------------

Act == acts < MaxActs /\ acts' = acts + 1
Call(c) ==
    LET idle == {i \in 1..MaxCalls : calls[i] = Idle}
    IN  idle # {} /\ calls' = [calls EXCEPT ![Min(idle)] = c]
Ended(i) == calls' = [calls EXCEPT ![i] = Idle]
Analyzing == \E i \in 1..MaxCalls : calls[i].does = "analyze"

\* The fields of a dataset depend on the text, and in CSV on the settings; which they are, these tell.
FieldsOf(text, dataset, h) == [text |-> text, dataset |-> dataset, header |-> h]

\* A mapping is of the fields of a dataset, to those of a content type.
Mapping(fields, type) == [fields |-> fields, type |-> type, edited |-> FALSE]
Mapping_for_source(fields, type) == Mapping(fields, type)

(* Files. *)

\* FileInput: the files are read in a task, and together become the files of the wizard.
Choose(selection) ==
    /\ stage = 1 /\ Act
    /\ Call([does |-> "read", files |-> selection])
    /\ UNCHANGED <<stage, files, header, datasets, targets, mappings, offered, kept, finished, mixed>>

ReadEnds(i) ==
    /\ calls[i].does = "read"
    /\ files' = calls[i].files
    /\ mixed' = (mixed \/ Analyzing)
    /\ Ended(i)
    /\ UNCHANGED <<stage, header, datasets, targets, mappings, offered, kept, finished, acts>>

SetCsv ==
    /\ stage = 1 /\ Act
    /\ header' = ~header
    /\ mixed' = (mixed \/ Analyzing)
    /\ UNCHANGED <<stage, files, datasets, targets, mappings, offered, kept, calls, finished>>

Analyze ==
    /\ stage = 1 /\ files # <<>> /\ Act
    /\ Call([does |-> "analyze", files |-> files, header |-> header])
    /\ mixed' = (mixed /\ Analyzing)
    /\ UNCHANGED <<stage, files, header, datasets, targets, mappings, offered, kept, finished>>

\* The datasets of every file: which file it is in, and which of that file it is.
Places(list) == UNION {{f} \X (1..Len(DatasetsOf(list[f].text))) : f \in 1..Len(list)}

Dataset(list, h, place) ==
    LET file == list[place[1]]
        dataset == DatasetsOf(file.text)[place[2]]
    IN  [name |-> file.name, dataset |-> dataset, fields |-> FieldsOf(file.text, dataset, h)]

\* Those in an earlier file, or earlier in the same.
Earlier(list, place) == {p \in Places(list) : p[1] < place[1] \/ (p[1] = place[1] /\ p[2] < place[2])}

\* What the server answers: these datasets, one file after the other.
Analysis(list, h) ==
    [n \in 1..Cardinality(Places(list)) |->
        Dataset(list, h, CHOOSE p \in Places(list) : Cardinality(Earlier(list, p)) = n - 1)]

\* The step is over, and with the input of files the tasks that read them.
EndedWithReads(i) ==
    calls' = [j \in 1..MaxCalls |-> IF j = i \/ calls[j].does = "read" THEN Idle ELSE calls[j]]

\* A mutant: the answer of an analysis leaves the mappings as they are when there are enough of them.
Plan_mappingsKept(list, detected) ==
    [i \in 1..Len(list) |-> IF i <= Len(mappings) THEN mappings[i] ELSE Mapping(list[i].fields, detected[i])]

Plan_mappings(list, detected) == [i \in 1..Len(list) |-> Mapping(list[i].fields, detected[i])]

AnalyzeEnds(i) ==
    /\ calls[i].does = "analyze"
    /\ LET list == Analysis(calls[i].files, calls[i].header)
       IN  \E detected \in [1..Len(list) -> ContentTypes \cup {NoType}] :
               /\ datasets' = list /\ targets' = detected
               /\ mappings' = Plan_mappings(list, detected)
    /\ stage' = 2
    /\ EndedWithReads(i)
    /\ UNCHANGED <<files, header, offered, kept, finished, mixed, acts>>

\* An error is shown, and that is all.
CallFails(i) ==
    /\ calls[i].does \in {"analyze", "import"}
    /\ Ended(i)
    /\ UNCHANGED <<stage, files, header, datasets, targets, mappings, offered, kept, finished, mixed, acts>>

(* Mapping. *)

\* The mapping is made again, from the fields of the dataset.
SetTarget(d, type) ==
    /\ stage = 2 /\ d <= Len(datasets) /\ Act
    /\ targets' = [targets EXCEPT ![d] = type]
    /\ mappings' = [mappings EXCEPT ![d] = Mapping_for_source(datasets[d].fields, type)]
    /\ UNCHANGED <<stage, files, header, datasets, offered, kept, calls, finished, mixed>>

\* A field, or a transform, is selected in one of the rows.
EditRow(d) ==
    /\ stage = 2 /\ d <= Len(datasets) /\ ~mappings[d].edited /\ Act
    /\ mappings' = [mappings EXCEPT ![d].edited = TRUE]
    /\ UNCHANGED <<stage, files, header, datasets, targets, offered, kept, calls, finished, mixed>>

\* upsert_preset keeps one for a name and a content type; one name is modelled.
SavePreset ==
    /\ stage = 2 /\ datasets # <<>> /\ Act
    /\ kept' = {p \in kept : p.target # targets[1]} \cup {[target |-> targets[1], mapping |-> mappings[1]]}
    /\ UNCHANGED <<stage, files, header, datasets, targets, mappings, offered, calls, finished, mixed>>

RefreshPresets ==
    /\ stage = 2 /\ offered # kept
    /\ offered' = kept
    /\ UNCHANGED <<stage, files, header, datasets, targets, mappings, kept, calls, finished, mixed, acts>>

\* The mapping becomes that of the first dataset, whatever its content type is.
UsePreset(p) ==
    /\ stage = 2 /\ datasets # <<>> /\ Act
    /\ mappings' = [mappings EXCEPT ![1] = [p.mapping EXCEPT !.edited = TRUE]]
    /\ UNCHANGED <<stage, files, header, datasets, targets, offered, kept, calls, finished, mixed>>

Back ==
    /\ stage = 2 /\ Act
    /\ stage' = 1
    /\ UNCHANGED <<files, header, datasets, targets, mappings, offered, kept, calls, finished, mixed>>

(* The import. *)

\* The text of a dataset is found by the name of its file.
FileOf(d) == {f \in 1..Len(files) : files[f].name = datasets[d].name}

ToImport == {d \in 1..Len(datasets) : targets[d] # NoType /\ FileOf(d) # {}}

\* The server parses the text again: it takes the dataset of that name, or else the first.
Reparsed(d) ==
    LET text == files[Min(FileOf(d))].text
        names == DatasetsOf(text)
    IN  FieldsOf(text, IF datasets[d].dataset \in Range(names) THEN datasets[d].dataset ELSE names[1], header)

\* Nothing to import is said, and nothing sent.
Import ==
    /\ stage = 2 /\ ToImport # {} /\ Act
    /\ Call([does |-> "import"])
    /\ UNCHANGED <<stage, files, header, datasets, targets, mappings, offered, kept, finished, mixed>>

ImportEnds(i) ==
    /\ calls[i].does = "import"
    /\ stage' = 3 /\ finished' = TRUE
    /\ EndedWithReads(i)
    /\ UNCHANGED <<files, header, datasets, targets, mappings, offered, kept, mixed, acts>>

\* Targets and mappings stay.
NewImport ==
    /\ stage = 3 /\ finished /\ Act
    /\ stage' = 1 /\ finished' = FALSE
    /\ datasets' = <<>> /\ files' = <<>>
    /\ mixed' = (mixed \/ Analyzing)
    /\ UNCHANGED <<header, targets, mappings, offered, kept, calls>>

User ==
    \/ \E s \in Selections : Choose(s)
    \/ SetCsv \/ Analyze \/ Back \/ Import \/ NewImport
    \/ \E d \in 1..Len(datasets) : EditRow(d) \/ \E t \in ContentTypes : SetTarget(d, t)
    \/ SavePreset \/ RefreshPresets
    \/ \E p \in offered : UsePreset(p)

Next ==
    \/ User
    \/ \E i \in 1..MaxCalls : ReadEnds(i) \/ AnalyzeEnds(i) \/ CallFails(i) \/ ImportEnds(i)

-----------------------------------------------------------------------------

\* What would be imported, were it now, is what was analysed: of every dataset with a content type,
\* the fields that the mapping on the screen is of, unless that was made by hand or taken from a
\* preset, or files or settings were changed during an analysis.
ImportedAsAnalyzed ==
    stage = 2 /\ ~mixed =>
        \A d \in 1..Len(datasets) : targets[d] # NoType =>
            /\ d \in ToImport
            /\ Reparsed(d) = datasets[d].fields
            /\ mappings[d].edited \/ mappings[d] = Mapping(datasets[d].fields, targets[d])
=============================================================================
