------------------------------ MODULE Transfer ------------------------------
(***************************************************************************)
(* What becomes of entries that are exported and imported again, from the  *)
(* ticks of the export screen (app/src/screens/import_export.rs) through   *)
(* exporter.rs, parser.rs, analyzer.rs, mapper.rs and transformer.rs to    *)
(* the records that the importer writes (services/src/import_export).      *)
(* Texts are sequences of the few characters that CSV tells apart; JSON    *)
(* and YAML are external, and keep values as they are.                     *)
(***************************************************************************)
EXTENDS Integers, Sequences, SequencesExt, FiniteSets, FiniteSetsExt

CONSTANTS
    Attributes, \* the names that attributes may have
    Texts, \* the texts that are stored
    MaxAttributes, MaxEntries \* bounds

VARIABLES
    attributes, \* of the content type, in order
    kinds, \* of each: "text", "required" (a text that must be there) or "number"
    stored, \* its entries
    ticked, \* the list of fields of the export screen: all, when it is empty
    phase, \* "choosing", "exported", "analyzed", "mapped", "imported"
    file, \* [format, several, text, datasets]
    mapping, \* sequence of [from, to, transform]
    back \* what becomes of each record: what is written, or that it is refused

vars == <<attributes, kinds, stored, ticked, phase, file, mapping, back>>

Null == <<"null">>
Number == <<"#1">>
Values == Texts \cup {Null, Number}

\* Of the constants.
TransferAssumption ==
    /\ \A t \in Texts : Range(t) \subseteq {"a", ",", "\"", "\n", "\r", " "}
    /\ MaxAttributes \in Nat /\ MaxEntries \in Nat

-----------------------------------------------------------------------------
(* The export. *)

System == <<"id", "documentId", "locale", "publicationState", "createdAt", "updatedAt", "publishedAt",
            "createdBy", "updatedBy", "syncVersion", "originNodeId", "deletedAt">>
Kept == {"documentId", "id", "locale", "publicationState", "createdAt", "updatedAt"}

\* The keys of an exported record, in order: the ticked attributes, and some columns of the system.
Keys ==
    IF ticked = <<>> THEN System \o attributes
    ELSE SelectSeq(System \o attributes, LAMBDA k : k \in Kept \cup Range(ticked))

Row(keys, e) == [k \in Range(keys) |-> IF k \in Range(attributes) THEN e[k] ELSE Number]

Concat(parts) ==
    LET upto[i \in 0..Len(parts)] == IF i = 0 THEN <<>> ELSE upto[i - 1] \o parts[i] IN upto[Len(parts)]

\* to_string: of the values that are not texts.
AsText(v) == CASE v = Null -> <<>> [] v = Number -> <<"1">> [] OTHER -> v

Doubled(t) == Concat([i \in 1..Len(t) |-> IF t[i] = "\"" THEN <<"\"", "\"">> ELSE <<t[i]>>])

\* A mutant: quotes that stay single.
Cell_textSingle(v) ==
    LET s == AsText(v) IN IF Range(s) \cap {",", "\n", "\""} = {} THEN s ELSE <<"\"">> \o s \o <<"\"">>

Cell_text(v) ==
    LET s == AsText(v) IN IF Range(s) \cap {",", "\n", "\""} = {} THEN s ELSE <<"\"">> \o Doubled(s) \o <<"\"">>

Joined(cells) == Concat([i \in 1..Len(cells) |-> (IF i = 1 THEN <<>> ELSE <<",">>) \o cells[i]]) \o <<"\n">>

\* The rows of the first content type, whatever else was selected.
Serialize_csv(keys, rows) ==
    Joined([i \in 1..Len(keys) |-> <<keys[i]>>])
        \o Concat([r \in 1..Len(rows) |-> Joined([i \in 1..Len(keys) |-> Cell_text(rows[r][keys[i]])])])

Dataset(keys, records) == [keys |-> keys, records |-> records]

\* Several content types make one document, which is one record to an import.
Portable ==
    LET keys == <<"format", "version", "generated_at", "content_types">>
    IN  Dataset(keys, <<[k \in Range(keys) |-> Number]>>)

-----------------------------------------------------------------------------
(* The import: parsing. *)

Blank == {" ", "\n", "\r"}
Trimmed(t) ==
    LET solid == {i \in 1..Len(t) : t[i] \notin Blank}
    IN  IF solid = {} THEN <<>> ELSE SubSeq(t, Min(solid), Max(solid))

\* The reader of the csv crate, a character at a time: a return or a line feed ends a row, and rows
\* of nothing are none.
Reading == [rows |-> <<>>, row |-> <<>>, cell |-> <<>>, mode |-> "start"]
EndCell(a) == [a EXCEPT !.row = Append(@, Trimmed(a.cell)), !.cell = <<>>, !.mode = "start"]
EndRow(a) ==
    IF a.mode = "start" /\ a.row = <<>> THEN a
    ELSE [EndCell(a) EXCEPT !.rows = Append(@, EndCell(a).row), !.row = <<>>]
Take(a, c, mode) == [a EXCEPT !.cell = Append(@, c), !.mode = mode]
Read(a, c) ==
    CASE a.mode = "quoted" -> IF c = "\"" THEN [a EXCEPT !.mode = "closing"] ELSE Take(a, c, "quoted")
      [] a.mode = "closing" /\ c = "\"" -> Take(a, c, "quoted")
      [] a.mode = "start" /\ c = "\"" -> [a EXCEPT !.mode = "quoted"]
      [] OTHER -> IF c = "," THEN EndCell(a) ELSE IF c \in {"\n", "\r"} THEN EndRow(a) ELSE Take(a, c, "bare")

\* The first row are the headers; a row gives as many of them a value as it has cells.
Parse_csv(text) ==
    LET after[i \in 0..Len(text)] == IF i = 0 THEN Reading ELSE Read(after[i - 1], text[i])
        rows == after[Len(text)].rows
        headers == [i \in 1..Len(rows[1]) |-> rows[1][i][1]]
        record(row) == [k \in {headers[i] : i \in 1..Min({Len(headers), Len(row)})} |->
                            row[CHOOSE i \in 1..Len(row) : headers[i] = k]]
    IN  <<Dataset(headers, [i \in 1..(Len(rows) - 1) |-> record(rows[i + 1])])>>

Parse_content == IF file.format = "csv" THEN Parse_csv(file.text) ELSE file.datasets

-----------------------------------------------------------------------------
(* The import: finding the content type, and an attribute for every field. *)

\* Names of which one contains the other, or which ALIASES makes the same.
Contain == {<<"id", "width">>}
Alias == {<<"title", "name">>}

Score(source, target) ==
    IF source = target THEN 10
    ELSE IF {<<source, target>>, <<target, source>>} \cap Alias # {} THEN 8
    ELSE IF {<<source, target>>, <<target, source>>} \cap Contain # {} THEN 6
    ELSE 0

\* Ten times the confidence that the fields are of the type, as a numerator over Len(keys) * Len(type).
Confidence(keys, type) ==
    LET both == Cardinality(Range(keys) \cap Range(type)) IN 7 * both * Len(type) + 3 * both * Len(keys)

\* At the threshold itself, the rounding of f32 decides.
MayDetect(keys) == Confidence(keys, attributes) >= 4 * Len(keys) * Len(attributes)
MustDetect(keys) == Confidence(keys, attributes) > 4 * Len(keys) * Len(attributes)

\* A field that is taken to no attribute ("") is what the wizard calls ignored.
Map(from, to) == [from |-> from, to |-> to, transform |-> "none"]

\* The first of the attributes that fit best, and that no field before it has taken.
Best_target(source, used) ==
    LET fit == {i \in 1..Len(attributes) : attributes[i] \notin used /\ Score(source, attributes[i]) > 0}
        best == {i \in fit : \A j \in fit : Score(source, attributes[j]) <= Score(source, attributes[i])}
    IN  IF fit = {} THEN "" ELSE attributes[Min(best)]

\* Whether it is trusted or wants attention, the importer takes it.
Build_mappings(keys) ==
    LET rows[i \in 0..Len(keys)] ==
            IF i = 0 THEN <<>>
            ELSE LET before == rows[i - 1]
                 IN  Append(before, Map(keys[i], Best_target(keys[i], {r.to : r \in Range(before)})))
    IN  rows[Len(keys)]

\* When a user picks the content type: attributes by their own name only.
Mapping_for_source(keys) ==
    [i \in 1..Len(keys) |-> Map(keys[i], IF keys[i] \in Range(attributes) THEN keys[i] ELSE "")]

WithTransform(rows, t) == [i \in 1..Len(rows) |-> [rows[i] EXCEPT !.transform = t]]

Apply_transform(t, v) == IF t = "emptyToNull" /\ v # Null /\ Trimmed(v) = <<>> THEN Null ELSE v

\* Later rows of the mapping overwrite earlier ones.
Build_target_record(record) ==
    LET into(a) == {i \in 1..Len(mapping) : mapping[i].to = a}
        from(a) == mapping[Max(into(a))]
    IN  [a \in {b \in Range(attributes) : into(b) # {}} |->
            Apply_transform(from(a).transform, IF from(a).from \in DOMAIN record THEN record[from(a).from] ELSE Null)]

\* A text of blanks is not there for an attribute that is required; a number may come as a text.
Valid(kind, v) ==
    CASE kind = "text" -> v # Number
      [] kind = "required" -> v # Number /\ v # Null /\ Trimmed(v) # <<>>
      [] kind = "number" -> v \in {Number, Null} \/ Trimmed(v) = AsText(Number)

Refused == [refused |-> TRUE]

\* validate_record: every attribute, with what the record has for it.
Written(target) ==
    IF \A a \in Range(attributes) : Valid(kinds[a], IF a \in DOMAIN target THEN target[a] ELSE Null)
    THEN target ELSE Refused

-----------------------------------------------------------------------------

Orders == {s \in SeqOf(Attributes, MaxAttributes) : s # <<>> /\ IsInjective(s)}

Init ==
    /\ attributes \in Orders
    /\ kinds \in [Range(attributes) -> {"text", "required", "number"}]
    /\ \E n \in 1..MaxEntries :
           /\ n = 1 \/ Len(attributes) = 1
           /\ stored \in [1..n -> [Range(attributes) -> Values]]
    /\ \A i \in DOMAIN stored : \A a \in Range(attributes) :
           Valid(kinds[a], stored[i][a]) /\ (kinds[a] = "number" => stored[i][a] \in {Number, Null})
    /\ ticked = <<>> /\ phase = "choosing"
    /\ file = [format |-> "none"] /\ mapping = <<>> /\ back = <<>>

\* A box is clicked: unticking the first of all leaves the others, unticking the last leaves all.
Tick(a) ==
    /\ phase = "choosing"
    /\ ticked' = IF ticked = <<>> THEN SelectSeq(attributes, LAMBDA b : b # a)
                 ELSE IF a \in Range(ticked) THEN SelectSeq(ticked, LAMBDA b : b # a)
                 ELSE Append(ticked, a)
    /\ UNCHANGED <<attributes, kinds, stored, phase, file, mapping, back>>

\* YAML is exported as JSON is.
Export(format, several) ==
    /\ phase = "choosing"
    /\ LET keys == Keys
           rows == [i \in 1..Len(stored) |-> Row(keys, stored[i])]
           dataset == IF several THEN Portable ELSE Dataset(keys, rows)
       IN  file' = IF format = "csv" THEN [format |-> format, several |-> several, text |-> Serialize_csv(keys, rows)]
                   ELSE [format |-> format, several |-> several, datasets |-> <<dataset>>]
    /\ phase' = "exported"
    /\ UNCHANGED <<attributes, kinds, stored, ticked, mapping, back>>

\* The wizard was opened for the content type, or the type is detected, or neither.
Analyze(preferred) ==
    /\ phase = "exported"
    /\ LET keys == Parse_content[1].keys
       IN  \/ /\ preferred \/ MayDetect(keys)
              /\ mapping' = Build_mappings(keys)
           \/ /\ ~preferred /\ ~MustDetect(keys)
              /\ mapping' = <<>>
    /\ phase' = "analyzed"
    /\ UNCHANGED <<attributes, kinds, stored, ticked, file, back>>

\* A user picks the content type, or leaves the one that was found, and has nothing done to the
\* values, or "Empty → null".
Pick(transform) ==
    /\ phase = "analyzed"
    /\ \/ mapping' = WithTransform(Mapping_for_source(Parse_content[1].keys), transform)
       \/ mapping # <<>> /\ mapping' = WithTransform(mapping, transform)
    /\ phase' = "mapped"
    /\ UNCHANGED <<attributes, kinds, stored, ticked, file, back>>

Import ==
    /\ phase = "mapped"
    /\ LET records == Parse_content[1].records
       IN  back' = [i \in 1..Len(records) |-> Written(Build_target_record(records[i]))]
    /\ phase' = "imported"
    /\ UNCHANGED <<attributes, kinds, stored, ticked, file, mapping>>

Next ==
    \/ \E a \in Range(attributes) : Tick(a)
    \/ \E f \in {"csv", "json"}, several \in BOOLEAN : Export(f, several)
    \/ \E p \in BOOLEAN : Analyze(p)
    \/ \E t \in {"none", "emptyToNull"} : Pick(t)
    \/ Import

-----------------------------------------------------------------------------

InFile == file.format = "csv" \/ ~file.several

\* A return in a text that nothing else puts into quotes ends the row when it is read.
Returns == \E i \in 1..Len(stored) : \E a \in Range(Keys) \cap Range(attributes) :
    LET t == stored[i][a] IN "\r" \in Range(t) /\ Range(t) \cap {",", "\n", "\""} = {}

\* The fields that may be taken for the attribute, before the field of its name.
Rivals(a) == {k \in Range(Keys) \ {a} : Score(k, a) > 0}

Picked == mapping = WithTransform(Mapping_for_source(Keys), mapping[1].transform)

\* What comes back of a value: CSV has texts only, without blanks at their ends.
Expected(v) ==
    Apply_transform(mapping[1].transform, IF file.format = "csv" THEN Trimmed(AsText(v)) ELSE v)

\* The file has all that the import requires, and nothing for another attribute: CSV has an empty text
\* where there is no number, and a number may be suggested for a text.
Sufficient(i) ==
    /\ \A a \in Range(attributes) :
           /\ Rivals(a) = {} \/ Picked
           /\ kinds[a] = "required" => a \in Range(Keys)
    /\ \A a \in Range(Keys) \cap Range(attributes) :
           file.format = "csv" /\ kinds[a] = "number" /\ stored[i][a] = Null =>
               mapping[1].transform = "emptyToNull"

\* Each entry that is exported and imported again is written, if the file has what the import requires
\* of it; and what is written has, in its place, the value of every attribute that was ticked,
\* "lossless" as exporter.rs says, but for blanks, numbers and nothing in CSV (Expected) and for these:
\* several content types in JSON or YAML; a lone return in CSV; and a mapping that is suggested when
\* one field resembles the attribute of another.
RoundTrips ==
    phase = "imported" /\ InFile /\ ~(file.format = "csv" /\ Returns) =>
        /\ Len(back) = Len(stored)
        /\ \A i \in 1..Len(stored) :
               /\ Sufficient(i) => back[i] # Refused
               /\ back[i] # Refused => \A a \in Range(Keys) \cap Range(attributes) :
                      Rivals(a) = {} \/ Picked =>
                          a \in DOMAIN back[i] /\ back[i][a] = Expected(stored[i][a])
=============================================================================
