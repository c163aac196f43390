------------------------------ MODULE MCScreens ------------------------------
(***************************************************************************)
(* For TLC, the screens of the application, and what the server computes   *)
(* from the text or the value that a user enters: formulas, computed       *)
(* fields, queries, payloads, templates.  A user is at one of them, and    *)
(* the others are as they begin.                                           *)
(***************************************************************************)
EXTENDS AppScreens, TLC

CONSTANTS
    u1, u2,
    MaxFormula, FieldNames, MaxReads, MaxPairs, MaxRows, Width, Wide, MaxTemplate

VARIABLES
    formula,
    fields, phase, degree, queue, removed,
    pairs, root,
    attr, stored, given,
    template

\* The copy of u1 is u2.
FewUids == {u1, u2}
CopyUid(u) == u2

\* A file of two datasets, another of that name with one of them, and that file with a second one.
File(name, text) == [name |-> name, text |-> text]
FewSelections == {<<File("f", "two")>>, <<File("f", "one")>>, <<File("f", "two"), File("g", "one")>>}
DatasetsIn(text) == IF text = "two" THEN <<"x", "y">> ELSE <<"x">>

FormulaTokens == {"a", "1", "-", "*", "=", "(", ")", ",", ".", "COUNT", "@"}
FormulaBeginnings == {<<>>, <<"COUNT", "(">>}

\* Keys with a field, an operator, a list, a group, a group of a field, and what is none of these.
FewPaths == {
    <<"title">>, <<"title", "$ne">>, <<"title", "$in", "1">>, <<"title", "$null">>,
    <<"kind", "$contains">>, <<"title", "$between">>, <<"$and", "0", "title", "$lt">>,
    <<"$or", "0", "title", "$in">>, <<"$or", "1", "kind">>, <<"$not", "title", "$notIn">>,
    <<"$not", "$or", "0", "kind", "$gte">>, <<"nokind">>}

TemplateTokens == {"{{", "}}", " ", "1", "-", "==", "$json", ".", "b", "(", ")"}
TemplateBeginnings ==
    {<<"x", "{{">>, <<"{{", "$json">>, <<"{{", "1", "}}">>, <<"{{", "1", "-">>, <<"{{", "!", "null">>}

Formula == INSTANCE Formulas WITH
    text <- formula, Tokens <- FormulaTokens, MaxTokens <- MaxFormula, Beginnings <- FormulaBeginnings
Computed == INSTANCE ComputedFields WITH pc <- phase, Names <- FieldNames
Query == INSTANCE Queries WITH Paths <- FewPaths, Values <- {"a", "b", "a,b"}
Payload == INSTANCE Payloads
Template == INSTANCE Templates WITH
    text <- template, Tokens <- TemplateTokens, MaxTokens <- MaxTemplate, Beginnings <- TemplateBeginnings

ASSUME InputsAssumption ==
    /\ Formula!FormulasAssumption /\ Computed!FieldsAssumption /\ Query!QueriesAssumption
    /\ Payload!PayloadsAssumption /\ Template!TemplatesAssumption

computed == <<fields, phase, degree, queue, removed>>
query == <<pairs, root>>
payload == <<attr, stored, given>>
inputs == <<formula, computed, query, payload, template>>
vars == <<at, screens, inputs>>

Init ==
    /\ at \in {"entry", "types", "field", "list", "formula", "computed", "query", "payload", "template", "wizard", "session", "flow"}
    /\ ScreensInit
    /\ at = "formula" \/ formula = <<>>
    /\ at = "payload" \/ attr = CHOOSE a \in Payload!Attributes : ~a.required /\ ~a.notNull
    /\ at = "template" \/ template = <<"x", "{{">>
    /\ Formula!Init /\ Computed!Init /\ Query!Init /\ Payload!Init /\ Template!Init

Next ==
    \/ ScreensNext /\ UNCHANGED inputs
    \/ at = "formula" /\ Formula!Next /\ UNCHANGED <<at, screens, computed, query, payload, template>>
    \/ at = "computed" /\ Computed!Next /\ UNCHANGED <<at, screens, formula, query, payload, template>>
    \/ at = "query" /\ Query!Next /\ UNCHANGED <<at, screens, formula, computed, payload, template>>
    \/ at = "payload" /\ Payload!Next /\ UNCHANGED <<at, screens, formula, computed, query, template>>
    \/ at = "template" /\ Template!Next /\ UNCHANGED <<at, screens, formula, computed, query, payload>>

Spec == Init /\ [][Next]_vars

NamesAlike == Permutations(Names)

-----------------------------------------------------------------------------
(* What is checked, besides what AppScreens says of the screens. *)

\* A formula that is accepted is grouped as the rules of precedence say (core-schema/expression.rs);
\* computed fields that wait for each other in a circle are refused, others not (validation.rs); and what
\* the database generates, it generates from columns that have values of their own (ddl.rs).
FormulasCompute ==
    /\ at = "formula" => Formula!GroupsAsGrammar
    /\ Computed!CyclesFound
    /\ Computed!GeneratedFromStored

\* A filter holds of the entries that its query string describes, the pages of a list show each of them
\* once (query.rs, dml.rs), and saving what was read changes nothing (value.rs).
StoreAnswers ==
    /\ at = "query" => Query!FiltersMean /\ Query!PagesTile
    /\ Payload!ReadBackStable

\* An expression in a template has the value that the rules of precedence give it; a template that is one
\* block is its value, and any other is its text with each block replaced (workflow/expression.rs).
TemplatesRender == at = "template" => Template!ValueAsGrammar /\ Template!Interpolates
=============================================================================
