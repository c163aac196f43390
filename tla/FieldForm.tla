----------------------------- MODULE FieldForm -----------------------------
(***************************************************************************)
(* The form of one field in the Content-Type Builder                       *)
(* (app/src/screens/content_type_builder.rs, FieldConfigModal): it opens   *)
(* with the settings of the field, the user changes some, and Finish       *)
(* writes the attribute.  A setting a field does not have is "none".       *)
(***************************************************************************)
EXTENDS Naturals, Sequences, FiniteSets

CONSTANTS
    MaxTouches, \* bound: changes between opening a form and leaving it
    Imported \* whether a field may have settings that this form never gives one

VARIABLES
    attr, \* the attribute, as the content type has it
    open, \* the form, or Closed
    touched \* history: the settings changed since the form was opened

vars == <<attr, open, touched>>

\* Of the constants.
FormAssumption == MaxTouches \in Nat /\ Imported \in BOOLEAN

Flag == {"none", "true", "false"}
Families == {"number", "text", "media", "relation", "component", "zone"}
Types == [number |-> {"integer", "decimal"}, text |-> {"string"}, media |-> {"media"},
          relation |-> {"relation"}, component |-> {"component"}, zone |-> {"dynamiczone"}]

\* Of the number formats two stand for all, and of the date formats none: they go the same way.

\* Conditions, by the text of their value and whether the value is a string.  The form makes
\* typed values of texts that look like a truth value or a number.
Typed == {"true", "5"}
Conditions == [field : {"g"}, operator : {"is", "isNot"}, value : {"true", "draft"}, asString : BOOLEAN]
Expressions == {"g", "g +"}
ColumnsOf(e) == IF e = "g" THEN {"g"} ELSE {}

Settings == {"type", "required", "unique", "private", "default", "visibleWhen", "computed", "expression",
             "stored", "dependencies", "multiple", "allowed", "relation", "target", "repeatable", "components"}

\* A new attribute of a type (Attribute::new).
New(t) == [type |-> t, required |-> FALSE, unique |-> FALSE, private |-> FALSE, default |-> "none",
           visibleWhen |-> {}, computed |-> FALSE, expression |-> "none", stored |-> "none", dependencies |-> {},
           multiple |-> "none", allowed |-> <<>>, relation |-> "none", target |-> "none",
           repeatable |-> "none", components |-> {}]

\* What a form of the family leaves in an attribute.
Complete(family, a) ==
    CASE family = "media" -> [a EXCEPT !.multiple = "true", !.allowed = <<"videos">>]
      [] family = "relation" -> [a EXCEPT !.relation = "manyToOne", !.target = "u"]
      [] family = "component" -> [a EXCEPT !.repeatable = "true", !.target = "c"]
      [] family = "zone" -> [a EXCEPT !.components = {"c"}]
      [] OTHER -> a

Conditional == [field |-> "g", operator |-> "isNot", value |-> "draft", asString |-> TRUE]
Computed(a) == [a EXCEPT !.computed = TRUE, !.expression = "g", !.stored = "false", !.dependencies = {"g"}]
OddMedia == [New("media") EXCEPT !.allowed = <<"images", "videos">>, !.multiple = "true"]

Fields ==
    (UNION {LET plain == {Complete(f, New(t)) : t \in Types[f]}
            IN  plain \cup {[a EXCEPT !.required = TRUE, !.private = TRUE, !.visibleWhen = {Conditional}] : a \in plain}
                      \cup {[a EXCEPT !.unique = TRUE, !.default = "d"] : a \in plain} : f \in Families})
    \cup {Computed(New(t)) : t \in Types["number"] \cup Types["text"]}
    \cup (IF Imported THEN {OddMedia} ELSE {})

Family(a) == CHOOSE f \in Families : a.type \in Types[f]

Closed == [closed |-> TRUE]

Init == attr \in Fields /\ open = Closed /\ touched = {}

\* Each signal of the form begins with the setting, or with what stands for one that is missing.
\* Of the media types a field allows, the form has room for the first.
Open ==
    /\ open = Closed
    /\ open' = [closed |-> FALSE,
                type |-> attr.type, required |-> attr.required, unique |-> attr.unique, private |-> attr.private,
                condition |-> attr.visibleWhen # {},
                given |-> IF attr.visibleWhen = {} THEN [field |-> "", operator |-> "is", value |-> ""]
                          ELSE LET c == CHOOSE c \in attr.visibleWhen : TRUE
                               IN  [field |-> c.field, operator |-> c.operator, value |-> c.value],
                computed |-> attr.computed, expression |-> IF attr.expression = "none" THEN "" ELSE attr.expression,
                stored |-> attr.stored # "false",
                multiple |-> attr.multiple = "true", allowed |-> IF attr.allowed = <<>> THEN "images" ELSE attr.allowed[1],
                relation |-> IF attr.relation = "none" THEN "oneToOne" ELSE attr.relation,
                target |-> IF attr.target = "none" THEN "" ELSE attr.target,
                repeatable |-> attr.repeatable = "true", components |-> attr.components]
    /\ UNCHANGED <<attr, touched>>

-----------------------------------------------------------------------------
(* The inputs of the form, those that the family and the other settings    *)
(* show.                                                                   *)

SupportsComputed == Family(attr) \in {"number", "text"}
IsComputed == open.computed /\ SupportsComputed

Touch(setting, form) ==
    /\ Cardinality(touched \cup {setting}) <= MaxTouches
    /\ form # open
    /\ open' = form
    /\ touched' = touched \cup {setting}
    /\ UNCHANGED attr

TouchCommon ==
    /\ ~open.closed
    /\ \/ \E b \in BOOLEAN : Touch("private", [open EXCEPT !.private = b])
       \/ \E b \in BOOLEAN : ~IsComputed /\ Touch("required", [open EXCEPT !.required = b])
       \/ \E b \in BOOLEAN : ~IsComputed /\ Touch("unique", [open EXCEPT !.unique = b])

\* Condition: switched on or off, and while it is on, its parts.
TouchCondition ==
    /\ ~open.closed
    /\ \/ \E b \in BOOLEAN : Touch("visibleWhen", [open EXCEPT !.condition = b])
       \/ /\ open.condition
          /\ \E f \in {"", "g"}, o \in {"is", "isNot"}, v \in {"draft", "true"} :
                 Touch("visibleWhen", [open EXCEPT !.given = [field |-> f, operator |-> o, value |-> v]])

TouchComputed ==
    /\ ~open.closed /\ SupportsComputed
    /\ \/ \E b \in BOOLEAN : Touch("computed", [open EXCEPT !.computed = b])
       \/ \E e \in Expressions : IsComputed /\ Touch("expression", [open EXCEPT !.expression = e])
       \/ \E b \in BOOLEAN : IsComputed /\ Touch("stored", [open EXCEPT !.stored = b])

TouchFamily ==
    /\ ~open.closed
    /\ \/ \E t \in Types["number"] : Family(attr) = "number" /\ Touch("type", [open EXCEPT !.type = t])
       \/ \E b \in BOOLEAN : Family(attr) = "media" /\ Touch("multiple", [open EXCEPT !.multiple = b])
       \/ \E m \in {"images", "videos"} : Family(attr) = "media" /\ Touch("allowed", [open EXCEPT !.allowed = m])
       \/ \E r \in {"oneToOne", "manyToMany"} : Family(attr) = "relation" /\ Touch("relation", [open EXCEPT !.relation = r])
       \/ \E u \in {"", "v"} : Family(attr) \in {"relation", "component"} /\ Touch("target", [open EXCEPT !.target = u])
       \/ \E b \in BOOLEAN : Family(attr) = "component" /\ Touch("repeatable", [open EXCEPT !.repeatable = b])
       \/ \E c \in {"c", "d"} : Family(attr) = "zone" /\ Touch("components", [open EXCEPT !.components = @ \cup {c}])

-----------------------------------------------------------------------------
(* Finish. *)

Flagged(b) == IF b THEN "true" ELSE "false"
Optional(s) == IF s = "" THEN "none" ELSE s

\* The settings of the family; the others stay.
WithFamily(a) ==
    CASE Family(attr) = "media" -> [a EXCEPT !.multiple = Flagged(open.multiple), !.allowed = <<open.allowed>>]
      [] Family(attr) = "relation" -> [a EXCEPT !.relation = open.relation, !.target = Optional(open.target)]
      [] Family(attr) = "component" -> [a EXCEPT !.target = Optional(open.target), !.repeatable = Flagged(open.repeatable)]
      [] Family(attr) = "zone" -> [a EXCEPT !.components = open.components]
      [] OTHER -> a

\* A mutant: the operator is left at its first choice.
WithConditionIs(a) ==
    IF open.condition /\ open.given.field # ""
    THEN [a EXCEPT !.visibleWhen = {[field |-> open.given.field, operator |-> "is",
                                     value |-> open.given.value, asString |-> open.given.value \notin Typed]}]
    ELSE a

\* A condition is written when it is on and has a field; nothing takes one away.
WithCondition(a) ==
    IF open.condition /\ open.given.field # ""
    THEN [a EXCEPT !.visibleWhen = {[field |-> open.given.field, operator |-> open.given.operator,
                                     value |-> open.given.value, asString |-> open.given.value \notin Typed]}]
    ELSE a

\* A computed field is not required, not unique, and has no default; any other has nothing of one.
WithComputed(a) ==
    IF IsComputed
    THEN [a EXCEPT !.computed = TRUE, !.expression = open.expression, !.stored = Flagged(open.stored),
                   !.dependencies = ColumnsOf(open.expression), !.required = FALSE, !.unique = FALSE, !.default = "none"]
    ELSE [a EXCEPT !.computed = FALSE, !.expression = "none", !.stored = "none", !.dependencies = {}]

Finished ==
    WithComputed(WithCondition(WithFamily(
        [attr EXCEPT !.type = open.type, !.required = open.required, !.unique = open.unique, !.private = open.private])))

Finish ==
    /\ ~open.closed
    /\ attr' = Finished
    /\ open' = Closed /\ touched' = {}

\* Cancel, and the background of the form.
Cancel ==
    /\ ~open.closed
    /\ open' = Closed /\ touched' = {}
    /\ UNCHANGED attr

Next == Open \/ TouchCommon \/ TouchCondition \/ TouchComputed \/ TouchFamily \/ Finish \/ Cancel

-----------------------------------------------------------------------------

\* Settings that follow from others: being computed decides these.
FollowingFrom(S) ==
    S \cup (IF "computed" \in S THEN {"required", "unique", "default", "expression", "stored", "dependencies"} ELSE {})
      \cup (IF "expression" \in S THEN {"dependencies"} ELSE {})

\* Finish changes no setting that the user did not change: an attribute goes through the form and
\* comes out the same.  Not one with several allowed media types, which this form cannot make.
UntouchedKept ==
    [][attr' # attr => \A s \in Settings \ FollowingFrom(touched) : attr'[s] = attr[s]]_vars
=============================================================================
