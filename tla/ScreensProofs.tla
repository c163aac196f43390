--------------------------- MODULE ScreensProofs ---------------------------
(***************************************************************************)
(* What holds of the screens of the application, for any number of tabs,   *)
(* entries, pages, files and calls under way.                              *)
(***************************************************************************)
EXTENDS AppScreens, FiniteSetTheorems, SequenceTheorems, NaturalsInduction, TLAPS

-----------------------------------------------------------------------------
(* Orders.                                                               *)

\* Before gives the elements that come before each, in an order of a finite set.
Ordered(S, Before) ==
    /\ IsFiniteSet(S) /\ Before \in [S -> SUBSET S]
    /\ \A d \in S : d \notin Before[d]
    /\ \A d, e \in S : d # e => d \in Before[e] \/ e \in Before[d]
    /\ \A d, e \in S : d \in Before[e] => Before[d] \subseteq Before[e]

\* In an order, a finite set has an element with k others before it, for each k up to its size.
LEMMA ByRank ==
    ASSUME NEW S, NEW Before, Ordered(S, Before), NEW k \in 0 .. Cardinality(S) - 1
    PROVE  \E e \in S : Cardinality(Before[e]) = k
<1> USE DEF Ordered
<1> DEFINE rank == [e \in S |-> Cardinality(Before[e])]
           N == Cardinality(S)
<1>1. N \in Nat
  BY FS_CardinalityType
<1>2. ASSUME NEW e \in S
      PROVE  IsFiniteSet(Before[e]) /\ Cardinality(Before[e]) \in 0 .. N - 1
  <2>1. Before[e] \subseteq S \ {e}
    OBVIOUS
  <2>2. IsFiniteSet(S \ {e}) /\ Cardinality(S \ {e}) = N - 1
    BY FS_RemoveElement
  <2>3. IsFiniteSet(Before[e]) /\ Cardinality(Before[e]) <= N - 1
    BY <2>1, <2>2, FS_Subset
  <2>4. Cardinality(Before[e]) \in Nat
    BY <2>3, FS_CardinalityType
  <2> QED
    BY <1>1, <2>3, <2>4
<1>3. ASSUME NEW d \in S, NEW e \in S, d \in Before[e]
      PROVE  rank[d] < rank[e]
  <2>1. Before[d] \subseteq Before[e] \ {d} /\ d \in Before[e]
    BY <1>3
  <2>2. IsFiniteSet(Before[e]) /\ Cardinality(Before[e]) \in Nat /\ Cardinality(Before[d]) \in Nat
    BY <1>2, <1>1
  <2>3. IsFiniteSet(Before[e] \ {d}) /\ Cardinality(Before[e] \ {d}) = Cardinality(Before[e]) - 1
    BY <2>1, <2>2, FS_RemoveElement
  <2>4. Cardinality(Before[d]) <= Cardinality(Before[e] \ {d})
    BY <2>1, <2>3, FS_Subset
  <2> QED
    BY <2>2, <2>3, <2>4
<1>4. rank \in [S -> 0 .. N - 1]
  <2> QED
    BY <1>2
<1>5. \A d, e \in S : rank[d] = rank[e] => d = e
  <2> SUFFICES ASSUME NEW d \in S, NEW e \in S, rank[d] = rank[e], d # e PROVE FALSE
    OBVIOUS
  <2>1. rank[d] \in Int /\ rank[e] \in Int
    BY <1>1, <1>4
  <2>2. rank[d] < rank[e] \/ rank[e] < rank[d]
    BY <1>3
  <2> HIDE DEF rank
  <2> QED
    BY <2>1, <2>2
<1>6. rank \in Injection(S, 0 .. N - 1)
  BY <1>4, <1>5 DEF Injection, IsInjective
<1>7. IsFiniteSet(0 .. N - 1) /\ Cardinality(0 .. N - 1) = N
  BY <1>1, FS_Interval
<1> HIDE DEF rank
<1>8. rank \in Surjection(S, 0 .. N - 1)
  BY <1>6, <1>7, FS_Injection
<1>9. PICK e \in S : rank[e] = k
  BY <1>8 DEF Surjection
<1> QED
  BY <1>9 DEF rank

-----------------------------------------------------------------------------
(* Signing in and out.                                                     *)

Someone == Accounts \cup {Signing!NoOne}

SessionTyped ==
    /\ storage \in Someone
    /\ screen \in [Tabs -> Signing!Routes]
    /\ token \in [Tabs -> Someone] /\ bearer \in [Tabs -> Someone] /\ fragment \in [Tabs -> Someone]
    /\ pending \in [Tabs -> Nat]
    /\ left \subseteq Tabs
    /\ uses \in Nat

\* No sign-in is under way in a tab that shows the application, is away, or was logged out; and a tab
\* that is away counts as signing in.
QuietInv ==
    \A t \in Tabs :
        /\ t \in left \/ screen[t] \in {"home", "away"} => pending[t] = 0
        /\ screen[t] = "away" => t \notin left

\* Opening a page keeps the types.
LEMMA PageTyped ==
    ASSUME SessionTyped, NEW t \in Tabs, NEW address \in Someone, Signing!NewPage(t, address)
    PROVE  /\ storage' \in Someone
           /\ screen' \in [Tabs -> Signing!Routes]
           /\ token' \in [Tabs -> Someone] /\ bearer' \in [Tabs -> Someone]
           /\ fragment' \in [Tabs -> Someone] /\ pending' \in [Tabs -> Nat]
  <1>1. Signing!Token(storage, address) \in Someone
    BY DEF SessionTyped, Signing!Token
  <1>2. storage' \in Someone /\ token' \in [Tabs -> Someone] /\ bearer' \in [Tabs -> Someone]
    BY <1>1 DEF SessionTyped, Signing!NewPage
  <1>3. fragment' \in [Tabs -> Someone]
    BY DEF SessionTyped, Signing!NewPage, Someone
  <1>4. screen' \in [Tabs -> Signing!Routes] /\ pending' \in [Tabs -> Nat]
    BY DEF SessionTyped, Signing!NewPage, Signing!Routes
  <1> QED BY <1>2, <1>3, <1>4

\* The types of the variables (app.rs) are kept by every step.
LEMMA StepTyped == SessionTyped /\ [Signing!Next]_session => SessionTyped'
  <1> SUFFICES ASSUME SessionTyped, [Signing!Next]_session PROVE SessionTyped'
    OBVIOUS
  <1>0. CASE UNCHANGED session
    BY <1>0 DEF SessionTyped, session
  <1>1. ASSUME NEW t \in Tabs, Signing!Reload(t) PROVE SessionTyped'
    <2>1. fragment[t] \in Someone /\ Signing!NewPage(t, fragment[t])
      BY <1>1 DEF Signing!Reload, SessionTyped
    <2>2. left' \subseteq Tabs /\ uses' \in Nat
      BY <1>1 DEF Signing!Reload, Signing!Use, SessionTyped
    <2> QED BY <2>1, <2>2, PageTyped DEF SessionTyped
  <1>2. ASSUME NEW t \in Tabs, Signing!SsoReturns(t) PROVE SessionTyped'
    <2>1. PICK address \in Someone : Signing!NewPage(t, address)
      BY <1>2 DEF Signing!SsoReturns, Someone
    <2>2. left' \subseteq Tabs /\ uses' \in Nat
      BY <1>2 DEF Signing!SsoReturns, SessionTyped
    <2> QED BY <2>1, <2>2, PageTyped DEF SessionTyped
  <1>3. ASSUME NEW t \in Tabs, Signing!StartSso(t) PROVE SessionTyped'
    BY <1>3 DEF Signing!StartSso, Signing!Use, SessionTyped, Signing!Routes
  <1>4. ASSUME NEW t \in Tabs, Signing!SignIn(t) PROVE SessionTyped'
    BY <1>4 DEF Signing!SignIn, Signing!Use, SessionTyped
  <1>5. ASSUME NEW t \in Tabs, Signing!ToRegister(t) PROVE SessionTyped'
    BY <1>5 DEF Signing!ToRegister, Signing!Use, SessionTyped, Signing!Routes, Signing!AfterUnmount
  <1>6. ASSUME NEW t \in Tabs, Signing!SignedIn(t) PROVE SessionTyped'
    <2>1. PICK a \in Accounts : Signing!SetToken(t, a)
      BY <1>6 DEF Signing!SignedIn
    <2> QED BY <1>6, <2>1 DEF Signing!SignedIn, Signing!SetToken, SessionTyped, Signing!Routes, Signing!AfterUnmount, Someone
  <1>7. ASSUME NEW t \in Tabs, Signing!Refused(t) PROVE SessionTyped'
    BY <1>7 DEF Signing!Refused, SessionTyped
  <1>8. ASSUME NEW t \in Tabs, Signing!Logout(t) PROVE SessionTyped'
    BY <1>8 DEF Signing!Logout, Signing!Use, Signing!SetToken, SessionTyped, Signing!Routes, Someone
  <1> QED BY <1>0, <1>1, <1>2, <1>3, <1>4, <1>5, <1>6, <1>7, <1>8 DEF Signing!Next

\* Where calls are under way, and where nobody has left, changes together (login.rs, register.rs).
LEMMA StepQuiet == SessionTyped /\ QuietInv /\ [Signing!Next]_session => QuietInv'
  <1> SUFFICES ASSUME SessionTyped, QuietInv, [Signing!Next]_session PROVE QuietInv'
    OBVIOUS
  <1> USE DEF SessionTyped, QuietInv
  <1>0. CASE UNCHANGED session
    BY <1>0 DEF session
  <1>1. ASSUME NEW t \in Tabs, Signing!Reload(t) PROVE QuietInv'
    BY <1>1 DEF Signing!Reload, Signing!NewPage
  <1>2. ASSUME NEW t \in Tabs, Signing!SsoReturns(t) PROVE QuietInv'
    BY <1>2 DEF Signing!SsoReturns, Signing!NewPage
  <1>3. ASSUME NEW t \in Tabs, Signing!StartSso(t) PROVE QuietInv'
    BY <1>3 DEF Signing!StartSso
  <1>4. ASSUME NEW t \in Tabs, Signing!SignIn(t) PROVE QuietInv'
    BY <1>4 DEF Signing!SignIn
  <1>5. ASSUME NEW t \in Tabs, Signing!ToRegister(t) PROVE QuietInv'
    BY <1>5 DEF Signing!ToRegister, Signing!AfterUnmount
  <1>6. ASSUME NEW t \in Tabs, Signing!SignedIn(t) PROVE QuietInv'
    BY <1>6 DEF Signing!SignedIn, Signing!AfterUnmount
  <1>7. ASSUME NEW t \in Tabs, Signing!Refused(t) PROVE QuietInv'
    BY <1>7 DEF Signing!Refused
  <1>8. ASSUME NEW t \in Tabs, Signing!Logout(t) PROVE QuietInv'
    BY <1>8 DEF Signing!Logout
  <1> QED BY <1>0, <1>1, <1>2, <1>3, <1>4, <1>5, <1>6, <1>7, <1>8 DEF Signing!Next

\* No step brings a token to a tab that was logged out, unless somebody signs in there (app.rs, set_token).
LEMMA StepStaysOut ==
    Signing!SessionAssumption /\ SessionTyped /\ QuietInv /\ Signing!LoggedOutStaysOut /\ [Signing!Next]_session => Signing!LoggedOutStaysOut'
  <1> SUFFICES ASSUME Signing!SessionAssumption, SessionTyped, QuietInv, Signing!LoggedOutStaysOut, [Signing!Next]_session
               PROVE  Signing!LoggedOutStaysOut'
    OBVIOUS
  <1> USE DEF SessionTyped, Signing!LoggedOutStaysOut
  <1>0. CASE UNCHANGED session
    BY <1>0 DEF session
  <1>1. ASSUME NEW t \in Tabs, Signing!Reload(t) PROVE Signing!LoggedOutStaysOut'
    BY <1>1 DEF Signing!Reload, Signing!NewPage
  <1>2. ASSUME NEW t \in Tabs, Signing!SsoReturns(t) PROVE Signing!LoggedOutStaysOut'
    <2>1. t \notin left
      BY <1>2 DEF Signing!SsoReturns, QuietInv
    <2> QED BY <1>2, <2>1 DEF Signing!SsoReturns, Signing!NewPage
  <1>3. ASSUME NEW t \in Tabs, Signing!StartSso(t) PROVE Signing!LoggedOutStaysOut'
    BY <1>3 DEF Signing!StartSso
  <1>4. ASSUME NEW t \in Tabs, Signing!SignIn(t) PROVE Signing!LoggedOutStaysOut'
    BY <1>4 DEF Signing!SignIn
  <1>5. ASSUME NEW t \in Tabs, Signing!ToRegister(t) PROVE Signing!LoggedOutStaysOut'
    BY <1>5 DEF Signing!ToRegister
  <1>6. ASSUME NEW t \in Tabs, Signing!SignedIn(t) PROVE Signing!LoggedOutStaysOut'
    <2>1. t \notin left
      BY <1>6 DEF Signing!SignedIn, QuietInv
    <2>2. PICK a \in Accounts : Signing!SetToken(t, a)
      BY <1>6 DEF Signing!SignedIn
    <2>3. a # Signing!NoOne
      BY DEF Signing!SessionAssumption
    <2> QED BY <1>6, <2>1, <2>2, <2>3 DEF Signing!SignedIn, Signing!SetToken
  <1>7. ASSUME NEW t \in Tabs, Signing!Refused(t) PROVE Signing!LoggedOutStaysOut'
    BY <1>7 DEF Signing!Refused
  <1>8. ASSUME NEW t \in Tabs, Signing!Logout(t) PROVE Signing!LoggedOutStaysOut'
    BY <1>8 DEF Signing!Logout, Signing!SetToken
  <1> QED BY <1>0, <1>1, <1>2, <1>3, <1>4, <1>5, <1>6, <1>7, <1>8 DEF Signing!Next

\* A tab that was logged out has no token, on its screens or its calls, until someone signs in there or
\* loads a page that finds a token, whenever answers to sign-ins come (app.rs, login.rs, register.rs).
THEOREM StaysOut == ScreensSpec => []LoggedOutStaysOut
  <1>1. ScreensInit => SessionTyped /\ QuietInv /\ Signing!LoggedOutStaysOut
    BY DEF ScreensInit, Signing!Init, SessionTyped, QuietInv, Signing!LoggedOutStaysOut, Signing!Routes, Someone
  <1>2. SessionTyped /\ QuietInv /\ Signing!LoggedOutStaysOut /\ [Signing!Next]_session
            => SessionTyped' /\ QuietInv' /\ Signing!LoggedOutStaysOut'
    BY ScreensAssumption, StepTyped, StepQuiet, StepStaysOut
  <1>3. [ScreensNext]_<<at, screens>> => [Signing!Next]_session
    BY DEF ScreensNext, screens
  <1> QED BY <1>1, <1>2, <1>3, PTL DEF ScreensSpec, LoggedOutStaysOut

-----------------------------------------------------------------------------
(* The form of a field.                                                    *)

Kinds == {"integer", "decimal", "string", "media", "relation", "component", "dynamiczone"}
Givens == {g \in [field : {"", "g"}, operator : {"is", "isNot"}, value : {"", "draft", "true"}] :
               g.field = "" \/ g.value # ""}
Texts == {"", "g", "g +"}
Media == {"images", "videos"}
Shapes == {"manyToOne", "oneToOne", "manyToMany"}
Targets == {"u", "v", "c"}
TargetTexts == {"", "u", "v", "c"}
Parts == SUBSET {"c", "d"}
AttributeType ==
    [type : Kinds, required : BOOLEAN, unique : BOOLEAN, private : BOOLEAN, default : {"none", "d"},
     visibleWhen : SUBSET Field!Conditions, computed : BOOLEAN, expression : {"none"} \cup Texts,
     stored : Field!Flag, dependencies : SUBSET {"g"}, multiple : Field!Flag, allowed : Seq(Media),
     relation : {"none"} \cup Shapes, target : {"none"} \cup Targets, repeatable : Field!Flag, components : Parts]
FormType ==
    [closed : {FALSE}, type : Kinds, required : BOOLEAN, unique : BOOLEAN, private : BOOLEAN,
     condition : BOOLEAN, given : Givens, computed : BOOLEAN, expression : Texts, stored : BOOLEAN,
     multiple : BOOLEAN, allowed : Media, relation : Shapes, target : TargetTexts,
     repeatable : BOOLEAN, components : Parts]

\* What a form that has a condition writes of it.
ConditionOf(given) ==
    [field |-> given.field, operator |-> given.operator, value |-> given.value,
     asString |-> given.value \notin Field!Typed]

\* An attribute that the form can make: one condition, with the type that its text has; all of a
\* computed field, or nothing of one; and the settings of the family, of media types one.
MadeByForm(a) ==
    /\ a.visibleWhen = {} \/ \E g \in Givens : g.field = "g" /\ a.visibleWhen = {ConditionOf(g)}
    /\ IF a.computed
       THEN /\ Field!Family(a) \in {"number", "text"}
            /\ ~a.required /\ ~a.unique /\ a.default = "none" /\ a.expression # "none" /\ a.stored # "none"
            /\ a.dependencies = Field!ColumnsOf(a.expression)
       ELSE a.expression = "none" /\ a.stored = "none" /\ a.dependencies = {}
    /\ Field!Family(a) = "media" =>
           a.multiple # "none" /\ \E m \in Media : a.allowed = <<m>>
    /\ Field!Family(a) = "relation" => a.relation # "none"
    /\ Field!Family(a) = "component" => a.repeatable # "none"

\* What was not changed in the form is as the attribute has it.
Shown ==
    /\ "type" \in touched \/ open.type = field.type
    /\ "required" \in touched \/ (open.required <=> field.required)
    /\ "unique" \in touched \/ (open.unique <=> field.unique)
    /\ "private" \in touched \/ (open.private <=> field.private)
    /\ "visibleWhen" \in touched \/
           IF field.visibleWhen = {} THEN ~open.condition
           ELSE open.condition /\ open.given.field = "g" /\ field.visibleWhen = {ConditionOf(open.given)}
    /\ "computed" \in touched \/ (open.computed <=> field.computed)
    /\ "expression" \in touched \/ open.expression = (IF field.expression = "none" THEN "" ELSE field.expression)
    /\ "stored" \in touched \/ (open.stored <=> field.stored # "false")
    /\ Field!Family(field) = "media" =>
           /\ "multiple" \in touched \/ (open.multiple <=> field.multiple = "true")
           /\ "allowed" \in touched \/ field.allowed = <<open.allowed>>
    /\ "relation" \in touched \/ (Field!Family(field) = "relation" => open.relation = field.relation)
    /\ "target" \in touched \/ open.target = (IF field.target = "none" THEN "" ELSE field.target)
    /\ "repeatable" \in touched \/ (open.repeatable <=> field.repeatable = "true")
    /\ "components" \in touched \/ open.components = field.components
    \* The inputs of a family are not there for another, nor those of a field that is not computed.
    /\ open.type \in Field!Types[Field!Family(field)]
    /\ touched \cap {"required", "unique"} # {} => "computed" \in touched \/ ~field.computed
    /\ touched \cap {"expression", "stored"} # {} => Field!SupportsComputed

FormInv ==
    /\ field \in AttributeType /\ MadeByForm(field)
    /\ IF open = Field!Closed THEN touched = {} ELSE open \in FormType /\ Shown

\* The families have no type in common.
LEMMA FamilyByType ==
    ASSUME NEW a, a.type \in Kinds
    PROVE  /\ a.type \in {"integer", "decimal"} => Field!Family(a) = "number"
           /\ a.type = "string" => Field!Family(a) = "text"
           /\ a.type = "media" => Field!Family(a) = "media"
           /\ a.type = "relation" => Field!Family(a) = "relation"
           /\ a.type = "component" => Field!Family(a) = "component"
           /\ a.type = "dynamiczone" => Field!Family(a) = "zone"
           /\ Field!Family(a) \in Field!Families
           /\ a.type \in Field!Types[Field!Family(a)]
<1>1. \E f \in Field!Families : a.type \in Field!Types[f]
  BY DEF Kinds, Field!Families, Field!Types
<1>2. Field!Family(a) \in Field!Families /\ a.type \in Field!Types[Field!Family(a)]
  BY <1>1 DEF Field!Family
<1> QED
  BY <1>2 DEF Kinds, Field!Families, Field!Types

\* A new attribute has the types of the settings.
LEMMA NewTyped ==
    ASSUME NEW t \in Kinds
    PROVE  /\ Field!New(t) \in AttributeType /\ Field!New(t).type = t /\ ~Field!New(t).computed
           /\ Field!New(t).visibleWhen = {}
<1>1. <<>> \in Seq(Media)
  OBVIOUS
<1> QED
  BY <1>1 DEF Field!New, AttributeType, Field!Flag, Parts

\* Whether the form can make an attribute depends on some of its settings.
LEMMA MadeByFormLike ==
    ASSUME NEW a, NEW b, MadeByForm(a), b.type = a.type, b.computed <=> a.computed, b.visibleWhen = a.visibleWhen,
           b.expression = a.expression, b.stored = a.stored, b.dependencies = a.dependencies,
           b.multiple = a.multiple, b.allowed = a.allowed, b.relation = a.relation, b.repeatable = a.repeatable,
           a.computed => ~b.required /\ ~b.unique /\ b.default = "none"
    PROVE  MadeByForm(b)
<1>1. Field!Family(b) = Field!Family(a)
  BY DEF Field!Family
<1> QED
  BY <1>1 DEF MadeByForm

\* The attributes to begin with can be made by the form.
LEMMA FieldsMadeByForm ==
    ASSUME ~Imported, NEW a \in Field!Fields
    PROVE  a \in AttributeType /\ MadeByForm(a)
<1> DEFINE Plain(f) == {Field!Complete(f, Field!New(t)) : t \in Field!Types[f]}
<1>1. ASSUME NEW f \in Field!Families, NEW t \in Field!Types[f]
      PROVE  /\ Field!Complete(f, Field!New(t)) \in AttributeType
             /\ Field!Complete(f, Field!New(t)).type = t
             /\ t \in Kinds
             /\ MadeByForm(Field!Complete(f, Field!New(t)))
             /\ ~Field!Complete(f, Field!New(t)).computed
  <2> DEFINE b == Field!Complete(f, Field!New(t))
  <2>1. t \in Kinds
    BY DEF Field!Families, Field!Types, Kinds
  <2>2. b \in AttributeType /\ b.type = t /\ ~b.computed
    <3> DEFINE n == Field!New(t)
    <3>1. n \in AttributeType /\ n.type = t /\ ~n.computed
      BY <2>1, NewTyped
    <3> HIDE DEF n
    <3>2. <<"videos">> \in Seq(Media)
      BY DEF Media
    <3>3. ASSUME NEW x \in AttributeType, ~x.computed
          PROVE  /\ Field!Complete(f, x) \in AttributeType
                 /\ Field!Complete(f, x).type = x.type /\ ~Field!Complete(f, x).computed
      <4>1. CASE f = "media"
        BY <3>2, <3>3, <4>1 DEF AttributeType, Field!Complete, Field!Flag
      <4>2. CASE f = "relation"
        BY <3>3, <4>2 DEF AttributeType, Field!Complete, Shapes, Targets
      <4>3. CASE f = "component"
        BY <3>3, <4>3 DEF AttributeType, Field!Complete, Field!Flag, Targets
      <4>4. CASE f = "zone"
        BY <3>3, <4>4 DEF AttributeType, Field!Complete, Parts
      <4>5. CASE f \in {"number", "text"}
        BY <3>3, <4>5 DEF AttributeType, Field!Complete
      <4> QED
        BY <4>1, <4>2, <4>3, <4>4, <4>5 DEF Field!Families
    <3>4. b = Field!Complete(f, n)
      BY DEF n
    <3> QED
      BY <3>1, <3>3, <3>4
  <2>3. Field!Family(b) = f
    BY <2>1, <2>2, FamilyByType DEF Field!Families, Field!Types, Kinds
  <2>4. MadeByForm(b)
    BY <2>2, <2>3 DEF MadeByForm, Field!Complete, Field!New, Field!Families, Media
  <2> QED
    BY <2>1, <2>2, <2>4
<1>2. ASSUME NEW b \in AttributeType, MadeByForm(b), ~b.computed
      PROVE  /\ [b EXCEPT !.unique = TRUE, !.default = "d"] \in AttributeType
             /\ MadeByForm([b EXCEPT !.unique = TRUE, !.default = "d"])
             /\ [b EXCEPT !.required = TRUE, !.private = TRUE, !.visibleWhen = {Field!Conditional}] \in AttributeType
             /\ MadeByForm([b EXCEPT !.required = TRUE, !.private = TRUE, !.visibleWhen = {Field!Conditional}])
  <2> DEFINE c == [b EXCEPT !.unique = TRUE, !.default = "d"]
             d == [b EXCEPT !.required = TRUE, !.private = TRUE, !.visibleWhen = {Field!Conditional}]
  <2>1. c \in AttributeType /\ c.type = b.type /\ c.visibleWhen = b.visibleWhen
    BY DEF AttributeType
  <2>2. Field!Conditional \in Field!Conditions
    BY DEF Field!Conditional, Field!Conditions
  <2>3. d \in AttributeType /\ d.type = b.type /\ d.visibleWhen = {Field!Conditional}
    BY <2>2 DEF AttributeType
  <2>4. Field!Family(c) = Field!Family(b) /\ Field!Family(d) = Field!Family(b)
    BY <2>1, <2>3 DEF Field!Family
  <2>5. MadeByForm(c)
    <3>1. /\ c.type = b.type /\ (c.computed <=> b.computed) /\ c.visibleWhen = b.visibleWhen
          /\ c.expression = b.expression /\ c.stored = b.stored /\ c.dependencies = b.dependencies
          /\ c.multiple = b.multiple /\ c.allowed = b.allowed
          /\ c.relation = b.relation /\ c.repeatable = b.repeatable
      BY DEF AttributeType
    <3> HIDE DEF c, d
    <3> QED
      BY <3>1, <1>2, MadeByFormLike
  <2>6. \E g \in Givens : g.field = "g" /\ Field!Conditional = ConditionOf(g)
    <3>1. [field |-> "g", operator |-> "isNot", value |-> "draft"] \in Givens
      BY DEF Givens
    <3> QED
      BY <3>1, Zenon DEF ConditionOf, Field!Conditional, Field!Typed
  <2>7. MadeByForm(d)
    <3> DEFINE e == [b EXCEPT !.required = TRUE, !.private = TRUE]
    <3>0. /\ e.type = b.type /\ ~e.computed /\ e.visibleWhen = b.visibleWhen
          /\ e.expression = b.expression /\ e.stored = b.stored /\ e.dependencies = b.dependencies
          /\ e.multiple = b.multiple /\ e.allowed = b.allowed
          /\ e.relation = b.relation /\ e.repeatable = b.repeatable
      BY <1>2 DEF AttributeType
    <3>2. /\ ~d.computed /\ d.expression = b.expression
          /\ d.stored = b.stored /\ d.dependencies = b.dependencies /\ d.multiple = b.multiple
          /\ d.allowed = b.allowed /\ d.relation = b.relation /\ d.repeatable = b.repeatable
      BY <1>2 DEF AttributeType
    <3>1. MadeByForm(e)
      <4> HIDE DEF d, e
      <4> QED
        BY <3>0, <1>2, MadeByFormLike
    <3>3. Field!Family(d) = Field!Family(e)
      BY <2>3, <3>0 DEF Field!Family
    <3> HIDE DEF d, e
    <3> QED
      BY <2>3, <2>6, <3>0, <3>1, <3>2, <3>3 DEF MadeByForm
  <2> QED
    BY <2>1, <2>3, <2>5, <2>7
<1>3. ASSUME NEW t \in Field!Types["number"] \cup Field!Types["text"]
      PROVE  /\ Field!Computed(Field!New(t)) \in AttributeType
             /\ MadeByForm(Field!Computed(Field!New(t)))
  <2> DEFINE b == Field!Computed(Field!New(t))
  <2>1. b \in AttributeType /\ b.type \in {"integer", "decimal", "string"}
    <3> DEFINE n == Field!New(t)
    <3>1. t \in {"integer", "decimal", "string"}
      BY DEF Field!Types
    <3>2. n \in AttributeType /\ n.type = t
      BY <3>1, NewTyped DEF Kinds
    <3> HIDE DEF n
    <3>4. "g" \in {"none"} \cup Texts /\ "false" \in Field!Flag /\ {"g"} \in SUBSET {"g"}
      BY DEF Texts, Field!Flag
    <3>3. ASSUME NEW x \in AttributeType
          PROVE  Field!Computed(x) \in AttributeType /\ Field!Computed(x).type = x.type
      BY <3>4 DEF AttributeType, Field!Computed
    <3> QED
      BY <3>1, <3>2, <3>3 DEF n
  <2>2. Field!Family(b) \in {"number", "text"}
    BY <2>1, FamilyByType DEF Kinds
  <2>3. MadeByForm(b)
    <3>1. /\ b.visibleWhen = {} /\ b.computed /\ ~b.required /\ ~b.unique /\ b.default = "none"
          /\ b.expression = "g" /\ b.stored = "false" /\ b.dependencies = {"g"}
      BY DEF Field!Computed, Field!New
    <3> HIDE DEF b
    <3> QED
      BY <2>2, <3>1 DEF MadeByForm, Field!ColumnsOf
  <2> QED
    BY <2>1, <2>3
<1>4. \/ \E f \in Field!Families : \E b \in Plain(f) :
            a \in {b, [b EXCEPT !.unique = TRUE, !.default = "d"],
                   [b EXCEPT !.required = TRUE, !.private = TRUE, !.visibleWhen = {Field!Conditional}]}
      \/ \E t \in Field!Types["number"] \cup Field!Types["text"] : a = Field!Computed(Field!New(t))
  <2>1. \/ \E f \in Field!Families :
              \/ a \in Plain(f)
              \/ a \in {[b EXCEPT !.required = TRUE, !.private = TRUE,
                           !.visibleWhen = {Field!Conditional}] : b \in Plain(f)}
              \/ a \in {[b EXCEPT !.unique = TRUE, !.default = "d"] : b \in Plain(f)}
        \/ a \in {Field!Computed(Field!New(t)) : t \in Field!Types["number"] \cup Field!Types["text"]}
    <3> DEFINE Given(f) == Plain(f) \cup {[b EXCEPT !.required = TRUE, !.private = TRUE,
                                           !.visibleWhen = {Field!Conditional}] : b \in Plain(f)}
                                    \cup {[b EXCEPT !.unique = TRUE, !.default = "d"] : b \in Plain(f)}
           G == UNION {Given(f) : f \in Field!Families}
           C == {Field!Computed(Field!New(t)) : t \in Field!Types["number"] \cup Field!Types["text"]}
    <3>1. Field!Fields = G \cup C \cup (IF Imported THEN {Field!OddMedia} ELSE {})
      BY Zenon DEF Field!Fields
    <3>2. a \in G \/ a \in C
      <4> HIDE DEF G, C
      <4> QED
        BY <3>1
    <3>3. a \in G => \E f \in Field!Families : a \in Given(f)
      <4> HIDE DEF Given
      <4> QED
        OBVIOUS
    <3> QED
      BY <3>2, <3>3, Zenon
  <2> QED
    BY <2>1, Zenon
<1>5. CASE \E f \in Field!Families : \E b \in Plain(f) :
            a \in {b, [b EXCEPT !.unique = TRUE, !.default = "d"],
                   [b EXCEPT !.required = TRUE, !.private = TRUE, !.visibleWhen = {Field!Conditional}]}
  <2>1. PICK f \in Field!Families : \E t \in Field!Types[f] :
            LET b == Field!Complete(f, Field!New(t))
            IN  a \in {b, [b EXCEPT !.unique = TRUE, !.default = "d"],
                        [b EXCEPT !.required = TRUE, !.private = TRUE, !.visibleWhen = {Field!Conditional}]}
    BY <1>5
  <2>3. PICK t \in Field!Types[f] :
            LET b == Field!Complete(f, Field!New(t))
            IN  a \in {b, [b EXCEPT !.unique = TRUE, !.default = "d"],
                        [b EXCEPT !.required = TRUE, !.private = TRUE, !.visibleWhen = {Field!Conditional}]}
    BY <2>1
  <2> DEFINE b == Field!Complete(f, Field!New(t))
  <2>2. b \in AttributeType /\ MadeByForm(b) /\ ~b.computed
    BY <1>1
  <2> HIDE DEF b
  <2> QED
    BY <1>2, <2>3, <2>2 DEF b
<1> QED
  BY <1>3, <1>4, <1>5

\* The settings of a form.
LEMMA FormTyped ==
    ASSUME NEW f,
           f = [closed |-> FALSE, type |-> f.type, required |-> f.required, unique |-> f.unique,
                private |-> f.private, condition |-> f.condition, given |-> f.given, computed |-> f.computed,
                expression |-> f.expression, stored |-> f.stored, multiple |-> f.multiple, allowed |-> f.allowed,
                relation |-> f.relation, target |-> f.target, repeatable |-> f.repeatable,
                components |-> f.components],
           f.type \in Kinds, f.required \in BOOLEAN, f.unique \in BOOLEAN, f.private \in BOOLEAN,
           f.condition \in BOOLEAN, f.given \in Givens, f.computed \in BOOLEAN, f.expression \in Texts,
           f.stored \in BOOLEAN, f.multiple \in BOOLEAN, f.allowed \in Media, f.relation \in Shapes,
           f.target \in TargetTexts, f.repeatable \in BOOLEAN, f.components \in Parts
    PROVE  f \in FormType
<1> DEFINE a == f.type
           b == f.required
           c == f.unique
           d == f.private
           e == f.condition
           g == f.given
           h == f.computed
           i == f.expression
           j == f.stored
           k == f.multiple
           l == f.allowed
           m == f.relation
           n == f.target
           o == f.repeatable
           p == f.components
<1> HIDE DEF a, b, c, d, e, g, h, i, j, k, l, m, n, o, p
<1>1. /\ a \in Kinds /\ b \in BOOLEAN /\ c \in BOOLEAN /\ d \in BOOLEAN /\ e \in BOOLEAN /\ g \in Givens
      /\ h \in BOOLEAN /\ i \in Texts /\ j \in BOOLEAN /\ k \in BOOLEAN /\ l \in Media /\ m \in Shapes
      /\ n \in TargetTexts /\ o \in BOOLEAN /\ p \in Parts
  BY DEF a, b, c, d, e, g, h, i, j, k, l, m, n, o, p
<1>2. f = [closed |-> FALSE, type |-> a, required |-> b, unique |-> c, private |-> d, condition |-> e, given |-> g,
           computed |-> h, expression |-> i, stored |-> j, multiple |-> k, allowed |-> l, relation |-> m,
           target |-> n, repeatable |-> o, components |-> p]
  BY DEF a, b, c, d, e, g, h, i, j, k, l, m, n, o, p
<1>3. [closed |-> FALSE, type |-> a, required |-> b, unique |-> c, private |-> d, condition |-> e, given |-> g,
       computed |-> h, expression |-> i, stored |-> j, multiple |-> k, allowed |-> l, relation |-> m,
       target |-> n, repeatable |-> o, components |-> p] \in FormType
  BY <1>1 DEF FormType
<1> QED
  BY <1>2, <1>3

\* The form opens with what the attribute has.
LEMMA OpenShown ==
    ASSUME FormInv, Field!Open
    PROVE  FormInv'
<1>1. field' = field /\ touched' = touched /\ field \in AttributeType /\ MadeByForm(field)
  BY DEF FormInv, Field!Open
<1>2. open'.type = field.type /\ (open'.required <=> field.required) /\ (open'.unique <=> field.unique)
      /\ (open'.private <=> field.private) /\ (open'.computed <=> field.computed)
      /\ open'.expression = (IF field.expression = "none" THEN "" ELSE field.expression)
      /\ (open'.stored <=> field.stored # "false") /\ (open'.multiple <=> field.multiple = "true")
      /\ open'.allowed = (IF field.allowed = <<>> THEN "images" ELSE field.allowed[1])
      /\ open'.relation = (IF field.relation = "none" THEN "oneToOne" ELSE field.relation)
      /\ open'.target = (IF field.target = "none" THEN "" ELSE field.target)
      /\ (open'.repeatable <=> field.repeatable = "true") /\ open'.components = field.components
      /\ (open'.condition <=> field.visibleWhen # {})
  BY DEF Field!Open
<1>20. /\ open'.required = field.required /\ open'.unique = field.unique /\ open'.private = field.private
       /\ open'.computed = field.computed /\ open'.condition \in BOOLEAN /\ open'.stored \in BOOLEAN
       /\ open'.multiple \in BOOLEAN /\ open'.repeatable \in BOOLEAN
  BY DEF Field!Open
<1>3. open'.given \in Givens /\ (field.visibleWhen # {} =>
         open'.given.field = "g" /\ field.visibleWhen = {ConditionOf(open'.given)})
  <2>1. CASE field.visibleWhen = {}
    BY <2>1 DEF Field!Open, Givens
  <2>2. CASE field.visibleWhen # {}
    <3>1. PICK g \in Givens : g.field = "g" /\ field.visibleWhen = {ConditionOf(g)}
      BY <1>1, <2>2 DEF MadeByForm
    <3>2. (CHOOSE c \in field.visibleWhen : TRUE) = ConditionOf(g)
      BY <3>1
    <3>3. open'.given = [field |-> g.field, operator |-> g.operator, value |-> g.value]
      <4> DEFINE c == CHOOSE c \in field.visibleWhen : TRUE
      <4>1. open'.given = [field |-> c.field, operator |-> c.operator, value |-> c.value]
        BY <2>2 DEF Field!Open
      <4>2. c = ConditionOf(g)
        BY <3>2
      <4> HIDE DEF c
      <4> QED
        BY <4>1, <4>2 DEF ConditionOf
    <3>4. open'.given = g
      BY <3>3 DEF Givens
    <3> QED
      BY <3>1, <3>4
  <2> QED
    BY <2>1, <2>2
<1>4. field.allowed = <<>> \/ field.allowed[1] \in Media
  <2>1. field.allowed \in Seq(Media)
    BY <1>1 DEF AttributeType
  <2> QED
    BY <2>1
<1>5. open' \in FormType
  <2>1. /\ open'.type \in Kinds /\ open'.required \in BOOLEAN /\ open'.unique \in BOOLEAN
        /\ open'.private \in BOOLEAN /\ open'.computed \in BOOLEAN /\ open'.components \in Parts
        /\ open'.expression \in Texts /\ open'.allowed \in Media
        /\ open'.relation \in Shapes /\ open'.target \in TargetTexts
    BY <1>1, <1>2, <1>4, <1>20, ZenonT(40) DEF AttributeType, Texts, Media, Shapes, Targets, TargetTexts
  <2>2. /\ open'.condition \in BOOLEAN /\ open'.stored \in BOOLEAN
        /\ open'.multiple \in BOOLEAN /\ open'.repeatable \in BOOLEAN
    BY <1>20
  <2>3. open' = [closed |-> FALSE, type |-> open'.type, required |-> open'.required, unique |-> open'.unique,
                 private |-> open'.private, condition |-> open'.condition, given |-> open'.given,
                 computed |-> open'.computed, expression |-> open'.expression, stored |-> open'.stored,
                 multiple |-> open'.multiple, allowed |-> open'.allowed, relation |-> open'.relation,
                 target |-> open'.target, repeatable |-> open'.repeatable, components |-> open'.components]
    BY DEF Field!Open
  <2> QED
    BY <1>3, <2>1, <2>2, <2>3, FormTyped
<1>6. field.type \in Field!Types[Field!Family(field)]
  BY <1>1, FamilyByType DEF AttributeType
<1>7. Field!Family(field) = "media" => field.allowed = <<open'.allowed>>
  <2>1. ASSUME NEW m, field.allowed = <<m>> PROVE field.allowed = <<open'.allowed>>
    <3>1. field.allowed # <<>> /\ field.allowed[1] = m
      BY <2>1
    <3> QED
      BY <1>2, <2>1, <3>1
  <2> QED
    BY <1>1, <2>1 DEF MadeByForm
<1>8. touched = {} /\ open' # Field!Closed
  <2>1. open = Field!Closed
    BY DEF Field!Open
  <2> QED
    <3>1. open'.closed = FALSE /\ Field!Closed.closed = TRUE
      BY DEF Field!Open, Field!Closed
    <3> QED
      BY <2>1, <3>1 DEF FormInv
<1>9. IF field.visibleWhen = {} THEN ~open'.condition
      ELSE open'.condition /\ open'.given.field = "g" /\ field.visibleWhen = {ConditionOf(open'.given)}
  BY <1>2, <1>3
<1>10. Field!Family(field) = "relation" => open'.relation = field.relation
  BY <1>1, <1>2 DEF MadeByForm
<1>11. Shown'
  BY <1>1, <1>2, <1>6, <1>7, <1>8, <1>9, <1>10, ZenonT(40) DEF Shown
<1> QED
  BY <1>1, <1>5, <1>8, <1>11 DEF FormInv

\* Two states of the form that differ in no setting but one.
SameBut(s, f) ==
    /\ s = "type" \/ f.type = open.type
    /\ s = "required" \/ (f.required <=> open.required)
    /\ s = "unique" \/ (f.unique <=> open.unique)
    /\ s = "private" \/ (f.private <=> open.private)
    /\ s = "visibleWhen" \/ ((f.condition <=> open.condition) /\ f.given = open.given)
    /\ s = "computed" \/ (f.computed <=> open.computed)
    /\ s = "expression" \/ f.expression = open.expression
    /\ s = "stored" \/ (f.stored <=> open.stored)
    /\ s = "multiple" \/ (f.multiple <=> open.multiple)
    /\ s = "allowed" \/ f.allowed = open.allowed
    /\ s = "relation" \/ f.relation = open.relation
    /\ s = "target" \/ f.target = open.target
    /\ s = "repeatable" \/ (f.repeatable <=> open.repeatable)
    /\ s = "components" \/ f.components = open.components

\* One setting is changed, where the form shows it.
LEMMA TouchShown ==
    ASSUME FormInv, open # Field!Closed, NEW s \in Field!Settings, NEW f \in FormType, Field!Touch(s, f),
           SameBut(s, f), f.type \in Field!Types[Field!Family(field)],
           s \in {"required", "unique"} => ~Field!IsComputed,
           s \in {"expression", "stored"} => Field!SupportsComputed
    PROVE  FormInv'
<1>1. Shown /\ MadeByForm(field)
  BY DEF FormInv
<1>12. field' = field /\ open' = f /\ touched' = touched \cup {s}
  BY DEF Field!Touch
<1>2. s \in {"required", "unique"} => "computed" \in touched \/ ~field.computed
  BY <1>1 DEF Field!IsComputed, Field!SupportsComputed, Shown, MadeByForm
<1>3. (Field!SupportsComputed)' <=> Field!SupportsComputed
  BY <1>12 DEF Field!SupportsComputed
<1>4. /\ "type" \in touched' \/ open'.type = field'.type
      /\ "required" \in touched' \/ (open'.required <=> field'.required)
      /\ "unique" \in touched' \/ (open'.unique <=> field'.unique)
      /\ "private" \in touched' \/ (open'.private <=> field'.private)
  BY <1>1, <1>12 DEF Shown, SameBut
<1>10. /\ "computed" \in touched' \/ (open'.computed <=> field'.computed)
       /\ "expression" \in touched' \/ open'.expression = (IF field'.expression = "none" THEN "" ELSE field'.expression)
       /\ "stored" \in touched' \/ (open'.stored <=> field'.stored # "false")
  BY <1>1, <1>12 DEF Shown, SameBut
<1>5. "visibleWhen" \in touched' \/
          IF field'.visibleWhen = {} THEN ~open'.condition
          ELSE open'.condition /\ open'.given.field = "g" /\ field'.visibleWhen = {ConditionOf(open'.given)}
  BY <1>1, <1>12 DEF Shown, SameBut
<1>6. /\ Field!Family(field') = "media" =>
             /\ "multiple" \in touched' \/ (open'.multiple <=> field'.multiple = "true")
             /\ "allowed" \in touched' \/ field'.allowed = <<open'.allowed>>
      /\ "relation" \in touched' \/ (Field!Family(field') = "relation" => open'.relation = field'.relation)
  BY <1>1, <1>12 DEF Shown, SameBut
<1>11. /\ "target" \in touched' \/ open'.target = (IF field'.target = "none" THEN "" ELSE field'.target)
       /\ "repeatable" \in touched' \/ (open'.repeatable <=> field'.repeatable = "true")
       /\ "components" \in touched' \/ open'.components = field'.components
  BY <1>1, <1>12 DEF Shown, SameBut
<1>7. /\ open'.type \in Field!Types[Field!Family(field')]
      /\ touched' \cap {"required", "unique"} # {} => "computed" \in touched' \/ ~field'.computed
      /\ touched' \cap {"expression", "stored"} # {} => (Field!SupportsComputed)'
  BY <1>1, <1>2, <1>3, <1>12 DEF Shown, SameBut
<1>8. Shown'
  BY <1>4, <1>5, <1>6, <1>7, <1>10, <1>11 DEF Shown
<1>9. f # Field!Closed
  <2>1. f.closed = FALSE /\ Field!Closed.closed = TRUE
    BY DEF FormType, Field!Closed
  <2> QED
    BY <2>1
<1> QED
  BY <1>8, <1>9, <1>12 DEF FormInv

\* Every input of the form changes one setting.
LEMMA TouchesShown ==
    ASSUME FormInv, Field!TouchCommon \/ Field!TouchCondition \/ Field!TouchComputed \/ Field!TouchFamily
    PROVE  FormInv'
<1>1. ~open.closed /\ open # Field!Closed
  <2>1. ~open.closed
    BY DEF Field!TouchCommon, Field!TouchCondition, Field!TouchComputed, Field!TouchFamily
  <2> QED
    BY <2>1 DEF Field!Closed
<1>2. open \in FormType /\ open.type \in Field!Types[Field!Family(field)]
  BY <1>1 DEF FormInv, Shown
<1>3. ASSUME NEW b \in BOOLEAN, Field!Touch("private", [open EXCEPT !.private = b])
      PROVE  FormInv'
  <2> DEFINE f == [open EXCEPT !.private = b]
  <2>1. f \in FormType /\ f.type = open.type /\ SameBut("private", f)
    BY <1>2, <1>3, ZenonT(40) DEF FormType, SameBut
  <2> HIDE DEF f
  <2>2. Field!Touch("private", f)
    BY <1>3 DEF f
  <2> QED
    BY <1>1, <1>2, <1>3, <2>1, <2>2, TouchShown DEF Field!Settings
<1>4. ASSUME NEW b \in BOOLEAN, ~Field!IsComputed, Field!Touch("required", [open EXCEPT !.required = b])
      PROVE  FormInv'
  <2> DEFINE f == [open EXCEPT !.required = b]
  <2>1. f \in FormType /\ f.type = open.type /\ SameBut("required", f)
    BY <1>2, <1>4, ZenonT(40) DEF FormType, SameBut
  <2> HIDE DEF f
  <2>2. Field!Touch("required", f)
    BY <1>4 DEF f
  <2> QED
    BY <1>1, <1>2, <1>4, <2>1, <2>2, TouchShown DEF Field!Settings
<1>5. ASSUME NEW b \in BOOLEAN, ~Field!IsComputed, Field!Touch("unique", [open EXCEPT !.unique = b])
      PROVE  FormInv'
  <2> DEFINE f == [open EXCEPT !.unique = b]
  <2>1. f \in FormType /\ f.type = open.type /\ SameBut("unique", f)
    BY <1>2, <1>5, ZenonT(40) DEF FormType, SameBut
  <2> HIDE DEF f
  <2>2. Field!Touch("unique", f)
    BY <1>5 DEF f
  <2> QED
    BY <1>1, <1>2, <1>5, <2>1, <2>2, TouchShown DEF Field!Settings
<1>6. ASSUME NEW b \in BOOLEAN, Field!Touch("visibleWhen", [open EXCEPT !.condition = b])
      PROVE  FormInv'
  <2> DEFINE f == [open EXCEPT !.condition = b]
  <2>1. f \in FormType /\ f.type = open.type /\ SameBut("visibleWhen", f)
    BY <1>2, <1>6, ZenonT(40) DEF FormType, SameBut
  <2> HIDE DEF f
  <2>2. Field!Touch("visibleWhen", f)
    BY <1>6 DEF f
  <2> QED
    BY <1>1, <1>2, <1>6, <2>1, <2>2, TouchShown DEF Field!Settings
<1>7. ASSUME NEW g \in Givens, Field!Touch("visibleWhen", [open EXCEPT !.given = g])
      PROVE  FormInv'
  <2> DEFINE f == [open EXCEPT !.given = g]
  <2>1. f \in FormType /\ f.type = open.type /\ SameBut("visibleWhen", f)
    BY <1>2, <1>7 DEF FormType, SameBut
  <2> HIDE DEF f
  <2>2. Field!Touch("visibleWhen", f)
    BY <1>7 DEF f
  <2> QED
    BY <1>1, <1>2, <1>7, <2>1, <2>2, TouchShown DEF Field!Settings
<1>8. ASSUME NEW b \in BOOLEAN, Field!Touch("computed", [open EXCEPT !.computed = b])
      PROVE  FormInv'
  <2> DEFINE f == [open EXCEPT !.computed = b]
  <2>1. f \in FormType /\ f.type = open.type /\ SameBut("computed", f)
    BY <1>2, <1>8, ZenonT(40) DEF FormType, SameBut
  <2> HIDE DEF f
  <2>2. Field!Touch("computed", f)
    BY <1>8 DEF f
  <2> QED
    BY <1>1, <1>2, <1>8, <2>1, <2>2, TouchShown DEF Field!Settings
<1>9. ASSUME NEW e \in Field!Expressions, Field!SupportsComputed, Field!Touch("expression", [open EXCEPT !.expression = e])
      PROVE  FormInv'
  <2>3. e \in Texts
    BY <1>9 DEF Field!Expressions, Texts
  <2> DEFINE f == [open EXCEPT !.expression = e]
  <2>1. f \in FormType /\ f.type = open.type /\ SameBut("expression", f)
    BY <1>2, <1>9, <2>3, ZenonT(40) DEF FormType, SameBut
  <2> HIDE DEF f
  <2>2. Field!Touch("expression", f)
    BY <1>9 DEF f
  <2> QED
    BY <1>1, <1>2, <1>9, <2>1, <2>2, TouchShown DEF Field!Settings
<1>10. ASSUME NEW b \in BOOLEAN, Field!SupportsComputed, Field!Touch("stored", [open EXCEPT !.stored = b])
      PROVE  FormInv'
  <2> DEFINE f == [open EXCEPT !.stored = b]
  <2>1. f \in FormType /\ f.type = open.type /\ SameBut("stored", f)
    BY <1>2, <1>10, ZenonT(40) DEF FormType, SameBut
  <2> HIDE DEF f
  <2>2. Field!Touch("stored", f)
    BY <1>10 DEF f
  <2> QED
    BY <1>1, <1>2, <1>10, <2>1, <2>2, TouchShown DEF Field!Settings
<1>11. ASSUME NEW b \in BOOLEAN, Field!Touch("multiple", [open EXCEPT !.multiple = b])
      PROVE  FormInv'
  <2> DEFINE f == [open EXCEPT !.multiple = b]
  <2>1. f \in FormType /\ f.type = open.type /\ SameBut("multiple", f)
    BY <1>2, <1>11, ZenonT(40) DEF FormType, SameBut
  <2> HIDE DEF f
  <2>2. Field!Touch("multiple", f)
    BY <1>11 DEF f
  <2> QED
    BY <1>1, <1>2, <1>11, <2>1, <2>2, TouchShown DEF Field!Settings
<1>12. ASSUME NEW m \in Media, Field!Touch("allowed", [open EXCEPT !.allowed = m])
      PROVE  FormInv'
  <2> DEFINE f == [open EXCEPT !.allowed = m]
  <2>1. f \in FormType /\ f.type = open.type /\ SameBut("allowed", f)
    BY <1>2, <1>12, ZenonT(40) DEF FormType, SameBut
  <2> HIDE DEF f
  <2>2. Field!Touch("allowed", f)
    BY <1>12 DEF f
  <2> QED
    BY <1>1, <1>2, <1>12, <2>1, <2>2, TouchShown DEF Field!Settings
<1>13. ASSUME NEW r \in {"oneToOne", "manyToMany"}, Field!Touch("relation", [open EXCEPT !.relation = r])
      PROVE  FormInv'
  <2>3. r \in Shapes
    BY <1>13 DEF Shapes
  <2> DEFINE f == [open EXCEPT !.relation = r]
  <2>1. f \in FormType /\ f.type = open.type /\ SameBut("relation", f)
    BY <1>2, <1>13, <2>3, ZenonT(40) DEF FormType, SameBut
  <2> HIDE DEF f
  <2>2. Field!Touch("relation", f)
    BY <1>13 DEF f
  <2> QED
    BY <1>1, <1>2, <1>13, <2>1, <2>2, TouchShown DEF Field!Settings
<1>14. ASSUME NEW u \in TargetTexts, Field!Touch("target", [open EXCEPT !.target = u])
      PROVE  FormInv'
  <2> DEFINE f == [open EXCEPT !.target = u]
  <2>1. f \in FormType /\ f.type = open.type /\ SameBut("target", f)
    BY <1>2, <1>14, ZenonT(40) DEF FormType, SameBut
  <2> HIDE DEF f
  <2>2. Field!Touch("target", f)
    BY <1>14 DEF f
  <2> QED
    BY <1>1, <1>2, <1>14, <2>1, <2>2, TouchShown DEF Field!Settings
<1>15. ASSUME NEW b \in BOOLEAN, Field!Touch("repeatable", [open EXCEPT !.repeatable = b])
      PROVE  FormInv'
  <2> DEFINE f == [open EXCEPT !.repeatable = b]
  <2>1. f \in FormType /\ f.type = open.type /\ SameBut("repeatable", f)
    BY <1>2, <1>15, ZenonT(40) DEF FormType, SameBut
  <2> HIDE DEF f
  <2>2. Field!Touch("repeatable", f)
    BY <1>15 DEF f
  <2> QED
    BY <1>1, <1>2, <1>15, <2>1, <2>2, TouchShown DEF Field!Settings
<1>16. ASSUME NEW c \in {"c", "d"}, Field!Touch("components", [open EXCEPT !.components = @ \cup {c}])
      PROVE  FormInv'
  <2>3. open.components \cup {c} \in Parts
    BY <1>2, <1>16 DEF FormType, Parts
  <2> DEFINE f == [open EXCEPT !.components = @ \cup {c}]
  <2>1. f \in FormType /\ f.type = open.type /\ SameBut("components", f)
    BY <1>2, <1>16, <2>3, ZenonT(40) DEF FormType, SameBut
  <2> HIDE DEF f
  <2>2. Field!Touch("components", f)
    BY <1>16 DEF f
  <2> QED
    BY <1>1, <1>2, <1>16, <2>1, <2>2, TouchShown DEF Field!Settings
<1>20. ASSUME NEW t \in Field!Types["number"], Field!Family(field) = "number", Field!Touch("type", [open EXCEPT !.type = t])
      PROVE  FormInv'
  <2>3. t \in Kinds
    BY <1>20 DEF Field!Types, Kinds
  <2> DEFINE f == [open EXCEPT !.type = t]
  <2>1. f \in FormType /\ f.type = t /\ SameBut("type", f)
    BY <1>2, <1>20, <2>3, ZenonT(40) DEF FormType, SameBut
  <2> HIDE DEF f
  <2>2. Field!Touch("type", f)
    BY <1>20 DEF f
  <2> QED
    BY <1>1, <1>2, <1>20, <2>1, <2>2, TouchShown DEF Field!Settings
<1>21. CASE Field!TouchCommon
  BY <1>3, <1>4, <1>5, <1>21 DEF Field!TouchCommon
<1>22. CASE Field!TouchCondition
  <2>1. \A f \in {"", "g"}, o \in {"is", "isNot"}, v \in {"draft", "true"} :
            [field |-> f, operator |-> o, value |-> v] \in Givens
    BY DEF Givens
  <2> QED
    BY <1>6, <1>7, <1>22, <2>1 DEF Field!TouchCondition
<1>23. CASE Field!TouchComputed
  BY <1>8, <1>9, <1>10, <1>23 DEF Field!TouchComputed
<1>24. CASE Field!TouchFamily
  BY <1>11, <1>12, <1>13, <1>14, <1>15, <1>16, <1>20, <1>24 DEF Field!TouchFamily, Media, TargetTexts
<1> QED
  BY <1>21, <1>22, <1>23, <1>24

\* What each part of Finish leaves as it was, and what it sets.
LEMMA FamilyWritten ==
    ASSUME NEW a \in AttributeType, open \in FormType, field \in AttributeType
    PROVE  LET b == Field!WithFamily(a)
               family == Field!Family(field)
           IN  /\ b \in AttributeType
               /\ b.type = a.type /\ (b.required <=> a.required) /\ (b.unique <=> a.unique)
               /\ (b.private <=> a.private) /\ b.default = a.default /\ b.visibleWhen = a.visibleWhen
               /\ b.multiple = (IF family = "media" THEN Field!Flagged(open.multiple) ELSE a.multiple)
               /\ b.allowed = (IF family = "media" THEN <<open.allowed>> ELSE a.allowed)
               /\ b.relation = (IF family = "relation" THEN open.relation ELSE a.relation)
               /\ b.target = (IF family \in {"relation", "component"} THEN Field!Optional(open.target) ELSE a.target)
               /\ b.repeatable = (IF family = "component" THEN Field!Flagged(open.repeatable) ELSE a.repeatable)
               /\ b.components = (IF family = "zone" THEN open.components ELSE a.components)
<1> DEFINE b == Field!WithFamily(a)
           family == Field!Family(field)
<1>1. /\ Field!Flagged(open.multiple) \in Field!Flag /\ Field!Flagged(open.repeatable) \in Field!Flag
      /\ <<open.allowed>> \in Seq(Media) /\ open.relation \in {"none"} \cup Shapes /\ open.components \in Parts
  <2>1. open.allowed \in Media /\ open.relation \in Shapes /\ open.components \in Parts
    BY DEF FormType
  <2> QED
    BY <2>1 DEF Field!Flagged, Field!Flag
<1>2. Field!Optional(open.target) \in {"none"} \cup Targets
  <2>1. open.target \in TargetTexts
    BY DEF FormType
  <2> QED
    BY <2>1 DEF Field!Optional, Targets, TargetTexts
<1>3. CASE family = "media"
  BY <1>1, <1>3 DEF Field!WithFamily, AttributeType
<1>4. CASE family = "relation"
  BY <1>1, <1>2, <1>4, ZenonT(40) DEF Field!WithFamily, AttributeType
<1>5. CASE family = "component"
  BY <1>1, <1>2, <1>5, ZenonT(40) DEF Field!WithFamily, AttributeType
<1>6. CASE family = "zone"
  BY <1>1, <1>6 DEF Field!WithFamily, AttributeType
<1>7. CASE family \notin {"media", "relation", "component", "zone"}
  BY <1>7 DEF Field!WithFamily
<1> QED
  BY <1>3, <1>4, <1>5, <1>6, <1>7

\* A condition is written when it is on and has a field.
LEMMA ConditionWritten ==
    ASSUME NEW a \in AttributeType, open \in FormType
    PROVE  LET b == Field!WithCondition(a)
           IN  /\ b \in AttributeType
               /\ b = [a EXCEPT !.visibleWhen = b.visibleWhen]
               /\ b.visibleWhen = (IF open.condition /\ open.given.field # "" THEN {ConditionOf(open.given)}
                                   ELSE a.visibleWhen)
<1> DEFINE b == Field!WithCondition(a)
<1>1. CASE open.condition /\ open.given.field # ""
  <2>1. open.given \in Givens
    BY <1>1 DEF FormType
  <2>2. ConditionOf(open.given) \in Field!Conditions
    BY <1>1, <2>1 DEF ConditionOf, Field!Conditions, Givens
  <2>3. b = [a EXCEPT !.visibleWhen = {ConditionOf(open.given)}]
    BY <1>1, Zenon DEF Field!WithCondition, ConditionOf
  <2> QED
    <3> DEFINE c == ConditionOf(open.given)
    <3>1. {c} \in SUBSET Field!Conditions
      BY <2>2
    <3> HIDE DEF c
    <3>2. [a EXCEPT !.visibleWhen = {c}] \in AttributeType /\ [a EXCEPT !.visibleWhen = {c}].visibleWhen = {c}
      BY <3>1 DEF AttributeType
    <3> QED
      BY <1>1, <2>3, <3>2 DEF c
<1>2. CASE ~(open.condition /\ open.given.field # "")
  BY <1>2 DEF Field!WithCondition, AttributeType
<1> QED
  BY <1>1, <1>2

\* A computed field gets all that is of one, and any other nothing.
LEMMA ComputedWritten ==
    ASSUME NEW a \in AttributeType, open \in FormType
    PROVE  LET b == Field!WithComputed(a)
           IN  /\ b \in AttributeType
               /\ b = [a EXCEPT !.required = b.required, !.unique = b.unique, !.default = b.default,
                                !.computed = b.computed, !.expression = b.expression, !.stored = b.stored,
                                !.dependencies = b.dependencies]
               /\ IF Field!IsComputed
                  THEN /\ b.computed /\ ~b.required /\ ~b.unique /\ b.default = "none"
                       /\ b.expression = open.expression /\ b.stored = Field!Flagged(open.stored)
                       /\ b.dependencies = Field!ColumnsOf(open.expression)
                  ELSE /\ ~b.computed /\ (b.required <=> a.required) /\ (b.unique <=> a.unique)
                       /\ b.default = a.default /\ b.expression = "none" /\ b.stored = "none" /\ b.dependencies = {}
<1> DEFINE b == Field!WithComputed(a)
<1>1. CASE Field!IsComputed
  <2>1. /\ open.expression \in {"none"} \cup Texts /\ Field!Flagged(open.stored) \in Field!Flag
        /\ Field!ColumnsOf(open.expression) \in SUBSET {"g"}
    BY DEF FormType, Field!Flagged, Field!Flag, Field!ColumnsOf
  <2> DEFINE e == open.expression
             f == Field!Flagged(open.stored)
             d == Field!ColumnsOf(open.expression)
             c == [a EXCEPT !.computed = TRUE, !.expression = e, !.stored = f, !.dependencies = d,
                            !.required = FALSE, !.unique = FALSE, !.default = "none"]
  <2>2. b = c
    BY <1>1, Zenon DEF Field!WithComputed
  <2> HIDE DEF b, e, f, d
  <2>3. c \in AttributeType
    BY <2>1 DEF AttributeType, e, f, d
  <2>4. /\ c.computed /\ ~c.required /\ ~c.unique /\ c.default = "none" /\ c.expression = e /\ c.stored = f
        /\ c.dependencies = d
    BY DEF AttributeType
  <2>5. c = [a EXCEPT !.required = c.required, !.unique = c.unique, !.default = c.default,
                      !.computed = c.computed, !.expression = c.expression, !.stored = c.stored,
                      !.dependencies = c.dependencies]
    BY ZenonT(40) DEF AttributeType
  <2> HIDE DEF c
  <2> QED
    BY <1>1, <2>2, <2>3, <2>4, <2>5 DEF b, e, f, d
<1>2. CASE ~Field!IsComputed
  <2> DEFINE c == [a EXCEPT !.computed = FALSE, !.expression = "none", !.stored = "none", !.dependencies = {}]
  <2>1. b = c
    BY <1>2, Zenon DEF Field!WithComputed
  <2>2. "none" \in {"none"} \cup Texts /\ "none" \in Field!Flag
    BY DEF Field!Flag
  <2>3. c \in AttributeType
    BY <2>2 DEF AttributeType
  <2>4. /\ ~c.computed /\ (c.required <=> a.required) /\ (c.unique <=> a.unique)
        /\ c.default = a.default /\ c.expression = "none" /\ c.stored = "none" /\ c.dependencies = {}
    BY DEF AttributeType
  <2>5. c = [a EXCEPT !.required = c.required, !.unique = c.unique, !.default = c.default,
                      !.computed = c.computed, !.expression = c.expression, !.stored = c.stored,
                      !.dependencies = c.dependencies]
    BY ZenonT(40) DEF AttributeType
  <2> HIDE DEF b, c
  <2> QED
    BY <1>2, <2>1, <2>3, <2>4, <2>5 DEF b
<1> QED
  BY <1>1, <1>2

\* What Finish makes of the attribute.
Written(b) ==
    LET family == Field!Family(field)
    IN  /\ b.type = open.type /\ (b.private <=> open.private)
        /\ b.visibleWhen = (IF open.condition /\ open.given.field # "" THEN {ConditionOf(open.given)}
                            ELSE field.visibleWhen)
        /\ b.multiple = (IF family = "media" THEN Field!Flagged(open.multiple) ELSE field.multiple)
        /\ b.allowed = (IF family = "media" THEN <<open.allowed>> ELSE field.allowed)
        /\ b.relation = (IF family = "relation" THEN open.relation ELSE field.relation)
        /\ b.target = (IF family \in {"relation", "component"} THEN Field!Optional(open.target) ELSE field.target)
        /\ b.repeatable = (IF family = "component" THEN Field!Flagged(open.repeatable) ELSE field.repeatable)
        /\ b.components = (IF family = "zone" THEN open.components ELSE field.components)
        /\ IF Field!IsComputed
           THEN /\ b.computed /\ ~b.required /\ ~b.unique /\ b.default = "none"
                /\ b.expression = open.expression /\ b.stored = Field!Flagged(open.stored)
                /\ b.dependencies = Field!ColumnsOf(open.expression)
           ELSE /\ ~b.computed /\ (b.required <=> open.required) /\ (b.unique <=> open.unique)
                /\ b.default = field.default /\ b.expression = "none" /\ b.stored = "none" /\ b.dependencies = {}

\* What Finish writes, given what the form shows.
LEMMA FinishedWritten ==
    ASSUME open \in FormType, field \in AttributeType
    PROVE  Field!Finished \in AttributeType /\ Written(Field!Finished)
<1> DEFINE a == [field EXCEPT !.type = open.type, !.required = open.required, !.unique = open.unique,
                              !.private = open.private]
           b == Field!WithFamily(a)
           c == Field!WithCondition(b)
           d == Field!WithComputed(c)
<1>1. /\ a \in AttributeType /\ a.type = open.type /\ (a.required <=> open.required)
      /\ (a.unique <=> open.unique) /\ (a.private <=> open.private)
      /\ a.default = field.default /\ a.visibleWhen = field.visibleWhen /\ a.multiple = field.multiple
      /\ a.allowed = field.allowed /\ a.relation = field.relation /\ a.target = field.target
      /\ a.repeatable = field.repeatable /\ a.components = field.components
  <2>1. open.type \in Kinds /\ open.required \in BOOLEAN /\ open.unique \in BOOLEAN /\ open.private \in BOOLEAN
    BY DEF FormType
  <2> QED
    BY <2>1 DEF AttributeType
<1>2. d = Field!Finished
  BY Zenon DEF Field!Finished
<1> HIDE DEF a
<1>3. /\ b \in AttributeType /\ b.type = a.type /\ (b.required <=> a.required) /\ (b.unique <=> a.unique)
      /\ (b.private <=> a.private) /\ b.default = a.default /\ b.visibleWhen = a.visibleWhen
      /\ b.multiple = (IF Field!Family(field) = "media" THEN Field!Flagged(open.multiple) ELSE a.multiple)
      /\ b.allowed = (IF Field!Family(field) = "media" THEN <<open.allowed>> ELSE a.allowed)
      /\ b.relation = (IF Field!Family(field) = "relation" THEN open.relation ELSE a.relation)
      /\ b.target = (IF Field!Family(field) \in {"relation", "component"} THEN Field!Optional(open.target)
                     ELSE a.target)
      /\ b.repeatable = (IF Field!Family(field) = "component" THEN Field!Flagged(open.repeatable) ELSE a.repeatable)
      /\ b.components = (IF Field!Family(field) = "zone" THEN open.components ELSE a.components)
  BY <1>1, FamilyWritten
<1> HIDE DEF b
<1>4. /\ c \in AttributeType /\ c = [b EXCEPT !.visibleWhen = c.visibleWhen]
      /\ c.visibleWhen = (IF open.condition /\ open.given.field # "" THEN {ConditionOf(open.given)}
                          ELSE b.visibleWhen)
  BY <1>3, ConditionWritten
<1> HIDE DEF c
<1>5. /\ c.type = b.type /\ (c.required <=> b.required) /\ (c.unique <=> b.unique)
      /\ (c.private <=> b.private) /\ c.default = b.default /\ c.multiple = b.multiple /\ c.allowed = b.allowed
      /\ c.relation = b.relation /\ c.target = b.target /\ c.repeatable = b.repeatable /\ c.components = b.components
  BY <1>3, <1>4 DEF AttributeType
<1>6. /\ d \in AttributeType
      /\ d = [c EXCEPT !.required = d.required, !.unique = d.unique, !.default = d.default,
                       !.computed = d.computed, !.expression = d.expression, !.stored = d.stored,
                       !.dependencies = d.dependencies]
      /\ IF Field!IsComputed
         THEN /\ d.computed /\ ~d.required /\ ~d.unique /\ d.default = "none"
              /\ d.expression = open.expression /\ d.stored = Field!Flagged(open.stored)
              /\ d.dependencies = Field!ColumnsOf(open.expression)
         ELSE /\ ~d.computed /\ (d.required <=> c.required) /\ (d.unique <=> c.unique)
              /\ d.default = c.default /\ d.expression = "none" /\ d.stored = "none" /\ d.dependencies = {}
  BY <1>4, ComputedWritten
<1> HIDE DEF d
<1>7. /\ d.type = c.type /\ (d.private <=> c.private) /\ d.visibleWhen = c.visibleWhen
      /\ d.multiple = c.multiple /\ d.allowed = c.allowed /\ d.relation = c.relation /\ d.target = c.target
      /\ d.repeatable = c.repeatable /\ d.components = c.components
  <2>1. c \in AttributeType /\ d = [c EXCEPT !.required = d.required, !.unique = d.unique, !.default = d.default,
                                            !.computed = d.computed, !.expression = d.expression,
                                            !.stored = d.stored, !.dependencies = d.dependencies]
    BY <1>4, <1>6
  <2> QED
    BY <2>1, ZenonT(40) DEF AttributeType
<1>8. Written(d)
  <2>1. d.type = open.type /\ (d.private <=> open.private)
        /\ d.visibleWhen = (IF open.condition /\ open.given.field # "" THEN {ConditionOf(open.given)}
                            ELSE field.visibleWhen)
    BY <1>1, <1>3, <1>4, <1>5, <1>7, ZenonT(40)
  <2>2. /\ d.multiple = (IF Field!Family(field) = "media" THEN Field!Flagged(open.multiple) ELSE field.multiple)
        /\ d.allowed = (IF Field!Family(field) = "media" THEN <<open.allowed>> ELSE field.allowed)
        /\ d.relation = (IF Field!Family(field) = "relation" THEN open.relation ELSE field.relation)
    BY <1>1, <1>3, <1>5, <1>7
  <2>3. /\ d.target = (IF Field!Family(field) \in {"relation", "component"} THEN Field!Optional(open.target)
                       ELSE field.target)
        /\ d.repeatable = (IF Field!Family(field) = "component" THEN Field!Flagged(open.repeatable)
                           ELSE field.repeatable)
        /\ d.components = (IF Field!Family(field) = "zone" THEN open.components ELSE field.components)
    BY <1>1, <1>3, <1>5, <1>7
  <2>4. /\ c.default = field.default /\ (c.required <=> open.required) /\ (c.unique <=> open.unique)
    BY <1>1, <1>3, <1>5
  <2>5. IF Field!IsComputed
        THEN /\ d.computed /\ ~d.required /\ ~d.unique /\ d.default = "none"
             /\ d.expression = open.expression /\ d.stored = Field!Flagged(open.stored)
             /\ d.dependencies = Field!ColumnsOf(open.expression)
        ELSE /\ ~d.computed /\ (d.required <=> open.required) /\ (d.unique <=> open.unique)
             /\ d.default = field.default /\ d.expression = "none" /\ d.stored = "none" /\ d.dependencies = {}
    BY <1>6, <2>4
  <2> QED
    BY <2>1, <2>2, <2>3, <2>5 DEF Written
<1> QED
  BY <1>2, <1>6, <1>8

\* Finish keeps what was not changed, and leaves what the form can make.
LEMMA FinishKeeps ==
    ASSUME FormInv, Field!Finish
    PROVE  /\ FormInv'
           /\ \A s \in Field!Settings \ Field!FollowingFrom(touched) : field'[s] = field[s]
<1>1. open # Field!Closed
  BY DEF Field!Finish, Field!Closed
<1>2. open \in FormType /\ field \in AttributeType /\ Shown /\ MadeByForm(field)
  BY <1>1 DEF FormInv
<1>3. field' \in AttributeType /\ Written(field')
  BY <1>2, FinishedWritten DEF Field!Finish
<1>4. Field!Family(field') = Field!Family(field)
  <2>1. field'.type = open.type /\ open.type \in Kinds
    BY <1>2, <1>3 DEF Written, FormType
  <2> QED
    <3>1. \A f, g \in Field!Families : \A t : t \in Field!Types[f] /\ t \in Field!Types[g] => f = g
      BY DEF Field!Families, Field!Types
    <3>2. field'.type \in Field!Types[Field!Family(field')] /\ Field!Family(field') \in Field!Families
          /\ Field!Family(field) \in Field!Families
      BY <1>2, <2>1, FamilyByType DEF AttributeType
    <3>3. open.type \in Field!Types[Field!Family(field)]
      BY <1>2 DEF Shown
    <3> QED
      BY <2>1, <3>1, <3>2, <3>3
<1>5. MadeByForm(field')
  <2>1. field'.visibleWhen = {} \/ \E g \in Givens : g.field = "g" /\ field'.visibleWhen = {ConditionOf(g)}
    <3>1. CASE open.condition /\ open.given.field # ""
      <4>1. open.given \in Givens /\ open.given.field = "g"
        BY <1>2, <3>1 DEF FormType, Givens
      <4>2. field'.visibleWhen = {ConditionOf(open.given)}
        BY <1>3, <3>1 DEF Written
      <4> QED
        BY <4>1, <4>2
    <3>2. CASE ~(open.condition /\ open.given.field # "")
      BY <1>2, <1>3, <3>2 DEF Written, MadeByForm
    <3> QED
      BY <3>1, <3>2
  <2>2. IF field'.computed
        THEN /\ Field!Family(field') \in {"number", "text"}
             /\ ~field'.required /\ ~field'.unique /\ field'.default = "none"
             /\ field'.expression # "none" /\ field'.stored # "none"
             /\ field'.dependencies = Field!ColumnsOf(field'.expression)
        ELSE field'.expression = "none" /\ field'.stored = "none" /\ field'.dependencies = {}
    <3>1. CASE Field!IsComputed
      <4>1. open.expression # "none" /\ Field!Flagged(open.stored) # "none"
        BY <1>2 DEF FormType, Texts, Field!Flagged
      <4>2. Field!Family(field) \in {"number", "text"}
        BY <3>1 DEF Field!IsComputed, Field!SupportsComputed
      <4> QED
        BY <1>3, <1>4, <3>1, <4>1, <4>2 DEF Written
    <3>2. CASE ~Field!IsComputed
      BY <1>3, <3>2 DEF Written
    <3> QED
      BY <3>1, <3>2
  <2>3. open.allowed \in Media /\ open.relation # "none"
        /\ Field!Flagged(open.multiple) # "none" /\ Field!Flagged(open.repeatable) # "none"
    BY <1>2 DEF FormType, Shapes, Field!Flagged
  <2>4. /\ Field!Family(field) = "media" =>
               field'.multiple # "none" /\ \E m \in Media : field'.allowed = <<m>>
        /\ Field!Family(field) = "relation" => field'.relation # "none"
        /\ Field!Family(field) = "component" => field'.repeatable # "none"
    BY <1>3, <2>3 DEF Written
  <2> QED
    BY <1>4, <2>1, <2>2, <2>4 DEF MadeByForm
<1>6. FormInv'
  BY <1>3, <1>5 DEF FormInv, Field!Finish
<1>7. ASSUME NEW s \in Field!Settings \ Field!FollowingFrom(touched)
      PROVE  field'[s] = field[s]
  <2>1. /\ s \notin touched
        /\ s \in {"required", "unique", "default", "expression", "stored", "dependencies"} => "computed" \notin touched
        /\ s = "dependencies" => "expression" \notin touched
    BY <1>7 DEF Field!FollowingFrom
  <2>2. "computed" \notin touched => (Field!IsComputed <=> field.computed)
    BY <1>2 DEF Shown, MadeByForm, Field!IsComputed, Field!SupportsComputed
  <2>3. CASE s \in {"type", "private"}
    BY <1>2, <1>3, <2>1, <2>3, ZenonT(40) DEF Shown, Written, AttributeType
  <2>4. CASE s \in {"required", "unique"}
    BY <1>2, <1>3, <2>1, <2>2, <2>4, ZenonT(40) DEF Shown, Written, AttributeType, MadeByForm
  <2>5. CASE s \in {"default", "computed"}
    BY <1>2, <1>3, <2>1, <2>2, <2>5, ZenonT(40) DEF Shown, Written, AttributeType, MadeByForm
  <2>6. CASE s = "visibleWhen"
    BY <1>2, <1>3, <2>1, <2>6 DEF Shown, Written
  <2>7. CASE s = "expression"
    BY <1>2, <1>3, <2>1, <2>2, <2>7 DEF Shown, Written, MadeByForm
  <2>8. CASE s = "stored"
    BY <1>2, <1>3, <2>1, <2>2, <2>8, ZenonT(40) DEF Shown, Written, MadeByForm, AttributeType, Field!Flag, Field!Flagged
  <2>9. CASE s = "dependencies"
    BY <1>2, <1>3, <2>1, <2>2, <2>9, ZenonT(40) DEF Shown, Written, MadeByForm
  <2>10. CASE s = "multiple"
    BY <1>2, <1>3, <2>1, <2>10 DEF Shown, Written, MadeByForm, AttributeType, Field!Flag, Field!Flagged
  <2>15. CASE s = "allowed"
    BY <1>2, <1>3, <2>1, <2>15 DEF Shown, Written
  <2>11. CASE s = "relation"
    BY <1>2, <1>3, <2>1, <2>11 DEF Shown, Written
  <2>12. CASE s = "target"
    BY <1>2, <1>3, <2>1, <2>12 DEF Shown, Written, AttributeType, Targets, Field!Optional
  <2>13. CASE s = "repeatable"
    BY <1>2, <1>3, <2>1, <2>13 DEF Shown, Written, MadeByForm, AttributeType, Field!Flag, Field!Flagged
  <2>14. CASE s = "components"
    BY <1>2, <1>3, <2>1, <2>14 DEF Shown, Written
  <2> QED
    BY <2>3, <2>4, <2>5, <2>6, <2>7, <2>8, <2>9, <2>10, <2>11, <2>12, <2>13, <2>14, <2>15 DEF Field!Settings
<1> QED
  BY <1>6, <1>7

\* Every step keeps the form and its attribute together.
LEMMA FormStep ==
    ASSUME FormInv, [Field!Next]_forms
    PROVE  /\ FormInv'
           /\ field' # field => \A s \in Field!Settings \ Field!FollowingFrom(touched) : field'[s] = field[s]
<1>1. CASE UNCHANGED forms
  BY <1>1 DEF forms, FormInv, Shown, Field!SupportsComputed
<1>2. CASE Field!Open
  BY <1>2, OpenShown DEF Field!Open
<1>3. CASE Field!TouchCommon \/ Field!TouchCondition \/ Field!TouchComputed \/ Field!TouchFamily
  <2>1. field' = field
    BY <1>3 DEF Field!TouchCommon, Field!TouchCondition, Field!TouchComputed, Field!TouchFamily, Field!Touch
  <2> QED
    BY <1>3, <2>1, TouchesShown
<1>4. CASE Field!Finish
  BY <1>4, FinishKeeps
<1>5. CASE Field!Cancel
  BY <1>5 DEF Field!Cancel, FormInv
<1> QED
  BY <1>1, <1>2, <1>3, <1>4, <1>5 DEF Field!Next

\* A form changes the settings that were changed in it and what follows from them, and no other: what the
\* form can make goes through it and comes out the same (content_type_builder.rs, FieldConfigModal).  Not
\* a field with several allowed media types, which only an import makes.
THEOREM UntouchedStay ==
    ASSUME ~Imported
    PROVE  ScreensSpec => UntouchedKept
<1>1. ScreensInit => FormInv
  BY FieldsMadeByForm DEF ScreensInit, Field!Init, FormInv
<1>2. FormInv /\ [Field!Next]_forms => FormInv'
  BY FormStep
<1>3. FormInv /\ [Field!Next]_forms =>
        [field' # field => \A s \in Field!Settings \ Field!FollowingFrom(touched) : field'[s] = field[s]]_(Field!vars)
  BY FormStep DEF forms, Field!vars
<1>4. [ScreensNext]_<<at, screens>> => [Field!Next]_forms
  BY DEF ScreensNext, screens
<1> QED
  BY <1>1, <1>2, <1>3, <1>4, PTL DEF ScreensSpec, UntouchedKept, Field!UntouchedKept

-----------------------------------------------------------------------------
(* The list.                                                               *)

\* The library of the list means the same by Cardinality.
LEMMA ListCardinality == \A S : List!Cardinality(S) = Cardinality(S)
  BY DEF List!Cardinality, Cardinality, List!IsFiniteSet, IsFiniteSet


\* A page up to the last one has entries on it, where there are entries at all.
LEMMA PageNotEmpty ==
    ASSUME NEW S \in SUBSET (1 .. MaxEntries), MaxEntries \in Nat, S # {},
           NEW p \in Nat \ {0}, NEW s \in Nat \ {0}, p <= List!Pages(List!Cardinality(S), s)
    PROVE  List!OnPage(S, p, s) # {}
<1> DEFINE n == Cardinality(S)
<1>1. IsFiniteSet(S) /\ n \in Nat /\ n > 0
  <2>1. IsFiniteSet(1 .. MaxEntries)
    BY FS_Interval
  <2>2. IsFiniteSet(S)
    BY <2>1, FS_Subset
  <2>3. n \in Nat
    BY <2>2, FS_CardinalityType
  <2>4. n # 0
    BY <2>2, FS_EmptySet
  <2> QED
    BY <2>2, <2>3, <2>4
<1> HIDE DEF n
<1>2. (p - 1) * s \in 0 .. n - 1
  <2>1. p <= (n + s - 1) \div s
    <3>1. n + s - 1 >= s /\ n + s - 1 \in Nat
      BY <1>1
    <3>2. (n + s - 1) \div s >= 1
      BY <3>1
    <3> QED
      BY <3>2, ListCardinality DEF List!Pages, List!Max, n
  <2>2. s * ((n + s - 1) \div s) <= n + s - 1
    <3>1. n + s - 1 \in Nat
      BY <1>1
    <3> HIDE DEF n
    <3> QED
      BY <3>1
  <2>3. s * p <= n + s - 1
    BY <1>1, <2>1, <2>2
  <2>4. (p - 1) * s = s * p - s /\ (p - 1) * s >= 0
    OBVIOUS
  <2> QED
    BY <1>1, <2>3, <2>4
<1>3. PICK e \in S : Cardinality({d \in S : d < e}) = (p - 1) * s
  <2>1. PICK Before : Before = [e \in S |-> {d \in S : d < e}]
    OBVIOUS
  <2>2. Before \in [S -> SUBSET S] /\ \A e \in S : Before[e] = {d \in S : d < e}
    BY <2>1
  <2>3. \A d \in S : d \notin Before[d]
    BY <2>2
  <2>4. \A d, e \in S : d # e => d \in Before[e] \/ e \in Before[d]
    BY <2>2
  <2>5. \A d, e \in S : d \in Before[e] => Before[d] \subseteq Before[e]
    <3> SUFFICES ASSUME NEW d \in S, NEW e \in S, d \in Before[e], NEW c \in Before[d]
                 PROVE  c \in Before[e]
      OBVIOUS
    <3>1. c \in S /\ c < d /\ d < e
      BY <2>2
    <3>2. c < e
      BY <3>1
    <3> QED
      BY <2>2, <3>1, <3>2
  <2>6. Ordered(S, Before)
    BY <1>1, <2>2, <2>3, <2>4, <2>5 DEF Ordered
  <2>7. PICK k : k = (p - 1) * s
    OBVIOUS
  <2>8. k \in 0 .. Cardinality(S) - 1
    BY <1>2, <2>7 DEF n
  <2>9. \E e \in S : Cardinality(Before[e]) = k
    BY <2>6, <2>8, ByRank
  <2> QED
    BY <2>2, <2>7, <2>9
<1>5. List!Cardinality({d \in S : d < e}) \div s = p - 1
  <2>1. ((p - 1) * s) \div s = p - 1
    OBVIOUS
  <2> QED
    BY <1>3, <2>1, ListCardinality
<1> QED
  BY <1>5 DEF List!OnPage
LoadType == [page : Nat \ {0}, size : Sizes, step : {"sent", "rows", "answered"}, ok : BOOLEAN,
             rows : SUBSET (1 .. MaxEntries), total : Nat, grown : BOOLEAN]

\* The page of a load is beyond the last one of the entries of S, and of what may be left of them.
Emptied(load_, S) ==
    \A T \in SUBSET S : T # {} => load_.page > List!Pages(List!Cardinality(T), load_.size)

\* Where the page of a load was found empty and no entry came since: before the count the page stays
\* beyond the last; after it the load is from beyond the last page, or there are no entries.
AnswerInv(load_, S) ==
    load_.rows = {} /\ ~load_.grown =>
        /\ load_.step = "rows" => Emptied(load_, S)
        /\ load_.step = "answered" /\ ~List!Beyond(load_) => load_.total = 0

\* The page is there, or the load to come will tell: the one asked for, or the last of those sent.
PageInv ==
    ~strayed => \/ wanted \/ page = 1
                \/ flight = <<>> /\ page <= List!Pages(total, size)
                \/ /\ flight # <<>>
                   /\ flight[Len(flight)].page = page /\ flight[Len(flight)].size = size

ListTyped ==
    /\ stock \subseteq 1 .. MaxEntries
    /\ page \in Nat \ {0} /\ size \in Sizes /\ total \in Nat
    /\ flight \in Seq(LoadType) /\ strayed \in BOOLEAN /\ torn \in BOOLEAN /\ wanted \in BOOLEAN

ListInv ==
    /\ ListTyped
    /\ \A k \in DOMAIN flight : AnswerInv(flight[k], stock)
    /\ ~torn => (listed = {} => total = 0)
    /\ PageInv

\* A list has a first page.
LEMMA PagesPositive ==
    ASSUME NEW n \in Nat, NEW s \in Nat \ {0}
    PROVE  List!Pages(n, s) \in Nat \ {0}
<1>1. n + s - 1 \in Nat
  OBVIOUS
<1>2. (n + s - 1) \div s \in Nat
  BY <1>1
<1> QED
  BY <1>2 DEF List!Pages, List!Max

\* Of fewer entries there are no more pages.
LEMMA PagesGrow ==
    ASSUME NEW m \in Nat, NEW n \in Nat, m <= n, NEW s \in Nat \ {0}
    PROVE  List!Pages(m, s) <= List!Pages(n, s)
<1> DEFINE x == m + s - 1
           y == n + s - 1
<1>1. x \in Nat /\ y \in Nat /\ x <= y
  OBVIOUS
<1> HIDE DEF x, y
<1> DEFINE q == x \div s
           r == y \div s
<1>2. q \in Nat /\ r \in Nat /\ s * q <= x /\ y < s * r + s
  BY <1>1
<1> HIDE DEF q, r
<1>3. q <= r
  <2> SUFFICES ASSUME q >= r + 1 PROVE FALSE
    BY <1>2
  <2>1. s * q >= s * (r + 1)
    BY <1>2
  <2>2. s * (r + 1) = s * r + s
    BY <1>2
  <2> QED
    BY <1>1, <1>2, <2>1, <2>2
<1> QED
  BY <1>2, <1>3 DEF List!Pages, List!Max, q, r, x, y

\* The entries can be counted.
LEMMA StockCount ==
    ASSUME MaxEntries \in Nat, NEW S \in SUBSET (1 .. MaxEntries)
    PROVE  /\ List!Cardinality(S) \in Nat /\ (S # {} => List!Cardinality(S) # 0)
           /\ S = {} => List!Cardinality(S) = 0
           /\ \A T \in SUBSET S : List!Cardinality(T) <= List!Cardinality(S)
<1>1. IsFiniteSet(S)
  <2>1. IsFiniteSet(1 .. MaxEntries)
    BY FS_Interval
  <2> QED
    BY <2>1, FS_Subset
<1> QED
  BY <1>1, ListCardinality, FS_CardinalityType, FS_EmptySet, FS_Subset

\* A page read empty is beyond the last page, and stays there while entries are only taken away.
LEMMA EmptyIsBeyond ==
    ASSUME MaxEntries \in Nat, NEW S \in SUBSET (1 .. MaxEntries), Sizes \subseteq Nat \ {0},
           NEW load_ \in LoadType, List!OnPage(S, load_.page, load_.size) = {}
    PROVE  Emptied(load_, S)
<1> SUFFICES ASSUME NEW T \in SUBSET S, T # {}, ~(load_.page > List!Pages(List!Cardinality(T), load_.size))
             PROVE  FALSE
  BY DEF Emptied
<1>1. load_.page \in Nat \ {0} /\ load_.size \in Nat \ {0}
  BY DEF LoadType
<1>2. List!Cardinality(T) \in Nat /\ List!Cardinality(S) \in Nat /\ List!Cardinality(T) <= List!Cardinality(S)
  BY StockCount
<1>3. /\ List!Pages(List!Cardinality(T), load_.size) \in Nat
      /\ List!Pages(List!Cardinality(S), load_.size) \in Nat
      /\ List!Pages(List!Cardinality(T), load_.size) <= List!Pages(List!Cardinality(S), load_.size)
  BY <1>1, <1>2, PagesPositive, PagesGrow
<1>4. load_.page <= List!Pages(List!Cardinality(S), load_.size)
  BY <1>1, <1>3
<1>5. S # {}
  OBVIOUS
<1> QED
  BY <1>1, <1>4, <1>5, PageNotEmpty

\* The loads keep what they are for, and the page with them, when one is replaced that is for the same.
LEMMA LoadReplaced ==
    ASSUME ListInv, NEW k \in DOMAIN flight, NEW new \in LoadType,
           new.page = flight[k].page, new.size = flight[k].size, AnswerInv(new, stock),
           flight' = [flight EXCEPT ![k] = new],
           UNCHANGED <<stock, page, size, total, listed, wanted, torn, strayed>>
    PROVE  ListInv'
<1> USE DEF ListInv, ListTyped
<1>1. flight' \in Seq(LoadType) /\ Len(flight') = Len(flight) /\ DOMAIN flight' = DOMAIN flight
  OBVIOUS
<1>2. \A j \in DOMAIN flight' : AnswerInv(flight'[j], stock)
  BY <1>1
<1>3. \A j \in DOMAIN flight : flight'[j].page = flight[j].page /\ flight'[j].size = flight[j].size
  OBVIOUS
<1>4. PageInv'
  <2>1. flight # <<>> /\ flight' # <<>> /\ Len(flight) \in DOMAIN flight
    BY <1>1
  <2> QED
    BY <1>1, <1>3, <2>1 DEF PageInv
<1> QED
  BY <1>1, <1>2, <1>4

\* Each operation of the list keeps the invariant, and strands nobody.
LEMMA ListStep ==
    ASSUME List!ListAssumption, ListInv, [List!Next]_lists
    PROVE  ListInv'
<1>0. Sizes \subseteq Nat \ {0} /\ MaxEntries \in Nat
  BY DEF List!ListAssumption
<1> USE DEF ListInv, ListTyped
<1>a. ASSUME UNCHANGED <<flight, page, size, total, listed, wanted, torn, strayed>>, stock' \subseteq stock
      PROVE  ListInv'
  <2>1. \A k \in DOMAIN flight : AnswerInv(flight[k], stock')
    BY <1>a DEF AnswerInv, Emptied
  <2>2. PageInv'
    BY <1>a DEF PageInv
  <2> QED
    BY <1>a, <2>1, <2>2
<1>1. CASE UNCHANGED lists
  BY <1>1, <1>a DEF lists
<1>2. CASE List!Send
  <2> DEFINE new == List!Load(page, size)
  <2>1. new \in LoadType /\ AnswerInv(new, stock) /\ new.page = page /\ new.size = size
    BY DEF List!Load, LoadType, AnswerInv
  <2> HIDE DEF new
  <2>2. flight' = Append(flight, new) /\ UNCHANGED <<stock, page, size, total, listed, torn, strayed>> /\ wanted' = FALSE
    BY <1>2 DEF List!Send, new
  <2>3. flight' \in Seq(LoadType) /\ \A k \in DOMAIN flight' : AnswerInv(flight'[k], stock)
    BY <2>1, <2>2
  <2>4. PageInv'
    <3>1. flight' # <<>> /\ flight'[Len(flight')] = new
      BY <2>1, <2>2
    <3> QED
      BY <2>1, <2>2, <3>1 DEF PageInv
  <2> QED
    BY <2>2, <2>3, <2>4
<1>3. ASSUME NEW k \in DOMAIN flight, List!ReadRows(k) PROVE ListInv'
  <2> DEFINE rows_ == List!OnPage(stock, flight[k].page, flight[k].size)
             new == [flight[k] EXCEPT !.step = "rows", !.rows = rows_]
  <2>1. flight[k] \in LoadType
    OBVIOUS
  <2>2. rows_ \in SUBSET (1 .. MaxEntries)
    BY DEF List!OnPage
  <2>3. rows_ = {} => Emptied(flight[k], stock)
    BY <1>0, <2>1, EmptyIsBeyond
  <2>4. flight' = [flight EXCEPT ![k] = new]
    BY <1>3, <2>1 DEF List!ReadRows, LoadType
  <2> HIDE DEF rows_
  <2>5. /\ new \in LoadType /\ new.page = flight[k].page /\ new.size = flight[k].size
        /\ new.rows = rows_ /\ new.step = "rows"
    BY <2>1, <2>2 DEF LoadType
  <2> HIDE DEF new
  <2>6. AnswerInv(new, stock)
    BY <2>3, <2>5 DEF AnswerInv, Emptied
  <2>7. UNCHANGED <<stock, page, size, total, listed, wanted, torn, strayed>>
    BY <1>3 DEF List!ReadRows
  <2> QED
    BY <2>4, <2>5, <2>6, <2>7, LoadReplaced
<1>4. ASSUME NEW k \in DOMAIN flight, List!Count(k) PROVE ListInv'
  <2>1. PICK ok \in BOOLEAN :
           flight' = [flight EXCEPT ![k].step = "answered", ![k].ok = ok, ![k].total = List!Cardinality(stock)]
    BY <1>4 DEF List!Count
  <2> DEFINE n == List!Cardinality(stock)
             new == [flight[k] EXCEPT !.step = "answered", !.ok = ok, !.total = n]
  <2>2. flight[k] \in LoadType /\ flight[k].step = "rows" /\ AnswerInv(flight[k], stock)
    BY <1>4 DEF List!Count
  <2>3. n \in Nat /\ (stock = {} => n = 0)
    BY <1>0, StockCount
  <2>4. flight' = [flight EXCEPT ![k] = new]
    BY <2>1, <2>2 DEF LoadType
  <2>5. Emptied(flight[k], stock) /\ stock # {} => flight[k].page > List!Pages(n, flight[k].size)
    BY DEF Emptied
  <2> HIDE DEF n
  <2>6. /\ new \in LoadType /\ new.page = flight[k].page /\ new.size = flight[k].size
        /\ new.rows = flight[k].rows /\ new.grown = flight[k].grown /\ new.step = "answered" /\ new.total = n
    BY <2>2, <2>3 DEF LoadType
  <2> HIDE DEF new
  <2>7. AnswerInv(new, stock)
    BY <2>2, <2>3, <2>5, <2>6 DEF AnswerInv, List!Beyond
  <2>8. UNCHANGED <<stock, page, size, total, listed, wanted, torn, strayed>>
    BY <1>4 DEF List!Count
  <2> QED
    BY <2>4, <2>6, <2>7, <2>8, LoadReplaced
<1>5. ASSUME NEW k \in DOMAIN flight, List!Show(k) PROVE ListInv'
  <2> DEFINE load_ == flight[k]
             n == Len(flight)
  <2>1. load_ \in LoadType /\ load_.step = "answered" /\ AnswerInv(load_, stock)
    BY <1>5 DEF List!Show
  <2>2. /\ flight' = [j \in 1..(n - 1) |-> IF j < k THEN flight[j] ELSE flight[j + 1]]
        /\ UNCHANGED <<stock, size>>
    BY <1>5 DEF List!Show
  <2>3. n \in Nat \ {0} /\ k \in 1 .. n /\ n - 1 \in Nat
    OBVIOUS
  <2>4. flight' \in Seq(LoadType) /\ \A j \in DOMAIN flight' : AnswerInv(flight'[j], stock)
    <3>2. \A j \in 1 .. (n - 1) : flight'[j] \in LoadType /\ AnswerInv(flight'[j], stock)
      BY <2>2, <2>3
    <3> QED
      BY <2>2, <2>3, <3>2
  <2>5. k # n => flight' # <<>> /\ flight'[Len(flight')] = flight[n]
    <3>1. Len(flight') = n - 1
      BY <2>2, <2>3
    <3> QED
      BY <2>2, <2>3, <3>1
  <2>6. List!Pages(load_.total, load_.size) \in Nat \ {0}
    BY <1>0, <2>1, PagesPositive DEF LoadType
  <2>7. CASE ~load_.ok /\ strayed' = (strayed \/ k = n) /\ UNCHANGED <<page, total, listed, wanted, torn>>
    <3>1. PageInv'
      <4>1. CASE k # n
        BY <2>2, <2>3, <2>5, <2>7, <4>1 DEF PageInv
      <4>2. CASE k = n
        BY <2>7, <4>2 DEF PageInv
      <4> QED
        BY <4>1, <4>2
    <3> QED
      BY <2>2, <2>4, <2>7, <3>1
  <2>8. CASE /\ page' = List!Pages(load_.total, load_.size) /\ wanted' = TRUE /\ strayed' = FALSE
             /\ UNCHANGED <<total, listed, torn>>
    <3>1. PageInv'
      BY <2>8 DEF PageInv
    <3> QED
      BY <2>2, <2>4, <2>6, <2>8, <3>1
  <2>9. CASE /\ ~List!Beyond(load_) /\ total' = load_.total /\ listed' = load_.rows
             /\ torn' = load_.grown /\ strayed' = (strayed \/ (k = n /\ k # 1)) /\ UNCHANGED <<page, wanted>>
    <3>1. ~torn' => (listed' = {} => total' = 0)
      BY <2>1, <2>9 DEF AnswerInv
    <3>2. total' \in Nat /\ torn' \in BOOLEAN /\ strayed' \in BOOLEAN
      BY <2>1, <2>9 DEF LoadType
    <3>3. load_.page <= List!Pages(load_.total, load_.size)
      BY <2>1, <2>6, <2>9 DEF List!Beyond, LoadType
    <3>4. PageInv'
      <4>1. CASE k # n
        BY <2>2, <2>3, <2>5, <2>9, <4>1 DEF PageInv
      <4>2. CASE k = n /\ n = 1
        <5>1. flight' = <<>>
          BY <2>2, <2>4, <4>2
        <5> QED
          BY <2>2, <2>9, <3>3, <4>2, <5>1 DEF PageInv
      <4>3. CASE k = n /\ n # 1
        BY <2>9, <4>3 DEF PageInv
      <4> QED
        BY <4>1, <4>2, <4>3
    <3> QED
      BY <2>2, <2>4, <2>9, <3>1, <3>2, <3>4
  <2> QED
    BY <1>5, <2>7, <2>8, <2>9 DEF List!Show
<1>6. ASSUME UNCHANGED <<stock, flight, total, listed, torn>>, strayed' \in BOOLEAN, wanted' \in BOOLEAN,
             page' \in Nat \ {0}, size' \in Sizes, PageInv'
      PROVE  ListInv'
  BY <1>6
<1>7. ASSUME NEW p \in 1 .. MaxEntries, List!Turn(p) PROVE ListInv'
  <2>1. /\ UNCHANGED <<stock, flight, total, listed, torn, size>> /\ page' = p
        /\ wanted' = TRUE /\ strayed' = FALSE
    BY <1>7 DEF List!Turn
  <2>2. page' \in Nat \ {0}
    BY <1>0, <2>1
  <2> QED
    BY <1>6, <2>1, <2>2 DEF PageInv
<1>8. ASSUME NEW s \in Sizes, List!Resize(s) \/ List!SelectView(s) \/ List!ViewsArrive(s) PROVE ListInv'
  <2>1. /\ UNCHANGED <<stock, flight, total, listed, torn>> /\ size' = s /\ page' \in {page, 1}
        /\ \/ wanted' = TRUE /\ strayed' = FALSE
           \/ wanted' = wanted /\ strayed' = TRUE
    BY <1>8 DEF List!Resize, List!SelectView, List!ViewsArrive
  <2>2. page' \in Nat \ {0}
    BY <2>1
  <2>3. wanted' \in BOOLEAN
    BY <2>1
  <2>4. strayed' \in BOOLEAN
    BY <2>1
  <2>5. PageInv'
    BY <2>1 DEF PageInv
  <2> QED
    BY <1>6, <2>1, <2>2, <2>3, <2>4, <2>5
<1>9. CASE List!Arrange
  <2>1. UNCHANGED <<stock, flight, total, listed, torn, size, wanted, strayed>> /\ page' = 1
    BY <1>9 DEF List!Arrange
  <2> QED
    BY <1>6, <2>1 DEF PageInv
<1>10. ASSUME NEW e \in 1 .. MaxEntries, List!Tick(e) \/ List!DeleteOne(e) PROVE ListInv'
  <2>1. /\ UNCHANGED <<stock, flight, total, listed, torn, size, page>>
        /\ \/ UNCHANGED <<wanted, strayed>>
           \/ wanted' = TRUE /\ strayed' = FALSE
    BY <1>10 DEF List!Tick, List!DeleteOne
  <2> QED
    BY <1>6, <2>1 DEF PageInv
<1>11. ASSUME NEW e \in 1 .. MaxEntries, List!Elsewhere(e) PROVE ListInv'
  <2>0. UNCHANGED <<page, size, total, listed, wanted, torn, strayed>>
    BY <1>11 DEF List!Elsewhere
  <2>1. CASE stock' = stock \ {e} /\ UNCHANGED flight
    BY <1>a, <2>0, <2>1
  <2>2. CASE /\ stock' = stock \cup {e}
             /\ flight' = [k \in DOMAIN flight |-> [flight[k] EXCEPT !.grown = @ \/ flight[k].step = "rows"]]
    <3>1. DOMAIN flight' = DOMAIN flight /\ Len(flight') = Len(flight) /\ flight' \in Seq(LoadType)
      <4>1. ASSUME NEW k \in DOMAIN flight PROVE flight'[k] \in LoadType
        <5> DEFINE g == flight[k].grown \/ flight[k].step = "rows"
        <5>1. g \in BOOLEAN /\ flight[k] \in LoadType /\ flight'[k] = [flight[k] EXCEPT !.grown = g]
          BY <2>2
        <5> HIDE DEF g
        <5> QED
          BY <5>1 DEF LoadType
      <4> QED
        BY <2>2, <4>1
    <3>2. \A k \in DOMAIN flight :
             /\ flight'[k].page = flight[k].page /\ flight'[k].size = flight[k].size
             /\ flight'[k].rows = flight[k].rows /\ flight'[k].step = flight[k].step
             /\ flight'[k].total = flight[k].total
             /\ flight'[k].grown = (flight[k].grown \/ flight[k].step = "rows")
      <4> SUFFICES ASSUME NEW k \in DOMAIN flight
                   PROVE  /\ flight'[k].page = flight[k].page /\ flight'[k].size = flight[k].size
                          /\ flight'[k].rows = flight[k].rows /\ flight'[k].step = flight[k].step
                          /\ flight'[k].total = flight[k].total
                          /\ flight'[k].grown = (flight[k].grown \/ flight[k].step = "rows")
        OBVIOUS
      <4> DEFINE g == flight[k].grown \/ flight[k].step = "rows"
      <4>1. flight[k] \in LoadType /\ flight'[k] = [flight[k] EXCEPT !.grown = g]
        BY <2>2
      <4> HIDE DEF g
      <4>2. /\ flight'[k].page = flight[k].page /\ flight'[k].size = flight[k].size
            /\ flight'[k].rows = flight[k].rows /\ flight'[k].step = flight[k].step
            /\ flight'[k].total = flight[k].total /\ flight'[k].grown = g
        BY <4>1 DEF LoadType
      <4> QED
        BY <4>2 DEF g
    <3>3. \A k \in DOMAIN flight' : AnswerInv(flight'[k], stock')
      BY <3>1, <3>2 DEF AnswerInv, List!Beyond
    <3>4. PageInv'
      <4>1. flight # <<>> => flight' # <<>> /\ Len(flight) \in DOMAIN flight
        BY <3>1
      <4>2. flight = <<>> => flight' = <<>>
        BY <3>1
      <4> QED
        BY <2>0, <3>1, <3>2, <4>1, <4>2 DEF PageInv
    <3> QED
      BY <2>0, <2>2, <3>1, <3>3, <3>4
  <2> QED
    BY <1>11, <2>1, <2>2 DEF List!Elsewhere
<1>12. CASE List!BulkDelete \/ List!BulkDone
  <2>1. /\ UNCHANGED <<stock, flight, total, listed, torn, size, page>>
        /\ \/ UNCHANGED <<wanted, strayed>>
           \/ wanted' = TRUE /\ strayed' = FALSE
    BY <1>12 DEF List!BulkDelete, List!BulkDone
  <2> QED
    BY <1>6, <2>1 DEF PageInv
<1>13. CASE List!Delete
  BY <1>13, <1>a DEF List!Delete
<1> QED
  BY <1>1, <1>2, <1>3, <1>4, <1>5, <1>7, <1>8, <1>9, <1>10, <1>11, <1>12, <1>13 DEF List!Next

\* A list that is at rest does not look empty when there are entries, and is not on a page beyond its
\* last, whatever was deleted while it loaded and whatever the user changed meanwhile, but for torn
\* loads and answers that failed or came out of order (content_manager.rs, the load of
\* ContentManagerEntries; dml.rs, select): a page found empty lies beyond the last and stays there
\* while nothing is added, and the last load sent is for the page and the size of the screen.
THEOREM ListsFilled == ScreensSpec => []NeverStranded
<1>1. ScreensInit => ListInv
  <2>1. List!Init => ListTyped
    <3>1. List!Init => stock \subseteq 1 .. MaxEntries /\ page \in Nat \ {0} /\ size \in Sizes /\ total \in Nat
      BY DEF List!Init
    <3>2. List!Init => strayed \in BOOLEAN /\ torn \in BOOLEAN /\ wanted \in BOOLEAN
      BY DEF List!Init
    <3>3. List!Init => flight \in Seq(LoadType)
      BY DEF List!Init
    <3> QED
      BY <3>1, <3>2, <3>3 DEF ListTyped
  <2>2. List!Init => \A k \in DOMAIN flight : AnswerInv(flight[k], stock)
    BY DEF List!Init
  <2>3. List!Init => PageInv /\ (~torn => (listed = {} => total = 0))
    BY DEF List!Init, PageInv
  <2> QED
    BY <2>1, <2>2, <2>3 DEF ScreensInit, ListInv
<1>2. ListInv /\ [List!Next]_lists => ListInv'
  BY ScreensAssumption, ListStep
<1>3. [ScreensNext]_<<at, screens>> => [List!Next]_lists
  BY DEF ScreensNext, screens
<1>4. ListInv => NeverStranded
  <2> SUFFICES ASSUME ListInv, List!Quiet, ~strayed PROVE page <= List!Pages(total, size)
    BY DEF ListInv, NeverStranded, List!NeverStranded
  <2>1. size \in Nat \ {0} /\ total \in Nat
    BY ScreensAssumption DEF List!ListAssumption, ListInv, ListTyped
  <2>2. List!Pages(total, size) \in Nat \ {0}
    BY <2>1, PagesPositive
  <2> QED
    BY <2>2 DEF List!Quiet, ListInv, PageInv
<1> QED
  BY <1>1, <1>2, <1>3, <1>4, PTL DEF ScreensSpec

-----------------------------------------------------------------------------
(* The import wizard.                                                     *)

(* The wizard.                                                             *)

\* The library of the wizard means the same by Cardinality.
LEMMA WizardCardinality == \A S : Wizard!Cardinality(S) = Cardinality(S)
  BY DEF Wizard!Cardinality, Cardinality, Wizard!IsFiniteSet, IsFiniteSet

\* There is a list of files: those of a selection, or none.
Listed(list) == list \in Selections \cup {<<>>}

\* What is listed of the files, by place and name.
LEMMA ListedIs ==
    ASSUME Wizard!WizardAssumption, NEW list, Listed(list)
    PROVE  Wizard!OfOneDirectory(list)
<1>1. CASE list \in Selections
  BY <1>1 DEF Wizard!WizardAssumption
<1>2. CASE list = <<>>
  BY <1>2 DEF Wizard!OfOneDirectory, Wizard!IsSequence
<1> QED
  BY <1>1, <1>2 DEF Listed

\* The places of a list of files are finitely many.
LEMMA PlacesFinite ==
    ASSUME NEW list, Wizard!OfOneDirectory(list)
    PROVE  IsFiniteSet(Wizard!Places(list))
<1> DEFINE In(f) == {f} \X (1 .. Len(DatasetsOf(list[f].text)))
           in == [f \in 1 .. Len(list) |-> In(f)]
           all == {in[f] : f \in 1 .. Len(list)}
<1>1. Wizard!Places(list) = UNION all
  BY DEF Wizard!Places
<1>2. Len(list) \in Nat /\ IsFiniteSet(1 .. Len(list))
  BY FS_Interval DEF Wizard!OfOneDirectory, Wizard!IsSequence
<1>3. IsFiniteSet(all)
  <2>1. in \in Surjection(1 .. Len(list), all)
    BY DEF Surjection
  <2> HIDE DEF in, all
  <2> QED
    BY <1>2, <2>1, FS_Surjection
<1>4. ASSUME NEW f \in 1 .. Len(list) PROVE IsFiniteSet(in[f])
  <2> DEFINE k == Len(DatasetsOf(list[f].text))
  <2>1. k \in Nat /\ in[f] = {f} \X (1 .. k)
    BY DEF Wizard!OfOneDirectory, Wizard!IsSequence
  <2> HIDE DEF k, in
  <2>2. IsFiniteSet(1 .. k) /\ IsFiniteSet({f})
    <3>1. IsFiniteSet(1 .. k)
      BY <2>1, FS_Interval
    <3>2. IsFiniteSet({f})
      BY FS_Singleton
    <3> QED
      BY <3>1, <3>2
  <2>3. IsFiniteSet({f} \X (1 .. k))
    BY <2>2, FS_Product
  <2> QED
    BY <2>1, <2>3
<1> HIDE DEF all
<1>5. \A T \in all : IsFiniteSet(T)
  BY <1>4 DEF all
<1> QED
  BY <1>1, <1>3, <1>5, FS_UNION

\* What the server answers is a sequence of datasets, each in one of the files.
LEMMA AnalysisIs ==
    ASSUME NEW list, Wizard!OfOneDirectory(list), NEW h
    PROVE  LET answer == Wizard!Analysis(list, h)
           IN  /\ Len(answer) \in Nat /\ DOMAIN answer = 1 .. Len(answer)
               /\ \A n \in 1 .. Len(answer) : \E p \in Wizard!Places(list) : answer[n] = Wizard!Dataset(list, h, p)
<1> DEFINE places == Wizard!Places(list)
           earlier == [p \in places |-> Wizard!Earlier(list, p)]
           N == Cardinality(places)
<1>0. \A p \in places : p = <<p[1], p[2]>> /\ p[1] \in Nat /\ p[2] \in Nat
  <2>1. \A f \in 1 .. Len(list) : Len(list) \in Nat /\ Len(DatasetsOf(list[f].text)) \in Nat
    BY DEF Wizard!OfOneDirectory, Wizard!IsSequence
  <2> QED
    BY <2>1 DEF Wizard!Places
<1> HIDE DEF places
<1>1. IsFiniteSet(places) /\ N \in Nat
  BY PlacesFinite, FS_CardinalityType DEF places
<1>2. \A p \in places : earlier[p] = {q \in places : q[1] < p[1] \/ (q[1] = p[1] /\ q[2] < p[2])}
  BY DEF places, Wizard!Earlier
<1>3. earlier \in [places -> SUBSET places]
  BY DEF places, Wizard!Earlier
<1> HIDE DEF earlier
<1>4. Ordered(places, earlier)
  <2>1. \A p \in places : p \notin earlier[p]
    BY <1>0, <1>2
  <2>2. ASSUME NEW p \in places, NEW q \in places, p # q PROVE p \in earlier[q] \/ q \in earlier[p]
    <3>1. p[1] # q[1] \/ p[2] # q[2]
      BY <1>0, <2>2
    <3>2. p[1] < q[1] \/ q[1] < p[1] \/ (p[1] = q[1] /\ (p[2] < q[2] \/ q[2] < p[2]))
      BY <1>0, <3>1
    <3> QED
      BY <1>2, <3>2
  <2>3. ASSUME NEW p \in places, NEW q \in places, p \in earlier[q], NEW r \in earlier[p] PROVE r \in earlier[q]
    <3>1. r \in places
      BY <1>3
    <3>2. /\ r[1] < p[1] \/ (r[1] = p[1] /\ r[2] < p[2])
          /\ p[1] < q[1] \/ (p[1] = q[1] /\ p[2] < q[2])
      BY <1>2, <2>3
    <3>3. /\ p[1] \in Nat /\ p[2] \in Nat /\ q[1] \in Nat /\ q[2] \in Nat
          /\ r[1] \in Nat /\ r[2] \in Nat
      BY <1>0, <3>1
    <3>4. r[1] < q[1] \/ (r[1] = q[1] /\ r[2] < q[2])
      BY <3>2, <3>3
    <3> QED
      BY <1>2, <3>1, <3>4
  <2> QED
    BY <1>1, <1>3, <2>1, <2>2, <2>3 DEF Ordered
<1>5. ASSUME NEW n \in 1 .. N
      PROVE  \E p \in places : Cardinality(earlier[p]) = n - 1
  <2>1. n - 1 \in 0 .. N - 1
    BY <1>1
  <2> QED
    BY <1>4, <2>1, ByRank
<1> DEFINE nth(n) == CHOOSE p \in places : Wizard!Cardinality(Wizard!Earlier(list, p)) = n - 1
<1>6. ASSUME NEW n \in 1 .. N PROVE nth(n) \in places
  <2>1. \E p \in places : Wizard!Cardinality(Wizard!Earlier(list, p)) = n - 1
    BY <1>5, WizardCardinality DEF earlier
  <2> QED
    BY <2>1
<1>7. Wizard!Analysis(list, h) = [n \in 1 .. N |-> Wizard!Dataset(list, h, nth(n))]
  BY WizardCardinality DEF Wizard!Analysis, places
<1> HIDE DEF nth, N
<1>8. Len(Wizard!Analysis(list, h)) = N /\ DOMAIN Wizard!Analysis(list, h) = 1 .. N
  BY <1>1, <1>7
<1> QED
  BY <1>1, <1>6, <1>7, <1>8 DEF places

-----------------------------------------------------------------------------

CallsOf(F) ==
    {Wizard!Idle} \cup [does : {"read"}, files : Selections] \cup [does : {"analyze"}, files : F, header : BOOLEAN]
        \cup {[does |-> "import"]}

\* A mapping tells whether it was edited.
Marked(m) == "edited" \in DOMAIN m

\* A call that analyses has the files and the settings of the wizard.
CallsInv ==
    /\ Listed(files) /\ header \in BOOLEAN /\ mixed \in BOOLEAN
    /\ calls \in [1 .. MaxCalls -> CallsOf(Selections \cup {<<>>})]
    /\ ~mixed => \A i \in 1 .. MaxCalls :
           calls[i].does = "analyze" => calls[i].files = files /\ calls[i].header = header

\* While there are datasets to map, no file is being read, and they are what the files are analysed into.
DatasetsInv ==
    stage = 2 =>
        /\ \A i \in 1 .. MaxCalls : calls[i].does # "read"
        /\ Len(datasets) \in Nat
        /\ ~mixed => datasets = Wizard!Analysis(files, header)

\* A mapping that was not edited is made from the fields of its dataset.
MappingsInv ==
    /\ \A p \in kept \cup offered : Marked(p.mapping)
    /\ stage = 2 =>
           /\ DOMAIN targets = 1 .. Len(datasets) /\ DOMAIN mappings = 1 .. Len(datasets)
           /\ \A d \in 1 .. Len(datasets) :
                  /\ Marked(mappings[d])
                  /\ mappings[d].edited \/ mappings[d] = Wizard!Mapping(datasets[d].fields, targets[d])

WizardInv == stage \in {1, 2, 3} /\ CallsInv /\ DatasetsInv /\ MappingsInv

\* The wizard begins with no file and no call.
LEMMA WizardInit == ASSUME Wizard!WizardAssumption, Wizard!Init PROVE WizardInv
<1>1. calls = [i \in 1 .. MaxCalls |-> Wizard!Idle] /\ stage = 1 /\ files = <<>> /\ header = TRUE /\ mixed = FALSE
  BY DEF Wizard!Init
<1>2. CallsInv
  BY <1>1 DEF CallsInv, CallsOf, Listed, Wizard!Idle
<1>3. kept = {} /\ offered = {}
  BY DEF Wizard!Init
<1> QED
  BY <1>1, <1>2, <1>3 DEF WizardInv, DatasetsInv, MappingsInv

\* A call that begins is one of the calls from then on, and the others stay.
LEMMA CallBegins ==
    ASSUME WizardInv, NEW c, Wizard!Call(c), c \in CallsOf(Selections \cup {<<>>})
    PROVE  /\ calls' \in [1 .. MaxCalls -> CallsOf(Selections \cup {<<>>})]
           /\ \A i \in 1 .. MaxCalls : calls'[i] = calls[i] \/ calls'[i] = c
  BY DEF Wizard!Call, WizardInv, CallsInv

\* A call that ends leaves the others as they are.
LEMMA CallEnds ==
    ASSUME WizardInv, NEW i \in 1 .. MaxCalls, Wizard!Ended(i) \/ Wizard!EndedWithReads(i)
    PROVE  /\ calls' \in [1 .. MaxCalls -> CallsOf(Selections \cup {<<>>})]
           /\ \A j \in 1 .. MaxCalls : calls'[j] = calls[j] \/ calls'[j] = Wizard!Idle
<1>1. calls \in [1 .. MaxCalls -> CallsOf(Selections \cup {<<>>})]
  BY DEF WizardInv, CallsInv
<1>2. Wizard!Idle \in CallsOf(Selections \cup {<<>>})
  BY DEF CallsOf
<1>3. CASE Wizard!Ended(i)
  BY <1>1, <1>2, <1>3 DEF Wizard!Ended
<1>4. CASE Wizard!EndedWithReads(i)
  BY <1>1, <1>2, <1>4 DEF Wizard!EndedWithReads
<1> QED
  BY <1>3, <1>4

\* A step that leaves alone what is mapped.
LEMMA MappingsStay ==
    ASSUME MappingsInv, UNCHANGED <<datasets, targets, mappings, offered, kept>>, stage' = 2 => stage = 2
    PROVE  MappingsInv'
  BY DEF MappingsInv

\* With nothing new in files and settings, no new read, and the datasets as they were.
LEMMA CallsStay ==
    ASSUME WizardInv, UNCHANGED <<files, header, datasets>>, mixed' \in BOOLEAN,
           stage' = 2 => stage = 2 /\ mixed' = mixed,
           calls' \in [1 .. MaxCalls -> CallsOf(Selections \cup {<<>>})],
           \A i \in 1 .. MaxCalls : calls'[i] = calls[i] \/ calls'[i].does \notin {"read", "analyze"},
           ~mixed' => ~mixed
    PROVE  CallsInv' /\ DatasetsInv'
<1>1. CallsInv'
  BY DEF WizardInv, CallsInv, Listed
<1>2. DatasetsInv'
  BY DEF WizardInv, DatasetsInv
<1> QED
  BY <1>1, <1>2

\* Each operation of the wizard keeps the invariant.
LEMMA WizardStep ==
    ASSUME Wizard!WizardAssumption, WizardInv, [Wizard!Next]_wizard
    PROVE  WizardInv'
<1> DEFINE F == Selections \cup {<<>>}
           C == CallsOf(F)
<1>0. /\ stage \in {1, 2, 3} /\ CallsInv /\ DatasetsInv /\ MappingsInv
      /\ Wizard!Idle.does = "nothing"
  BY DEF WizardInv, Wizard!Idle
<1>1. CASE UNCHANGED wizard
  BY <1>1 DEF wizard, WizardInv, CallsInv, DatasetsInv, MappingsInv, Listed
<1>2. ASSUME NEW s \in Selections, Wizard!Choose(s) PROVE WizardInv'
  <2> DEFINE c == [does |-> "read", files |-> s]
  <2>1. c \in C /\ c.does = "read" /\ Wizard!Call(c)
    BY <1>2 DEF CallsOf, Wizard!Choose
  <2>2. /\ calls' \in [1 .. MaxCalls -> C]
        /\ \A i \in 1 .. MaxCalls : calls'[i] = calls[i] \/ calls'[i] = c
    BY <2>1, CallBegins
  <2>3. /\ stage = 1 /\ UNCHANGED <<stage, files, header, mixed, datasets, targets, mappings, offered, kept>>
    BY <1>2 DEF Wizard!Choose
  <2> HIDE DEF c, C
  <2>4. CallsInv'
    BY <1>0, <2>1, <2>2, <2>3 DEF CallsInv, Listed, C, F
  <2>5. DatasetsInv' /\ stage' \in {1, 2, 3}
    BY <2>3 DEF DatasetsInv
  <2>6. MappingsInv'
    BY <1>0, <2>3, MappingsStay
  <2> QED
    BY <2>4, <2>5, <2>6 DEF WizardInv
<1>3. ASSUME NEW i \in 1 .. MaxCalls, Wizard!ReadEnds(i) PROVE WizardInv'
  <2>1. /\ calls[i].does = "read" /\ files' = calls[i].files /\ mixed' = (mixed \/ Wizard!Analyzing)
        /\ UNCHANGED <<stage, header, datasets, targets, mappings, offered, kept>> /\ Wizard!Ended(i)
    BY <1>3 DEF Wizard!ReadEnds
  <2>2. /\ calls' \in [1 .. MaxCalls -> C]
        /\ \A j \in 1 .. MaxCalls : calls'[j] = calls[j] \/ calls'[j] = Wizard!Idle
    BY <2>1, CallEnds
  <2>3. stage # 2
    BY <1>0, <2>1 DEF DatasetsInv
  <2>4. files' \in Selections
    <3>1. calls[i] \in CallsOf(F)
      BY <1>0 DEF CallsInv
    <3> QED
      BY <2>1, <3>1 DEF CallsOf, Wizard!Idle
  <2>5. ~mixed' => \A j \in 1 .. MaxCalls : calls'[j].does # "analyze"
    BY <1>0, <2>1, <2>2 DEF Wizard!Analyzing
  <2> HIDE DEF C
  <2>6. CallsInv'
    BY <1>0, <2>1, <2>2, <2>4, <2>5 DEF CallsInv, Listed, C, F, Wizard!Analyzing
  <2>7. DatasetsInv' /\ stage' \in {1, 2, 3}
    BY <1>0, <2>1, <2>3 DEF DatasetsInv
  <2>8. MappingsInv'
    BY <1>0, <2>1, MappingsStay
  <2> QED
    BY <2>6, <2>7, <2>8 DEF WizardInv
<1>4. CASE Wizard!SetCsv
  <2>1. /\ stage = 1 /\ header' = ~header /\ mixed' = (mixed \/ Wizard!Analyzing)
        /\ UNCHANGED <<stage, files, calls, datasets, targets, mappings, offered, kept>>
    BY <1>4 DEF Wizard!SetCsv
  <2>2. CallsInv'
    BY <1>0, <2>1 DEF CallsInv, Listed, Wizard!Analyzing
  <2>3. DatasetsInv' /\ stage' \in {1, 2, 3}
    BY <2>1 DEF DatasetsInv
  <2>4. MappingsInv'
    BY <1>0, <2>1, MappingsStay
  <2> QED
    BY <2>2, <2>3, <2>4 DEF WizardInv
<1>5. CASE Wizard!Analyze
  <2> DEFINE c == [does |-> "analyze", files |-> files, header |-> header]
  <2>1. /\ stage = 1 /\ mixed' = (mixed /\ Wizard!Analyzing) /\ Wizard!Call(c)
        /\ UNCHANGED <<stage, files, header, datasets, targets, mappings, offered, kept>>
    BY <1>5 DEF Wizard!Analyze
  <2>2. c \in C /\ c.does = "analyze" /\ c.files = files /\ c.header = header
    BY <1>0 DEF CallsOf, CallsInv, Listed
  <2>3. /\ calls' \in [1 .. MaxCalls -> C]
        /\ \A i \in 1 .. MaxCalls : calls'[i] = calls[i] \/ calls'[i] = c
    BY <2>1, <2>2, CallBegins
  <2> HIDE DEF c, C
  <2>4. CallsInv'
    BY <1>0, <2>1, <2>2, <2>3 DEF CallsInv, Listed, C, F, Wizard!Analyzing
  <2>5. DatasetsInv' /\ stage' \in {1, 2, 3}
    BY <2>1 DEF DatasetsInv
  <2>6. MappingsInv'
    BY <1>0, <2>1, MappingsStay
  <2> QED
    BY <2>4, <2>5, <2>6 DEF WizardInv
<1>6. ASSUME NEW i \in 1 .. MaxCalls, Wizard!AnalyzeEnds(i) PROVE WizardInv'
  <2> DEFINE list == Wizard!Analysis(calls[i].files, calls[i].header)
  <2>1. /\ calls[i].does = "analyze" /\ stage' = 2 /\ Wizard!EndedWithReads(i) /\ datasets' = list
        /\ UNCHANGED <<files, header, offered, kept, mixed>>
    BY <1>6 DEF Wizard!AnalyzeEnds
  <2>2. PICK detected \in [1 .. Len(list) -> ContentTypes \cup {Wizard!NoType}] :
           targets' = detected /\ mappings' = Wizard!Plan_mappings(list, detected)
    BY <1>6 DEF Wizard!AnalyzeEnds
  <2>3. /\ calls' \in [1 .. MaxCalls -> C]
        /\ \A j \in 1 .. MaxCalls : calls'[j] = calls[j] \/ calls'[j] = Wizard!Idle
    BY <2>1, CallEnds
  <2>4. Listed(calls[i].files)
    <3>1. calls[i] \in CallsOf(F)
      BY <1>0 DEF CallsInv
    <3> QED
      BY <2>1, <3>1 DEF CallsOf, Wizard!Idle, Listed
  <2>5. Len(list) \in Nat
    BY <2>4, ListedIs, AnalysisIs
  <2>6. \A j \in 1 .. MaxCalls : calls'[j].does # "read"
    BY <1>0, <2>1 DEF Wizard!EndedWithReads
  <2> HIDE DEF C
  <2>7. CallsInv'
    BY <1>0, <2>1, <2>3 DEF CallsInv, Listed, C, F
  <2>8. ~mixed => list = Wizard!Analysis(files, header)
    BY <1>0, <2>1 DEF CallsInv
  <2>9. DatasetsInv'
    <3> HIDE DEF list
    <3>1. ~mixed => datasets' = Wizard!Analysis(files', header')
      BY <2>1, <2>8
    <3> QED
      BY <2>1, <2>5, <2>6, <3>1 DEF DatasetsInv
  <2>10. MappingsInv'
    <3> HIDE DEF list
    <3>1. DOMAIN targets' = 1 .. Len(datasets') /\ DOMAIN mappings' = 1 .. Len(datasets')
      BY <2>1, <2>2 DEF Wizard!Plan_mappings
    <3>2. ASSUME NEW d \in 1 .. Len(datasets')
          PROVE  mappings'[d] = Wizard!Mapping(datasets'[d].fields, targets'[d]) /\ Marked(mappings'[d])
      <4>1. mappings'[d] = Wizard!Mapping(datasets'[d].fields, targets'[d])
        BY <2>1, <2>2 DEF Wizard!Plan_mappings
      <4> QED
        BY <4>1 DEF Wizard!Mapping, Marked
    <3> QED
      BY <1>0, <2>1, <3>1, <3>2 DEF MappingsInv
  <2> QED
    BY <2>1, <2>7, <2>9, <2>10 DEF WizardInv
<1>7. ASSUME NEW i \in 1 .. MaxCalls, Wizard!CallFails(i) PROVE WizardInv'
  <2>1. /\ UNCHANGED <<stage, files, header, mixed, datasets, targets, mappings, offered, kept>>
        /\ Wizard!Ended(i)
    BY <1>7 DEF Wizard!CallFails
  <2>2. /\ calls' \in [1 .. MaxCalls -> C]
        /\ \A j \in 1 .. MaxCalls : calls'[j] = calls[j] \/ calls'[j] = Wizard!Idle
    BY <2>1, CallEnds
  <2>3. CallsInv' /\ DatasetsInv'
    BY <1>0, <2>1, <2>2, CallsStay DEF CallsInv
  <2>4. MappingsInv'
    BY <1>0, <2>1, MappingsStay
  <2> QED
    BY <1>0, <2>1, <2>3, <2>4 DEF WizardInv
<1>8. ASSUME NEW i \in 1 .. MaxCalls, Wizard!ImportEnds(i) PROVE WizardInv'
  <2>1. /\ UNCHANGED <<files, header, mixed, datasets, targets, mappings, offered, kept>>
        /\ Wizard!EndedWithReads(i) /\ stage' = 3
    BY <1>8 DEF Wizard!ImportEnds
  <2>2. /\ calls' \in [1 .. MaxCalls -> C]
        /\ \A j \in 1 .. MaxCalls : calls'[j] = calls[j] \/ calls'[j] = Wizard!Idle
    BY <2>1, CallEnds
  <2>3. CallsInv' /\ DatasetsInv'
    <3>1. \A j \in 1 .. MaxCalls : calls'[j] = calls[j] \/ calls'[j].does \notin {"read", "analyze"}
      BY <1>0, <2>2
    <3>2. mixed' \in BOOLEAN /\ (~mixed' => ~mixed)
      BY <1>0, <2>1 DEF CallsInv
    <3>3. (stage' = 2 => stage = 2 /\ mixed' = mixed) /\ UNCHANGED <<files, header, datasets>>
      BY <2>1
    <3> QED
      BY <2>2, <3>1, <3>2, <3>3, CallsStay
  <2>4. MappingsInv'
    BY <1>0, <2>1, MappingsStay
  <2> QED
    BY <2>1, <2>3, <2>4 DEF WizardInv
<1>9. ASSUME NEW d \in 1 .. Len(datasets), NEW t \in ContentTypes, Wizard!SetTarget(d, t) PROVE WizardInv'
  <2>1. /\ stage = 2 /\ UNCHANGED <<stage, files, header, datasets, offered, kept, calls, mixed>>
        /\ targets' = [targets EXCEPT ![d] = t]
        /\ mappings' = [mappings EXCEPT ![d] = Wizard!Mapping(datasets[d].fields, t)]
    BY <1>9 DEF Wizard!SetTarget, Wizard!Mapping_for_source
  <2>2. CallsInv' /\ DatasetsInv'
    BY <1>0, <2>1, CallsStay DEF CallsInv
  <2>3. MappingsInv'
    <3>1. Marked(Wizard!Mapping(datasets[d].fields, t))
      BY DEF Marked, Wizard!Mapping
    <3> QED
      BY <1>0, <2>1, <3>1 DEF MappingsInv
  <2> QED
    BY <1>0, <2>1, <2>2, <2>3 DEF WizardInv
<1>10. ASSUME NEW d \in 1 .. Len(datasets), Wizard!EditRow(d) PROVE WizardInv'
  <2>1. /\ stage = 2 /\ UNCHANGED <<stage, files, header, datasets, targets, offered, kept, calls, mixed>>
        /\ mappings' = [mappings EXCEPT ![d].edited = TRUE]
    BY <1>10 DEF Wizard!EditRow
  <2>2. CallsInv' /\ DatasetsInv'
    BY <1>0, <2>1, CallsStay DEF CallsInv
  <2>3. MappingsInv'
    <3> DEFINE m == [mappings[d] EXCEPT !.edited = TRUE]
    <3>1. m.edited /\ Marked(m)
      BY <1>0, <2>1 DEF MappingsInv, Marked
    <3>2. mappings' = [mappings EXCEPT ![d] = m]
      BY <1>0, <2>1 DEF MappingsInv
    <3> HIDE DEF m
    <3> QED
      BY <1>0, <2>1, <3>1, <3>2 DEF MappingsInv
  <2> QED
    BY <1>0, <2>1, <2>2, <2>3 DEF WizardInv
<1>11. CASE Wizard!SavePreset
  <2>1. /\ stage = 2 /\ datasets # <<>> /\ UNCHANGED <<stage, files, header, datasets, targets, mappings, offered, calls, mixed>>
        /\ \A p \in kept' : p \in kept \/ p = [target |-> targets[1], mapping |-> mappings[1]]
    BY <1>11 DEF Wizard!SavePreset
  <2>2. CallsInv' /\ DatasetsInv'
    BY <1>0, <2>1, CallsStay DEF CallsInv
  <2>3. MappingsInv'
    BY <1>0, <2>1 DEF MappingsInv
  <2> QED
    BY <1>0, <2>1, <2>2, <2>3 DEF WizardInv
<1>12. CASE Wizard!RefreshPresets
  <2>1. offered' = kept /\ UNCHANGED <<stage, files, header, datasets, targets, mappings, kept, calls, mixed>>
    BY <1>12 DEF Wizard!RefreshPresets
  <2>2. CallsInv' /\ DatasetsInv'
    BY <1>0, <2>1, CallsStay DEF CallsInv
  <2>3. MappingsInv'
    BY <1>0, <2>1 DEF MappingsInv
  <2> QED
    BY <1>0, <2>1, <2>2, <2>3 DEF WizardInv
<1>13. ASSUME NEW p \in offered, Wizard!UsePreset(p) PROVE WizardInv'
  <2> DEFINE m == [p.mapping EXCEPT !.edited = TRUE]
  <2>1. /\ stage = 2 /\ UNCHANGED <<stage, files, header, datasets, targets, offered, kept, calls, mixed>>
        /\ mappings' = [mappings EXCEPT ![1] = m]
    BY <1>13 DEF Wizard!UsePreset
  <2>2. CallsInv' /\ DatasetsInv'
    BY <1>0, <2>1, CallsStay DEF CallsInv
  <2>3. MappingsInv'
    <3>1. m.edited /\ Marked(m)
      BY <1>0, <2>1 DEF MappingsInv, Marked
    <3> HIDE DEF m
    <3> QED
      BY <1>0, <2>1, <3>1 DEF MappingsInv
  <2> QED
    BY <1>0, <2>1, <2>2, <2>3 DEF WizardInv
<1>14. CASE Wizard!Back
  <2>1. stage' = 1 /\ UNCHANGED <<files, header, datasets, targets, mappings, offered, kept, calls, mixed>>
    BY <1>14 DEF Wizard!Back
  <2>2. CallsInv' /\ DatasetsInv'
    BY <1>0, <2>1, CallsStay DEF CallsInv
  <2>3. MappingsInv'
    BY <1>0, <2>1, MappingsStay
  <2> QED
    BY <2>1, <2>2, <2>3 DEF WizardInv
<1>15. CASE Wizard!Import
  <2> DEFINE c == [does |-> "import"]
  <2>1. /\ stage = 2 /\ Wizard!Call(c)
        /\ UNCHANGED <<stage, files, header, datasets, targets, mappings, offered, kept, mixed>>
    BY <1>15 DEF Wizard!Import
  <2>2. c \in C /\ c.does = "import"
    BY DEF CallsOf
  <2>3. /\ calls' \in [1 .. MaxCalls -> C]
        /\ \A i \in 1 .. MaxCalls : calls'[i] = calls[i] \/ calls'[i] = c
    BY <2>1, <2>2, CallBegins
  <2>4. CallsInv' /\ DatasetsInv'
    BY <1>0, <2>1, <2>2, <2>3, CallsStay DEF CallsInv
  <2>5. MappingsInv'
    BY <1>0, <2>1, MappingsStay
  <2> QED
    BY <2>1, <2>4, <2>5 DEF WizardInv
<1>16. CASE Wizard!NewImport
  <2>1. /\ stage' = 1 /\ files' = <<>> /\ mixed' = (mixed \/ Wizard!Analyzing)
        /\ UNCHANGED <<header, targets, mappings, offered, kept, calls>>
    BY <1>16 DEF Wizard!NewImport
  <2>2. CallsInv'
    BY <1>0, <2>1 DEF CallsInv, Listed, Wizard!Analyzing
  <2>3. DatasetsInv' /\ MappingsInv'
    BY <1>0, <2>1 DEF DatasetsInv, MappingsInv
  <2> QED
    BY <2>1, <2>2, <2>3 DEF WizardInv
<1> QED
  BY <1>1, <1>2, <1>3, <1>4, <1>5, <1>6, <1>7, <1>8, <1>9, <1>10, <1>11, <1>12, <1>13, <1>14, <1>15, <1>16
  DEF Wizard!Next, Wizard!User

\* The text that a dataset is found by is that of its own file, where it is found again.
LEMMA AnalysedAgain ==
    ASSUME Wizard!WizardAssumption, WizardInv
    PROVE  Wizard!ImportedAsAnalyzed
<1> SUFFICES ASSUME stage = 2, ~mixed, NEW d \in 1 .. Len(datasets), targets[d] # Wizard!NoType
             PROVE  /\ d \in Wizard!ToImport
                    /\ Wizard!Reparsed(d) = datasets[d].fields
                    /\ mappings[d].edited \/ mappings[d] = Wizard!Mapping(datasets[d].fields, targets[d])
  BY DEF Wizard!ImportedAsAnalyzed
<1>1. datasets = Wizard!Analysis(files, header) /\ Listed(files)
  BY DEF WizardInv, DatasetsInv, CallsInv
<1>2. Wizard!OfOneDirectory(files)
  BY <1>1, ListedIs
<1>3. PICK p \in Wizard!Places(files) : datasets[d] = Wizard!Dataset(files, header, p)
  BY <1>1, <1>2, AnalysisIs
<1> DEFINE f == p[1]
           names == DatasetsOf(files[f].text)
<1>4. f \in 1 .. Len(files) /\ p[2] \in 1 .. Len(names)
  BY DEF Wizard!Places
<1>5. /\ DOMAIN files = 1 .. Len(files) /\ Len(files) \in Nat
      /\ DOMAIN names = 1 .. Len(names)
      /\ \A g \in 1 .. Len(files) : files[g].name = files[f].name => g = f
  BY <1>2, <1>4 DEF Wizard!OfOneDirectory, Wizard!IsSequence
<1> HIDE DEF f, names
<1>6. /\ datasets[d].name = files[f].name /\ datasets[d].dataset = names[p[2]]
      /\ datasets[d].fields = Wizard!FieldsOf(files[f].text, names[p[2]], header)
  BY <1>3 DEF Wizard!Dataset, f, names
<1>7. Wizard!FileOf(d) = {f}
  BY <1>4, <1>5, <1>6 DEF Wizard!FileOf
<1>8. Wizard!Min({f}) = f
  BY <1>4 DEF Wizard!Min
<1>9. datasets[d].dataset \in Wizard!Range(names)
  BY <1>4, <1>5, <1>6 DEF Wizard!Range
<1>10. Wizard!Reparsed(d) = datasets[d].fields
  BY <1>6, <1>7, <1>8, <1>9 DEF Wizard!Reparsed, names
<1>11. d \in Wizard!ToImport
  BY <1>7 DEF Wizard!ToImport
<1>12. mappings[d].edited \/ mappings[d] = Wizard!Mapping(datasets[d].fields, targets[d])
  BY DEF WizardInv, MappingsInv
<1> QED
  BY <1>10, <1>11, <1>12

\* What would be imported is what was analysed, unless files or settings were changed during an analysis
\* (import_export.rs, ImportWizard).
THEOREM Analysed == ScreensSpec => []ImportedAsAnalyzed
<1>1. ScreensInit => WizardInv
  BY ScreensAssumption, WizardInit DEF ScreensInit
<1>2. WizardInv /\ [Wizard!Next]_wizard => WizardInv'
  BY ScreensAssumption, WizardStep
<1>3. [ScreensNext]_<<at, screens>> => [Wizard!Next]_wizard
  BY DEF ScreensNext, screens
<1>4. WizardInv => ImportedAsAnalyzed
  BY ScreensAssumption, AnalysedAgain DEF ImportedAsAnalyzed
<1> QED
  BY <1>1, <1>2, <1>3, <1>4, PTL DEF ScreensSpec

-----------------------------------------------------------------------------
(* The editor of workflows.                                                *)

IsCall(c) == {"does", "doc", "served", "ok"} \subseteq DOMAIN c
IsDocument(d) == {"tasks", "status"} \subseteq DOMAIN d

\* What a document in the editor, with the server or in a call is.
FlowTyped ==
    /\ \E S : sent \in Seq(S)
    /\ \A k \in DOMAIN sent :
           /\ IsCall(sent[k]) /\ IsDocument(sent[k].doc)
           /\ sent[k].does \in {"get", "save", "activate", "deactivate"}
    /\ IsDocument(copy) /\ IsDocument(saved)

\* Nothing to save, and something loaded: the copy is what is stored.
CleanOrNone == copy.status # "none" /\ ~unsaved => copy = saved

\* What the one call that is under way knows.
CallKnows ==
    /\ opening = "loading" <=> sent[1].does = "get"
    /\ sent[1].served /\ sent[1].ok => sent[1].doc = saved
    /\ sent[1].does = "save" => sent[1].doc = copy
    /\ sent[1].does = "get" => copy.status = "none"
    /\ sent[1].does \in {"activate", "deactivate"} => (sent[1].served /\ sent[1].ok) \/ CleanOrNone

CleanInv ==
    ~confused =>
        /\ Len(sent) <= 1
        /\ sent = <<>> => opening # "loading" /\ CleanOrNone
        /\ sent # <<>> => CallKnows

\* Until one was removed, the tasks of every document are numbered as they come.
Numbered(d) ==
    /\ \E S : d.tasks \in Seq(S)
    /\ \A i \in DOMAIN d.tasks : {"type", "n", "changed"} \subseteq DOMAIN d.tasks[i] /\ d.tasks[i].n = i

NumbersInv ==
    ~dropped => /\ Numbered(copy) /\ Numbered(saved)
                /\ \A k \in DOMAIN sent : Numbered(sent[k].doc)

FlowInv == FlowTyped /\ CleanInv /\ NumbersInv

\* Without one of its elements, a sequence is one shorter and has no other elements.
LEMMA FlowRemove ==
    ASSUME NEW S, NEW s \in Seq(S), NEW k \in DOMAIN s
    PROVE  /\ Flow!RemoveAt(s, k) \in Seq(S) /\ Len(Flow!RemoveAt(s, k)) = Len(s) - 1
           /\ \A i \in DOMAIN Flow!RemoveAt(s, k) : \E j \in DOMAIN s : Flow!RemoveAt(s, k)[i] = s[j]
<1>1. Len(s) \in Nat /\ k \in 1 .. Len(s)
  OBVIOUS
<1> DEFINE a == SubSeq(s, 1, k - 1)
           b == SubSeq(s, k + 1, Len(s))
<1>2. a \in Seq(S) /\ Len(a) = k - 1 /\ \A i \in 1 .. k - 1 : a[i] = s[i]
  BY <1>1
<1>3. b \in Seq(S) /\ Len(b) = Len(s) - k /\ \A i \in 1 .. Len(s) - k : b[i] = s[k + i]
  BY <1>1
<1>4. Flow!RemoveAt(s, k) = a \o b
  BY DEF Flow!RemoveAt
<1> HIDE DEF a, b
<1>5. a \o b \in Seq(S) /\ Len(a \o b) = Len(s) - 1
  BY <1>1, <1>2, <1>3
<1>6. ASSUME NEW i \in DOMAIN (a \o b) PROVE \E j \in DOMAIN s : (a \o b)[i] = s[j]
  <2>1. i \in 1 .. Len(s) - 1
    BY <1>5
  <2>2. (a \o b)[i] = IF i <= k - 1 THEN a[i] ELSE b[i - (k - 1)]
    BY <1>1, <1>2, <1>3, <2>1
  <2> QED
    <3>1. CASE i <= k - 1
      <4>1. i \in 1 .. k - 1 /\ i \in DOMAIN s
        BY <1>1, <2>1, <3>1
      <4> QED
        BY <1>2, <2>2, <3>1, <4>1
    <3>2. CASE ~(i <= k - 1)
      <4>1. i - (k - 1) \in 1 .. Len(s) - k /\ k + (i - (k - 1)) \in DOMAIN s
        BY <1>1, <2>1, <3>2
      <4> QED
        BY <1>3, <2>2, <3>2, <4>1
    <3> QED
      BY <3>1, <3>2
<1> QED
  BY <1>4, <1>5, <1>6

\* The editor begins with nothing loaded and no call.
LEMMA FlowInit == ASSUME Flow!Init PROVE FlowInv
<1> DEFINE c == Flow!Call("get", Flow!NoDocument)
<1>1. /\ sent = <<c>> /\ copy = Flow!NoDocument /\ saved = Flow!Document(<<>>) /\ opening = "loading"
  BY DEF Flow!Init
<1>2. /\ IsCall(c) /\ c.does = "get" /\ c.doc = Flow!NoDocument /\ c.served = FALSE
      /\ IsDocument(Flow!NoDocument) /\ IsDocument(saved) /\ Numbered(Flow!NoDocument) /\ Numbered(saved)
      /\ Flow!NoDocument.status = "none"
  BY <1>1 DEF Flow!Call, Flow!NoDocument, Flow!Document, IsCall, IsDocument, Numbered
<1> HIDE DEF c
<1>3. sent \in Seq({c}) /\ Len(sent) = 1 /\ DOMAIN sent = {1} /\ sent[1] = c
  BY <1>1
<1>4. FlowTyped
  BY <1>1, <1>2, <1>3 DEF FlowTyped
<1>5. CleanInv
  BY <1>1, <1>2, <1>3 DEF CleanInv, CallKnows
<1>6. NumbersInv
  BY <1>1, <1>2, <1>3 DEF NumbersInv
<1> QED
  BY <1>4, <1>5, <1>6 DEF FlowInv

\* New tasks in the copy.
LEMMA TasksSet ==
    ASSUME FlowInv, NEW tasks, Flow!SetTasks(tasks)
    PROVE  FlowTyped' /\ CleanInv'
<1>1. /\ opening # "loading" /\ copy' = [copy EXCEPT !.tasks = tasks] /\ unsaved'
      /\ confused' = (confused \/ Flow!Saving) /\ UNCHANGED <<saved, opening, sent>>
  BY DEF Flow!SetTasks
<1>2. FlowTyped'
  BY <1>1 DEF FlowInv, FlowTyped, IsDocument
<1>3. ASSUME ~confused' PROVE CleanInv'
  <2>1. ~confused /\ \A k \in DOMAIN sent : sent[k].does # "save"
    BY <1>1, <1>3 DEF Flow!Saving
  <2>2. CASE sent = <<>>
    BY <1>1, <2>1, <2>2 DEF FlowInv, CleanInv, CleanOrNone
  <2>3. CASE sent # <<>>
    <3>1. 1 \in DOMAIN sent
      BY <2>3 DEF FlowInv, FlowTyped
    <3>2. CallKnows /\ sent[1].does # "save" /\ sent[1].does # "get"
      BY <1>1, <2>1, <2>3, <3>1 DEF FlowInv, CleanInv, CallKnows
    <3>3. CallKnows'
      BY <1>1, <3>2 DEF CallKnows, CleanOrNone
    <3> QED
      BY <1>1, <2>1, <2>3, <3>3 DEF FlowInv, CleanInv
  <2> QED
    BY <2>2, <2>3
<1> QED
  BY <1>2, <1>3 DEF CleanInv

\* A task that is added gets a new number.
LEMMA TaskAdded ==
    ASSUME FlowInv, NEW type, Flow!AddTask(type)
    PROVE  FlowInv'
<1> DEFINE task == Flow!Task(type, Flow!NextNumber)
           tasks == Append(copy.tasks, task)
<1>1. Flow!SetTasks(tasks) /\ UNCHANGED dropped
  BY DEF Flow!AddTask
<1>2. FlowTyped' /\ CleanInv'
  BY <1>1, TasksSet
<1>3. copy'.tasks = tasks /\ UNCHANGED <<saved, sent>>
  BY <1>1 DEF Flow!SetTasks, FlowInv, FlowTyped, IsDocument
<1>4. ASSUME ~dropped PROVE Numbered(copy')
  <2>1. PICK S : copy.tasks \in Seq(S)
    BY <1>4 DEF FlowInv, NumbersInv, Numbered
  <2>2. task.n = Len(copy.tasks) + 1 /\ {"type", "n", "changed"} \subseteq DOMAIN task
    BY DEF Flow!Task, Flow!NextNumber
  <2>3. \A i \in DOMAIN copy.tasks :
          {"type", "n", "changed"} \subseteq DOMAIN copy.tasks[i] /\ copy.tasks[i].n = i
    BY <1>4 DEF FlowInv, NumbersInv, Numbered
  <2> HIDE DEF task
  <2>4. tasks \in Seq(S \cup {task}) /\ Len(tasks) = Len(copy.tasks) + 1 /\ Len(copy.tasks) \in Nat
    BY <2>1
  <2>5. \A i \in DOMAIN tasks : tasks[i] = IF i \in DOMAIN copy.tasks THEN copy.tasks[i] ELSE task
    BY <2>1, <2>4
  <2>6. \A i \in DOMAIN tasks : i \in DOMAIN copy.tasks \/ i = Len(copy.tasks) + 1
    BY <2>1, <2>4
  <2> HIDE DEF tasks
  <2> QED
    BY <1>3, <2>2, <2>3, <2>4, <2>5, <2>6 DEF Numbered
<1>5. NumbersInv'
  BY <1>1, <1>3, <1>4 DEF FlowInv, NumbersInv
<1> QED
  BY <1>2, <1>5 DEF FlowInv

\* A task that is changed keeps its number.
LEMMA TaskUpdated ==
    ASSUME FlowInv, NEW i \in DOMAIN copy.tasks, Flow!UpdateTask(i)
    PROVE  FlowInv'
<1> DEFINE tasks ==
      [k \in DOMAIN copy.tasks |->
           IF Flow!Name(copy.tasks[k]) = Flow!Name(copy.tasks[i]) THEN [copy.tasks[k] EXCEPT !.changed = TRUE]
           ELSE copy.tasks[k]]
<1>1. Flow!SetTasks(tasks) /\ UNCHANGED dropped
  BY DEF Flow!UpdateTask
<1>2. FlowTyped' /\ CleanInv'
  <2> HIDE DEF tasks
  <2> QED
    BY <1>1, TasksSet
<1>3. copy'.tasks = tasks /\ UNCHANGED <<saved, sent>>
  BY <1>1 DEF Flow!SetTasks, FlowInv, FlowTyped, IsDocument
<1>4. ASSUME ~dropped PROVE Numbered(copy')
  <2>1. PICK S : copy.tasks \in Seq(S)
    BY <1>4 DEF FlowInv, NumbersInv, Numbered
  <2>2. \A k \in DOMAIN copy.tasks :
          {"type", "n", "changed"} \subseteq DOMAIN copy.tasks[k] /\ copy.tasks[k].n = k
    BY <1>4 DEF FlowInv, NumbersInv, Numbered
  <2>3. DOMAIN tasks = 1 .. Len(copy.tasks) /\ Len(copy.tasks) \in Nat
    BY <2>1
  <2>4. \A k \in DOMAIN tasks : {"type", "n", "changed"} \subseteq DOMAIN tasks[k] /\ tasks[k].n = k
    BY <2>2
  <2> HIDE DEF tasks
  <2>5. tasks \in Seq({tasks[k] : k \in DOMAIN tasks})
    <3>1. tasks = [k \in 1 .. Len(copy.tasks) |-> tasks[k]]
      BY <2>3 DEF tasks
    <3> QED
      BY <2>3, <3>1
  <2> QED
    BY <1>3, <2>4, <2>5 DEF Numbered
<1>5. NumbersInv'
  BY <1>1, <1>3, <1>4 DEF FlowInv, NumbersInv
<1> QED
  BY <1>2, <1>5 DEF FlowInv

\* A call that begins alone knows what the screen does.
LEMMA CallSent ==
    ASSUME FlowInv, NEW does \in {"save", "activate", "deactivate"}, Flow!Begin(does, copy)
    PROVE  FlowInv'
<1> DEFINE c == Flow!Call(does, copy)
<1>1. /\ sent' = Append(sent, c) /\ confused' = (confused \/ sent # <<>>)
      /\ UNCHANGED <<saved, opening, copy, unsaved, dropped>>
  BY DEF Flow!Begin
<1>2. c.does = does /\ c.doc = copy /\ c.served = FALSE /\ IsCall(c)
  BY DEF Flow!Call, IsCall
<1> HIDE DEF c
<1>3. PICK S : sent \in Seq(S)
  BY DEF FlowInv, FlowTyped
<1>4. /\ sent' \in Seq(S \cup {c}) /\ Len(sent') = Len(sent) + 1 /\ Len(sent) \in Nat
      /\ \A k \in DOMAIN sent' : (k \in DOMAIN sent /\ sent'[k] = sent[k]) \/ sent'[k] = c
  BY <1>1, <1>3
<1>5. FlowTyped'
  BY <1>1, <1>2, <1>4 DEF FlowInv, FlowTyped
<1>6. NumbersInv'
  BY <1>1, <1>2, <1>4 DEF FlowInv, NumbersInv
<1>7. ASSUME ~confused' PROVE CleanInv'
  <2>1. ~confused /\ sent = <<>> /\ opening # "loading" /\ CleanOrNone
    BY <1>1, <1>7 DEF FlowInv, CleanInv
  <2>2. Len(sent') = 1 /\ sent'[1] = c
    BY <1>1, <2>1
  <2>3. CallKnows'
    BY <1>1, <1>2, <2>1, <2>2 DEF CallKnows, CleanOrNone
  <2>4. sent' # <<>>
    BY <2>2
  <2> QED
    BY <2>2, <2>3, <2>4 DEF CleanInv
<1> QED
  BY <1>5, <1>6, <1>7 DEF FlowInv, CleanInv

\* The server stores what a call sends, or the call fails.
LEMMA CallServed ==
    ASSUME FlowInv, NEW k \in DOMAIN sent, Flow!Serve(k)
    PROVE  FlowInv'
<1> DEFINE new == CASE sent[k].does = "get" -> saved
                    [] sent[k].does = "save" -> sent[k].doc
                    [] sent[k].does = "activate" -> [saved EXCEPT !.status = "active"]
                    [] OTHER -> [saved EXCEPT !.status = "inactive"]
<1>1. PICK ok \in BOOLEAN :
        /\ saved' = (IF ok THEN new ELSE saved)
        /\ sent' = [sent EXCEPT ![k].served = TRUE, ![k].ok = ok, ![k].doc = new]
        /\ ok => sent[k].does # "save" \/ sent[k].doc.status # "none"
  BY DEF Flow!Serve
<1>2. UNCHANGED <<opening, copy, unsaved, confused, dropped>>
  BY DEF Flow!Serve
<1>3. IsDocument(new)
  BY DEF FlowInv, FlowTyped, IsDocument
<1>4. ~dropped => Numbered(new)
  <2>1. [saved EXCEPT !.status = "active"].tasks = saved.tasks
    BY DEF FlowInv, FlowTyped, IsDocument
  <2>2. [saved EXCEPT !.status = "inactive"].tasks = saved.tasks
    BY DEF FlowInv, FlowTyped, IsDocument
  <2> QED
    BY <2>1, <2>2 DEF FlowInv, NumbersInv, Numbered
<1>5. /\ sent[k].does = "save" => new = sent[k].doc
      /\ sent[k].does = "get" => new = saved
  OBVIOUS
<1> HIDE DEF new
<1> DEFINE c == [sent[k] EXCEPT !.served = TRUE, !.ok = ok, !.doc = new]
<1>6. PICK S : sent \in Seq(S)
  BY DEF FlowInv, FlowTyped
<1>7. c.does = sent[k].does /\ c.doc = new /\ c.served = TRUE /\ c.ok = ok /\ IsCall(c)
  BY DEF FlowInv, FlowTyped, IsCall
<1>8. sent' = [sent EXCEPT ![k] = c]
  BY <1>1, <1>6
<1> HIDE DEF c
<1>9. /\ sent' \in Seq(S \cup {c}) /\ DOMAIN sent' = DOMAIN sent /\ Len(sent') = Len(sent)
      /\ sent'[k] = c /\ \A j \in DOMAIN sent \ {k} : sent'[j] = sent[j]
  BY <1>6, <1>8
<1>10. FlowTyped'
  BY <1>1, <1>2, <1>3, <1>7, <1>9, ZenonT(40) DEF FlowInv, FlowTyped
<1>11. NumbersInv'
  <2>1. ASSUME ~dropped PROVE Numbered(saved') /\ Numbered(copy') /\ \A j \in DOMAIN sent' : Numbered(sent'[j].doc)
    BY <1>1, <1>2, <1>4, <1>7, <1>9, <2>1 DEF FlowInv, NumbersInv
  <2> QED
    BY <1>2, <2>1 DEF NumbersInv
<1>12. ASSUME ~confused' PROVE CleanInv'
  <2>1. Len(sent) <= 1 /\ k = 1 /\ CallKnows
    BY <1>2, <1>6, <1>12 DEF FlowInv, CleanInv
  <2>2. sent'[1] = c /\ sent' # <<>> /\ Len(sent') <= 1
    BY <1>9, <2>1
  <2>3. (opening = "loading" <=> c.does = "get")
    BY <1>7, <2>1 DEF CallKnows
  <2>4. c.ok => c.doc = saved'
    BY <1>1, <1>7
  <2>5. c.does = "save" => c.doc = copy
    BY <1>5, <1>7, <2>1 DEF CallKnows
  <2>6. c.does = "get" => copy.status = "none"
    BY <1>7, <2>1 DEF CallKnows
  <2>7. c.does \in {"activate", "deactivate"} /\ ~ok => CleanOrNone /\ saved' = saved
    BY <1>1, <1>7, <2>1 DEF Flow!Serve, CallKnows
  <2>8. CallKnows'
    BY <1>2, <1>7, <2>2, <2>3, <2>4, <2>5, <2>6, <2>7 DEF CallKnows, CleanOrNone
  <2> QED
    BY <2>2, <2>8 DEF CleanInv
<1> QED
  BY <1>10, <1>11, <1>12 DEF FlowInv, CleanInv

\* An answer takes its call away; what the copy then is, that call knew.
LEMMA AnswerTaken ==
    ASSUME FlowInv, NEW k \in DOMAIN sent, Flow!Answered(k)
    PROVE  FlowInv'
<1> DEFINE c == sent[k]
<1>1. /\ c.served /\ sent' = Flow!RemoveAt(sent, k) /\ saved' = saved /\ dropped' = dropped
      /\ opening' = (IF c.does # "get" THEN opening ELSE IF c.ok THEN "loaded" ELSE "failed")
  BY DEF Flow!Answered
<1>2. c.does = "save" => unsaved' = FALSE /\ (~confused' => ~confused /\ c.ok) /\ copy' = copy
  BY DEF Flow!Answered
<1>3. c.does # "save" => copy' = (IF c.ok THEN c.doc ELSE copy) /\ unsaved' = unsaved /\ confused' = confused
  BY DEF Flow!Answered
<1>4. copy' = copy \/ copy' = c.doc
  BY <1>2, <1>3
<1>5. PICK S : sent \in Seq(S)
  BY DEF FlowInv, FlowTyped
<1>6. /\ sent' \in Seq(S) /\ Len(sent') = Len(sent) - 1
      /\ \A i \in DOMAIN sent' : \E j \in DOMAIN sent : sent'[i] = sent[j]
  BY <1>1, <1>5, FlowRemove
<1>7. FlowTyped'
  BY <1>1, <1>4, <1>6 DEF FlowInv, FlowTyped
<1>8. NumbersInv'
  BY <1>1, <1>4, <1>6 DEF FlowInv, NumbersInv
<1>9. ASSUME ~confused' PROVE CleanInv'
  <2>1. ~confused /\ Len(sent) <= 1 /\ sent # <<>> /\ CallKnows
    BY <1>2, <1>3, <1>5, <1>9 DEF FlowInv, CleanInv
  <2>2. k = 1 /\ sent' = <<>> /\ Len(sent') = 0
    BY <1>5, <1>6, <2>1
  <2>3. opening' # "loading"
    BY <1>1, <2>1, <2>2 DEF CallKnows
  <2>4. CleanOrNone'
    <3>1. CASE c.does = "save"
      BY <1>1, <1>2, <1>9, <2>1, <2>2, <3>1 DEF CallKnows, CleanOrNone
    <3>2. CASE c.does # "save" /\ c.ok
      BY <1>1, <1>3, <2>1, <2>2, <3>2 DEF CallKnows, CleanOrNone
    <3>3. CASE c.does # "save" /\ ~c.ok
      BY <1>1, <1>3, <2>1, <2>2, <3>3 DEF CallKnows, CleanOrNone, FlowInv, FlowTyped
    <3> QED
      BY <3>1, <3>2, <3>3
  <2> QED
    BY <2>2, <2>3, <2>4 DEF CleanInv
<1> QED
  BY <1>7, <1>8, <1>9 DEF FlowInv, CleanInv

\* Another administrator saves: from then on nothing is claimed.
LEMMA SavedElsewhere ==
    ASSUME FlowInv, Flow!SaveElsewhere
    PROVE  FlowInv'
<1>1. /\ UNCHANGED <<opening, copy, unsaved, sent, dropped>>
      /\ confused' = (confused \/ opening # "loading" \/ \E k \in DOMAIN sent : sent[k].served)
  BY DEF Flow!SaveElsewhere
<1>2. IsDocument(saved') /\ (~dropped => Numbered(saved'))
  <2>1. CASE saved' = [saved EXCEPT !.tasks = <<>>]
    BY <2>1 DEF FlowInv, FlowTyped, IsDocument, Numbered
  <2>2. ASSUME NEW type \in TaskTypes,
               saved' = [saved EXCEPT !.tasks = Append(@, Flow!Task(type, Len(@) + 1))]
        PROVE  IsDocument(saved') /\ (~dropped => Numbered(saved'))
    <3> DEFINE task == Flow!Task(type, Len(saved.tasks) + 1)
               tasks == Append(saved.tasks, task)
    <3>1. IsDocument(saved') /\ saved'.tasks = tasks
      BY <2>2 DEF FlowInv, FlowTyped, IsDocument
    <3>2. ASSUME ~dropped PROVE Numbered(saved')
      <4>1. PICK S : saved.tasks \in Seq(S)
        BY <3>2 DEF FlowInv, NumbersInv, Numbered
      <4>2. task.n = Len(saved.tasks) + 1 /\ {"type", "n", "changed"} \subseteq DOMAIN task
        BY DEF Flow!Task
      <4>3. \A i \in DOMAIN saved.tasks :
              {"type", "n", "changed"} \subseteq DOMAIN saved.tasks[i] /\ saved.tasks[i].n = i
        BY <3>2 DEF FlowInv, NumbersInv, Numbered
      <4> HIDE DEF task
      <4>4. tasks \in Seq(S \cup {task}) /\ Len(tasks) = Len(saved.tasks) + 1 /\ Len(saved.tasks) \in Nat
        BY <4>1
      <4>5. \A i \in DOMAIN tasks : tasks[i] = IF i \in DOMAIN saved.tasks THEN saved.tasks[i] ELSE task
        BY <4>1, <4>4
      <4>6. \A i \in DOMAIN tasks : i \in DOMAIN saved.tasks \/ i = Len(saved.tasks) + 1
        BY <4>1, <4>4
      <4> HIDE DEF tasks
      <4> QED
        BY <3>1, <4>2, <4>3, <4>4, <4>5, <4>6 DEF Numbered
    <3> QED
      BY <3>1, <3>2
  <2> QED
    BY <2>1, <2>2 DEF Flow!SaveElsewhere
<1>3. FlowTyped' /\ NumbersInv'
  BY <1>1, <1>2 DEF FlowInv, FlowTyped, NumbersInv
<1>4. ASSUME ~confused' PROVE CleanInv'
  <2>1. ~confused /\ opening = "loading" /\ \A k \in DOMAIN sent : ~sent[k].served
    BY <1>1, <1>4
  <2>2. Len(sent) <= 1 /\ sent # <<>> /\ CallKnows /\ 1 \in DOMAIN sent
    BY <2>1 DEF FlowInv, CleanInv, FlowTyped
  <2>3. CallKnows'
    BY <1>1, <2>1, <2>2 DEF CallKnows
  <2> QED
    BY <1>1, <2>2, <2>3 DEF CleanInv
<1> QED
  BY <1>3, <1>4 DEF FlowInv, CleanInv

\* Each operation of the workflow editor keeps the invariant.
LEMMA FlowStep == ASSUME FlowInv, [Flow!Next]_flow PROVE FlowInv'
<1>1. CASE UNCHANGED <<saved, opening, copy, unsaved, sent, dropped, confused>>
  BY <1>1 DEF FlowInv, FlowTyped, CleanInv, CallKnows, CleanOrNone, NumbersInv
<1>2. CASE Flow!Save \/ Flow!SetActive
  BY <1>2, CallSent DEF Flow!Save, Flow!SetActive
<1>3. CASE Flow!Execute \/ Flow!ExecuteEnds
  BY <1>1, <1>3 DEF Flow!Execute, Flow!ExecuteEnds
<1>4. ASSUME NEW i \in DOMAIN copy.tasks, Flow!RemoveTask(i) PROVE FlowInv'
  <2>1. PICK tasks : Flow!SetTasks(tasks) /\ dropped'
    BY <1>4 DEF Flow!RemoveTask
  <2>2. FlowTyped' /\ CleanInv'
    BY <2>1, TasksSet
  <2> QED
    BY <2>1, <2>2 DEF FlowInv, NumbersInv
<1> QED
  BY <1>1, <1>2, <1>3, <1>4, TaskAdded, TaskUpdated, CallServed, AnswerTaken, SavedElsewhere DEF Flow!Next, flow

\* The invariant has what is checked of the workflow editor.
LEMMA FlowShows == ASSUME FlowInv PROVE Flow!CleanIsStored /\ Flow!NamesApart
<1>1. Flow!CleanIsStored
  BY DEF Flow!CleanIsStored, FlowInv, CleanInv, CleanOrNone
<1>2. Flow!NamesApart
  BY DEF Flow!NamesApart, Flow!Name, FlowInv, NumbersInv, Numbered
<1> QED
  BY <1>1, <1>2

-----------------------------------------------------------------------------
(* The Content-Type Builder.                                               *)

\* The library of the builder means the same by Cardinality.
LEMMA TypesCardinality == \A S : Types!Cardinality(S) = Cardinality(S)
  BY DEF Types!Cardinality, Cardinality, Types!IsFiniteSet, IsFiniteSet

\* What is kept of a sequence is each of its elements at the places given, once and nothing else.
LEMMA KeptIs ==
    ASSUME NEW S, NEW s \in Seq(S), NEW P \in SUBSET (DOMAIN s)
    PROVE  /\ Types!Kept(s, P) \in Seq(S)
           /\ \E f \in [DOMAIN Types!Kept(s, P) -> P] :
                  /\ \A k \in DOMAIN Types!Kept(s, P) : Types!Kept(s, P)[k] = s[f[k]]
                  /\ \A j, k \in DOMAIN Types!Kept(s, P) : f[j] = f[k] => j = k
                  /\ \A p \in P : \E k \in DOMAIN Types!Kept(s, P) : f[k] = p
<1> DEFINE N == Cardinality(P)
           before == [e \in P |-> {d \in P : d < e}]
           nth(k) == CHOOSE i \in P : Types!Cardinality({j \in P : j < i}) = k - 1
           f == [k \in 1 .. N |-> nth(k)]
<1>1. P \subseteq Nat /\ IsFiniteSet(P) /\ N \in Nat
  <2>1. Len(s) \in Nat /\ DOMAIN s = 1 .. Len(s)
    OBVIOUS
  <2>2. IsFiniteSet(1 .. Len(s))
    BY <2>1, FS_Interval
  <2>3. IsFiniteSet(P)
    BY <2>1, <2>2, FS_Subset
  <2> QED
    BY <2>1, <2>3, FS_CardinalityType
<1> HIDE DEF N
<1>2. before \in [P -> SUBSET P] /\ \A e \in P : before[e] = {d \in P : d < e}
  OBVIOUS
<1> HIDE DEF before
<1>3. Ordered(P, before)
  <2>1. \A d \in P : d \notin before[d]
    BY <1>1, <1>2
  <2>2. \A d, e \in P : d # e => d \in before[e] \/ e \in before[d]
    BY <1>1, <1>2
  <2>3. ASSUME NEW d \in P, NEW e \in P, d \in before[e], NEW c \in before[d] PROVE c \in before[e]
    <3>1. c \in P /\ c < d /\ d < e
      BY <1>2, <2>3
    <3>2. c < e
      BY <1>1, <3>1
    <3> QED
      BY <1>2, <3>1, <3>2
  <2> QED
    BY <1>1, <1>2, <2>1, <2>2, <2>3 DEF Ordered
<1>4. ASSUME NEW k \in 1 .. N
      PROVE  nth(k) \in P /\ Cardinality(before[nth(k)]) = k - 1
  <2>1. k - 1 \in 0 .. N - 1
    BY <1>1
  <2>2. \E e \in P : Cardinality(before[e]) = k - 1
    BY <1>3, <2>1, ByRank DEF N
  <2>3. \E i \in P : Types!Cardinality({j \in P : j < i}) = k - 1
    BY <1>2, <2>2, TypesCardinality
  <2>4. nth(k) \in P /\ Types!Cardinality({j \in P : j < nth(k)}) = k - 1
    BY <2>3
  <2> HIDE DEF nth
  <2> QED
    BY <1>2, <2>4, TypesCardinality
<1> HIDE DEF nth
<1>5. f \in [1 .. N -> P] /\ \A k \in 1 .. N : f[k] = nth(k)
  BY <1>4
<1>6. Types!Kept(s, P) = [k \in 1 .. N |-> s[f[k]]]
  BY <1>5, TypesCardinality DEF Types!Kept, N, nth
<1> HIDE DEF f
<1>7. \A j, k \in 1 .. N : f[j] = f[k] => j = k
  <2> SUFFICES ASSUME NEW j \in 1 .. N, NEW k \in 1 .. N, f[j] = f[k] PROVE j = k
    OBVIOUS
  <2>1. j - 1 = k - 1
    BY <1>4, <1>5
  <2> QED
    BY <1>1, <2>1
<1>8. f \in Injection(1 .. N, P)
  BY <1>5, <1>7 DEF Injection, IsInjective
<1>9. IsFiniteSet(1 .. N) /\ Cardinality(1 .. N) = N
  BY <1>1, FS_Interval
<1>10. f \in Surjection(1 .. N, P)
  BY <1>1, <1>8, <1>9, FS_Injection DEF N
<1>11. \A p \in P : \E k \in 1 .. N : f[k] = p
  BY <1>10 DEF Surjection
<1>12. \A k \in 1 .. N : s[f[k]] \in S
  BY <1>5
<1> HIDE DEF N
<1>13. Types!Kept(s, P) \in Seq(S) /\ DOMAIN Types!Kept(s, P) = 1 .. N
  BY <1>1, <1>6, <1>12
<1> QED
  BY <1>5, <1>6, <1>7, <1>11, <1>13

\* The fields of a content type.
LEMMA FieldsAre ==
    \A f : f \in Types!Fields <=> DOMAIN f \subseteq Names /\ f \in [DOMAIN f -> {Types!Plain} \cup Uids]
  BY DEF Types!Fields

\* A content type may have no field.
LEMMA NoFields == <<>> \in Types!Fields /\ DOMAIN <<>> = {}
<1>1. DOMAIN <<>> = {}
  OBVIOUS
<1>2. <<>> \in Seq({Types!Plain} \cup Uids) /\ Len(<<>>) = 0
  OBVIOUS
<1>3. <<>> \in [1 .. 0 -> {Types!Plain} \cup Uids]
  BY <1>2
<1>4. 1 .. 0 = {}
  OBVIOUS
<1> QED
  BY <1>1, <1>3, <1>4, FieldsAre

\* With one more field, fields are fields.
LEMMA WithIs ==
    ASSUME NEW fields \in Types!Fields, NEW name \in Names, NEW def \in {Types!Plain} \cup Uids
    PROVE  /\ Types!With(fields, name, def) \in Types!Fields
           /\ DOMAIN Types!With(fields, name, def) = DOMAIN fields \cup {name}
<1> DEFINE w == Types!With(fields, name, def)
<1>1. DOMAIN fields \subseteq Names /\ fields \in [DOMAIN fields -> {Types!Plain} \cup Uids]
  BY FieldsAre
<1>2. DOMAIN w = DOMAIN fields \cup {name} /\ w \in [DOMAIN fields \cup {name} -> {Types!Plain} \cup Uids]
  BY <1>1 DEF Types!With
<1> HIDE DEF w
<1>3. w \in Types!Fields
  BY <1>1, <1>2, FieldsAre
<1> QED
  BY <1>2, <1>3 DEF w

\* FieldConfig takes away no field but the one whose name was changed.
LEMMA ConfiguredIs ==
    ASSUME NEW fields \in Types!Fields, NEW old \in Names, NEW name \in Names, NEW def \in {Types!Plain} \cup Uids
    PROVE  /\ Types!Configured(fields, old, name, def) \in Types!Fields
           /\ DOMAIN fields \ ({old} \ {name}) \subseteq DOMAIN Types!Configured(fields, old, name, def)
<1> DEFINE rest == [n \in DOMAIN fields \ ({old} \ {name}) |-> fields[n]]
<1>1. DOMAIN fields \subseteq Names /\ fields \in [DOMAIN fields -> {Types!Plain} \cup Uids]
  BY FieldsAre
<1>2. DOMAIN rest = DOMAIN fields \ ({old} \ {name}) /\ rest \in [DOMAIN rest -> {Types!Plain} \cup Uids]
  BY <1>1
<1> HIDE DEF rest
<1>3. rest \in Types!Fields
  BY <1>1, <1>2, FieldsAre
<1>4. Types!Configured(fields, old, name, def) = Types!With(rest, name, def)
  BY DEF Types!Configured, rest
<1>5. /\ Types!With(rest, name, def) \in Types!Fields
      /\ DOMAIN Types!With(rest, name, def) = DOMAIN rest \cup {name}
  BY <1>3, WithIs
<1> QED
  BY <1>2, <1>4, <1>5

\* A list of all that is stored: each of the content types, once.
LEMMA AllStoredIs ==
    ASSUME IsFiniteSet(DOMAIN registry)
    PROVE  LET all == Types!AllStored
           IN  /\ Len(all) \in Nat /\ DOMAIN all = 1 .. Len(all)
               /\ \A i \in DOMAIN all : all[i].uid \in DOMAIN registry /\ all[i] = Types!InRegistry(all[i].uid)
               /\ DOMAIN registry = Types!Listed(all)
<1> DEFINE us == Types!SetToSeq(DOMAIN registry)
           N == Cardinality(DOMAIN registry)
<1>1. N \in Nat
  BY FS_CardinalityType
<1>2. IsFiniteSet(1 .. N) /\ Cardinality(1 .. N) = N
  BY <1>1, FS_Interval
<1>3. Bijection(1 .. N, DOMAIN registry) # {}
  BY <1>2, FS_SameCardinalityBij DEF ExistsBijection
<1> HIDE DEF N
<1>4. \E f \in [1 .. N -> DOMAIN registry] : Types!IsInjective(f)
  BY <1>3 DEF Bijection, Injection, IsInjective, Types!IsInjective
<1>5. us \in [1 .. N -> DOMAIN registry] /\ Types!IsInjective(us)
  BY <1>4, TypesCardinality DEF Types!SetToSeq, N
<1> HIDE DEF us
<1>6. us \in Surjection(1 .. N, DOMAIN registry)
  <2>1. us \in Injection(1 .. N, DOMAIN registry)
    BY <1>5 DEF Injection, IsInjective, Types!IsInjective
  <2> QED
    BY <1>2, <2>1, FS_Injection DEF N
<1>7. Types!AllStored = [i \in 1 .. N |-> Types!InRegistry(us[i])]
  BY <1>5 DEF Types!AllStored, us
<1>8. DOMAIN Types!AllStored = 1 .. N /\ Len(Types!AllStored) = N
  BY <1>1, <1>7
<1>9. \A i \in 1 .. N : Types!AllStored[i].uid = us[i] /\ us[i] \in DOMAIN registry
  BY <1>5, <1>7 DEF Types!InRegistry
<1>10. DOMAIN registry = Types!Listed(Types!AllStored)
  <2>1. \A u \in DOMAIN registry : \E i \in 1 .. N : us[i] = u
    BY <1>6 DEF Surjection
  <2> DEFINE all == Types!AllStored
  <2>2. DOMAIN all = 1 .. N /\ \A i \in 1 .. N : all[i].uid = us[i] /\ us[i] \in DOMAIN registry
    BY <1>8, <1>9
  <2> HIDE DEF all
  <2>3. DOMAIN registry = {all[i].uid : i \in DOMAIN all}
    BY <2>1, <2>2
  <2> QED
    BY <2>3 DEF Types!Listed, all
<1> QED
  BY <1>1, <1>7, <1>8, <1>9, <1>10

\* What is stored once a list was applied to it.
Stores(new, stored, list, removed) ==
    /\ DOMAIN new = (DOMAIN stored \ removed) \cup Types!Listed(list)
    /\ \A i \in DOMAIN list : new[list[i].uid] = list[i].fields
    /\ \A u \in DOMAIN stored : u \notin removed \cup Types!Listed(list) => new[u] = stored[u]

\* What ctb_apply stores of a valid list.
LEMMA AppliedIs ==
    ASSUME NEW list, NEW removed, Types!Valid(list)
    PROVE  Stores(Types!Applied(list, removed), registry, list, removed)
<1>1. \A i, j \in DOMAIN list : list[i].uid = list[j].uid => i = j
  BY DEF Types!Valid, Types!IsInjective
<1>2. ASSUME NEW i \in DOMAIN list PROVE Types!FieldsIn(list, list[i].uid) = list[i].fields
  <2>1. (CHOOSE j \in DOMAIN list : list[j].uid = list[i].uid) = i
    BY <1>1
  <2> QED
    BY <2>1 DEF Types!FieldsIn
<1> QED
  BY <1>2 DEF Stores, Types!Applied, Types!Listed

-----------------------------------------------------------------------------

\* The schema at a place of a list is the only one of its content type.
Alone(list, i) == \A j \in DOMAIN list : list[j].uid = list[i].uid => j = i

\* Of what is stored, a list lacks no field, and no content type, but those whose removal was confirmed.
KeepsFields(list, stored, confirmed) ==
    \A i \in DOMAIN list : Alone(list, i) /\ list[i].uid \in DOMAIN stored \ confirmed =>
        \A n \in DOMAIN stored[list[i].uid] \ DOMAIN list[i].fields : <<list[i].uid, n>> \in confirmed
KeepsTypes(list, stored, confirmed) == DOMAIN stored \subseteq Types!Listed(list) \cup confirmed

\* A copy of the schemas was made from a list by edits, each removal of which was confirmed.
Edited(list, copied, confirmed) ==
    /\ Len(list) = Len(copied)
    /\ \A i \in DOMAIN list :
           /\ list[i].uid = copied[i].uid
           /\ \A n \in DOMAIN list[i].fields \ DOMAIN copied[i].fields : <<list[i].uid, n>> \in confirmed

\* A list is of what is stored.
Mirrors(list, stored) ==
    \A i \in DOMAIN list : list[i].uid \in DOMAIN stored /\ list[i].fields = stored[list[i].uid]

\* The schemas of a bundle have the fields that are stored, or none.
OfBundle(list, stored) ==
    \A i \in DOMAIN list :
        list[i].fields = IF list[i].uid \in DOMAIN stored THEN stored[list[i].uid] ELSE <<>>

\* Of the call under way: it is the page's own; it was answered, and was an import that is stored.
Ours(calls_) == calls_ # <<>> /\ calls_[1].of # "gone"
Bundled(calls_) == calls_ # <<>> /\ calls_[1].of = "import" /\ calls_[1].pc = "answered" /\ calls_[1].ok

\* What a call that is still to be served would do.
Harmless(call, copied, stored, confirmed) ==
    /\ call.removed \subseteq confirmed
    /\ KeepsFields(call.list, stored, confirmed)
    /\ call.of # "import" => Edited(call.list, copied, confirmed)
    /\ call.of = "import" => OfBundle(call.list, stored)

BuilderTyped ==
    /\ Types!BuilderTypeOK /\ Len(applies) <= 1
    /\ \A k \in DOMAIN applies :
           /\ applies[k].of = "gone" => applies[k].pc = "called"
           /\ onPage # "list" => applies[k].of \in {"save", "gone"}
           /\ applies[k].of = "create" => applies[k].list # <<>>

\* While nobody else saves, the copy and the page's own call would take nothing away that was not confirmed.
CopyInv ==
    current =>
        /\ load.at # "over" => working = <<>> /\ ~dirty /\ ~Ours(applies)
        /\ load.at = "read" => Mirrors(load.list, registry) /\ DOMAIN registry \subseteq Types!Listed(load.list)
        /\ load.at = "over" =>
               /\ KeepsFields(working, registry, asked)
               /\ Bundled(applies) \/ KeepsTypes(working, registry, asked)
               /\ Ours(applies) /\ applies[1].pc = "called" => Harmless(applies[1], working, registry, asked)

\* And the editor with nothing to save shows what is stored; or a save of just that is under way.
ShownInv ==
    onPage # "list" /\ current /\ load.at = "over" /\ ~during =>
        /\ ~Ours(applies) => dirty \/ Mirrors(working, registry)
        /\ Ours(applies) /\ applies[1].pc = "called" => dirty /\ applies[1].list = working
        /\ Ours(applies) /\ applies[1].pc = "answered" =>
               IF applies[1].ok THEN Mirrors(working, registry) ELSE dirty

BuilderInv == BuilderTyped /\ CopyInv /\ ShownInv

\* The empty sequence, of any elements.
LEMMA Empty == ASSUME NEW S PROVE <<>> \in Seq(S) /\ Len(<<>>) = 0 /\ DOMAIN <<>> = {}
  OBVIOUS

\* The load of a page as it begins, and where it fails.
LEMMA Unread ==
    /\ Types!Unread \in Types!Load /\ Types!Unread.at = "asked"
    /\ [Types!Unread EXCEPT !.at = "over"] \in Types!Load /\ [Types!Unread EXCEPT !.at = "over"].at = "over"
<1>1. <<>> \in Seq(Types!Schema)
  BY Empty
<1> QED
  BY <1>1 DEF Types!Unread, Types!Load

\* Finitely many content types are stored.
LEMMA RegistryFinite == ASSUME Types!BuilderAssumption, BuilderTyped PROVE IsFiniteSet(DOMAIN registry)
<1>1. IsFiniteSet(Uids)
  BY DEF Types!BuilderAssumption, Types!IsFiniteSet, IsFiniteSet
<1>2. DOMAIN registry \subseteq Uids
  BY DEF BuilderTyped, Types!BuilderTypeOK
<1> QED
  BY <1>1, <1>2, FS_Subset

\* A first page has an empty copy and no call.
LEMMA BuilderInit == ASSUME Types!BuilderAssumption, Types!Init PROVE BuilderInv
<1>1. PICK S \in SUBSET Uids : \E f \in Names :
        registry \in [S -> {<<>>} \cup {Types!With(<<>>, f, d) : d \in {Types!Plain} \cup S}]
  BY DEF Types!Init
<1>2. PICK f \in Names :
        registry \in [S -> {<<>>} \cup {Types!With(<<>>, f, d) : d \in {Types!Plain} \cup S}]
  BY <1>1
<1>3. \A d \in {Types!Plain} \cup S : Types!With(<<>>, f, d) \in Types!Fields
  BY NoFields, WithIs
<1>4. DOMAIN registry \subseteq Uids /\ \A u \in DOMAIN registry : registry[u] \in Types!Fields
  BY <1>2, <1>3, NoFields
<1>5. /\ onPage \in {"list"} \cup Uids /\ load = Types!Unread /\ working = <<>> /\ dirty = FALSE
      /\ applies = <<>> /\ current = TRUE /\ during = FALSE
  BY DEF Types!Init
<1>6. Types!Unread \in Types!Load /\ Types!Unread.at = "asked"
  BY Unread
<1>7. BuilderTyped
  <2>1. working \in Seq(Types!Schema) /\ applies \in Seq(Types!Apply) /\ Len(applies) = 0 /\ DOMAIN applies = {}
    BY <1>5, Empty
  <2>2. dirty \in BOOLEAN /\ current \in BOOLEAN /\ during \in BOOLEAN /\ load \in Types!Load
    BY <1>5, <1>6
  <2>3. Types!BuilderTypeOK
    BY <1>4, <1>5, <2>1, <2>2 DEF Types!BuilderTypeOK
  <2> QED
    BY <2>1, <2>3 DEF BuilderTyped
<1> QED
  BY <1>5, <1>6, <1>7 DEF BuilderInv, CopyInv, ShownInv, Ours

\* A page that opens begins anew; only calls that nobody waits for may still be served.
LEMMA PageOpens ==
    ASSUME BuilderInv, NEW next \in {"list"} \cup Uids, Types!Open(next), registry' = registry
    PROVE  BuilderInv'
<1>1. /\ onPage' = next /\ load' = Types!Unread /\ working' = <<>> /\ dirty' = FALSE /\ during' = FALSE
      /\ current' = TRUE
  BY DEF Types!Open
<1>2. PICK was \in {applies, <<>>} :
        LET rest == Types!Kept(was, {k \in DOMAIN was : was[k].pc = "called"})
        IN  applies' = [i \in DOMAIN rest |-> [rest[i] EXCEPT !.of = "gone"]]
  BY DEF Types!Open
<1> DEFINE P == {k \in DOMAIN was : was[k].pc = "called"}
           rest == Types!Kept(was, P)
<1>3. was \in Seq(Types!Apply) /\ Len(was) <= 1
  <2>1. applies \in Seq(Types!Apply) /\ Len(applies) <= 1
    BY DEF BuilderInv, BuilderTyped, Types!BuilderTypeOK
  <2> QED
    <3>1. <<>> \in Seq(Types!Apply) /\ Len(<<>>) = 0
      BY Empty
    <3>2. was = applies \/ was = <<>>
      BY <1>2
    <3>3. CASE was = applies
      BY ONLY <2>1, <3>3
    <3>4. CASE was = <<>>
      BY ONLY <3>1, <3>4
    <3> QED
      BY <3>2, <3>3, <3>4
<1>4. P \in SUBSET (DOMAIN was) /\ \A p \in P : was[p].pc = "called"
  OBVIOUS
<1>5. applies' = [i \in DOMAIN rest |-> [rest[i] EXCEPT !.of = "gone"]]
  BY <1>2
<1> HIDE DEF P
<1>6. rest \in Seq(Types!Apply)
  BY <1>3, <1>4, KeptIs
<1>7. PICK f \in [DOMAIN rest -> P] :
        /\ \A k \in DOMAIN rest : rest[k] = was[f[k]]
        /\ \A j, k \in DOMAIN rest : f[j] = f[k] => j = k
  BY <1>3, <1>4, KeptIs
<1> HIDE DEF rest
<1>8. Len(rest) <= 1
  <2> SUFFICES ASSUME ~(Len(rest) <= 1) PROVE FALSE
    OBVIOUS
  <2>1. 1 \in DOMAIN rest /\ 2 \in DOMAIN rest
    BY <1>6
  <2>2. f[1] \in DOMAIN was /\ f[2] \in DOMAIN was
    BY <1>4, <1>7, <2>1
  <2>3. f[1] = 1 /\ f[2] = 1
    BY <1>3, <2>2
  <2> QED
    BY <1>7, <2>1, <2>3
<1>9. ASSUME NEW k \in DOMAIN rest
      PROVE  [rest[k] EXCEPT !.of = "gone"] \in Types!Apply /\ rest[k].pc = "called"
  <2>1. rest[k] \in Types!Apply
    BY <1>6
  <2>2. rest[k].pc = "called"
    BY <1>4, <1>7
  <2> QED
    BY <2>1, <2>2 DEF Types!Apply
<1>10. applies' \in Seq(Types!Apply) /\ DOMAIN applies' = DOMAIN rest /\ Len(applies') <= 1
  BY <1>5, <1>6, <1>8, <1>9
<1>11. \A k \in DOMAIN applies' : applies'[k].of = "gone" /\ applies'[k].pc = "called"
  <2> SUFFICES ASSUME NEW k \in DOMAIN rest PROVE applies'[k].of = "gone" /\ applies'[k].pc = "called"
    BY <1>10
  <2>1. rest[k] \in Types!Apply
    BY <1>6
  <2>2. applies'[k] = [rest[k] EXCEPT !.of = "gone"]
    BY <1>5
  <2> QED
    BY <1>9, <2>1, <2>2 DEF Types!Apply
<1>12. Types!Unread \in Types!Load /\ Types!Unread.at = "asked"
  BY Unread
<1>13. BuilderTyped'
  <2>1. working' \in Seq(Types!Schema) /\ load' \in Types!Load
    BY <1>1, <1>12, Empty
  <2>2. Types!BuilderTypeOK'
    BY <1>1, <1>10, <2>1 DEF BuilderInv, BuilderTyped, Types!BuilderTypeOK
  <2> QED
    BY <1>10, <1>11, <2>2 DEF BuilderTyped
<1>14. ~Ours(applies')
  BY <1>10, <1>11 DEF Ours
<1>15. CopyInv'
  BY <1>1, <1>12, <1>14 DEF CopyInv
<1>16. ShownInv'
  BY <1>1, <1>12 DEF ShownInv
<1> QED
  BY <1>13, <1>15, <1>16 DEF BuilderInv

\* What a page reads is all that is stored.
LEMMA SchemasRead == ASSUME Types!BuilderAssumption, BuilderInv, Types!ReadSchemas PROVE BuilderInv'
<1>1. load.at = "asked" /\ UNCHANGED <<registry, onPage, working, dirty, applies, asked, during>>
  BY DEF Types!ReadSchemas
<1>2. CASE load' = [at |-> "read", list |-> Types!AllStored] /\ current' = current
  <2> DEFINE all == Types!AllStored
  <2>1. /\ Len(all) \in Nat /\ DOMAIN all = 1 .. Len(all) /\ DOMAIN registry = Types!Listed(all)
        /\ \A i \in DOMAIN all : all[i].uid \in DOMAIN registry /\ all[i] = Types!InRegistry(all[i].uid)
    BY RegistryFinite, AllStoredIs DEF BuilderInv
  <2>2. all = [i \in 1 .. Len(all) |-> all[i]]
    BY <2>1 DEF Types!AllStored
  <2> HIDE DEF all
  <2>3. \A i \in DOMAIN all : all[i] \in Types!Schema /\ all[i].fields = registry[all[i].uid]
    <3> SUFFICES ASSUME NEW i \in DOMAIN all
                 PROVE  all[i] \in Types!Schema /\ all[i].fields = registry[all[i].uid]
      OBVIOUS
    <3> DEFINE u == all[i].uid
    <3>1. u \in DOMAIN registry /\ all[i] = Types!InRegistry(u)
      BY <2>1
    <3>2. u \in Uids /\ registry[u] \in Types!Fields
      BY <3>1 DEF BuilderInv, BuilderTyped, Types!BuilderTypeOK
    <3> HIDE DEF u
    <3>3. all[i] = [uid |-> u, fields |-> registry[u]]
      BY <3>1 DEF Types!InRegistry
    <3>4. all[i] \in Types!Schema /\ all[i].fields = registry[u]
      BY <3>2, <3>3 DEF Types!Schema
    <3> QED
      BY <3>4 DEF u
  <2>4. all \in Seq(Types!Schema)
    BY <2>1, <2>2, <2>3
  <2>5. load' \in Types!Load /\ load'.at = "read" /\ load'.list = all
    BY <1>2, <2>4 DEF Types!Load, all
  <2>6. BuilderTyped'
    BY <1>1, <1>2, <2>5 DEF BuilderInv, BuilderTyped, Types!BuilderTypeOK
  <2>7. Mirrors(all, registry) /\ DOMAIN registry \subseteq Types!Listed(all)
    BY <2>1, <2>3 DEF Mirrors
  <2>8. CopyInv'
    BY <1>1, <1>2, <2>5, <2>7 DEF BuilderInv, CopyInv
  <2>9. ShownInv'
    BY <2>5 DEF ShownInv
  <2> QED
    BY <2>6, <2>8, <2>9 DEF BuilderInv
<1>3. CASE load' = [Types!Unread EXCEPT !.at = "over"] /\ current' = FALSE
  <2>1. load' \in Types!Load
    BY <1>3, Unread
  <2>2. BuilderTyped'
    BY <1>1, <1>3, <2>1 DEF BuilderInv, BuilderTyped, Types!BuilderTypeOK
  <2> QED
    BY <1>3, <2>2 DEF BuilderInv, CopyInv, ShownInv
<1> QED
  BY <1>2, <1>3 DEF Types!ReadSchemas

\* The copy that was read takes nothing away.
LEMMA SchemasLoaded == ASSUME BuilderInv, Types!Loaded PROVE BuilderInv'
<1>1. /\ load.at = "read" /\ working' = load.list /\ load' = [Types!Unread EXCEPT !.at = "over"]
      /\ UNCHANGED <<registry, onPage, dirty, applies, asked, current, during>>
  BY DEF Types!Loaded
<1>2. load' \in Types!Load /\ load'.at = "over"
  BY <1>1, Unread
<1>3. load.list \in Seq(Types!Schema)
  BY DEF BuilderInv, BuilderTyped, Types!BuilderTypeOK, Types!Load
<1>4. BuilderTyped'
  BY <1>1, <1>2, <1>3 DEF BuilderInv, BuilderTyped, Types!BuilderTypeOK
<1>5. ASSUME current
      PROVE  /\ ~Ours(applies) /\ Mirrors(load.list, registry) /\ KeepsTypes(load.list, registry, asked)
             /\ KeepsFields(load.list, registry, asked)
  BY <1>1, <1>5 DEF BuilderInv, CopyInv, Mirrors, KeepsTypes, KeepsFields
<1>6. CopyInv'
  BY <1>1, <1>2, <1>5 DEF CopyInv
<1>7. ShownInv'
  BY <1>1, <1>2, <1>5 DEF ShownInv
<1> QED
  BY <1>4, <1>6, <1>7 DEF BuilderInv

\* A call begins, alone; who clicked made a copy that would take nothing away that was not confirmed, and
\* sends what would not either.
LEMMA ClickStep ==
    ASSUME BuilderInv, AtOnce = 1,
           NEW of \in {"create", "delete", "save", "import"}, NEW list \in Seq(Types!Schema),
           NEW removed \in SUBSET Uids, Types!Click(of, list, removed),
           working' \in Seq(Types!Schema), dirty' = dirty, during' = during,
           onPage = "list" \/ (of = "save" /\ dirty /\ list = working'), of = "create" => list # <<>>,
           current' =>
               /\ KeepsFields(working', registry, asked') /\ KeepsTypes(working', registry, asked')
               /\ removed \subseteq asked' /\ KeepsFields(list, registry, asked')
               /\ of # "import" => Edited(list, working', asked')
               /\ of = "import" => OfBundle(list, registry)
    PROVE  BuilderInv'
<1> DEFINE a == [pc |-> "called", of |-> of, list |-> list, removed |-> removed, ok |-> FALSE]
<1>1. /\ Len(applies) < 1 /\ applies' = Append(applies, a) /\ current' = (current /\ load.at = "over")
      /\ registry' = registry /\ onPage' = onPage /\ load' = load
  BY DEF Types!Click
<1>2. a \in Types!Apply
  BY DEF Types!Apply
<1>3. a.pc = "called" /\ a.of = of /\ a.list = list /\ a.removed = removed
  OBVIOUS
<1> HIDE DEF a
<1>4. applies = <<>>
  BY <1>1 DEF BuilderInv, BuilderTyped, Types!BuilderTypeOK
<1>5. applies' = <<a>>
  BY <1>1, <1>4
<1>6. applies' \in Seq(Types!Apply) /\ Len(applies') = 1 /\ DOMAIN applies' = {1} /\ applies'[1] = a /\ applies' # <<>>
  BY <1>2, <1>5
<1>7. BuilderTyped'
  <2>1. Types!BuilderTypeOK'
    BY <1>1, <1>6 DEF BuilderInv, BuilderTyped, Types!BuilderTypeOK
  <2> QED
    BY <1>1, <1>3, <1>6, <2>1 DEF BuilderTyped
<1>8. Ours(applies') /\ ~Bundled(applies')
  BY <1>3, <1>6 DEF Ours, Bundled
<1>9. CopyInv'
  <2>1. current' => Harmless(a, working', registry', asked')
    BY <1>1, <1>3 DEF Harmless
  <2> QED
    BY <1>1, <1>3, <1>6, <2>1 DEF CopyInv
<1>10. ShownInv'
  BY <1>1, <1>3, <1>6 DEF ShownInv
<1> QED
  BY <1>7, <1>9, <1>10 DEF BuilderInv

\* With the schema of a content type that it lacked, a copy still keeps what is stored.
LEMMA Appended ==
    ASSUME BuilderInv, current, load.at = "over", applies = <<>>, NEW s \in Types!Schema
    PROVE  LET list == Append(working, s)
           IN  /\ list \in Seq(Types!Schema)
               /\ KeepsFields(list, registry, asked) /\ KeepsTypes(list, registry, asked)
               /\ Edited(list, list, asked)
<1> DEFINE list == Append(working, s)
<1>1. working \in Seq(Types!Schema) /\ Len(working) \in Nat /\ DOMAIN working = 1 .. Len(working)
  BY DEF BuilderInv, BuilderTyped, Types!BuilderTypeOK
<1>2. /\ list \in Seq(Types!Schema) /\ Len(list) = Len(working) + 1 /\ list[Len(working) + 1] = s
      /\ \A i \in DOMAIN working : list[i] = working[i] /\ i \in DOMAIN list
      /\ \A i \in DOMAIN list : i \in DOMAIN working \/ i = Len(working) + 1
      /\ Len(working) + 1 \in DOMAIN list /\ Len(working) + 1 \notin DOMAIN working
  BY <1>1
<1>3. KeepsFields(working, registry, asked) /\ KeepsTypes(working, registry, asked)
  BY DEF BuilderInv, CopyInv, Bundled
<1> HIDE DEF list
<1>4. KeepsTypes(list, registry, asked)
  BY <1>2, <1>3 DEF KeepsTypes, Types!Listed
<1>5. ASSUME NEW i \in DOMAIN list, Alone(list, i), list[i].uid \in DOMAIN registry \ asked,
             NEW n \in DOMAIN registry[list[i].uid] \ DOMAIN list[i].fields
      PROVE  <<list[i].uid, n>> \in asked
  <2>1. CASE i \in DOMAIN working
    <3>1. Alone(working, i)
      BY <1>2, <1>5, <2>1 DEF Alone
    <3> QED
      BY <1>2, <1>3, <1>5, <2>1, <3>1 DEF KeepsFields
  <2>2. CASE i = Len(working) + 1
    <3>1. PICK j \in DOMAIN working : working[j].uid = list[i].uid
      BY <1>3, <1>5 DEF KeepsTypes, Types!Listed
    <3>2. j \in DOMAIN list /\ list[j].uid = list[i].uid /\ j # i
      BY <1>2, <2>2, <3>1
    <3> QED
      BY <1>5, <3>2 DEF Alone
  <2> QED
    BY <1>2, <2>1, <2>2
<1>6. KeepsFields(list, registry, asked)
  BY <1>5 DEF KeepsFields
<1>7. Edited(list, list, asked)
  BY DEF Edited
<1> QED
  BY <1>2, <1>4, <1>6, <1>7 DEF list

\* Where a call is clicked while nobody else saved, there is none under way.
LEMMA ClickAlone ==
    ASSUME BuilderInv, AtOnce = 1, NEW of, NEW list, NEW removed, Types!Click(of, list, removed)
    PROVE  applies = <<>> /\ registry' = registry /\ (current' => current /\ load.at = "over")
<1>1. Len(applies) < 1 /\ registry' = registry /\ current' = (current /\ load.at = "over")
  BY DEF Types!Click
<1>2. applies \in Seq(Types!Apply)
  BY DEF BuilderInv, BuilderTyped, Types!BuilderTypeOK
<1>3. applies = <<>>
  BY <1>1, <1>2
<1> QED
  BY <1>1, <1>3

\* Create.
LEMMA Created ==
    ASSUME BuilderInv, AtOnce = 1, NEW u \in Uids, Types!Create(u)
    PROVE  BuilderInv'
<1> DEFINE s == [uid |-> u, fields |-> <<>>]
<1>1. /\ onPage = "list" /\ working' = Append(working, s) /\ Types!Click("create", working', {})
      /\ UNCHANGED <<dirty, asked, during>>
  BY DEF Types!Create
<1>2. s \in Types!Schema
  BY NoFields DEF Types!Schema
<1> HIDE DEF s
<1>3. working \in Seq(Types!Schema)
  BY DEF BuilderInv, BuilderTyped, Types!BuilderTypeOK
<1>4. working' \in Seq(Types!Schema)
  BY <1>1, <1>2, <1>3
<1>5. applies = <<>> /\ (current' => current /\ load.at = "over")
  BY <1>1, ClickAlone
<1>6. current' => /\ KeepsFields(working', registry, asked') /\ KeepsTypes(working', registry, asked')
                  /\ Edited(working', working', asked')
  BY <1>1, <1>2, <1>5, Appended
<1>7. {} \in SUBSET Uids /\ {} \subseteq asked'
  OBVIOUS
<1> DEFINE list == working'
<1>8. list \in Seq(Types!Schema) /\ Types!Click("create", list, {}) /\ list # <<>>
  BY <1>1, <1>3, <1>4
<1>9. current' => /\ KeepsFields(working', registry, asked') /\ KeepsTypes(working', registry, asked')
                  /\ {} \subseteq asked' /\ KeepsFields(list, registry, asked')
                  /\ Edited(list, working', asked')
  BY <1>6
<1> HIDE DEF list
<1> QED
  BY <1>1, <1>4, <1>7, <1>8, <1>9, ClickStep

\* Duplicate.
LEMMA Duplicated ==
    ASSUME Types!BuilderAssumption, BuilderInv, AtOnce = 1, NEW i \in DOMAIN working, Types!Duplicate(i)
    PROVE  BuilderInv'
<1> DEFINE s == [working[i] EXCEPT !.uid = CopyOf(@)]
<1>1. /\ onPage = "list" /\ working' = Append(working, s) /\ Types!Click("save", working', {})
      /\ UNCHANGED <<dirty, asked, during>>
  BY DEF Types!Duplicate
<1>2. working \in Seq(Types!Schema)
  BY DEF BuilderInv, BuilderTyped, Types!BuilderTypeOK
<1>3. s \in Types!Schema
  <2>1. working[i] \in Types!Schema
    BY <1>2
  <2>2. CopyOf(working[i].uid) \in Uids
    BY <2>1 DEF Types!Schema, Types!BuilderAssumption
  <2> QED
    BY <2>1, <2>2 DEF Types!Schema
<1> HIDE DEF s
<1>4. working' \in Seq(Types!Schema)
  BY <1>1, <1>2, <1>3
<1>5. applies = <<>> /\ (current' => current /\ load.at = "over")
  BY <1>1, ClickAlone
<1>6. current' => /\ KeepsFields(working', registry, asked') /\ KeepsTypes(working', registry, asked')
                  /\ Edited(working', working', asked')
  BY <1>1, <1>3, <1>5, Appended
<1>7. {} \in SUBSET Uids /\ {} \subseteq asked'
  OBVIOUS
<1> DEFINE list == working'
<1>8. list \in Seq(Types!Schema) /\ Types!Click("save", list, {})
  BY <1>1, <1>4
<1>9. current' => /\ KeepsFields(working', registry, asked') /\ KeepsTypes(working', registry, asked')
                  /\ {} \subseteq asked' /\ KeepsFields(list, registry, asked')
                  /\ Edited(list, working', asked')
  BY <1>6
<1> HIDE DEF list
<1> QED
  BY <1>1, <1>4, <1>7, <1>8, <1>9, ClickStep

\* Delete: what leaves the copy was confirmed.
LEMMA Deleted ==
    ASSUME BuilderInv, AtOnce = 1, NEW u \in Uids, Types!Delete(u)
    PROVE  BuilderInv'
<1> DEFINE P == {i \in DOMAIN working : working[i].uid # u}
<1>1. /\ onPage = "list" /\ working' = Types!Kept(working, P) /\ Types!Click("delete", working', {u})
      /\ asked' = asked \cup {u} /\ UNCHANGED <<dirty, during>>
  BY DEF Types!Delete
<1>2. working \in Seq(Types!Schema)
  BY DEF BuilderInv, BuilderTyped, Types!BuilderTypeOK
<1>3. P \in SUBSET (DOMAIN working) /\ \A i \in DOMAIN working : i \in P <=> working[i].uid # u
  OBVIOUS
<1> HIDE DEF P
<1> DEFINE rest == Types!Kept(working, P)
<1>4. rest \in Seq(Types!Schema)
  BY <1>2, <1>3, KeptIs
<1>10. \E f \in [DOMAIN rest -> P] :
        /\ \A k \in DOMAIN rest : rest[k] = working[f[k]]
        /\ \A j, k \in DOMAIN rest : f[j] = f[k] => j = k
        /\ \A p \in P : \E k \in DOMAIN rest : f[k] = p
  BY <1>2, <1>3, KeptIs
<1>11. working' = rest
  BY <1>1
<1> HIDE DEF rest
<1>5. PICK f \in [DOMAIN working' -> P] :
        /\ \A k \in DOMAIN working' : working'[k] = working[f[k]]
        /\ \A j, k \in DOMAIN working' : f[j] = f[k] => j = k
        /\ \A p \in P : \E k \in DOMAIN working' : f[k] = p
  BY <1>10, <1>11
<1>6. applies = <<>> /\ (current' => current /\ load.at = "over")
  BY <1>1, ClickAlone
<1>7. ASSUME current'
      PROVE  /\ KeepsFields(working', registry, asked') /\ KeepsTypes(working', registry, asked')
             /\ Edited(working', working', asked')
  <2>1. KeepsFields(working, registry, asked) /\ KeepsTypes(working, registry, asked)
    BY <1>6, <1>7 DEF BuilderInv, CopyInv, Bundled
  <2>2. ASSUME NEW v \in DOMAIN registry, v \notin asked' PROVE v \in Types!Listed(working')
    <3>1. PICK i \in DOMAIN working : working[i].uid = v
      BY <1>1, <2>1, <2>2 DEF KeepsTypes, Types!Listed
    <3>2. i \in P
      BY <1>1, <1>3, <2>2, <3>1
    <3>3. PICK k \in DOMAIN working' : f[k] = i
      BY <1>5, <3>2
    <3> QED
      BY <1>5, <3>1, <3>3 DEF Types!Listed
  <2>3. ASSUME NEW k \in DOMAIN working', Alone(working', k), working'[k].uid \in DOMAIN registry \ asked',
               NEW n \in DOMAIN registry[working'[k].uid] \ DOMAIN working'[k].fields
        PROVE  <<working'[k].uid, n>> \in asked'
    <3> DEFINE i == f[k]
    <3>1. i \in P /\ i \in DOMAIN working /\ working'[k] = working[i]
      BY <1>3, <1>5
    <3>2. ASSUME NEW j \in DOMAIN working, working[j].uid = working[i].uid PROVE j = i
      <4>1. j \in P
        BY <1>3, <3>1, <3>2
      <4>2. PICK l \in DOMAIN working' : f[l] = j
        BY <1>5, <4>1
      <4>3. working'[l].uid = working'[k].uid
        BY <1>5, <3>1, <3>2, <4>2
      <4> QED
        BY <2>3, <4>2, <4>3 DEF Alone
    <3>3. Alone(working, i)
      BY <3>2 DEF Alone
    <3> HIDE DEF i
    <3> QED
      BY <1>1, <2>1, <2>3, <3>1, <3>3 DEF KeepsFields
  <2>4. KeepsTypes(working', registry, asked')
    BY <2>2 DEF KeepsTypes
  <2>5. KeepsFields(working', registry, asked')
    BY <2>3 DEF KeepsFields
  <2> QED
    BY <2>4, <2>5 DEF Edited
<1>8. {u} \in SUBSET Uids /\ {u} \subseteq asked'
  BY <1>1
<1> DEFINE list == working'
<1>12. list \in Seq(Types!Schema) /\ working' \in Seq(Types!Schema) /\ Types!Click("delete", list, {u})
  BY <1>1, <1>4, <1>11
<1>13. current' => /\ KeepsFields(working', registry, asked') /\ KeepsTypes(working', registry, asked')
                   /\ {u} \subseteq asked' /\ KeepsFields(list, registry, asked')
                   /\ Edited(list, working', asked')
  BY <1>7, <1>8
<1> HIDE DEF list
<1> QED
  BY <1>1, <1>8, <1>12, <1>13, ClickStep

\* Import: a bundle has what is stored, or nothing, of its content type.
LEMMA BundleImported ==
    ASSUME BuilderInv, AtOnce = 1, NEW u \in Uids, Types!ImportBundle(u)
    PROVE  BuilderInv'
<1> DEFINE s == [uid |-> u, fields |-> IF u \in DOMAIN registry THEN registry[u] ELSE <<>>]
<1>1. onPage = "list" /\ Types!Click("import", <<s>>, {}) /\ UNCHANGED <<working, dirty, asked, during>>
  BY DEF Types!ImportBundle
<1>2. s \in Types!Schema
  BY NoFields DEF Types!Schema, BuilderInv, BuilderTyped, Types!BuilderTypeOK
<1>3. s.uid = u /\ s.fields = IF u \in DOMAIN registry THEN registry[u] ELSE <<>>
  OBVIOUS
<1> HIDE DEF s
<1>4. <<s>> \in Seq(Types!Schema) /\ DOMAIN <<s>> = {1} /\ <<s>>[1] = s
  BY <1>2
<1>5. KeepsFields(<<s>>, registry, asked) /\ OfBundle(<<s>>, registry)
  BY <1>3, <1>4 DEF KeepsFields, OfBundle
<1>6. working' \in Seq(Types!Schema)
  BY <1>1 DEF BuilderInv, BuilderTyped, Types!BuilderTypeOK
<1>7. applies = <<>> /\ (current' => current /\ load.at = "over")
  BY <1>1, ClickAlone
<1>8. current' => KeepsFields(working', registry, asked') /\ KeepsTypes(working', registry, asked')
  BY <1>1, <1>7 DEF BuilderInv, CopyInv, Bundled
<1> DEFINE list == <<s>>
<1>9. {} \in SUBSET Uids /\ list \in Seq(Types!Schema) /\ Types!Click("import", list, {})
  BY <1>1, <1>4
<1>10. current' => /\ KeepsFields(working', registry, asked') /\ KeepsTypes(working', registry, asked')
                   /\ {} \subseteq asked' /\ KeepsFields(list, registry, asked')
                   /\ OfBundle(list, registry)
  BY <1>1, <1>5, <1>8
<1> HIDE DEF list
<1> QED
  BY <1>1, <1>6, <1>9, <1>10, ClickStep

\* Save.
LEMMA CopySaved ==
    ASSUME BuilderInv, AtOnce = 1, Types!Save
    PROVE  BuilderInv'
<1>1. onPage # "list" /\ dirty /\ Types!Click("save", working, {}) /\ UNCHANGED <<working, dirty, asked, during>>
  BY DEF Types!Save
<1>2. working \in Seq(Types!Schema)
  BY DEF BuilderInv, BuilderTyped, Types!BuilderTypeOK
<1>3. applies = <<>> /\ (current' => current /\ load.at = "over")
  BY <1>1, ClickAlone
<1>4. current' => KeepsFields(working, registry, asked) /\ KeepsTypes(working, registry, asked)
  BY <1>3 DEF BuilderInv, CopyInv, Bundled
<1>5. Edited(working, working, asked)
  BY DEF Edited
<1>6. {} \in SUBSET Uids /\ {} \subseteq asked'
  OBVIOUS
<1> QED
  BY <1>1, <1>2, <1>4, <1>5, <1>6, ClickStep

\* An edit of the editor's content type; what it takes away was confirmed.
LEMMA EditStep ==
    ASSUME BuilderInv, NEW i \in DOMAIN working, working[i].uid = onPage, NEW fields \in Types!Fields,
           Types!Edit(i, fields), asked \subseteq asked',
           \A n \in DOMAIN working[i].fields \ DOMAIN fields : <<onPage, n>> \in asked'
    PROVE  BuilderInv'
<1>1. /\ working' = [working EXCEPT ![i].fields = fields] /\ dirty' = TRUE
      /\ during' = (during \/ \E k \in DOMAIN applies : applies[k].of = "save")
      /\ UNCHANGED <<registry, onPage, load, applies, current>>
  BY DEF Types!Edit
<1>2. working \in Seq(Types!Schema) /\ applies \in Seq(Types!Apply) /\ during \in BOOLEAN
  BY DEF BuilderInv, BuilderTyped, Types!BuilderTypeOK
<1> DEFINE s == [working[i] EXCEPT !.fields = fields]
<1>3. s \in Types!Schema /\ s.uid = working[i].uid /\ s.fields = fields
  <2>1. working[i] \in Types!Schema
    BY <1>2
  <2> QED
    BY <2>1 DEF Types!Schema
<1>4. working' = [working EXCEPT ![i] = s]
  BY <1>1, <1>2
<1> HIDE DEF s
<1>5. /\ working' \in Seq(Types!Schema) /\ DOMAIN working' = DOMAIN working /\ Len(working') = Len(working)
      /\ working'[i] = s /\ \A j \in DOMAIN working \ {i} : working'[j] = working[j]
  BY <1>2, <1>3, <1>4
<1>6. BuilderTyped'
  BY <1>1, <1>5 DEF BuilderInv, BuilderTyped, Types!BuilderTypeOK
<1>7. \A j \in DOMAIN working :
        /\ working'[j].uid = working[j].uid
        /\ \A n \in DOMAIN working[j].fields \ DOMAIN working'[j].fields : <<working[j].uid, n>> \in asked'
  BY <1>3, <1>5
<1>8. Types!Listed(working') = Types!Listed(working)
  BY <1>5, <1>7 DEF Types!Listed
<1>9. \A j \in DOMAIN working : Alone(working', j) => Alone(working, j)
  BY <1>5, <1>7 DEF Alone
<1>10. CopyInv'
  <2> SUFFICES ASSUME current PROVE CopyInv'
    BY <1>1 DEF CopyInv
  <2>1. load.at = "over"
    <3>1. working # <<>>
      OBVIOUS
    <3> QED
      BY <3>1 DEF BuilderInv, CopyInv
  <2>2. /\ KeepsFields(working, registry, asked) /\ (Bundled(applies) \/ KeepsTypes(working, registry, asked))
        /\ Ours(applies) /\ applies[1].pc = "called" => Harmless(applies[1], working, registry, asked)
    BY <2>1 DEF BuilderInv, CopyInv
  <2>3. KeepsFields(working', registry, asked')
    <3> SUFFICES ASSUME NEW j \in DOMAIN working, Alone(working', j), working[j].uid \in DOMAIN registry \ asked',
                        NEW n \in DOMAIN registry[working[j].uid] \ DOMAIN working'[j].fields
                 PROVE  <<working[j].uid, n>> \in asked'
      BY <1>5, <1>7 DEF KeepsFields
    <3>1. CASE n \in DOMAIN working[j].fields
      BY <1>7, <3>1
    <3>2. CASE n \notin DOMAIN working[j].fields
      BY <1>9, <2>2, <3>2 DEF KeepsFields
    <3> QED
      BY <3>1, <3>2
  <2>4. Bundled(applies) \/ KeepsTypes(working', registry, asked')
    BY <1>8, <2>2 DEF KeepsTypes
  <2>5. ASSUME Ours(applies), applies[1].pc = "called"
        PROVE  Harmless(applies[1], working', registry, asked')
    <3> DEFINE call == applies[1]
    <3>1. Harmless(call, working, registry, asked)
      BY <2>2, <2>5
    <3> HIDE DEF call
    <3>2. KeepsFields(call.list, registry, asked')
      BY <3>1 DEF Harmless, KeepsFields
    <3>3. ASSUME call.of # "import" PROVE Edited(call.list, working', asked')
      <4>1. Edited(call.list, working, asked)
        BY <3>1, <3>3 DEF Harmless
      <4> DEFINE list == call.list
      <4>2. Len(list) = Len(working) /\ \A j \in DOMAIN list : list[j].uid = working[j].uid
        BY <4>1 DEF Edited
      <4>3. ASSUME Len(list) = Len(working) PROVE Len(list) = Len(working')
        BY <1>5, <4>3
      <4>4. \A j \in DOMAIN list : j \in DOMAIN working
        <5>1. list \in Seq(Types!Schema)
          <6>1. call \in Types!Apply
            BY <1>2, <2>5 DEF Ours, call
          <6> QED
            BY <6>1 DEF Types!Apply
        <5> QED
          BY <1>2, <4>2, <5>1
      <4> HIDE DEF list
      <4>5. ASSUME NEW j \in DOMAIN list, NEW n \in DOMAIN list[j].fields \ DOMAIN working'[j].fields
            PROVE  <<list[j].uid, n>> \in asked'
        <5>1. CASE n \in DOMAIN working[j].fields
          BY <1>7, <4>2, <4>4, <4>5, <5>1
        <5>2. CASE n \notin DOMAIN working[j].fields
          BY <4>1, <4>5, <5>2 DEF Edited, list
        <5> QED
          BY <5>1, <5>2
      <4> QED
        BY <1>7, <4>2, <4>3, <4>4, <4>5 DEF Edited, list
    <3> QED
      BY <3>1, <3>2, <3>3 DEF Harmless, call
  <2> QED
    BY <1>1, <2>1, <2>3, <2>4, <2>5 DEF CopyInv
<1>11. ShownInv'
  <2>1. ASSUME onPage # "list", ~during' PROVE ~Ours(applies)
    <3>1. CASE applies = <<>>
      BY <3>1 DEF Ours
    <3>2. CASE applies # <<>>
      <4>1. 1 \in DOMAIN applies
        BY <1>2, <3>2
      <4>2. applies[1].of \in {"save", "gone"}
        BY <2>1, <4>1 DEF BuilderInv, BuilderTyped
      <4>3. applies[1].of # "save"
        BY <1>1, <2>1, <4>1
      <4> QED
        BY <4>2, <4>3 DEF Ours
    <3> QED
      BY <3>1, <3>2
  <2>2. dirty' /\ onPage' = onPage /\ applies' = applies
    BY <1>1
  <2> QED
    BY <2>1, <2>2 DEF ShownInv
<1> QED
  BY <1>6, <1>10, <1>11 DEF BuilderInv

\* One of the dialogs of a field.
LEMMA FieldChanged ==
    ASSUME BuilderInv, NEW i \in DOMAIN working, NEW n \in Names, NEW d \in {Types!Plain} \cup Types!Listed(working),
           Types!AddField(i, n, d) \/ (\E m \in Names : Types!EditField(i, m, n, d)) \/ Types!RemoveField(i, n)
    PROVE  BuilderInv'
<1> DEFINE fields == working[i].fields
<1>1. working \in Seq(Types!Schema)
  BY DEF BuilderInv, BuilderTyped, Types!BuilderTypeOK
<1>2. fields \in Types!Fields /\ \A j \in DOMAIN working : working[j].uid \in Uids
  <2>1. \A j \in DOMAIN working : working[j] \in Types!Schema
    BY <1>1
  <2> QED
    BY <2>1 DEF Types!Schema
<1>3. d \in {Types!Plain} \cup Uids
  BY <1>2 DEF Types!Listed
<1>4. working[i].uid = onPage
  BY DEF Types!AddField, Types!EditField, Types!RemoveField, Types!InEditor
<1> HIDE DEF fields
<1>5. CASE Types!AddField(i, n, d)
  <2> DEFINE new == Types!Configured(fields, n, n, d)
  <2>1. Types!Edit(i, new) /\ asked' = asked
    BY <1>5 DEF Types!AddField, fields
  <2>2. new \in Types!Fields /\ DOMAIN fields \ ({n} \ {n}) \subseteq DOMAIN new
    BY <1>2, <1>3, ConfiguredIs
  <2> HIDE DEF new
  <2>3. \A m \in DOMAIN working[i].fields \ DOMAIN new : <<onPage, m>> \in asked'
    BY <2>2 DEF fields
  <2> QED
    BY <1>4, <2>1, <2>2, <2>3, EditStep
<1>6. ASSUME NEW old \in Names, Types!EditField(i, old, n, d) PROVE BuilderInv'
  <2> DEFINE new == Types!Configured(fields, old, n, d)
  <2>1. Types!Edit(i, new) /\ asked' = asked \cup {<<onPage, m>> : m \in {old} \ {n}}
    BY <1>6 DEF Types!EditField, fields
  <2>2. new \in Types!Fields /\ DOMAIN fields \ ({old} \ {n}) \subseteq DOMAIN new
    BY <1>2, <1>3, ConfiguredIs
  <2> HIDE DEF new
  <2>3. \A m \in DOMAIN working[i].fields \ DOMAIN new : <<onPage, m>> \in asked'
    BY <2>1, <2>2 DEF fields
  <2> QED
    BY <1>4, <2>1, <2>2, <2>3, EditStep
<1>7. CASE Types!RemoveField(i, n)
  <2> DEFINE new == [m \in DOMAIN fields \ {n} |-> fields[m]]
  <2>1. Types!Edit(i, new) /\ asked' = asked \cup {<<onPage, n>>}
    BY <1>7 DEF Types!RemoveField, fields
  <2>2. new \in Types!Fields /\ DOMAIN new = DOMAIN fields \ {n}
    <3>1. DOMAIN fields \subseteq Names /\ fields \in [DOMAIN fields -> {Types!Plain} \cup Uids]
      BY <1>2, FieldsAre
    <3>2. DOMAIN new = DOMAIN fields \ {n} /\ new \in [DOMAIN new -> {Types!Plain} \cup Uids]
      BY <3>1
    <3> HIDE DEF new
    <3> QED
      BY <3>1, <3>2, FieldsAre
  <2> HIDE DEF new
  <2>3. \A m \in DOMAIN working[i].fields \ DOMAIN new : <<onPage, m>> \in asked'
    BY <2>1, <2>2 DEF fields
  <2> QED
    BY <1>4, <2>1, <2>2, <2>3, EditStep
<1> QED
  BY <1>5, <1>6, <1>7

\* Another administrator saves: from then on nothing is claimed.
LEMMA StoredElsewhere == ASSUME BuilderInv, Types!SaveElsewhere PROVE BuilderInv'
<1>1. current' = FALSE /\ UNCHANGED <<onPage, load, working, dirty, applies, asked, during>>
  BY DEF Types!SaveElsewhere
<1>2. DOMAIN registry \subseteq Uids /\ \A u \in DOMAIN registry : registry[u] \in Types!Fields
  BY DEF BuilderInv, BuilderTyped, Types!BuilderTypeOK
<1>3. DOMAIN registry' \subseteq Uids /\ \A u \in DOMAIN registry' : registry'[u] \in Types!Fields
  <2>1. PICK u \in DOMAIN registry :
           \/ \E n \in Names \ DOMAIN registry[u] :
                  registry' = [registry EXCEPT ![u] = Types!With(@, n, Types!Plain)]
           \/ registry' = [v \in DOMAIN registry \ {u} |-> registry[v]]
    BY DEF Types!SaveElsewhere
  <2>2. ASSUME NEW n \in Names, registry' = [registry EXCEPT ![u] = Types!With(registry[u], n, Types!Plain)]
        PROVE  DOMAIN registry' \subseteq Uids /\ \A v \in DOMAIN registry' : registry'[v] \in Types!Fields
    <3>1. Types!With(registry[u], n, Types!Plain) \in Types!Fields
      BY <1>2, WithIs
    <3> QED
      BY <1>2, <2>2, <3>1
  <2>3. CASE registry' = [v \in DOMAIN registry \ {u} |-> registry[v]]
    BY <1>2, <2>3
  <2> QED
    BY <2>1, <2>2, <2>3
<1>4. BuilderTyped'
  BY <1>1, <1>3 DEF BuilderInv, BuilderTyped, Types!BuilderTypeOK
<1> QED
  BY <1>1, <1>4 DEF BuilderInv, CopyInv, ShownInv

\* The only call under way.
LEMMA OnlyCall ==
    ASSUME BuilderInv, NEW i \in DOMAIN applies
    PROVE  /\ i = 1 /\ Len(applies) = 1 /\ DOMAIN applies = {1} /\ applies # <<>> /\ applies[1] \in Types!Apply
           /\ Types!RemoveAt(applies, i) = <<>>
           /\ \A c \in Types!Apply :
                  LET new == [applies EXCEPT ![i] = c]
                  IN  new \in Seq(Types!Apply) /\ Len(new) = 1 /\ DOMAIN new = {1} /\ new # <<>> /\ new[1] = c
<1>1. applies \in Seq(Types!Apply) /\ Len(applies) <= 1
  BY DEF BuilderInv, BuilderTyped, Types!BuilderTypeOK
<1>2. i = 1 /\ Len(applies) = 1 /\ DOMAIN applies = {1} /\ applies # <<>> /\ applies[1] \in Types!Apply
  <2>1. DOMAIN applies = 1 .. Len(applies) /\ Len(applies) \in Nat
    BY <1>1
  <2>2. i = 1 /\ Len(applies) = 1
    BY <1>1, <2>1
  <2>3. DOMAIN applies = {1}
    BY <2>1, <2>2
  <2>4. applies # <<>>
    BY <2>2
  <2>5. applies[1] \in Types!Apply
    BY <1>1, <2>3
  <2> QED
    BY <2>2, <2>3, <2>4, <2>5
<1>3. SubSeq(applies, 1, 0) = <<>> /\ SubSeq(applies, 2, 1) = <<>>
  BY <1>1
<1>4. Types!RemoveAt(applies, i) = <<>>
  BY <1>2, <1>3 DEF Types!RemoveAt
<1>5. ASSUME NEW c \in Types!Apply
      PROVE  LET new == [applies EXCEPT ![i] = c]
             IN  new \in Seq(Types!Apply) /\ Len(new) = 1 /\ DOMAIN new = {1} /\ new # <<>> /\ new[1] = c
  BY <1>1, <1>2
<1> QED
  BY <1>2, <1>4, <1>5

\* What a valid call would store has fields of the right kind.
LEMMA AppliedTyped ==
    ASSUME BuilderInv, NEW list \in Seq(Types!Schema), NEW removed, Types!Valid(list)
    PROVE  LET new == Types!Applied(list, removed)
           IN  DOMAIN new \subseteq Uids /\ \A u \in DOMAIN new : new[u] \in Types!Fields
<1> DEFINE new == Types!Applied(list, removed)
<1>0. Stores(new, registry, list, removed)
  BY AppliedIs
<1> HIDE DEF new
<1>1. /\ DOMAIN new = (DOMAIN registry \ removed) \cup Types!Listed(list)
      /\ \A i \in DOMAIN list : new[list[i].uid] = list[i].fields
      /\ \A u \in DOMAIN registry : u \notin removed \cup Types!Listed(list) => new[u] = registry[u]
  BY <1>0 DEF Stores
<1>2. DOMAIN registry \subseteq Uids /\ \A u \in DOMAIN registry : registry[u] \in Types!Fields
  BY DEF BuilderInv, BuilderTyped, Types!BuilderTypeOK
<1>3. \A i \in DOMAIN list : list[i].uid \in Uids /\ list[i].fields \in Types!Fields
  <2>1. \A i \in DOMAIN list : list[i] \in Types!Schema
    OBVIOUS
  <2> QED
    BY <2>1 DEF Types!Schema
<1>4. ASSUME NEW u \in DOMAIN new PROVE u \in Uids /\ new[u] \in Types!Fields
  <2>1. CASE u \in Types!Listed(list)
    <3>1. PICK i \in DOMAIN list : list[i].uid = u
      BY <2>1 DEF Types!Listed
    <3> QED
      BY <1>1, <1>3, <3>1
  <2>2. CASE u \notin Types!Listed(list)
    BY <1>1, <1>2, <1>4, <2>2
  <2> QED
    BY <2>1, <2>2
<1> QED
  BY <1>4 DEF new

\* The call under way, served with effect, while it is harmless.
LEMMA AppliedHarmless ==
    ASSUME NEW list, NEW removed, Types!Valid(list), NEW confirmed,
           removed \subseteq confirmed, KeepsFields(list, registry, confirmed)
    PROVE  LET new == Types!Applied(list, removed)
           IN  \A u \in DOMAIN registry : u \notin confirmed =>
                   u \in DOMAIN new /\ \A n \in DOMAIN registry[u] \ DOMAIN new[u] : <<u, n>> \in confirmed
<1> DEFINE new == Types!Applied(list, removed)
<1>0. Stores(new, registry, list, removed)
  BY AppliedIs
<1> HIDE DEF new
<1>1. /\ DOMAIN new = (DOMAIN registry \ removed) \cup Types!Listed(list)
      /\ \A i \in DOMAIN list : new[list[i].uid] = list[i].fields
      /\ \A u \in DOMAIN registry : u \notin removed \cup Types!Listed(list) => new[u] = registry[u]
  BY <1>0 DEF Stores
<1>2. \A i \in DOMAIN list : Alone(list, i)
  BY DEF Types!Valid, Types!IsInjective, Alone
<1>3. ASSUME NEW u \in DOMAIN registry, u \notin confirmed
      PROVE  u \in DOMAIN new /\ \A n \in DOMAIN registry[u] \ DOMAIN new[u] : <<u, n>> \in confirmed
  <2>1. u \notin removed /\ u \in DOMAIN new
    BY <1>1, <1>3
  <2>2. CASE u \in Types!Listed(list)
    <3>1. PICK i \in DOMAIN list : list[i].uid = u
      BY <2>2 DEF Types!Listed
    <3>2. new[u] = list[i].fields
      BY <1>1, <3>1
    <3> QED
      BY <1>2, <1>3, <2>1, <3>1, <3>2 DEF KeepsFields
  <2>3. CASE u \notin Types!Listed(list)
    BY <1>1, <1>3, <2>1, <2>3
  <2> QED
    BY <2>2, <2>3
<1> QED
  BY <1>3 DEF new

\* After it, the copy is as far from what is stored as before, or nearer.
LEMMA CopyOfApplied ==
    ASSUME NEW list, NEW removed, Types!Valid(list), NEW copied, NEW confirmed, removed \subseteq confirmed,
           NEW S, list \in Seq(S), NEW R, copied \in Seq(R), Len(list) = Len(copied)
    PROVE  LET new == Types!Applied(list, removed)
           IN  /\ Edited(list, copied, confirmed) => KeepsFields(copied, new, confirmed)
               /\ Edited(list, copied, confirmed) /\ KeepsTypes(copied, registry, confirmed)
                      => KeepsTypes(copied, new, confirmed)
               /\ copied = list => Mirrors(copied, new)
<1> DEFINE new == Types!Applied(list, removed)
<1>0. Stores(new, registry, list, removed)
  BY AppliedIs
<1> HIDE DEF new
<1>1. /\ DOMAIN new = (DOMAIN registry \ removed) \cup Types!Listed(list)
      /\ \A i \in DOMAIN list : new[list[i].uid] = list[i].fields
  BY <1>0 DEF Stores
<1>2. DOMAIN list = DOMAIN copied
  BY DEF Edited
<1>3. Edited(list, copied, confirmed) => KeepsFields(copied, new, confirmed)
  <2> SUFFICES ASSUME Edited(list, copied, confirmed), NEW i \in DOMAIN copied,
                      NEW n \in DOMAIN new[copied[i].uid] \ DOMAIN copied[i].fields
               PROVE  <<copied[i].uid, n>> \in confirmed
    BY DEF KeepsFields
  <2>1. i \in DOMAIN list /\ copied[i].uid = list[i].uid
    BY <1>2 DEF Edited
  <2>2. n \in DOMAIN list[i].fields
    BY <1>1, <2>1
  <2> QED
    BY <2>1, <2>2 DEF Edited
<1>4. Edited(list, copied, confirmed) => Types!Listed(list) \subseteq Types!Listed(copied)
  BY <1>2 DEF Edited, Types!Listed
<1>5. Edited(list, copied, confirmed) /\ KeepsTypes(copied, registry, confirmed)
        => KeepsTypes(copied, new, confirmed)
  BY <1>1, <1>4 DEF KeepsTypes
<1>6. copied = list => Mirrors(copied, new)
  <2> SUFFICES ASSUME copied = list, NEW i \in DOMAIN list
               PROVE  list[i].uid \in DOMAIN new /\ list[i].fields = new[list[i].uid]
    BY DEF Mirrors
  <2> QED
    BY <1>1 DEF Types!Listed
<1> QED
  BY <1>3, <1>5, <1>6 DEF new

\* After a bundle, each content type has what it had, or nothing.
LEMMA CopyOfBundle ==
    ASSUME NEW list, NEW removed, Types!Valid(list), OfBundle(list, registry), NEW copied, NEW confirmed,
           removed \subseteq confirmed, KeepsFields(copied, registry, confirmed)
    PROVE  KeepsFields(copied, Types!Applied(list, removed), confirmed)
<1> DEFINE new == Types!Applied(list, removed)
<1>0. Stores(new, registry, list, removed)
  BY AppliedIs
<1> HIDE DEF new
<1>1. /\ DOMAIN new = (DOMAIN registry \ removed) \cup Types!Listed(list)
      /\ \A i \in DOMAIN list : new[list[i].uid] = list[i].fields
      /\ \A u \in DOMAIN registry : u \notin removed \cup Types!Listed(list) => new[u] = registry[u]
  BY <1>0 DEF Stores
<1>2. ASSUME NEW u \in DOMAIN new PROVE new[u] = <<>> \/ (u \in DOMAIN registry /\ new[u] = registry[u])
  <2>1. CASE u \in Types!Listed(list)
    <3>1. PICK i \in DOMAIN list : list[i].uid = u
      BY <2>1 DEF Types!Listed
    <3> QED
      BY <1>1, <3>1 DEF OfBundle
  <2>2. CASE u \notin Types!Listed(list)
    BY <1>1, <1>2, <2>2
  <2> QED
    BY <2>1, <2>2
<1>3. DOMAIN <<>> = {}
  OBVIOUS
<1> SUFFICES ASSUME NEW i \in DOMAIN copied, Alone(copied, i), copied[i].uid \in DOMAIN new \ confirmed,
                    NEW n \in DOMAIN new[copied[i].uid] \ DOMAIN copied[i].fields
             PROVE  <<copied[i].uid, n>> \in confirmed
  BY DEF KeepsFields, new
<1>4. copied[i].uid \in DOMAIN registry /\ new[copied[i].uid] = registry[copied[i].uid]
  BY <1>2, <1>3
<1> QED
  BY <1>4 DEF KeepsFields

\* A call is served: what nobody waits for ends the time of which the properties speak; of the page's own,
\* what is stored then is what the copy has.
LEMMA Served ==
    ASSUME BuilderInv, NEW i \in DOMAIN applies, Types!Serve(i)
    PROVE  /\ BuilderInv'
           /\ current /\ current' =>
                  \A u \in DOMAIN registry : u \notin asked =>
                      /\ u \in DOMAIN registry'
                      /\ \A n \in DOMAIN registry[u] \ DOMAIN registry'[u] : <<u, n>> \in asked
<1> DEFINE a == applies[1]
<1>1. /\ i = 1 /\ Len(applies) = 1 /\ DOMAIN applies = {1} /\ applies # <<>> /\ applies[1] \in Types!Apply
      /\ Types!RemoveAt(applies, i) = <<>>
      /\ \A c \in Types!Apply :
             LET new == [applies EXCEPT ![i] = c]
             IN  new \in Seq(Types!Apply) /\ Len(new) = 1 /\ DOMAIN new = {1} /\ new # <<>> /\ new[1] = c
  BY OnlyCall
<1>2. a.pc = "called" /\ UNCHANGED <<onPage, load, working, dirty, asked, during>>
  BY <1>1 DEF Types!Serve
<1>3. PICK ok \in {Types!Valid(a.list)} \cup (IF Faults THEN {FALSE} ELSE {}) :
        /\ registry' = IF ok THEN Types!Applied(a.list, a.removed) ELSE registry
        /\ IF a.of = "gone"
           THEN applies' = Types!RemoveAt(applies, i) /\ current' = (current /\ ~ok)
           ELSE applies' = [applies EXCEPT ![i].pc = "answered", ![i].ok = ok] /\ UNCHANGED current
  BY <1>1 DEF Types!Serve
<1>4. a \in Types!Apply /\ a.list \in Seq(Types!Schema) /\ a.removed \in SUBSET Uids
  BY <1>1 DEF Types!Apply
<1>5. /\ a.of = "gone" => a.pc = "called"
      /\ onPage # "list" => a.of \in {"save", "gone"}
      /\ a.of = "create" => a.list # <<>>
  BY <1>1 DEF BuilderInv, BuilderTyped
<1>6. ok \in BOOLEAN /\ (ok => Types!Valid(a.list))
  BY <1>3 DEF Types!Valid
<1> DEFINE b == [a EXCEPT !.pc = "answered", !.ok = ok]
<1>7. /\ b \in Types!Apply /\ b.pc = "answered" /\ b.ok = ok /\ b.of = a.of /\ b.list = a.list
  BY <1>4, <1>6 DEF Types!Apply
<1>8. ASSUME a.of # "gone"
      PROVE  /\ applies' \in Seq(Types!Apply) /\ Len(applies') = 1 /\ DOMAIN applies' = {1}
             /\ applies' # <<>> /\ applies'[1] = b /\ current' = current
  <2>1. applies \in Seq(Types!Apply)
    BY DEF BuilderInv, BuilderTyped, Types!BuilderTypeOK
  <2>2. [applies EXCEPT ![i].pc = "answered", ![i].ok = ok] = [applies EXCEPT ![i] = b]
    BY <1>1, <2>1
  <2> HIDE DEF b
  <2>3. applies' = [applies EXCEPT ![i] = b] /\ current' = current
    BY <1>3, <1>8, <2>2
  <2> QED
    BY <1>1, <1>7, <2>3
<1>9. ASSUME a.of = "gone"
      PROVE  /\ applies' = <<>> /\ applies' \in Seq(Types!Apply) /\ Len(applies') = 0 /\ DOMAIN applies' = {}
             /\ current' = (current /\ ~ok)
  <2>1. applies' = <<>> /\ current' = (current /\ ~ok)
    BY <1>1, <1>3, <1>9
  <2> QED
    BY <2>1, Empty
<1>10. DOMAIN registry' \subseteq Uids /\ \A u \in DOMAIN registry' : registry'[u] \in Types!Fields
  <2>1. CASE ok
    <3>1. registry' = Types!Applied(a.list, a.removed) /\ Types!Valid(a.list)
      BY <1>3, <1>6, <2>1
    <3> DEFINE list == a.list
               removed == a.removed
    <3> HIDE DEF list, removed
    <3>2. list \in Seq(Types!Schema) /\ Types!Valid(list) /\ registry' = Types!Applied(list, removed)
      BY <1>4, <3>1 DEF list, removed
    <3> QED
      BY <3>2, AppliedTyped
  <2>2. CASE ~ok
    BY <1>3, <2>2 DEF BuilderInv, BuilderTyped, Types!BuilderTypeOK
  <2> QED
    BY <2>1, <2>2
<1> HIDE DEF a, b
<1>11. BuilderTyped'
  <2>1. /\ onPage' \in {"list"} \cup Uids /\ load' \in Types!Load /\ working' \in Seq(Types!Schema)
        /\ dirty' \in BOOLEAN /\ during' \in BOOLEAN /\ current \in BOOLEAN
    BY <1>2 DEF BuilderInv, BuilderTyped, Types!BuilderTypeOK
  <2>2. CASE a.of = "gone"
    <3>1. Types!BuilderTypeOK'
      BY <1>9, <1>10, <2>1, <2>2 DEF Types!BuilderTypeOK
    <3> QED
      BY <1>9, <2>2, <3>1 DEF BuilderTyped
  <2>3. CASE a.of # "gone"
    <3>1. Types!BuilderTypeOK'
      BY <1>8, <1>10, <2>1, <2>3 DEF Types!BuilderTypeOK
    <3>2. Len(applies') <= 1 /\ \A k \in DOMAIN applies' : applies'[k] = b
      BY <1>8, <2>3
    <3>3. onPage' # "list" => b.of \in {"save", "gone"}
      BY <1>2, <1>5, <1>7
    <3> QED
      BY <1>5, <1>7, <2>3, <3>1, <3>2, <3>3 DEF BuilderTyped
  <2> QED
    BY <2>2, <2>3
<1>12. CASE a.of = "gone"
  <2>1. ~Ours(applies) /\ ~Bundled(applies) /\ ~Ours(applies')
    BY <1>1, <1>9, <1>12 DEF Ours, Bundled, a
  <2>2. current' => current /\ registry' = registry
    BY <1>3, <1>6, <1>9, <1>12
  <2>3. CopyInv'
    BY <1>2, <2>1, <2>2 DEF BuilderInv, CopyInv
  <2>4. ShownInv'
    BY <1>2, <2>1, <2>2 DEF BuilderInv, ShownInv
  <2> QED
    BY <1>11, <2>2, <2>3, <2>4 DEF BuilderInv
<1>13. CASE a.of # "gone"
  <2>1. Ours(applies) /\ ~Bundled(applies) /\ Ours(applies') /\ (Bundled(applies') <=> a.of = "import" /\ ok)
    BY <1>1, <1>2, <1>6, <1>7, <1>8, <1>13 DEF Ours, Bundled, a
  <2>2. current' = current /\ applies'[1].pc = "answered" /\ applies'[1].ok = ok
    BY <1>7, <1>8, <1>13
  <2>3. CASE ~current
    BY <1>11, <2>2, <2>3 DEF BuilderInv, CopyInv, ShownInv
  <2>4. CASE current
    <3>1. load.at = "over"
      BY <2>1, <2>4 DEF BuilderInv, CopyInv
    <3>2. /\ KeepsFields(working, registry, asked) /\ KeepsTypes(working, registry, asked)
          /\ Harmless(a, working, registry, asked)
      BY <1>2, <2>1, <2>4, <3>1 DEF BuilderInv, CopyInv, a
    <3>3. onPage # "list" /\ ~during => dirty /\ a.list = working
      BY <1>2, <2>1, <2>4, <3>1 DEF BuilderInv, ShownInv, a
    <3>4. CASE ~ok
      <4>1. registry' = registry
        BY <1>3, <3>4
      <4>2. CopyInv'
        BY <1>2, <2>2, <3>1, <3>2, <4>1 DEF CopyInv
      <4>3. ShownInv'
        BY <1>2, <2>1, <2>2, <3>3, <3>4 DEF ShownInv
      <4> QED
        BY <1>11, <4>1, <4>2, <4>3 DEF BuilderInv
    <3>5. CASE ok
      <4> DEFINE list == a.list
                 removed == a.removed
                 new == Types!Applied(list, removed)
      <4>1. registry' = new /\ Types!Valid(list) /\ list \in Seq(Types!Schema)
        BY <1>3, <1>4, <1>6, <3>5 DEF a
      <4>2. /\ removed \subseteq asked /\ KeepsFields(list, registry, asked)
            /\ a.of # "import" => Edited(list, working, asked)
            /\ a.of = "import" => OfBundle(list, registry)
        BY <3>2 DEF Harmless
      <4>3. working \in Seq(Types!Schema)
        BY DEF BuilderInv, BuilderTyped, Types!BuilderTypeOK
      <4> HIDE DEF list, removed
      <4>4. KeepsFields(working, new, asked)
        <5>1. CASE a.of = "import"
          BY <3>2, <4>1, <4>2, <5>1, CopyOfBundle
        <5>2. CASE a.of # "import"
          <6>1. Len(list) = Len(working)
            BY <4>2, <5>2 DEF Edited
          <6> QED
            BY <4>1, <4>2, <4>3, <5>2, <6>1, CopyOfApplied
        <5> QED
          BY <5>1, <5>2
      <4>5. Bundled(applies') \/ KeepsTypes(working, new, asked)
        <5>1. CASE a.of = "import"
          BY <2>1, <3>5, <5>1
        <5>2. CASE a.of # "import"
          <6>1. Len(list) = Len(working)
            BY <4>2, <5>2 DEF Edited
          <6> QED
            BY <3>2, <4>1, <4>2, <4>3, <5>2, <6>1, CopyOfApplied
        <5> QED
          BY <5>1, <5>2
      <4>6. onPage # "list" /\ ~during => Mirrors(working, new)
        <5> SUFFICES ASSUME working = list PROVE Mirrors(working, new)
          BY <3>3 DEF list
        <5>1. Len(list) = Len(working)
          OBVIOUS
        <5> QED
          BY <4>1, <4>2, <4>3, <5>1, CopyOfApplied
      <4>7. \A u \in DOMAIN registry : u \notin asked =>
               u \in DOMAIN new /\ \A n \in DOMAIN registry[u] \ DOMAIN new[u] : <<u, n>> \in asked
        BY <4>1, <4>2, AppliedHarmless
      <4> HIDE DEF new
      <4>8. CopyInv'
        BY <1>2, <2>2, <3>1, <4>1, <4>4, <4>5 DEF CopyInv
      <4>9. ShownInv'
        BY <1>2, <2>1, <2>2, <3>5, <4>1, <4>6 DEF ShownInv
      <4> QED
        BY <1>11, <4>1, <4>7, <4>8, <4>9 DEF BuilderInv
    <3> QED
      BY <1>6, <3>4, <3>5
  <2> QED
    BY <2>3, <2>4
<1> QED
  BY <1>12, <1>13

\* An answer: the page of the content type created opens, or the page's only call is over.
LEMMA ApplyAnswered ==
    ASSUME BuilderInv, NEW i \in DOMAIN applies, Types!Answered(i)
    PROVE  BuilderInv' /\ registry' = registry
<1> DEFINE a == applies[1]
<1>1. /\ i = 1 /\ Len(applies) = 1 /\ DOMAIN applies = {1} /\ applies # <<>> /\ applies[1] \in Types!Apply
      /\ Types!RemoveAt(applies, i) = <<>>
  BY OnlyCall
<1>2. /\ a \in Types!Apply /\ a.list \in Seq(Types!Schema) /\ a.ok \in BOOLEAN /\ a.of # "gone" /\ a.pc = "answered"
      /\ onPage # "list" => a.of = "save"
      /\ a.of = "create" => a.list # <<>>
  BY <1>1 DEF Types!Answered, Types!Apply, BuilderInv, BuilderTyped
<1>3. CASE a.of = "create" /\ a.ok /\ pages < MaxPages
  <2>1. Types!Open(Types!Last(a.list).uid) /\ registry' = registry
    BY <1>1, <1>3 DEF Types!Answered
  <2>2. a.list[Len(a.list)] \in Types!Schema
    BY <1>2, <1>3
  <2>3. Types!Last(a.list).uid \in Uids
    BY <2>2 DEF Types!Last, Types!Schema
  <2> DEFINE next == Types!Last(a.list).uid
  <2> HIDE DEF next
  <2>4. Types!Open(next) /\ next \in {"list"} \cup Uids
    BY <2>1, <2>3 DEF next
  <2> QED
    BY <2>1, <2>4, PageOpens
<1>4. CASE ~(a.of = "create" /\ a.ok /\ pages < MaxPages)
  <2>1. /\ applies' = <<>> /\ dirty' = (IF onPage = "list" THEN dirty ELSE Types!DirtyAfter(a.ok))
        /\ working' = (IF a.of = "import" /\ a.ok THEN a.list ELSE working)
        /\ current' = (current /\ (a.of = "import" => ~a.ok))
        /\ UNCHANGED <<registry, onPage, load, asked, during>>
    BY <1>1, <1>4 DEF Types!Answered
  <2>2. applies' \in Seq(Types!Apply) /\ Len(applies') = 0 /\ DOMAIN applies' = {}
    BY <2>1, Empty
  <2>3. BuilderTyped'
    <3>1. /\ DOMAIN registry' \subseteq Uids /\ (\A u \in DOMAIN registry' : registry'[u] \in Types!Fields)
          /\ onPage' \in {"list"} \cup Uids /\ load' \in Types!Load /\ working \in Seq(Types!Schema)
          /\ dirty \in BOOLEAN /\ during' \in BOOLEAN /\ current \in BOOLEAN
      BY <2>1 DEF BuilderInv, BuilderTyped, Types!BuilderTypeOK
    <3>2. working' \in Seq(Types!Schema)
      BY <1>2, <2>1, <3>1
    <3>3. dirty' \in BOOLEAN /\ current' \in BOOLEAN
      BY <2>1, <3>1 DEF Types!DirtyAfter
    <3>4. Types!BuilderTypeOK'
      BY <2>2, <3>1, <3>2, <3>3 DEF Types!BuilderTypeOK
    <3> QED
      BY <2>2, <3>4 DEF BuilderTyped
  <2>4. ~Ours(applies')
    BY <2>1 DEF Ours
  <2>5. CASE ~current
    BY <2>1, <2>3, <2>5 DEF BuilderInv, CopyInv, ShownInv
  <2>6. CASE current /\ a.of = "import" /\ a.ok
    BY <2>1, <2>3, <2>6 DEF BuilderInv, CopyInv, ShownInv
  <2>7. CASE current /\ ~(a.of = "import" /\ a.ok)
    <3>1. Ours(applies) /\ ~Bundled(applies)
      BY <1>1, <1>2, <2>7 DEF Ours, Bundled
    <3>2. load.at = "over"
      BY <2>7, <3>1 DEF BuilderInv, CopyInv
    <3>3. KeepsFields(working, registry, asked) /\ KeepsTypes(working, registry, asked)
      BY <2>7, <3>1, <3>2 DEF BuilderInv, CopyInv
    <3>4. working' = working
      BY <2>1, <2>7
    <3>5. CopyInv'
      BY <2>1, <2>4, <3>2, <3>3, <3>4 DEF CopyInv
    <3>6. onPage # "list" /\ ~during => IF a.ok THEN Mirrors(working, registry) ELSE dirty
      BY <1>2, <2>7, <3>1, <3>2 DEF BuilderInv, ShownInv
    <3>7. onPage # "list" => (dirty' <=> dirty /\ ~a.ok)
      BY <2>1 DEF Types!DirtyAfter
    <3>8. ShownInv'
      BY <1>2, <2>1, <2>4, <3>4, <3>6, <3>7 DEF ShownInv
    <3> QED
      BY <2>1, <2>3, <3>5, <3>8 DEF BuilderInv
  <2> QED
    BY <2>1, <2>5, <2>6, <2>7
<1> QED
  BY <1>3, <1>4

\* A step of the builder takes away what was confirmed, and nothing else.
TakesAway ==
    current /\ current' =>
        \A u \in DOMAIN registry : u \notin asked =>
            /\ u \in DOMAIN registry'
            /\ \A n \in DOMAIN registry[u] \ DOMAIN registry'[u] : <<u, n>> \in asked

\* Each operation of the builder keeps the invariant, and takes away what was confirmed only.
LEMMA BuilderStep ==
    ASSUME Types!BuilderAssumption, AtOnce = 1, BuilderInv, Types!Next
    PROVE  BuilderInv' /\ TakesAway
<1>1. ASSUME registry' = registry PROVE TakesAway
  BY <1>1 DEF TakesAway
<1>2. \A i \in DOMAIN working : working[i].uid \in Uids
  <2>1. \A i \in DOMAIN working : working[i] \in Types!Schema
    BY DEF BuilderInv, BuilderTyped, Types!BuilderTypeOK
  <2> QED
    BY <2>1 DEF Types!Schema
<1>3. CASE Types!SaveElsewhere
  BY <1>3, StoredElsewhere DEF Types!SaveElsewhere, TakesAway
<1>4. CASE Types!Back
  <2>1. Types!Open("list") /\ registry' = registry /\ "list" \in {"list"} \cup Uids
    BY <1>4 DEF Types!Back
  <2> QED
    BY <1>1, <2>1, PageOpens
<1>5. CASE Types!ReadSchemas
  BY <1>1, <1>5, SchemasRead DEF Types!ReadSchemas
<1>6. CASE Types!Loaded
  BY <1>1, <1>6, SchemasLoaded DEF Types!Loaded
<1>7. CASE Types!Save
  BY <1>1, <1>7, CopySaved DEF Types!Save, Types!Click
<1>8. ASSUME NEW u \in Uids, Types!OpenEditor(u) \/ Types!Create(u) \/ Types!Delete(u) \/ Types!ImportBundle(u)
      PROVE  BuilderInv' /\ TakesAway
  <2>1. CASE Types!OpenEditor(u)
    <3>1. Types!Open(u) /\ registry' = registry /\ u \in {"list"} \cup Uids
      BY <2>1 DEF Types!OpenEditor
    <3> QED
      BY <1>1, <3>1, PageOpens
  <2>2. CASE Types!Create(u)
    BY <1>1, <2>2, Created DEF Types!Create, Types!Click
  <2>3. CASE Types!Delete(u)
    BY <1>1, <2>3, Deleted DEF Types!Delete, Types!Click
  <2>4. CASE Types!ImportBundle(u)
    BY <1>1, <2>4, BundleImported DEF Types!ImportBundle, Types!Click
  <2> QED
    BY <1>8, <2>1, <2>2, <2>3, <2>4
<1>9. ASSUME NEW i \in DOMAIN working, Types!Duplicate(i)
      PROVE  BuilderInv' /\ TakesAway
  BY <1>1, <1>9, Duplicated DEF Types!Duplicate, Types!Click
<1>10. ASSUME NEW i \in DOMAIN working, NEW n \in Names, Types!RemoveField(i, n)
       PROVE  BuilderInv' /\ TakesAway
  <2>1. registry' = registry
    BY <1>10 DEF Types!RemoveField, Types!Edit
  <2>2. Types!Plain \in {Types!Plain} \cup Types!Listed(working)
    OBVIOUS
  <2> QED
    BY <1>1, <1>10, <2>1, <2>2, FieldChanged
<1>11. ASSUME NEW i \in DOMAIN working, NEW n \in Names, NEW d \in {Types!Plain} \cup Types!Listed(working),
              Types!AddField(i, n, d) \/ \E m \in Names : Types!EditField(i, m, n, d)
       PROVE  BuilderInv' /\ TakesAway
  <2>1. registry' = registry
    BY <1>11 DEF Types!AddField, Types!EditField, Types!Edit
  <2> QED
    BY <1>1, <1>11, <2>1, FieldChanged
<1>12. ASSUME NEW i \in DOMAIN applies, Types!Serve(i)
       PROVE  BuilderInv' /\ TakesAway
  BY <1>12, Served DEF TakesAway
<1>13. ASSUME NEW i \in DOMAIN applies, Types!Answered(i)
       PROVE  BuilderInv' /\ TakesAway
  BY <1>1, <1>13, ApplyAnswered
<1> QED
  BY <1>3, <1>4, <1>5, <1>6, <1>7, <1>8, <1>9, <1>10, <1>11, <1>12, <1>13 DEF Types!Next

\* A step that leaves the builder alone does so as well.
LEMMA BuilderStutters == ASSUME BuilderInv, UNCHANGED types PROVE BuilderInv' /\ TakesAway
  BY DEF types, BuilderInv, BuilderTyped, Types!BuilderTypeOK, CopyInv, ShownInv, TakesAway,
         KeepsFields, KeepsTypes, Mirrors, Harmless, Ours, Bundled, Types!Listed

\* The invariant has what is checked of the builder.
LEMMA BuilderShows == ASSUME BuilderInv PROVE Types!CleanIsStored
<1> SUFFICES ASSUME onPage # "list", load.at = "over", ~dirty, applies = <<>>, current, ~during,
                    NEW i \in DOMAIN working
             PROVE  working[i].uid \in DOMAIN registry /\ working[i] = Types!InRegistry(working[i].uid)
  BY DEF Types!CleanIsStored
<1>1. Mirrors(working, registry)
  BY DEF BuilderInv, ShownInv, Ours
<1>2. working[i] \in Types!Schema
  BY DEF BuilderInv, BuilderTyped, Types!BuilderTypeOK
<1>3. working[i].uid \in DOMAIN registry /\ working[i].fields = registry[working[i].uid]
  BY <1>1 DEF Mirrors
<1> QED
  BY <1>2, <1>3 DEF Types!Schema, Types!InRegistry

\* The builder keeps its invariant, whatever the user is at.
LEMMA BuilderKeeps ==
    ASSUME AtOnce = 1 PROVE ScreensSpec => [](BuilderInv) /\ [][TakesAway]_types
<1>1. ScreensInit => BuilderInv
  BY ScreensAssumption, BuilderInit DEF ScreensInit
<1>2. BuilderInv /\ [ScreensNext]_<<at, screens>> => BuilderInv' /\ TakesAway
  <2> SUFFICES ASSUME BuilderInv, [ScreensNext]_<<at, screens>> PROVE BuilderInv' /\ TakesAway
    OBVIOUS
  <2>1. CASE UNCHANGED types
    BY <2>1, BuilderStutters
  <2>2. CASE Types!Next
    BY <2>2, ScreensAssumption, BuilderStep
  <2> QED
    BY <2>1, <2>2 DEF ScreensNext, screens
<1> QED
  BY <1>1, <1>2, PTL DEF ScreensSpec

-----------------------------------------------------------------------------
(* The editors.                                                            *)

\* An editor of a content type, or of a workflow, with nothing to save shows what is stored, where the page
\* waits for the answer of one call before it makes the next.
THEOREM CleanShown ==
    ASSUME AtOnce = 1
    PROVE  ScreensSpec => []CleanIsStored
<1>1. ScreensInit => FlowInv
  BY FlowInit DEF ScreensInit
<1>2. FlowInv /\ [ScreensNext]_<<at, screens>> => FlowInv'
  <2>1. [ScreensNext]_<<at, screens>> => [Flow!Next]_flow
    BY DEF ScreensNext, screens
  <2> QED
    BY <2>1, FlowStep
<1>3. BuilderInv /\ FlowInv => CleanIsStored
  BY BuilderShows, FlowShows DEF CleanIsStored
<1>4. ScreensSpec => []FlowInv
  BY <1>1, <1>2, PTL DEF ScreensSpec
<1>5. ScreensSpec => []BuilderInv
  BY BuilderKeeps, PTL
<1> QED
  BY <1>3, <1>4, <1>5, PTL

\* A content type or a field goes only if its removal, or another name for it, was confirmed, where the page
\* waits for the answer of one call before it makes the next.
THEOREM GoneIfAsked ==
    ASSUME AtOnce = 1
    PROVE  ScreensSpec => GoneOnlyIfAsked
<1>1. [TakesAway]_types =>
        [current /\ current' =>
            \A u \in DOMAIN registry :
                u \notin asked =>
                    /\ u \in DOMAIN registry'
                    /\ \A n \in DOMAIN registry[u] \ DOMAIN registry'[u] : <<u, n>> \in asked]_(Types!builderVars)
  BY DEF TakesAway, types, Types!builderVars
<1>2. ScreensSpec => [][TakesAway]_types
  BY BuilderKeeps, PTL
<1> QED
  BY <1>1, <1>2, PTL DEF GoneOnlyIfAsked, Types!GoneOnlyIfAsked

-----------------------------------------------------------------------------
(* The editor of an entry.                                                 *)

\* The editor and the builder mean the same by what is kept of a sequence.
LEMMA EntryKept == ASSUME NEW s, NEW P PROVE Entry!Kept(s, P) = Types!Kept(s, P)
  BY DEF Entry!Kept, Types!Kept, Entry!Cardinality, Types!Cardinality, Entry!IsFiniteSet, Types!IsFiniteSet

\* One sequence has elements of another, each at most once.
Sublist(t, s) ==
    \E f \in [DOMAIN t -> DOMAIN s] :
        /\ \A k \in DOMAIN t : t[k] = s[f[k]]
        /\ \A j, k \in DOMAIN t : f[j] = f[k] => j = k

\* What a sequence is after its elements of an id were dropped.
LEMMA DropIs ==
    ASSUME NEW S, NEW s \in Seq(S), NEW id
    PROVE  /\ Entry!Drop(s, id) \in Seq(S)
           /\ Sublist(Entry!Drop(s, id), s)
           /\ \A k \in DOMAIN Entry!Drop(s, id) : Entry!Drop(s, id)[k].id # id
<1> DEFINE P == {k \in DOMAIN s : s[k].id # id}
           d == Types!Kept(s, P)
<1>1. Entry!Drop(s, id) = d
  BY EntryKept DEF Entry!Drop, d
<1>2. P \in SUBSET (DOMAIN s)
  OBVIOUS
<1> HIDE DEF P, d
<1>3. d \in Seq(S) /\ \E f \in [DOMAIN d -> P] :
                  /\ \A k \in DOMAIN d : d[k] = s[f[k]]
                  /\ \A j, k \in DOMAIN d : f[j] = f[k] => j = k
  BY <1>2, KeptIs DEF d
<1>4. PICK f \in [DOMAIN d -> P] : /\ \A k \in DOMAIN d : d[k] = s[f[k]]
                                   /\ \A j, k \in DOMAIN d : f[j] = f[k] => j = k
  BY <1>3
<1>5. f \in [DOMAIN d -> DOMAIN s]
  BY <1>2, <1>4
<1>6. \A k \in DOMAIN d : d[k].id # id
  BY <1>4 DEF P
<1>7. Sublist(d, s)
  BY <1>4, <1>5 DEF Sublist
<1> QED
  BY <1>1, <1>3, <1>6, <1>7

\* A finite set of numbers that is not empty has a largest one.
LEMMA MaxIs ==
    ASSUME NEW T \in SUBSET Nat, IsFiniteSet(T), T # {}
    PROVE  Entry!Max(T) \in Nat
<1> DEFINE before == [e \in T |-> {d \in T : d < e}]
           N == Cardinality(T)
<1>1. before \in [T -> SUBSET T] /\ \A e \in T : before[e] = {d \in T : d < e}
  OBVIOUS
<1> HIDE DEF before
<1>2. Ordered(T, before)
  <2>1. \A d \in T : d \notin before[d]
    BY <1>1
  <2>2. \A d, e \in T : d # e => d \in before[e] \/ e \in before[d]
    BY <1>1
  <2>3. \A d, e \in T : d \in before[e] => before[d] \subseteq before[e]
    <3> SUFFICES ASSUME NEW d \in T, NEW e \in T, d \in before[e], NEW c \in before[d] PROVE c \in before[e]
      OBVIOUS
    <3>1. c \in T /\ c < d /\ d < e
      BY <1>1
    <3>2. c < e
      BY <3>1
    <3> QED
      BY <1>1, <3>1, <3>2
  <2> QED
    BY <1>1, <2>1, <2>2, <2>3 DEF Ordered
<1>3. N \in Nat /\ N # 0
  BY FS_CardinalityType, FS_EmptySet
<1>4. N - 1 \in 0 .. N - 1
  BY <1>3
<1>5. PICK m \in T : Cardinality(before[m]) = N - 1
  BY <1>2, <1>4, ByRank DEF N
<1>6. IsFiniteSet(T \ {m}) /\ Cardinality(T \ {m}) = N - 1
  BY FS_RemoveElement DEF N
<1>7. before[m] \subseteq T \ {m}
  BY <1>1
<1>8. before[m] = T \ {m}
  BY <1>5, <1>6, <1>7, FS_Subset
<1>9. \A d \in T : m >= d
  BY <1>1, <1>8
<1>10. \E x \in T : \A y \in T : x >= y
  BY <1>9
<1>11. Entry!Max(T) \in T
  BY <1>10 DEF Entry!Max
<1> QED
  BY <1>11

\* The new pending id is a number.
LEMMA NextIs == ASSUME staged \in Seq(Entry!Pending) PROVE Entry!NextPending \in Nat \ {0}
<1> DEFINE T == {staged[k].id : k \in DOMAIN staged}
<1>1. CASE staged = <<>>
  BY <1>1 DEF Entry!NextPending
<1>2. CASE staged # <<>>
  <2>1. Len(staged) \in Nat /\ DOMAIN staged = 1 .. Len(staged)
    OBVIOUS
  <2>2. \A k \in DOMAIN staged : staged[k] \in Entry!Pending
    OBVIOUS
  <2>3. T \subseteq Nat
    BY <2>2 DEF Entry!Pending
  <2>4. T # {}
    <3>1. Len(staged) # 0
      BY <1>2
    <3>2. 1 \in DOMAIN staged
      BY <2>1, <3>1
    <3> QED
      BY <3>2
  <2>5. IsFiniteSet(T)
    <3> DEFINE g == [k \in 1 .. Len(staged) |-> staged[k].id]
    <3>1. IsFiniteSet(1 .. Len(staged))
      BY <2>1, FS_Interval
    <3>2. g \in Surjection(1 .. Len(staged), T)
      BY <2>1 DEF Surjection
    <3> QED
      BY <3>1, <3>2, FS_Surjection
  <2>6. Entry!Max(T) \in Nat
    BY <2>3, <2>4, <2>5, MaxIs
  <2> QED
    BY <1>2, <2>6 DEF Entry!NextPending
<1> QED
  BY <1>1, <1>2

\* Sequences of rows; of an entry that is stored or of none.
EntryRows == Seq([line : Lines \cup {"former"}, entry : {0, 1}, live : BOOLEAN])

EntryTyped ==
    /\ entries \in {0, 1} /\ doc \in 0 .. entries
    /\ rows \in EntryRows
    /\ route \in {"loading", "editing", "left", "saved"}
    /\ staged \in Seq(Entry!Pending) /\ form \in Entry!Field
    /\ saves \in Seq(Entry!Save) /\ change \in Entry!Change /\ used \subseteq Lines

LinesOf(list) == {list[k].line : k \in DOMAIN list}
Apart(list) == \A j, k \in DOMAIN list : list[j].line = list[k].line => j = k
IsStored(l) == \E r \in DOMAIN rows : rows[r].line = l
Known(f) == f.lines \subseteq DOMAIN rows /\ (~f.there => f.lines = {})

\* A save that has stored the entry, or a line, and does not know yet.
EntryDone(s) == s.pc = "answered" /\ s.ok /\ s.call # "line"
LineDone(s) == s.pc = "answered" /\ s.ok /\ s.call = "line"

\* Until it has stored the entry, a save that creates one is of an editor that has none.
ParentOf(s) ==
    /\ s.call = "create" => /\ s.doc = 0 /\ doc = 0
                            /\ entries = IF EntryDone(s) THEN 1 ELSE 0
                            /\ EntryDone(s) => s.new = 1
    /\ s.call # "create" => s.doc = 1 /\ doc = 1

\* The lines of a save are stored or left; a line that is left is not stored, except the first one when
\* that is known of the server only.
LeftOf(s) ==
    /\ LinesOf(s.left) \subseteq s.all /\ s.all \subseteq used
    /\ Apart(s.left)
    /\ s.call = "line" => s.left # <<>>
    /\ s.call # "line" => s.all = LinesOf(s.left)
    /\ \A l \in s.all : l \in LinesOf(s.left) \/ IsStored(l)
    /\ LineDone(s) => s.new \in DOMAIN rows /\ rows[s.new].line = s.left[1].line
    /\ \A r \in DOMAIN rows, k \in DOMAIN s.left : rows[r].line = s.left[k].line => k = 1 /\ LineDone(s)
    /\ \A j \in DOMAIN staged, k \in DOMAIN s.left : staged[j].line = s.left[k].line => staged[j].id = s.left[k].id

\* Whatever of a save is stored is of the entry.
RowsOfSave(s) ==
    /\ Known(s.form)
    /\ \A r \in DOMAIN rows : rows[r].live /\ rows[r].line \in s.all => rows[r].entry = 1
    /\ EntryDone(s) \/ s.call = "line" => \A r \in s.form.lines : rows[r].live => rows[r].entry = 1

SaveInv(s) == ParentOf(s) /\ LeftOf(s) /\ RowsOfSave(s)

SavesInv ==
    /\ \A i \in DOMAIN saves : saves[i].pc # "over" => i = Len(saves) /\ SaveInv(saves[i])
    /\ doc = entries \/ \E i \in DOMAIN saves : EntryDone(saves[i])

LinesInv ==
    /\ Known(form)
    /\ LinesOf(staged) \subseteq used
    /\ \A r \in DOMAIN rows : rows[r].line # "former" => rows[r].line \in used
    /\ \A a, b \in DOMAIN rows : rows[a].line = rows[b].line /\ rows[a].line # "former" => a = b
    /\ Apart(staged)
    /\ \A k \in DOMAIN staged : IsStored(staged[k].line) =>
          \E i \in DOMAIN saves : LineDone(saves[i]) /\ staged[k].id = saves[i].left[1].id

ChangeInv ==
    change.pc # "none" =>
        /\ change.call \in {"add", "edit", "remove"}
        /\ change.call # "remove" => change.doc = 1
        /\ change.call # "add" \/ (change.pc = "answered" /\ change.ok) => change.row \in DOMAIN rows
        /\ change.call = "add" => change.line \in used
        /\ change.call = "add" /\ change.pc = "called" =>
              /\ ~IsStored(change.line) /\ change.line \notin LinesOf(staged)
              /\ \A i \in DOMAIN saves : saves[i].pc # "over" => change.line \notin saves[i].all

EntryInv == EntryTyped /\ SavesInv /\ LinesInv /\ ChangeInv

\* Opening the entry reads its lines.
LEMMA EntryOpens == ASSUME EntryInv, Entry!Open PROVE EntryInv'
<1> USE DEF EntryInv
<1>1. form' \in Entry!Field /\ Known(form')
  <2>1. Entry!RowsOf(doc) \subseteq DOMAIN rows /\ DOMAIN rows \subseteq Nat
    BY DEF Entry!RowsOf, EntryTyped, EntryRows
  <2>2. form' = Entry!Absent \/ form' = [there |-> TRUE, lines |-> Entry!RowsOf(doc)]
    BY DEF Entry!Open
  <2>3. CASE form' = Entry!Absent
    BY <2>3 DEF Entry!Absent, Entry!Field, Known
  <2>4. CASE form' = [there |-> TRUE, lines |-> Entry!RowsOf(doc)]
    BY <2>1, <2>4 DEF Entry!Field, Known
  <2> QED
    BY <2>2, <2>3, <2>4
<1>2. EntryTyped'
  BY <1>1 DEF EntryTyped, Entry!Open
<1>3. SavesInv' /\ ChangeInv'
  BY DEF Entry!Open, SavesInv, ChangeInv, SaveInv, ParentOf, LeftOf, RowsOfSave, Known, IsStored
<1>4. LinesInv'
  BY <1>1 DEF Entry!Open, LinesInv, Known, IsStored
<1> QED
  BY <1>2, <1>3, <1>4

\* With fewer lines staged and nothing else changed, the invariant holds on.
LEMMA FewerStaged ==
    ASSUME EntryInv, UNCHANGED <<entries, rows, doc, form, saves, change, used>>,
           route' \in {"loading", "editing", "left", "saved"},
           staged' \in Seq(Entry!Pending), Sublist(staged', staged)
    PROVE  EntryInv'
<1> USE DEF EntryInv
<1>1. PICK f \in [DOMAIN staged' -> DOMAIN staged] :
          /\ \A k \in DOMAIN staged' : staged'[k] = staged[f[k]]
          /\ \A j, k \in DOMAIN staged' : f[j] = f[k] => j = k
  BY DEF Sublist
<1>2. EntryTyped'
  BY DEF EntryTyped
<1>3. LinesOf(staged') \subseteq LinesOf(staged)
  BY <1>1 DEF LinesOf
<1>4. ASSUME NEW s, LeftOf(s) PROVE LeftOf(s)'
  BY <1>1, <1>4 DEF LeftOf, IsStored
<1>5. SavesInv'
  <2>1. ASSUME NEW i \in DOMAIN saves, saves[i].pc # "over" PROVE i = Len(saves) /\ SaveInv(saves[i])'
    <3>1. i = Len(saves) /\ SaveInv(saves[i])
      BY <2>1 DEF SavesInv
    <3>2. ParentOf(saves[i])' /\ RowsOfSave(saves[i])'
      BY <3>1 DEF SaveInv, ParentOf, RowsOfSave, Known
    <3>3. LeftOf(saves[i])'
      BY <1>4, <3>1 DEF SaveInv
    <3> QED
      BY <3>1, <3>2, <3>3 DEF SaveInv
  <2>2. (doc = entries \/ \E i \in DOMAIN saves : EntryDone(saves[i]))'
    BY DEF SavesInv
  <2> QED
    BY <2>1, <2>2 DEF SavesInv
<1>6. Apart(staged')
  BY <1>1 DEF Apart, LinesInv
<1>7. LinesInv'
  BY <1>1, <1>3, <1>6 DEF LinesInv, Known, IsStored
<1>8. ChangeInv'
  BY <1>3 DEF ChangeInv, IsStored
<1> QED
  BY <1>2, <1>5, <1>7, <1>8

\* Leaving, and removing a staged line.
LEMMA EntryLeaves ==
    ASSUME EntryInv, Entry!Leave \/ \E k \in DOMAIN staged : Entry!Unstage(k)
    PROVE  EntryInv'
<1>1. ASSUME Entry!Leave PROVE EntryInv'
  <2>1. staged \in Seq(Entry!Pending) /\ staged' = staged
    BY <1>1 DEF Entry!Leave, EntryInv, EntryTyped
  <2>2. Sublist(staged, staged)
    <3> DEFINE f == [k \in DOMAIN staged |-> k]
    <3>1. f \in [DOMAIN staged -> DOMAIN staged] /\ (\A k \in DOMAIN staged : staged[k] = staged[f[k]])
              /\ \A j, k \in DOMAIN staged : f[j] = f[k] => j = k
      OBVIOUS
    <3> QED
      BY <3>1 DEF Sublist
  <2> QED
    BY <1>1, <2>1, <2>2, FewerStaged DEF Entry!Leave
<1>2. ASSUME NEW k \in DOMAIN staged, Entry!Unstage(k) PROVE EntryInv'
  <2>1. staged \in Seq(Entry!Pending) /\ route = "editing"
    BY <1>2 DEF Entry!Unstage, EntryInv, EntryTyped
  <2>2. staged' \in Seq(Entry!Pending) /\ Sublist(staged', staged)
    BY <1>2, <2>1, DropIs DEF Entry!Unstage
  <2> QED
    BY <1>2, <2>1, <2>2, FewerStaged DEF Entry!Unstage
<1> QED
  BY <1>1, <1>2

\* A staged line is one that was not used.
LEMMA LineStaged == ASSUME EntryInv, NEW l \in Lines, Entry!Stage(l) PROVE EntryInv'
<1> USE DEF EntryInv
<1> DEFINE p == [id |-> Entry!NextPending, line |-> l]
           n == Len(staged) + 1
<1>1. staged \in Seq(Entry!Pending) /\ p \in Entry!Pending /\ p.line = l /\ l \notin used
  BY NextIs DEF EntryTyped, Entry!Pending, Entry!Stage
<1>2. staged' = Append(staged, p)
  BY DEF Entry!Stage
<1>3. UNCHANGED <<entries, rows, route, doc, form, saves, change>> /\ used' = used \cup {l}
  BY DEF Entry!Stage
<1> HIDE DEF p
<1>4. Len(staged) \in Nat /\ DOMAIN staged = 1 .. Len(staged)
  BY <1>1
<1>5. DOMAIN staged' = 1 .. n /\ staged'[n] = p /\ \A k \in DOMAIN staged : staged'[k] = staged[k]
  BY <1>1, <1>2, <1>4
<1>6. \A k \in DOMAIN staged' : k \in DOMAIN staged \/ k = n
  BY <1>4, <1>5
<1> HIDE DEF n
<1>7. ~IsStored(l) /\ l \notin LinesOf(staged)
  <2>1. "former" \notin Lines
    BY ScreensAssumption DEF Entry!EditorAssumption
  <2> QED
    BY <1>1, <2>1 DEF LinesInv, IsStored
<1>8. EntryTyped'
  BY <1>1, <1>2, <1>3 DEF EntryTyped
<1>9. LinesOf(staged') \subseteq LinesOf(staged) \cup {l} /\ Apart(staged')
  BY <1>1, <1>5, <1>6, <1>7 DEF LinesOf, Apart, LinesInv
<1>10. SavesInv'
  <2>1. ASSUME NEW i \in DOMAIN saves, saves[i].pc # "over" PROVE i = Len(saves) /\ SaveInv(saves[i])'
    <3>1. i = Len(saves) /\ SaveInv(saves[i])
      BY <2>1 DEF SavesInv
    <3>2. ParentOf(saves[i])' /\ RowsOfSave(saves[i])'
      BY <1>3, <3>1 DEF SaveInv, ParentOf, RowsOfSave, Known
    <3>3. l \notin LinesOf(saves[i].left)
      BY <1>1, <3>1 DEF SaveInv, LeftOf
    <3>4. LeftOf(saves[i])'
      BY <1>1, <1>3, <1>5, <1>6, <3>1, <3>3 DEF SaveInv, LeftOf, IsStored, LinesOf
    <3> QED
      BY <3>1, <3>2, <3>4 DEF SaveInv
  <2>2. (doc = entries \/ \E i \in DOMAIN saves : EntryDone(saves[i]))'
    BY <1>3 DEF SavesInv
  <2> QED
    BY <1>3, <2>1, <2>2 DEF SavesInv
<1>11. LinesInv'
  BY <1>1, <1>3, <1>5, <1>6, <1>7, <1>9 DEF LinesInv, Known, IsStored
<1>12. ChangeInv'
  BY <1>1, <1>3, <1>9 DEF ChangeInv, IsStored
<1> QED
  BY <1>8, <1>10, <1>11, <1>12

\* A line that is to be stored, changed or removed at once.
LEMMA LineCalled ==
    ASSUME EntryInv,
           \/ \E l \in Lines : Entry!AddLine(l)
           \/ \E r \in form.lines : Entry!EditLine(r) \/ Entry!RemoveLine(r)
    PROVE  EntryInv'
<1> USE DEF EntryInv
<1>1. form.lines \subseteq DOMAIN rows /\ \A r \in DOMAIN rows : rows[r].line \in Lines \cup {"former"}
  BY DEF LinesInv, Known, EntryTyped, EntryRows
<1>2. DOMAIN rows \subseteq Nat
  BY DEF EntryTyped, EntryRows
<1>3. UNCHANGED <<entries, rows, route, doc, staged, form, saves>>
  BY DEF Entry!AddLine, Entry!EditLine, Entry!RemoveLine
<1>4. used \subseteq used' /\ used' \subseteq Lines
  BY DEF Entry!AddLine, Entry!EditLine, Entry!RemoveLine, EntryTyped
<1>5. SavesInv'
  <2>1. ASSUME NEW i \in DOMAIN saves, saves[i].pc # "over" PROVE i = Len(saves) /\ SaveInv(saves[i])'
    <3>1. i = Len(saves) /\ SaveInv(saves[i])
      BY <2>1 DEF SavesInv
    <3>2. ParentOf(saves[i])' /\ RowsOfSave(saves[i])'
      BY <1>3, <3>1 DEF SaveInv, ParentOf, RowsOfSave, Known
    <3>3. LeftOf(saves[i])'
      BY <1>3, <1>4, <3>1 DEF SaveInv, LeftOf, IsStored
    <3> QED
      BY <3>1, <3>2, <3>3 DEF SaveInv
  <2> QED
    BY <1>3, <2>1 DEF SavesInv
<1>6. LinesInv'
  BY <1>3, <1>4 DEF LinesInv, Known, IsStored
<1>7. ASSUME NEW l \in Lines, Entry!AddLine(l) PROVE EntryTyped' /\ ChangeInv'
  <2>1. change' = [pc |-> "called", call |-> "add", doc |-> doc, line |-> l, row |-> 0, ok |-> FALSE]
    BY <1>7 DEF Entry!AddLine, Entry!Called
  <2>2. doc = 1 /\ l \notin used /\ used' = used \cup {l}
    BY <1>7 DEF Entry!AddLine, EntryTyped
  <2>3. change' \in Entry!Change
    BY <2>1, <2>2 DEF Entry!Change
  <2>4. "former" \notin Lines
    BY ScreensAssumption DEF Entry!EditorAssumption
  <2>5. ~IsStored(l) /\ l \notin LinesOf(staged)
    BY <2>2, <2>4 DEF LinesInv, IsStored
  <2>6. \A i \in DOMAIN saves : saves[i].pc # "over" => l \notin saves[i].all
    BY <2>2 DEF SavesInv, SaveInv, LeftOf
  <2> QED
    BY <1>3, <1>4, <2>1, <2>2, <2>3, <2>5, <2>6 DEF EntryTyped, ChangeInv, IsStored
<1>8. ASSUME NEW r \in form.lines, Entry!EditLine(r) \/ Entry!RemoveLine(r) PROVE EntryTyped' /\ ChangeInv'
  <2>1. PICK c \in {"edit", "remove"} :
           /\ change' = [pc |-> "called", call |-> c, doc |-> doc, line |-> rows[r].line, row |-> r, ok |-> FALSE]
           /\ c = "edit" => doc # 0
    BY <1>8 DEF Entry!EditLine, Entry!RemoveLine, Entry!Called
  <2>2. r \in DOMAIN rows /\ r \in Nat /\ rows[r].line \in Lines \cup {"former"} /\ doc \in {0, 1}
    BY <1>1, <1>2 DEF EntryTyped
  <2>3. change' \in Entry!Change
    BY <2>1, <2>2 DEF Entry!Change
  <2> QED
    BY <1>3, <1>4, <2>1, <2>2, <2>3 DEF EntryTyped, ChangeInv
<1>9. EntryTyped' /\ ChangeInv'
  BY <1>7, <1>8
<1> QED
  BY <1>5, <1>6, <1>9

\* The answer of such a call.
LEMMA LineAnswered == ASSUME EntryInv, Entry!EndChange PROVE EntryInv'
<1> USE DEF EntryInv
<1>1. DOMAIN rows \subseteq Nat /\ form \in Entry!Field /\ Known(form)
  BY DEF EntryTyped, EntryRows, LinesInv
<1>2. change.pc = "answered" /\ change' = Entry!NoChange
      /\ UNCHANGED <<entries, rows, route, doc, staged, saves, used>>
  BY DEF Entry!EndChange
<1>b. change.ok \in BOOLEAN
  BY DEF EntryTyped, Entry!Change
<1>3. change.ok => change.row \in DOMAIN rows
  BY <1>2 DEF ChangeInv
<1>4. \/ form' = form
      \/ \E L \in SUBSET (DOMAIN rows) : form' = [there |-> TRUE, lines |-> L]
  <2>1. CASE ~change.ok
    <3>1. form' = form
      BY <1>b, <2>1 DEF Entry!EndChange
    <3> QED
      BY <3>1
  <2>2. CASE change.ok /\ change.call = "remove"
    <3>1. form' = [there |-> TRUE, lines |-> form.lines \ {change.row}]
      BY <2>2 DEF Entry!EndChange
    <3>2. form.lines \ {change.row} \in SUBSET (DOMAIN rows)
      BY <1>1 DEF Known
    <3> QED
      BY <3>1, <3>2
  <2>3. CASE change.ok /\ change.call # "remove"
    <3>1. form' = [there |-> TRUE, lines |-> form.lines \cup {change.row}]
      BY <2>3 DEF Entry!EndChange
    <3>2. form.lines \cup {change.row} \in SUBSET (DOMAIN rows)
      BY <1>1, <1>3, <2>3 DEF Known
    <3> QED
      BY <3>1, <3>2
  <2> QED
    BY <2>1, <2>2, <2>3
<1>5. form' \in Entry!Field /\ Known(form')
  <2>1. CASE form' = form
    BY <1>1, <2>1
  <2>2. ASSUME NEW L \in SUBSET (DOMAIN rows), form' = [there |-> TRUE, lines |-> L] PROVE form' \in Entry!Field /\ Known(form')
    BY <1>1, <2>2 DEF Entry!Field, Known
  <2> QED
    BY <1>4, <2>1, <2>2
<1>6. EntryTyped'
  BY <1>2, <1>5 DEF EntryTyped, Entry!NoChange, Entry!Change
<1>7. SavesInv'
  BY <1>2 DEF SavesInv, SaveInv, ParentOf, LeftOf, RowsOfSave, Known, IsStored
<1>8. LinesInv'
  BY <1>2, <1>5 DEF LinesInv, Known, IsStored
<1>9. ChangeInv'
  BY <1>2 DEF ChangeInv, Entry!NoChange
<1> QED
  BY <1>6, <1>7, <1>8, <1>9

\* A save under way is the last one; when it becomes t, the others are over still.
Becomes(i, t) ==
    /\ saves' \in Seq(Entry!Save) /\ DOMAIN saves' = DOMAIN saves /\ Len(saves') = Len(saves)
    /\ i = Len(saves) /\ saves'[i] = t
    /\ \A j \in DOMAIN saves : j # i => saves'[j] = saves[j] /\ saves[j].pc = "over"

LEMMA SaveBecomes ==
    ASSUME EntryInv, NEW i \in DOMAIN saves, saves[i].pc # "over", NEW t \in Entry!Save,
           saves' = [saves EXCEPT ![i] = t]
    PROVE  Becomes(i, t)
<1>1. saves \in Seq(Entry!Save)
  BY DEF EntryInv, EntryTyped
<1>2. \A j \in DOMAIN saves : saves[j].pc # "over" => j = Len(saves)
  BY DEF EntryInv, SavesInv
<1> QED
  BY <1>1, <1>2 DEF Becomes

\* What holds of the saves then.
LEMMA SavesThen ==
    ASSUME NEW i \in DOMAIN saves, NEW t, Becomes(i, t),
           t.pc # "over" => SaveInv(t)',
           doc' = entries' \/ EntryDone(t)
    PROVE  SavesInv'
<1>1. \A j \in DOMAIN saves' : saves'[j].pc # "over" => j = i
  BY DEF Becomes
<1>2. saves'[i] = t /\ i = Len(saves') /\ i \in DOMAIN saves'
  BY DEF Becomes
<1>3. (\A j \in DOMAIN saves : saves[j].pc # "over" => j = Len(saves) /\ SaveInv(saves[j]))'
  BY <1>1, <1>2
<1>4. (doc = entries \/ \E j \in DOMAIN saves : EntryDone(saves[j]))'
  BY <1>2 DEF EntryDone
<1> QED
  BY <1>3, <1>4 DEF SavesInv

\* The lines staged, and the call under way, when a save becomes t and no line is stored.
LEMMA LinesThen ==
    ASSUME EntryInv, NEW i \in DOMAIN saves, saves[i].pc # "over", NEW t, Becomes(i, t),
           UNCHANGED <<rows, change, used>>, Known(form'),
           staged' = staged \/ Sublist(staged', staged),
           \A k \in DOMAIN staged' : IsStored(staged'[k].line) => LineDone(t) /\ staged'[k].id = t.left[1].id,
           t.pc # "over" => t.all = saves[i].all
    PROVE  LinesInv' /\ ChangeInv'
<1> USE DEF EntryInv
<1>1. LinesOf(staged') \subseteq LinesOf(staged) /\ Apart(staged')
  <2>1. CASE staged' = staged
    BY <2>1 DEF LinesInv
  <2>2. CASE Sublist(staged', staged)
    <3>1. PICK f \in [DOMAIN staged' -> DOMAIN staged] :
              /\ \A k \in DOMAIN staged' : staged'[k] = staged[f[k]]
              /\ \A j, k \in DOMAIN staged' : f[j] = f[k] => j = k
      BY <2>2 DEF Sublist
    <3>2. LinesOf(staged') \subseteq LinesOf(staged)
      BY <3>1 DEF LinesOf
    <3>3. Apart(staged')
      BY <3>1 DEF Apart, LinesInv
    <3> QED
      BY <3>2, <3>3
  <2> QED
    BY <2>1, <2>2
<1>2. (\A k \in DOMAIN staged : IsStored(staged[k].line) =>
          \E j \in DOMAIN saves : LineDone(saves[j]) /\ staged[k].id = saves[j].left[1].id)'
  <2>1. i \in DOMAIN saves' /\ saves'[i] = t
    BY DEF Becomes
  <2> QED
    BY <2>1 DEF IsStored, LineDone
<1>3. LinesInv'
  <2>1. Known(form)' /\ (LinesOf(staged) \subseteq used)'
    BY <1>1 DEF LinesInv, Known, LinesOf
  <2>2. Apart(staged)'
    BY <1>1 DEF Apart
  <2>3. rows' = rows /\ used' = used
    OBVIOUS
  <2> QED
    BY <1>2, <2>1, <2>2, <2>3 DEF LinesInv
<1>4. \A j \in DOMAIN saves' : saves'[j].pc # "over" => j = i /\ saves'[j].all = saves[i].all
  BY DEF Becomes
<1>5. ChangeInv'
  BY <1>1, <1>4 DEF ChangeInv, IsStored
<1> QED
  BY <1>3, <1>5

\* A save that fails is over; what it has stored stays.
LEMMA SaveFails == ASSUME EntryInv, NEW i \in DOMAIN saves, Entry!SaveFailed(i) PROVE EntryInv'
<1> DEFINE s == saves[i]
           t == [s EXCEPT !.pc = "over"]
<1>1. s \in Entry!Save /\ s.pc = "answered" /\ ~s.ok
  BY DEF EntryInv, EntryTyped, Entry!SaveFailed
<1>2. t \in Entry!Save /\ t.pc = "over"
  BY <1>1 DEF Entry!Save
<1>3. saves' = [saves EXCEPT ![i] = t]
  BY DEF Entry!SaveFailed
<1>4. UNCHANGED <<entries, rows, route, doc, staged, form, change, used>>
  BY DEF Entry!SaveFailed
<1> HIDE DEF t
<1>5. Becomes(i, t)
  BY <1>1, <1>2, <1>3, SaveBecomes
<1>6. \A j \in DOMAIN saves : ~EntryDone(saves[j]) /\ ~LineDone(saves[j])
  BY <1>1, <1>5 DEF Becomes, EntryDone, LineDone
<1>7. SavesInv'
  <2>1. doc' = entries'
    BY <1>4, <1>6 DEF EntryInv, SavesInv
  <2> QED
    BY <1>2, <1>5, <2>1, SavesThen
<1>8. LinesInv' /\ ChangeInv'
  <2>1. Known(form')
    BY <1>4 DEF EntryInv, LinesInv
  <2>2. \A k \in DOMAIN staged' : IsStored(staged'[k].line) => LineDone(t) /\ staged'[k].id = t.left[1].id
    BY <1>4, <1>6 DEF EntryInv, LinesInv
  <2> QED
    BY <1>1, <1>2, <1>4, <1>5, <2>1, <2>2, LinesThen
<1>9. EntryTyped'
  BY <1>4, <1>5 DEF EntryInv, EntryTyped, Becomes
<1> QED
  BY <1>7, <1>8, <1>9 DEF EntryInv

\* A save s goes on as t, with a list of lines to store.
GoesOn(t, s, list) ==
    /\ t.pc = IF list = <<>> THEN "over" ELSE "called"
    /\ t.call = "line" /\ t.doc = 1 /\ t.left = list
    /\ t.form = s.form /\ t.all = s.all /\ t.ok = s.ok /\ t.new = s.new

\* What a save becomes that goes on.
LEMMA Continues ==
    ASSUME EntryInv, NEW i \in DOMAIN saves, saves[i].pc = "answered",
           NEW list \in Seq(Entry!Pending), Entry!Continued(i, 1, list)
    PROVE  \E t \in Entry!Save : GoesOn(t, saves[i], list) /\ Becomes(i, t)
<1> DEFINE s == saves[i]
<1>1. s \in Entry!Save
  BY DEF EntryInv, EntryTyped
<1>2. PICK p : p = IF list = <<>> THEN "over" ELSE "called"
  OBVIOUS
<1>3. p \in {"called", "answered", "over"}
  BY <1>2
<1> DEFINE t == [s EXCEPT !.pc = p, !.call = "line", !.doc = 1, !.left = list]
<1>4. saves' = [saves EXCEPT ![i] = t]
  BY <1>2 DEF Entry!Continued
<1> HIDE DEF s
<1>5. t \in Entry!Save
  BY <1>1, <1>3 DEF Entry!Save
<1>6. GoesOn(t, s, list)
  BY <1>1, <1>2 DEF Entry!Save, GoesOn
<1> HIDE DEF t
<1>7. Becomes(i, t)
  BY <1>4, <1>5, SaveBecomes
<1> QED
  BY <1>5, <1>6, <1>7 DEF s

\* The entry is stored: its lines are left, and the next save updates it.
LEMMA EntryGoesOn == ASSUME EntryInv, NEW i \in DOMAIN saves, Entry!EntrySaved(i) PROVE EntryInv'
<1>1. PICK s : s = saves[i]
  OBVIOUS
<1>2. s \in Entry!Save /\ s.pc = "answered" /\ s.ok /\ s.call # "line" /\ EntryDone(s) /\ ~LineDone(s)
  BY <1>1 DEF EntryInv, EntryTyped, Entry!EntrySaved, EntryDone, LineDone
<1>3. SaveInv(s) /\ i = Len(saves)
  BY <1>1, <1>2 DEF EntryInv, SavesInv
<1>4. s.left \in Seq(Entry!Pending) /\ s.new \in Nat /\ s.call \in {"create", "update"}
  BY <1>2 DEF Entry!Save
<1>5. entries = 1 /\ (s.call = "create" => s.new = 1) /\ (s.call # "create" => s.doc = 1 /\ doc = 1)
  BY <1>2, <1>3 DEF SaveInv, ParentOf, EntryInv, EntryTyped
<1>6. Entry!Continued(i, 1, s.left) /\ doc' = 1
  BY <1>1, <1>5 DEF Entry!EntrySaved, Entry!ParentAfter
<1>7. UNCHANGED <<entries, rows, staged, form, change, used>>
  BY DEF Entry!EntrySaved
<1>8. PICK t \in Entry!Save : GoesOn(t, s, s.left) /\ Becomes(i, t)
  BY <1>1, <1>2, <1>4, <1>6, Continues
<1>a. /\ t.pc = IF s.left = <<>> THEN "over" ELSE "called"
      /\ t.call = "line" /\ t.doc = 1 /\ t.left = s.left /\ t.form = s.form /\ t.all = s.all
      /\ Becomes(i, t)
  BY <1>8 DEF GoesOn
<1>9. ~EntryDone(t) /\ ~LineDone(t)
  BY <1>a DEF EntryDone, LineDone
<1>10. t.pc # "over" => SaveInv(t)'
  <2> SUFFICES ASSUME t.pc # "over" PROVE SaveInv(t)'
    OBVIOUS
  <2>1. ParentOf(t)'
    BY <1>6, <1>a DEF ParentOf
  <2>2. LeftOf(t)'
    <3>1. s.left # <<>>
      BY <1>a
    <3>2. LeftOf(s)
      BY <1>3 DEF SaveInv
    <3> QED
      BY <1>2, <1>7, <1>a, <1>9, <3>1, <3>2 DEF LeftOf, IsStored
  <2>3. RowsOfSave(t)'
    BY <1>2, <1>3, <1>7, <1>a DEF SaveInv, RowsOfSave, Known
  <2> QED
    BY <2>1, <2>2, <2>3 DEF SaveInv
<1>11. SavesInv'
  <2>1. doc' = entries'
    BY <1>5, <1>6, <1>7
  <2> QED
    BY <1>a, <1>10, <2>1, SavesThen
<1>12. LinesInv' /\ ChangeInv'
  <2>1. Known(form')
    BY <1>7 DEF EntryInv, LinesInv
  <2>2. \A j \in DOMAIN saves : ~LineDone(saves[j])
    BY <1>1, <1>2, <1>a DEF Becomes, LineDone
  <2>3. \A k \in DOMAIN staged' : IsStored(staged'[k].line) => LineDone(t) /\ staged'[k].id = t.left[1].id
    BY <1>7, <2>2 DEF EntryInv, LinesInv
  <2>4. t.pc # "over" => t.all = saves[i].all
    BY <1>1, <1>a
  <2>5. saves[i].pc # "over"
    BY <1>1, <1>2
  <2> QED
    BY <1>7, <1>a, <2>1, <2>3, <2>4, <2>5, LinesThen
<1>13. EntryTyped'
  <2>1. route' \in {"loading", "editing", "left", "saved"}
    BY <1>6 DEF Entry!Continued, EntryInv, EntryTyped
  <2>2. saves' \in Seq(Entry!Save)
    BY <1>a DEF Becomes
  <2> QED
    BY <1>5, <1>6, <1>7, <2>1, <2>2 DEF EntryInv, EntryTyped
<1> QED
  BY <1>11, <1>12, <1>13 DEF EntryInv

\* A line is stored: it is no longer staged, and it is in the form.
LEMMA LineGoesOn == ASSUME EntryInv, NEW i \in DOMAIN saves, Entry!LineSaved(i) PROVE EntryInv'
<1>1. PICK s : s = saves[i]
  OBVIOUS
<1>2. s \in Entry!Save /\ s.pc = "answered" /\ s.ok /\ s.call = "line" /\ LineDone(s) /\ ~EntryDone(s)
  BY <1>1 DEF EntryInv, EntryTyped, Entry!LineSaved, EntryDone, LineDone
<1>3. SaveInv(s) /\ i = Len(saves)
  BY <1>1, <1>2 DEF EntryInv, SavesInv
<1>4. s.left \in Seq(Entry!Pending) /\ s.left # <<>> /\ s.doc = 1 /\ doc = 1 /\ entries = 1
  BY <1>2, <1>3 DEF Entry!Save, SaveInv, LeftOf, ParentOf, EntryInv, EntryTyped
<1>5. PICK list : list = Tail(s.left)
  OBVIOUS
<1>6. /\ list \in Seq(Entry!Pending) /\ Len(list) = Len(s.left) - 1 /\ Len(s.left) \in Nat
      /\ DOMAIN s.left = 1 .. Len(s.left) /\ DOMAIN list = 1 .. Len(list) /\ 1 \in DOMAIN s.left
      /\ \A k \in DOMAIN list : k + 1 \in DOMAIN s.left /\ k + 1 # 1 /\ list[k] = s.left[k + 1]
  BY <1>4, <1>5
<1>7. Entry!Continued(i, 1, list)
  BY <1>1, <1>4, <1>5 DEF Entry!LineSaved, Entry!Rest
<1>8. UNCHANGED <<entries, rows, doc, change, used>>
  BY DEF Entry!LineSaved
<1>9. PICK t \in Entry!Save : GoesOn(t, s, list) /\ Becomes(i, t)
  BY <1>1, <1>2, <1>6, <1>7, Continues
<1>a. /\ t.pc = IF list = <<>> THEN "over" ELSE "called"
      /\ t.call = "line" /\ t.doc = 1 /\ t.left = list /\ t.form = s.form /\ t.all = s.all
      /\ Becomes(i, t)
  BY <1>9 DEF GoesOn
<1>10. ~EntryDone(t) /\ ~LineDone(t)
  BY <1>a DEF EntryDone, LineDone
<1>11. staged' \in Seq(Entry!Pending) /\ Sublist(staged', staged)
       /\ \A k \in DOMAIN staged' : staged'[k].id # s.left[1].id
  <2>1. staged' = Entry!Drop(staged, s.left[1].id)
    BY <1>1, <1>4 DEF Entry!LineSaved
  <2>2. staged \in Seq(Entry!Pending)
    BY DEF EntryInv, EntryTyped
  <2> QED
    BY <2>1, <2>2, DropIs
<1>12. PICK f \in [DOMAIN staged' -> DOMAIN staged] : \A k \in DOMAIN staged' : staged'[k] = staged[f[k]]
  BY <1>11 DEF Sublist
<1>13. s.new \in DOMAIN rows /\ rows[s.new].line = s.left[1].line
  BY <1>2, <1>3 DEF SaveInv, LeftOf
<1>14. form' \in Entry!Field /\ Known(form')
  <2>1. form' = [there |-> TRUE, lines |-> form.lines \cup {s.new}]
    BY <1>1 DEF Entry!LineSaved
  <2>2. form \in Entry!Field /\ Known(form) /\ s.new \in Nat
    BY <1>2 DEF EntryInv, EntryTyped, LinesInv, Entry!Save
  <2> QED
    BY <1>13, <2>1, <2>2 DEF Entry!Field, Known
<1>15. t.pc # "over" => SaveInv(t)'
  <2> SUFFICES ASSUME t.pc # "over" PROVE SaveInv(t)'
    OBVIOUS
  <2>1. ParentOf(t)'
    BY <1>4, <1>8, <1>a DEF ParentOf
  <2>2. LeftOf(t)'
    <3>1. list # <<>>
      BY <1>a
    <3>2. LeftOf(s)
      BY <1>3 DEF SaveInv
    <3>3. LinesOf(list) \subseteq LinesOf(s.left)
      BY <1>6 DEF LinesOf
    <3>4. Apart(list)
      <4> SUFFICES ASSUME NEW j \in DOMAIN list, NEW k \in DOMAIN list, list[j].line = list[k].line PROVE j = k
        BY DEF Apart
      <4>1. j + 1 = k + 1
        BY <1>6, <3>2 DEF LeftOf, Apart
      <4> QED
        BY <1>6, <4>1
    <3>5. \A l \in s.all : l \in LinesOf(list) \/ IsStored(l)
      <4> SUFFICES ASSUME NEW l \in s.all, ~IsStored(l) PROVE l \in LinesOf(list)
        OBVIOUS
      <4>1. PICK k \in DOMAIN s.left : l = s.left[k].line
        BY <3>2 DEF LeftOf, LinesOf
      <4>2. k # 1
        BY <1>13, <4>1 DEF IsStored
      <4>3. k - 1 \in DOMAIN list /\ list[k - 1] = s.left[k]
        BY <1>6, <4>2
      <4> QED
        BY <4>1, <4>3 DEF LinesOf
    <3>6. \A r \in DOMAIN rows, k \in DOMAIN list : rows[r].line # list[k].line
      BY <1>6, <3>2 DEF LeftOf
    <3>7. \A j \in DOMAIN staged', k \in DOMAIN list : staged'[j].line = list[k].line => staged'[j].id = list[k].id
      <4> SUFFICES ASSUME NEW j \in DOMAIN staged', NEW k \in DOMAIN list, staged'[j].line = list[k].line
                   PROVE  staged'[j].id = list[k].id
        OBVIOUS
      <4>1. f[j] \in DOMAIN staged /\ staged'[j] = staged[f[j]]
        BY <1>12
      <4>2. k + 1 \in DOMAIN s.left /\ list[k] = s.left[k + 1]
        BY <1>6
      <4> QED
        BY <3>2, <4>1, <4>2 DEF LeftOf
    <3> QED
      BY <1>8, <1>a, <1>10, <3>1, <3>2, <3>3, <3>4, <3>5, <3>6, <3>7 DEF LeftOf, IsStored
  <2>3. RowsOfSave(t)'
    BY <1>2, <1>3, <1>8, <1>a DEF SaveInv, RowsOfSave, Known
  <2> QED
    BY <2>1, <2>2, <2>3 DEF SaveInv
<1>16. SavesInv'
  <2>1. doc' = entries'
    BY <1>4, <1>8
  <2> QED
    BY <1>a, <1>15, <2>1, SavesThen
<1>17. LinesInv' /\ ChangeInv'
  <2>1. \A k \in DOMAIN staged : IsStored(staged[k].line) => staged[k].id = s.left[1].id
    BY <1>1, <1>a DEF EntryInv, LinesInv, Becomes, LineDone
  <2>2. \A k \in DOMAIN staged' : ~IsStored(staged'[k].line)
    BY <1>11, <1>12, <2>1
  <2>3. t.pc # "over" => t.all = saves[i].all
    BY <1>1, <1>a
  <2>4. saves[i].pc # "over"
    BY <1>1, <1>2
  <2> QED
    BY <1>8, <1>a, <1>11, <1>14, <2>2, <2>3, <2>4, LinesThen
<1>18. EntryTyped'
  <2>1. route' \in {"loading", "editing", "left", "saved"}
    BY <1>7 DEF Entry!Continued, EntryInv, EntryTyped
  <2>2. saves' \in Seq(Entry!Save)
    BY <1>a DEF Becomes
  <2> QED
    BY <1>8, <1>11, <1>14, <2>1, <2>2 DEF EntryInv, EntryTyped
<1> QED
  BY <1>16, <1>17, <1>18 DEF EntryInv

\* A save begins with what is staged.
LEMMA SaveClicked == ASSUME ~Overlap, EntryInv, Entry!ClickSave PROVE EntryInv'
<1> DEFINE n == Len(saves) + 1
           lines == {staged[k].line : k \in DOMAIN staged}
<1>1. PICK s : s = [pc |-> "called", call |-> IF doc = 0 THEN "create" ELSE "update",
                    doc |-> doc, form |-> form, left |-> staged, all |-> lines, ok |-> FALSE, new |-> 0]
  OBVIOUS
<1>2. saves' = Append(saves, s) /\ UNCHANGED <<entries, rows, route, doc, staged, form, change, used>>
  BY <1>1 DEF Entry!ClickSave
<1>3. \A i \in DOMAIN saves : saves[i].pc = "over"
  BY DEF Entry!ClickSave, Entry!Saving
<1>4. doc = entries /\ doc \in {0, 1}
  BY <1>3 DEF EntryInv, SavesInv, EntryDone, EntryTyped
<1>5. staged \in Seq(Entry!Pending) /\ form \in Entry!Field /\ saves \in Seq(Entry!Save) /\ lines = LinesOf(staged)
  BY DEF EntryInv, EntryTyped, LinesOf
<1>6. lines \in SUBSET Lines
  BY <1>5 DEF EntryInv, EntryTyped, LinesInv
<1>7. /\ s.pc = "called" /\ s.call = (IF doc = 0 THEN "create" ELSE "update") /\ s.doc = doc /\ s.form = form
      /\ s.left = staged /\ s.all = LinesOf(staged)
  BY <1>1, <1>5
<1>8. s \in Entry!Save
  <2> HIDE DEF lines
  <2>1. PICK c \in {"create", "update"} : c = IF doc = 0 THEN "create" ELSE "update"
    OBVIOUS
  <2> QED
    BY <1>1, <1>4, <1>5, <1>6, <2>1 DEF Entry!Save
<1> HIDE DEF lines
<1>9. Len(saves) \in Nat /\ DOMAIN saves = 1 .. Len(saves)
  BY <1>5
<1>10. /\ saves' \in Seq(Entry!Save) /\ Len(saves') = n /\ DOMAIN saves' = 1 .. n /\ saves'[n] = s
       /\ \A i \in DOMAIN saves : saves'[i] = saves[i]
  BY <1>2, <1>5, <1>8, <1>9
<1>11. \A i \in DOMAIN saves' : i = n \/ saves'[i].pc = "over"
  BY <1>3, <1>9, <1>10
<1>12. \A k \in DOMAIN staged : ~IsStored(staged[k].line)
  BY <1>3 DEF EntryInv, LinesInv, LineDone
<1>13. ~EntryDone(s) /\ ~LineDone(s)
  BY <1>7 DEF EntryDone, LineDone
<1>14. SaveInv(s)'
  <2>1. ParentOf(s)'
    BY <1>2, <1>4, <1>7, <1>13 DEF ParentOf
  <2>2. LeftOf(s)'
    <3>1. LinesOf(staged) \subseteq used /\ Apart(staged)
      BY DEF EntryInv, LinesInv
    <3>2. \A r \in DOMAIN rows, k \in DOMAIN staged : rows[r].line # staged[k].line
      BY <1>12 DEF IsStored
    <3>3. \A j, k \in DOMAIN staged : staged[j].line = staged[k].line => staged[j].id = staged[k].id
      BY <3>1 DEF Apart
    <3> QED
      BY <1>2, <1>7, <1>13, <3>1, <3>2, <3>3 DEF LeftOf
  <2>3. RowsOfSave(s)'
    <3>1. Known(form)
      BY DEF EntryInv, LinesInv
    <3>2. \A r \in DOMAIN rows : rows[r].line \notin LinesOf(staged)
      BY <1>12 DEF IsStored, LinesOf
    <3> QED
      BY <1>2, <1>7, <1>13, <3>1, <3>2 DEF RowsOfSave, Known
  <2> QED
    BY <2>1, <2>2, <2>3 DEF SaveInv
<1> HIDE DEF n
<1>15. SavesInv'
  <2>1. (\A i \in DOMAIN saves : saves[i].pc # "over" => i = Len(saves) /\ SaveInv(saves[i]))'
    BY <1>10, <1>11, <1>14
  <2>2. doc' = entries'
    BY <1>2, <1>4
  <2> QED
    BY <2>1, <2>2 DEF SavesInv
<1>16. LinesInv'
  <2>1. (\A k \in DOMAIN staged : ~IsStored(staged[k].line))'
    BY <1>2, <1>12 DEF IsStored
  <2> QED
    BY <1>2, <2>1 DEF EntryInv, LinesInv, Known
<1>17. ChangeInv'
  <2>1. (\A i \in DOMAIN saves : saves[i].pc # "over" => saves[i].all = LinesOf(staged))'
    BY <1>2, <1>7, <1>10, <1>11
  <2> QED
    BY <1>2, <2>1 DEF EntryInv, ChangeInv, IsStored
<1>18. EntryTyped'
  BY <1>2, <1>10 DEF EntryInv, EntryTyped
<1> QED
  BY <1>15, <1>16, <1>17, <1>18 DEF EntryInv

\* Rows that were added or changed: lines stay what they are, and one may be new.
RowsThen(l) ==
    /\ rows' \in EntryRows /\ DOMAIN rows \subseteq DOMAIN rows'
    /\ \A r \in DOMAIN rows : rows'[r].line = rows[r].line
    /\ \A r \in DOMAIN rows' : r \in DOMAIN rows \/ rows'[r].line = l
    /\ \A q, r \in DOMAIN rows' : q \notin DOMAIN rows /\ r \notin DOMAIN rows => q = r

\* A row is added.
LEMMA RowAdded ==
    ASSUME rows \in EntryRows, NEW l \in Lines, NEW e \in {0, 1}, rows' = Entry!Stored(l, e)
    PROVE  /\ RowsThen(l)
           /\ Len(rows) + 1 \in DOMAIN rows' /\ Len(rows) + 1 \notin DOMAIN rows
           /\ rows'[Len(rows) + 1] = [line |-> l, entry |-> e, live |-> TRUE]
           /\ \A r \in DOMAIN rows : rows'[r] = rows[r]
<1> DEFINE n == Len(rows) + 1
           q == [line |-> l, entry |-> e, live |-> TRUE]
           Rows == [line : Lines \cup {"former"}, entry : {0, 1}, live : BOOLEAN]
<1>1. q \in Rows
  OBVIOUS
<1> HIDE DEF Rows
<1>2. rows \in Seq(Rows) /\ rows' = Append(rows, q) /\ q.line = l
  BY DEF EntryRows, Rows, Entry!Stored
<1> HIDE DEF q
<1>3. rows' \in Seq(Rows) /\ Len(rows) \in Nat /\ DOMAIN rows = 1 .. Len(rows) /\ DOMAIN rows' = 1 .. n
  BY <1>1, <1>2
<1>4. rows'[n] = q /\ \A r \in DOMAIN rows : rows'[r] = rows[r]
  BY <1>2, <1>3
<1>5. rows' \in EntryRows
  BY <1>3 DEF EntryRows, Rows
<1>6. \A r \in DOMAIN rows' : r \in DOMAIN rows \/ r = n
  BY <1>3
<1>7. n \in DOMAIN rows' /\ n \notin DOMAIN rows /\ DOMAIN rows \subseteq DOMAIN rows'
  BY <1>3
<1> HIDE DEF n
<1>8. RowsThen(l)
  BY <1>2, <1>4, <1>5, <1>6, <1>7 DEF RowsThen
<1> QED
  BY <1>4, <1>7, <1>8 DEF n, q

\* What else a step may do to the rows while saves are under way: it takes away, or gives to the entry.
RowsKeep ==
    \A r \in DOMAIN rows : /\ rows'[r].live => rows[r].live
                           /\ rows'[r].entry = rows[r].entry \/ rows'[r].entry = 1

\* A line is stored that is not among those of the saves or those staged.
OfNone(l) ==
    /\ l \in used /\ ~IsStored(l) /\ l \notin LinesOf(staged)
    /\ \A i \in DOMAIN saves : saves[i].pc # "over" => l \notin saves[i].all

\* Rows that are added or changed by a call for one line leave the saves and the staged lines as they are.
LEMMA RowsServed ==
    ASSUME EntryInv, NEW l, RowsThen(l), RowsKeep, DOMAIN rows' = DOMAIN rows \/ OfNone(l),
           UNCHANGED <<entries, route, doc, staged, form, saves, used>>
    PROVE  SavesInv' /\ LinesInv'
<1>1. (\A i \in DOMAIN saves : saves[i].pc # "over" => i = Len(saves) /\ SaveInv(saves[i]))'
  <2> SUFFICES ASSUME NEW i \in DOMAIN saves, saves[i].pc # "over" PROVE i = Len(saves) /\ SaveInv(saves[i])'
    OBVIOUS
  <2>1. PICK s : s = saves[i]
    OBVIOUS
  <2>2. i = Len(saves) /\ SaveInv(s)
    BY <2>1 DEF EntryInv, SavesInv
  <2>3. DOMAIN rows' = DOMAIN rows \/ l \notin s.all
    BY <2>1 DEF OfNone
  <2>4. ParentOf(s)'
    BY <2>2 DEF SaveInv, ParentOf
  <2>5. LeftOf(s)'
    <3>1. LeftOf(s)
      BY <2>2 DEF SaveInv
    <3>2. \A m \in s.all : m \in LinesOf(s.left) \/ IsStored(m)'
      BY <3>1 DEF LeftOf, IsStored, RowsThen
    <3>3. LineDone(s) => s.new \in DOMAIN rows' /\ rows'[s.new].line = s.left[1].line
      BY <3>1 DEF LeftOf, RowsThen
    <3>4. \A r \in DOMAIN rows', k \in DOMAIN s.left : rows'[r].line = s.left[k].line => k = 1 /\ LineDone(s)
      <4> SUFFICES ASSUME NEW r \in DOMAIN rows', NEW k \in DOMAIN s.left, rows'[r].line = s.left[k].line
                   PROVE  k = 1 /\ LineDone(s)
        OBVIOUS
      <4>1. s.left[k].line \in s.all
        BY <3>1 DEF LeftOf, LinesOf
      <4>2. r \in DOMAIN rows
        BY <2>3, <4>1 DEF RowsThen
      <4> QED
        BY <3>1, <4>2 DEF LeftOf, RowsThen
    <3> QED
      BY <3>1, <3>2, <3>3, <3>4 DEF LeftOf, IsStored
  <2>6. RowsOfSave(s)'
    <3>1. RowsOfSave(s)
      BY <2>2 DEF SaveInv
    <3>2. Known(s.form)'
      BY <3>1 DEF RowsOfSave, Known, RowsThen
    <3>3. ASSUME NEW r \in DOMAIN rows', rows'[r].live, rows'[r].line \in s.all PROVE rows'[r].entry = 1
      <4>1. r \in DOMAIN rows
        BY <2>3, <3>3 DEF RowsThen
      <4> QED
        BY <3>1, <3>3, <4>1 DEF RowsOfSave, RowsThen, RowsKeep
    <3>4. ASSUME EntryDone(s) \/ s.call = "line", NEW r \in s.form.lines, rows'[r].live PROVE rows'[r].entry = 1
      BY <3>1, <3>4 DEF RowsOfSave, Known, RowsKeep
    <3> QED
      BY <3>2, <3>3, <3>4 DEF RowsOfSave, EntryDone
  <2> QED
    BY <2>1, <2>2, <2>4, <2>5, <2>6 DEF SaveInv, ParentOf, LeftOf, RowsOfSave, Known, IsStored
<1>2. SavesInv'
  BY <1>1 DEF EntryInv, SavesInv
<1>3. Known(form)'
  BY DEF EntryInv, LinesInv, Known, RowsThen
<1>4. \A r \in DOMAIN rows' : rows'[r].line # "former" => rows'[r].line \in used
  BY DEF EntryInv, LinesInv, RowsThen, OfNone
<1>5. \A a, b \in DOMAIN rows' : rows'[a].line = rows'[b].line /\ rows'[a].line # "former" => a = b
  BY DEF EntryInv, LinesInv, RowsThen, OfNone, IsStored
<1>6. \A k \in DOMAIN staged : IsStored(staged[k].line)' => IsStored(staged[k].line)
  <2> SUFFICES ASSUME NEW k \in DOMAIN staged, NEW r \in DOMAIN rows', rows'[r].line = staged[k].line
               PROVE  IsStored(staged[k].line)
    BY DEF IsStored
  <2>1. r \in DOMAIN rows
    BY DEF RowsThen, OfNone, LinesOf
  <2> QED
    BY <2>1 DEF IsStored, RowsThen
<1>7. LinesInv'
  <2>1. LinesInv
    BY DEF EntryInv
  <2>2. (\A k \in DOMAIN staged : IsStored(staged[k].line) =>
             \E i \in DOMAIN saves : LineDone(saves[i]) /\ staged[k].id = saves[i].left[1].id)'
    BY <1>6, <2>1 DEF LinesInv, IsStored
  <2> QED
    BY <1>3, <1>4, <1>5, <2>1, <2>2 DEF LinesInv
<1> QED
  BY <1>2, <1>7

\* A row is given to the entry, or deleted.
LEMMA RowChanged ==
    ASSUME rows \in EntryRows, NEW q \in DOMAIN rows,
           rows' = [rows EXCEPT ![q].entry = 1] \/ rows' = [rows EXCEPT ![q].live = FALSE],
           NEW l
    PROVE  RowsThen(l) /\ RowsKeep /\ DOMAIN rows' = DOMAIN rows
<1> DEFINE Rows == [line : Lines \cup {"former"}, entry : {0, 1}, live : BOOLEAN]
<1>1. rows \in Seq(Rows) /\ rows[q] \in Rows
  <2>1. rows \in Seq(Rows)
    BY DEF EntryRows
  <2> HIDE DEF Rows
  <2> QED
    BY <2>1
<1>2. PICK t : /\ t = [rows[q] EXCEPT !.entry = 1] \/ t = [rows[q] EXCEPT !.live = FALSE]
               /\ rows' = [rows EXCEPT ![q] = t]
  OBVIOUS
<1>3. t \in Rows /\ t.line = rows[q].line /\ (t.live => rows[q].live) /\ (t.entry = rows[q].entry \/ t.entry = 1)
  BY <1>1, <1>2
<1> HIDE DEF Rows
<1>4. rows' \in Seq(Rows) /\ DOMAIN rows' = DOMAIN rows /\ rows'[q] = t
      /\ \A r \in DOMAIN rows : r # q => rows'[r] = rows[r]
  BY <1>1, <1>2, <1>3
<1>5. rows' \in EntryRows
  BY <1>4 DEF EntryRows, Rows
<1> QED
  BY <1>3, <1>4, <1>5 DEF RowsThen, RowsKeep

\* The call for one line is served.
LEMMA ChangeServed == ASSUME ~Lost, EntryInv, Entry!ServeChange PROVE EntryInv'
<1>1. change \in Entry!Change /\ change.pc = "called" /\ rows \in EntryRows
  BY DEF EntryInv, EntryTyped, Entry!ServeChange
<1>2. UNCHANGED <<entries, route, doc, staged, form, saves, used>>
  BY DEF Entry!ServeChange
<1>3. /\ change.call \in {"add", "edit", "remove"}
      /\ change.call # "remove" => change.doc = 1
      /\ change.call # "add" => change.row \in DOMAIN rows
      /\ change.call = "add" => OfNone(change.line)
  BY <1>1 DEF EntryInv, ChangeInv, OfNone
<1>4. PICK o : /\ o \in {"failed", "done"}
               /\ change' = [change EXCEPT !.pc = "answered", !.ok = o = "done",
                           !.row = IF change.call = "add" THEN Len(rows) + 1 ELSE @]
               /\ rows' = IF o = "failed" THEN rows
                     ELSE CASE change.call = "add" -> Entry!Stored(change.line, change.doc)
                       [] change.call = "edit" -> [rows EXCEPT ![change.row].entry = change.doc]
                       [] OTHER -> [rows EXCEPT ![change.row].live = FALSE]
  BY DEF Entry!ServeChange, Entry!Outcomes
<1>5. /\ change'.pc = "answered" /\ change'.call = change.call /\ change'.doc = change.doc /\ change'.line = change.line
      /\ change'.ok = (o = "done") /\ change'.row = IF change.call = "add" THEN Len(rows) + 1 ELSE change.row
      /\ change' \in Entry!Change
  <2>1. Len(rows) + 1 \in Nat
    BY <1>1 DEF EntryRows
  <2>2. PICK n \in Nat : n = IF change.call = "add" THEN Len(rows) + 1 ELSE change.row
    BY <1>1, <2>1 DEF Entry!Change
  <2> QED
    BY <1>1, <1>4, <2>2 DEF Entry!Change
<1>6. /\ RowsThen(change.line) /\ RowsKeep
      /\ DOMAIN rows' = DOMAIN rows \/ OfNone(change.line)
      /\ change'.call # "add" \/ change'.ok => change'.row \in DOMAIN rows'
  <2>1. CASE o = "failed"
    <3>1. rows' = rows
      BY <1>4, <2>1
    <3> QED
      BY <1>1, <1>3, <1>5, <2>1, <3>1 DEF RowsThen, RowsKeep
  <2>2. CASE o = "done" /\ change.call = "add"
    <3>1. rows' = Entry!Stored(change.line, 1) /\ change.line \in Lines
      <4>1. rows' = Entry!Stored(change.line, 1)
        BY <1>3, <1>4, <2>2
      <4>2. change.line \in used /\ used \subseteq Lines
        BY <1>3, <2>2 DEF OfNone, EntryInv, EntryTyped
      <4> QED
        BY <4>1, <4>2
    <3> QED
      BY <1>1, <1>3, <1>5, <2>2, <3>1, RowAdded DEF RowsKeep
  <2>3. CASE o = "done" /\ change.call = "edit"
    <3>1. rows' = [rows EXCEPT ![change.row].entry = 1] /\ change.row \in DOMAIN rows
      BY <1>3, <1>4, <2>3
    <3>2. RowsThen(change.line) /\ RowsKeep /\ DOMAIN rows' = DOMAIN rows
      BY <1>1, <3>1, RowChanged
    <3> QED
      BY <1>5, <2>3, <3>1, <3>2
  <2>4. CASE o = "done" /\ change.call = "remove"
    <3>1. rows' = [rows EXCEPT ![change.row].live = FALSE] /\ change.row \in DOMAIN rows
      BY <1>3, <1>4, <2>4
    <3>2. RowsThen(change.line) /\ RowsKeep /\ DOMAIN rows' = DOMAIN rows
      BY <1>1, <3>1, RowChanged
    <3> QED
      BY <1>5, <2>4, <3>1, <3>2
  <2> QED
    BY <1>3, <1>4, <2>1, <2>2, <2>3, <2>4
<1>7. SavesInv' /\ LinesInv'
  BY <1>2, <1>6, RowsServed
<1>8. ChangeInv'
  BY <1>2, <1>3, <1>5, <1>6 DEF ChangeInv, OfNone
<1>9. EntryTyped'
  BY <1>2, <1>5, <1>6 DEF EntryInv, EntryTyped, RowsThen
<1> QED
  BY <1>7, <1>8, <1>9 DEF EntryInv

\* The lines staged and the call for a line, when a save is served.
LEMMA SaveServed ==
    ASSUME EntryInv, NEW i \in DOMAIN saves, saves[i].pc = "called", NEW t, Becomes(i, t), t.all = saves[i].all,
           NEW l, RowsThen(l),
           \/ DOMAIN rows' = DOMAIN rows
           \/ LineDone(t) /\ t.left = saves[i].left /\ t.left # <<>> /\ l = t.left[1].line,
           UNCHANGED <<doc, staged, form, change, used>>
    PROVE  LinesInv' /\ ChangeInv'
<1>1. PICK s : s = saves[i]
  OBVIOUS
<1>2. LeftOf(s) /\ ~LineDone(s) /\ s \in Entry!Save
  BY <1>1 DEF EntryInv, EntryTyped, SavesInv, SaveInv, LineDone
<1>3. DOMAIN rows' = DOMAIN rows \/ (l \in s.all /\ l \in used /\ ~IsStored(l))
  <2> SUFFICES ASSUME DOMAIN rows' # DOMAIN rows PROVE l \in s.all /\ l \in used /\ ~IsStored(l)
    OBVIOUS
  <2>1. s.left \in Seq(Entry!Pending) /\ s.left # <<>> /\ l = s.left[1].line
    BY <1>1, <1>2 DEF Entry!Save
  <2>2. 1 \in DOMAIN s.left
    BY <2>1
  <2> QED
    BY <1>2, <2>1, <2>2 DEF LeftOf, LinesOf, IsStored
<1>4. Known(form)'
  BY DEF EntryInv, LinesInv, Known, RowsThen
<1>5. \A r \in DOMAIN rows' : rows'[r].line # "former" => rows'[r].line \in used
  BY <1>3 DEF EntryInv, LinesInv, RowsThen
<1>6. \A a, b \in DOMAIN rows' : rows'[a].line = rows'[b].line /\ rows'[a].line # "former" => a = b
  BY <1>3 DEF EntryInv, LinesInv, RowsThen, IsStored
<1>7. \A k \in DOMAIN staged : ~IsStored(staged[k].line)
  BY <1>1, <1>2 DEF EntryInv, LinesInv, LineDone, Becomes
<1>8. (\A k \in DOMAIN staged : IsStored(staged[k].line) =>
          \E j \in DOMAIN saves : LineDone(saves[j]) /\ staged[k].id = saves[j].left[1].id)'
  <2> SUFFICES ASSUME NEW k \in DOMAIN staged, NEW r \in DOMAIN rows', rows'[r].line = staged[k].line
               PROVE  LineDone(t) /\ staged[k].id = t.left[1].id
    BY DEF IsStored, Becomes, LineDone
  <2>1. r \notin DOMAIN rows
    BY <1>7 DEF RowsThen, IsStored
  <2>2. LineDone(t) /\ t.left = s.left /\ staged[k].line = s.left[1].line /\ s.left # <<>>
    BY <1>1, <2>1 DEF RowsThen
  <2>3. 1 \in DOMAIN s.left
    BY <1>2, <2>2 DEF Entry!Save
  <2> QED
    BY <1>2, <2>2, <2>3 DEF LeftOf
<1>9. LinesInv'
  <2>1. LinesOf(staged) \subseteq used /\ Apart(staged)
    BY DEF EntryInv, LinesInv
  <2> QED
    BY <1>4, <1>5, <1>6, <1>8, <2>1 DEF LinesInv
<1>10. (\A j \in DOMAIN saves : saves[j].pc # "over" => saves[j].all = s.all)'
  BY <1>1 DEF Becomes
<1>11. ChangeInv'
  <2>1. change.pc # "none" /\ change.call = "add" /\ change.pc = "called" => change.line \notin s.all /\ ~IsStored(change.line)
    BY <1>1 DEF EntryInv, ChangeInv
  <2>2. change.pc # "none" /\ change.call = "add" /\ change.pc = "called" => ~IsStored(change.line)'
    BY <1>3, <2>1 DEF RowsThen, IsStored
  <2>3. change.pc # "none" /\ change.call = "add" /\ change.pc = "called" =>
          (\A j \in DOMAIN saves : saves[j].pc # "over" => change.line \notin saves[j].all)'
    BY <1>10, <2>1
  <2>4. DOMAIN rows \subseteq DOMAIN rows'
    BY DEF RowsThen
  <2> QED
    BY <2>2, <2>3, <2>4 DEF EntryInv, ChangeInv
<1> QED
  BY <1>9, <1>11

\* The lines of a form get the entry, and other lines none; those of a form without them stay.
LEMMA RowsLinked ==
    ASSUME rows \in EntryRows, NEW f, Known(f), rows' = Entry!Linked(1, f), NEW l
    PROVE  /\ RowsThen(l) /\ DOMAIN rows' = DOMAIN rows
           /\ \A r \in DOMAIN rows : rows'[r].live => rows[r].live
           /\ \A r \in f.lines : rows'[r].live => rows'[r].entry = 1
<1> DEFINE Rows == [line : Lines \cup {"former"}, entry : {0, 1}, live : BOOLEAN]
<1>1. CASE ~f.there
  <2>1. rows' = rows /\ f.lines = {}
    BY <1>1 DEF Entry!Linked, Known
  <2> QED
    BY <2>1 DEF RowsThen
<1>2. CASE f.there
  <2>1. rows \in Seq(Rows)
    BY DEF EntryRows
  <2>2. DOMAIN rows = 1 .. Len(rows) /\ Len(rows) \in Nat /\ \A r \in DOMAIN rows : rows[r] \in Rows
    <3> HIDE DEF Rows
    <3> QED
      BY <2>1
  <2> DEFINE row(r) == IF ~rows[r].live THEN rows[r]
                       ELSE [rows[r] EXCEPT !.entry = IF r \in f.lines THEN 1 ELSE 0]
  <2>3. rows' = [r \in DOMAIN rows |-> row(r)]
    BY <1>2 DEF Entry!Linked
  <2>4. ASSUME NEW r \in DOMAIN rows
        PROVE  /\ row(r) \in Rows /\ row(r).line = rows[r].line /\ row(r).live = rows[r].live
               /\ rows[r].live /\ r \in f.lines => row(r).entry = 1
    <3>1. PICK e \in {0, 1} : e = IF r \in f.lines THEN 1 ELSE 0
      OBVIOUS
    <3>2. CASE ~rows[r].live
      BY <2>2, <3>2
    <3>3. CASE rows[r].live
      <4>1. row(r) = [rows[r] EXCEPT !.entry = e]
        BY <3>1, <3>3
      <4> HIDE DEF row
      <4> QED
        BY <2>2, <3>1, <4>1
    <3> QED
      BY <3>2, <3>3
  <2> HIDE DEF row, Rows
  <2>5. rows' \in Seq(Rows) /\ DOMAIN rows' = DOMAIN rows /\ \A r \in DOMAIN rows : rows'[r] = row(r)
    BY <2>2, <2>3, <2>4
  <2>6. rows' \in EntryRows
    BY <2>5 DEF EntryRows, Rows
  <2>7. f.lines \subseteq DOMAIN rows
    BY DEF Known
  <2> QED
    BY <2>4, <2>5, <2>6, <2>7 DEF RowsThen
<1> QED
  BY <1>1, <1>2

\* A save is served: it fails, stores the entry, or stores a line.
LEMMA SaveStep == ASSUME ~Lost, EntryInv, NEW i \in DOMAIN saves, Entry!ServeSave(i) PROVE EntryInv'
<1>1. PICK s : s = saves[i]
  OBVIOUS
<1>2. s \in Entry!Save /\ s.pc = "called" /\ rows \in EntryRows /\ saves \in Seq(Entry!Save)
  BY <1>1 DEF EntryInv, EntryTyped, Entry!ServeSave
<1>3. SaveInv(s) /\ i = Len(saves) /\ ~LineDone(s) /\ ~EntryDone(s)
  BY <1>1, <1>2 DEF EntryInv, SavesInv, LineDone, EntryDone
<1>4. UNCHANGED <<route, doc, staged, form, change, used>>
  BY DEF Entry!ServeSave
<1>5. PICK o \in {"failed", "done"} :
         /\ saves' = [saves EXCEPT ![i].pc = "answered", ![i].ok = o = "done",
                        ![i].new = IF s.call = "line" THEN Len(rows) + 1 ELSE entries + 1]
         /\ entries' = IF o # "failed" /\ s.call = "create" THEN entries + 1 ELSE entries
         /\ rows' = IF o = "failed" THEN rows
                    ELSE CASE s.call = "create" -> Entry!Linked(entries + 1, s.form)
                       [] s.call = "update" -> Entry!Linked(s.doc, s.form)
                       [] OTHER -> Entry!Stored(Head(s.left).line, s.doc)
  BY <1>1 DEF Entry!ServeSave, Entry!Outcomes
<1>6. PICK n : n = IF s.call = "line" THEN Len(rows) + 1 ELSE entries + 1
  OBVIOUS
<1>7. n \in Nat
  BY <1>2, <1>6 DEF EntryInv, EntryTyped, EntryRows
<1>8. PICK t : t = [s EXCEPT !.pc = "answered", !.ok = (o = "done"), !.new = n]
  OBVIOUS
<1>9. /\ t \in Entry!Save /\ t.pc = "answered" /\ t.ok = (o = "done") /\ t.new = n
      /\ t.call = s.call /\ t.doc = s.doc /\ t.form = s.form /\ t.left = s.left /\ t.all = s.all
  BY <1>2, <1>7, <1>8 DEF Entry!Save
<1>10. saves' = [saves EXCEPT ![i] = t]
  BY <1>1, <1>5, <1>6, <1>8
<1>11. Becomes(i, t)
  BY <1>1, <1>2, <1>9, <1>10, SaveBecomes
<1>12. s.call \in {"create", "update", "line"} /\ s.left \in Seq(Entry!Pending) /\ entries \in {0, 1}
  BY <1>2 DEF Entry!Save, EntryInv, EntryTyped
<1>13. /\ s.call = "create" => s.doc = 0 /\ doc = 0 /\ entries = 0
       /\ s.call # "create" => s.doc = 1 /\ doc = 1
       /\ Known(s.form)
  BY <1>3 DEF SaveInv, ParentOf, RowsOfSave
<1>14. LeftOf(s) /\ RowsOfSave(s)
  BY <1>3 DEF SaveInv
<1>15. \A r \in DOMAIN rows, k \in DOMAIN s.left : rows[r].line # s.left[k].line
  BY <1>3, <1>14 DEF LeftOf
<1>16. ASSUME o = "failed" PROVE EntryInv'
  <2>1. rows' = rows /\ entries' = entries /\ ~t.ok
    BY <1>5, <1>9, <1>16
  <2>2. ~EntryDone(t) /\ ~LineDone(t)
    BY <2>1 DEF EntryDone, LineDone
  <2>3. SaveInv(t)'
    <3>1. ParentOf(t)'
      BY <1>3, <1>4, <1>9, <2>1, <2>2 DEF SaveInv, ParentOf
    <3>2. LeftOf(t)'
      BY <1>3, <1>4, <1>9, <1>14, <2>1, <2>2 DEF LeftOf, IsStored
    <3>3. RowsOfSave(t)'
      BY <1>9, <1>14, <2>1, <2>2 DEF RowsOfSave, Known
    <3> QED
      BY <3>1, <3>2, <3>3 DEF SaveInv
  <2>4. doc' = entries'
    BY <1>1, <1>3, <1>4, <1>11, <2>1 DEF EntryInv, SavesInv, Becomes, EntryDone
  <2>5. SavesInv'
    BY <1>11, <2>3, <2>4, SavesThen
  <2>6. RowsThen("former") /\ DOMAIN rows' = DOMAIN rows
    BY <1>2, <2>1 DEF RowsThen
  <2>7. LinesInv' /\ ChangeInv'
    BY <1>1, <1>2, <1>4, <1>9, <1>11, <2>6, SaveServed
  <2>8. EntryTyped'
    BY <1>4, <1>11, <2>1 DEF EntryInv, EntryTyped, Becomes
  <2> QED
    BY <2>5, <2>7, <2>8 DEF EntryInv
<1>17. ASSUME o = "done", s.call # "line" PROVE EntryInv'
  <2>1. rows' = Entry!Linked(1, s.form) /\ entries' = 1 /\ t.ok
    <3>1. t.ok
      BY <1>9, <1>17
    <3>2. CASE s.call = "create"
      <4>1. rows' = Entry!Linked(entries + 1, s.form) /\ entries' = entries + 1 /\ entries = 0
        BY <1>5, <1>13, <1>17, <3>2
      <4> QED
        BY <3>1, <4>1
    <3>3. CASE s.call = "update"
      <4>1. rows' = Entry!Linked(s.doc, s.form) /\ entries' = entries /\ s.doc = 1 /\ doc = 1
        BY <1>5, <1>13, <1>17, <3>3
      <4>2. entries = 1
        BY <4>1 DEF EntryInv, EntryTyped
      <4> QED
        BY <3>1, <4>1, <4>2
    <3> QED
      BY <1>12, <1>17, <3>2, <3>3
  <2>2. EntryDone(t) /\ ~LineDone(t)
    BY <1>9, <1>17, <2>1 DEF EntryDone, LineDone
  <2>3. /\ RowsThen("former") /\ DOMAIN rows' = DOMAIN rows
        /\ \A r \in DOMAIN rows : rows'[r].live => rows[r].live
        /\ \A r \in s.form.lines : rows'[r].live => rows'[r].entry = 1
    BY <1>2, <1>13, <2>1, RowsLinked
  <2>4. SaveInv(t)'
    <3>1. ParentOf(t)'
      BY <1>4, <1>6, <1>9, <1>13, <1>17, <2>1, <2>2 DEF ParentOf
    <3>2. LeftOf(t)'
      <4>1. \A l \in s.all : l \in LinesOf(s.left)
        BY <1>14, <1>17 DEF LeftOf
      <4>2. \A r \in DOMAIN rows', k \in DOMAIN s.left : rows'[r].line # s.left[k].line
        BY <1>15, <2>3 DEF RowsThen
      <4> QED
        BY <1>4, <1>9, <1>14, <1>17, <2>2, <4>1, <4>2 DEF LeftOf
    <3>3. RowsOfSave(t)'
      <4>1. \A r \in DOMAIN rows' : rows'[r].line \notin s.all
        BY <1>14, <1>15, <1>17, <2>3 DEF LeftOf, LinesOf, RowsThen
      <4> QED
        BY <1>9, <1>13, <2>3, <4>1 DEF RowsOfSave, Known
    <3> QED
      BY <3>1, <3>2, <3>3 DEF SaveInv
  <2>5. SavesInv'
    BY <1>11, <2>2, <2>4, SavesThen
  <2>6. LinesInv' /\ ChangeInv'
    BY <1>1, <1>2, <1>4, <1>9, <1>11, <2>3, SaveServed
  <2>7. EntryTyped'
    <3>1. doc' \in 0 .. 1
      BY <1>4, <1>13, <1>12
    <3> QED
      BY <1>4, <1>11, <2>1, <2>3, <3>1 DEF EntryInv, EntryTyped, Becomes, RowsThen
  <2> QED
    BY <2>5, <2>6, <2>7 DEF EntryInv
<1>18. ASSUME o = "done", s.call = "line" PROVE EntryInv'
  <2>1. s.left # <<>> /\ 1 \in DOMAIN s.left /\ s.left[1] \in Entry!Pending
    <3>1. s.left # <<>>
      BY <1>14, <1>18 DEF LeftOf
    <3> QED
      BY <1>12, <3>1
  <2>2. PICK l : l = s.left[1].line
    OBVIOUS
  <2>3. l \in Lines /\ l \in s.all /\ ~IsStored(l)
    BY <1>14, <1>15, <2>1, <2>2 DEF Entry!Pending, LeftOf, LinesOf, IsStored
  <2>4. rows' = Entry!Stored(l, 1) /\ entries' = entries /\ t.ok /\ n = Len(rows) + 1
    <3>1. rows' = Entry!Stored(Head(s.left).line, s.doc) /\ entries' = entries
      BY <1>5, <1>18
    <3>2. Head(s.left).line = l /\ s.doc = 1
      BY <1>12, <1>13, <1>18, <2>1, <2>2
    <3>3. t.ok /\ n = Len(rows) + 1
      BY <1>6, <1>9, <1>18
    <3> QED
      BY <3>1, <3>2, <3>3
  <2>5. LineDone(t) /\ ~EntryDone(t)
    BY <1>9, <1>18, <2>4 DEF EntryDone, LineDone
  <2>6. /\ RowsThen(l) /\ n \in DOMAIN rows' /\ n \notin DOMAIN rows
        /\ rows'[n] = [line |-> l, entry |-> 1, live |-> TRUE]
        /\ \A r \in DOMAIN rows : rows'[r] = rows[r]
    BY <1>2, <2>3, <2>4, RowAdded
  <2>7. \A r \in DOMAIN rows' : r \in DOMAIN rows \/ r = n
    BY <2>6 DEF RowsThen
  <2>8. SaveInv(t)'
    <3>1. ParentOf(t)'
      BY <1>4, <1>9, <1>13, <1>18 DEF ParentOf
    <3>2. LeftOf(t)'
      <4>1. \A m \in s.all : m \in LinesOf(s.left) \/ IsStored(m)'
        BY <1>14, <2>6 DEF LeftOf, IsStored, RowsThen
      <4>2. \A r \in DOMAIN rows', k \in DOMAIN s.left : rows'[r].line = s.left[k].line => k = 1
        BY <1>14, <1>15, <2>1, <2>2, <2>6, <2>7 DEF LeftOf, Apart
      <4>3. t.new \in DOMAIN rows' /\ rows'[t.new].line = s.left[1].line
        BY <1>9, <2>2, <2>6
      <4> QED
        BY <1>4, <1>9, <1>14, <1>18, <2>5, <4>1, <4>2, <4>3 DEF LeftOf, IsStored
    <3>3. RowsOfSave(t)'
      <4>1. Known(s.form)'
        BY <1>13, <2>6 DEF Known, RowsThen
      <4>2. \A r \in DOMAIN rows' : rows'[r].live /\ rows'[r].line \in s.all => rows'[r].entry = 1
        BY <1>14, <2>6, <2>7 DEF RowsOfSave
      <4>3. \A r \in s.form.lines : rows'[r].live => rows'[r].entry = 1
        BY <1>13, <1>14, <1>18, <2>6 DEF RowsOfSave, Known
      <4> QED
        BY <1>9, <4>1, <4>2, <4>3 DEF RowsOfSave
    <3> QED
      BY <3>1, <3>2, <3>3 DEF SaveInv
  <2>9. doc' = entries'
    BY <1>4, <1>12, <1>13, <1>18, <2>4 DEF EntryInv, EntryTyped
  <2>10. SavesInv'
    BY <1>11, <2>8, <2>9, SavesThen
  <2>11. LinesInv' /\ ChangeInv'
    BY <1>1, <1>2, <1>4, <1>9, <1>11, <2>1, <2>2, <2>5, <2>6, SaveServed
  <2>12. EntryTyped'
    BY <1>4, <1>11, <2>4, <2>6 DEF EntryInv, EntryTyped, Becomes, RowsThen
  <2> QED
    BY <2>10, <2>11, <2>12 DEF EntryInv
<1> QED
  BY <1>5, <1>16, <1>17, <1>18

\* The editor begins with the entry and its lines, or with none.
LEMMA EntryBegins == ASSUME Entry!EditorAssumption, Entry!Init PROVE EntryInv
<1> DEFINE Rows == [line : Lines \cup {"former"}, entry : {0, 1}, live : BOOLEAN]
           former == [line |-> "former", entry |-> 1, live |-> TRUE]
<1>1. PICK n \in Nat : rows = [r \in 1 .. n |-> former]
  BY DEF Entry!Init, Entry!EditorAssumption
<1>2. former \in Rows
  OBVIOUS
<1>3. former.line = "former"
  OBVIOUS
<1> HIDE DEF former, Rows
<1>4. rows \in Seq(Rows) /\ DOMAIN rows = 1 .. n /\ \A r \in DOMAIN rows : rows[r] = former
  BY <1>1, <1>2
<1>5. rows \in EntryRows
  BY <1>4 DEF EntryRows, Rows
<1>6. entries \in {0, 1} /\ doc = entries /\ route = "loading" /\ staged = <<>> /\ form = Entry!Absent
      /\ saves = <<>> /\ change = Entry!NoChange /\ used = {}
  BY DEF Entry!Init
<1>7. staged \in Seq(Entry!Pending) /\ DOMAIN staged = {}
  BY <1>6, Empty
<1>8. saves \in Seq(Entry!Save) /\ DOMAIN saves = {}
  BY <1>6, Empty
<1>9. EntryTyped
  <2>1. form \in Entry!Field /\ change \in Entry!Change
    BY <1>6 DEF Entry!Absent, Entry!Field, Entry!NoChange, Entry!Change
  <2>2. doc \in 0 .. entries
    BY <1>6
  <2> QED
    BY <1>5, <1>6, <1>7, <1>8, <2>1, <2>2 DEF EntryTyped
<1>10. SavesInv /\ ChangeInv
  BY <1>6, <1>8 DEF SavesInv, ChangeInv, Entry!NoChange
<1>11. LinesInv
  BY <1>3, <1>4, <1>6, <1>7 DEF LinesInv, Known, Entry!Absent, Apart, LinesOf
<1> QED
  BY <1>9, <1>10, <1>11 DEF EntryInv

\* The invariant is kept while one save at a time is under way and no answer is lost.
LEMMA EntryStep == ASSUME ~Overlap, ~Lost, EntryInv, [Entry!Next]_entry PROVE EntryInv'
<1>1. CASE UNCHANGED entry
  BY <1>1 DEF entry, EntryInv, EntryTyped, SavesInv, LinesInv, ChangeInv, SaveInv, ParentOf, LeftOf, RowsOfSave,
              Known, IsStored
<1>2. CASE Entry!Next
  <2>1. CASE Entry!Leave \/ \E k \in DOMAIN staged : Entry!Unstage(k)
    BY <2>1, EntryLeaves
  <2>2. ASSUME NEW l \in Lines, Entry!Stage(l) PROVE EntryInv'
    BY <2>2, LineStaged
  <2>3. CASE \/ \E l \in Lines : Entry!AddLine(l)
             \/ \E r \in form.lines : Entry!EditLine(r) \/ Entry!RemoveLine(r)
    BY <2>3, LineCalled
  <2>4. ASSUME NEW i \in DOMAIN saves,
               Entry!ServeSave(i) \/ Entry!EntrySaved(i) \/ Entry!LineSaved(i) \/ Entry!SaveFailed(i)
        PROVE  EntryInv'
    BY <2>4, SaveStep, EntryGoesOn, LineGoesOn, SaveFails
  <2> QED
    BY <1>2, <2>1, <2>2, <2>3, <2>4, EntryOpens, SaveClicked, ChangeServed, LineAnswered DEF Entry!Next
<1> QED
  BY <1>1, <1>2

\* What a step says that closes the editor.
ClosesStored ==
    \A i \in DOMAIN saves : route # "saved" /\ route' = "saved" /\ saves[i].pc = "answered" =>
       LET s == saves[i]
           e == IF s.call = "create" THEN s.new ELSE s.doc
       IN /\ \A l \in s.all : \E r \in DOMAIN rows : rows[r].line = l
          /\ \A r \in DOMAIN rows :
                rows[r].live /\ (rows[r].line \in s.all \/ r \in s.form.lines) => rows[r].entry = e

\* When the editor closes, the save it closes with has stored everything.
LEMMA EntryCloses == ASSUME EntryInv, [Entry!Next]_entry PROVE ClosesStored
<1> SUFFICES ASSUME NEW i \in DOMAIN saves, route # "saved", route' = "saved", saves[i].pc = "answered", NEW s, s = saves[i]
             PROVE  /\ \A l \in s.all : IsStored(l)
                    /\ \A r \in DOMAIN rows :
                          rows[r].live /\ (rows[r].line \in s.all \/ r \in s.form.lines) =>
                              rows[r].entry = IF s.call = "create" THEN s.new ELSE s.doc
  BY DEF ClosesStored, IsStored
<1>1. s \in Entry!Save /\ SaveInv(s) /\ i = Len(saves)
  BY DEF EntryInv, EntryTyped, SavesInv
<1>2. PICK j \in DOMAIN saves : Entry!EntrySaved(j) \/ Entry!LineSaved(j)
  BY DEF entry, Entry!Next, Entry!Open, Entry!Leave, Entry!ClickSave, Entry!ServeChange, Entry!EndChange, Entry!Stage,
         Entry!AddLine, Entry!Unstage, Entry!EditLine, Entry!RemoveLine, Entry!ServeSave, Entry!SaveFailed
<1>3. j = i
  BY <1>1, <1>2 DEF EntryInv, SavesInv, Entry!EntrySaved, Entry!LineSaved
<1>4. CASE Entry!EntrySaved(i)
  <2>1. EntryDone(s) /\ s.left = <<>>
    BY <1>4 DEF Entry!EntrySaved, Entry!Continued, EntryDone
  <2>2. s.all = {}
    <3>1. s.all = LinesOf(s.left)
      BY <1>1, <2>1 DEF EntryDone, SaveInv, LeftOf
    <3>2. DOMAIN s.left = {}
      BY <2>1, Empty
    <3> QED
      BY <3>1, <3>2 DEF LinesOf
  <2>3. s.call = "create" => s.new = 1
    BY <1>1, <2>1 DEF SaveInv, ParentOf
  <2>4. s.call # "create" => s.doc = 1
    BY <1>1 DEF SaveInv, ParentOf
  <2> QED
    BY <1>1, <2>1, <2>2, <2>3, <2>4 DEF SaveInv, RowsOfSave
<1>5. CASE Entry!LineSaved(i)
  <2>1. LineDone(s) /\ Tail(s.left) = <<>> /\ s.call = "line"
    BY <1>5 DEF Entry!LineSaved, Entry!Continued, Entry!Rest, LineDone
  <2>2. s.left \in Seq(Entry!Pending) /\ s.left # <<>>
    BY <1>1, <2>1 DEF Entry!Save, SaveInv, LeftOf
  <2>3. DOMAIN s.left = {1}
    <3>1. Len(Tail(s.left)) = 0
      BY <2>1, Empty
    <3>2. Len(Tail(s.left)) = Len(s.left) - 1 /\ Len(s.left) \in Nat
      BY <2>2
    <3>3. Len(s.left) = 1
      BY <3>1, <3>2
    <3> QED
      BY <2>2, <3>3
  <2>4. \A l \in s.all : IsStored(l)
    BY <1>1, <2>1, <2>3 DEF SaveInv, LeftOf, LinesOf, IsStored
  <2>5. s.doc = 1
    BY <1>1, <2>1 DEF SaveInv, ParentOf
  <2> QED
    BY <1>1, <2>1, <2>4, <2>5 DEF SaveInv, RowsOfSave
<1> QED
  BY <1>2, <1>3, <1>4, <1>5

\* A save that failed halfway and is pressed again stores no second entry and no line twice
\* (content_manager.rs), while one save at a time is under way and no answer of the server is lost.
THEOREM NothingTwice == ASSUME ~Overlap, ~Lost PROVE ScreensSpec => []StoredOnce
<1>1. ScreensInit => EntryInv
  BY ScreensAssumption, EntryBegins DEF ScreensInit
<1>2. EntryInv /\ [ScreensNext]_<<at, screens>> => EntryInv'
  <2> SUFFICES ASSUME EntryInv, [ScreensNext]_<<at, screens>> PROVE EntryInv'
    OBVIOUS
  <2>1. [Entry!Next]_entry
    BY DEF ScreensNext, screens
  <2> QED
    BY <2>1, EntryStep
<1>3. EntryInv => StoredOnce
  BY DEF EntryInv, EntryTyped, LinesInv, StoredOnce, Entry!StoredOnce
<1> QED
  BY <1>1, <1>2, <1>3, PTL DEF ScreensSpec

\* When the editor says Saved, every line that was staged is stored, and what was staged or in the form
\* belongs to the entry (content_manager.rs), while one save at a time is under way and no answer is lost.
THEOREM AllStored == ASSUME ~Overlap, ~Lost PROVE ScreensSpec => SavedMeansStored
<1>1. ScreensInit => EntryInv
  BY ScreensAssumption, EntryBegins DEF ScreensInit
<1>2. EntryInv /\ [ScreensNext]_<<at, screens>> => EntryInv' /\ ClosesStored
  <2> SUFFICES ASSUME EntryInv, [ScreensNext]_<<at, screens>> PROVE EntryInv' /\ ClosesStored
    OBVIOUS
  <2>1. [Entry!Next]_entry
    BY DEF ScreensNext, screens
  <2> QED
    BY <2>1, EntryStep, EntryCloses
<1>3. ScreensSpec => [][ClosesStored]_Entry!vars
  BY <1>1, <1>2, PTL DEF ScreensSpec
<1> QED
  BY <1>3 DEF SavedMeansStored, Entry!SavedMeansStored, ClosesStored
=============================================================================
