----------------------------- MODULE Templates -----------------------------
(***************************************************************************)
(* The templates of workflow nodes: a text with blocks {{ ... }}, each an  *)
(* expression that is parsed and evaluated at once                         *)
(* (workflow/src/expression.rs).  Texts are sequences of words; the tokens *)
(* of a block are written with blanks between them.  A quotient groups as  *)
(* a product does, and only products are written; numbers are whole.       *)
(***************************************************************************)
EXTENDS Integers, Sequences, FiniteSets, TLC

CONSTANTS
    Tokens, \* the tokens a user writes
    MaxTokens, \* bound: tokens of a template
    Beginnings \* what a template begins with

VARIABLE text

Operators == <<{"||"}, {"&&"}, {"==", "!="}, {">", ">=", "<", "<="}, {"+", "-"}, {"*"}>>
Unary == Len(Operators) + 1
Postfix == Unary + 1

Words == {"a", "b", "x", "not", "bool", "true", "null"}
Literals == {"'a'", "'b'"}

\* Of the constants.
TemplatesAssumption ==
    /\ Tokens \subseteq Words \cup Literals \cup UNION {Operators[n] : n \in DOMAIN Operators}
                        \cup {"{{", "}}", " ", "1", "!", "$json", "$gone", ".", ",", "[", "]", "(", ")"}
    /\ MaxTokens \in Nat

Init == text \in Beginnings

Write ==
    /\ Len(text) < MaxTokens
    /\ \E t \in Tokens : text' = Append(text, t)

Next == Write

-----------------------------------------------------------------------------
(* Values. *)

Value(is, n, words) == [is |-> is, n |-> n, words |-> words]
Null == Value("null", 0, <<>>)
Object == Value("object", 0, <<>>)
Truth(b) == Value("truth", IF b THEN 1 ELSE 0, <<>>)
Number(n) == Value("number", n, <<>>)
Text(words) == Value("text", 0, words)

\* No value: the expression, or the template, fails.
Failed == Value("failed", 0, <<>>)

\* The item has a number, and a text that happens to be the name of a function.
Field(v, name) ==
    CASE v.is = "object" /\ name = "a" -> Number(1)
      [] v.is = "object" /\ name = "b" -> Text(<<"not">>)
      [] OTHER -> Null

Indexed(v, index) == IF index.is = "text" /\ Len(index.words) = 1 THEN Field(v, index.words[1]) ELSE Null

Stringified(v) ==
    CASE v.is = "text" -> v.words
      [] v.is = "truth" -> <<IF v.n = 1 THEN "true" ELSE "false">>
      [] v.is = "number" -> <<ToString(v.n)>>
      [] v.is = "object" -> <<"{}">>
      [] v.is = "null" -> <<>>

Truthy(v) ==
    CASE v.is \in {"truth", "number"} -> v.n # 0
      [] v.is = "text" -> v.words # <<>>
      [] v.is = "object" -> TRUE
      [] v.is = "null" -> FALSE

\* A number and a string are compared as they are written, the string with its quotes: never the same.
LooseEq(v, w) == v = w

\* null counts as 0.  The words of a text are no numbers.
Amount(v) == IF v.is \in {"number", "null"} THEN {v.n} ELSE {}
Calculated(v, w, Op(_, _)) ==
    IF Amount(v) = {} \/ Amount(w) = {} THEN Null ELSE Number(Op(v.n, w.n))

Plus(m, n) == m + n
Less(m, n) == m - n
Times(m, n) == m * n

Added(v, w) ==
    IF "text" \in {v.is, w.is} THEN Text(Stringified(v) \o Stringified(w)) ELSE Calculated(v, w, Plus)

\* Of what has no order, neither is less and neither is greater.
Rank == [t \in {<<"a">>, <<"b">>, <<"not">>} |-> CASE t = <<"a">> -> 1 [] t = <<"b">> -> 2 [] t = <<"not">> -> 3]
IsLess(v, w) ==
    \/ v.is = "number" /\ w.is = "number" /\ v.n < w.n
    \/ /\ v.is = "text" /\ w.is = "text"
       /\ v.words \in DOMAIN Rank /\ w.words \in DOMAIN Rank /\ Rank[v.words] < Rank[w.words]

Applied(op, v, w) ==
    CASE op = "||" -> Truth(Truthy(v) \/ Truthy(w))
      [] op = "&&" -> Truth(Truthy(v) /\ Truthy(w))
      [] op = "==" -> Truth(LooseEq(v, w))
      [] op = "!=" -> Truth(~LooseEq(v, w))
      [] op = ">" -> Truth(IsLess(w, v))
      [] op = ">=" -> Truth(~IsLess(v, w))
      [] op = "<" -> Truth(IsLess(v, w))
      [] op = "<=" -> Truth(~IsLess(w, v))
      [] op = "+" -> Added(v, w)
      [] op = "-" -> Calculated(v, w, Less)
      [] op = "*" -> Calculated(v, w, Times)

Signed(sign, v) == IF sign = "!" THEN Truth(~Truthy(v)) ELSE Calculated(Null, v, Less)

\* A missing argument is null.
Called(name, args) ==
    LET first == IF args = <<>> THEN Null ELSE args[1]
    IN  CASE name = <<"not">> -> Truth(~Truthy(first))
          [] name = <<"bool">> -> Truth(Truthy(first))
          [] OTHER -> Failed

-----------------------------------------------------------------------------
(* The parser, which evaluates as it goes.                                 *)

\* `v` was read up to the token before `at`.
Got(v, at) == [ok |-> v # Failed, value |-> v, at |-> at]
Nothing == Got(Failed, 0)

Peek(s, i) == IF i \in DOMAIN s THEN s[i] ELSE "end"

RECURSIVE Level(_, _, _), Grown(_, _, _), UnaryAt(_, _), After(_, _), Arguments(_, _, _)

\* A mutant: sums group to the right.
OperandRight(s, i, n) ==
    CASE n + 1 = Unary -> UnaryAt(s, i)
      [] n = 5 -> LET one == Level(s, i, n + 1)
                  IN  IF one.ok /\ i > 1 /\ Peek(s, i - 1) = "-" THEN Grown(s, n, one) ELSE one
      [] OTHER -> Level(s, i, n + 1)

Operand(s, i, n) == IF n + 1 = Unary THEN UnaryAt(s, i) ELSE Level(s, i, n + 1)

Level(s, i, n) == Grown(s, n, Operand(s, i, n))

\* Operators of one level group to the left.  Both sides are always evaluated.
Grown(s, n, left) ==
    LET op == Peek(s, left.at)
        right == Operand(s, left.at + 1, n)
    IN  CASE ~left.ok \/ op \notin Operators[n] -> left
          [] ~right.ok -> Nothing
          [] OTHER -> Grown(s, n, Got(Applied(op, left.value, right.value), right.at))

\* Arguments from `i` to the closing parenthesis, after `args`.
Arguments(s, i, args) ==
    LET one == Level(s, i, 1)
        now == Append(args, one.value)
    IN  CASE args = <<>> /\ Peek(s, i) = ")" -> [ok |-> TRUE, args |-> <<>>, at |-> i + 1]
          [] ~one.ok -> [ok |-> FALSE, args |-> <<>>, at |-> 0]
          [] one.ok /\ Peek(s, one.at) = "," -> Arguments(s, one.at + 1, now)
          [] OTHER -> [ok |-> Peek(s, one.at) = ")", args |-> now, at |-> one.at + 1]

CallAt(s, i, name) ==
    LET args == Arguments(s, i, <<>>)
    IN  IF args.ok THEN Got(Called(name, args.args), args.at) ELSE Nothing

Primary(s, i) ==
    LET t == Peek(s, i)
        inner == Level(s, i + 1, 1)
    IN  CASE t = "1" -> Got(Number(1), i + 1)
          [] t \in Literals -> Got(Text(<<IF t = "'a'" THEN "a" ELSE "b">>), i + 1)
          [] t \in Words /\ Peek(s, i + 1) = "(" -> CallAt(s, i + 2, <<t>>)
          [] t = "true" /\ Peek(s, i + 1) # "(" -> Got(Truth(TRUE), i + 1)
          [] t = "null" /\ Peek(s, i + 1) # "(" -> Got(Null, i + 1)
          [] t = "$json" -> Got(Object, i + 1)
          [] t = "(" -> IF inner.ok /\ Peek(s, inner.at) = ")" THEN Got(inner.value, inner.at + 1) ELSE Nothing
          [] OTHER -> Nothing

\* Fields, indexes and calls after `left`.  Any text calls the function it names.
After(s, left) ==
    LET t == Peek(s, left.at)
        name == Peek(s, left.at + 1)
        index == Level(s, left.at + 1, 1)
    IN  CASE ~left.ok \/ t \notin {".", "[", "("} -> left
          [] left.ok /\ t = "." -> IF name \in Words THEN After(s, Got(Field(left.value, name), left.at + 2)) ELSE Nothing
          [] left.ok /\ t = "[" ->
                 IF index.ok /\ Peek(s, index.at) = "]"
                 THEN After(s, Got(Indexed(left.value, index.value), index.at + 1)) ELSE Nothing
          [] left.ok /\ t = "(" ->
                 IF left.value.is = "text" THEN After(s, CallAt(s, left.at + 1, left.value.words)) ELSE Nothing

UnaryAt(s, i) ==
    LET signed == UnaryAt(s, i + 1)
    IN  IF Peek(s, i) \in {"!", "-"}
        THEN IF signed.ok THEN Got(Signed(Peek(s, i), signed.value), signed.at) ELSE Nothing
        ELSE After(s, Primary(s, i))

\* An expression and nothing after it; nothing at all is an empty text.
EvalExpression(block) ==
    LET s == SelectSeq(block, LAMBDA t : t # " ")
        all == Level(s, 1, 1)
    IN  CASE s = <<>> -> Text(<<>>)
          [] \E k \in DOMAIN s : s[k] \in {"{{", "}}"} -> Failed
          [] OTHER -> IF all.ok /\ Peek(s, all.at) = "end" THEN all.value ELSE Failed

-----------------------------------------------------------------------------
(* Templates. *)

Braces == {"{{", "}}"}

\* Without the blanks around it.
Trimmed(t) ==
    LET solid == {k \in DOMAIN t : t[k] # " "}
    IN  IF solid = {} THEN <<>>
        ELSE SubSeq(t, CHOOSE k \in solid : \A j \in solid : k <= j, CHOOSE k \in solid : \A j \in solid : j <= k)

\* One block, perhaps between blanks.
Single(template) ==
    LET t == Trimmed(template)
    IN  /\ Len(t) >= 2 /\ t[1] = "{{" /\ t[Len(t)] = "}}"
        /\ \A k \in 2..(Len(t) - 1) : t[k] \notin Braces

\* How many blocks are open after the tokens from `i` to `k`.
Depth(t, i, k) == Cardinality({m \in i..k : t[m] = "{{"}) - Cardinality({m \in i..k : t[m] = "}}"})

\* Where the block that begins at `i` ends; 0 when it does not.
Closing(t, i) ==
    LET ends == {k \in i..Len(t) : Depth(t, i, k) = 0}
    IN  IF ends = {} THEN 0 ELSE CHOOSE k \in ends : \A j \in ends : k <= j

RECURSIVE Interpolated(_, _, _)

\* The words of the template from `i` on, after `words`.
Interpolated(t, i, words) ==
    LET end == Closing(t, i)
        v == EvalExpression(SubSeq(t, i + 1, end - 1))
    IN  CASE i > Len(t) -> Text(words)
          [] i <= Len(t) /\ t[i] # "{{" -> Interpolated(t, i + 1, Append(words, t[i]))
          [] OTHER -> IF end = 0 \/ v = Failed THEN Failed ELSE Interpolated(t, end + 1, words \o Stringified(v))

\* One block gives its value, as it is; anything else gives a text.
Evaluate(t) ==
    IF Single(t) THEN EvalExpression(SubSeq(Trimmed(t), 2, Len(Trimmed(t)) - 1)) ELSE Interpolated(t, 1, <<>>)

-----------------------------------------------------------------------------
(* The language, as a grammar: the values a span of tokens may have. *)

RECURSIVE Meanings(_, _, _, _), Lists(_, _, _)

Calls(name, lists) == {Called(name, args) : args \in lists} \ {Failed}
ListsIn(s, i, j) == IF j < i THEN {<<>>} ELSE Lists(s, i, j)

Atoms(s, i, j) ==
    CASE i = j /\ s[i] = "1" -> {Number(1)}
      [] i = j /\ s[i] \in Literals -> {Text(<<IF s[i] = "'a'" THEN "a" ELSE "b">>)}
      [] i = j /\ s[i] = "true" -> {Truth(TRUE)}
      [] i = j /\ s[i] = "null" -> {Null}
      [] i = j /\ s[i] = "$json" -> {Object}
      [] i < j /\ s[i] = "(" /\ s[j] = ")" -> Meanings(s, i + 1, j - 1, 1)
      [] i + 1 < j /\ s[i] \in Words /\ s[i + 1] = "(" /\ s[j] = ")" -> Calls(<<s[i]>>, ListsIn(s, i + 2, j - 1))
      [] OTHER -> {}

Meanings(s, i, j, n) ==
    CASE j < i -> {}
      [] i <= j /\ n < Unary ->
             Meanings(s, i, j, n + 1)
             \cup UNION {{Applied(s[k], v, w) : v \in Meanings(s, i, k - 1, n), w \in Meanings(s, k + 1, j, n + 1)} :
                            k \in {m \in i..j : s[m] \in Operators[n]}}
      [] i <= j /\ n = Unary ->
             IF s[i] \in {"!", "-"} THEN {Signed(s[i], v) : v \in Meanings(s, i + 1, j, n)}
             ELSE Meanings(s, i, j, Postfix)
      [] OTHER ->
             Atoms(s, i, j)
             \cup (IF i + 1 < j /\ s[j - 1] = "." /\ s[j] \in Words
                   THEN {Field(v, s[j]) : v \in Meanings(s, i, j - 2, n)} ELSE {})
             \cup UNION {{Indexed(v, w) : v \in Meanings(s, i, k - 1, n), w \in Meanings(s, k + 1, j - 1, 1)} :
                            k \in {m \in i..j : s[m] = "[" /\ s[j] = "]"}}
             \cup UNION {UNION {Calls(v.words, ListsIn(s, k + 1, j - 1)) :
                                   v \in {u \in Meanings(s, i, k - 1, n) : u.is = "text"}} :
                            k \in {m \in i..j : s[m] = "(" /\ s[j] = ")"}}

Lists(s, i, j) ==
    {<<v>> : v \in Meanings(s, i, j, 1)}
    \cup UNION {{<<v>> \o rest : v \in Meanings(s, i, k - 1, 1), rest \in Lists(s, k + 1, j)} :
                   k \in {m \in i..j : s[m] = ","}}

\* The user's template, and the same with its last block closed.
Templates == {text, Append(text, "}}")}

\* A block between blanks loses them.
Stripped(t) == Single(t) /\ Trimmed(t) # t

\* The value of a block is the one its grammar gives it: signs bind tighter than operators, fields
\* and calls tighter than signs, and operators of one level group to the left (Parser).
ValueAsGrammar ==
    \A t \in Templates :
        LET s == SelectSeq(SubSeq(t, 2, Len(t) - 1), LAMBDA w : w # " ")
        IN  Single(t) /\ ~Stripped(t) /\ s # <<>> =>
                Meanings(s, 1, Len(s), 1) = IF Evaluate(t) = Failed THEN {} ELSE {Evaluate(t)}

\* What a template is put together from stays apart: two templates that evaluate, one after the
\* other, are a template whose text is theirs one after the other (evaluate, interpolate).
Interpolates ==
    \A t \in Templates : \A i \in 0..Len(t) :
        LET left == SubSeq(t, 1, i)
            right == SubSeq(t, i + 1, Len(t))
            Fine(p) == ~Stripped(p) /\ Evaluate(p) # Failed
        IN  Fine(left) /\ Fine(right) /\ ~Stripped(t) =>
                /\ Evaluate(t) # Failed
                /\ Stringified(Evaluate(t)) = Stringified(Evaluate(left)) \o Stringified(Evaluate(right))
=============================================================================
