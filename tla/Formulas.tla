------------------------------ MODULE Formulas ------------------------------
(***************************************************************************)
(* The expressions of computed fields: their tokens, and the parser        *)
(* (core-schema/src/expression.rs).  A user writes a text token by token;  *)
(* after each, the text has a parse, or none.  The words of a text are     *)
(* members of small sets; "@" is a character no token begins with.         *)
(***************************************************************************)
EXTENDS Naturals, Sequences, FiniteSets

CONSTANTS
    Tokens, \* the tokens a user writes
    MaxTokens, \* bound: tokens of a text
    Beginnings \* what a text begins with

VARIABLE text

Numbers == {"1"}
Keywords == {"null"}
Aggregates == {"COUNT", "SUM"}
Identifiers == {"a", "b"} \cup Aggregates
Operators == <<{"=", "<"}, {"+", "-", "||"}, {"*", "/", "%"}>>

\* Of the constants.
FormulasAssumption ==
    /\ Tokens \subseteq Numbers \cup Keywords \cup Identifiers
                        \cup UNION {Operators[n] : n \in 1..3} \cup {"(", ")", ",", ".", "@"}
    /\ MaxTokens \in Nat

Init == text \in Beginnings

\* One more token, the text not yet as long as the bound.
Write ==
    /\ Len(text) < MaxTokens
    /\ \E t \in Tokens : text' = Append(text, t)

Next == Write

-----------------------------------------------------------------------------
(* What a text parses to: a node has an operator, and its arguments. *)

Node(op, args) == [op |-> op, args |-> args]
Leaf(op) == Node(op, <<>>)

\* `tree` was read up to the token before `at`.
Parsed(tree, at) == [ok |-> TRUE, tree |-> tree, at |-> at]
Failed == [ok |-> FALSE, tree |-> Leaf("none"), at |-> 0]

\* The token at `i`.  Where the tokens cannot be read, the parser sees the end of the text.
Peek(s, i) == IF i \in DOMAIN s /\ s[i] # "@" THEN s[i] ELSE "end"

\* A call is an aggregate over a relation when its only argument is a path through one, or
\* for COUNT a name alone.
Called(f, args) ==
    IF f \in Aggregates /\ Len(args) = 1
       /\ args[1].op \in {"path"} \cup (IF f = "COUNT" THEN Identifiers ELSE {})
    THEN Node("aggregate", <<Leaf(f), args[1]>>)
    ELSE Node("call", <<Leaf(f)>> \o args)

RECURSIVE Level(_, _, _), Grown(_, _, _), Unary(_, _), Arguments(_, _, _)

\* One operand of level `n`: comparisons are 1, sums are 2, products are 3.
Operand(s, i, n) == IF n = 3 THEN Unary(s, i) ELSE Level(s, i, n + 1)

Level(s, i, n) == Grown(s, n, Operand(s, i, n))

\* Operators of one level group to the left.
Grown(s, n, left) ==
    LET op == Peek(s, left.at)
        right == Operand(s, left.at + 1, n)
    IN  CASE ~left.ok \/ op \notin Operators[n] -> left
          [] ~right.ok -> Failed
          [] OTHER -> Grown(s, n, Parsed(Node(op, <<left.tree, right.tree>>), right.at))

\* In parentheses, an expression of any level.
Enclosed(s, i) ==
    LET inner == Level(s, i + 1, 1)
    IN  IF inner.ok /\ Peek(s, inner.at) = ")" THEN Parsed(inner.tree, inner.at + 1) ELSE Failed

\* The arguments of a call from `i` to the closing parenthesis, `args` read so far.
Arguments(s, i, args) ==
    LET one == Level(s, i, 1)
        now == Append(args, one.tree)
    IN  CASE args = <<>> /\ Peek(s, i) = ")" -> Parsed(<<>>, i + 1)
          [] ~one.ok -> Failed
          [] one.ok /\ Peek(s, one.at) = "," -> Arguments(s, one.at + 1, now)
          [] one.ok /\ Peek(s, one.at) = ")" -> Parsed(now, one.at + 1)
          [] OTHER -> Failed

Call(s, i) ==
    LET args == Arguments(s, i + 2, <<>>)
    IN  IF args.ok THEN Parsed(Called(s[i], args.tree), args.at) ELSE Failed

Path(s, i) ==
    IF Peek(s, i + 2) \in Identifiers \cup Keywords
    THEN Parsed(Node("path", <<Leaf(s[i]), Leaf(s[i + 2])>>), i + 3)
    ELSE Failed

Primary(s, i) ==
    LET t == Peek(s, i)
    IN  CASE t \in Numbers \cup Keywords -> Parsed(Leaf(t), i + 1)
          [] t = "(" -> Enclosed(s, i)
          [] t \in Identifiers /\ Peek(s, i + 1) = "(" -> Call(s, i)
          [] t \in Identifiers /\ Peek(s, i + 1) = "." -> Path(s, i)
          [] t \in Identifiers /\ Peek(s, i + 1) \notin {"(", "."} -> Parsed(Leaf(t), i + 1)
          [] OTHER -> Failed

\* A sign binds tighter than any operator; a plus leaves no trace.
Unary(s, i) ==
    LET signed == Unary(s, i + 1)
    IN  CASE Peek(s, i) = "-" -> IF signed.ok THEN Parsed(Node("neg", <<signed.tree>>), signed.at) ELSE Failed
          [] Peek(s, i) = "+" -> signed
          [] OTHER -> Primary(s, i)

\* An expression, and nothing after it.
Parse(s) ==
    LET all == Level(s, 1, 1)
    IN  IF all.ok /\ Peek(s, all.at) = "end" THEN all ELSE Failed

RECURSIVE Columns(_), RelationAggregates(_)

\* The columns a tree reads: not those on the far side of a relation.
Columns(t) ==
    IF t.op \in {"path", "aggregate"} THEN {}
    ELSE (IF t.op \in Identifiers THEN {t.op} ELSE {})
         \cup UNION {Columns(t.args[k]) : k \in (IF t.op = "call" THEN 2 ELSE 1)..Len(t.args)}

RelationAggregates(t) ==
    IF t.op = "aggregate" THEN {t} ELSE UNION {RelationAggregates(t.args[k]) : k \in 1..Len(t.args)}

-----------------------------------------------------------------------------
(* The language, as a grammar: which trees a span of tokens may stand for. *)

RECURSIVE Trees(_, _, _, _), Lists(_, _, _)

Atoms(s, i, j) ==
    (IF i = j /\ s[i] \in Numbers \cup Keywords \cup Identifiers THEN {Leaf(s[i])} ELSE {})
    \cup (IF j = i + 2 /\ s[i] \in Identifiers /\ s[i + 1] = "." /\ s[j] \in Identifiers \cup Keywords
          THEN {Node("path", <<Leaf(s[i]), Leaf(s[j])>>)} ELSE {})
    \cup (IF s[i] = "(" /\ s[j] = ")" THEN Trees(s, i + 1, j - 1, 1) ELSE {})
    \cup (IF s[i] \in Identifiers /\ i < j /\ s[i + 1] = "(" /\ s[j] = ")"
          THEN {Called(s[i], args) : args \in (IF j = i + 2 THEN {<<>>} ELSE Lists(s, i + 2, j - 1))}
          ELSE {})

\* A tree of level `n` is one of the next level, or an operator between one of its own and one of the next.
Trees(s, i, j, n) ==
    CASE j < i -> {}
      [] i <= j /\ n = 4 ->
             Atoms(s, i, j)
             \cup (IF s[i] = "-" THEN {Node("neg", <<t>>) : t \in Trees(s, i + 1, j, 4)} ELSE {})
             \cup (IF s[i] = "+" THEN Trees(s, i + 1, j, 4) ELSE {})
      [] OTHER ->
             Trees(s, i, j, n + 1)
             \cup UNION {{Node(s[k], <<l, r>>) : l \in Trees(s, i, k - 1, n), r \in Trees(s, k + 1, j, n + 1)} :
                            k \in {m \in i..j : s[m] \in Operators[n]}}

Lists(s, i, j) ==
    {<<t>> : t \in Trees(s, i, j, 1)}
    \cup UNION {{<<t>> \o rest : t \in Trees(s, i, k - 1, 1), rest \in Lists(s, k + 1, j)} :
                   k \in {m \in i..j : s[m] = ","}}

\* Signs and operators group as the grammar says: a text whose tokens can be read is accepted when
\* the grammar gives it a tree, its tree is that one, and the grammar never gives it two (Parser).
GroupsAsGrammar ==
    (\A i \in DOMAIN text : text[i] # "@") =>
        LET parse == Parse(text)
        IN  Trees(text, 1, Len(text), 1) = IF parse.ok THEN {parse.tree} ELSE {}

\* The tests have it that a text with a character of no token is refused (rejects_bad_input).
BadInputRefused == (\E i \in DOMAIN text : text[i] = "@") => ~Parse(text).ok
=============================================================================
