------------------------------ MODULE Queries ------------------------------
(***************************************************************************)
(* The query string of a list of entries: its keys are put into a tree     *)
(* one after the other, the tree is read as a filter                       *)
(* (api-types/src/query.rs), the filter becomes a condition of SQL, and    *)
(* the rows for which it is true are given page by page                    *)
(* (dynamic-store/src/dml.rs, services/src/content.rs).                    *)
(***************************************************************************)
EXTENDS Naturals, Sequences, FiniteSets

CONSTANTS
    Paths, \* keys of the query string, split at their brackets, after "filters"
    Values, \* values of the query string
    MaxPairs, \* bound: pairs of one query string
    MaxRows \* bound: entries that are paged through

VARIABLES
    pairs, \* the pairs so far, last first
    root \* the tree of their keys

vars == <<pairs, root>>

\* Of the constants.
QueriesAssumption == MaxPairs \in Nat /\ MaxRows \in Nat

Texts == {"a", "ab", "b"}
Rank == [t \in Texts \cup {"a,b"} |-> CASE t = "a" -> 1 [] t = "a,b" -> 2 [] t = "ab" -> 3 [] t = "b" -> 4]
Containing == {<<t, t>> : t \in Texts} \cup {<<"ab", "a">>, <<"ab", "b">>}
Starting == {<<t, t>> : t \in Texts} \cup {<<"ab", "a">>}

\* A value with a comma is a list, for operators that take one.
Listed(v) == IF v = "a,b" THEN <<"a", "b">> ELSE <<v>>

ListOps == {"$in", "$notIn", "$between"}
ValueOps == {"$eq", "$ne", "$lt", "$gte", "$contains", "$notContains", "$startsWith"} \cup ListOps
Ops == ValueOps \cup {"$null", "$notNull"}
Booleans == {"$and", "$or", "$not"}
Indexes == <<"0", "1">>
Columns == {"title", "kind"}

\* A title may be missing.
Rows == [title : Texts \cup {"NULL"}, kind : Texts]

-----------------------------------------------------------------------------
(* The tree of keys. *)

NoChildren == [k \in {} |-> {}]
EmptyNode == [value |-> {}, children |-> NoChildren]

RECURSIVE Insert(_, _, _)
Insert(node, path, v) ==
    IF path = <<>> THEN [node EXCEPT !.value = {v}]
    ELSE LET k == Head(path)
             child == IF k \in DOMAIN node.children THEN node.children[k] ELSE EmptyNode
         IN  [node EXCEPT !.children = [m \in DOMAIN @ \cup {k} |->
                                           IF m = k THEN Insert(child, Tail(path), v) ELSE @[m]]]

\* Children under a number, in the order of the numbers.
Indexed(node) ==
    LET found == SelectSeq(Indexes, LAMBDA i : i \in DOMAIN node.children)
    IN  [k \in DOMAIN found |-> node.children[found[k]]]

Init == pairs = <<>> /\ root = EmptyNode

AddPair(path, v) ==
    /\ Len(pairs) < MaxPairs
    /\ pairs' = <<[path |-> path, value |-> v]>> \o pairs
    /\ root' = Insert(root, path, v)

Next == \E path \in Paths, v \in Values : AddPair(path, v)

-----------------------------------------------------------------------------
(* From the tree to a filter.  An operator that is not known refuses the   *)
(* query.                                                                  *)

Bool(kind, items) == [kind |-> kind, items |-> items, field |-> "", op |-> "", values |-> <<>>]
Test(field, op, values) == [kind |-> "test", items |-> <<>>, field |-> field, op |-> op, values |-> values]
Refused == Bool("refused", <<>>)

\* One part stands for itself.
Together(items) == IF Len(items) = 1 THEN items[1] ELSE Bool("$and", items)

OpValues(op, node) ==
    IF node.value # {} THEN LET v == CHOOSE x \in node.value : TRUE IN IF op \in ListOps THEN Listed(v) ELSE <<v>>
    ELSE LET given == SelectSeq(Indexed(node), LAMBDA n : n.value # {})
         IN  [k \in DOMAIN given |-> CHOOSE x \in given[k].value : TRUE]

RECURSIVE FilterOf(_), Remapped(_, _), AsListed(_)

\* The keys of a tree, in some order: which one makes no difference to a conjunction.
AsListed(S) == IF S = {} THEN <<>> ELSE LET k == CHOOSE x \in S : TRUE IN <<k>> \o AsListed(S \ {k})

\* What is under a field's boolean is put back under the field.
Remapped(f, field) ==
    IF f.kind = "test" THEN [f EXCEPT !.field = field]
    ELSE [f EXCEPT !.items = [k \in DOMAIN @ |-> Remapped(@[k], field)]]

FieldFilter(field, node) ==
    LET keys == AsListed(DOMAIN node.children)
    IN  CASE node.value # {} -> Test(field, "$eq", OpValues("$eq", node))
          [] node.value = {} /\ DOMAIN node.children \cap Booleans # {} -> Remapped(FilterOf(node), field)
          [] node.value = {} /\ DOMAIN node.children \cap Booleans = {} ->
                 Together([k \in DOMAIN keys |->
                              IF keys[k] \in Ops
                              THEN Test(field, keys[k], OpValues(keys[k], node.children[keys[k]]))
                              ELSE Refused])

FilterOf(node) ==
    LET keys == AsListed(DOMAIN node.children)
        Part(k) ==
            LET child == node.children[k]
                subs == Indexed(child)
            IN  CASE k \in {"$and", "$or"} -> Bool(k, [j \in DOMAIN subs |-> FilterOf(subs[j])])
                  [] k = "$not" -> Bool("$not", <<FilterOf(child)>>)
                  [] OTHER -> FieldFilter(k, child)
    IN  Together([j \in DOMAIN keys |-> Part(keys[j])])

-----------------------------------------------------------------------------
(* From the filter to a condition, which for a row is true, false or       *)
(* unknown.  A field that has no column, or an operator without the values *)
(* it needs, refuses the query.                                            *)

All(truths) == IF "F" \in truths THEN "F" ELSE IF "U" \in truths THEN "U" ELSE "T"
Negated(truth) == CASE truth = "T" -> "F" [] truth = "F" -> "T" [] truth = "U" -> "U"
Any(truths) == Negated(All({Negated(t) : t \in truths}))
Truth(b) == IF b THEN "T" ELSE "F"

Needed(op) == CASE op \in {"$null", "$notNull"} -> 0 [] op = "$between" -> 2 [] OTHER -> 1

RECURSIVE Accepted(_), Condition(_, _)

Accepted(f) ==
    CASE f.kind = "refused" -> FALSE
      [] f.kind = "test" -> f.field \in Columns /\ Len(f.values) >= Needed(f.op)
      [] OTHER -> \A k \in DOMAIN f.items : Accepted(f.items[k])

Compare(op, x, values) ==
    CASE op = "$eq" -> x = values[1]
      [] op = "$ne" -> x # values[1]
      [] op = "$lt" -> Rank[x] < Rank[values[1]]
      [] op = "$gte" -> Rank[x] >= Rank[values[1]]
      [] op = "$in" -> \E k \in DOMAIN values : x = values[k]
      [] op = "$notIn" -> \A k \in DOMAIN values : x # values[k]
      [] op = "$contains" -> <<x, values[1]>> \in Containing
      [] op = "$notContains" -> <<x, values[1]>> \notin Containing
      [] op = "$startsWith" -> <<x, values[1]>> \in Starting
      [] op = "$between" -> Rank[values[1]] <= Rank[x] /\ Rank[x] <= Rank[values[2]]

Tested(op, x, values) ==
    CASE op = "$null" -> Truth(x = "NULL")
      [] op = "$notNull" -> Truth(x # "NULL")
      [] op \in ValueOps -> IF x = "NULL" THEN "U" ELSE Truth(Compare(op, x, values))

\* A mutant: the parts of a disjunction are all required.
ConditionAll(f, row) ==
    LET parts == {Condition(f.items[k], row) : k \in DOMAIN f.items}
    IN  CASE f.kind = "test" -> Tested(f.op, row[f.field], f.values)
          [] f.kind \in {"$and", "$or"} -> All(parts)
          [] f.kind = "$not" -> Negated(All(parts))

Condition(f, row) ==
    LET parts == {Condition(f.items[k], row) : k \in DOMAIN f.items}
    IN  CASE f.kind = "test" -> Tested(f.op, row[f.field], f.values)
          [] f.kind = "$and" -> All(parts)
          [] f.kind = "$or" -> Any(parts)
          [] f.kind = "$not" -> Negated(All(parts))

\* The rows a query lists; one that is refused lists none.
Matching == LET f == FilterOf(root) IN IF Accepted(f) THEN {row \in Rows : Condition(f, row) = "T"} ELSE {}

-----------------------------------------------------------------------------
(* Pages. *)

\* A SELECT is in the order of the keys it sorts by; without any, of the ids.  Rows with the same
\* key are in any order, and in another one the next time.
OrdersBy(key) ==
    LET n == Cardinality(DOMAIN key)
    IN  {o \in [1..n -> DOMAIN key] :
            /\ \A i, j \in 1..n : i # j => o[i] # o[j]
            /\ \A i, j \in 1..n : i < j => key[o[i]] <= key[o[j]]}

Larger(x, y) == IF x > y THEN x ELSE y
Smaller(x, y) == IF x < y THEN x ELSE y

\* The rows of page `page` of `size`, out of a SELECT in the order `o`.
Page(o, page, size) ==
    LET limit == Larger(size, 1)
        offset == (Larger(page, 1) - 1) * limit
    IN  {o[k] : k \in (offset + 1)..Smaller(offset + limit, Len(o))}

\* A mutant: the remainder has no page.
PageCountDown(total, size) == total \div size
PageCount(total, size) == (total + size - 1) \div size

-----------------------------------------------------------------------------
(* What the pairs of a query mean, without the tree. *)

\* The last pair of each path counts.
Kept == {pairs[k] : k \in {j \in DOMAIN pairs : \A i \in 1..(j - 1) : pairs[i].path # pairs[j].path}}

Heads(P) == {p.path[1] : p \in {q \in P : q.path # <<>>}}
Under(P, h) == {[p EXCEPT !.path = Tail(@)] : p \in {q \in P : q.path # <<>> /\ q.path[1] = h}}
ValuesAt(P) == {p.value : p \in {q \in P : q.path = <<>>}}

RECURSIVE Means(_, _, _)

GivenTo(op, P) ==
    IF ValuesAt(P) # {} THEN LET v == CHOOSE x \in ValuesAt(P) : TRUE IN IF op \in ListOps THEN Listed(v) ELSE <<v>>
    ELSE LET given == SelectSeq(Indexes, LAMBDA i : ValuesAt(Under(P, i)) # {})
         IN  [k \in DOMAIN given |-> CHOOSE x \in ValuesAt(Under(P, given[k])) : TRUE]

\* `P` are pairs about the field `field`, or about the whole row.  A plain value stands alone.
Means(P, field, row) ==
    IF field # "" /\ ValuesAt(P) # {} THEN {Tested("$eq", row[field], GivenTo("$eq", P))}
    ELSE {CASE h \in {"$and", "$or"} ->
                 LET parts == {All(Means(Under(Under(P, h), i), field, row)) : i \in Heads(Under(P, h))}
                 IN  IF h = "$and" THEN All(parts) ELSE Any(parts)
            [] h = "$not" -> Negated(All(Means(Under(P, h), field, row)))
            [] h \in Columns -> All(Means(Under(P, h), h, row))
            [] OTHER -> Tested(h, row[field], GivenTo(h, Under(P, h))) : h \in Heads(P)}

\* A query that is not refused lists the rows its pairs describe: each operator about its own field,
\* each part under its boolean, in whatever order the pairs came (parse_filter_node, apply_filter).
FiltersMean ==
    Accepted(FilterOf(root)) => Matching = {row \in Rows : All(Means(Kept, "", row)) = "T"}

\* Sorted by a key that no two rows share, the pages of a list have every row once, though each
\* comes from a SELECT of its own (effective_pagination, apply_sort, cm_list).
PagesTile ==
    pairs = <<>> =>
        \A total \in 0..MaxRows : \A size \in 1..(MaxRows + 1) :
            \A key \in {k \in [1..total -> 1..total] : \A x, y \in 1..total : x # y => k[x] # k[y]} :
                \A o, later \in OrdersBy(key) :
                    LET last == PageCount(total, size)
                    IN  /\ \A r \in 1..total : \E p \in 1..last : r \in Page(o, p, size)
                        /\ \A p, q \in 1..last : p # q => Page(o, p, size) \cap Page(later, q, size) = {}
=============================================================================
