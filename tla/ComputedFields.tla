--------------------------- MODULE ComputedFields ---------------------------
(***************************************************************************)
(* Computed fields of a content type: what validation accepts              *)
(* (core-schema/src/validation.rs, validate_computed), and which of those  *)
(* it accepts become generated columns, with which expression              *)
(* (dynamic-store/src/ddl.rs).  Of an expression is kept what it reads.    *)
(***************************************************************************)
EXTENDS Naturals, FiniteSets

CONSTANTS
    Names, \* names of fields
    MaxReads \* bound: columns one expression reads

VARIABLES
    fields, \* the attributes of the content type, by name
    pc, \* "edit", then "sort" while cycles are looked for, then what validation found
    degree, \* indegree, in Kahn's algorithm
    queue, \* fields of degree 0 whose edges are not yet removed
    removed \* fields taken off the queue

vars == <<fields, pc, degree, queue, removed>>

\* Of the constants.
FieldsAssumption == MaxReads \in Nat

\* A computed field has names it declares to depend on, columns its expression reads, relations it
\* aggregates over, and perhaps a path through a relation outside any aggregate.  It is `odd` when it
\* has a setting, or a type, that computed fields may not have, or an expression without a parse.
Plain(kind) == [kind |-> kind, deps |-> {}, reads |-> {}, aggregates |-> {}, path |-> FALSE, odd |-> FALSE]

FewNames(n) == {S \in SUBSET Names : Cardinality(S) <= n}

Formulas ==
    {[Plain("computed") EXCEPT !.reads = r, !.aggregates = a] : r \in FewNames(MaxReads), a \in FewNames(1)}
    \cup {[Plain("computed") EXCEPT !.deps = d] : d \in FewNames(1)}
    \cup {[Plain("computed") EXCEPT !.path = p, !.odd = ~p] : p \in BOOLEAN}

Attributes == {Plain("scalar"), Plain("relation")} \cup Formulas

Fields == DOMAIN fields
Computed == {n \in Fields : fields[n].kind = "computed"}

Init ==
    /\ fields = [n \in {} |-> Plain("scalar")]
    /\ pc = "edit"
    /\ degree = [n \in {} |-> 0]
    /\ queue = {} /\ removed = {}

\* One more field: the bound is the names.
AddField(n, attr) ==
    /\ pc = "edit" /\ n \notin Fields
    /\ fields' = [m \in Fields \cup {n} |-> IF m = n THEN attr ELSE fields[m]]
    /\ UNCHANGED <<pc, degree, queue, removed>>

-----------------------------------------------------------------------------
(* Validation (validate_computed, validate_relation_expression).  It goes  *)
(* on after an error, and a content type with any error is refused.        *)

\* A field that another may depend on.
Usable(n, dep) == dep # n /\ dep \in Fields /\ fields[dep].kind \in {"scalar", "computed"}

FieldFine(n) ==
    LET f == fields[n]
    IN  /\ ~f.odd /\ ~f.path
        /\ \A dep \in f.deps \cup f.reads : Usable(n, dep)
        /\ \A r \in f.aggregates : r \in Fields /\ fields[r].kind = "relation"

\* The computed fields that `n` declares or reads.
Edges(n) == (fields[n].deps \cup fields[n].reads) \cap Computed

Validate ==
    /\ pc = "edit"
    /\ pc' = "sort"
    /\ degree' = [n \in Computed |-> Cardinality({m \in Computed : n \in Edges(m)})]
    /\ queue' = {n \in Computed : degree'[n] = 0}
    /\ removed' = {}
    /\ UNCHANGED fields

\* detect_computed_cycles takes them in the order of a hash map: any.
Remove(n) ==
    /\ pc = "sort" /\ n \in queue
    /\ degree' = [m \in Computed |-> IF m \in Edges(n) /\ degree[m] > 0 THEN degree[m] - 1 ELSE degree[m]]
    /\ queue' = (queue \ {n}) \cup {m \in Edges(n) : degree'[m] = 0}
    /\ removed' = removed \cup {n}
    /\ UNCHANGED <<fields, pc>>

Finish ==
    /\ pc = "sort" /\ queue = {}
    /\ pc' = IF removed = Computed /\ \A n \in Computed : FieldFine(n) THEN "accepted" ELSE "refused"
    /\ UNCHANGED <<fields, degree, queue, removed>>

Next ==
    \/ \E n \in Names, attr \in Attributes : AddField(n, attr)
    \/ Validate
    \/ \E n \in Names : Remove(n)
    \/ Finish

-----------------------------------------------------------------------------
(* What an accepted content type becomes. *)

RECURSIVE HasAggregate(_, _), Inlined(_)

\* computed_field_has_relation_aggregate: by the field itself or by one it reads; `visiting` breaks cycles.
HasAggregate(n, visiting) ==
    /\ n \in Computed \ visiting
    /\ \/ fields[n].aggregates # {}
       \/ \E dep \in fields[n].reads : HasAggregate(dep, visiting \cup {n})

\* A mutant: only an aggregate of the field itself keeps it from being generated.
GeneratedUnlessOwn(n) == n \in Computed /\ fields[n].aggregates = {}

\* A generated column.  Other computed fields are plain columns that the server fills in.
Generated(n) == n \in Computed /\ ~HasAggregate(n, {})

\* What is in the expression a generated column is created with: a computed column it reads is
\* replaced by that column's expression, a relation by NULL (render_expr_impl).
Inlined(n) ==
    (IF fields[n].aggregates # {} \/ fields[n].path THEN {"NULL"} ELSE {})
    \cup UNION {IF c \in Computed THEN Inlined(c) ELSE {c} : c \in fields[n].reads}

\* The fields a field reads, whether itself or through others.
Reached(n) ==
    LET More(S) == S \cup UNION {fields[m].reads \cup fields[m].deps : m \in S \cap Fields}
        closure[k \in 0..Cardinality(Names)] == IF k = 0 THEN fields[n].reads \cup fields[n].deps ELSE More(closure[k - 1])
    IN  closure[Cardinality(Names)]

\* In a content type that validation accepts no computed field comes back to itself, whatever the
\* order the search for cycles took; and it refuses none for a cycle it does not have.
CyclesFound ==
    pc \in {"accepted", "refused"} =>
        ((\E n \in Computed : n \in Reached(n)) <=> removed # Computed)

\* A generated column of an accepted content type is computed from stored columns of the content type
\* alone: databases take neither a relation nor another generated column there (render_expr_impl).
GeneratedFromStored ==
    pc = "accepted" =>
        \A n \in Fields : Generated(n) => \A c \in Inlined(n) : c \in Fields /\ fields[c].kind = "scalar"
=============================================================================
