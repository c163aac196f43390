------------------------ MODULE MCSchemaRegistry ------------------------
(* Instances of SchemaRegistry for TLC: the batches clients send.          *)
EXTENDS SchemaRegistry

CONSTANTS u1, u2, t1, t2, a, b, int, str

\* A schema with the given families for the attributes a and b.
S(t, fa, fb) == [table |-> t, attrs |-> [x \in Attrs |-> IF x = a THEN fa ELSE fb]]

Save1(u, s) == [desired |-> [v \in Uids |-> IF v = u THEN s ELSE NoSchema], removed |-> {}]
Remove1(u) == [desired |-> EmptyRegistry, removed |-> {u}]

\* One content type: created, extended, its column retyped, removed.
OneType ==
    {Save1(u1, S(t1, int, NoFamily)), Save1(u1, S(t1, int, int)),
     Save1(u1, S(t1, str, NoFamily)), Remove1(u1)}

\* Two content types, saved alone and together.
TwoTypes ==
    {Save1(u1, S(t1, int, NoFamily)), Save1(u1, S(t1, NoFamily, int)), Remove1(u1),
     Save1(u2, S(t2, int, NoFamily)),
     [desired |-> [v \in Uids |-> IF v = u1 THEN S(t1, int, int) ELSE S(t2, int, NoFamily)],
      removed |-> {}],
     [Save1(u2, S(t2, int, int)) EXCEPT !.removed = {u1}]}

ToolSave == {<<u1, S(t1, int, str)>>}
NoToolSave == {}

=============================================================================
