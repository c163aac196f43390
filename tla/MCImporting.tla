---------------------------- MODULE MCImporting ----------------------------
(* Instances of Importing for TLC: the lists of payloads, and the files.   *)
EXTENDS Importing, TLC

CONSTANTS n1, n2, c1, c2

ClientsAlike == Permutations({c1, c2})

FewBooks == {NotGiven, <<1>>, <<2>>}

FewTags == {NotGiven, <<2, 1>>, <<Unknown>>}

Rec(n, bs, ts) == [name |-> n, valid |-> TRUE, books |-> bs, tags |-> ts]

\* Two entries, one of them with a relation that fails; an invalid record.
TwoFiles ==
    {<<Rec(n2, <<2>>, NotGiven), Rec(n1, NotGiven, <<Unknown>>)>>,
     <<[Rec(n1, NotGiven, NotGiven) EXCEPT !.valid = FALSE], Rec(n2, NotGiven, <<2, 1>>)>>}
=============================================================================
