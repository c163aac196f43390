------------------------------ MODULE Entries ------------------------------
(***************************************************************************)
(* What the Content Manager promises to those who read entries: each call  *)
(* takes effect at once and as a whole.  ContentLifecycle implements it,   *)
(* but for discarding a draft: see ImplementsEntries there.                *)
(***************************************************************************)
CONSTANTS Docs, Locales, Values

VARIABLE visible    \* the variants a reader finds

Variant == [doc : Docs, locale : Locales, state : {"draft", "published"}, val : Values]

Of(d) == {v \in visible : v.doc = d}

Init == visible = {}

\* A document has one variant of each locale and state.
Create ==
    \E v \in Variant :
        /\ \A w \in Of(v.doc) : w.locale # v.locale \/ w.state # v.state
        /\ visible' = visible \cup {v}

\* One variant gets a new content.
Update ==
    \E v \in visible, x \in Values :
        visible' = (visible \ {v}) \cup {[v EXCEPT !.val = x]}

\* All variants of a document go.
Delete == \E d \in Docs : visible' = visible \ Of(d)

\* In place of a document, a published variant of a new one.
Publish ==
    \E d \in Docs, v \in Variant :
        /\ v.state = "published" /\ Of(v.doc) = {}
        /\ visible' = (visible \ Of(d)) \cup {v}

Next == Create \/ Update \/ Delete \/ Publish

Spec == Init /\ [][Next]_visible
=============================================================================
