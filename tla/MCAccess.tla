------------------------------ MODULE MCAccess ------------------------------
(* Instances of Access for TLC: two spellings of an address, and another. *)
EXTENDS Access

CONSTANTS ann, Ann, bob, article, page

LowerCase(m) == IF m = Ann THEN ann ELSE m

\* The permissions an update may give a role: none, to read one type, to read all.
ReadAny == {[action |-> "read", subject |-> Any]}
ReadOne == {[action |-> "read", subject |-> article]}
SomeAsked == {ReadAny, ReadOne \cup {[action |-> "publish", subject |-> article]}}

SetUps == {[password |-> TRUE, dev |-> TRUE, provision |-> FALSE],
           [password |-> FALSE, dev |-> FALSE, provision |-> TRUE]}
=============================================================================
