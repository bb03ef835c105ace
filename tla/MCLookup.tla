------------------------------ MODULE MCLookup ------------------------------
(* Instances of Lookup, within Listen, for TLC.                            *)
EXTENDS Listen, TLC

CONSTANTS n1, n2, n3, n4

FourNodes == {n1, n2, n3, n4}
\* n2 and n3 are so close to each other that their distances round to one.
Tie == n1 :> 0 @@ n2 :> 1 @@ n3 :> 1 @@ n4 :> 2

\* A list a peer may send: nothing keeps it from naming a node twice.
AnyLists == {<<>>} \cup {<<a>> : a \in Node} \cup {<<a, b>> : a, b \in Node}

TwoTokens == {n2, n4}
OneValue  == {n3}
NearAndFar == {n1, n4}
=============================================================================
