------------------------------ MODULE MCStorage ------------------------------
(* An instance of Storage for TLC.                                         *)
EXTENDS Storage, TLC

ZeroOne == {0, 1}

\* A get that has returned is not followed further: nothing reads its result,
\* the node may begin again as an idle one may, and one whose get finds
\* nothing is left idle with the same stores.
NoneReturned == \A n \in Node : op[n].kind # "got"

\* One get or put is under way at a time, and packets of any number of earlier
\* ones: operations of two nodes meet in the stores and the packets only, and
\* beginning one, hearing an answer and writing leave every store as it is but
\* for what has expired.
OneBusy == Cardinality({n \in Node : op[n].kind \in {"get", "put"}}) <= 1

Symmetry == Permutations(Node) \cup Permutations(Val) \cup Permutations(Secret)
=============================================================================
