-------------------------------- MODULE LastPut --------------------------------
(***************************************************************************)
(* What the nodes that run src/storage.js hold: under each target nothing, *)
(* or a record that somebody put there.  One arrival changes one target of *)
(* one node, and records may be forgotten at any time.  Of two puts the one*)
(* that arrives last is held, as the code has it: test/storage.js:118 wants*)
(* the lower sequence number refused.                                      *)
(***************************************************************************)
CONSTANTS Node, Record, Target, TargetOf(_), None

VARIABLES held, issued

vars == <<held, issued>>

Init ==
  /\ held = [n \in Node |-> [t \in Target |-> None]]
  /\ issued = {}

Issue == UNCHANGED held /\ \E r \in Record : issued' = issued \cup {r}

\* Every node keeps or forgets what it has, except where a put has arrived.
KeepOrForget(put) ==
  /\ held' \in [Node -> [Target -> Record \cup {None}]]
  /\ \A n \in Node, t \in Target :
       <<n, t>> \in put \/ held'[n][t] \in {held[n][t], None}

Accept(n, r) ==
  /\ held'[n][TargetOf(r)] = r
  /\ KeepOrForget({<<n, TargetOf(r)>>})
  /\ UNCHANGED issued

Forget == UNCHANGED issued /\ KeepOrForget({})

Next ==
  \/ Issue
  \/ \E n \in Node, r \in issued : Accept(n, r)
  \/ Forget

Spec == Init /\ [][Next]_vars
=============================================================================
