-------------------------------- MODULE Listen --------------------------------
(***************************************************************************)
(* How a node enters the network: listen() of src/index.js pings the       *)
(* bootstrap nodes, all at once, and when every ping has settled looks up  *)
(* its own id from what the routing table holds by then.  Composes         *)
(* Lookup.tla with that and with the table the answers go to.              *)
(*                                                                         *)
(* Of the table this module keeps which nodes are in it.  RoutingTable.tla *)
(* says that the first K nodes are taken; what a fuller one does with the  *)
(* next node is left open.  isBootstrapping_, which nothing reads, is TRUE *)
(* in the phases pinging, lookup and rejected.                             *)
(***************************************************************************)
EXTENDS Lookup

CONSTANT Bootstrap    \* bootstrapNodes_ of a node without a save file

VARIABLES
  phase,    \* new, pinging, lookup, ready, or rejected
  pinging,  \* the bootstrap nodes whose ping has not settled
  known,    \* the nodes in the routing table
  first     \* History: known when the lookup of the own id started

listenVars == <<vars, phase, pinging, known, first>>

own == <<phase, pinging, known, first>>

\* A loaded node has the nodes that were saved, and no bootstrap nodes.
ListenInit ==
  /\ Init
  /\ phase = "new"
  /\ \/ known = {} /\ pinging = Bootstrap
     \/ known \in SUBSET Node /\ pinging = {}
  /\ first = {}

\* The table is told of n.
Recorded(n) ==
  IF n \in known \/ Cardinality(known) < K
    THEN {known \cup {n}}
    ELSE {known, known \cup {n}} \cup {(known \ {m}) \cup {n} : m \in known}

\* The socket is bound, and pings go out.
BeginListen ==
  /\ phase = "new" /\ status = "start" /\ rescb = "none"
  /\ phase' = "pinging"
  /\ UNCHANGED <<vars, pinging, known, first>>

BootstrapAnswers(n) ==
  /\ phase = "pinging" /\ n \in pinging
  /\ pinging' = pinging \ {n}
  /\ known' \in Recorded(n)
  /\ UNCHANGED <<vars, phase, first>>

\* A timeout or an error: ping resolves with {error}, and an address without
\* an id is not in the table.
BootstrapSilent(n) ==
  /\ phase = "pinging" /\ n \in pinging
  /\ pinging' = pinging \ {n}
  /\ UNCHANGED <<vars, phase, known, first>>

\* Another node's query comes in.
HearsQuery(n) ==
  /\ phase # "new" /\ status \in {"start", "run"}
  /\ known' \in Recorded(n)
  /\ UNCHANGED <<vars, phase, pinging, first>>

\* A variant: any K nodes of the table will do.
AnyOf(list, s) ==
  /\ Len(list) <= K /\ \A i \in 1 .. Len(list) : list[i] \in s

\* RoutingTable.closest: the K nearest of s, in order.
ClosestOf(list, s) ==
  LET listed == {list[i] : i \in 1 .. Len(list)} IN
  /\ listed \subseteq s
  /\ NamesOnce(list)
  /\ Len(list) = K \/ listed = s
  /\ \A i, j \in 1 .. Len(list) : i <= j => Dist[list[i]] <= Dist[list[j]]
  /\ \A n \in s \ listed, m \in listed : Dist[m] <= Dist[n]

\* A variant: the lookup waits for a first node.
LookupOwnIdFromSome ==
  /\ phase = "pinging" /\ pinging = {} /\ known # {}
  /\ \E list \in Listed : ClosestOf(list, known) /\ Start(list)
  /\ phase' = "lookup"
  /\ first' = known
  /\ UNCHANGED <<pinging, known>>

\* find_node(this.id), once Promise.all has settled.
LookupOwnId ==
  /\ phase = "pinging" /\ pinging = {}
  /\ \E list \in Listed : ClosestOf(list, known) /\ Start(list)
  /\ phase' = "lookup"
  /\ first' = known
  /\ UNCHANGED <<pinging, known>>

\* A response goes to the table before the loop takes it.
LookupResponse(n, list) ==
  /\ Response(n, list)
  /\ known' \in IF phase = "lookup" THEN Recorded(n) ELSE {known}
  /\ UNCHANGED <<phase, pinging, first>>

ListenReturns ==
  /\ phase = "lookup" /\ status = "done"
  /\ phase' = "ready"
  /\ UNCHANGED <<vars, pinging, known, first>>

\* The lookup throws, and listen() with it.
ListenRejects ==
  /\ phase = "lookup" /\ status = "failed"
  /\ phase' = "rejected"
  /\ UNCHANGED <<vars, pinging, known, first>>

\* Any other lookup, of a node that has been running for a while.
OtherLookup(list) ==
  /\ phase = "new"
  /\ ClosestOf(list, known) /\ Start(list)
  /\ UNCHANGED own

ListenNext ==
  \/ BeginListen \/ LookupOwnId \/ ListenReturns \/ ListenRejects
  \/ \E n \in Node :
       \/ BootstrapAnswers(n) \/ BootstrapSilent(n) \/ HearsQuery(n)
       \/ Error(n) /\ UNCHANGED own
       \/ \E list \in Listed : LookupResponse(n, list)
  \/ \E list \in Listed : OtherLookup(list)
  \/ Announce /\ UNCHANGED own

ListenSpec == ListenInit /\ [][ListenNext]_listenVars

\* Pings and queries settle (QuerySettles of KRPC.tla), and the continuations
\* of what has settled run.
ListenFairness ==
  /\ WF_listenVars(LookupOwnId) /\ WF_listenVars(ListenReturns)
  /\ WF_listenVars(ListenRejects)
  /\ \A n \in Node :
       /\ WF_listenVars(BootstrapAnswers(n) \/ BootstrapSilent(n))
       /\ WF_listenVars(\/ Error(n) /\ UNCHANGED own
                        \/ \E list \in Listed : LookupResponse(n, list))

ListenFairSpec == ListenSpec /\ ListenFairness
-----------------------------------------------------------------------------
(* Properties.                                                             *)

\* "collect nodes near to us" (index.js:195): when listen() returns, its
\* lookup has found the K nearest of all nodes it heard of or started with, the
\* bootstrap nodes and those whose queries came in the meantime included, less
\* those that a node named twice by one list crowds out.
NearestKnownFound ==
  phase = "ready" => NearestUnlessTwice(closest, first \cup learned)

\* listen() settles, however many bootstrap nodes are silent.
ListenSettles == phase = "pinging" ~> phase \in {"ready", "rejected"}
=============================================================================
