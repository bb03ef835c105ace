------------------------------- MODULE Lookup -------------------------------
(***************************************************************************)
(* The iterative lookup of src/index.js, closest_, with the PromiseSelector*)
(* and the PQueue of src/util.js it is made of, and announce_peer, which   *)
(* writes to the nodes a lookup found.                                     *)
(*                                                                         *)
(* The loop takes one settled query at a time.  Promise.race may yield any *)
(* query that has settled, so a step picks any outstanding query, settles  *)
(* it and runs the body of the loop.  A query settles with a response that *)
(* lists nodes, or as {error} after a timeout, an error reply or a failed  *)
(* send (KRPC.tla).  A node is an id with its address and port, the key of *)
(* the set seen.                                                           *)
(***************************************************************************)
EXTENDS Naturals, Sequences, FiniteSets

CONSTANTS
  Node,
  Dist,       \* distance(node.id, target), in which nodes may tie
  Infinity,
  K,
  Listed,     \* the node lists a response or the routing table may hold
  Token,      \* the nodes that answer with a write token
  Value,      \* the nodes whose answer makes the callback return a value
  None

ASSUME ConstantsAssumption ==
  /\ Infinity \in Nat
  /\ Dist \in [Node -> 0 .. Infinity - 1]
  /\ K \in Nat /\ K >= 1
  /\ Listed \subseteq Seq(Node)
  /\ Token \subseteq Node /\ Value \subseteq Node
  /\ None \notin Node

VARIABLES
  rescb,     \* opt_rescb: none, or one that collects tokens or values
  closest,   \* the PQueue of closest_
  seen,      \* the nodes already queried
  asking,    \* the PromiseSelector: outstanding queries to each node
  status,    \* start, run, done, value (early return), failed (TypeError)
  writeable, \* the PQueue of announce_peer
  wrote,     \* the nodes announce_peer was sent to, or None
  \* History, for the properties only:
  learned,   \* every node some list has named
  answered,  \* the nodes that responded
  twice      \* the nodes queried twice, for one list that named them twice

vars == <<rescb, closest, seen, asking, status, writeable, wrote, learned,
          answered, twice>>

-----------------------------------------------------------------------------
(* PQueue: K entries, sorted by distance, Infinity where there is no node.  *)

Entry == [dist : 0 .. Infinity, node : Node \cup {None}]

EmptyQueue == [j \in 1 .. K |-> [dist |-> Infinity, node |-> None]]

\* A variant: the entry always goes to the end.
PushAtEnd(q, n) ==
  [j \in 1 .. K |-> IF j = K /\ Dist[n] < q[K].dist
                      THEN [dist |-> Dist[n], node |-> n] ELSE q[j]]

\* A variant: one entry too many is kept.
PushKeepsAll(q, n) ==
  LET Nearer(j) == \A k \in 1 .. j : q[k].dist <= Dist[n]
  IN  [j \in 1 .. Len(q) + 1 |->
         IF j <= Len(q) /\ Nearer(j) THEN q[j]
         ELSE IF Nearer(j - 1) THEN [dist |-> Dist[n], node |-> n]
         ELSE q[j - 1]]

\* splice before the first entry that is farther, then pop the last.
Push(q, n) ==
  LET Nearer(j) == \A k \in 1 .. j : q[k].dist <= Dist[n]
  IN  [j \in 1 .. K |->
         IF Nearer(j) THEN q[j]
         ELSE IF Nearer(j - 1) THEN [dist |-> Dist[n], node |-> n]
         ELSE q[j - 1]]

Furthest(q) == q[K].dist

Items(q) == {q[j].node : j \in 1 .. K} \ {None}

-----------------------------------------------------------------------------
Init ==
  /\ rescb \in {"none", "tokens", "values"}
  /\ closest = EmptyQueue
  /\ seen = {}
  /\ asking = [n \in Node |-> 0]
  /\ status = "start"
  /\ writeable = EmptyQueue
  /\ wrote = None
  /\ learned = {}
  /\ answered = {}
  /\ twice = {}

\* A variant: only nodes nearer than the nearest are queried.
NearerThanNearest(list, q) ==
  {i \in 1 .. Len(list) : list[i] \notin seen /\ Dist[list[i]] < q[1].dist}

\* A variant: nodes are not left out for having been queried.
CandidatesSeenAgain(list, q) ==
  {i \in 1 .. Len(list) : Dist[list[i]] < Furthest(q)}

\* The positions of the list that the two filters keep, before any is queried.
Candidates(list, q) ==
  {i \in 1 .. Len(list) : list[i] \notin seen /\ Dist[list[i]] < Furthest(q)}

\* A variant: next() races no promises instead of returning null.
ContinueOnEmptyRace(list, q, remaining) ==
  LET c == Candidates(list, q)
      new(n) == Cardinality({i \in c : list[i] = n})
  IN
  /\ closest' = q
  /\ seen' = seen \cup {list[i] : i \in c}
  /\ asking' = [n \in Node |-> remaining[n] + new(n)]
  /\ learned' = learned \cup {list[i] : i \in 1 .. Len(list)}
  /\ twice' = twice \cup {n \in Node : new(n) > 1}
  /\ status' = "run"

\* The rest of the loop body: query the candidates of a list, given the queue
\* and the outstanding queries that remain; with none left, the loop ends.
Continue(list, q, remaining) ==
  LET c == Candidates(list, q)
      new(n) == Cardinality({i \in c : list[i] = n})
  IN
  /\ closest' = q
  /\ seen' = seen \cup {list[i] : i \in c}
  /\ asking' = [n \in Node |-> remaining[n] + new(n)]
  /\ learned' = learned \cup {list[i] : i \in 1 .. Len(list)}
  /\ twice' = twice \cup {n \in Node : new(n) > 1}
  /\ status' = IF \A n \in Node : asking'[n] = 0 THEN "done" ELSE "run"

NamesOnce(list) == Cardinality({list[i] : i \in 1 .. Len(list)}) = Len(list)

\* The first turn: the nodes of the routing table nearest to the target, in
\* which no node is twice (ClosestOf of Listen.tla).
Start(list) ==
  /\ status = "start"
  /\ NamesOnce(list)
  /\ Continue(list, closest, asking)
  /\ UNCHANGED <<rescb, writeable, wrote, answered>>

Settled(n) == [asking EXCEPT ![n] = @ - 1]

\* n responds.  The callback keeps a node that gave a token, or returns a
\* value, which ends the lookup.
Response(n, list) ==
  /\ status = "run" /\ asking[n] > 0
  /\ answered' = answered \cup {n}
  /\ writeable' = IF rescb = "tokens" /\ n \in Token THEN Push(writeable, n)
                                                    ELSE writeable
  /\ IF rescb = "values" /\ n \in Value
       THEN /\ status' = "value"
            /\ asking' = Settled(n)
            /\ UNCHANGED <<closest, seen, learned, twice>>
       ELSE Continue(list, Push(closest, n), Settled(n))
  /\ UNCHANGED <<rescb, wrote>>

\* The query yields {error}: it has no r, and reading r.nodes throws.
Error(n) ==
  /\ status = "run" /\ asking[n] > 0
  /\ asking' = Settled(n)
  /\ status' = "failed"
  /\ UNCHANGED <<rescb, closest, seen, writeable, wrote, learned, answered,
                 twice>>

\* A variant: the peers announced to may have given no token.
AnnounceToClosest ==
  /\ status = "done" /\ rescb = "tokens" /\ wrote = None
  /\ wrote' = Items(closest)
  /\ UNCHANGED <<rescb, closest, seen, asking, status, writeable, learned,
                 answered, twice>>

\* announce_peer, once its lookup has returned, and likewise put (Storage.tla).
Announce ==
  /\ status = "done" /\ rescb = "tokens" /\ wrote = None
  /\ wrote' = Items(writeable)
  /\ UNCHANGED <<rescb, closest, seen, asking, status, writeable, learned,
                 answered, twice>>

Next ==
  \/ \E list \in Listed : Start(list)
  \/ \E n \in Node : Error(n) \/ \E list \in Listed : Response(n, list)
  \/ Announce

Spec == Init /\ [][Next]_vars
-----------------------------------------------------------------------------
(* Properties.                                                             *)

Queue == [1 .. K -> Entry]

TypeOK ==
  /\ rescb \in {"none", "tokens", "values"}
  /\ closest \in Queue /\ writeable \in Queue
  /\ seen \subseteq Node
  /\ asking \in [Node -> Nat]
  /\ status \in {"start", "run", "done", "value", "failed"}
  /\ wrote \in (SUBSET Node) \cup {None}
  /\ learned \subseteq Node
  /\ answered \subseteq Node
  /\ twice \subseteq Node

Sorted(q) == \A i, j \in 1 .. K : i <= j => q[i].dist <= q[j].dist

\* q holds nodes of s, nearest first, and misses none that is nearer than its
\* last entry.
NearestOf(q, s) ==
  /\ Sorted(q)
  /\ Items(q) \subseteq s
  /\ \A n \in s : n \in Items(q) \/ Dist[n] >= Furthest(q)

\* No node has two places in q, unless one list named it twice: the set seen
\* is consulted for the whole list before any of it is queried.
OnePlaceEach(q) ==
  \A i, j \in 1 .. K :
    i < j /\ q[i].node = q[j].node => q[i].node \in twice \cup {None}

\* q holds the K nearest of s (all of s, if there are fewer).  A node that one
\* list named twice answers twice and takes two of the K places, and the node
\* this crowds out is missing: "write to the K closest" (index.js:523) is more
\* than the code does.
NearestUnlessTwice(q, s) == NearestOf(q, s) /\ OnePlaceEach(q)

\* In whatever order responses arrive, and with ties, closest holds the K
\* nearest nodes that have responded ("track closest responding"), less those
\* that a node named twice crowds out.
ClosestAreNearest ==
  NearestUnlessTwice(closest, answered \ (IF rescb = "values" THEN Value ELSE {}))

\* A lookup that returns has the K nearest of all the nodes any response
\* named, less those crowded out: leaving a node out when its list comes in,
\* by what closest holds then, never loses one that would be in it at the end.
NearestLearnedFound == status = "done" => NearestUnlessTwice(closest, learned)

\* announce_peer writes to the K closest of the nodes that gave a token and to
\* no other, each one once; to fewer than K if one was named twice.
WritesToNearest ==
  wrote # None => /\ NearestUnlessTwice(writeable, answered \cap Token)
                  /\ wrote = Items(writeable)

\* The loop does not go round in a circle, whatever the answers list: a node
\* that was queried is never queried again, and a round that queries no new
\* node leaves one outstanding query less.
LookupAdvances ==
  [][status = "run" =>
       /\ seen \subseteq seen'
       /\ \A n \in seen : asking'[n] <= asking[n]
       /\ \/ seen' # seen
          \/ \E n \in Node : asking[n] > 0 /\ asking' = Settled(n)]_vars

\* Every lookup ends: each node is asked a bounded number of times and each
\* query settles.
LookupEnds == status = "run" ~> status \in {"done", "value", "failed"}

\* "will block waiting for a response or timeout" (index.js:278): a query
\* that times out is one node less, and the lookup goes on without it.
SilentNodeTolerated ==
  status = "failed" => \A n \in Node : asking[n] = 0
=============================================================================
