-------------------------------- MODULE KRPC --------------------------------
(***************************************************************************)
(* The query side of src/krpc.js: KRPCSocket.query, transact_,             *)
(* handleMessage_ for replies, the response timer and dispose.             *)
(*                                                                         *)
(* A turn of the event loop is one step, except where the socket emits an  *)
(* event in the middle of it.  The 'response' listener of index.js records *)
(* the node, which may insert it, which may ping another node: query() is  *)
(* entered again before the transaction being answered is cleaned up.      *)
(* Replies travel over UDP: wire never forgets one, so that a reply may be *)
(* handled late, twice, after others, or never.                            *)
(***************************************************************************)
EXTENDS Naturals, FiniteSets

CONSTANTS
  Call,         \* the calls of query() the process may make
  Tid,          \* the transaction ids (four random bytes in the code)
  HasTimeout,   \* RESPONSE_TIMEOUT_ # 0
  None

ASSUME ConstantsAssumption ==
  /\ HasTimeout \in BOOLEAN
  /\ None \notin Call
  /\ None \notin Tid

VARIABLES
  entry,      \* outstandingTransactions_: tid -> the call it belongs to
  timer,      \* whether the response timer of a call is armed
  tidOf,      \* the tid a call has drawn
  promise,    \* the promise query() returned
  notice,     \* the event emitted for a call
  emitting,   \* the call whose event is being emitted
  asked,      \* tids of the query packets a peer may have received
  wire,       \* reply packets: tid and message type, 'r' or 'e'
  disposed

vars == <<entry, timer, tidOf, promise, notice, emitting, asked, wire,
          disposed>>

Reply == [tid : Tid, type : {"r", "e"}]

Init ==
  /\ entry = [t \in Tid |-> None]
  /\ timer = [c \in Call |-> FALSE]
  /\ tidOf = [c \in Call |-> None]
  /\ promise = [c \in Call |-> "new"]
  /\ notice = [c \in Call |-> "none"]
  /\ emitting = None
  /\ asked = {}
  /\ wire = {}
  /\ disposed = FALSE

-----------------------------------------------------------------------------
\* A tid is drawn until one is not outstanding; then timer and entry are set.
Register(c, t) ==
  /\ promise[c] = "new"
  /\ entry[t] = None
  /\ entry' = [entry EXCEPT ![t] = c]
  /\ timer' = [timer EXCEPT ![c] = HasTimeout]
  /\ tidOf' = [tidOf EXCEPT ![c] = t]

\* query() is called from a turn of its own or by a 'response' listener.
CanQuery == emitting # None => notice[emitting] = "response"

Query(c) ==
  /\ CanQuery
  /\ \E t \in Tid : Register(c, t) /\ asked' = asked \cup {t}
  /\ promise' = [promise EXCEPT ![c] = "pending"]
  /\ UNCHANGED <<notice, emitting, wire, disposed>>

\* A variant: the timer is cleared but the entry stays.
QueryThrowsClearsTimer(c) ==
  /\ CanQuery
  /\ \E t \in Tid : /\ promise[c] = "new" /\ entry[t] = None
                    /\ entry' = [entry EXCEPT ![t] = c]
                    /\ tidOf' = [tidOf EXCEPT ![c] = t]
  /\ promise' = [promise EXCEPT ![c] = "error"]
  /\ UNCHANGED <<timer, notice, emitting, asked, wire, disposed>>

\* inner() throws (encode, or send on a closed socket): the promise rejects,
\* and the entry and its timer stay.
QueryThrows(c) ==
  /\ CanQuery
  /\ \E t \in Tid : Register(c, t)
  /\ promise' = [promise EXCEPT ![c] = "error"]
  /\ UNCHANGED <<notice, emitting, asked, wire, disposed>>

\* A peer answers a query it received.
PeerReplies(m) ==
  /\ m.tid \in asked
  /\ wire' = wire \cup {m}
  /\ UNCHANGED <<entry, timer, tidOf, promise, notice, emitting, asked,
                 disposed>>

-----------------------------------------------------------------------------
\* A variant: the timer stays armed.
CleanUpKeepsTimer(c) ==
  /\ entry' = [entry EXCEPT ![tidOf[c]] = None]
  /\ timer' = timer

CleanUp(c) ==
  /\ entry' = [entry EXCEPT ![tidOf[c]] = None]
  /\ timer' = [timer EXCEPT ![c] = FALSE]

\* A promise settles once; resolve and reject do nothing afterwards.
Settle(c, outcome) ==
  promise' = [promise EXCEPT ![c] = IF @ = "pending" THEN outcome ELSE @]

\* A reply whose tid is outstanding, from whichever peer (others are ignored).
Arrives(type, c) ==
  /\ emitting = None /\ ~disposed
  /\ \E m \in wire : m.type = type /\ entry[m.tid] = c

EmitResponse(c) ==
  /\ Arrives("r", c)
  /\ notice' = [notice EXCEPT ![c] = "response"]
  /\ emitting' = c
  /\ UNCHANGED <<entry, timer, tidOf, promise, asked, wire, disposed>>

\* The listeners have returned: resolve.
FinishResponse(c) ==
  /\ emitting = c /\ notice[c] = "response"
  /\ CleanUp(c)
  /\ Settle(c, "ok")
  /\ emitting' = None
  /\ UNCHANGED <<tidOf, notice, asked, wire, disposed>>

\* Variants: the error is emitted too; an error reply resolves.
HandleErrorEmits(c) ==
  /\ Arrives("e", c)
  /\ CleanUp(c)
  /\ Settle(c, "error")
  /\ notice' = [notice EXCEPT ![c] = "error"]
  /\ UNCHANGED <<tidOf, emitting, asked, wire, disposed>>

HandleErrorResolves(c) ==
  /\ Arrives("e", c)
  /\ CleanUp(c)
  /\ Settle(c, "ok")
  /\ UNCHANGED <<tidOf, notice, emitting, asked, wire, disposed>>

HandleError(c) ==
  /\ Arrives("e", c)
  /\ CleanUp(c)
  /\ Settle(c, "error")
  /\ UNCHANGED <<tidOf, notice, emitting, asked, wire, disposed>>

EmitTimeout(c) ==
  /\ emitting = None
  /\ timer[c]
  /\ timer' = [timer EXCEPT ![c] = FALSE]
  /\ notice' = [notice EXCEPT ![c] = "timeout"]
  /\ emitting' = c
  /\ UNCHANGED <<entry, tidOf, promise, asked, wire, disposed>>

\* A variant: the query is given another two seconds, every time.
FinishTimeoutRetries(c) ==
  /\ emitting = c /\ notice[c] = "timeout"
  /\ timer' = [timer EXCEPT ![c] = TRUE]
  /\ emitting' = None
  /\ UNCHANGED <<entry, tidOf, promise, notice, asked, wire, disposed>>

\* A variant: the entry is not deleted, and a late answer still finds it.
FinishTimeoutKeepsEntry(c) ==
  /\ emitting = c /\ notice[c] = "timeout"
  /\ Settle(c, "error")
  /\ emitting' = None
  /\ UNCHANGED <<entry, timer, tidOf, notice, asked, wire, disposed>>

FinishTimeout(c) ==
  /\ emitting = c /\ notice[c] = "timeout"
  /\ CleanUp(c)
  /\ Settle(c, "error")
  /\ emitting' = None
  /\ UNCHANGED <<tidOf, notice, asked, wire, disposed>>

Outstanding == {c \in Call : \E t \in Tid : entry[t] = c}

\* A variant: the promises are not rejected.
DisposeForgetsEntries ==
  /\ emitting = None /\ ~disposed
  /\ disposed' = TRUE
  /\ timer' = [c \in Call |-> timer[c] /\ c \notin Outstanding]
  /\ entry' = [t \in Tid |-> None]
  /\ UNCHANGED <<tidOf, promise, notice, emitting, asked, wire>>

Dispose ==
  /\ emitting = None /\ ~disposed
  /\ disposed' = TRUE
  /\ timer' = [c \in Call |-> timer[c] /\ c \notin Outstanding]
  /\ promise' = [c \in Call |->
       IF c \in Outstanding /\ promise[c] = "pending" THEN "error"
                                                      ELSE promise[c]]
  /\ entry' = [t \in Tid |-> None]
  /\ UNCHANGED <<tidOf, notice, emitting, asked, wire>>

Next ==
  \/ \E c \in Call : \/ Query(c) \/ QueryThrows(c)
                     \/ EmitResponse(c) \/ FinishResponse(c)
                     \/ HandleError(c)
                     \/ EmitTimeout(c) \/ FinishTimeout(c)
  \/ \E m \in Reply : PeerReplies(m)
  \/ Dispose

Spec == Init /\ [][Next]_vars

\* Listeners return, and an armed timer fires unless it is cleared.
Fairness == \A c \in Call : /\ WF_vars(EmitTimeout(c))
                            /\ WF_vars(FinishResponse(c) \/ FinishTimeout(c))

FairSpec == Spec /\ Fairness
-----------------------------------------------------------------------------
(* Properties.                                                             *)

TypeOK ==
  /\ entry \in [Tid -> Call \cup {None}]
  /\ timer \in [Call -> BOOLEAN]
  /\ tidOf \in [Call -> Tid \cup {None}]
  /\ promise \in [Call -> {"new", "pending", "ok", "error"}]
  /\ notice \in [Call -> {"none", "response", "timeout"}]
  /\ emitting \in Call \cup {None}
  /\ asked \subseteq Tid
  /\ wire \subseteq Reply
  /\ disposed \in BOOLEAN

\* A timer only ever cleans up its own transaction: with ids drawn again and
\* again, one that outlived its entry would delete the entry of a later query
\* with the same id, whose promise would then never settle.
TimerOwnsEntry ==
  \A c \in Call : timer[c] => entry[tidOf[c]] = c

\* A pending promise can still be settled: its transaction is registered and,
\* where there is a timeout, its timer armed or just fired.
NoLostPromise ==
  \A c \in Call : promise[c] = "pending" =>
    /\ entry[tidOf[c]] = c
    /\ HasTimeout => timer[c] \/ emitting = c

\* "cleanUp" (krpc.js:225) or dispose is still to come for every outstanding
\* transaction, whatever became of its promise: its timer is armed, or its
\* listeners are running.  An entry without either would keep its id for ever.
NoLeakedEntry ==
  HasTimeout => \A t \in Tid : entry[t] # None =>
                  timer[entry[t]] \/ emitting = entry[t]

\* The routing table hears of a query at most once, and never both that the
\* node responded and that it did not.
OneNoticePerQuery ==
  [][\A c \in Call : notice[c] # "none" => notice'[c] = notice[c]]_vars

\* "There is no retry" and the timeout bounds the wait: every promise settles.
QuerySettles ==
  \A c \in Call : promise[c] = "pending" ~> promise[c] \in {"ok", "error"}

\* No transaction stays outstanding for good, not even that of a query whose
\* packet was never sent: its id becomes free again.
EntriesAreFreed ==
  \A c \in Call : (c \in Outstanding) ~> (c \notin Outstanding)

\* KRPCSocket keeps the promise QueryPromise states.
Contract == INSTANCE QueryPromise WITH
  Call <- Call, promise <- promise, notice <- notice
KeepsContract == Contract!Spec
=============================================================================
