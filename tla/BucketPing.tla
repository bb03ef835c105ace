----------------------------- MODULE BucketPing -----------------------------
(***************************************************************************)
(* The routing table of a running DHT node: RoutingTable.tla composed with *)
(* what src/index.js connects it to.  A 'ping' event of the table becomes  *)
(* DHT.ping, which joins a ping already pending for the same peer, of the  *)
(* table or of the user; the RPC layer records the answer or the timeout   *)
(* in the table, and the promise then settles and handleBucketPing_ calls  *)
(* the table's callback.                                                   *)
(*                                                                         *)
(* Each id has one address here, so that pendingPings_ is keyed by id.     *)
(* The node starts without a save file.  The table's five-second timer is  *)
(* left out: the query a ping waits for was sent when the ping began, or   *)
(* before, and KRPCSocket gives it up after two seconds.                   *)
(***************************************************************************)
EXTENDS RoutingTable

VARIABLES
  pending,  \* pendingPings_: none, sent, or answering while the table hears
            \* of the answer (the 'response' event comes before the promise)
  due       \* the result an insertion's handleBucketPing_ is to go on with

allVars == <<vars, pending, due>>

pings == <<pending, due>>

Outcome == {"ok", "error"}

DHTInit ==
  /\ Init
  /\ pending = [i \in Id |-> "none"]
  /\ due = [o \in Obj |-> "none"]

\* No promise has settled whose continuations have not run, and no event is
\* being emitted: a packet, a timer or the user may start a turn.
Quiet ==
  /\ \A o \in Obj : due[o] = "none"
  /\ \A i \in Id : pending[i] # "answering"

-----------------------------------------------------------------------------
Peer(o) == node[Head(task'[o].unknown)].id

\* The 'ping' event of o's insertion, if it emits one: query, or join.
EmitPing(o) ==
  pending' = IF task'[o].pc = "ping" /\ pending[Peer(o)] = "none"
               THEN [pending EXCEPT ![Peer(o)] = "sent"]
               ELSE pending

\* The table's turn goes on, also in the middle of a 'response' event.
TableRuns(o) == Running(o) /\ EmitPing(o) /\ UNCHANGED due

\* Queries from peers, and the outcomes of queries other than pings.
Hears(i) ==
  /\ Quiet
  /\ RecordQuery(i) \/ RecordResponse(i) \/ RecordNoResponse(i)
  /\ UNCHANGED pings

\* DHT.ping called by listen() or by the user, perhaps on from an earlier ping.
\* One that is pending already is joined, by a caller the table knows nothing
\* of.  (The socket of a disposed node is closed.)
UserPings(i) ==
  /\ Turn /\ ~disposed
  /\ pending[i] = "none"
  /\ pending' = [pending EXCEPT ![i] = "sent"]
  /\ UNCHANGED <<vars, due>>

AwaitingPing(i) == {o \in Waiting : node[Checked(o)].id = i}

\* A variant: the entry is set to undefined, and the key stays.
SettlesUndefined(i, r) ==
  /\ pending' = [pending EXCEPT ![i] = "undefined"]
  /\ due' = [o \in Obj |-> IF o \in AwaitingPing(i) THEN r ELSE due[o]]

\* The promise settles: the entry is deleted, every insertion that joined it
\* has its result due.
SettlesWith(i, r) ==
  /\ pending' = [pending EXCEPT ![i] = "none"]
  /\ due' = [o \in Obj |-> IF o \in AwaitingPing(i) THEN r ELSE due[o]]

\* A response arrives.  The table hears of it first, and it may insert a
\* node it does not know and ping others for it.
ResponseArrives(i) ==
  /\ Quiet /\ pending[i] = "sent"
  /\ RecordResponse(i)
  /\ pending' = [pending EXCEPT ![i] = "answering"]
  /\ UNCHANGED due

ResponseResolves(i) ==
  /\ Turn /\ pending[i] = "answering"
  /\ SettlesWith(i, "ok")
  /\ UNCHANGED vars

\* The query times out, which the table hears of.
PingExpires(i) ==
  /\ Turn /\ Quiet /\ pending[i] = "sent"
  /\ IF nodeMap[i] # None THEN RecordNoResponse(i) ELSE UNCHANGED vars
  /\ SettlesWith(i, "error")

\* The peer answers with an error, which the table does not hear of.
ErrorArrives(i) ==
  /\ Turn /\ Quiet /\ pending[i] = "sent"
  /\ SettlesWith(i, "error")
  /\ UNCHANGED vars

\* A variant: the callback is never called for an error.
CallbackOnSuccessOnly(o) ==
  /\ due[o] = "ok" /\ PingFailed(o)
  /\ due' = [due EXCEPT ![o] = "none"]
  /\ EmitPing(o)

\* handleBucketPing_ goes on: callback(!!res.error).
Callback(o) ==
  /\ \/ due[o] = "ok" /\ PingFailed(o)
     \/ due[o] = "error" /\ PingAnswered(o)
  /\ due' = [due EXCEPT ![o] = "none"]
  /\ EmitPing(o)

\* A variant: the RPC layer forgets its queries without rejecting them.
DisposeForgetsPings ==
  /\ Quiet
  /\ Dispose
  /\ pending' = [i \in Id |-> "none"]
  /\ UNCHANGED due

\* DHT.dispose: the RPC layer rejects its queries, then the table empties.
DisposeDHT ==
  /\ Quiet
  /\ Dispose
  /\ pending' = [i \in Id |-> "none"]
  /\ due' = [o \in Obj |-> IF o \in Waiting THEN "error" ELSE due[o]]

ConstructorReturns == EndLoad /\ UNCHANGED pings
Elapse == Quiet /\ Tick /\ UNCHANGED pings

DHTNext ==
  \/ ConstructorReturns
  \/ \E i \in Id : \/ Hears(i) \/ UserPings(i)
                   \/ ResponseArrives(i) \/ ResponseResolves(i)
                   \/ PingExpires(i) \/ ErrorArrives(i)
  \/ \E o \in Obj : TableRuns(o) \/ Callback(o)
  \/ DisposeDHT
  \/ Elapse

DHTSpec == DHTInit /\ [][DHTNext]_allVars

\* What a turn that has begun has left to do.
TurnGoesOn ==
  \/ \E o \in Obj : TableRuns(o) \/ Callback(o)
  \/ \E i \in Id : ResponseResolves(i)

\* Turns run to their end, and the timer of a query fires (KRPC.tla).
DHTFairness ==
  /\ WF_allVars(TurnGoesOn)
  /\ \A i \in Id : SF_allVars(PingExpires(i))

DHTFairSpec == DHTSpec /\ DHTFairness
-----------------------------------------------------------------------------
(* Properties.                                                             *)

DHTTypeOK ==
  /\ TypeOK
  /\ pending \in [Id -> {"none", "sent", "answering"}]
  /\ due \in [Obj -> {"none"} \cup Outcome]

\* An insertion that waits for a ping has one under way or its result due,
\* although pings are shared between insertions and with the user, callbacks
\* send further ones while others settle, and dispose() ends all: no insertion
\* waits for a ping nobody has sent, nor for one that settled before it joined.
NoLostPing ==
  \A o \in Waiting :
    \/ due[o] # "none"
    \/ pending[node[Checked(o)].id] \in {"sent", "answering"}

\* "if it doesn't respond then replace it" (routing.js:323), with a callback
\* "to whether the ping succeeded or not" (index.js:319): a contact whose
\* ping was answered is not replaced for it.
AnsweringContactKept ==
  [][\A t \in Obj : due[t] = "ok" /\ due'[t] = "none" /\ ~disposed =>
       \A o \in Obj : Placed(o) => Placed(o)']_allVars
=============================================================================
