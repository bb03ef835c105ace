----------------------------- MODULE KRPCProofs -----------------------------
(***************************************************************************)
(* Proofs about KRPC.tla, for any sets of calls and transaction ids, with  *)
(* and without a timeout.                                                  *)
(***************************************************************************)
EXTENDS KRPC, TLAPS

\* c's transaction is registered, under the id that c drew.
Registered(c) == tidOf[c] \in Tid /\ entry[tidOf[c]] = c

\* A registered call is the one its entry names, and has not resolved.
EntryInv ==
  \A t \in Tid : entry[t] # None =>
    tidOf[entry[t]] = t /\ promise[entry[t]] \in {"pending", "error"}

FreshInv ==
  \A c \in Call : promise[c] = "new" =>
    ~timer[c] /\ notice[c] = "none" /\ emitting # c

TimerInv == \A c \in Call : timer[c] => Registered(c)

\* While listeners run, the transaction they are told of stays.
EmitInv ==
  emitting # None =>
    /\ Registered(emitting)
    /\ notice[emitting] \in {"response", "timeout"}

\* Once its listeners have returned, a call has neither entry nor timer.
NoticeInv ==
  \A c \in Call : notice[c] # "none" /\ emitting # c =>
    ~timer[c] /\ \A t \in Tid : entry[t] # c

PendingInv == \A c \in Call : promise[c] = "pending" => Registered(c)

KInv == /\ TypeOK /\ EntryInv /\ FreshInv /\ TimerInv /\ EmitInv
        /\ NoticeInv /\ PendingInv /\ NoLeakedEntry

LEMMA InitInv == Init => KInv
BY ConstantsAssumption DEF Init, KInv, TypeOK, EntryInv, FreshInv, TimerInv,
   EmitInv, NoticeInv, PendingInv, NoLeakedEntry, Reply

LEMMA QueryStep ==
  ASSUME KInv, NEW c \in Call, Query(c)
  PROVE  KInv'
<1>1. TypeOK'
  BY ConstantsAssumption DEF KInv, TypeOK, Query, Register
<1>2. EntryInv'
  BY DEF KInv, TypeOK, EntryInv, Query, Register
<1>3. FreshInv'
  BY DEF KInv, TypeOK, FreshInv, Query, Register
<1>4. TimerInv'
  BY ConstantsAssumption DEF KInv, TypeOK, TimerInv, Registered, Query,
     Register
<1>5. EmitInv'
  BY DEF KInv, FreshInv, EmitInv, Registered, Query, Register
<1>6. NoticeInv'
  BY DEF KInv, FreshInv, NoticeInv, Query, Register
<1>7. PendingInv'
  BY ConstantsAssumption DEF KInv, TypeOK, PendingInv, Registered, Query,
     Register
<1>8. NoLeakedEntry'
  BY ConstantsAssumption DEF KInv, TypeOK, NoLeakedEntry, Query, Register
<1> QED
  BY <1>1, <1>2, <1>3, <1>4, <1>5, <1>6, <1>7, <1>8 DEF KInv

LEMMA QueryThrowsStep ==
  ASSUME KInv, NEW c \in Call, QueryThrows(c)
  PROVE  KInv'
<1>1. TypeOK'
  BY ConstantsAssumption DEF KInv, TypeOK, QueryThrows, Register
<1>2. EntryInv'
  BY DEF KInv, TypeOK, EntryInv, QueryThrows, Register
<1>3. FreshInv'
  BY DEF KInv, TypeOK, FreshInv, QueryThrows, Register
<1>4. TimerInv'
  BY ConstantsAssumption DEF KInv, TypeOK, TimerInv, Registered, QueryThrows,
     Register
<1>5. EmitInv'
  BY DEF KInv, FreshInv, EmitInv, Registered, QueryThrows, Register
<1>6. NoticeInv'
  BY DEF KInv, FreshInv, NoticeInv, QueryThrows, Register
<1>7. PendingInv'
  BY ConstantsAssumption DEF KInv, PendingInv, Registered, QueryThrows,
     Register
<1>8. NoLeakedEntry'
  BY ConstantsAssumption DEF KInv, TypeOK, NoLeakedEntry, QueryThrows, Register
<1> QED
  BY <1>1, <1>2, <1>3, <1>4, <1>5, <1>6, <1>7, <1>8 DEF KInv

LEMMA PeerRepliesStep ==
  ASSUME KInv, NEW m \in Reply, PeerReplies(m)
  PROVE  KInv'
<1>1. TypeOK'
  BY DEF KInv, TypeOK, PeerReplies
<1>2. EntryInv'
  BY DEF KInv, EntryInv, PeerReplies
<1>3. FreshInv'
  BY DEF KInv, FreshInv, PeerReplies
<1>4. TimerInv'
  BY DEF KInv, TimerInv, Registered, PeerReplies
<1>5. EmitInv'
  BY DEF KInv, EmitInv, Registered, PeerReplies
<1>6. NoticeInv'
  BY DEF KInv, NoticeInv, PeerReplies
<1>7. PendingInv'
  BY DEF KInv, PendingInv, Registered, PeerReplies
<1>8. NoLeakedEntry'
  BY ConstantsAssumption DEF KInv, TypeOK, NoLeakedEntry, PeerReplies
<1> QED
  BY <1>1, <1>2, <1>3, <1>4, <1>5, <1>6, <1>7, <1>8 DEF KInv

LEMMA EmitResponseStep ==
  ASSUME KInv, NEW c \in Call, EmitResponse(c)
  PROVE  KInv'
<1>1. TypeOK'
  BY DEF KInv, TypeOK, EmitResponse
<1>2. EntryInv'
  BY DEF KInv, EntryInv, EmitResponse
<1>3. FreshInv'
  BY DEF KInv, TypeOK, EntryInv, FreshInv, EmitResponse, Arrives, Reply
<1>4. TimerInv'
  BY DEF KInv, TimerInv, Registered, EmitResponse
<1>5. EmitInv'
  BY DEF KInv, TypeOK, EntryInv, EmitInv, Registered, EmitResponse, Arrives,
     Reply
<1>6. NoticeInv'
  BY ConstantsAssumption DEF KInv, NoticeInv, EmitResponse, Arrives
<1>7. PendingInv'
  BY ConstantsAssumption DEF KInv, PendingInv, Registered, EmitResponse,
     Arrives
<1>8. NoLeakedEntry'
  BY ConstantsAssumption DEF KInv, TypeOK, NoLeakedEntry, EmitResponse, Arrives
<1> QED
  BY <1>1, <1>2, <1>3, <1>4, <1>5, <1>6, <1>7, <1>8 DEF KInv

LEMMA FinishResponseStep ==
  ASSUME KInv, NEW c \in Call, FinishResponse(c)
  PROVE  KInv'
<1>1. TypeOK'
  BY DEF KInv, TypeOK, FinishResponse, CleanUp, Settle
<1>2. EntryInv'
  BY DEF KInv, TypeOK, EntryInv, FinishResponse, CleanUp, Settle
<1>3. FreshInv'
  BY ConstantsAssumption DEF KInv, FreshInv, FinishResponse, CleanUp, Settle
<1>4. TimerInv'
  BY ConstantsAssumption DEF KInv, TypeOK, TimerInv, EmitInv, Registered,
     FinishResponse, CleanUp
<1>5. EmitInv'
  BY DEF KInv, EmitInv, FinishResponse
<1>6. NoticeInv'
  BY DEF KInv, TypeOK, EntryInv, NoticeInv, FinishResponse, CleanUp
<1>7. PendingInv'
  BY ConstantsAssumption DEF KInv, TypeOK, EmitInv, PendingInv, Registered,
     FinishResponse, CleanUp, Settle
<1>8. NoLeakedEntry'
  BY ConstantsAssumption DEF KInv, TypeOK, NoLeakedEntry, EntryInv, FinishResponse, CleanUp
<1> QED
  BY <1>1, <1>2, <1>3, <1>4, <1>5, <1>6, <1>7, <1>8 DEF KInv

LEMMA HandleErrorStep ==
  ASSUME KInv, NEW c \in Call, HandleError(c)
  PROVE  KInv'
<1>1. TypeOK'
  BY DEF KInv, TypeOK, HandleError, CleanUp, Settle
<1>2. EntryInv'
  BY DEF KInv, EntryInv, HandleError, CleanUp, Settle
<1>3. FreshInv'
  BY DEF KInv, FreshInv, HandleError, CleanUp, Settle
<1>4. TimerInv'
  BY ConstantsAssumption DEF KInv, TypeOK, EntryInv, TimerInv, Registered,
     HandleError, Arrives, CleanUp, Reply
<1>5. EmitInv'
  BY DEF KInv, EmitInv, HandleError, Arrives
<1>6. NoticeInv'
  BY DEF KInv, NoticeInv, HandleError, Arrives, CleanUp
<1>7. PendingInv'
  BY ConstantsAssumption DEF KInv, TypeOK, EntryInv, PendingInv, Registered,
     HandleError, Arrives, CleanUp, Settle, Reply
<1>8. NoLeakedEntry'
  BY ConstantsAssumption DEF KInv, TypeOK, NoLeakedEntry, EntryInv, HandleError, CleanUp
<1> QED
  BY <1>1, <1>2, <1>3, <1>4, <1>5, <1>6, <1>7, <1>8 DEF KInv

LEMMA EmitTimeoutStep ==
  ASSUME KInv, NEW c \in Call, EmitTimeout(c)
  PROVE  KInv'
<1>1. TypeOK'
  BY DEF KInv, TypeOK, EmitTimeout
<1>2. EntryInv'
  BY DEF KInv, EntryInv, EmitTimeout
<1>3. FreshInv'
  BY DEF KInv, FreshInv, EmitTimeout
<1>4. TimerInv'
  BY DEF KInv, TimerInv, Registered, EmitTimeout
<1>5. EmitInv'
  BY DEF KInv, TypeOK, TimerInv, EmitInv, Registered, EmitTimeout
<1>6. NoticeInv'
  BY ConstantsAssumption DEF KInv, NoticeInv, EmitTimeout
<1>7. PendingInv'
  BY ConstantsAssumption DEF KInv, PendingInv, Registered, EmitTimeout
<1>8. NoLeakedEntry'
  BY ConstantsAssumption DEF KInv, TypeOK, NoLeakedEntry, EmitTimeout
<1> QED
  BY <1>1, <1>2, <1>3, <1>4, <1>5, <1>6, <1>7, <1>8 DEF KInv

LEMMA FinishTimeoutStep ==
  ASSUME KInv, NEW c \in Call, FinishTimeout(c)
  PROVE  KInv'
<1>1. TypeOK'
  BY DEF KInv, TypeOK, FinishTimeout, CleanUp, Settle
<1>2. EntryInv'
  BY DEF KInv, EntryInv, FinishTimeout, CleanUp, Settle
<1>3. FreshInv'
  BY ConstantsAssumption DEF KInv, FreshInv, FinishTimeout, CleanUp, Settle
<1>4. TimerInv'
  BY ConstantsAssumption DEF KInv, TypeOK, TimerInv, EmitInv, Registered,
     FinishTimeout, CleanUp
<1>5. EmitInv'
  BY DEF KInv, EmitInv, FinishTimeout
<1>6. NoticeInv'
  BY DEF KInv, TypeOK, EntryInv, NoticeInv, FinishTimeout, CleanUp
<1>7. PendingInv'
  BY ConstantsAssumption DEF KInv, TypeOK, EmitInv, PendingInv, Registered,
     FinishTimeout, CleanUp, Settle
<1>8. NoLeakedEntry'
  BY ConstantsAssumption DEF KInv, TypeOK, NoLeakedEntry, EntryInv, FinishTimeout, CleanUp
<1> QED
  BY <1>1, <1>2, <1>3, <1>4, <1>5, <1>6, <1>7, <1>8 DEF KInv

LEMMA DisposeStep ==
  ASSUME KInv, Dispose
  PROVE  KInv'
<1>1. TypeOK'
  BY DEF KInv, TypeOK, Dispose
<1>2. EntryInv'
  BY DEF KInv, EntryInv, Dispose
<1>3. FreshInv'
  BY DEF KInv, FreshInv, Dispose
<1>4. TimerInv'
  BY DEF KInv, TimerInv, Registered, Dispose, Outstanding
<1>5. EmitInv'
  BY DEF KInv, EmitInv, Dispose
<1>6. NoticeInv'
  BY DEF KInv, NoticeInv, Dispose
<1>7. PendingInv'
  BY DEF KInv, PendingInv, Registered, Dispose, Outstanding
<1>8. NoLeakedEntry'
  BY ConstantsAssumption DEF KInv, TypeOK, NoLeakedEntry, Dispose
<1> QED
  BY <1>1, <1>2, <1>3, <1>4, <1>5, <1>6, <1>7, <1>8 DEF KInv

LEMMA NextInv == KInv /\ [Next]_vars => KInv'
<1> SUFFICES ASSUME KInv, [Next]_vars PROVE KInv'
  OBVIOUS
<1>1. CASE \E c \in Call : Query(c) \/ QueryThrows(c)
  BY <1>1, QueryStep, QueryThrowsStep
<1>2. CASE \E c \in Call : EmitResponse(c) \/ FinishResponse(c)
  BY <1>2, EmitResponseStep, FinishResponseStep
<1>3. CASE \E c \in Call : HandleError(c)
  BY <1>3, HandleErrorStep
<1>4. CASE \E c \in Call : EmitTimeout(c) \/ FinishTimeout(c)
  BY <1>4, EmitTimeoutStep, FinishTimeoutStep
<1>5. CASE \E m \in Reply : PeerReplies(m)
  BY <1>5, PeerRepliesStep
<1>6. CASE Dispose
  BY <1>6, DisposeStep
<1>7. CASE UNCHANGED vars
  BY <1>7 DEF vars, KInv, TypeOK, EntryInv, FreshInv, TimerInv, EmitInv,
     NoticeInv, PendingInv, NoLeakedEntry, Registered
<1> QED
  BY <1>1, <1>2, <1>3, <1>4, <1>5, <1>6, <1>7 DEF Next

LEMMA Inductive == Spec => []KInv
  BY InitInv, NextInv, PTL DEF Spec

-----------------------------------------------------------------------------
(* The theorems.                                                           *)

\* Every variable keeps the type the code gives it: in particular no event but
\* 'response' and 'timeout' is emitted for a query.
THEOREM TypeCorrect == Spec => []TypeOK
<1>1. KInv => TypeOK
  BY DEF KInv
<1> QED
  BY <1>1, Inductive, PTL

\* The timer of transact_ only ever deletes the entry of its own query,
\* however often transaction ids are drawn again.
THEOREM TimersOwnEntries == Spec => []TimerOwnsEntry
<1>1. KInv => TimerOwnsEntry
  BY DEF KInv, TimerInv, Registered, TimerOwnsEntry
<1> QED
  BY <1>1, Inductive, PTL

\* No pending promise of query() loses the entry and the timer that settle it.
THEOREM NoPromiseLost == Spec => []NoLostPromise
<1>1. KInv => NoLostPromise
  BY ConstantsAssumption
     DEF KInv, TypeOK, PendingInv, NoLeakedEntry, Registered, NoLostPromise
<1> QED
  BY <1>1, Inductive, PTL

\* Nothing is forgotten in outstandingTransactions_: what is to delete an entry
\* is armed or under way, also for a query whose packet was never sent.
THEOREM NoEntryLeaks == Spec => []NoLeakedEntry
<1>1. KInv => NoLeakedEntry
  BY DEF KInv
<1> QED
  BY <1>1, Inductive, PTL

\* The listeners of 'response' and 'timeout' hear of a query at most once.
THEOREM OneNotice == Spec => OneNoticePerQuery
<1> DEFINE Kept == \A c \in Call : notice[c] # "none" => notice'[c] = notice[c]
<1>1. KInv /\ [Next]_vars => [Kept]_vars
  <2> SUFFICES ASSUME KInv, Next PROVE Kept
    BY DEF vars
  <2> USE DEF KInv, TypeOK, NoticeInv, TimerInv, Registered
  <2>1. CASE \E c \in Call : EmitResponse(c)
    BY <2>1, ConstantsAssumption DEF EmitResponse, Arrives, Reply
  <2>2. CASE \E c \in Call : EmitTimeout(c)
    BY <2>2, ConstantsAssumption DEF EmitTimeout
  <2>3. CASE UNCHANGED notice
    BY <2>3
  <2> QED
    BY <2>1, <2>2, <2>3 DEF Next, Query, QueryThrows, PeerReplies,
       FinishResponse, HandleError, FinishTimeout, Dispose
<1> QED
  BY <1>1, Inductive, PTL DEF Spec, OneNoticePerQuery

-----------------------------------------------------------------------------
(* KRPC implements QueryPromise.                                           *)

LEMMA BeginStep ==
  ASSUME NEW c \in Call, Query(c) \/ QueryThrows(c)
  PROVE  Contract!Begin(c)
BY DEF Query, QueryThrows, Register, Contract!Begin

LEMMA NotifyStep ==
  ASSUME KInv, NEW c \in Call, EmitResponse(c) \/ EmitTimeout(c)
  PROVE  Contract!Notify(c)
<1>1. Registered(c) /\ emitting = None
  <2>1. CASE EmitResponse(c)
    BY <2>1, ConstantsAssumption
       DEF EmitResponse, Arrives, Reply, KInv, TypeOK, EntryInv, Registered
  <2>2. CASE EmitTimeout(c)
    BY <2>2 DEF EmitTimeout, KInv, TimerInv
  <2> QED
    BY <2>1, <2>2
<1>2. promise[c] \in {"pending", "error"} /\ notice[c] = "none"
  BY <1>1, ConstantsAssumption
     DEF KInv, TypeOK, EntryInv, NoticeInv, Registered
<1> QED
  BY <1>2 DEF EmitResponse, EmitTimeout, Contract!Notify

LEMMA ResolveStep ==
  ASSUME KInv, NEW c \in Call, FinishResponse(c)
  PROVE  Contract!Resolve(c) \/ UNCHANGED Contract!vars
BY DEF FinishResponse, Settle, KInv, TypeOK, Contract!Resolve, Contract!vars

\* A rejection of c alone, or of a call that has already rejected.
LEMMA RejectStep ==
  ASSUME KInv, NEW c \in Call, Settle(c, "error"), notice' = notice,
         notice[c] # "response"
  PROVE  (\E s \in SUBSET Call : Contract!Reject(s))
         \/ UNCHANGED Contract!vars
<1>1. CASE promise[c] = "pending"
  <2>1. Contract!Reject({c})
    BY <1>1 DEF Settle, KInv, TypeOK, Contract!Reject
  <2> QED
    BY <2>1
<1>2. CASE promise[c] # "pending"
  BY <1>2 DEF Settle, KInv, TypeOK, Contract!vars
<1> QED
  BY <1>1, <1>2

LEMMA HandleErrorRejects ==
  ASSUME KInv, NEW c \in Call, HandleError(c)
  PROVE  Settle(c, "error") /\ notice' = notice /\ notice[c] # "response"
BY ConstantsAssumption
   DEF HandleError, Arrives, Reply, KInv, TypeOK, NoticeInv

LEMMA DisposeRejects ==
  ASSUME KInv, Dispose
  PROVE  \E s \in SUBSET Call : Contract!Reject(s)
<1> DEFINE s == {c \in Outstanding : promise[c] = "pending"}
<1>1. s \in SUBSET Call
  BY DEF Outstanding
<1>2. \A c \in s : promise[c] = "pending" /\ notice[c] # "response"
  BY ConstantsAssumption
     DEF Dispose, Outstanding, KInv, TypeOK, NoticeInv
<1>3. promise' = [c \in Call |-> IF c \in s THEN "error" ELSE promise[c]]
       /\ UNCHANGED notice
  BY DEF Dispose
<1>4. Contract!Reject(s)
  BY <1>2, <1>3 DEF Contract!Reject
<1> QED
  BY <1>1, <1>4

\* KRPCSocket.query keeps the promise QueryPromise states: a query settles once,
\* it resolves only after the 'response' event, and it rejects without one.
THEOREM ContractKept == Spec => KeepsContract
<1>1. Init => Contract!Init
  BY DEF Init, Contract!Init
<1>2. KInv /\ [Next]_vars => [Contract!Next]_(Contract!vars)
  <2> SUFFICES ASSUME KInv, [Next]_vars
               PROVE  Contract!Next \/ UNCHANGED Contract!vars
    OBVIOUS
  <2>1. CASE \E c \in Call : Query(c) \/ QueryThrows(c)
    BY <2>1, BeginStep DEF Contract!Next
  <2>2. CASE \E c \in Call : EmitResponse(c) \/ EmitTimeout(c)
    BY <2>2, NotifyStep DEF Contract!Next
  <2>3. CASE \E c \in Call : FinishResponse(c)
    BY <2>3, ResolveStep DEF Contract!Next
  <2>4. CASE \E c \in Call : HandleError(c)
    BY <2>4, HandleErrorRejects, RejectStep DEF Contract!Next
  <2>5. CASE \E c \in Call : FinishTimeout(c)
    <3> PICK c \in Call : FinishTimeout(c)
      BY <2>5
    <3>1. Settle(c, "error") /\ notice' = notice /\ notice[c] # "response"
      BY DEF FinishTimeout
    <3> QED
      BY <3>1, RejectStep DEF Contract!Next
  <2>6. CASE \E m \in Reply : PeerReplies(m)
    BY <2>6 DEF PeerReplies, Contract!vars
  <2>7. CASE Dispose
    BY <2>7, DisposeRejects DEF Contract!Next
  <2>8. CASE UNCHANGED vars
    BY <2>8 DEF vars, Contract!vars
  <2> QED
    BY <2>1, <2>2, <2>3, <2>4, <2>5, <2>6, <2>7, <2>8 DEF Next
<1> QED
  BY <1>1, <1>2, Inductive, PTL DEF Spec, KeepsContract, Contract!Spec
=============================================================================
