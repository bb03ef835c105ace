--------------------------- MODULE BucketPingProofs ---------------------------
(***************************************************************************)
(* Proofs about BucketPing.tla, for every value of its constants: however  *)
(* many insertions overlap, for any ids and any bucket size.  What is      *)
(* proved of the table alone (RoutingTableProofs.tla) carries over.        *)
(***************************************************************************)
EXTENDS BucketPing, RoutingTableProofs, ContactsProofs

\* A step of the node is a step of its table, or leaves the table alone.
LEMMA TableStep == [DHTNext]_allVars => [Next]_vars
<1> SUFFICES ASSUME [DHTNext]_allVars PROVE [Next]_vars
  OBVIOUS
<1>1. CASE UNCHANGED allVars
  BY <1>1 DEF allVars
<1>2. CASE ConstructorReturns \/ DisposeDHT \/ Elapse
  BY <1>2 DEF ConstructorReturns, DisposeDHT, Elapse, Next
<1>3. ASSUME NEW i \in Id, Hears(i) \/ ResponseArrives(i) PROVE Next
  BY <1>3 DEF Hears, ResponseArrives, Next
<1>4. ASSUME NEW i \in Id, UserPings(i) \/ ResponseResolves(i) \/ ErrorArrives(i)
      PROVE  UNCHANGED vars
  BY <1>4 DEF UserPings, ResponseResolves, ErrorArrives
<1>5. ASSUME NEW i \in Id, PingExpires(i) PROVE [Next]_vars
  BY <1>5 DEF PingExpires, Next
<1>6. ASSUME NEW o \in Obj, TableRuns(o) \/ Callback(o) PROVE Next
  BY <1>6 DEF TableRuns, Callback, Next
<1> QED
  BY <1>1, <1>2, <1>3, <1>4, <1>5, <1>6 DEF DHTNext

\* The table of a running node behaves as RoutingTable says.
THEOREM TableWithin == DHTSpec => Spec
<1>1. DHTInit => Init
  BY DEF DHTInit
<1> QED
  BY <1>1, TableStep, PTL DEF DHTSpec, Spec

-----------------------------------------------------------------------------
(* The inductive invariant.                                                *)

Pending == {"none", "sent", "answering"}

PingTypes ==
  /\ pending \in [Id -> Pending]
  /\ due \in [Obj -> {"none"} \cup Outcome]

\* What is on a list of contacts to ping has been given its id.
IdsInv ==
  /\ \A o \in Obj : task[o].pc # "new" => node[o].id \in Id
  /\ \A o \in Waiting : \A j \in 1 .. Len(task[o].unknown) :
       task[task[o].unknown[j]].pc # "new"

NInv == PingTypes /\ IdsInv /\ NoLostPing

LEMMA NInit == DHTInit => NInv
BY DEF DHTInit, Init, NInv, PingTypes, Pending, IdsInv, NoLostPing, Waiting

\* A Node object in use keeps its id.
IdsKept ==
  \A q \in Obj : task[q].pc # "new" => task'[q].pc # "new" /\ node'[q].id = node[q].id

\* The contact an insertion is pinging.
LEMMA CheckedIs ==
  ASSUME IInv, IdsInv, NEW o \in Waiting
  PROVE  /\ task[o].unknown \in Seq(Obj) /\ task[o].unknown # <<>>
         /\ Checked(o) \in Obj /\ task[Checked(o)].pc # "new"
         /\ node[Checked(o)].id \in Id
<1>1. task[o].unknown \in Seq(Obj) /\ task[o].unknown # <<>>
  BY DEF Waiting, IInv, TypeOK, Task, StackInv
<1>2. Checked(o) = task[o].unknown[1] /\ Len(task[o].unknown) >= 1 /\ Checked(o) \in Obj
  BY <1>1, TailFacts DEF Checked
<1>3. 1 \in 1 .. Len(task[o].unknown)
  BY <1>1, <1>2
<1>4. task[Checked(o)].pc # "new"
  BY <1>2, <1>3 DEF IdsInv
<1> QED
  BY <1>1, <1>2, <1>4 DEF IdsInv

LEMMA IdsStep ==
  ASSUME IInv, IdsInv, IdsKept,
         \A q \in Obj : task[q].pc = "new" /\ task'[q].pc # "new" => node'[q].id \in Id,
         \A q \in Waiting' : \A j \in 1 .. Len(task'[q].unknown) :
           /\ task'[q].unknown[j] \in Obj
           /\ task[task'[q].unknown[j]].pc # "new"
  PROVE  IdsInv'
BY DEF IdsInv, IdsKept, Waiting

\* Insertions that go on waiting as they were.
LEMMA WaitersKept ==
  ASSUME IInv, NInv, IdsKept,
         \A q \in Waiting' : q \in Waiting /\ task'[q] = task[q]
  PROVE  /\ \A q \in Waiting' : \A j \in 1 .. Len(task'[q].unknown) :
              /\ task'[q].unknown[j] \in Obj
              /\ task[task'[q].unknown[j]].pc # "new"
         /\ \A q \in Waiting' : Checked(q)' = Checked(q)
                                /\ node'[Checked(q)].id = node[Checked(q)].id
<1>1. \A q \in Waiting : task[q].unknown \in Seq(Obj)
  BY CheckedIs DEF NInv
<1>2. \A q \in Waiting' : Checked(q)' = Checked(q)
  BY DEF Checked
<1>3. \A q \in Waiting' : node'[Checked(q)].id = node[Checked(q)].id
  BY CheckedIs DEF NInv, IdsKept
<1> QED
  BY <1>1, <1>2, <1>3 DEF NInv, IdsInv

\* They are not forgotten as long as a ping ends only with results for all who
\* joined it.
LEMMA KeepsPings ==
  ASSUME IInv, NInv, IdsKept,
         \A q \in Obj : task[q].pc = "new" /\ task'[q].pc # "new" => node'[q].id \in Id,
         \A q \in Waiting' : q \in Waiting /\ task'[q] = task[q],
         PingTypes',
         \A q \in Waiting : due[q] # "none" => due'[q] # "none",
         \A i \in Id : pending[i] # "none" =>
           \/ pending'[i] # "none"
           \/ \A q \in Waiting : node[Checked(q)].id = i => due'[q] # "none"
  PROVE  NInv'
<1>1. IdsInv'
  BY WaitersKept, IdsStep DEF NInv
<1>2. NoLostPing'
  <2> SUFFICES ASSUME NEW q \in Waiting', due'[q] = "none"
               PROVE  pending'[node'[Checked(q)'].id] \in {"sent", "answering"}
    BY DEF NoLostPing
  <2> DEFINE i == node[Checked(q)].id
  <2>1. q \in Waiting /\ i \in Id /\ node'[Checked(q)'].id = i
    BY WaitersKept, CheckedIs DEF NInv
  <2>2. due[q] = "none"
    BY <2>1
  <2>3. pending[i] # "none"
    BY <2>1, <2>2 DEF NInv, NoLostPing
  <2>4. pending'[i] # "none"
    BY <2>1, <2>3
  <2> HIDE DEF i
  <2> QED
    BY <2>1, <2>4 DEF PingTypes, Pending
<1> QED
  BY <1>1, <1>2 DEF NInv

-----------------------------------------------------------------------------
(* The steps.                                                              *)

LEMMA RecordFrame ==
  ASSUME IInv, NEW i \in Id,
         RecordQuery(i) \/ RecordResponse(i) \/ RecordNoResponse(i)
  PROVE  /\ IdsKept
         /\ \A q \in Obj : task[q].pc = "new" /\ task'[q].pc # "new" => node'[q].id \in Id
         /\ Waiting' = Waiting /\ \A q \in Waiting : task'[q] = task[q]
<1>1. CASE nodeMap[i] # None
  <2>1. nodeMap[i] \in Obj /\ node \in [Obj -> NodeRecord]
    BY <1>1 DEF IInv, TypeOK
  <2>2. PICK r : Touch(i, r) /\ r.id = node[nodeMap[i]].id
    <3> DEFINE n == node[nodeMap[i]]
    <3>1. n \in NodeRecord
      BY <2>1
    <3>2. CASE RecordQuery(i)
      <4>1. Touch(i, [n EXCEPT !.lastQuery = now])
        BY <1>1, <3>2 DEF RecordQuery
      <4>2. [n EXCEPT !.lastQuery = now].id = n.id
        BY <3>1 DEF NodeRecord
      <4> QED
        BY <4>1, <4>2
    <3>3. CASE RecordResponse(i)
      <4>1. Touch(i, [n EXCEPT !.lastResponse = now, !.failed = 0])
        BY <1>1, <3>3 DEF RecordResponse
      <4>2. [n EXCEPT !.lastResponse = now, !.failed = 0].id = n.id
        BY <3>1 DEF NodeRecord
      <4> QED
        BY <4>1, <4>2
    <3>4. CASE RecordNoResponse(i)
      <4>1. Touch(i, [n EXCEPT !.failed = Bumped(n.failed)])
        BY <1>1, <3>4 DEF RecordNoResponse
      <4>2. [n EXCEPT !.failed = Bumped(n.failed)].id = n.id
        BY <3>1 DEF NodeRecord
      <4> QED
        BY <4>1, <4>2
    <3> QED
      BY <3>2, <3>3, <3>4
  <2>3. task' = task /\ \A q \in Obj : node'[q].id = node[q].id
    BY <2>1, <2>2 DEF Touch
  <2> QED
    BY <2>3 DEF IdsKept, Waiting
<1>2. CASE nodeMap[i] = None
  <2>1. PICK r : Insert(r) /\ r.id = i
    <3>1. /\ [Blank EXCEPT !.id = i, !.lastQuery = now].id = i
          /\ [Blank EXCEPT !.id = i, !.lastResponse = now].id = i
      BY DEF Blank
    <3>2. \/ Insert([Blank EXCEPT !.id = i, !.lastQuery = now])
          \/ Insert([Blank EXCEPT !.id = i, !.lastResponse = now])
      BY <1>2 DEF RecordQuery, RecordResponse, RecordNoResponse
    <3> QED
      BY <3>1, <3>2
  <2>2. PICK o \in Obj : /\ task[o].pc = "new"
                         /\ node' = [node EXCEPT ![o] = r]
                         /\ task' = [task EXCEPT ![o].pc = "walk"]
    BY <2>1 DEF Insert
  <2>3. /\ node'[o] = r /\ task'[o].pc = "walk"
        /\ \A q \in Obj \ {o} : node'[q] = node[q] /\ task'[q] = task[q]
    BY <2>2 DEF IInv, TypeOK, Task
  <2> QED
    BY <2>1, <2>2, <2>3 DEF IdsKept, Waiting
<1> QED
  BY <1>1, <1>2

LEMMA HearsStep ==
  ASSUME IInv, NInv, NEW i \in Id, Hears(i)
  PROVE  NInv'
<1>1. UNCHANGED <<pending, due>>
  BY DEF Hears, pings
<1>2. PingTypes'
  BY <1>1 DEF NInv, PingTypes
<1> QED
  BY <1>1, <1>2, RecordFrame, KeepsPings DEF Hears

LEMMA UserPingsStep ==
  ASSUME IInv, NInv, NEW i \in Id, UserPings(i)
  PROVE  NInv'
<1>1. due' = due /\ pending' = [pending EXCEPT ![i] = "sent"] /\ UNCHANGED vars
  BY DEF UserPings
<1>2. PingTypes' /\ \A j \in Id : pending[j] # "none" => pending'[j] # "none"
  BY <1>1 DEF NInv, PingTypes, Pending
<1>3. IdsKept /\ Waiting' = Waiting /\ task' = task
  BY <1>1 DEF vars, IdsKept, Waiting
<1> QED
  BY <1>1, <1>2, <1>3, KeepsPings

LEMMA ResponseArrivesStep ==
  ASSUME IInv, NInv, NEW i \in Id, ResponseArrives(i)
  PROVE  NInv'
<1>1. due' = due /\ pending' = [pending EXCEPT ![i] = "answering"]
  BY DEF ResponseArrives
<1>2. PingTypes' /\ \A j \in Id : pending[j] # "none" => pending'[j] # "none"
  BY <1>1 DEF NInv, PingTypes, Pending
<1> QED
  BY <1>1, <1>2, RecordFrame, KeepsPings DEF ResponseArrives

LEMMA SettleFacts ==
  ASSUME NInv, NEW i \in Id, NEW r \in Outcome, SettlesWith(i, r)
  PROVE  /\ PingTypes'
         /\ \A q \in Waiting : due[q] # "none" => due'[q] # "none"
         /\ \A j \in Id : pending[j] # "none" =>
              \/ pending'[j] # "none"
              \/ \A q \in Waiting : node[Checked(q)].id = j => due'[q] # "none"
<1>1. /\ pending' = [pending EXCEPT ![i] = "none"]
      /\ due' = [o \in Obj |-> IF o \in AwaitingPing(i) THEN r ELSE due[o]]
      /\ r # "none"
  BY DEF SettlesWith, Outcome
<1>2. PingTypes'
  BY <1>1 DEF NInv, PingTypes, Pending
<1> QED
  BY <1>1, <1>2 DEF NInv, PingTypes, AwaitingPing, Waiting

LEMMA SettlesStep ==
  ASSUME IInv, NInv, NEW i \in Id,
         ResponseResolves(i) \/ PingExpires(i) \/ ErrorArrives(i)
  PROVE  NInv'
<1>1. PICK r \in Outcome : SettlesWith(i, r)
  BY DEF ResponseResolves, PingExpires, ErrorArrives, Outcome
<1>2. UNCHANGED vars \/ RecordNoResponse(i)
  BY DEF ResponseResolves, PingExpires, ErrorArrives
<1>3. /\ IdsKept
      /\ \A q \in Obj : task[q].pc = "new" /\ task'[q].pc # "new" => node'[q].id \in Id
      /\ Waiting' = Waiting /\ \A q \in Waiting : task'[q] = task[q]
  <2>1. CASE UNCHANGED vars
    BY <2>1 DEF vars, IdsKept, Waiting
  <2> QED
    BY <1>2, <2>1, RecordFrame
<1> QED
  BY <1>1, <1>3, SettleFacts, KeepsPings

LEMMA DisposeStepN ==
  ASSUME IInv, NInv, DisposeDHT
  PROVE  NInv'
<1>1. /\ pending' = [i \in Id |-> "none"]
      /\ due' = [o \in Obj |-> IF o \in Waiting THEN "error" ELSE due[o]]
      /\ UNCHANGED <<node, task>>
  BY DEF DisposeDHT, Dispose
<1>2. IdsKept /\ Waiting' = Waiting
  BY <1>1 DEF IdsKept, Waiting
<1>3. PingTypes'
  BY <1>1 DEF NInv, PingTypes, Pending, Outcome
<1>4. \A q \in Waiting : due'[q] # "none"
  BY <1>1 DEF Waiting
<1> QED
  BY <1>1, <1>2, <1>3, <1>4, KeepsPings

LEMMA IdleStep ==
  ASSUME IInv, NInv, ConstructorReturns \/ Elapse \/ UNCHANGED allVars
  PROVE  NInv'
<1>1. UNCHANGED <<node, task, pending, due>>
  BY DEF ConstructorReturns, EndLoad, Elapse, Tick, pings, allVars, vars
<1> QED
  BY <1>1 DEF NInv, PingTypes, IdsInv, NoLostPing, Waiting, Checked

\* A step of o's insertion, after which it may have a contact to ping.
LEMMA EmitFacts ==
  ASSUME NInv, NEW o \in Obj, EmitPing(o)
  PROVE  /\ pending' \in [Id -> Pending]
         /\ \A i \in Id : pending[i] # "none" => pending'[i] # "none"
         /\ task'[o].pc = "ping" /\ Peer(o) \in Id => pending'[Peer(o)] # "none"
<1>1. pending \in [Id -> Pending]
  BY DEF NInv, PingTypes
<1>2. CASE task'[o].pc = "ping" /\ pending[Peer(o)] = "none"
  <2>1. pending' = [pending EXCEPT ![Peer(o)] = "sent"]
    BY <1>2 DEF EmitPing
  <2> QED
    BY <1>1, <2>1 DEF Pending
<1>3. CASE ~ (task'[o].pc = "ping" /\ pending[Peer(o)] = "none")
  <2>1. pending' = pending
    BY <1>3 DEF EmitPing
  <2> QED
    BY <1>1, <1>3, <2>1
<1> QED
  BY <1>2, <1>3

LEMMA EmitKeeps ==
  ASSUME IInv, NInv, NEW o \in Obj, EmitPing(o), IdsKept, PingTypes',
         task[o].pc # "new",
         \A q \in Obj \ {o} : task'[q] = task[q] /\ due'[q] = due[q],
         task'[o].pc = "ping" =>
           /\ task'[o].unknown \in Seq(Obj) /\ task'[o].unknown # <<>>
           /\ \A j \in 1 .. Len(task'[o].unknown) : task[task'[o].unknown[j]].pc # "new"
  PROVE  NInv'
<1>1. ASSUME NEW q \in Waiting', q # o
      PROVE  /\ q \in Waiting /\ task'[q] = task[q]
             /\ task[q].unknown \in Seq(Obj)
             /\ Checked(q)' = Checked(q)
             /\ node'[Checked(q)].id = node[Checked(q)].id
             /\ node[Checked(q)].id \in Id
  <2>1. q \in Waiting /\ task'[q] = task[q]
    BY <1>1 DEF Waiting
  <2>2. Checked(q)' = Checked(q)
    BY <2>1 DEF Checked
  <2> QED
    BY <2>1, <2>2, CheckedIs DEF NInv, IdsKept
<1>2. IdsInv'
  <2>1. \A q \in Waiting' : \A j \in 1 .. Len(task'[q].unknown) :
          /\ task'[q].unknown[j] \in Obj
          /\ task[task'[q].unknown[j]].pc # "new"
    <3> SUFFICES ASSUME NEW q \in Waiting', NEW j \in 1 .. Len(task'[q].unknown)
                 PROVE  /\ task'[q].unknown[j] \in Obj
                        /\ task[task'[q].unknown[j]].pc # "new"
      OBVIOUS
    <3>1. CASE q = o
      BY <3>1 DEF Waiting
    <3>2. CASE q # o
      BY <3>2, <1>1 DEF NInv, IdsInv
    <3> QED
      BY <3>1, <3>2
  <2>2. \A q \in Obj : task[q].pc = "new" => task'[q].pc = "new"
    OBVIOUS
  <2> QED
    BY <2>1, <2>2, IdsStep DEF NInv
<1>3. NoLostPing'
  <2> SUFFICES ASSUME NEW q \in Waiting', due'[q] = "none"
               PROVE  pending'[node'[Checked(q)'].id] \in {"sent", "answering"}
    BY DEF NoLostPing
  <2>1. node'[Checked(q)'].id \in Id /\ pending'[node'[Checked(q)'].id] # "none"
    <3>1. CASE q = o
      <4>1. /\ Checked(o)' = Head(task'[o].unknown)
            /\ Head(task'[o].unknown) = task'[o].unknown[1]
            /\ 1 \in 1 .. Len(task'[o].unknown)
            /\ Head(task'[o].unknown) \in Obj
            /\ task'[o].pc = "ping"
        BY <3>1, TailFacts DEF Waiting, Checked
      <4>2. /\ task[Head(task'[o].unknown)].pc # "new"
            /\ node[Head(task'[o].unknown)].id \in Id
            /\ node'[Head(task'[o].unknown)].id = node[Head(task'[o].unknown)].id
        BY <4>1 DEF NInv, IdsInv, IdsKept
      <4>3. Peer(o) = node'[Checked(q)'].id /\ Peer(o) \in Id
        BY <3>1, <4>1, <4>2 DEF Peer
      <4> QED
        BY <4>1, <4>3, EmitFacts
    <3>2. CASE q # o
      <4>1. due[q] = "none" /\ q \in Waiting /\ node'[Checked(q)'].id = node[Checked(q)].id
        BY <3>2, <1>1 DEF Waiting
      <4>2. pending[node[Checked(q)].id] # "none" /\ node[Checked(q)].id \in Id
        BY <3>2, <4>1, <1>1 DEF NInv, NoLostPing
      <4> QED
        BY <4>1, <4>2, EmitFacts
    <3> QED
      BY <3>1, <3>2
  <2> QED
    BY <2>1 DEF PingTypes, Pending
<1> QED
  BY <1>2, <1>3 DEF NInv

\* The synchronous steps change o's task alone, and list contacts to ping only
\* from the bucket that o's insertion has reached.
LEMMA RunningFrame ==
  ASSUME IInv, NEW o \in Obj, Running(o)
  PROVE  /\ node' = node /\ OnStack(o)
         /\ \A q \in Obj \ {o} : task'[q] = task[q]
         /\ task'[o].pc # "new"
         /\ task'[o].pc = "ping" =>
              /\ task'[o].unknown \in Seq(Obj) /\ task'[o].unknown # <<>>
              /\ \A j \in 1 .. Len(task'[o].unknown) : task[task'[o].unknown[j]].pc # "new"
<1>1. TypeOK /\ task \in [Obj -> Task]
  BY DEF IInv, TypeOK
<1>2. CASE AddContact(o) \/ Discard(o) \/ ReplaceBad(o)
  <2>1. node' = node /\ OnStack(o) /\ Return(o)
    BY <1>2 DEF AddContact, Discard, ReplaceBad, Replace, AtFullLeaf, OnStack
  <2> QED
    BY <1>1, <2>1, ReturnFacts
<1>3. CASE Walk(o) \/ BeginSplit(o) \/ MoveContact(o) \/ EndSplit(o)
  <2>1. node' = node /\ OnStack(o)
    BY <1>3 DEF Walk, BeginSplit, MoveContact, EndSplit, OnStack
  <2>2. \A q \in Obj \ {o} : task'[q] = task[q]
    BY <1>1, <1>3 DEF Walk, BeginSplit, MoveContact, EndSplit, Goto
  <2>3. task'[o].pc \in {"walk", "split"}
    BY <1>1, <1>3 DEF Walk, BeginSplit, MoveContact, EndSplit, Goto, Task
  <2> QED
    BY <2>1, <2>2, <2>3
<1>4. CASE StartPings(o)
  <2> DEFINE s == contacts[task[o].bucket]
             unknown == {i \in 1 .. Len(s) : ~IsGood(s[i])}
  <2>1. /\ node' = node /\ AtFullLeaf(o) /\ unknown # {}
        /\ \E n \in 1 .. Len(s) : \E u \in [1 .. n -> unknown] :
             task' = [task EXCEPT ![o].pc = "ping",
                                  ![o].unknown = [j \in 1 .. n |-> s[u[j]]]]
    BY <1>4 DEF StartPings
  <2>2. PICK n \in 1 .. Len(s) : \E u \in [1 .. n -> unknown] :
             task' = [task EXCEPT ![o].pc = "ping",
                                  ![o].unknown = [j \in 1 .. n |-> s[u[j]]]]
    BY <2>1
  <2>3. PICK u \in [1 .. n -> unknown] :
             task' = [task EXCEPT ![o].pc = "ping",
                                  ![o].unknown = [j \in 1 .. n |-> s[u[j]]]]
    BY <2>2
  <2> DEFINE w == [j \in 1 .. n |-> s[u[j]]]
  <2>4. OnStack(o)
    BY <2>1 DEF AtFullLeaf, OnStack
  <2>5. s \in Seq(Obj) /\ task[o].bucket \in Bucket
    BY <2>4, StackFacts
  <2>6. \A j \in 1 .. n : u[j] \in 1 .. Len(s)
    OBVIOUS
  <2>7. \A i \in 1 .. Len(s) : s[i] \in Obj /\ task[s[i]].pc # "new"
    <3>1. \A b \in Bucket : \A j \in 1 .. Len(contacts[b]) : task[contacts[b][j]].pc # "new"
      BY DEF IInv, PlaceInv
    <3>2. \A i \in 1 .. Len(s) : s[i] \in Obj
      BY <2>5
    <3> QED
      BY <2>5, <3>1, <3>2
  <2>8. n \in Nat /\ n >= 1
    BY <2>5
  <2> HIDE DEF s, unknown
  <2>9. w \in Seq(Obj) /\ Len(w) = n /\ \A j \in 1 .. n : task[w[j]].pc # "new"
    BY <2>6, <2>7, <2>8
  <2>10. w # <<>>
    BY <2>8, <2>9
  <2> HIDE DEF w
  <2>11. /\ task'[o].pc = "ping" /\ task'[o].unknown = w
         /\ \A q \in Obj : q # o => task'[q] = task[q]
    BY <1>1, <2>3, <2>9, PingFacts DEF w
  <2> QED
    BY <2>1, <2>4, <2>9, <2>10, <2>11
<1> QED
  BY <1>2, <1>3, <1>4 DEF Running

LEMMA RunsStep ==
  ASSUME IInv, NInv, NEW o \in Obj, TableRuns(o)
  PROVE  NInv'
<1>1. Running(o) /\ EmitPing(o) /\ due' = due
  BY DEF TableRuns
<1>2. IdsKept /\ task[o].pc # "new"
  BY <1>1, RunningFrame DEF IdsKept, OnStack
<1>3. PingTypes'
  BY <1>1, EmitFacts DEF NInv, PingTypes
<1> QED
  BY <1>1, <1>2, <1>3, RunningFrame, EmitKeeps

LEMMA CallbackFrame ==
  ASSUME IInv, IdsInv, NEW o \in Obj, PingFailed(o) \/ PingAnswered(o)
  PROVE  /\ \A q \in Obj : node'[q].id = node[q].id
         /\ o \in Waiting
         /\ \A q \in Obj \ {o} : task'[q] = task[q]
         /\ task'[o].pc # "new"
         /\ task'[o].pc = "ping" =>
              /\ task'[o].unknown \in Seq(Obj) /\ task'[o].unknown # <<>>
              /\ \A j \in 1 .. Len(task'[o].unknown) : task[task'[o].unknown[j]].pc # "new"
<1>1. TypeOK /\ task \in [Obj -> Task] /\ task[o].pc = "ping" /\ o \in Waiting
  BY DEF IInv, TypeOK, PingFailed, PingAnswered, Waiting
<1>2. Checked(o) \in Obj /\ task[o].unknown \in Seq(Obj) /\ task[o].unknown # <<>>
  BY <1>1, CheckedIs
<1>3. \A q \in Obj : node'[q].id = node[q].id
  BY <1>2 DEF PingFailed, PingAnswered, IInv, TypeOK, NodeRecord
<1> DEFINE rest == Tail(task[o].unknown)
<1>4. Return(o) \/ (rest # <<>> /\ task' = [task EXCEPT ![o].unknown = rest])
  BY DEF PingFailed, PingAnswered, GiveUp, Replace
<1>5. CASE Return(o)
  BY <1>1, <1>3, <1>5, ReturnFacts
<1>6. CASE rest # <<>> /\ task' = [task EXCEPT ![o].unknown = rest]
  <2>1. /\ rest \in Seq(Obj)
        /\ \A j \in 1 .. Len(rest) :
             /\ j + 1 \in 1 .. Len(task[o].unknown)
             /\ rest[j] = task[o].unknown[j + 1]
    BY <1>2, TailFacts
  <2>2. \A j \in 1 .. Len(rest) : task[rest[j]].pc # "new"
    BY <1>1, <2>1 DEF IdsInv
  <2> HIDE DEF rest
  <2>3. /\ task'[o].unknown = rest /\ task'[o].pc = "ping"
        /\ \A q \in Obj \ {o} : task'[q] = task[q]
    BY <1>1, <1>6 DEF Task
  <2> QED
    BY <1>1, <1>3, <1>6, <2>1, <2>2, <2>3
<1> QED
  BY <1>4, <1>5, <1>6

LEMMA CallbackStep ==
  ASSUME IInv, NInv, NEW o \in Obj, Callback(o)
  PROVE  NInv'
<1>1. /\ PingFailed(o) \/ PingAnswered(o)
      /\ due' = [due EXCEPT ![o] = "none"] /\ EmitPing(o)
  BY DEF Callback
<1>2. task[o].pc # "new"
  BY <1>1, CallbackFrame DEF NInv, Waiting
<1>3. IdsKept
  BY <1>1, CallbackFrame DEF NInv, IdsKept
<1>4. PingTypes' /\ \A q \in Obj \ {o} : due'[q] = due[q]
  BY <1>1, EmitFacts DEF NInv, PingTypes
<1> QED
  BY <1>1, <1>2, <1>3, <1>4, CallbackFrame, EmitKeeps DEF NInv

LEMMA NNext == IInv /\ NInv /\ [DHTNext]_allVars => NInv'
<1> SUFFICES ASSUME IInv, NInv, [DHTNext]_allVars PROVE NInv'
  OBVIOUS
<1>1. CASE ConstructorReturns \/ Elapse \/ UNCHANGED allVars
  BY <1>1, IdleStep
<1>2. CASE DisposeDHT
  BY <1>2, DisposeStepN
<1>3. ASSUME NEW i \in Id, Hears(i) PROVE NInv'
  BY <1>3, HearsStep
<1>4. ASSUME NEW i \in Id, ResponseArrives(i) PROVE NInv'
  BY <1>4, ResponseArrivesStep
<1>5. ASSUME NEW i \in Id, ResponseResolves(i) \/ PingExpires(i) \/ ErrorArrives(i)
      PROVE  NInv'
  BY <1>5, SettlesStep
<1>6. ASSUME NEW o \in Obj, TableRuns(o) PROVE NInv'
  BY <1>6, RunsStep
<1>7. ASSUME NEW o \in Obj, Callback(o) PROVE NInv'
  BY <1>7, CallbackStep
<1>8. ASSUME NEW i \in Id, UserPings(i) PROVE NInv'
  BY <1>8, UserPingsStep
<1> QED
  BY <1>1, <1>2, <1>3, <1>4, <1>5, <1>6, <1>7, <1>8 DEF DHTNext

LEMMA NodeInductive == DHTSpec => [](IInv /\ NInv)
<1>1. DHTSpec => []IInv
  BY TableWithin, Inductive, PTL
<1> QED
  BY <1>1, NInit, NNext, PTL DEF DHTSpec

-----------------------------------------------------------------------------
\* pendingPings_ holds nothing but pings under way, throughout.
THEOREM NodeTypeCorrect == DHTSpec => []DHTTypeOK
<1>1. IInv /\ NInv => DHTTypeOK
  BY DEF IInv, NInv, PingTypes, Pending, DHTTypeOK
<1> QED
  BY NodeInductive, <1>1, PTL

\* No insertion waits for a ping that nobody has sent, however insertions and the
\* user share pings and whenever dispose() rejects them.
THEOREM PingsNotLost == DHTSpec => []NoLostPing
<1>1. NInv => NoLostPing
  BY DEF NInv
<1> QED
  BY NodeInductive, <1>1, PTL

\* Through pings that insertions and the user share, and that packets, timeouts
\* and dispose() settle, buckets keep their size and a disposed table stays empty.
THEOREM NodeKeepsTable == DHTSpec => [](Capacity /\ DisposedStaysEmpty)
BY TableWithin, CapacityHolds, DisposeIsFinal, PTL

\* Every node handed to the table of a running node is taken once, refused or let
\* go for good, and its insertion goes forwards only.
THEOREM NodeImplementsContacts == DHTSpec => ImplementsContacts /\ InsertionAdvances
BY TableWithin, ContactsImplemented, InsertionsAdvance, PTL
=============================================================================
