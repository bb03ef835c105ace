---------------------------- MODULE ContactsProofs ----------------------------
(***************************************************************************)
(* RoutingTable implements Contacts, for any number of insertions that     *)
(* overlap and every value of the other constants.                         *)
(***************************************************************************)
EXTENDS TableMapProofs

-----------------------------------------------------------------------------
(* The inductive invariant.  It does not mention _nodeMap, which overlapping *)
(* insertions do put out of step with the buckets.                         *)

CInv ==
  /\ Once(contacts)
  /\ OffTreeInv
  /\ \A o \in Obj : Holds(contacts, o) => task[o].pc = "done"

InBuckets(o) == Holds(contacts, o)

\* Where a node is, in terms of what the lemmas on arrays say.
Settled(o) == task[o].pc = "done"

LEMMA PlaceIs ==
  \A o \in Obj : Place(o) = IF InBuckets(o) THEN "in"
                            ELSE IF Settled(o) THEN "gone" ELSE "new"
BY DEF Place, Placed, InBuckets, Holds, Settled

LEMMA InitCInv == Init => CInv /\ Members!Init
<1> SUFFICES ASSUME Init PROVE CInv /\ Members!Init
  OBVIOUS
<1>1. \A b \in Bucket : contacts[b] = <<>> /\ Len(contacts[b]) = 0
  BY DEF Init
<1>2. \A o \in Obj : ~Holds(contacts, o) /\ task[o].pc = "new"
  BY <1>1 DEF Holds, Init
<1>3. CInv
  BY <1>1, <1>2 DEF CInv, Once, OffTreeInv
<1>4. \A o \in Obj : Place(o) = "new"
  BY <1>2, PlaceIs DEF InBuckets, Settled
<1> QED
  BY <1>3, <1>4 DEF Init, Members!Init

-----------------------------------------------------------------------------
(* What a step of the table is to Contacts, by what it does to each node.  *)

LEMMA PlaceNext ==
  \A o \in Obj : Place(o)' = IF InBuckets(o)' THEN "in"
                             ELSE IF Settled(o)' THEN "gone" ELSE "new"
BY DEF Place, Placed, InBuckets, Holds, Settled

\* Nothing, if every node stays where it was.
LEMMA StutterMaps ==
  ASSUME \A o \in Obj : (InBuckets(o)' <=> InBuckets(o)) /\ (Settled(o)' <=> Settled(o)),
         disposed' = disposed
  PROVE  UNCHANGED Members!vars
<1>1. \A o \in Obj : Place(o)' = Place(o)
  BY PlaceIs, PlaceNext
<1> QED
  BY <1>1 DEF Members!vars

\* The decision on o, which has not been made yet.
Decides(o) ==
  /\ ~InBuckets(o) /\ ~Settled(o) /\ Settled(o)'
  /\ \A q \in Obj : q # o => (Settled(q)' <=> Settled(q))
  /\ disposed' = disposed

LEMMA RefuseMaps ==
  ASSUME NEW o \in Obj, Decides(o),
         \A q \in Obj : InBuckets(q)' <=> InBuckets(q)
  PROVE  Members!Next
<1>1. Place(o) = "new" /\ Place(o)' = "gone"
  BY PlaceIs, PlaceNext DEF Decides
<1>2. \A q \in Obj : q # o => Place(q)' = Place(q)
  BY PlaceIs, PlaceNext DEF Decides
<1>3. Members!Refuse(o)
  BY <1>1, <1>2 DEF Decides, Members!Refuse
<1> QED
  BY <1>3 DEF Members!Next

LEMMA TakeMaps ==
  ASSUME ~disposed, NEW o \in Obj, Decides(o),
         \A q \in Obj : InBuckets(q)' <=> InBuckets(q) \/ q = o
  PROVE  Members!Next
<1>1. Place(o) = "new" /\ Place(o)' = "in"
  BY PlaceIs, PlaceNext DEF Decides
<1>2. \A q \in Obj : q # o => Place(q)' = Place(q)
  BY PlaceIs, PlaceNext DEF Decides
<1>3. Members!Take(o)
  BY <1>1, <1>2 DEF Decides, Members!Take
<1> QED
  BY <1>3 DEF Members!Next

\* p, which was decided on before, makes room for o.
LEMMA ExchangeMaps ==
  ASSUME ~disposed, NEW o \in Obj, NEW p \in Obj, Decides(o),
         InBuckets(p), Settled(p),
         \A q \in Obj : InBuckets(q)' <=> (InBuckets(q) /\ q # p) \/ q = o
  PROVE  Members!Next
<1>1. Place(o) = "new" /\ Place(o)' = "in" /\ o # p
  BY PlaceIs, PlaceNext DEF Decides
<1>2. Place(p) = "in" /\ Place(p)' = "gone"
  BY <1>1, PlaceIs, PlaceNext DEF Decides
<1>3. \A q \in Obj : q # o /\ q # p => Place(q)' = Place(q)
  BY PlaceIs, PlaceNext DEF Decides
<1>4. Members!Exchange(p, o)
  BY <1>1, <1>2, <1>3 DEF Decides, Members!Exchange
<1> QED
  BY <1>4 DEF Members!Next

\* Every contact leaves, and each was decided on before.
LEMMA CloseMaps ==
  ASSUME ~disposed, disposed' = TRUE,
         \A o \in Obj : /\ ~InBuckets(o)' /\ (Settled(o)' <=> Settled(o))
                        /\ InBuckets(o) => Settled(o)
  PROVE  Members!Next
<1>1. \A o \in Obj : Place(o)' = IF Place(o) = "in" THEN "gone" ELSE Place(o)
  BY PlaceIs, PlaceNext
<1>2. Members!Close
  BY <1>1 DEF Members!Close
<1> QED
  BY <1>2 DEF Members!Next

-----------------------------------------------------------------------------
(* The steps of the table.                                                 *)

Maps == CInv' /\ [Members!Next]_(Members!vars)

\* Steps that change no array and no decision.
LEMMA StutterStep ==
  ASSUME CInv, UNCHANGED <<contacts, disposed>>, Tree \subseteq Tree',
         \A o \in Obj : Settled(o)' <=> Settled(o)
  PROVE  Maps
<1>1. \A o \in Obj : InBuckets(o)' <=> InBuckets(o)
  BY DEF InBuckets
<1>2. CInv'
  BY DEF CInv, OffTreeInv, Settled
<1> QED
  BY <1>1, <1>2, StutterMaps DEF Maps

\* o is turned away.
LEMMA RefuseStep ==
  ASSUME IInv, CInv, UNCHANGED <<contacts, disposed>>, Tree \subseteq Tree',
         NEW o \in Obj, Active(o), Return(o)
  PROVE  Maps
<1>1. task'[o].pc = "done" /\ \A q \in Obj : q # o => task'[q] = task[q]
  BY ReturnFacts DEF IInv
<1>2. Decides(o)
  BY <1>1 DEF Decides, CInv, InBuckets, Settled, Active
<1>3. \A q \in Obj : InBuckets(q)' <=> InBuckets(q)
  BY DEF InBuckets
<1>4. CInv'
  BY <1>1 DEF CInv, OffTreeInv
<1> QED
  BY <1>2, <1>3, <1>4, RefuseMaps DEF Maps

LEMMA AddContactMaps ==
  ASSUME IInv, CInv, NEW o \in Obj, AddContact(o)
  PROVE  Maps
<1> DEFINE b == task[o].bucket
<1>1. /\ task[o].pc = "walk" /\ OnStack(o)
      /\ contacts' = [contacts EXCEPT ![b] = Append(contacts[b], o)]
      /\ UNCHANGED <<split, disposed>> /\ Return(o)
  BY DEF AddContact, OnStack
<1>2. b \in Tree /\ b \in Bucket /\ contacts \in Arrays /\ ~disposed
  BY <1>1, StackFacts DEF Arrays, IInv, TypeOK
<1>3. task'[o].pc = "done" /\ \A q \in Obj : q # o => task'[q] = task[q]
  BY <1>1, ReturnFacts DEF IInv
<1> HIDE DEF b
<1>4. Once(contacts) /\ ~Holds(contacts, o)
  BY <1>1 DEF CInv
<1>5. Updated(contacts', contacts, b, Append(contacts[b], o))
  BY <1>1, <1>2, AppendFacts DEF Arrays, Updated
<1>6. Once(contacts') /\ HoldsAlso(contacts', contacts, o)
  BY <1>2, <1>4, <1>5, PushOnce
<1>7. \A q \in Obj : InBuckets(q)' <=> InBuckets(q) \/ q = o
  BY <1>6 DEF InBuckets, HoldsAlso
<1>8. Decides(o)
  BY <1>1, <1>3, <1>4 DEF Decides, InBuckets, Settled
<1>9. OffTreeInv'
  BY <1>1, <1>2, <1>5 DEF CInv, OffTreeInv, Updated, Tree
<1>10. CInv'
  BY <1>3, <1>6, <1>9 DEF CInv, HoldsAlso
<1> QED
  BY <1>2, <1>7, <1>8, <1>10, TakeMaps DEF Maps

\* Whichever contact the splice removes, it is exchanged for o: also when p is
\* gone already and the splice takes another.
LEMMA ReplaceMaps ==
  ASSUME IInv, CInv, ~disposed, NEW o \in Obj, NEW p, Active(o), Replace(o, p),
         task[o].bucket \in Tree, UNCHANGED <<split, disposed>>
  PROVE  Maps
<1> DEFINE b == task[o].bucket
<1>1. PICK i \in 1 .. Len(contacts[b]) :
        contacts' = [contacts EXCEPT ![b] = Append(RemoveAt(contacts[b], i), o)]
  BY DEF Replace
<1>2. b \in Bucket /\ b \in Tree /\ contacts \in Arrays
  BY DEF IInv, TypeOK, TreeInv, Arrays
<1>3. task'[o].pc = "done" /\ \A q \in Obj : q # o => task'[q] = task[q]
  BY ReturnFacts DEF IInv, Replace
<1>4. Once(contacts) /\ ~Holds(contacts, o) /\ ~Settled(o)
  BY DEF CInv, Active, Settled
<1>5. Replaced(contacts', contacts, b, i, o)
  BY <1>1 DEF Replaced
<1>6. PICK x \in Obj : x = contacts[b][i]
  BY <1>2 DEF Arrays
<1>7. Holds(contacts, x) /\ Settled(x)
  BY <1>2, <1>6 DEF Holds, CInv, Settled
<1> HIDE DEF b
<1>8. /\ Once(contacts') /\ HoldsInstead(contacts', contacts, x, o)
      /\ \A e \in Bucket : e # b => contacts'[e] = contacts[e]
  BY <1>2, <1>4, <1>5, <1>6, ReplaceArray
<1>9. \A q \in Obj : InBuckets(q)' <=> (InBuckets(q) /\ q # x) \/ q = o
  BY <1>8 DEF InBuckets, HoldsInstead
<1>10. Decides(o) /\ InBuckets(x)
  BY <1>3, <1>4, <1>7 DEF Decides, InBuckets, Settled
<1>11. OffTreeInv'
  BY <1>2, <1>8 DEF CInv, OffTreeInv, Tree
<1>12. CInv'
  BY <1>3, <1>8, <1>11 DEF CInv, HoldsInstead
<1> QED
  BY <1>7, <1>9, <1>10, <1>12, ExchangeMaps DEF Maps

LEMMA MoveContactMaps ==
  ASSUME IInv, CInv, NEW o \in Obj, MoveContact(o)
  PROVE  Maps
<1>1. UNCHANGED <<split, task, disposed>>
  BY DEF MoveContact
<1>2. /\ Once(contacts') /\ OffTreeInv'
      /\ \A q \in Obj : Holds(contacts', q) <=> Holds(contacts, q)
  BY MoveArray DEF CInv
<1>3. CInv'
  BY <1>1, <1>2 DEF CInv
<1>4. \A q \in Obj : (InBuckets(q)' <=> InBuckets(q)) /\ (Settled(q)' <=> Settled(q))
  BY <1>1, <1>2 DEF InBuckets, Settled
<1> QED
  BY <1>1, <1>3, <1>4, StutterMaps DEF Maps

\* The arrays a split resets are those of children that were not in use.
LEMMA BeginSplitMaps ==
  ASSUME IInv, CInv, NEW o \in Obj, BeginSplit(o)
  PROVE  Maps
<1> DEFINE b == task[o].bucket
<1>1. /\ OnStack(o) /\ b \notin split /\ Splittable(b)
      /\ split' = split \cup {b}
      /\ contacts' = [contacts EXCEPT ![Left(b)] = <<>>, ![Right(b)] = <<>>]
      /\ task' = [task EXCEPT ![o].pc = "split"] /\ task[o].pc = "walk"
      /\ UNCHANGED disposed
  BY DEF BeginSplit, CanSplit, OnStack
<1>2. b \in Tree /\ b \in Bucket /\ b.min < b.max
  BY <1>1, StackFacts
<1>3. /\ Tree' = Tree \cup {Left(b), Right(b)}
      /\ Left(b) \notin Tree /\ Right(b) \notin Tree
      /\ Left(b) \in Bucket /\ Right(b) \in Bucket
  BY <1>1, <1>2, SplitTree, ChildFacts DEF IInv
<1>4. contacts[Left(b)] = <<>> /\ contacts[Right(b)] = <<>>
  BY <1>3 DEF CInv, OffTreeInv
<1> HIDE DEF b
<1>5. contacts' = contacts
  BY <1>1, <1>3, <1>4 DEF IInv, TypeOK
<1>6. \A q \in Obj : Settled(q)' <=> Settled(q)
  BY <1>1 DEF IInv, TypeOK, Task, Settled
<1> QED
  BY <1>1, <1>3, <1>5, <1>6, StutterStep

LEMMA WalkMaps ==
  ASSUME IInv, CInv, NEW o \in Obj, Walk(o) \/ EndSplit(o) \/ Discard(o)
  PROVE  Maps
<1>1. /\ UNCHANGED <<contacts, split, disposed>> /\ Tree' = Tree
      /\ Active(o) /\ task[o].pc # "done"
      /\ (\E b : Goto(o, b)) \/ Return(o)
  BY DEF Walk, EndSplit, Discard, AtFullLeaf, Active, tree, Tree
<1>2. CASE Return(o)
  BY <1>1, <1>2, RefuseStep
<1>3. CASE \E b : Goto(o, b)
  <2>1. PICK b : Goto(o, b)
    BY <1>3
  <2>2. task'[o].pc = "walk" /\ \A q \in Obj : q # o => task'[q] = task[q]
    BY <2>1 DEF IInv, TypeOK, Goto, Task
  <2>3. \A q \in Obj : Settled(q)' <=> Settled(q)
    BY <1>1, <2>2 DEF Settled
  <2> QED
    BY <1>1, <2>3, StutterStep
<1> QED
  BY <1>1, <1>2, <1>3

LEMMA StartPingsMaps ==
  ASSUME IInv, CInv, NEW o \in Obj, StartPings(o)
  PROVE  Maps
<1>1. /\ UNCHANGED <<contacts, split, disposed>> /\ Tree' = Tree
      /\ task[o].pc = "walk"
      /\ \E q : task' = [task EXCEPT ![o].pc = "ping", ![o].unknown = q]
  BY DEF StartPings, AtFullLeaf, tree, Tree
<1>2. \A q \in Obj : Settled(q)' <=> Settled(q)
  BY <1>1 DEF IInv, TypeOK, Task, Settled
<1> QED
  BY <1>1, <1>2, StutterStep

LEMMA ReplaceBadMaps ==
  ASSUME IInv, CInv, NEW o \in Obj, ReplaceBad(o)
  PROVE  Maps
<1>1. OnStack(o) /\ Active(o) /\ UNCHANGED <<split, disposed>>
  BY DEF ReplaceBad, AtFullLeaf, OnStack, Active
<1>2. \E p : Replace(o, p)
  BY DEF ReplaceBad
<1> QED
  BY <1>1, <1>2, StackFacts, ReplaceMaps

LEMMA PingFailedMaps ==
  ASSUME IInv, CInv, NEW o \in Obj, PingFailed(o) \/ PingTimedOut(o)
  PROVE  Maps
<1>1. /\ task[o].pc = "ping" /\ GiveUp(o) /\ Active(o) /\ o \in Waiting
      /\ UNCHANGED <<split, disposed>> /\ Tree' = Tree
  BY DEF PingFailed, PingTimedOut, GiveUp, Active, Waiting, Tree
<1>2. CASE disposed
  BY <1>1, <1>2, RefuseStep DEF GiveUp
<1>3. CASE ~disposed
  <2>1. Replace(o, Checked(o)) /\ task[o].bucket \in Tree
    BY <1>1, <1>3 DEF GiveUp, IInv, WaitInv
  <2> QED
    BY <1>1, <1>3, <2>1, ReplaceMaps
<1> QED
  BY <1>2, <1>3

LEMMA PingAnsweredMaps ==
  ASSUME IInv, CInv, NEW o \in Obj, PingAnswered(o)
  PROVE  Maps
<1>1. /\ task[o].pc = "ping" /\ Active(o)
      /\ UNCHANGED <<contacts, split, disposed>> /\ Tree' = Tree
  BY DEF PingAnswered, Active, Tree
<1>2. CASE Return(o)
  BY <1>1, <1>2, RefuseStep
<1>3. CASE ~Return(o)
  <2>1. task' = [task EXCEPT ![o].unknown = Tail(task[o].unknown)]
    BY <1>3 DEF PingAnswered
  <2>2. \A q \in Obj : Settled(q)' <=> Settled(q)
    BY <2>1 DEF IInv, TypeOK, Task, Settled
  <2> QED
    BY <1>1, <2>2, StutterStep
<1> QED
  BY <1>2, <1>3

LEMMA DisposeMaps ==
  ASSUME CInv, Dispose
  PROVE  Maps
<1>1. /\ ~disposed /\ disposed' = TRUE /\ task' = task
      /\ \A b \in Bucket : contacts'[b] = <<>> /\ Len(contacts'[b]) = 0
  BY DEF Dispose
<1>2. \A o \in Obj : ~Holds(contacts', o)
  BY <1>1 DEF Holds
<1>3. CInv'
  BY <1>1, <1>2 DEF CInv, Once, OffTreeInv
<1>4. \A o \in Obj : /\ ~InBuckets(o)' /\ (Settled(o)' <=> Settled(o))
                     /\ InBuckets(o) => Settled(o)
  BY <1>1, <1>2 DEF CInv, InBuckets, Settled
<1> QED
  BY <1>1, <1>3, <1>4, CloseMaps DEF Maps

\* The turns that tell the table of a packet or a saved node decide nothing.
LEMMA HearsMaps ==
  ASSUME IInv, CInv, NEW i \in Id, NEW r, Insert(r) \/ Touch(i, r),
         UNCHANGED disposed
  PROVE  Maps
<1>1. UNCHANGED <<contacts, split, disposed>> /\ Tree' = Tree
  BY DEF Insert, Touch, tree, Tree
<1>2. \A q \in Obj : Settled(q)' <=> Settled(q)
  <2>1. CASE Touch(i, r)
    BY <2>1 DEF Touch, Settled
  <2>2. CASE Insert(r)
    <3>1. PICK o \in Obj : /\ task[o].pc = "new"
                           /\ task' = [task EXCEPT ![o].pc = "walk"]
      BY <2>2 DEF Insert
    <3> QED
      BY <3>1 DEF IInv, TypeOK, Task, Settled
  <2> QED
    BY <2>1, <2>2
<1> QED
  BY <1>1, <1>2, StutterStep

LEMMA NextMaps ==
  IInv /\ CInv /\ [Next]_vars => Maps
<1> SUFFICES ASSUME IInv, CInv, [Next]_vars PROVE Maps
  OBVIOUS
<1>1. CASE \E i \in Id : RecordQuery(i) \/ RecordResponse(i) \/ RecordNoResponse(i)
  <2>1. PICK i \in Id : RecordQuery(i) \/ RecordResponse(i) \/ RecordNoResponse(i)
    BY <1>1
  <2>2. (\E r : Insert(r) \/ Touch(i, r)) /\ UNCHANGED disposed
    BY <2>1 DEF RecordQuery, RecordResponse, RecordNoResponse
  <2> QED
    BY <2>2, HearsMaps
<1>2. CASE \E i \in Id, response, query \in SavedTime, failed \in 0 .. MaxFailed :
             LoadEntry(i, response, query, failed)
  <2>1. PICK i \in Id, response \in SavedTime, query \in SavedTime,
             failed \in 0 .. MaxFailed : LoadEntry(i, response, query, failed)
    BY <1>2
  <2>2. (\E r : Insert(r) \/ Touch(i, r)) /\ UNCHANGED disposed
    BY <2>1 DEF LoadEntry
  <2> QED
    BY <2>2, HearsMaps
<1>3. CASE EndLoad \/ Tick \/ UNCHANGED vars
  <2>1. UNCHANGED <<contacts, split, task, disposed>>
    BY <1>3 DEF EndLoad, Tick, vars, tree
  <2> QED
    BY <2>1, StutterStep DEF Tree, Settled
<1>4. CASE \E o \in Obj : Running(o)
  BY <1>4, AddContactMaps, WalkMaps, BeginSplitMaps, MoveContactMaps,
     ReplaceBadMaps, StartPingsMaps DEF Running
<1>5. CASE \E o \in Obj : PingAnswered(o) \/ PingFailed(o) \/ PingTimedOut(o)
  BY <1>5, PingAnsweredMaps, PingFailedMaps
<1>6. CASE Dispose
  BY <1>6, DisposeMaps
<1> QED
  BY <1>1, <1>2, <1>3, <1>4, <1>5, <1>6 DEF Next

\* However many insertions overlap, and although the wrong contact may be the
\* one that is evicted: _insertNode decides once on every node, an eviction
\* exchanges one contact for one, and dispose() is final.
THEOREM ContactsImplemented == Spec => ImplementsContacts
<1>1. Init => CInv /\ Members!Init
  BY InitCInv
<1>2. IInv /\ CInv /\ [Next]_vars => CInv' /\ [Members!Next]_(Members!vars)
  BY NextMaps DEF Maps
<1>3. Spec => Members!Spec
  BY <1>1, <1>2, Inductive, PTL DEF Spec, Members!Spec
<1> QED
  BY <1>3 DEF ImplementsContacts
=============================================================================
