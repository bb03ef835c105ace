---------------------------- MODULE TableMapProofs ----------------------------
(***************************************************************************)
(* What RoutingTable owes to insertions that do not overlap, for every     *)
(* value of its other constants: _nodeMap and the bucket tree agree, and   *)
(* only unresponsive contacts are evicted.                                 *)
(***************************************************************************)
EXTENDS RoutingTableProofs, FiniteSetTheorems

-----------------------------------------------------------------------------
(* Arrays of contacts.                                                     *)

Arrays == [Bucket -> Seq(Obj)]

\* d is c with q at b.
Updated(d, c, b, q) ==
  d \in Arrays /\ d[b] = q /\ \A e \in Bucket : e # b => d[e] = c[e]

Holds(c, o) == \E b \in Bucket : \E j \in 1 .. Len(c[b]) : c[b][j] = o

HoldsAlso(d, c, p) == \A q \in Obj : Holds(d, q) <=> Holds(c, q) \/ q = p
HoldsBut(d, c, p) == \A q \in Obj : Holds(d, q) <=> Holds(c, q) /\ q # p

\* No node is in two places.
Once(c) ==
  \A b1, b2 \in Bucket : \A j1 \in 1 .. Len(c[b1]), j2 \in 1 .. Len(c[b2]) :
    c[b1][j1] = c[b2][j2] => b1 = b2 /\ j1 = j2

LEMMA PushOnce ==
  ASSUME NEW c \in Arrays, NEW b \in Bucket, NEW o \in Obj, Once(c), ~Holds(c, o),
         NEW d, Updated(d, c, b, Append(c[b], o))
  PROVE  Once(d) /\ HoldsAlso(d, c, o)
<1> DEFINE n == Len(c[b])
<1>1. c[b] \in Seq(Obj) /\ n \in Nat
  BY DEF Arrays
<1>2. /\ d[b] \in Seq(Obj) /\ Len(d[b]) = n + 1 /\ d[b][n + 1] = o
      /\ \A j \in 1 .. n : d[b][j] = c[b][j]
  BY <1>1, AppendFacts DEF Arrays, Updated
<1>3. \A e \in Bucket : e # b => d[e] = c[e] /\ Len(d[e]) = Len(c[e])
  BY DEF Updated
<1>4. ASSUME NEW e \in Bucket, NEW j \in 1 .. Len(d[e])
      PROVE  \/ e = b /\ j = n + 1 /\ d[e][j] = o
             \/ j \in 1 .. Len(c[e]) /\ d[e][j] = c[e][j] /\ d[e][j] # o
  <2>1. CASE e = b /\ j = n + 1
    BY <2>1, <1>2
  <2>2. CASE e = b /\ j # n + 1
    BY <2>2, <1>1, <1>2 DEF Holds
  <2>3. CASE e # b
    BY <2>3, <1>3 DEF Holds
  <2> QED
    BY <2>1, <2>2, <2>3
<1>5. Once(d)
  BY <1>4 DEF Once
<1>6. ASSUME NEW p \in Obj, Holds(d, p) PROVE Holds(c, p) \/ p = o
  BY <1>4, <1>6 DEF Holds
<1>7. ASSUME NEW p \in Obj, Holds(c, p) PROVE Holds(d, p)
  <2>1. PICK e \in Bucket : \E j \in 1 .. Len(c[e]) : c[e][j] = p
    BY <1>7 DEF Holds
  <2>2. PICK j \in 1 .. Len(c[e]) : c[e][j] = p
    BY <2>1
  <2>3. j \in 1 .. Len(d[e]) /\ d[e][j] = p
    BY <2>2, <1>1, <1>2, <1>3
  <2> QED
    BY <2>3 DEF Holds
<1>8. Holds(d, o)
  <2>1. n + 1 \in 1 .. Len(d[b])
    BY <1>1, <1>2
  <2> QED
    BY <2>1, <1>2 DEF Holds
<1> QED
  BY <1>5, <1>6, <1>7, <1>8 DEF HoldsAlso

\* q is s without its i-th element.
Without(s, i, q) ==
  /\ q \in Seq(Obj) /\ i \in 1 .. Len(s) /\ Len(q) = Len(s) - 1
  /\ \A j \in 1 .. Len(s) - 1 : q[j] = s[IF j < i THEN j ELSE j + 1]

LEMMA SpliceOnce ==
  ASSUME NEW c \in Arrays, NEW b \in Bucket, Once(c),
         NEW i, NEW q, Without(c[b], i, q), NEW d, Updated(d, c, b, q)
  PROVE  Once(d) /\ HoldsBut(d, c, c[b][i])
<1> DEFINE n == Len(c[b])
           at(e, j) == IF e = b /\ ~ (j < i) THEN j + 1 ELSE j
<1>1. c[b] \in Seq(Obj) /\ n \in Nat /\ i \in Nat /\ i \in 1 .. n
  BY DEF Arrays, Without
<1>2. /\ d[b] = q /\ q \in Seq(Obj) /\ Len(q) = n - 1
      /\ \A j \in 1 .. n - 1 : q[j] = c[b][IF j < i THEN j ELSE j + 1]
      /\ \A e \in Bucket : e # b => d[e] = c[e]
  BY DEF Without, Updated
<1>3. ASSUME NEW e \in Bucket, NEW j \in 1 .. Len(d[e])
      PROVE  /\ at(e, j) \in 1 .. Len(c[e]) /\ d[e][j] = c[e][at(e, j)]
             /\ e = b => at(e, j) # i
             /\ \A k \in 1 .. Len(d[e]) : at(e, j) = at(e, k) => j = k
  <2>1. CASE e = b
    BY <2>1, <1>1, <1>2
  <2>2. CASE e # b
    BY <2>2, <1>2
  <2> QED
    BY <2>1, <2>2
<1>4. \A e \in Bucket : \A k \in 1 .. Len(c[e]) :
        e # b \/ k # i => \E j \in 1 .. Len(d[e]) : at(e, j) = k
  <2> SUFFICES ASSUME NEW e \in Bucket, NEW k \in 1 .. Len(c[e]), e # b \/ k # i
               PROVE  \E j \in 1 .. Len(d[e]) : at(e, j) = k
    OBVIOUS
  <2>1. CASE e # b
    BY <2>1, <1>2
  <2>2. CASE e = b /\ k < i
    <3>1. k \in 1 .. Len(d[e]) /\ at(e, k) = k
      BY <2>2, <1>1, <1>2
    <3> HIDE DEF at
    <3> QED
      BY <3>1
  <2>3. CASE e = b /\ k > i
    <3>1. k - 1 \in 1 .. Len(d[e]) /\ at(e, k - 1) = k
      BY <2>3, <1>1, <1>2
    <3> QED
      BY <3>1
  <2>4. i \in Int /\ k \in Int
    BY <1>1
  <2> HIDE DEF at
  <2> QED
    BY <2>1, <2>2, <2>3, <2>4
<1> HIDE DEF at
<1>5. Once(d)
  <2> SUFFICES ASSUME NEW e \in Bucket, NEW f \in Bucket,
                      NEW j \in 1 .. Len(d[e]), NEW k \in 1 .. Len(d[f]),
                      d[e][j] = d[f][k]
               PROVE  e = f /\ j = k
    BY DEF Once
  <2>1. /\ at(e, j) \in 1 .. Len(c[e]) /\ d[e][j] = c[e][at(e, j)]
        /\ at(f, k) \in 1 .. Len(c[f]) /\ d[f][k] = c[f][at(f, k)]
    BY <1>3
  <2>2. e = f /\ at(e, j) = at(f, k)
    <3>1. \A j1 \in 1 .. Len(c[e]), j2 \in 1 .. Len(c[f]) :
            c[e][j1] = c[f][j2] => e = f /\ j1 = j2
      BY DEF Once
    <3> QED
      BY <2>1, <3>1
  <2> QED
    BY <2>2, <1>3
<1>6. ASSUME NEW p \in Obj, Holds(d, p) PROVE Holds(c, p) /\ p # c[b][i]
  <2>1. PICK e \in Bucket : \E j \in 1 .. Len(d[e]) : d[e][j] = p
    BY <1>6 DEF Holds
  <2>2. PICK j \in 1 .. Len(d[e]) : d[e][j] = p
    BY <2>1
  <2>3. at(e, j) \in 1 .. Len(c[e]) /\ c[e][at(e, j)] = p /\ (e = b => at(e, j) # i)
    BY <2>2, <1>3
  <2> QED
    BY <2>3, <1>1 DEF Holds, Once
<1>7. ASSUME NEW p \in Obj, Holds(c, p), p # c[b][i] PROVE Holds(d, p)
  <2>1. PICK e \in Bucket : \E k \in 1 .. Len(c[e]) : c[e][k] = p
    BY <1>7 DEF Holds
  <2>2. PICK k \in 1 .. Len(c[e]) : c[e][k] = p
    BY <2>1
  <2>3. e # b \/ k # i
    BY <2>2, <1>7
  <2>4. PICK j \in 1 .. Len(d[e]) : at(e, j) = k
    BY <2>3, <1>4
  <2>5. d[e][j] = p
    BY <2>2, <2>4, <1>3
  <2> QED
    BY <2>5 DEF Holds
<1> QED
  BY <1>5, <1>6, <1>7 DEF HoldsBut

-----------------------------------------------------------------------------
(* The inductive invariant.                                                *)

\* One insertion at a time, of an id that is not in the table.
SerialInv ==
  /\ \A o, p \in Obj : Active(o) /\ Active(p) => o = p
  /\ \A o \in Obj : Active(o) => nodeMap[node[o].id] = None
  /\ \A i \in Id : nodeMap[i] # None => task[nodeMap[i]].pc = "done"

\* A bucket that is made by a split was not in use.
OffTreeInv == \A b \in Bucket \ Tree : contacts[b] = <<>>

In(p, s) == \E j \in 1 .. Len(s) : s[j] = p

\* The contacts an insertion has still to ping are in the bucket it holds.
ListInv ==
  ~disposed => \A o \in Waiting : \A j \in 1 .. Len(task[o].unknown) :
                 In(task[o].unknown[j], contacts[task[o].bucket])

MapInv ==
  /\ Once(contacts)
  /\ \A o \in Obj : Holds(contacts, o) <=> \E i \in Id : nodeMap[i] = o
  /\ \A i \in Id : nodeMap[i] # None => node[nodeMap[i]].id = i

MInv == SerialInv /\ OffTreeInv /\ ListInv /\ MapInv

\* What OnlyUnresponsiveEvicted says of a step.
Evicts ==
  \A o \in Obj : Placed(o) /\ ~Placed(o)' /\ ~disposed' =>
    IsBad(o) \/ \E t \in Waiting : t \notin Waiting' /\ Checked(t) = o

LEMMA MapMatches == TypeOK /\ MapInv => MapMatchesBuckets
<1> SUFFICES ASSUME TypeOK, MapInv PROVE MapMatchesBuckets
  OBVIOUS
<1>1. \A b \in Bucket : contacts[b] \in Seq(Obj)
  BY DEF TypeOK
<1>2. \A b \in Bucket : DOMAIN contacts[b] = 1 .. Len(contacts[b])
  BY <1>1
<1>3. \A o \in Obj : Placed(o) <=> Holds(contacts, o)
  BY DEF Placed, Holds
<1> QED
  BY <1>2, <1>3 DEF MapMatchesBuckets, MapInv, Once

LEMMA InitMInv == Init => MInv
<1> SUFFICES ASSUME Init PROVE MInv
  OBVIOUS
<1>1. \A b \in Bucket : contacts[b] = <<>> /\ Len(contacts[b]) = 0
  BY DEF Init
<1>2. \A i \in Id : nodeMap[i] = None
  BY DEF Init
<1>3. \A o \in Obj : task[o].pc = "new"
  BY DEF Init
<1>4. MapInv
  BY <1>1, <1>2, ConstantsAssumption DEF MapInv, Once, Holds
<1>5. SerialInv /\ OffTreeInv /\ ListInv
  BY <1>1, <1>2, <1>3 DEF SerialInv, OffTreeInv, ListInv, Active, Waiting
<1> QED
  BY <1>4, <1>5 DEF MInv

\* A node that is in the table is not the one that is being inserted.
LEMMA PlacedFacts ==
  ASSUME IInv, MInv, NEW o \in Obj, Holds(contacts, o)
  PROVE  /\ node[o].id \in Id /\ nodeMap[node[o].id] = o
         /\ task[o].pc = "done" /\ ~Active(o)
<1>1. PICK i \in Id : nodeMap[i] = o
  BY DEF MInv, MapInv
<1>2. o # None
  BY ConstantsAssumption
<1>3. node[o].id = i /\ task[o].pc = "done"
  BY <1>1, <1>2 DEF MInv, MapInv, SerialInv
<1> QED
  BY <1>1, <1>3 DEF Active

LEMMA NothingLeaves ==
  ASSUME contacts' = contacts
  PROVE  Evicts
BY DEF Evicts, Placed

\* Steps that change neither the table nor a task, nor the id of a Node object.
LEMMA NodeKeepsMap ==
  ASSUME MInv, IInv, UNCHANGED <<contacts, split, nodeMap, task, disposed>>,
         \A o \in Obj : node'[o].id = node[o].id
  PROVE  MInv' /\ Evicts
<1>1. \A i \in Id : nodeMap[i] # None => nodeMap[i] \in Obj
  BY DEF IInv, TypeOK
<1>2. SerialInv' /\ OffTreeInv' /\ ListInv'
  BY <1>1 DEF MInv, SerialInv, OffTreeInv, ListInv, Active, Waiting, Tree
<1>3. MapInv'
  BY <1>1 DEF MInv, MapInv
<1> QED
  BY <1>2, <1>3, NothingLeaves DEF MInv

\* Steps that move the task of one insertion, and leave the table alone.
LEMMA TaskKeepsMap ==
  ASSUME IInv, MInv, NEW o \in Obj, Active(o), ListInv',
         UNCHANGED <<contacts, nodeMap>>, Tree \subseteq Tree',
         \A p \in Obj : node'[p].id = node[p].id,
         \A p \in Obj : p # o => task'[p] = task[p]
  PROVE  MInv' /\ Evicts
<1>1. \A i \in Id : nodeMap[i] # None =>
        nodeMap[i] \in Obj /\ task[nodeMap[i]].pc = "done" /\ nodeMap[i] # o
  BY DEF IInv, TypeOK, MInv, SerialInv, Active
<1>2. SerialInv'
  BY <1>1 DEF MInv, SerialInv, Active
<1>3. OffTreeInv'
  BY DEF MInv, OffTreeInv
<1>4. MapInv'
  BY <1>1 DEF MInv, MapInv
<1> QED
  BY <1>2, <1>3, <1>4, NothingLeaves DEF MInv

LEMMA InsertSerial ==
  ASSUME MaxOverlap <= 1, IInv, MInv, Idle, ~disposed,
         NEW r \in NodeRecord, r.id \in Id, nodeMap[r.id] = None, Insert(r),
         UNCHANGED disposed
  PROVE  MInv' /\ Evicts
<1>1. PICK o \in Obj : /\ task[o].pc = "new"
                       /\ node' = [node EXCEPT ![o] = r]
                       /\ task' = [task EXCEPT ![o].pc = "walk"]
  BY DEF Insert
<1>2. UNCHANGED <<contacts, split, nodeMap>> /\ Cardinality(Waiting) < MaxOverlap
  BY DEF Insert, tree
<1>3. /\ task'[o].pc = "walk" /\ node'[o] = r
      /\ \A p \in Obj : p # o => task'[p] = task[p] /\ node'[p] = node[p]
  BY <1>1 DEF IInv, TypeOK, Task
<1>4. Waiting = {}
  <2> SUFFICES ASSUME NEW p \in Waiting PROVE FALSE
    OBVIOUS
  <2>1. Waiting = {p}
    BY DEF Waiting, MInv, SerialInv, Active
  <2>2. Cardinality(Waiting) = 1
    BY <2>1, FS_Singleton
  <2> QED
    BY <1>2, <2>2, ConstantsAssumption
<1>5. \A p \in Obj : ~Active(p)
  BY <1>4 DEF Waiting, Idle, Active
<1>6. \A i \in Id : nodeMap[i] # None =>
        nodeMap[i] \in Obj /\ task[nodeMap[i]].pc = "done" /\ nodeMap[i] # o
  BY <1>1 DEF IInv, TypeOK, MInv, SerialInv
<1>7. SerialInv'
  BY <1>2, <1>3, <1>5, <1>6 DEF SerialInv, Active
<1>8. OffTreeInv' /\ ListInv'
  BY <1>2, <1>3, <1>4 DEF MInv, OffTreeInv, ListInv, Waiting, Tree
<1>9. MapInv'
  BY <1>2, <1>3, <1>6 DEF MInv, MapInv
<1> QED
  BY <1>2, <1>7, <1>8, <1>9, NothingLeaves DEF MInv

-----------------------------------------------------------------------------
(* The steps that put nodes into the table, or take them out.              *)

LEMMA AddContactSerial ==
  ASSUME IInv, MInv, NEW o \in Obj, AddContact(o)
  PROVE  MInv' /\ Evicts
<1> DEFINE b == task[o].bucket
<1>1. Active(o) /\ OnStack(o) /\ ~Holds(contacts, o)
  <2>1. Active(o) /\ OnStack(o)
    BY DEF AddContact, Active, OnStack
  <2> QED
    BY <2>1, PlacedFacts
<1>2. b \in Tree /\ b \in Bucket /\ node[o].id \in Id /\ nodeMap[node[o].id] = None
  BY <1>1, StackFacts DEF MInv, SerialInv
<1>3. /\ contacts' = [contacts EXCEPT ![b] = Append(contacts[b], o)]
      /\ nodeMap' = [nodeMap EXCEPT ![node[o].id] = o]
      /\ UNCHANGED <<split, node, disposed>> /\ Return(o)
  BY DEF AddContact
<1>4. /\ task'[o].pc = "done"
      /\ \A p \in Obj : p # o => task'[p] = task[p]
  BY <1>3, ReturnFacts DEF IInv
<1>5. contacts \in Arrays /\ nodeMap \in [Id -> Obj \cup {None}] /\ o # None
  BY ConstantsAssumption DEF Arrays, IInv, TypeOK
<1> HIDE DEF b
<1>6. /\ Once(contacts')
      /\ \A p \in Obj : Holds(contacts', p) <=> Holds(contacts, p) \/ p = o
  <2>1. Once(contacts)
    BY DEF MInv, MapInv
  <2>2. Updated(contacts', contacts, b, Append(contacts[b], o))
    BY <1>2, <1>3, <1>5 DEF Arrays, Updated
  <2>3. Once(contacts') /\ HoldsAlso(contacts', contacts, o)
    BY <1>1, <1>2, <1>5, <2>1, <2>2, PushOnce
  <2> QED
    BY <2>3 DEF HoldsAlso
<1>7. \A p \in Obj : ~Active(p)'
  BY <1>1, <1>4 DEF MInv, SerialInv, Active
<1>8. /\ nodeMap'[node[o].id] = o
      /\ \A i \in Id : i # node[o].id => nodeMap'[i] = nodeMap[i]
  BY <1>2, <1>3, <1>5
<1>9. SerialInv'
  <2>1. \A i \in Id : nodeMap'[i] # None => task'[nodeMap'[i]].pc = "done"
    BY <1>4, <1>5, <1>8 DEF MInv, SerialInv
  <2> QED
    BY <2>1, <1>7 DEF SerialInv
<1>10. OffTreeInv' /\ ListInv'
  BY <1>2, <1>3, <1>7 DEF MInv, OffTreeInv, ListInv, Waiting, Active, Tree,
                           IInv, TypeOK
<1>11. MapInv'
  <2>1. \A p \in Obj : Holds(contacts', p) <=> \E i \in Id : nodeMap'[i] = p
    <3>1. ASSUME NEW p \in Obj, p # o
          PROVE  \A i \in Id : nodeMap'[i] = p <=> nodeMap[i] = p
      BY <3>1, <1>2, <1>8, ConstantsAssumption
    <3>2. ASSUME NEW p \in Obj, p # o
          PROVE  Holds(contacts', p) <=> \E i \in Id : nodeMap'[i] = p
      BY <3>1, <3>2, <1>6 DEF MInv, MapInv
    <3>3. Holds(contacts', o) /\ \E i \in Id : nodeMap'[i] = o
      BY <1>2, <1>6, <1>8
    <3> QED
      BY <3>2, <3>3
  <2>2. \A i \in Id : nodeMap'[i] # None => node[nodeMap'[i]].id = i
    BY <1>8 DEF MInv, MapInv
  <2> QED
    BY <1>3, <1>6, <2>1, <2>2 DEF MapInv
<1>12. Evicts
  <2>1. \A p \in Obj : (Placed(p) <=> Holds(contacts, p)) /\ (Placed(p)' <=> Holds(contacts', p))
    BY DEF Placed, Holds
  <2> QED
    BY <1>6, <2>1 DEF Evicts
<1> QED
  BY <1>9, <1>10, <1>11, <1>12 DEF MInv

\* d is c with o in the place of the i-th contact of b.
Replaced(d, c, b, i, o) ==
  d = [c EXCEPT ![b] = Append(RemoveAt(c[b], i), o)]

HoldsInstead(d, c, p, o) ==
  \A q \in Obj : Holds(d, q) <=> (Holds(c, q) /\ q # p) \/ q = o

LEMMA ReplaceArray ==
  ASSUME NEW c \in Arrays, Once(c), NEW b \in Bucket, NEW o \in Obj, ~Holds(c, o),
         NEW i \in 1 .. Len(c[b]), NEW d, Replaced(d, c, b, i, o)
  PROVE  /\ Once(d) /\ HoldsInstead(d, c, c[b][i], o)
         /\ \A e \in Bucket : e # b => d[e] = c[e]
<1> DEFINE s == c[b]
           r == RemoveAt(s, i)
           m == [c EXCEPT ![b] = r]
<1>1. s \in Seq(Obj) /\ s[i] \in Obj
  BY DEF Arrays
<1>2. Without(s, i, r)
  BY <1>1, RemoveAtFacts DEF Without
<1> HIDE DEF r
<1>3. /\ m \in Arrays /\ m[b] = r /\ \A e \in Bucket : e # b => m[e] = c[e]
      /\ d \in Arrays /\ d[b] = Append(m[b], o)
      /\ \A e \in Bucket : e # b => d[e] = m[e]
  <2>1. r \in Seq(Obj)
    BY <1>2 DEF Without
  <2>2. Append(r, o) \in Seq(Obj) /\ d = [c EXCEPT ![b] = Append(r, o)]
    BY <2>1 DEF r, Replaced
  <2> QED
    BY <1>1, <2>1, <2>2 DEF Arrays
<1> HIDE DEF m
<1>4. Once(m) /\ HoldsBut(m, c, c[b][i])
  <2>1. Updated(m, c, b, r)
    BY <1>3 DEF Updated
  <2> QED
    BY <1>2, <2>1, SpliceOnce
<1>5. Once(d) /\ HoldsAlso(d, m, o)
  <2>1. Updated(d, m, b, Append(m[b], o)) /\ ~Holds(m, o)
    BY <1>3, <1>4 DEF Updated, HoldsBut
  <2> QED
    BY <1>3, <1>4, <2>1, PushOnce
<1> QED
  BY <1>3, <1>4, <1>5 DEF HoldsBut, HoldsAlso, HoldsInstead

\* While o replaces p, which is in its bucket, and is bad or was pinged by o.
LEMMA ReplaceSerial ==
  ASSUME IInv, MInv, ~disposed', NEW o \in Obj, NEW p \in Obj, Active(o),
         Replace(o, p), In(p, contacts[task[o].bucket]), task[o].bucket \in Tree,
         UNCHANGED <<split, disposed>>, \A q \in Obj : node'[q].id = node[q].id,
         IsBad(p) \/ (o \in Waiting /\ Checked(o) = p)
  PROVE  MInv' /\ Evicts
<1> DEFINE b == task[o].bucket
           s == contacts[b]
<1>1. PICK i \in 1 .. Len(s) :
        /\ SpliceRemoves(s, p, i)
        /\ contacts' = [contacts EXCEPT ![b] = Append(RemoveAt(s, i), o)]
  BY DEF Replace
<1>2. /\ b \in Bucket /\ s \in Seq(Obj) /\ contacts \in Arrays
      /\ nodeMap \in [Id -> Obj \cup {None}] /\ o # None /\ p # None
      /\ node[o].id \in Id /\ nodeMap[node[o].id] = None
  BY ConstantsAssumption
  DEF IInv, TypeOK, TreeInv, Arrays, MInv, SerialInv, PlaceInv, Active, OnStack
<1>3. s[i] = p
  BY <1>1, <1>2 DEF SpliceRemoves, Contains, In
<1>4. Holds(contacts, p) /\ ~Holds(contacts, o)
  BY <1>2, <1>3, PlacedFacts DEF Holds
<1>5. node[p].id \in Id /\ nodeMap[node[p].id] = p /\ p # o
  BY <1>4, PlacedFacts
<1>6. /\ Once(contacts')
      /\ \A q \in Obj : Holds(contacts', q) <=>
           (Holds(contacts, q) /\ q # p) \/ q = o
      /\ \A e \in Bucket : e # b => contacts'[e] = contacts[e]
  <2>1. Once(contacts) /\ contacts[b][i] = p
    BY <1>3 DEF MInv, MapInv
  <2>2. Replaced(contacts', contacts, b, i, o)
    BY <1>1 DEF Replaced
  <2>3. b \in Bucket /\ i \in 1 .. Len(contacts[b]) /\ contacts \in Arrays
    BY <1>2
  <2> HIDE DEF b, s
  <2> QED
    BY <1>4, <2>1, <2>2, <2>3, ReplaceArray DEF HoldsInstead
<1>7. /\ Return(o)
       /\ nodeMap' = [nodeMap EXCEPT ![node[p].id] = None, ![node[o].id] = o]
  BY DEF Replace
<1>8. /\ nodeMap'[node[o].id] = o /\ nodeMap'[node[p].id] = None
       /\ \A j \in Id : j # node[o].id /\ j # node[p].id => nodeMap'[j] = nodeMap[j]
  BY <1>2, <1>5, <1>7
<1>9. /\ task'[o].pc = "done"
       /\ \A q \in Obj : q # o => task'[q] = task[q]
  BY <1>7, ReturnFacts DEF IInv
<1>10. \A q \in Obj : ~Active(q)'
  BY <1>9 DEF MInv, SerialInv, Active
<1>11. SerialInv'
  <2>1. \A j \in Id : nodeMap'[j] # None => task'[nodeMap'[j]].pc = "done"
    BY <1>2, <1>8, <1>9 DEF MInv, SerialInv
  <2> QED
    BY <2>1, <1>10 DEF SerialInv
<1>12. OffTreeInv' /\ ListInv'
  BY <1>6, <1>10 DEF MInv, OffTreeInv, ListInv, Waiting, Active, Tree,
                            Arrays
<1>13. MapInv'
  <2>1. ASSUME NEW q \in Obj
        PROVE  Holds(contacts', q) <=> \E j \in Id : nodeMap'[j] = q
    <3>1. CASE q = o
      BY <3>1, <1>2, <1>6, <1>8
    <3>2. CASE q = p
      <4>1. ~Holds(contacts', q)
        BY <3>2, <1>5, <1>6
      <4>2. ASSUME NEW j \in Id, nodeMap'[j] = q PROVE FALSE
        <5>1. j # node[o].id /\ j # node[p].id
          BY <4>2, <3>2, <1>5, <1>8, <1>2
        <5>2. nodeMap[j] = p
          BY <5>1, <4>2, <3>2, <1>8
        <5> QED
          BY <5>1, <5>2, <1>2 DEF MInv, MapInv
      <4> QED
        BY <4>1, <4>2
    <3>3. CASE q # o /\ q # p
      <4>1. Holds(contacts', q) <=> \E j \in Id : nodeMap[j] = q
        BY <3>3, <1>6 DEF MInv, MapInv
      <4>2. \A j \in Id : nodeMap'[j] = q <=> nodeMap[j] = q
        BY <3>3, <1>2, <1>5, <1>8, ConstantsAssumption
      <4> QED
        BY <4>1, <4>2
    <3> QED
      BY <3>1, <3>2, <3>3
  <2>2. \A j \in Id : nodeMap'[j] # None => node'[nodeMap'[j]].id = j
    BY <1>2, <1>8 DEF MInv, MapInv
  <2> QED
    BY <1>6, <2>1, <2>2 DEF MapInv
<1>14. Evicts
  <2>1. \A q \in Obj : (Placed(q) <=> Holds(contacts, q)) /\ (Placed(q)' <=> Holds(contacts', q))
    BY DEF Placed, Holds
  <2>2. o \in Waiting => o \notin Waiting'
    BY <1>9 DEF Waiting
  <2> QED
    BY <1>6, <2>1, <2>2 DEF Evicts
<1> QED
  BY <1>11, <1>12, <1>13, <1>14 DEF MInv

\* A split hands over one contact at a time.
LEMMA MoveArray ==
  ASSUME IInv, Once(contacts), OffTreeInv, NEW o \in Obj, MoveContact(o)
  PROVE  /\ Once(contacts') /\ OffTreeInv'
         /\ \A q \in Obj : Holds(contacts', q) <=> Holds(contacts, q)
<1> DEFINE b == task[o].bucket
           p == Head(contacts[b])
           t == IF Less(Text(node[p].id), Bound(Mid(b))) THEN Left(b)
                                                         ELSE Right(b)
           q == Tail(contacts[b])
           c == [contacts EXCEPT ![b] = q]
<1>1. /\ OnStack(o) /\ Active(o) /\ task[o].pc = "split" /\ contacts[b] # <<>>
      /\ UNCHANGED <<split, nodeMap, node, task, disposed>>
      /\ contacts' = [contacts EXCEPT ![b] = Tail(@), ![t] = Append(@, p)]
  BY DEF MoveContact, OnStack, Active
<1>2. /\ b \in split /\ b \in Bucket /\ b.min < b.max /\ Splittable(b)
      /\ contacts[b] \in Seq(Obj)
      /\ contacts \in Arrays /\ Once(contacts)
  BY <1>1, StackFacts DEF IInv, SplitInv, TreeInv, TypeOK, Arrays
<1>3. t \in Tree /\ t \in Bucket /\ t # b
  BY <1>2, ChildInTree, ChildFacts
<1>4. /\ p \in Obj /\ p = contacts[b][1] /\ 1 \in 1 .. Len(contacts[b])
      /\ q \in Seq(Obj) /\ Len(q) = Len(contacts[b]) - 1
      /\ \A j \in 1 .. Len(contacts[b]) - 1 :
           q[j] = contacts[b][IF j < 1 THEN j ELSE j + 1]
  <2>1. contacts[b] \in Seq(Obj) /\ contacts[b] # <<>>
    BY <1>1, <1>2
  <2> HIDE DEF b
  <2>2. /\ Len(contacts[b]) >= 1 /\ Len(contacts[b]) \in Nat
        /\ p \in Obj /\ p = contacts[b][1]
        /\ q \in Seq(Obj) /\ Len(q) = Len(contacts[b]) - 1
        /\ \A j \in 1 .. Len(contacts[b]) - 1 : q[j] = contacts[b][j + 1]
    BY <2>1, TailFacts
  <2> HIDE DEF p, q
  <2>3. \A j \in 1 .. Len(contacts[b]) - 1 :
          q[j] = contacts[b][IF j < 1 THEN j ELSE j + 1]
    BY <2>2
  <2> QED
    BY <2>2, <2>3
<1>5. contacts' = [contacts EXCEPT ![b] = q, ![t] = Append(contacts[t], p)]
  BY <1>1, <1>3
<1> HIDE DEF b, p, t, q
<1>6. /\ c \in Arrays /\ c[b] = q
      /\ \A e \in Bucket : e # b => c[e] = contacts[e]
  BY <1>2, <1>4 DEF Arrays
<1>7. Append(c[t], p) \in Seq(Obj) /\ c[t] = contacts[t]
  BY <1>3, <1>4, <1>6, AppendFacts DEF Arrays
<1>8. /\ contacts' \in Arrays /\ contacts'[t] = Append(c[t], p)
      /\ \A e \in Bucket : e # t => contacts'[e] = c[e]
  BY <1>2, <1>3, <1>4, <1>5, <1>6, <1>7 DEF Arrays
<1> HIDE DEF c
<1>9. Once(c) /\ \A r \in Obj : Holds(c, r) <=> Holds(contacts, r) /\ r # p
  <2>1. Without(contacts[b], 1, q)
    BY <1>4 DEF Without
  <2>2. Updated(c, contacts, b, q)
    BY <1>6 DEF Updated
  <2>3. Once(c) /\ HoldsBut(c, contacts, contacts[b][1])
    BY <1>2, <2>1, <2>2, SpliceOnce
  <2> QED
    BY <1>4, <2>3 DEF HoldsBut
<1>10. Once(contacts') /\ \A r \in Obj : Holds(contacts', r) <=> Holds(c, r) \/ r = p
  <2>1. Updated(contacts', c, t, Append(c[t], p)) /\ ~Holds(c, p)
    BY <1>4, <1>8, <1>9 DEF Updated
  <2>2. Once(contacts') /\ HoldsAlso(contacts', c, p)
    BY <1>3, <1>4, <1>6, <1>9, <2>1, PushOnce
  <2> QED
    BY <2>2 DEF HoldsAlso
<1>11. Holds(contacts, p)
  BY <1>2, <1>4 DEF Holds
<1>12. \A r \in Obj : Holds(contacts', r) <=> Holds(contacts, r)
  BY <1>4, <1>9, <1>10, <1>11
<1>13. OffTreeInv'
  <2>1. Tree' = Tree /\ b \in Tree
    BY <1>1, <1>2 DEF Tree, IInv, TreeInv
  <2>2. \A e \in Bucket \ Tree : contacts'[e] = contacts[e]
    BY <1>3, <1>6, <1>8, <2>1
  <2> QED
    BY <2>1, <2>2 DEF OffTreeInv
<1> QED
  BY <1>10, <1>12, <1>13

LEMMA MoveContactSerial ==
  ASSUME IInv, MInv, NEW o \in Obj, MoveContact(o)
  PROVE  MInv' /\ Evicts
<1>1. /\ Active(o) /\ task[o].pc = "split"
      /\ UNCHANGED <<split, nodeMap, node, task, disposed>>
  BY DEF MoveContact, Active
<1>2. /\ Once(contacts') /\ OffTreeInv'
      /\ \A q \in Obj : Holds(contacts', q) <=> Holds(contacts, q)
  BY MoveArray DEF MInv, MapInv
<1>3. SerialInv' /\ MapInv'
  BY <1>1, <1>2 DEF MInv, SerialInv, MapInv, Active
<1>4. ListInv'
  <2>1. Waiting' = {}
    BY <1>1 DEF Waiting, MInv, SerialInv, Active
  <2> QED
    BY <2>1 DEF ListInv
<1>5. Evicts
  <2>1. \A r \in Obj : (Placed(r) <=> Holds(contacts, r)) /\ (Placed(r)' <=> Holds(contacts', r))
    BY DEF Placed, Holds
  <2> QED
    BY <1>2, <2>1 DEF Evicts
<1> QED
  BY <1>2, <1>3, <1>4, <1>5 DEF MInv

\* The children of a bucket that is split were empty before they existed.
LEMMA BeginSplitSerial ==
  ASSUME IInv, MInv, NEW o \in Obj, BeginSplit(o)
  PROVE  MInv' /\ Evicts
<1> DEFINE b == task[o].bucket
<1>1. /\ OnStack(o) /\ Active(o) /\ b \notin split /\ Splittable(b)
      /\ split' = split \cup {b}
      /\ contacts' = [contacts EXCEPT ![Left(b)] = <<>>, ![Right(b)] = <<>>]
      /\ task' = [task EXCEPT ![o].pc = "split"]
      /\ UNCHANGED <<nodeMap, node, disposed>>
  BY DEF BeginSplit, CanSplit, OnStack, Active
<1>2. b \in Tree /\ b \in Bucket /\ b.min < b.max
  BY <1>1, StackFacts
<1>3. /\ Tree' = Tree \cup {Left(b), Right(b)}
      /\ Left(b) \notin Tree /\ Right(b) \notin Tree
      /\ Left(b) \in Bucket /\ Right(b) \in Bucket
  BY <1>1, <1>2, SplitTree, ChildFacts DEF IInv
<1>4. contacts[Left(b)] = <<>> /\ contacts[Right(b)] = <<>>
  BY <1>3 DEF MInv, OffTreeInv
<1> HIDE DEF b
<1>5. contacts' = contacts
  BY <1>1, <1>3, <1>4 DEF IInv, TypeOK
<1>6. task'[o].pc = "split" /\ \A p \in Obj : p # o => task'[p] = task[p]
  BY <1>1 DEF IInv, TypeOK, Task
<1>7. ListInv'
  <2>1. Waiting' = {}
    BY <1>1, <1>6 DEF Waiting, MInv, SerialInv, Active
  <2> QED
    BY <2>1 DEF ListInv
<1> QED
  BY <1>1, <1>3, <1>5, <1>6, <1>7, TaskKeepsMap

LEMMA WalkSerial ==
  ASSUME IInv, MInv, NEW o \in Obj, Walk(o) \/ EndSplit(o) \/ Discard(o)
  PROVE  MInv' /\ Evicts
<1>1. /\ Active(o) /\ UNCHANGED <<contacts, split, nodeMap, node, disposed>>
      /\ \/ \E b : Goto(o, b)
         \/ Return(o)
  BY DEF Walk, EndSplit, Discard, AtFullLeaf, Active, tree
<1>2. task'[o].pc # "ping" /\ \A p \in Obj : p # o => task'[p] = task[p]
  BY <1>1 DEF IInv, TypeOK, Goto, Return, Task
<1>3. ListInv'
  <2>1. Waiting' = {}
    BY <1>1, <1>2 DEF Waiting, MInv, SerialInv, Active
  <2> QED
    BY <2>1 DEF ListInv
<1>4. Tree' = Tree
  BY <1>1 DEF Tree
<1> QED
  BY <1>1, <1>2, <1>3, <1>4, TaskKeepsMap

LEMMA StartPingsSerial ==
  ASSUME IInv, MInv, NEW o \in Obj, StartPings(o)
  PROVE  MInv' /\ Evicts
<1> DEFINE b == task[o].bucket
           s == contacts[b]
           bad == {i \in 1 .. Len(s) : ~IsGood(s[i])}
<1>1. /\ Active(o) /\ OnStack(o)
      /\ UNCHANGED <<contacts, split, nodeMap, node, disposed>>
  BY DEF StartPings, AtFullLeaf, Active, OnStack, tree
<1>2. s \in Seq(Obj)
  BY <1>1, StackFacts
<1>3. PICK n \in 1 .. Len(s) : \E u \in [1 .. n -> bad] :
        task' = [task EXCEPT ![o].pc = "ping",
                             ![o].unknown = [j \in 1 .. n |-> s[u[j]]]]
  BY DEF StartPings
<1>4. PICK u \in [1 .. n -> bad] :
        task' = [task EXCEPT ![o].pc = "ping",
                             ![o].unknown = [j \in 1 .. n |-> s[u[j]]]]
  BY <1>3
<1> DEFINE q == [j \in 1 .. n |-> s[u[j]]]
<1>5. n \in Nat /\ \A j \in 1 .. n : u[j] \in 1 .. Len(s)
  BY <1>2, <1>4
<1>6. q \in Seq(Obj) /\ Len(q) = n
  <2>1. q \in [1 .. n -> Obj]
    BY <1>2, <1>5
  <2>2. q \in Seq(Obj) /\ DOMAIN q = 1 .. n
    BY <1>5, <2>1, FunctionIsSeq
  <2> HIDE DEF q
  <2> QED
    BY <1>5, <2>2
<1>7. \A j \in 1 .. Len(q) : In(q[j], s)
  BY <1>5, <1>6 DEF In
<1>8. task' = [task EXCEPT ![o].pc = "ping", ![o].unknown = q]
  BY <1>4
<1> HIDE DEF q
<1>9. /\ task'[o].pc = "ping" /\ task'[o].bucket = b /\ task'[o].unknown = q
      /\ \A p \in Obj : p # o => task'[p] = task[p]
  BY <1>6, <1>8, PingFacts DEF IInv
<1>10. ListInv'
  <2>1. Waiting' = {o}
    BY <1>1, <1>9 DEF Waiting, MInv, SerialInv, Active
  <2> QED
    BY <1>1, <1>7, <1>9, <2>1 DEF ListInv
<1>11. Tree' = Tree
  BY <1>1 DEF Tree
<1> QED
  BY <1>1, <1>9, <1>10, <1>11, TaskKeepsMap

LEMMA ReplaceBadSerial ==
  ASSUME IInv, MInv, NEW o \in Obj, ReplaceBad(o)
  PROVE  MInv' /\ Evicts
<1> DEFINE s == contacts[task[o].bucket]
<1>1. OnStack(o) /\ Active(o) /\ UNCHANGED <<split, node, disposed>>
  BY DEF ReplaceBad, AtFullLeaf, OnStack, Active
<1>2. s \in Seq(Obj) /\ task[o].bucket \in Tree /\ ~disposed
  BY <1>1, StackFacts
<1>3. PICK i \in 1 .. Len(s) : IsBad(s[i]) /\ Replace(o, s[i])
  BY DEF ReplaceBad
<1>4. PICK p \in Obj : p = s[i]
  BY <1>2
<1>5. IsBad(p) /\ Replace(o, p) /\ In(p, contacts[task[o].bucket])
  BY <1>2, <1>3, <1>4 DEF In
<1>6. ~disposed' /\ \A q \in Obj : node'[q].id = node[q].id
  BY <1>1, <1>2
<1> QED
  BY <1>1, <1>2, <1>5, <1>6, ReplaceSerial

-----------------------------------------------------------------------------
(* What follows the await.                                                 *)

\* A node that is pinged is in the bucket the insertion holds.
LEMMA CheckedIsHeld ==
  ASSUME IInv, MInv, NEW o \in Obj, task[o].pc = "ping", ~disposed
  PROVE  /\ Checked(o) \in Obj /\ In(Checked(o), contacts[task[o].bucket])
         /\ task[o].bucket \in Tree
         /\ \A j \in 1 .. Len(Tail(task[o].unknown)) :
              In(Tail(task[o].unknown)[j], contacts[task[o].bucket])
<1> DEFINE u == task[o].unknown
<1>1. u \in Seq(Obj) /\ u # <<>> /\ o \in Waiting
  BY DEF IInv, TypeOK, Task, StackInv, Waiting
<1>2. \A j \in 1 .. Len(u) : In(u[j], contacts[task[o].bucket])
  BY <1>1 DEF MInv, ListInv
<1>3. /\ Len(u) >= 1 /\ Head(u) \in Obj /\ Head(u) = u[1]
      /\ Len(Tail(u)) = Len(u) - 1 /\ Len(u) \in Nat
      /\ \A j \in 1 .. Len(u) - 1 : Tail(u)[j] = u[j + 1]
  BY <1>1, TailFacts
<1>4. task[o].bucket \in Tree
  BY <1>1 DEF IInv, WaitInv
<1>5. Checked(o) = u[1]
  BY <1>3 DEF Checked
<1> HIDE DEF u
<1>6. \A j \in 1 .. Len(Tail(u)) : In(Tail(u)[j], contacts[task[o].bucket])
  BY <1>2, <1>3
<1> QED
  BY <1>2, <1>3, <1>4, <1>5, <1>6 DEF Checked, u

LEMMA ReturnSerial ==
  ASSUME IInv, MInv, NEW o \in Obj, task[o].pc = "ping", Return(o),
         UNCHANGED <<contacts, split, nodeMap, disposed>>,
         \A q \in Obj : node'[q].id = node[q].id
  PROVE  MInv' /\ Evicts
<1>1. task'[o].pc = "done" /\ \A q \in Obj : q # o => task'[q] = task[q]
  BY ReturnFacts DEF IInv
<1>2. ListInv'
  <2>1. Waiting' = {}
    BY <1>1 DEF Waiting, MInv, SerialInv, Active
  <2> QED
    BY <2>1 DEF ListInv
<1>3. Tree' = Tree /\ Active(o)
  BY DEF Tree, Active
<1> QED
  BY <1>1, <1>2, <1>3, TaskKeepsMap

LEMMA GiveUpSerial ==
  ASSUME IInv, MInv, NEW o \in Obj, task[o].pc = "ping", GiveUp(o),
         \A q \in Obj : node'[q].id = node[q].id
  PROVE  MInv' /\ Evicts
<1>1. UNCHANGED <<split, disposed>>
  BY DEF GiveUp
<1>2. CASE disposed
  BY <1>1, <1>2, ReturnSerial DEF GiveUp
<1>3. CASE ~disposed
  <2>1. Replace(o, Checked(o)) /\ Active(o) /\ o \in Waiting
    BY <1>3 DEF GiveUp, Active, Waiting
  <2> QED
    BY <1>1, <1>3, <2>1, CheckedIsHeld, ReplaceSerial
<1> QED
  BY <1>2, <1>3

LEMMA PingAnsweredSerial ==
  ASSUME IInv, MInv, NEW o \in Obj, PingAnswered(o)
  PROVE  MInv' /\ Evicts
<1> DEFINE rest == Tail(task[o].unknown)
<1>1. /\ task[o].pc = "ping"
      /\ node' = [node EXCEPT ![Checked(o)].lastResponse = now,
                              ![Checked(o)].failed = 0]
      /\ UNCHANGED <<contacts, split, nodeMap, disposed>>
  BY DEF PingAnswered
<1>2. Checked(o) \in Obj /\ rest \in Seq(Obj)
  BY <1>1, CheckedFacts
<1>3. \A q \in Obj : node'[q].id = node[q].id
  BY <1>1, <1>2 DEF IInv, TypeOK, NodeRecord
<1>4. CASE Return(o)
  BY <1>1, <1>3, <1>4, ReturnSerial
<1>5. CASE ~Return(o)
  <2>1. ~disposed /\ task' = [task EXCEPT ![o].unknown = rest]
    BY <1>5 DEF PingAnswered
  <2>2. \A j \in 1 .. Len(rest) : In(rest[j], contacts[task[o].bucket])
    BY <1>1, <2>1, CheckedIsHeld
  <2> HIDE DEF rest
  <2>3. /\ task'[o].unknown = rest /\ task'[o].bucket = task[o].bucket
        /\ task'[o].pc = "ping" /\ \A q \in Obj : q # o => task'[q] = task[q]
    BY <1>1, <1>2, <2>1 DEF IInv, TypeOK, Task
  <2>4. ListInv'
    <3>1. Waiting' = {o}
      BY <1>1, <2>3 DEF Waiting, MInv, SerialInv, Active
    <3> QED
      BY <1>1, <2>2, <2>3, <3>1 DEF ListInv
  <2>5. Tree' = Tree /\ Active(o)
    BY <1>1 DEF Tree, Active
  <2> QED
    BY <1>1, <1>3, <2>3, <2>4, <2>5, TaskKeepsMap
<1> QED
  BY <1>4, <1>5

LEMMA PingFailedSerial ==
  ASSUME IInv, MInv, NEW o \in Obj, PingFailed(o) \/ PingTimedOut(o)
  PROVE  MInv' /\ Evicts
<1>1. task[o].pc = "ping" /\ GiveUp(o)
  BY DEF PingFailed, PingTimedOut
<1>2. Checked(o) \in Obj
  BY <1>1, CheckedFacts
<1>3. \A q \in Obj : node'[q].id = node[q].id
  <2>1. node \in [Obj -> NodeRecord]
    BY DEF IInv, TypeOK
  <2>2. CASE UNCHANGED node
    BY <2>2
  <2>3. CASE node' = [node EXCEPT ![Checked(o)].failed = Bumped(@)]
    BY <1>2, <2>1, <2>3 DEF NodeRecord
  <2> QED
    BY <2>2, <2>3 DEF PingFailed, PingTimedOut
<1> QED
  BY <1>1, <1>3, GiveUpSerial

-----------------------------------------------------------------------------
(* The other turns.                                                        *)

LEMMA DisposeSerial ==
  ASSUME IInv, MInv, Dispose
  PROVE  MInv' /\ Evicts
<1>1. /\ disposed' /\ UNCHANGED <<node, task>>
      /\ \A b \in Bucket : contacts'[b] = <<>> /\ Len(contacts'[b]) = 0
      /\ \A i \in Id : nodeMap'[i] = None
  BY DEF Dispose
<1>2. SerialInv' /\ OffTreeInv' /\ ListInv'
  <2>1. \A o \in Obj : Active(o) => node[o].id \in Id
    BY DEF IInv, PlaceInv, Active, OnStack
  <2>2. SerialInv'
    BY <1>1, <2>1 DEF MInv, SerialInv, Active
  <2> QED
    BY <1>1, <2>2 DEF OffTreeInv, ListInv
<1>3. MapInv'
  BY <1>1, ConstantsAssumption DEF MapInv, Once, Holds
<1> QED
  BY <1>1, <1>2, <1>3 DEF MInv, Evicts

LEMMA TouchSerial ==
  ASSUME IInv, MInv, NEW i \in Id, NEW r, Touch(i, r), nodeMap[i] # None,
         r.id = node[nodeMap[i]].id, UNCHANGED disposed
  PROVE  MInv' /\ Evicts
<1>1. nodeMap[i] \in Obj
  BY DEF IInv, TypeOK
<1>2. UNCHANGED <<contacts, split, nodeMap, task>>
  BY DEF Touch, tree
<1>3. \A o \in Obj : node'[o].id = node[o].id
  BY <1>1 DEF IInv, TypeOK, Touch
<1> QED
  BY <1>2, <1>3, NodeKeepsMap

LEMMA RecordSerial ==
  ASSUME MaxOverlap <= 1, IInv, MInv, NEW i \in Id,
         RecordQuery(i) \/ RecordResponse(i) \/ RecordNoResponse(i)
  PROVE  MInv' /\ Evicts
<1>1. Idle /\ ~disposed /\ UNCHANGED disposed
  BY DEF RecordQuery, RecordResponse, RecordNoResponse, Turn
<1>2. now \in Time /\ 0 \in Time /\ 0 \in 0 .. MaxFailed
  BY ConstantsAssumption DEF IInv, TypeOK, Time
<1>3. CASE nodeMap[i] # None
  <2> DEFINE n == node[nodeMap[i]]
             q == [n EXCEPT !.lastQuery = now]
             r == [n EXCEPT !.lastResponse = now, !.failed = 0]
             f == [n EXCEPT !.failed = Bumped(n.failed)]
  <2>1. Touch(i, q) \/ Touch(i, r) \/ Touch(i, f)
    BY <1>3 DEF RecordQuery, RecordResponse, RecordNoResponse
  <2>2. n \in NodeRecord
    BY <1>3 DEF IInv, TypeOK
  <2>3. q.id = n.id /\ r.id = n.id /\ f.id = n.id
    BY <2>2 DEF NodeRecord
  <2> HIDE DEF q, r, f
  <2> QED
    BY <1>1, <1>3, <2>1, <2>3, TouchSerial
<1>4. CASE nodeMap[i] = None
  <2> DEFINE q == [Blank EXCEPT !.id = i, !.lastQuery = now]
             r == [Blank EXCEPT !.id = i, !.lastResponse = now]
  <2>1. q \in NodeRecord /\ q.id = i /\ r \in NodeRecord /\ r.id = i
    BY <1>2 DEF NodeRecord, Blank
  <2>2. Insert(q) \/ Insert(r)
    BY <1>4 DEF RecordQuery, RecordResponse, RecordNoResponse
  <2> HIDE DEF q, r
  <2> QED
    BY <1>1, <1>4, <2>1, <2>2, InsertSerial
<1> QED
  BY <1>3, <1>4

LEMMA LoadSerial ==
  ASSUME MaxOverlap <= 1, IInv, MInv, NEW i \in Id, NEW response \in SavedTime,
         NEW query \in SavedTime, NEW failed \in 0 .. MaxFailed,
         LoadEntry(i, response, query, failed)
  PROVE  MInv' /\ Evicts
<1>1. Idle /\ ~disposed /\ UNCHANGED disposed
  BY DEF LoadEntry, IInv, DisposeInv
<1>2. response \in Time /\ query \in Time
  BY ConstantsAssumption DEF Time
<1>3. CASE nodeMap[i] # None
  <2> DEFINE n == node[nodeMap[i]]
             r == [n EXCEPT
                     !.lastResponse = IF response # 0 THEN response ELSE n.lastResponse,
                     !.lastQuery    = IF query # 0 THEN query ELSE n.lastQuery,
                     !.failed       = IF failed # 0 THEN failed ELSE n.failed]
  <2>1. Touch(i, r)
    BY <1>3 DEF LoadEntry
  <2>2. n \in NodeRecord
    BY <1>3 DEF IInv, TypeOK
  <2>3. r.id = n.id
    BY <2>2 DEF NodeRecord
  <2> HIDE DEF r
  <2> QED
    BY <1>1, <1>3, <2>1, <2>3, TouchSerial
<1>4. CASE nodeMap[i] = None
  <2>1. PICK r \in NodeRecord : Insert(r) /\ r.id = i
    BY <1>2, <1>4 DEF LoadEntry, NodeRecord
  <2> QED
    BY <1>1, <1>4, <2>1, InsertSerial
<1> QED
  BY <1>3, <1>4

LEMMA NextSerial ==
  MaxOverlap <= 1 /\ IInv /\ MInv /\ [Next]_vars => MInv' /\ Evicts
<1> SUFFICES ASSUME MaxOverlap <= 1, IInv, MInv, [Next]_vars PROVE MInv' /\ Evicts
  OBVIOUS
<1>1. CASE \E i \in Id : RecordQuery(i) \/ RecordResponse(i) \/ RecordNoResponse(i)
  BY <1>1, RecordSerial
<1>2. CASE \E i \in Id, response, query \in SavedTime, failed \in 0 .. MaxFailed :
             LoadEntry(i, response, query, failed)
  BY <1>2, LoadSerial
<1>3. CASE EndLoad \/ Tick \/ UNCHANGED vars
  BY <1>3, NodeKeepsMap DEF EndLoad, Tick, vars, tree
<1>4. CASE \E o \in Obj : Running(o)
  BY <1>4, AddContactSerial, WalkSerial, BeginSplitSerial, MoveContactSerial,
     ReplaceBadSerial, StartPingsSerial DEF Running
<1>5. CASE \E o \in Obj : PingAnswered(o) \/ PingFailed(o) \/ PingTimedOut(o)
  BY <1>5, PingAnsweredSerial, PingFailedSerial
<1>6. CASE Dispose
  BY <1>6, DisposeSerial
<1> QED
  BY <1>1, <1>2, <1>3, <1>4, <1>5, <1>6 DEF Next

LEMMA SerialInductive ==
  ASSUME MaxOverlap <= 1
  PROVE  Spec => [](IInv /\ MInv)
<1>1. IInv /\ MInv /\ [Next]_vars => MInv'
  BY NextSerial
<1> QED
  BY <1>1, InitMInv, InitIInv, NextIInv, PTL DEF Spec

\* While insertions do not overlap, _nodeMap and the buckets hold the same
\* nodes, each of them once, under its own id.
THEOREM MapMatchesHolds ==
  ASSUME MaxOverlap <= 1
  PROVE  Spec => []MapMatchesBuckets
<1>1. IInv /\ MInv => MapMatchesBuckets
  BY MapMatches DEF IInv, MInv
<1> QED
  BY <1>1, SerialInductive, PTL

\* While insertions do not overlap, _evict removes a contact only if it was
\* bad already or is the one whose ping has just failed.
THEOREM OnlyUnresponsiveLeave ==
  ASSUME MaxOverlap <= 1
  PROVE  Spec => OnlyUnresponsiveEvicted
<1>1. IInv /\ MInv /\ [Next]_vars => [Evicts]_vars
  BY NextSerial
<1>2. Spec => [][Evicts]_vars
  BY <1>1, SerialInductive, PTL DEF Spec
<1> QED
  BY <1>2 DEF Evicts, OnlyUnresponsiveEvicted
=============================================================================
