------------------------- MODULE RoutingTableProofs -------------------------
(* The safety of RoutingTable for every value of its constants.            *)
EXTENDS RoutingTable, SequenceTheorems, TLAPS

-----------------------------------------------------------------------------
(* The inductive invariant.                                                *)

Tree == {Root} \cup {Left(b) : b \in split} \cup {Right(b) : b \in split}

Apart(b, c)  == b.max <= c.min \/ c.max <= b.min
Within(b, c) == c.min <= b.min /\ b.max <= c.max

\* A leaf overlaps no bucket of the tree but those above it, so that the two
\* children of a bucket that is split now are new.
TreeInv ==
  /\ split \subseteq Tree
  /\ \A b \in Tree : b \in Bucket /\ b.min < b.max
  /\ \A b \in split : Splittable(b)
  /\ \A b \in Tree \ split : \A c \in Tree :
       c = b \/ Apart(b, c) \/ Within(b, c)

OnStack(o) == task[o].pc \in {"walk", "split"}

StackInv ==
  /\ \A o, p \in Obj : OnStack(o) /\ OnStack(p) => o = p
  /\ \A o \in Obj : OnStack(o) => task[o].bucket \in Tree
  /\ \A o \in Obj : task[o].pc = "new" => task[o].bucket = Root
  /\ \A o \in Obj : task[o].pc = "ping" => task[o].unknown # <<>>

\* While a bucket hands its contacts to its children, the three arrays
\* together hold no more than K, and no insertion holds a child.
SplitInv ==
  \A o \in Obj : task[o].pc = "split" =>
    LET b == task[o].bucket IN
    /\ b \in split
    /\ Len(contacts[b]) + Len(contacts[Left(b)]) + Len(contacts[Right(b)]) <= K
    /\ \A w \in Waiting : task[w].bucket # Left(b) /\ task[w].bucket # Right(b)

\* The bucket captured before an await can never be split.
WaitInv ==
  ~disposed => \A o \in Waiting :
    LET b == task[o].bucket IN
    /\ b \in Tree \ split
    /\ ~(ContainsLocal(b) /\ Splittable(b))
    /\ Len(contacts[b]) = K

PlaceInv ==
  /\ \A o \in Obj : OnStack(o) \/ task[o].pc = "ping" =>
       node[o].id \in Id /\ InTextRange(node[o].id, task[o].bucket)
  /\ \A b \in Bucket : \A j \in 1 .. Len(contacts[b]) :
       LET p == contacts[b][j] IN
       /\ task[p].pc # "new"
       /\ node[p].id \in Id
       /\ InTextRange(node[p].id, b)

DisposeInv ==
  disposed => Idle /\ ~loading /\ DisposedStaysEmpty

IInv == /\ TypeOK /\ Capacity /\ TreeInv /\ StackInv /\ SplitInv /\ WaitInv
        /\ PlaceInv /\ DisposeInv

-----------------------------------------------------------------------------
(* Arrays.                                                                 *)

\* splice(i, 1) on a nonempty array: one element fewer, and no new ones.
LEMMA RemoveAtFacts ==
  ASSUME NEW S, NEW s \in Seq(S), NEW i \in 1 .. Len(s)
  PROVE  /\ RemoveAt(s, i) \in Seq(S)
         /\ Len(RemoveAt(s, i)) = Len(s) - 1
         /\ \A j \in 1 .. Len(s) - 1 :
              RemoveAt(s, i)[j] = s[IF j < i THEN j ELSE j + 1]
<1> DEFINE l == SubSeq(s, 1, i - 1)
           r == SubSeq(s, i + 1, Len(s))
<1>1. l \in Seq(S) /\ Len(l) = i - 1 /\ \A j \in 1 .. i - 1 : l[j] = s[j]
  OBVIOUS
<1>2. /\ r \in Seq(S) /\ Len(r) = Len(s) - i
      /\ \A j \in 1 .. Len(s) - i : r[j] = s[i + j]
  OBVIOUS
<1>3. RemoveAt(s, i) = l \o r
  BY DEF RemoveAt
<1> HIDE DEF l, r
<1>4. /\ l \o r \in Seq(S) /\ Len(l \o r) = Len(l) + Len(r)
      /\ \A j \in 1 .. Len(l) + Len(r) :
           (l \o r)[j] = IF j <= Len(l) THEN l[j] ELSE r[j - Len(l)]
  BY <1>1, <1>2, ConcatProperties
<1>5. i \in Int /\ Len(s) \in Int /\ Len(l \o r) = Len(s) - 1
  BY <1>1, <1>2, <1>4
<1>6. ASSUME NEW j \in 1 .. Len(s) - 1
      PROVE  (l \o r)[j] = s[IF j < i THEN j ELSE j + 1]
  <2>1. CASE j < i
    BY <2>1, <1>1, <1>4, <1>5, <1>2
  <2>2. CASE ~(j < i)
    <3>1. (l \o r)[j] = r[j - (i - 1)]
      BY <2>2, <1>1, <1>2, <1>4, <1>5
    <3>2. j - (i - 1) \in 1 .. Len(s) - i /\ i + (j - (i - 1)) = j + 1
      BY <2>2, <1>5
    <3> QED
      BY <2>2, <3>1, <3>2, <1>2
  <2> QED
    BY <2>1, <2>2
<1> QED
  BY <1>3, <1>4, <1>5, <1>6

\* push(x) on an array.
LEMMA AppendFacts ==
  ASSUME NEW S, NEW s \in Seq(S), NEW x \in S
  PROVE  /\ Append(s, x) \in Seq(S)
         /\ Len(Append(s, x)) = Len(s) + 1
         /\ \A j \in 1 .. Len(s) : Append(s, x)[j] = s[j]
         /\ Append(s, x)[Len(s) + 1] = x
  OBVIOUS

LEMMA TailFacts ==
  ASSUME NEW S, NEW s \in Seq(S), s # <<>>
  PROVE  /\ Len(s) >= 1
         /\ Head(s) \in S /\ Head(s) = s[1]
         /\ Tail(s) \in Seq(S)
         /\ Len(Tail(s)) = Len(s) - 1
         /\ \A j \in 1 .. Len(s) - 1 : Tail(s)[j] = s[j + 1]
  OBVIOUS

-----------------------------------------------------------------------------
(* Buckets.                                                                *)

LEMMA MidBetween ==
  ASSUME NEW b \in Bucket, b.min < b.max
  PROVE  Mid(b) \in Byte /\ b.min < Mid(b) /\ Mid(b) <= b.max
  BY ConstantsAssumption DEF Bucket, Byte, Mid

LEMMA ChildFacts ==
  ASSUME NEW b \in Bucket, b.min < b.max, Splittable(b)
  PROVE  /\ Left(b) \in Bucket /\ Right(b) \in Bucket
         /\ b.min < Mid(b) /\ Mid(b) < b.max
         /\ Left(b) # b /\ Right(b) # b /\ Left(b) # Right(b)
  BY MidBetween, ConstantsAssumption DEF Bucket, Byte, Left, Right, Splittable

LEMMA RootFacts == Root \in Bucket /\ Root.min < Root.max
  BY ConstantsAssumption DEF Root, Bucket, Byte

\* An id decodes to two ranks, the first of which is never below 0.
LEMMA TextType ==
  ASSUME NEW i \in Id
  PROVE  /\ Text(i) \in Int \X Int
         /\ Text(i) = <<Text(i)[1], Text(i)[2]>>
         /\ Text(i)[1] \in Int /\ Text(i)[2] \in Int
<1>1. i \in Byte \X Byte
  BY ConstantsAssumption
<1>2. Decoded[i] \in Int \X Int
  BY <1>1, DecodingAssumption
<1> QED
  BY <1>2 DEF Text

\* No id is below the first bound of the root, and its last bound bounds none.
LEMMA RootHoldsAll == \A i \in Id : InTextRange(i, Root)
<1> SUFFICES ASSUME NEW i \in Id PROVE InTextRange(i, Root)
  OBVIOUS
<1>1. i \in Byte \X Byte /\ i[1] \in Byte /\ i[2] \in Byte
  BY ConstantsAssumption
<1>2. Text(i) = <<Text(i)[1], Text(i)[2]>> /\ Text(i)[1] \in Int /\ Text(i)[2] \in Int
  BY TextType
<1>3. Bound(Root.min) = <<0, 0>>
  BY ConstantsAssumption DEF Bound, Char, Root
<1>4. AtMost(<<0, 0>>, Text(i))
  <2>1. Text(i)[1] > 0 \/ (Text(i)[1] = 0 /\ Text(i)[2] >= 0)
    BY <1>1, <1>2, DecodingAssumption, ConstantsAssumption DEF Text, Byte
  <2> QED
    BY <2>1, <1>2 DEF AtMost, Less
<1> QED
  BY <1>3, <1>4 DEF InTextRange, Root

\* An id that is at most, or at least, the middle is in range of that child.
LEMMA ChildRange ==
  ASSUME NEW b \in Bucket, b.min < b.max, NEW i \in Id, InTextRange(i, b)
  PROVE  /\ AtMost(Text(i), Bound(Mid(b))) => InTextRange(i, Left(b))
         /\ Less(Text(i), Bound(Mid(b))) => InTextRange(i, Left(b))
         /\ ~AtMost(Text(i), Bound(Mid(b))) => InTextRange(i, Right(b))
         /\ ~Less(Text(i), Bound(Mid(b))) => InTextRange(i, Right(b))
<1>1. Mid(b) \in Byte /\ Mid(b) <= b.max
  BY MidBetween
<1>2. /\ Text(i) = <<Text(i)[1], Text(i)[2]>>
      /\ Text(i)[1] \in Int /\ Text(i)[2] \in Int
  BY TextType
<1>3. Char(Mid(b)) \in Int
  BY <1>1, ConstantsAssumption DEF Char, Byte
<1> HIDE DEF Text
<1>4. ~AtMost(Text(i), Bound(Mid(b))) => AtMost(Bound(Mid(b)), Text(i))
  BY <1>2, <1>3 DEF AtMost, Less, Bound
<1>5. ~Less(Text(i), Bound(Mid(b))) => AtMost(Bound(Mid(b)), Text(i))
  BY <1>2, <1>3 DEF AtMost, Less, Bound
<1>6. Less(Text(i), Bound(Mid(b))) => AtMost(Text(i), Bound(Mid(b)))
  BY DEF AtMost
<1> QED
  BY <1>4, <1>5, <1>6 DEF InTextRange, Left, Right

-----------------------------------------------------------------------------
(* The initial state, and the turns that only touch Node objects.          *)

LEMMA InitIInv == Init => IInv
<1> SUFFICES ASSUME Init PROVE IInv
  OBVIOUS
<1>1. TypeOK
  <2>1. Boot \in Time /\ 0 \in Time /\ 0 \in 0 .. MaxFailed
    BY ConstantsAssumption DEF Time
  <2>2. Blank \in NodeRecord
    BY <2>1 DEF Blank, NodeRecord
  <2>3. <<>> \in Seq(Obj)
    OBVIOUS
  <2>4. [pc |-> "new", bucket |-> Root, unknown |-> <<>>] \in Task
    BY <2>3, RootFacts DEF Task, Pc
  <2>5. contacts \in [Bucket -> Seq(Obj)]
    BY <2>3 DEF Init
  <2> QED
    BY <2>1, <2>2, <2>4, <2>5 DEF Init, TypeOK
<1>2. Capacity
  BY ConstantsAssumption DEF Init, Capacity
<1>3. TreeInv
  BY RootFacts DEF Init, TreeInv, Tree
<1>4. StackInv /\ SplitInv /\ WaitInv /\ DisposeInv
  BY DEF Init, StackInv, OnStack, SplitInv, WaitInv, Waiting, DisposeInv
<1>5. PlaceInv
  BY DEF Init, PlaceInv, OnStack
<1> QED
  BY <1>1, <1>2, <1>3, <1>4, <1>5 DEF IInv

\* What IInv says of the table and the tasks survives a step that changes
\* neither them nor the id of a Node object.
LEMMA NodeOnly ==
  ASSUME IInv, TypeOK', UNCHANGED <<tree, task, disposed>>,
         loading' => loading,
         \A o \in Obj : node'[o].id = node[o].id
  PROVE  IInv'
<1>1. Capacity' /\ TreeInv' /\ SplitInv' /\ StackInv'
  BY DEF IInv, tree, Capacity, TreeInv, Tree, StackInv, OnStack, SplitInv,
         Waiting
<1>2. WaitInv'
  BY DEF IInv, tree, WaitInv, Waiting, Tree
<1>3. PlaceInv'
  <2>1. contacts' = contacts /\ task' = task
    BY DEF tree
  <2>2. \A b \in Bucket : \A j \in 1 .. Len(contacts[b]) : contacts[b][j] \in Obj
    BY DEF IInv, TypeOK
  <2> QED
    BY <2>1, <2>2 DEF IInv, PlaceInv, OnStack
<1>4. DisposeInv'
  BY DEF IInv, tree, DisposeInv, DisposedStaysEmpty, Idle
<1> QED
  BY <1>1, <1>2, <1>3, <1>4 DEF IInv

LEMMA TouchStep ==
  ASSUME IInv, NEW i \in Id, NEW r \in NodeRecord, Touch(i, r),
         nodeMap[i] # None, r.id = node[nodeMap[i]].id,
         UNCHANGED <<loading, disposed, now>>
  PROVE  IInv'
<1>1. nodeMap[i] \in Obj
  BY DEF IInv, TypeOK
<1>2. TypeOK'
  BY <1>1 DEF IInv, TypeOK, Touch, tree
<1>3. \A o \in Obj : node'[o].id = node[o].id
  BY <1>1 DEF IInv, TypeOK, Touch
<1> QED
  BY <1>2, <1>3, NodeOnly DEF Touch

\* A new Node object is on the stack at the root and, as no other call is,
\* alone.
LEMMA InsertStep ==
  ASSUME IInv, Idle, ~disposed, NEW r \in NodeRecord, r.id \in Id, Insert(r),
         UNCHANGED <<loading, disposed, now>>
  PROVE  IInv'
<1> PICK o \in Obj : /\ task[o].pc = "new"
                     /\ node' = [node EXCEPT ![o] = r]
                     /\ task' = [task EXCEPT ![o].pc = "walk"]
  BY DEF Insert
<1>1. UNCHANGED <<contacts, split, lastChanged, nodeMap>>
  BY DEF Insert, tree
<1>2. TypeOK'
  BY <1>1 DEF IInv, TypeOK, Task, Pc
<1>3. /\ task'[o].pc = "walk" /\ task'[o].bucket = Root
      /\ node'[o] = r
      /\ \A p \in Obj : p # o => task'[p] = task[p] /\ node'[p] = node[p]
  BY DEF IInv, TypeOK, Task, StackInv
<1>4. Waiting' = Waiting /\ o \notin Waiting
  BY <1>3 DEF Waiting
<1>5. Capacity' /\ TreeInv'
  BY <1>1 DEF IInv, Capacity, TreeInv, Tree
<1>6. StackInv'
  BY <1>1, <1>3 DEF IInv, StackInv, OnStack, Idle, Tree
<1>7. SplitInv' /\ WaitInv'
  <2>1. \A p \in Obj : task'[p].pc # "split"
    BY <1>3 DEF Idle
  <2> QED
    BY <2>1, <1>1, <1>3, <1>4 DEF IInv, SplitInv, WaitInv, Waiting, Tree
<1>8. PlaceInv'
  <2>1. \A b \in Bucket : \A j \in 1 .. Len(contacts[b]) :
          contacts[b][j] \in Obj /\ contacts[b][j] # o
    BY DEF IInv, TypeOK, PlaceInv
  <2> QED
    BY <1>1, <1>3, <2>1, RootHoldsAll DEF IInv, PlaceInv, OnStack
<1>9. DisposeInv'
  BY DEF DisposeInv
<1> QED
  BY <1>2, <1>5, <1>6, <1>7, <1>8, <1>9 DEF IInv

-----------------------------------------------------------------------------
(* The synchronous steps of _insertNode.                                   *)

LEMMA ReturnFacts ==
  ASSUME TypeOK, NEW o \in Obj, Return(o)
  PROVE  /\ task' \in [Obj -> Task]
         /\ task'[o].pc = "done"
         /\ \A p \in Obj : p # o => task'[p] = task[p]
<1>1. <<>> \in Seq(Obj)
  OBVIOUS
<1> QED
  BY <1>1 DEF TypeOK, Return, Task, Pc

LEMMA GotoFacts ==
  ASSUME TypeOK, NEW o \in Obj, NEW b \in Bucket, Goto(o, b)
  PROVE  /\ task' \in [Obj -> Task]
         /\ task'[o].pc = "walk" /\ task'[o].bucket = b
         /\ \A p \in Obj : p # o => task'[p] = task[p]
  BY DEF TypeOK, Goto, Task, Pc

LEMMA PingFacts ==
  ASSUME TypeOK, NEW o \in Obj, NEW q \in Seq(Obj),
         task' = [task EXCEPT ![o].pc = "ping", ![o].unknown = q]
  PROVE  /\ task' \in [Obj -> Task]
         /\ task'[o].pc = "ping" /\ task'[o].bucket = task[o].bucket
         /\ task'[o].unknown = q
         /\ \A p \in Obj : p # o => task'[p] = task[p]
  BY DEF TypeOK, Task, Pc

\* What a step of o's insertion may rely on.
LEMMA StackFacts ==
  ASSUME IInv, NEW o \in Obj, OnStack(o)
  PROVE  /\ task[o].bucket \in Tree /\ task[o].bucket \in Bucket
         /\ task[o].bucket.min < task[o].bucket.max
         /\ contacts[task[o].bucket] \in Seq(Obj)
         /\ node[o].id \in Id /\ InTextRange(node[o].id, task[o].bucket)
         /\ ~disposed
         /\ \A p \in Obj : p # o => ~OnStack(p)
  BY DEF IInv, TypeOK, StackInv, TreeInv, PlaceInv, DisposeInv, Idle, OnStack

LEMMA AddContactStep ==
  ASSUME IInv, NEW o \in Obj, AddContact(o)
  PROVE  IInv'
<1> DEFINE b == task[o].bucket
<1>1. OnStack(o) /\ task[o].pc = "walk"
  BY DEF AddContact, OnStack
<1>2. /\ b \in Tree /\ b \in Bucket /\ contacts[b] \in Seq(Obj)
      /\ node[o].id \in Id /\ InTextRange(node[o].id, b) /\ ~disposed
      /\ \A p \in Obj : p # o => ~OnStack(p)
  BY <1>1, StackFacts
<1>3. /\ contacts' = [contacts EXCEPT ![b] = Append(contacts[b], o)]
      /\ UNCHANGED <<split, node, loading, disposed, now>>
      /\ Return(o) /\ Len(contacts[b]) < K
  BY <1>2, ConstantsAssumption DEF AddContact, Full
<1>4. /\ task' \in [Obj -> Task] /\ task'[o].pc = "done"
      /\ \A p \in Obj : p # o => task'[p] = task[p]
  BY <1>3, ReturnFacts DEF IInv
<1>5. Waiting' = Waiting /\ o \notin Waiting
  BY <1>1, <1>4 DEF Waiting
<1>6. /\ contacts'[b] \in Seq(Obj) /\ Len(contacts'[b]) = Len(contacts[b]) + 1
      /\ contacts'[b][Len(contacts[b]) + 1] = o
      /\ \A j \in 1 .. Len(contacts[b]) : contacts'[b][j] = contacts[b][j]
      /\ \A c \in Bucket : c # b => contacts'[c] = contacts[c]
  BY <1>2, <1>3, AppendFacts DEF IInv, TypeOK
<1>7. TypeOK'
  BY <1>2, <1>3, <1>4, <1>6 DEF IInv, TypeOK, AddContact
<1>8. Capacity'
  BY <1>2, <1>3, <1>6, ConstantsAssumption DEF IInv, Capacity
<1>9. TreeInv' /\ StackInv'
  BY <1>3, <1>4, <1>2 DEF IInv, TreeInv, Tree, StackInv, OnStack
<1>10. SplitInv'
  BY <1>2, <1>4 DEF SplitInv, OnStack
<1>11. WaitInv'
  <2> SUFFICES ASSUME NEW w \in Waiting
               PROVE  /\ task[w].bucket \in Tree \ split
                      /\ ~(ContainsLocal(task[w].bucket) /\ Splittable(task[w].bucket))
                      /\ Len(contacts'[task[w].bucket]) = K
    BY <1>2, <1>3, <1>4, <1>5 DEF WaitInv, Waiting, Tree
  <2>1. /\ task[w].bucket \in Tree \ split
        /\ ~(ContainsLocal(task[w].bucket) /\ Splittable(task[w].bucket))
        /\ Len(contacts[task[w].bucket]) = K
    BY <1>2 DEF IInv, WaitInv
  <2>2. task[w].bucket # b
    BY <1>2, <1>3, <2>1, ConstantsAssumption
  <2>3. task[w].bucket \in Bucket
    BY <2>1 DEF IInv, TreeInv
  <2> QED
    BY <1>6, <2>1, <2>2, <2>3
<1>12. PlaceInv'
  <2>1. \A p \in Obj : OnStack(p)' \/ task'[p].pc = "ping" =>
          node[p].id \in Id /\ InTextRange(node[p].id, task'[p].bucket)
    BY <1>2, <1>4 DEF OnStack, IInv, PlaceInv
  <2>2. ASSUME NEW c \in Bucket, NEW j \in 1 .. Len(contacts'[c])
        PROVE  LET p == contacts'[c][j] IN
               /\ task'[p].pc # "new" /\ node[p].id \in Id
               /\ InTextRange(node[p].id, c)
    <3>1. CASE c = b /\ j = Len(contacts[b]) + 1
      BY <1>2, <1>4, <1>6, <3>1
    <3>2. CASE j \in 1 .. Len(contacts[c]) /\ contacts'[c][j] = contacts[c][j]
      <4>1. contacts[c][j] \in Obj
        BY <3>2 DEF IInv, TypeOK
      <4> QED
        BY <3>2, <4>1, <1>4 DEF IInv, PlaceInv
    <3> QED
      BY <1>2, <1>6, <3>1, <3>2
  <2> QED
    BY <2>1, <2>2, <1>3 DEF PlaceInv
<1>13. DisposeInv'
  BY <1>2, <1>3 DEF DisposeInv
<1> QED
  BY <1>7, <1>8, <1>9, <1>10, <1>11, <1>12, <1>13 DEF IInv

\* A step that only moves o's own task, to another bucket of the tree, to a
\* ping at a leaf that stays a leaf, or to its end.
LEMMA TaskOnly ==
  ASSUME IInv, NEW o \in Obj, OnStack(o), TypeOK',
         UNCHANGED <<contacts, split, node, nodeMap, loading, disposed>>,
         \A p \in Obj : p # o => task'[p] = task[p],
         task'[o].pc \in {"walk", "ping", "done"},
         task'[o].pc # "done" => InTextRange(node[o].id, task'[o].bucket),
         task'[o].pc = "walk" => task'[o].bucket \in Tree,
         task'[o].pc = "ping" =>
           /\ task'[o].unknown # <<>>
           /\ task'[o].bucket \in Tree \ split
           /\ ~(ContainsLocal(task'[o].bucket) /\ Splittable(task'[o].bucket))
           /\ Len(contacts[task'[o].bucket]) = K
  PROVE  IInv'
<1>1. node[o].id \in Id /\ ~disposed /\ \A p \in Obj : p # o => ~OnStack(p)
  BY StackFacts
<1>2. Capacity' /\ TreeInv'
  BY DEF IInv, Capacity, TreeInv, Tree
<1>3. StackInv'
  BY <1>1 DEF IInv, StackInv, OnStack, Tree
<1>4. SplitInv'
  BY <1>1 DEF SplitInv, OnStack
<1>5. WaitInv'
  BY <1>1 DEF IInv, WaitInv, Waiting, Tree
<1>6. PlaceInv'
  <2>1. \A p \in Obj : OnStack(p)' \/ task'[p].pc = "ping" =>
          node[p].id \in Id /\ InTextRange(node[p].id, task'[p].bucket)
    BY <1>1 DEF OnStack, IInv, PlaceInv
  <2>2. \A b \in Bucket : \A j \in 1 .. Len(contacts[b]) :
          contacts[b][j] \in Obj
    BY DEF IInv, TypeOK
  <2>3. \A b \in Bucket : \A j \in 1 .. Len(contacts[b]) :
          task'[contacts[b][j]].pc # "new"
    BY <2>2 DEF IInv, PlaceInv
  <2> QED
    BY <2>1, <2>3 DEF IInv, PlaceInv
<1>7. DisposeInv'
  BY <1>1 DEF DisposeInv
<1> QED
  BY <1>2, <1>3, <1>4, <1>5, <1>6, <1>7 DEF IInv

LEMMA ChildInTree ==
  ASSUME IInv, NEW b \in split
  PROVE  /\ b \in Bucket /\ b.min < b.max /\ Splittable(b)
         /\ Left(b) \in Tree /\ Right(b) \in Tree
         /\ Left(b) \in Bucket /\ Right(b) \in Bucket
  BY DEF IInv, TreeInv, Tree

LEMMA WalkStep ==
  ASSUME IInv, NEW o \in Obj, Walk(o)
  PROVE  IInv'
<1> DEFINE b == task[o].bucket
           c == IF AtMost(Text(node[o].id), Bound(Mid(b))) THEN Left(b)
                                                           ELSE Right(b)
<1>1. OnStack(o) /\ b \in split /\ Goto(o, c)
  BY DEF Walk, OnStack
<1>2. node[o].id \in Id /\ InTextRange(node[o].id, b)
  BY <1>1, StackFacts
<1>3. c \in Tree /\ c \in Bucket /\ InTextRange(node[o].id, c)
  BY <1>1, <1>2, ChildInTree, ChildRange
<1> HIDE DEF c
<1>4. /\ task' \in [Obj -> Task]
      /\ task'[o].pc = "walk" /\ task'[o].bucket = c
      /\ \A p \in Obj : p # o => task'[p] = task[p]
  BY <1>1, <1>3, GotoFacts DEF IInv
<1>5. UNCHANGED <<contacts, split, lastChanged, nodeMap, node, loading,
                  disposed, now>>
  BY DEF Walk, tree
<1>6. TypeOK'
  BY <1>4, <1>5 DEF IInv, TypeOK
<1> QED
  BY <1>1, <1>3, <1>4, <1>5, <1>6, TaskOnly

LEMMA EndSplitStep ==
  ASSUME IInv, NEW o \in Obj, EndSplit(o)
  PROVE  IInv'
<1> DEFINE b == task[o].bucket
           c == IF Less(Text(node[o].id), Bound(Mid(b))) THEN Left(b)
                                                         ELSE Right(b)
<1>1. OnStack(o) /\ b \in split /\ Goto(o, c)
  BY DEF EndSplit, OnStack, IInv, SplitInv
<1>2. node[o].id \in Id /\ InTextRange(node[o].id, b)
  BY <1>1, StackFacts
<1>3. c \in Tree /\ c \in Bucket /\ InTextRange(node[o].id, c)
  BY <1>1, <1>2, ChildInTree, ChildRange
<1> HIDE DEF c
<1>4. /\ task' \in [Obj -> Task]
      /\ task'[o].pc = "walk" /\ task'[o].bucket = c
      /\ \A p \in Obj : p # o => task'[p] = task[p]
  BY <1>1, <1>3, GotoFacts DEF IInv
<1>5. UNCHANGED <<contacts, split, lastChanged, nodeMap, node, loading,
                  disposed, now>>
  BY DEF EndSplit, tree
<1>6. TypeOK'
  BY <1>4, <1>5 DEF IInv, TypeOK
<1> QED
  BY <1>1, <1>3, <1>4, <1>5, <1>6, TaskOnly

LEMMA DiscardStep ==
  ASSUME IInv, NEW o \in Obj, Discard(o)
  PROVE  IInv'
<1>1. OnStack(o) /\ Return(o)
  BY DEF Discard, AtFullLeaf, OnStack
<1>2. /\ task' \in [Obj -> Task] /\ task'[o].pc = "done"
      /\ \A p \in Obj : p # o => task'[p] = task[p]
  BY <1>1, ReturnFacts DEF IInv
<1>3. UNCHANGED <<contacts, split, lastChanged, nodeMap, node, loading,
                  disposed, now>>
  BY DEF Discard, tree
<1>4. TypeOK'
  BY <1>2, <1>3 DEF IInv, TypeOK
<1> QED
  BY <1>1, <1>2, <1>3, <1>4, TaskOnly

LEMMA FunctionIsSeq ==
  ASSUME NEW S, NEW n \in Nat, NEW q \in [1 .. n -> S]
  PROVE  q \in Seq(S)
BY SeqDef, Zenon

LEMMA StartPingsStep ==
  ASSUME IInv, NEW o \in Obj, StartPings(o)
  PROVE  IInv'
<1> DEFINE b == task[o].bucket
           s == contacts[b]
           bad == {i \in 1 .. Len(s) : ~IsGood(s[i])}
<1>1. OnStack(o) /\ AtFullLeaf(o)
  BY DEF StartPings, AtFullLeaf, OnStack
<1>2. /\ b \in Tree /\ b \in Bucket /\ s \in Seq(Obj)
      /\ node[o].id \in Id /\ InTextRange(node[o].id, b)
  BY <1>1, StackFacts
<1>3. Len(s) = K /\ b \notin split /\ ~(ContainsLocal(b) /\ Splittable(b))
  BY <1>1, <1>2, ConstantsAssumption
  DEF AtFullLeaf, Full, CanSplit, IInv, Capacity
<1> PICK n \in 1 .. Len(s) : \E u \in [1 .. n -> bad] :
      task' = [task EXCEPT ![o].pc = "ping",
                           ![o].unknown = [j \in 1 .. n |-> s[u[j]]]]
  BY DEF StartPings
<1> PICK u \in [1 .. n -> bad] :
      task' = [task EXCEPT ![o].pc = "ping",
                           ![o].unknown = [j \in 1 .. n |-> s[u[j]]]]
  OBVIOUS
<1> DEFINE q == [j \in 1 .. n |-> s[u[j]]]
<1>4. n \in Nat /\ n >= 1
  BY <1>2
<1>5. q \in Seq(Obj) /\ q # <<>>
  <2>1. q \in [1 .. n -> Obj]
    BY <1>2
  <2>2. q \in Seq(Obj)
    BY <1>4, <2>1, FunctionIsSeq
  <2>3. q[1] \in Obj /\ DOMAIN q = 1 .. n /\ 1 \in DOMAIN q
    BY <1>4, <2>1
  <2>4. DOMAIN q # 1 .. 0
    BY <1>4, <2>3
  <2> QED
    BY <2>2, <2>4
<1>6. task' = [task EXCEPT ![o].pc = "ping", ![o].unknown = q]
  OBVIOUS
<1> HIDE DEF q
<1>7. /\ task' \in [Obj -> Task]
      /\ task'[o].pc = "ping" /\ task'[o].bucket = b /\ task'[o].unknown # <<>>
      /\ \A p \in Obj : p # o => task'[p] = task[p]
  BY <1>5, <1>6, PingFacts DEF IInv
<1>8. UNCHANGED <<contacts, split, lastChanged, nodeMap, node, loading,
                  disposed, now>>
  BY DEF StartPings, tree
<1>9. TypeOK'
  BY <1>7, <1>8 DEF IInv, TypeOK
<1> QED
  BY <1>1, <1>2, <1>3, <1>7, <1>8, <1>9, TaskOnly

-----------------------------------------------------------------------------
(* Splitting a bucket.                                                     *)

LEMMA SplitTree ==
  ASSUME TreeInv, NEW b \in Tree \ split, Splittable(b),
         split' = split \cup {b}
  PROVE  /\ TreeInv'
         /\ Tree' = Tree \cup {Left(b), Right(b)}
         /\ Left(b) \notin Tree /\ Right(b) \notin Tree
<1>1. /\ b \in Bucket /\ b.min < b.max
      /\ Left(b) \in Bucket /\ Right(b) \in Bucket
      /\ b.min < Mid(b) /\ Mid(b) < b.max
  BY ChildFacts DEF TreeInv
<1>2. /\ Left(b).min = b.min /\ Left(b).max = Mid(b)
      /\ Right(b).min = Mid(b) /\ Right(b).max = b.max
  BY DEF Left, Right
<1>3. Tree' = Tree \cup {Left(b), Right(b)}
  BY DEF Tree, Root, Left, Right, Mid
<1>4. \A c \in Tree : /\ c \in Bucket /\ c.min \in Int /\ c.max \in Int
                      /\ c.min < c.max
  BY ConstantsAssumption DEF TreeInv, Bucket, Byte
<1>5. b.min \in Int /\ b.max \in Int /\ Mid(b) \in Int
  BY <1>1, MidBetween, ConstantsAssumption DEF Bucket, Byte
<1>6. \A c \in Tree : c = b \/ Apart(b, c) \/ Within(b, c)
  BY DEF TreeInv
<1>7. Left(b) \notin Tree /\ Right(b) \notin Tree
  BY <1>1, <1>2, <1>4, <1>5, <1>6 DEF Apart, Within
<1>8. \A c \in Tree' : c \in Bucket /\ c.min < c.max
  BY <1>1, <1>2, <1>3, <1>4
<1>9. split' \subseteq Tree' /\ \A c \in split' : Splittable(c)
  BY <1>3 DEF TreeInv
<1>10. ASSUME NEW l \in Tree' \ split', NEW c \in Tree'
       PROVE  c = l \/ Apart(l, c) \/ Within(l, c)
  <2>1. CASE l \in Tree /\ c \in Tree
    BY <2>1 DEF TreeInv
  <2>2. CASE l \in Tree /\ c \in {Left(b), Right(b)}
    <3>1. l \in Tree \ split /\ l # b
      BY <2>2
    <3>2. /\ b = l \/ Apart(l, b) \/ Within(l, b)
          /\ l = b \/ Apart(b, l) \/ Within(b, l)
      BY <3>1 DEF TreeInv
    <3>3. l.min \in Int /\ l.max \in Int /\ l.min < l.max
      BY <2>2, <1>4
    <3>4. l # b => ~(l.min = b.min /\ l.max = b.max)
      BY <1>1, <1>4, <2>2 DEF Bucket
    <3>5. Apart(l, b)
      BY <3>1, <3>2, <3>3, <3>4, <1>1, <1>5 DEF Apart, Within
    <3> QED
      BY <2>2, <3>5, <3>3, <1>1, <1>2, <1>5 DEF Apart
  <2>3. CASE l \in {Left(b), Right(b)} /\ c \in Tree
    <3>1. c.min \in Int /\ c.max \in Int
      BY <2>3, <1>4
    <3> QED
      BY <2>3, <3>1, <1>6, <1>1, <1>2, <1>5 DEF Apart, Within
  <2>4. CASE l \in {Left(b), Right(b)} /\ c \in {Left(b), Right(b)}
    BY <2>4, <1>2, <1>5 DEF Apart
  <2> QED
    BY <1>3, <2>1, <2>2, <2>3, <2>4
<1> QED
  BY <1>3, <1>7, <1>8, <1>9, <1>10 DEF TreeInv, Apart, Within, Splittable,
                                        Mid, Bucket, Byte

LEMMA BeginSplitStep ==
  ASSUME IInv, NEW o \in Obj, BeginSplit(o)
  PROVE  IInv'
<1> DEFINE b == task[o].bucket
           L == Left(b)
           R == Right(b)
<1>1. /\ OnStack(o) /\ task[o].pc = "walk" /\ b \notin split
      /\ ContainsLocal(b) /\ Splittable(b) /\ Len(contacts[b]) >= K
  BY DEF BeginSplit, OnStack, CanSplit, Full
<1>2. /\ b \in Tree /\ b \in Bucket /\ b.min < b.max /\ contacts[b] \in Seq(Obj)
      /\ node[o].id \in Id /\ InTextRange(node[o].id, b) /\ ~disposed
      /\ \A p \in Obj : p # o => ~OnStack(p)
  BY <1>1, StackFacts
<1>3. /\ split' = split \cup {b}
      /\ contacts' = [contacts EXCEPT ![L] = <<>>, ![R] = <<>>]
      /\ lastChanged' = [lastChanged EXCEPT ![L] = now, ![R] = now]
      /\ task' = [task EXCEPT ![o].pc = "split"]
      /\ UNCHANGED <<nodeMap, node, loading, disposed, now>>
  BY DEF BeginSplit
<1>4. /\ TreeInv' /\ Tree' = Tree \cup {L, R} /\ L \notin Tree /\ R \notin Tree
  BY <1>1, <1>2, <1>3, SplitTree DEF IInv
<1>5. L \in Bucket /\ R \in Bucket /\ L # b /\ R # b /\ L # R
  BY <1>1, <1>2, ChildFacts
<1>6. /\ contacts' \in [Bucket -> Seq(Obj)]
      /\ Len(contacts'[L]) = 0 /\ Len(contacts'[R]) = 0
      /\ \A c \in Bucket : c # L /\ c # R => contacts'[c] = contacts[c]
  BY <1>3, <1>5, EmptySeq DEF IInv, TypeOK
<1>7. /\ task' \in [Obj -> Task] /\ task'[o].pc = "split"
      /\ task'[o].bucket = b
      /\ \A p \in Obj : p # o => task'[p] = task[p]
  BY <1>3 DEF IInv, TypeOK, Task, Pc
<1>8. Waiting' = Waiting /\ o \notin Waiting
  BY <1>1, <1>7 DEF Waiting
<1> HIDE DEF L, R
<1>9. TypeOK'
  BY <1>2, <1>3, <1>6, <1>7 DEF IInv, TypeOK
<1>10. Capacity'
  BY <1>6, ConstantsAssumption DEF IInv, Capacity
<1>11. StackInv'
  BY <1>2, <1>4, <1>7 DEF IInv, StackInv, OnStack
<1>12. \A w \in Waiting : /\ task[w].bucket \in Tree \ split'
                          /\ task[w].bucket # L /\ task[w].bucket # R
                          /\ task[w].bucket # b
                          /\ task[w].bucket \in Bucket
  BY <1>1, <1>2, <1>3, <1>4 DEF IInv, WaitInv, TreeInv
<1>13. SplitInv'
  <2>1. \A p \in Obj : task'[p].pc = "split" => p = o
    BY <1>2, <1>7 DEF OnStack
  <2>2. Len(contacts'[b]) <= K
    BY <1>2, <1>5, <1>6 DEF IInv, Capacity
  <2>3. \A w \in Waiting : task'[w] = task[w]
    BY <1>7, <1>8 DEF Waiting
  <2>4. Len(contacts'[b]) \in Nat
    BY <1>2, <1>6
  <2>5. Len(contacts'[b]) + Len(contacts'[L]) + Len(contacts'[R]) <= K
    BY <1>6, <2>2, <2>4, ConstantsAssumption
  <2>6. ASSUME NEW p \in Obj, task'[p].pc = "split"
        PROVE  LET c == task'[p].bucket IN
               /\ c \in split'
               /\ Len(contacts'[c]) + Len(contacts'[Left(c)])
                    + Len(contacts'[Right(c)]) <= K
               /\ \A w \in Waiting' : /\ task'[w].bucket # Left(c)
                                      /\ task'[w].bucket # Right(c)
    <3>1. task'[p].bucket = b /\ b \in split'
      BY <1>3, <1>7, <2>1, <2>6
    <3>2. \A w \in Waiting' : task'[w].bucket # L /\ task'[w].bucket # R
      BY <1>8, <1>12, <2>3
    <3> QED
      BY <3>1, <3>2, <2>5 DEF L, R
  <2> QED
    BY <2>6 DEF SplitInv
<1>14. WaitInv'
  <2>1. \A w \in Waiting : /\ task'[w] = task[w]
                           /\ contacts'[task[w].bucket] = contacts[task[w].bucket]
    BY <1>6, <1>7, <1>8, <1>12 DEF Waiting
  <2>2. \A w \in Waiting :
          LET c == task'[w].bucket IN
          /\ c \in Tree' \ split'
          /\ ~(ContainsLocal(c) /\ Splittable(c))
          /\ Len(contacts'[c]) = K
    BY <1>2, <1>4, <1>12, <2>1 DEF IInv, WaitInv
  <2> QED
    BY <1>8, <2>2 DEF WaitInv
<1>15. PlaceInv'
  <2>1. \A p \in Obj : OnStack(p)' \/ task'[p].pc = "ping" =>
          node[p].id \in Id /\ InTextRange(node[p].id, task'[p].bucket)
    BY <1>2, <1>7 DEF OnStack, IInv, PlaceInv
  <2>2. ASSUME NEW c \in Bucket, NEW j \in 1 .. Len(contacts'[c])
        PROVE  LET p == contacts'[c][j] IN
               /\ task'[p].pc # "new" /\ node[p].id \in Id
               /\ InTextRange(node[p].id, c)
    <3>1. c # L /\ c # R
      BY <1>6
    <3>2. contacts'[c] = contacts[c] /\ contacts[c][j] \in Obj
      BY <1>6, <3>1 DEF IInv, TypeOK
    <3> QED
      BY <3>2, <1>7 DEF IInv, PlaceInv
  <2> QED
    BY <2>1, <2>2, <1>3 DEF PlaceInv
<1>16. DisposeInv'
  BY <1>2, <1>3 DEF DisposeInv
<1> QED
  BY <1>4, <1>9, <1>10, <1>11, <1>13, <1>14, <1>15, <1>16 DEF IInv

LEMMA MoveContactStep ==
  ASSUME IInv, NEW o \in Obj, MoveContact(o)
  PROVE  IInv'
<1> DEFINE b == task[o].bucket
           p == Head(contacts[b])
           t == IF Less(Text(node[p].id), Bound(Mid(b))) THEN Left(b)
                                                         ELSE Right(b)
<1>1. /\ OnStack(o) /\ task[o].pc = "split" /\ contacts[b] # <<>>
      /\ UNCHANGED <<split, lastChanged, nodeMap, node, task, loading,
                     disposed, now>>
      /\ contacts' = [contacts EXCEPT ![b] = Tail(@), ![t] = Append(@, p)]
  BY DEF MoveContact, OnStack
<1>2. /\ b \in Bucket /\ b.min < b.max /\ contacts[b] \in Seq(Obj) /\ ~disposed
      /\ \A q \in Obj : q # o => ~OnStack(q)
  BY <1>1, StackFacts
<1>3. /\ b \in split /\ Splittable(b)
      /\ Len(contacts[b]) + Len(contacts[Left(b)]) + Len(contacts[Right(b)]) <= K
      /\ \A w \in Waiting : task[w].bucket # Left(b) /\ task[w].bucket # Right(b)
  BY <1>1 DEF IInv, SplitInv, TreeInv
<1>4. /\ Left(b) \in Bucket /\ Right(b) \in Bucket
      /\ Left(b) # b /\ Right(b) # b /\ Left(b) # Right(b)
  BY <1>2, <1>3, ChildFacts
<1>5. /\ p \in Obj /\ p = contacts[b][1] /\ Len(contacts[b]) >= 1
      /\ Tail(contacts[b]) \in Seq(Obj)
      /\ Len(Tail(contacts[b])) = Len(contacts[b]) - 1
      /\ \A j \in 1 .. Len(contacts[b]) - 1 :
           Tail(contacts[b])[j] = contacts[b][j + 1]
  BY <1>1, <1>2, TailFacts
<1>6. /\ task[p].pc # "new" /\ node[p].id \in Id
      /\ InTextRange(node[p].id, b)
  BY <1>2, <1>5 DEF IInv, PlaceInv
<1>7. /\ t \in {Left(b), Right(b)} /\ t \in Bucket /\ t # b
      /\ InTextRange(node[p].id, t)
  BY <1>2, <1>4, <1>6, ChildRange
<1> HIDE DEF t, p
<1>8. contacts[t] \in Seq(Obj)
  BY <1>7 DEF IInv, TypeOK
<1>9. /\ contacts' \in [Bucket -> Seq(Obj)]
      /\ contacts'[b] = Tail(contacts[b]) /\ contacts'[t] = Append(contacts[t], p)
      /\ \A c \in Bucket : c # b /\ c # t => contacts'[c] = contacts[c]
  BY <1>1, <1>2, <1>5, <1>7, <1>8, AppendFacts DEF IInv, TypeOK
<1>10. /\ Len(contacts'[t]) = Len(contacts[t]) + 1
       /\ contacts'[t][Len(contacts[t]) + 1] = p
       /\ \A j \in 1 .. Len(contacts[t]) : contacts'[t][j] = contacts[t][j]
  BY <1>5, <1>8, <1>9, AppendFacts
<1>11. \A c \in Bucket : Len(contacts[c]) \in Nat
  BY DEF IInv, TypeOK
<1>12. Len(contacts'[b]) + Len(contacts'[Left(b)]) + Len(contacts'[Right(b)]) <= K
  <2> DEFINE x == Len(contacts[b])       x1 == Len(contacts'[b])
             y == Len(contacts[Left(b)])  y1 == Len(contacts'[Left(b)])
             z == Len(contacts[Right(b)]) z1 == Len(contacts'[Right(b)])
  <2>1. x \in Nat /\ y \in Nat /\ z \in Nat /\ K \in Nat /\ x + y + z <= K
    BY <1>2, <1>3, <1>4, <1>11, ConstantsAssumption
  <2>2. x1 = x - 1
    BY <1>5, <1>9
  <2>3. CASE t = Left(b)
    <3>1. y1 = y + 1 /\ z1 = z
      BY <2>3, <1>4, <1>9, <1>10
    <3> HIDE DEF x, y, z, x1, y1, z1
    <3>2. x1 + y1 + z1 <= K
      BY <2>1, <2>2, <3>1
    <3> QED
      BY <3>2 DEF x1, y1, z1
  <2>4. CASE t = Right(b)
    <3>1. z1 = z + 1 /\ y1 = y
      BY <2>4, <1>4, <1>9, <1>10
    <3> HIDE DEF x, y, z, x1, y1, z1
    <3>2. x1 + y1 + z1 <= K
      BY <2>1, <2>2, <3>1
    <3> QED
      BY <3>2 DEF x1, y1, z1
  <2> QED
    BY <1>7, <2>3, <2>4
<1>13. TypeOK'
  BY <1>1, <1>9 DEF IInv, TypeOK
<1>14. Capacity'
  <2> DEFINE x == Len(contacts'[b])
             y == Len(contacts'[Left(b)])
             z == Len(contacts'[Right(b)])
  <2>1. x \in Nat /\ y \in Nat /\ z \in Nat /\ K \in Nat
    BY <1>2, <1>4, <1>9, ConstantsAssumption
  <2>2. x + y + z <= K
    BY <1>12, Zenon
  <2>3. x <= K /\ y <= K /\ z <= K
    <3> HIDE DEF x, y, z
    <3> QED
      BY <2>1, <2>2
  <2>4. Len(contacts'[b]) <= K /\ Len(contacts'[t]) <= K
    BY <1>7, <2>3
  <2> QED
    BY <1>9, <2>4 DEF IInv, Capacity
<1>15. TreeInv' /\ StackInv'
  BY <1>1 DEF IInv, TreeInv, Tree, StackInv, OnStack
<1>16. SplitInv'
  BY <1>1, <1>2, <1>3, <1>12 DEF SplitInv, Waiting, OnStack
<1>17. WaitInv'
  <2>1. ASSUME NEW w \in Waiting
        PROVE  contacts'[task[w].bucket] = contacts[task[w].bucket]
    <3>1. task[w].bucket \in Bucket /\ task[w].bucket \notin split
      BY <1>2 DEF IInv, WaitInv, TreeInv
    <3> QED
      BY <3>1, <1>3, <1>7, <1>9
  <2> QED
    BY <1>1, <2>1 DEF IInv, WaitInv, Waiting, Tree
<1>18. PlaceInv'
  <2>1. ASSUME NEW c \in Bucket, NEW j \in 1 .. Len(contacts'[c])
        PROVE  /\ task[contacts'[c][j]].pc # "new"
               /\ node[contacts'[c][j]].id \in Id
               /\ InTextRange(node[contacts'[c][j]].id, c)
    <3>1. CASE c = t /\ j = Len(contacts[t]) + 1
      BY <3>1, <1>6, <1>7, <1>10
    <3>2. CASE c = t /\ j \in 1 .. Len(contacts[t])
      BY <3>2, <1>10 DEF IInv, PlaceInv
    <3>3. CASE c = b
      <4>1. j + 1 \in 1 .. Len(contacts[b]) /\ contacts'[b][j] = contacts[b][j + 1]
        BY <3>3, <1>2, <1>5, <1>9
      <4> QED
        BY <3>3, <4>1 DEF IInv, PlaceInv
    <3>4. CASE c # b /\ c # t
      BY <3>4, <1>9 DEF IInv, PlaceInv
    <3> QED
      BY <3>1, <3>2, <3>3, <3>4, <1>8, <1>10
  <2> QED
    BY <2>1, <1>1 DEF IInv, PlaceInv, OnStack
<1>19. DisposeInv'
  BY <1>1, <1>2 DEF DisposeInv
<1> QED
  BY <1>13, <1>14, <1>15, <1>16, <1>17, <1>18, <1>19 DEF IInv

-----------------------------------------------------------------------------
(* Eviction.                                                               *)

\* replace() in a live table: the bucket of o's insertion holds as many
\* contacts after as before, whatever became of p in the meantime.
LEMMA ReplaceStep ==
  ASSUME IInv, NEW o \in Obj, NEW p, Replace(o, p), ~disposed,
         task[o].pc \in {"walk", "ping"},
         \A q \in Obj : task[q].pc # "split",
         task[o].bucket \in Bucket,
         node' \in [Obj -> NodeRecord],
         \A q \in Obj : node'[q].id = node[q].id,
         UNCHANGED <<split, loading, disposed, now>>
  PROVE  IInv'
<1> DEFINE b == task[o].bucket
<1>1. b \in Bucket /\ contacts[b] \in Seq(Obj)
  BY DEF IInv, TypeOK
<1> PICK i \in 1 .. Len(contacts[b]) :
      contacts' = [contacts EXCEPT ![b] = Append(RemoveAt(contacts[b], i), o)]
  BY <1>1 DEF Replace, IInv, TypeOK
<1> DEFINE s == contacts[b]
           r == RemoveAt(s, i)
<1>2. /\ r \in Seq(Obj) /\ Len(r) = Len(s) - 1
      /\ \A j \in 1 .. Len(s) - 1 : r[j] = s[IF j < i THEN j ELSE j + 1]
  BY <1>1, RemoveAtFacts
<1>3. \A j \in 1 .. Len(s) - 1 : \E k \in 1 .. Len(s) : r[j] = s[k]
  <2> HIDE DEF r
  <2> SUFFICES ASSUME NEW j \in 1 .. Len(s) - 1
               PROVE  \E k \in 1 .. Len(s) : r[j] = s[k]
    OBVIOUS
  <2>1. (IF j < i THEN j ELSE j + 1) \in 1 .. Len(s)
    BY <1>1
  <2>2. r[j] = s[IF j < i THEN j ELSE j + 1]
    BY <1>2
  <2> QED
    BY <2>1, <2>2
<1>4. contacts' = [contacts EXCEPT ![b] = Append(r, o)]
  OBVIOUS
<1> HIDE DEF r
<1>5. /\ Append(r, o) \in Seq(Obj) /\ Len(Append(r, o)) = Len(s)
      /\ Append(r, o)[Len(s)] = o
      /\ \A j \in 1 .. Len(s) - 1 : Append(r, o)[j] = r[j]
  BY <1>1, <1>2, AppendFacts
<1>6. /\ contacts' \in [Bucket -> Seq(Obj)] /\ contacts'[b] = Append(r, o)
      /\ \A c \in Bucket : c # b => contacts'[c] = contacts[c]
  BY <1>1, <1>4, <1>5 DEF IInv, TypeOK
<1>7. \A c \in Bucket : Len(contacts'[c]) = Len(contacts[c])
  BY <1>5, <1>6
<1>8. /\ task' \in [Obj -> Task] /\ task'[o].pc = "done"
      /\ \A q \in Obj : q # o => task'[q] = task[q]
  BY ReturnFacts DEF Replace, IInv
<1>9. \A q \in Obj : OnStack(q)' => OnStack(q)
  BY <1>8 DEF OnStack
<1>10. /\ o \notin Waiting'
       /\ \A w \in Waiting' : w \in Waiting /\ task'[w] = task[w]
  BY <1>8 DEF Waiting
<1>11. node[o].id \in Id /\ InTextRange(node[o].id, b)
  BY DEF IInv, PlaceInv, OnStack
<1>12. TypeOK'
  <2>1. /\ lastChanged' = [lastChanged EXCEPT ![b] = now]
        /\ nodeMap' = [nodeMap EXCEPT ![node[p].id] = None, ![node[o].id] = o]
    BY DEF Replace
  <2>2. lastChanged' \in [Bucket -> Time] /\ nodeMap' \in [Id -> Obj \cup {None}]
    BY <2>1 DEF IInv, TypeOK
  <2> QED
    BY <1>6, <1>8, <2>2 DEF IInv, TypeOK
<1>13. Capacity'
  BY <1>7 DEF IInv, Capacity
<1>14. TreeInv' /\ StackInv'
  BY <1>8, <1>9 DEF IInv, TreeInv, Tree, StackInv, OnStack
<1>15. SplitInv'
  BY <1>8 DEF SplitInv
<1>16. WaitInv'
  <2>1. \A w \in Waiting :
          /\ task[w].bucket \in Tree \ split /\ task[w].bucket \in Bucket
          /\ ~(ContainsLocal(task[w].bucket) /\ Splittable(task[w].bucket))
          /\ Len(contacts[task[w].bucket]) = K
    BY DEF IInv, WaitInv, TreeInv
  <2>2. Tree' = Tree
    BY DEF Tree
  <2> QED
    BY <1>7, <1>10, <2>1, <2>2 DEF WaitInv
<1>17. PlaceInv'
  <2>1. \A q \in Obj : OnStack(q)' \/ task'[q].pc = "ping" =>
          node'[q].id \in Id /\ InTextRange(node'[q].id, task'[q].bucket)
    BY <1>8 DEF OnStack, IInv, PlaceInv
  <2>2. ASSUME NEW c \in Bucket, NEW j \in 1 .. Len(contacts[c])
        PROVE  /\ contacts[c][j] \in Obj
               /\ task'[contacts[c][j]].pc # "new"
               /\ node'[contacts[c][j]].id \in Id
               /\ InTextRange(node'[contacts[c][j]].id, c)
    <3>1. contacts[c][j] \in Obj
      BY DEF IInv, TypeOK
    <3> QED
      BY <3>1, <1>8 DEF IInv, PlaceInv
  <2>3. ASSUME NEW c \in Bucket, NEW j \in 1 .. Len(contacts'[c])
        PROVE  /\ task'[contacts'[c][j]].pc # "new"
               /\ node'[contacts'[c][j]].id \in Id
               /\ InTextRange(node'[contacts'[c][j]].id, c)
    <3>1. CASE c # b
      BY <3>1, <1>6, <2>2
    <3>2. CASE c = b /\ j = Len(s)
      BY <3>2, <1>5, <1>6, <1>8, <1>11
    <3>3. CASE c = b /\ j # Len(s)
      <4>1. j \in 1 .. Len(s) - 1
        BY <3>3, <1>1, <1>5, <1>6
      <4>2. contacts'[c][j] = r[j]
        BY <3>3, <4>1, <1>5, <1>6
      <4>3. \E k \in 1 .. Len(s) : r[j] = s[k]
        BY <4>1, <1>3
      <4> QED
        BY <3>3, <4>2, <4>3, <1>1, <2>2
    <3> QED
      BY <3>1, <3>2, <3>3
  <2> QED
    BY <2>1, <2>3 DEF PlaceInv
<1>18. DisposeInv'
  BY DEF DisposeInv
<1> QED
  BY <1>12, <1>13, <1>14, <1>15, <1>16, <1>17, <1>18 DEF IInv

LEMMA ReplaceBadStep ==
  ASSUME IInv, NEW o \in Obj, ReplaceBad(o)
  PROVE  IInv'
<1>1. OnStack(o) /\ task[o].pc = "walk"
  BY DEF ReplaceBad, AtFullLeaf, OnStack
<1>2. /\ task[o].bucket \in Bucket /\ ~disposed
      /\ \A q \in Obj : task[q].pc # "split"
  BY <1>1, StackFacts DEF OnStack
<1>3. \E p : Replace(o, p)
  BY DEF ReplaceBad
<1>4. UNCHANGED <<split, node, loading, disposed, now>>
  BY DEF ReplaceBad
<1> QED
  BY <1>1, <1>2, <1>3, <1>4, ReplaceStep DEF IInv, TypeOK

-----------------------------------------------------------------------------
(* What follows the await.                                                 *)

\* In a disposed table a continuation changes nothing but its own task.
LEMMA DisposedReturn ==
  ASSUME IInv, NEW o \in Obj, Return(o), disposed,
         node' \in [Obj -> NodeRecord],
         UNCHANGED <<contacts, split, lastChanged, nodeMap, loading, disposed,
                     now>>,
         \A q \in Obj : node'[q].id = node[q].id
  PROVE  IInv'
<1>1. /\ task' \in [Obj -> Task] /\ task'[o].pc = "done"
      /\ \A p \in Obj : p # o => task'[p] = task[p]
  BY ReturnFacts DEF IInv
<1>2. Idle /\ ~loading /\ DisposedStaysEmpty
  BY DEF IInv, DisposeInv
<1>3. \A p \in Obj : ~OnStack(p) /\ ~OnStack(p)'
  BY <1>1, <1>2 DEF Idle, OnStack
<1>4. TypeOK'
  BY <1>1 DEF IInv, TypeOK
<1>5. Capacity' /\ TreeInv' /\ StackInv'
  BY <1>1, <1>3 DEF IInv, Capacity, TreeInv, Tree, StackInv, OnStack
<1>6. SplitInv' /\ WaitInv'
  BY <1>3 DEF SplitInv, WaitInv, OnStack
<1>7. PlaceInv'
  <2>1. \A b \in Bucket : Len(contacts[b]) = 0
    BY <1>2 DEF DisposedStaysEmpty
  <2>2. \A q \in Obj : task'[q].pc = "ping" => task'[q] = task[q]
    BY <1>1
  <2> QED
    BY <1>3, <2>1, <2>2 DEF IInv, PlaceInv
<1>8. DisposeInv'
  BY <1>1, <1>2 DEF DisposeInv, DisposedStaysEmpty, Idle
<1> QED
  BY <1>4, <1>5, <1>6, <1>7, <1>8 DEF IInv

LEMMA GiveUpStep ==
  ASSUME IInv, NEW o \in Obj, Turn, task[o].pc = "ping", GiveUp(o),
         node' \in [Obj -> NodeRecord],
         \A q \in Obj : node'[q].id = node[q].id
  PROVE  IInv'
<1>1. UNCHANGED <<split, loading, disposed, now>>
  BY DEF GiveUp
<1>2. CASE disposed
  BY <1>1, <1>2, DisposedReturn DEF GiveUp
<1>3. CASE ~disposed
  <2>1. task[o].bucket \in Bucket
    BY DEF IInv, TypeOK, Task
  <2>2. Replace(o, Checked(o)) /\ \A q \in Obj : task[q].pc # "split"
    BY <1>3 DEF GiveUp, Turn, Idle
  <2> QED
    BY <1>1, <1>3, <2>1, <2>2, ReplaceStep
<1> QED
  BY <1>2, <1>3

\* The contact that is being pinged is a Node object.
LEMMA CheckedFacts ==
  ASSUME IInv, NEW o \in Obj, task[o].pc = "ping"
  PROVE  /\ Checked(o) \in Obj
         /\ task[o].bucket \in Bucket
         /\ Tail(task[o].unknown) \in Seq(Obj)
  BY TailFacts DEF IInv, TypeOK, StackInv, Checked, Task

LEMMA PingFailedStep ==
  ASSUME IInv, NEW o \in Obj, PingFailed(o)
  PROVE  IInv'
<1>1. task[o].pc = "ping" /\ Turn /\ GiveUp(o)
  BY DEF PingFailed
<1>2. Checked(o) \in Obj
  BY <1>1, CheckedFacts
<1>3. \A n \in 0 .. MaxFailed : Bumped(n) \in 0 .. MaxFailed
  BY ConstantsAssumption DEF Bumped
<1>4. /\ node' \in [Obj -> NodeRecord]
      /\ \A q \in Obj : node'[q].id = node[q].id
  BY <1>2, <1>3 DEF PingFailed, IInv, TypeOK, NodeRecord
<1> QED
  BY <1>1, <1>4, GiveUpStep

LEMMA PingTimedOutStep ==
  ASSUME IInv, NEW o \in Obj, PingTimedOut(o)
  PROVE  IInv'
  BY GiveUpStep DEF PingTimedOut, IInv, TypeOK

LEMMA PingAnsweredStep ==
  ASSUME IInv, NEW o \in Obj, PingAnswered(o)
  PROVE  IInv'
<1> DEFINE b == task[o].bucket
           rest == Tail(task[o].unknown)
<1>1. /\ task[o].pc = "ping" /\ Turn
      /\ node' = [node EXCEPT ![Checked(o)].lastResponse = now,
                              ![Checked(o)].failed = 0]
      /\ UNCHANGED <<contacts, split, nodeMap, loading, disposed, now>>
  BY DEF PingAnswered
<1>2. Checked(o) \in Obj /\ b \in Bucket /\ rest \in Seq(Obj)
  BY <1>1, CheckedFacts
<1>3. 0 \in 0 .. MaxFailed
  BY ConstantsAssumption
<1>4. /\ node' \in [Obj -> NodeRecord]
      /\ \A q \in Obj : node'[q].id = node[q].id
  BY <1>1, <1>2, <1>3 DEF IInv, TypeOK, NodeRecord
<1>5. CASE disposed
  BY <1>1, <1>4, <1>5, DisposedReturn DEF PingAnswered
<1>6. CASE ~disposed
  <2>1. lastChanged' \in [Bucket -> Time]
    BY <1>6 DEF PingAnswered, IInv, TypeOK
  <2>2. /\ task' \in [Obj -> Task]
        /\ task'[o].pc \in {"done", "ping"}
        /\ task'[o].pc = "ping" =>
             task'[o].unknown # <<>> /\ task'[o].bucket = task[o].bucket
        /\ \A q \in Obj : q # o => task'[q] = task[q]
    <3>1. CASE rest = <<>>
      BY <1>6, <3>1, ReturnFacts DEF PingAnswered, IInv
    <3>2. CASE rest # <<>>
      <4>1. task' = [task EXCEPT ![o].unknown = rest]
        BY <1>6, <3>2 DEF PingAnswered
      <4> HIDE DEF rest
      <4> QED
        BY <1>1, <1>2, <3>2, <4>1 DEF IInv, TypeOK, Task
    <3> QED
      BY <3>1, <3>2
  <2>3. TypeOK'
    BY <1>1, <1>4, <2>1, <2>2 DEF IInv, TypeOK
  <2>4. \A q \in Obj : ~OnStack(q) /\ ~OnStack(q)'
    BY <1>1, <2>2 DEF OnStack, Turn, Idle
  <2>5. \A w \in Waiting' : w \in Waiting /\ task'[w].bucket = task[w].bucket
    BY <1>1, <2>2 DEF Waiting
  <2>6. Capacity' /\ TreeInv' /\ SplitInv'
    BY <1>1, <2>4 DEF IInv, Capacity, TreeInv, Tree, SplitInv, OnStack
  <2>7. StackInv'
    BY <1>1, <2>2, <2>4 DEF IInv, StackInv, OnStack
  <2>8. WaitInv'
    BY <1>1, <1>6, <2>5 DEF IInv, WaitInv, Tree
  <2>9. PlaceInv'
    <3>1. \A q \in Obj : task'[q].pc = "ping" =>
            node'[q].id \in Id /\ InTextRange(node'[q].id, task'[q].bucket)
      BY <1>1, <1>4, <2>2 DEF IInv, PlaceInv
    <3>2. \A c \in Bucket : \A j \in 1 .. Len(contacts[c]) :
            /\ contacts[c][j] \in Obj
            /\ task'[contacts[c][j]].pc # "new"
      BY <2>2 DEF IInv, TypeOK, PlaceInv
    <3> QED
      BY <1>1, <1>4, <2>4, <3>1, <3>2 DEF IInv, PlaceInv
  <2>10. DisposeInv'
    BY <1>1, <1>6 DEF DisposeInv
  <2> QED
    BY <2>3, <2>6, <2>7, <2>8, <2>9, <2>10 DEF IInv
<1> QED
  BY <1>5, <1>6

LEMMA DisposeStep ==
  ASSUME IInv, Dispose
  PROVE  IInv'
<1>1. <<>> \in Seq(Obj)
  BY EmptySeq
<1>2. /\ Idle /\ ~loading /\ disposed' = TRUE
      /\ contacts' = [b \in Bucket |-> <<>>] /\ split' = {}
      /\ nodeMap' = [i \in Id |-> None]
      /\ UNCHANGED <<lastChanged, node, task, loading, now>>
  BY DEF Dispose, Turn
<1>3. TypeOK'
  BY <1>1, <1>2 DEF IInv, TypeOK
<1>4. Capacity' /\ TreeInv'
  BY <1>2, EmptySeq, RootFacts, ConstantsAssumption
  DEF Capacity, TreeInv, Tree
<1>5. StackInv' /\ SplitInv' /\ WaitInv'
  BY <1>2 DEF IInv, StackInv, SplitInv, WaitInv, OnStack, Idle
<1>6. PlaceInv'
  BY <1>2, EmptySeq DEF IInv, PlaceInv, OnStack
<1>7. DisposeInv'
  BY <1>2 DEF DisposeInv, DisposedStaysEmpty, Idle
<1> QED
  BY <1>3, <1>4, <1>5, <1>6, <1>7 DEF IInv

-----------------------------------------------------------------------------
(* The theorems.                                                           *)

LEMMA RecordStep ==
  ASSUME IInv, NEW i \in Id,
         RecordQuery(i) \/ RecordResponse(i) \/ RecordNoResponse(i)
  PROVE  IInv'
<1>1. Idle /\ ~disposed /\ UNCHANGED <<loading, disposed, now>>
  BY DEF RecordQuery, RecordResponse, RecordNoResponse, Turn
<1>2. now \in Time /\ 0 \in Time /\ 0 \in 0 .. MaxFailed
  BY ConstantsAssumption DEF IInv, TypeOK, Time
<1>3. \A n \in 0 .. MaxFailed : Bumped(n) \in 0 .. MaxFailed
  BY ConstantsAssumption DEF Bumped
<1>4. CASE nodeMap[i] # None
  <2>1. node[nodeMap[i]] \in NodeRecord
    BY <1>4 DEF IInv, TypeOK
  <2>2. CASE RecordQuery(i)
    <3>1. PICK r \in NodeRecord : Touch(i, r) /\ r.id = node[nodeMap[i]].id
      BY <1>2, <1>4, <2>1, <2>2 DEF RecordQuery, NodeRecord
    <3> QED
      BY <1>1, <1>4, <3>1, TouchStep
  <2>3. CASE RecordResponse(i)
    <3> DEFINE n == node[nodeMap[i]]
               r == [n EXCEPT !.lastResponse = now, !.failed = 0]
    <3>1. Touch(i, r)
      BY <1>4, <2>3 DEF RecordResponse
    <3>2. r \in NodeRecord /\ r.id = n.id
      BY <1>2, <2>1 DEF NodeRecord
    <3> QED
      BY <1>1, <1>4, <3>1, <3>2, TouchStep
  <2>4. CASE RecordNoResponse(i)
    <3> DEFINE n == node[nodeMap[i]]
               r == [n EXCEPT !.failed = Bumped(n.failed)]
    <3>1. Touch(i, r)
      BY <2>4 DEF RecordNoResponse
    <3>2. n.failed \in 0 .. MaxFailed
      BY <2>1 DEF NodeRecord
    <3>3. Bumped(n.failed) \in 0 .. MaxFailed
      BY <1>3, <3>2
    <3>4. r \in NodeRecord /\ r.id = n.id
      BY <2>1, <3>3 DEF NodeRecord
    <3> QED
      BY <1>1, <1>4, <3>1, <3>4, TouchStep
  <2> QED
    BY <2>2, <2>3, <2>4
<1>5. CASE nodeMap[i] = None
  <2> DEFINE q == [Blank EXCEPT !.id = i, !.lastQuery = now]
             r == [Blank EXCEPT !.id = i, !.lastResponse = now]
  <2>1. q \in NodeRecord /\ q.id = i /\ r \in NodeRecord /\ r.id = i
    BY <1>2 DEF NodeRecord, Blank
  <2>2. Insert(q) \/ Insert(r)
    BY <1>5 DEF RecordQuery, RecordResponse, RecordNoResponse
  <2> HIDE DEF q, r
  <2> QED
    BY <1>1, <2>1, <2>2, InsertStep
<1> QED
  BY <1>4, <1>5

LEMMA LoadStep ==
  ASSUME IInv, NEW i \in Id, NEW response \in SavedTime,
         NEW query \in SavedTime, NEW failed \in 0 .. MaxFailed,
         LoadEntry(i, response, query, failed)
  PROVE  IInv'
<1>1. Idle /\ ~disposed /\ UNCHANGED <<loading, disposed, now>>
  BY DEF LoadEntry, IInv, DisposeInv
<1>2. response \in Time /\ query \in Time
  BY ConstantsAssumption DEF Time
<1>3. CASE nodeMap[i] # None
  <2>1. node[nodeMap[i]] \in NodeRecord
    BY <1>3 DEF IInv, TypeOK
  <2> DEFINE n == node[nodeMap[i]]
             a == IF response # 0 THEN response ELSE n.lastResponse
             b == IF query # 0 THEN query ELSE n.lastQuery
             c == IF failed # 0 THEN failed ELSE n.failed
             r == [n EXCEPT !.lastResponse = a, !.lastQuery = b, !.failed = c]
  <2>2. Touch(i, r)
    BY <1>3 DEF LoadEntry
  <2>3. a \in Time /\ b \in Time /\ c \in 0 .. MaxFailed
    BY <1>2, <2>1 DEF NodeRecord
  <2> HIDE DEF a, b, c
  <2>4. r \in NodeRecord /\ r.id = n.id
    BY <2>1, <2>3 DEF NodeRecord
  <2> QED
    BY <1>1, <1>3, <2>2, <2>4, TouchStep
<1>4. CASE nodeMap[i] = None
  <2>1. PICK r \in NodeRecord : Insert(r) /\ r.id \in Id
    BY <1>2, <1>4 DEF LoadEntry, NodeRecord
  <2> QED
    BY <1>1, <2>1, InsertStep
<1> QED
  BY <1>3, <1>4

LEMMA NextIInv == IInv /\ [Next]_vars => IInv'
<1> SUFFICES ASSUME IInv, [Next]_vars PROVE IInv'
  OBVIOUS
<1>1. CASE \E i \in Id : RecordQuery(i) \/ RecordResponse(i) \/ RecordNoResponse(i)
  BY <1>1, RecordStep
<1>2. CASE \E i \in Id, response, query \in SavedTime, failed \in 0 .. MaxFailed :
             LoadEntry(i, response, query, failed)
  BY <1>2, LoadStep
<1>3. CASE EndLoad
  BY <1>3, NodeOnly DEF EndLoad, IInv, TypeOK, tree
<1>4. CASE \E o \in Obj : Running(o)
  BY <1>4, AddContactStep, WalkStep, BeginSplitStep, MoveContactStep,
     EndSplitStep, ReplaceBadStep, StartPingsStep, DiscardStep DEF Running
<1>5. CASE \E o \in Obj : PingAnswered(o) \/ PingFailed(o) \/ PingTimedOut(o)
  BY <1>5, PingAnsweredStep, PingFailedStep, PingTimedOutStep
<1>6. CASE Dispose
  BY <1>6, DisposeStep
<1>7. CASE Tick
  <2>1. now' \in Time
    BY <1>7, ConstantsAssumption DEF Tick, IInv, TypeOK, Time
  <2> QED
    BY <1>7, <2>1, NodeOnly DEF Tick, IInv, TypeOK, tree
<1>8. CASE UNCHANGED vars
  BY <1>8, NodeOnly DEF vars, tree, IInv, TypeOK
<1> QED
  BY <1>1, <1>2, <1>3, <1>4, <1>5, <1>6, <1>7, <1>8 DEF Next

LEMMA Inductive == Spec => []IInv
  BY InitIInv, NextIInv, PTL DEF Spec

\* Every variable keeps the type the code gives it.
THEOREM TypeCorrect == Spec => []TypeOK
<1>1. IInv => TypeOK
  BY DEF IInv
<1> QED
  BY <1>1, Inductive, PTL

\* No bucket ever holds more than K contacts, for any number of evictions in
\* flight: what _insertNode pushes, _evict has made room for.
THEOREM CapacityHolds == Spec => []Capacity
<1>1. IInv => Capacity
  BY DEF IInv
<1> QED
  BY <1>1, Inductive, PTL

\* The bucket _insertNode captured before its await is a full leaf after it.
THEOREM CapturedBucketHolds == Spec => []CapturedBucketStillFullLeaf
<1>1. IInv => CapturedBucketStillFullLeaf
  BY DEF IInv, WaitInv, CapturedBucketStillFullLeaf
<1> QED
  BY <1>1, Inductive, PTL

\* Every contact is where the code's own comparison of Buffers looks for it,
\* although _insertNode compares with <= where _split compares with <: for
\* every set of ids and every decoding of them that DecodingAssumption allows,
\* ids that decode to characters above U+FFFD and above the root's maximum
\* included.
THEOREM PlacementHolds == Spec => []PlacedInTextRange
<1>1. IInv => PlacedInTextRange
  BY DEF IInv, PlaceInv, PlacedInTextRange
<1> QED
  BY <1>1, Inductive, PTL

\* dispose() is final: no continuation of an awaiting insertion, whatever its
\* ping returns, refills the table.
THEOREM DisposeIsFinal == Spec => []DisposedStaysEmpty
<1>1. IInv => DisposedStaysEmpty
  BY DEF IInv, DisposeInv, DisposedStaysEmpty
<1> QED
  BY <1>1, Inductive, PTL

\* The finding of PlacedInRange has a limit: the order of the texts is the
\* order of the bytes for an id whose first byte decodes to itself (below 0x80).
LEMMA LowTextRange ==
  ASSUME NEW b \in Bucket, NEW i \in Id, i[1] < Base \div 2, InTextRange(i, b)
  PROVE  ~ByteLess(i, <<b.min, b.min>>) /\ ~ByteLess(<<b.max, b.max>>, i)
<1>1. /\ i[1] \in Int /\ i[2] \in Int /\ b.min \in Int /\ b.max \in Int
      /\ Base \div 2 \in Int
  BY ConstantsAssumption DEF Bucket, Byte
<1> DEFINE t == Text(i)
<1>2. t = <<t[1], t[2]>> /\ t[1] \in Int /\ t[2] \in Int
  BY TextType
<1>3. /\ t[1] = i[1]
      /\ i[2] < Base \div 2 => t[2] = i[2]
      /\ i[2] >= Base \div 2 => t[2] >= Base \div 2
  BY DecodingAssumption, ConstantsAssumption DEF Text
<1>4. /\ 0 <= b.max /\ b.max <= Base - 1 /\ 0 <= i[2] /\ i[2] <= Base - 1
      /\ 0 <= b.min /\ b.min <= Base - 1 /\ Base \in Nat /\ Base \div 2 <= Base - 1
  BY ConstantsAssumption DEF Bucket, Byte
<1>5. /\ AtMost(Bound(b.min), t)
      /\ AtMost(t, Bound(b.max)) \/ b.max = Base - 1
  BY DEF InTextRange, Root
<1> HIDE DEF t
<1>6. ~ByteLess(i, <<b.min, b.min>>)
  BY <1>1, <1>2, <1>3, <1>4, <1>5 DEF AtMost, Less, Bound, Char, ByteLess
<1>7. ~ByteLess(<<b.max, b.max>>, i)
  BY <1>1, <1>2, <1>3, <1>4, <1>5 DEF AtMost, Less, Bound, Char, ByteLess
<1> QED
  BY <1>6, <1>7

\* Every contact whose id begins with a byte below 0x80 is in a bucket whose
\* minimum and maximum enclose it as numbers, as routing.js:55-56 has it.
THEOREM LowIdsInRange == Spec => []LowPlacedInRange
<1>1. IInv => LowPlacedInRange
  BY LowTextRange DEF IInv, PlaceInv, LowPlacedInRange
<1> QED
  BY <1>1, Inductive, PTL

-----------------------------------------------------------------------------
(* Every insertion advances.                                               *)

Advances ==
  \A o \in Obj : Active(o) /\ Active(o)' =>
    \/ Less(Rank(o)', Rank(o))
    \/ o \in Waiting /\ task'[o] = task[o]

\* A step of o's insertion; of the others at most some await pings.
LEMMA OneAdvances ==
  ASSUME NEW o \in Obj,
         \A q \in Obj : q # o => ~OnStack(q) /\ task'[q] = task[q],
         Active(o) /\ Active(o)' => Less(Rank(o)', Rank(o))
  PROVE  Advances
BY DEF Advances, Active, OnStack, Waiting

\* Between turns only insertions that await pings are under way.
LEMMA TurnAdvances ==
  ASSUME Idle, \A q \in Obj : Active(q) => task'[q] = task[q]
  PROVE  Advances
BY DEF Advances, Active, Idle, Waiting

LEMMA OthersWait ==
  ASSUME IInv, NEW o \in Obj, OnStack(o) \/ Idle
  PROVE  \A q \in Obj : q # o => ~OnStack(q)
BY StackFacts DEF Idle, OnStack

\* Both ways to go on with a child of the bucket.
LEMMA GotoAdvances ==
  ASSUME IInv, NEW o \in Obj, Walk(o) \/ EndSplit(o)
  PROVE  Advances
<1> DEFINE b == task[o].bucket
<1>1. PICK c \in {Left(b), Right(b)} : Goto(o, c)
  BY DEF Walk, EndSplit
<1>2. OnStack(o) /\ b \in split
  BY DEF Walk, EndSplit, OnStack, IInv, SplitInv
<1>3. b \in Bucket /\ c \in Bucket /\ b.min < b.max /\ Splittable(b)
  BY <1>2, ChildInTree
<1>4. c.max - c.min < b.max - b.min
  <2>1. b.min \in Int /\ b.max \in Int /\ Mid(b) \in Int
    BY <1>3, MidBetween, ConstantsAssumption DEF Bucket, Byte
  <2>2. b.min < Mid(b) /\ Mid(b) < b.max
    BY <1>3, ChildFacts
  <2>3. /\ Left(b).max - Left(b).min = Mid(b) - b.min
        /\ Right(b).max - Right(b).min = b.max - Mid(b)
    BY DEF Left, Right
  <2> HIDE DEF b
  <2>4. CASE c = Left(b)
    BY <2>1, <2>2, <2>3, <2>4
  <2>5. CASE c = Right(b)
    BY <2>1, <2>2, <2>3, <2>5
  <2> QED
    BY <2>4, <2>5
<1>5. /\ task'[o].bucket = c
      /\ \A q \in Obj : q # o => task'[q] = task[q]
  BY <1>1, <1>3, GotoFacts DEF IInv
<1>6. Less(Rank(o)', Rank(o))
  BY <1>4, <1>5 DEF Less, Rank
<1> QED
  BY <1>2, <1>5, <1>6, OthersWait, OneAdvances

LEMMA BeginSplitAdvances ==
  ASSUME IInv, NEW o \in Obj, BeginSplit(o)
  PROVE  Advances
<1> DEFINE b == task[o].bucket
<1>1. /\ OnStack(o) /\ task[o].pc = "walk" /\ Splittable(b)
      /\ contacts' = [contacts EXCEPT ![Left(b)] = <<>>, ![Right(b)] = <<>>]
      /\ task' = [task EXCEPT ![o].pc = "split"]
  BY DEF BeginSplit, CanSplit, OnStack
<1>2. /\ task'[o].pc = "split" /\ task'[o].bucket = b
      /\ \A q \in Obj : q # o => task'[q] = task[q]
  BY <1>1 DEF IInv, TypeOK, Task
<1>3. b \in Bucket /\ b.min < b.max
  BY <1>1, StackFacts
<1>4. b # Left(b) /\ b # Right(b)
  BY <1>1, <1>3, ChildFacts
<1>5. contacts'[b] = contacts[b] /\ Len(contacts[b]) \in Nat /\ Len(contacts[b]) <= K
  BY <1>1, <1>3, <1>4 DEF IInv, TypeOK, Capacity
<1>6. b.max - b.min \in Int
  BY <1>3 DEF Bucket, Byte
<1>7. Less(Rank(o)', Rank(o))
  BY <1>1, <1>2, <1>5, <1>6, ConstantsAssumption DEF Less, Rank
<1> QED
  BY <1>1, <1>2, <1>7, OthersWait, OneAdvances

LEMMA MoveContactAdvances ==
  ASSUME IInv, NEW o \in Obj, MoveContact(o)
  PROVE  Advances
<1> DEFINE b == task[o].bucket
           p == Head(contacts[b])
           t == IF Less(Text(node[p].id), Bound(Mid(b))) THEN Left(b)
                                                         ELSE Right(b)
<1>1. /\ OnStack(o) /\ task[o].pc = "split" /\ contacts[b] # <<>>
      /\ contacts' = [contacts EXCEPT ![b] = Tail(@), ![t] = Append(@, p)]
      /\ task' = task
  BY DEF MoveContact, OnStack
<1>2. /\ b \in Bucket /\ b.min < b.max /\ b \in split
      /\ contacts[b] \in Seq(Obj)
  BY <1>1, StackFacts DEF IInv, SplitInv
<1>3. t # b
  BY <1>2, ChildInTree, ChildFacts
<1>4. contacts'[b] = Tail(contacts[b])
  <2> HIDE DEF b, t, p
  <2> QED
    BY <1>1, <1>2, <1>3 DEF IInv, TypeOK
<1>5. Less(Rank(o)', Rank(o))
  <2>1. /\ Rank(o) = <<b.max - b.min, Len(contacts[b])>>
        /\ Rank(o)' = <<b.max - b.min, Len(contacts'[b])>>
    BY <1>1 DEF Rank
  <2>2. Len(Tail(contacts[b])) < Len(contacts[b])
    BY <1>1, <1>2, TailFacts
  <2> HIDE DEF b
  <2> QED
    BY <1>4, <2>1, <2>2 DEF Less
<1> QED
  BY <1>1, <1>5, OthersWait, OneAdvances

LEMMA StartPingsAdvances ==
  ASSUME IInv, NEW o \in Obj, StartPings(o)
  PROVE  Advances
<1> DEFINE b == task[o].bucket
           s == contacts[b]
           bad == {i \in 1 .. Len(s) : ~IsGood(s[i])}
<1>1. OnStack(o) /\ task[o].pc = "walk"
  BY DEF StartPings, AtFullLeaf, OnStack
<1>2. b \in Bucket /\ s \in Seq(Obj) /\ Len(s) <= K /\ b.max - b.min \in Int
  BY <1>1, StackFacts DEF IInv, Capacity, Bucket, Byte
<1>3. PICK n \in 1 .. Len(s) : \E u \in [1 .. n -> bad] :
        task' = [task EXCEPT ![o].pc = "ping",
                             ![o].unknown = [j \in 1 .. n |-> s[u[j]]]]
  BY DEF StartPings
<1>4. PICK u \in [1 .. n -> bad] :
        task' = [task EXCEPT ![o].pc = "ping",
                             ![o].unknown = [j \in 1 .. n |-> s[u[j]]]]
  BY <1>3
<1> DEFINE q == [j \in 1 .. n |-> s[u[j]]]
<1>5. n \in Nat /\ n <= K
  BY <1>2, ConstantsAssumption
<1>6. q \in Seq(Obj) /\ Len(q) = n
  <2>1. q \in [1 .. n -> Obj]
    BY <1>2, <1>4
  <2>2. q \in Seq(Obj) /\ DOMAIN q = 1 .. n
    BY <1>5, <2>1, FunctionIsSeq
  <2> HIDE DEF q
  <2> QED
    BY <1>5, <2>2
<1>7. task' = [task EXCEPT ![o].pc = "ping", ![o].unknown = q]
  BY <1>4
<1> HIDE DEF q
<1>8. /\ task'[o].pc = "ping" /\ task'[o].bucket = b /\ task'[o].unknown = q
      /\ \A p \in Obj : p # o => task'[p] = task[p]
  BY <1>6, <1>7, PingFacts DEF IInv
<1>9. Less(Rank(o)', Rank(o))
  BY <1>1, <1>2, <1>5, <1>6, <1>8, ConstantsAssumption DEF Less, Rank
<1> QED
  BY <1>1, <1>8, <1>9, OthersWait, OneAdvances

LEMMA ReturnAdvances ==
  ASSUME IInv, NEW o \in Obj, OnStack(o) \/ Idle, Return(o)
  PROVE  Advances
<1>1. task'[o].pc = "done" /\ \A q \in Obj : q # o => task'[q] = task[q]
  BY ReturnFacts DEF IInv
<1> QED
  BY <1>1, OthersWait, OneAdvances DEF Active

LEMMA PingAnsweredAdvances ==
  ASSUME IInv, NEW o \in Obj, PingAnswered(o)
  PROVE  Advances
<1> DEFINE u == task[o].unknown
<1>1. Idle /\ task[o].pc = "ping"
  BY DEF PingAnswered, Turn
<1>2. u \in Seq(Obj) /\ u # <<>> /\ task[o].bucket \in Bucket
  BY <1>1 DEF IInv, TypeOK, Task, StackInv
<1>3. CASE Return(o)
  BY <1>1, <1>3, ReturnAdvances
<1>4. CASE ~Return(o)
  <2>1. task' = [task EXCEPT ![o].unknown = Tail(u)]
    BY <1>4 DEF PingAnswered
  <2>2. /\ task'[o].pc = "ping" /\ task'[o].bucket = task[o].bucket
        /\ task'[o].unknown = Tail(u)
        /\ \A q \in Obj : q # o => task'[q] = task[q]
    BY <1>1, <2>1 DEF IInv, TypeOK, Task
  <2>3. Len(Tail(u)) < Len(u) /\ task[o].bucket.max - task[o].bucket.min \in Int
    BY <1>2, TailFacts DEF Bucket, Byte
  <2>4. Less(Rank(o)', Rank(o))
    BY <1>1, <2>2, <2>3 DEF Less, Rank
  <2> QED
    BY <1>1, <2>2, <2>4, OthersWait, OneAdvances
<1> QED
  BY <1>3, <1>4

\* The turns that start an insertion, and those that do not.
LEMMA HearsAdvances ==
  ASSUME IInv, Idle, NEW i, NEW r, Insert(r) \/ Touch(i, r)
  PROVE  Advances
<1>1. CASE Touch(i, r)
  BY <1>1, TurnAdvances DEF Touch
<1>2. CASE Insert(r)
  <2>1. PICK o \in Obj : /\ task[o].pc = "new"
                         /\ task' = [task EXCEPT ![o].pc = "walk"]
    BY <1>2 DEF Insert
  <2>2. \A q \in Obj : Active(q) => task'[q] = task[q]
    BY <2>1 DEF Active, IInv, TypeOK
  <2> QED
    BY <2>2, TurnAdvances
<1> QED
  BY <1>1, <1>2

LEMMA NextAdvances == IInv /\ [Next]_vars => [Advances]_vars
<1> SUFFICES ASSUME IInv, Next PROVE Advances
  OBVIOUS
<1>1. CASE \E i \in Id : RecordQuery(i) \/ RecordResponse(i) \/ RecordNoResponse(i)
  BY <1>1, HearsAdvances DEF RecordQuery, RecordResponse, RecordNoResponse, Turn
<1>2. CASE \E i \in Id, response, query \in SavedTime, failed \in 0 .. MaxFailed :
             LoadEntry(i, response, query, failed)
  <2>1. PICK i \in Id, response \in SavedTime, query \in SavedTime,
             failed \in 0 .. MaxFailed : LoadEntry(i, response, query, failed)
    BY <1>2
  <2>2. Idle /\ \E r : Insert(r) \/ Touch(i, r)
    BY <2>1 DEF LoadEntry
  <2> QED
    BY <2>2, HearsAdvances
<1>3. CASE EndLoad \/ Tick \/ Dispose
  BY <1>3, TurnAdvances DEF EndLoad, Tick, Dispose, Turn
<1>4. CASE \E o \in Obj : Running(o)
  <2>1. PICK o \in Obj : Running(o)
    BY <1>4
  <2>2. CASE AddContact(o) \/ ReplaceBad(o) \/ Discard(o)
    <3>1. ReplaceBad(o) => AtFullLeaf(o) /\ \E p : Replace(o, p)
      BY DEF ReplaceBad
    <3>2. Return(o)
      BY <2>2, <3>1 DEF AddContact, Discard, Replace
    <3>3. OnStack(o)
      BY <2>2, <3>1 DEF AddContact, Discard, AtFullLeaf, OnStack
    <3> QED
      BY <3>2, <3>3, ReturnAdvances
  <2> QED
    BY <2>1, <2>2, GotoAdvances, BeginSplitAdvances, MoveContactAdvances,
       StartPingsAdvances DEF Running
<1>5. CASE \E o \in Obj : PingAnswered(o) \/ PingFailed(o) \/ PingTimedOut(o)
  <2>1. PICK o \in Obj : PingAnswered(o) \/ PingFailed(o) \/ PingTimedOut(o)
    BY <1>5
  <2>2. CASE PingFailed(o) \/ PingTimedOut(o)
    BY <2>2, ReturnAdvances
    DEF PingFailed, PingTimedOut, GiveUp, Replace, Turn
  <2> QED
    BY <2>1, <2>2, PingAnsweredAdvances
<1> QED
  BY <1>1, <1>2, <1>3, <1>4, <1>5 DEF Next

\* _insertNode never goes round in a circle: every step of an insertion that
\* does not end it narrows the bucket or leaves less to do there, however
\* many insertions overlap.  With fairness, InsertionSettles follows.
THEOREM InsertionsAdvance == Spec => InsertionAdvances
<1>1. Spec => [][Advances]_vars
  BY NextAdvances, Inductive, PTL DEF Spec
<1> QED
  BY <1>1 DEF Advances, InsertionAdvances
=============================================================================
