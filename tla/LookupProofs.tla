----------------------------- MODULE LookupProofs -----------------------------
(***************************************************************************)
(* Proofs about Lookup.tla and Listen.tla, for any set of nodes, any       *)
(* distances with any ties, any K and any lists a response may hold.       *)
(***************************************************************************)
EXTENDS Listen, FiniteSetTheorems, TLAPS

-----------------------------------------------------------------------------
(* The PQueue.                                                             *)

\* A queue whose nodes are all there with their distances, and which misses no
\* nearer node of s.
QueueOf(q, s) ==
  /\ q \in Queue
  /\ \A j \in 1 .. K : \/ q[j].node = None /\ q[j].dist = Infinity
                       \/ q[j].node \in Node /\ q[j].dist = Dist[q[j].node]
  /\ NearestOf(q, s)

LEMMA EmptyQueueOf == QueueOf(EmptyQueue, {})
BY ConstantsAssumption
   DEF QueueOf, EmptyQueue, Queue, Entry, NearestOf, Sorted, Items, Furthest

\* The entries not farther than n are the first c, for some c.
LEMMA Position ==
  ASSUME NEW q \in Queue, NEW n \in Node
  PROVE  \E c \in 0 .. K : \A j \in 1 .. K :
           (\A k \in 1 .. j : q[k].dist <= Dist[n]) <=> j <= c
<1> DEFINE S == {j \in 1 .. K : \A k \in 1 .. j : q[k].dist <= Dist[n]}
           c == Cardinality(S)
<1>1. IsFiniteSet(S) /\ c \in 0 .. K
  <2>1. IsFiniteSet(1 .. K) /\ Cardinality(1 .. K) = K
    <3>1. 1 \in Int /\ K \in Int /\ ~ (1 > K) /\ K - 1 + 1 = K
      BY ConstantsAssumption
    <3> QED
      BY <3>1, FS_Interval
  <2>2. S \in SUBSET (1 .. K)
    OBVIOUS
  <2>3. IsFiniteSet(S) /\ c <= K
    BY <2>1, <2>2, FS_Subset
  <2>4. c \in Nat
    BY <2>3, FS_CardinalityType
  <2>5. \A x \in Nat : x <= K => x \in 0 .. K
    BY ConstantsAssumption
  <2> QED
    BY <2>3, <2>4, <2>5
<1>2. ASSUME NEW j \in S PROVE j <= c
  <2>1. 1 .. j \in SUBSET S
    BY ConstantsAssumption
  <2>2. Cardinality(1 .. j) = j
    BY FS_Interval
  <2>3. Cardinality(1 .. j) <= c
    BY <1>1, <2>1, FS_Subset
  <2> QED
    BY <2>2, <2>3
<1>3. S = 1 .. c
  <2>1. S \in SUBSET (1 .. c)
    BY <1>1, <1>2
  <2>2. IsFiniteSet(1 .. c) /\ Cardinality(1 .. c) = c
    BY <1>1, FS_Interval
  <2> QED
    BY <2>1, <2>2, FS_Subset
<1> HIDE DEF c
<1> QED
  BY <1>1, <1>3

\* Push inserts n behind the first c entries, or drops it.
LEMMA PushAt ==
  ASSUME NEW q \in Queue, NEW n \in Node
  PROVE  \E c \in 0 .. K :
           /\ \A j \in 1 .. c : q[j].dist <= Dist[n] /\ Push(q, n)[j] = q[j]
           /\ c < K => /\ q[c + 1].dist > Dist[n]
                       /\ Push(q, n)[c + 1] = [dist |-> Dist[n], node |-> n]
           /\ \A j \in c + 2 .. K : Push(q, n)[j] = q[j - 1]
           /\ DOMAIN Push(q, n) = 1 .. K
<1> DEFINE Nearer(j) == \A k \in 1 .. j : q[k].dist <= Dist[n]
<1>1. PICK c \in 0 .. K : \A j \in 1 .. K : Nearer(j) <=> j <= c
  BY Position
<1>2. Nearer(0)
  OBVIOUS
<1>3. \A j \in 0 .. K : Nearer(j) <=> j <= c
  <2> HIDE DEF Nearer
  <2>1. \A j \in 0 .. K : j = 0 \/ j \in 1 .. K
    BY ConstantsAssumption
  <2>2. 0 <= c
    BY ConstantsAssumption
  <2> QED
    BY <1>1, <1>2, <2>1, <2>2
<1>4. \A j \in 1 .. K : q[j].dist \in Nat /\ Dist[n] \in Nat
  BY ConstantsAssumption DEF Queue, Entry
<1>5. \A j \in 1 .. c : q[j].dist <= Dist[n]
  BY <1>3, <1>4, ConstantsAssumption
<1>6. c < K => q[c + 1].dist > Dist[n]
  <2> SUFFICES ASSUME c < K PROVE q[c + 1].dist > Dist[n]
    OBVIOUS
  <2>1. ~ Nearer(c + 1) /\ c + 1 \in 1 .. K
    BY <1>3, ConstantsAssumption
  <2>2. PICK k \in 1 .. c + 1 : ~ (q[k].dist <= Dist[n])
    BY <2>1
  <2>3. k = c + 1
    BY <2>2, <1>5
  <2> QED
    BY <2>1, <2>2, <2>3, <1>4
<1>7. Push(q, n) = [j \in 1 .. K |->
         IF Nearer(j) THEN q[j]
         ELSE IF Nearer(j - 1) THEN [dist |-> Dist[n], node |-> n]
         ELSE q[j - 1]]
  BY DEF Push
<1> HIDE DEF Nearer
<1>8. /\ \A j \in 1 .. c : Push(q, n)[j] = q[j]
      /\ c < K => Push(q, n)[c + 1] = [dist |-> Dist[n], node |-> n]
      /\ \A j \in c + 2 .. K : Push(q, n)[j] = q[j - 1]
      /\ DOMAIN Push(q, n) = 1 .. K
  BY <1>3, <1>7, ConstantsAssumption
<1> QED
  BY <1>5, <1>6, <1>8

\* With n pushed, the queue is one of s and n.
LEMMA PushQueueOf ==
  ASSUME NEW q, NEW s \in SUBSET Node, QueueOf(q, s), NEW n \in Node
  PROVE  /\ QueueOf(Push(q, n), s \cup {n})
         /\ Furthest(Push(q, n)) <= Furthest(q)
<1> DEFINE p == Push(q, n)
<1>1. q \in Queue /\ Sorted(q)
  BY DEF QueueOf, NearestOf
<1>2. PICK c \in 0 .. K :
           /\ \A j \in 1 .. c : q[j].dist <= Dist[n] /\ p[j] = q[j]
           /\ c < K => /\ q[c + 1].dist > Dist[n]
                       /\ p[c + 1] = [dist |-> Dist[n], node |-> n]
           /\ \A j \in c + 2 .. K : p[j] = q[j - 1]
           /\ DOMAIN p = 1 .. K
  BY <1>1, PushAt
<1>3. /\ \A j \in 1 .. K : q[j] \in Entry /\ q[j].dist \in Nat
      /\ \A m \in Node : Dist[m] \in 0 .. Infinity /\ Dist[m] \in Nat
      /\ K \in Nat /\ K >= 1 /\ Infinity \in Nat /\ None \notin Node
  BY <1>1, ConstantsAssumption DEF Queue, Entry
<1>4. \A j \in 1 .. K : \/ j \in 1 .. c
                        \/ j = c + 1 /\ c < K
                        \/ j \in c + 2 .. K /\ j - 1 \in c + 1 .. K - 1
  BY <1>3
<1>5. [dist |-> Dist[n], node |-> n] \in Entry
  BY <1>3 DEF Entry
<1> HIDE DEF p
<1>6. p \in Queue
  <2>1. \A j \in 1 .. K : p[j] \in Entry
    <3> SUFFICES ASSUME NEW j \in 1 .. K PROVE p[j] \in Entry
      OBVIOUS
    <3>1. CASE j \in 1 .. c
      BY <3>1, <1>2, <1>3
    <3>2. CASE j = c + 1 /\ c < K
      BY <3>2, <1>2, <1>5
    <3>3. CASE j \in c + 2 .. K /\ j - 1 \in c + 1 .. K - 1
      <4>1. p[j] = q[j - 1] /\ j - 1 \in 1 .. K
        BY <3>3, <1>2, <1>3
      <4> QED
        BY <4>1, <1>3
    <3> QED
      BY <3>1, <3>2, <3>3, <1>4
  <2>2. p = [j \in 1 .. K |-> p[j]]
    BY <1>2, ConstantsAssumption DEF p, Push
  <2> QED
    BY <2>1, <2>2 DEF Queue
<1>7. \A j \in 1 .. K : \/ p[j].node = None /\ p[j].dist = Infinity
                        \/ p[j].node \in Node /\ p[j].dist = Dist[p[j].node]
  BY <1>2, <1>3, <1>4 DEF QueueOf
<1>8. Sorted(p)
  <2> SUFFICES ASSUME NEW i \in 1 .. K, NEW j \in 1 .. K, i <= j
               PROVE  p[i].dist <= p[j].dist
    BY DEF Sorted
  <2>1. \A x, y \in 1 .. K : x <= y => q[x].dist <= q[y].dist
    BY <1>1 DEF Sorted
  <2>2. CASE j \in 1 .. c
    BY <1>2, <2>1, <2>2
  <2>3. CASE j = c + 1 /\ c < K
    <3>1. CASE i = j
      BY <3>1, <2>3, <1>2, <1>3
    <3>2. CASE i \in 1 .. c
      BY <3>2, <2>3, <1>2
    <3> QED
      BY <3>1, <3>2, <2>3
  <2>4. CASE j \in c + 2 .. K
    <3>1. p[j] = q[j - 1] /\ j - 1 \in 1 .. K /\ c + 1 \in 1 .. K /\ c + 1 <= j - 1
      BY <1>2, <1>3, <2>4
    <3>2. CASE i \in 1 .. c
      BY <3>1, <3>2, <1>2, <2>1
    <3>3. CASE i = c + 1
      <4>1. p[i].dist = Dist[n] /\ Dist[n] < q[c + 1].dist
        BY <3>1, <3>3, <1>2, <1>3
      <4>2. q[c + 1].dist <= q[j - 1].dist
        BY <3>1, <2>1
      <4> QED
        BY <3>1, <4>1, <4>2, <1>3
    <3>4. CASE i \in c + 2 .. K
      <4>1. p[i] = q[i - 1] /\ i - 1 \in 1 .. K /\ i - 1 <= j - 1
        BY <3>4, <1>2, <1>3
      <4> QED
        BY <3>1, <4>1, <2>1
    <3> QED
      BY <3>2, <3>3, <3>4, <1>4
  <2> QED
    BY <2>2, <2>3, <2>4, <1>4
<1>9. Items(p) \subseteq s \cup {n}
  <2>1. \A j \in 1 .. K : q[j].node \in s \cup {None}
    BY DEF QueueOf, NearestOf, Items
  <2>2. \A j \in 1 .. K : p[j].node \in s \cup {None, n}
    <3> SUFFICES ASSUME NEW j \in 1 .. K PROVE p[j].node \in s \cup {None, n}
      OBVIOUS
    <3>1. CASE j \in 1 .. c
      BY <3>1, <2>1, <1>2
    <3>2. CASE j = c + 1 /\ c < K
      BY <3>2, <1>2
    <3>3. CASE j \in c + 2 .. K /\ j - 1 \in c + 1 .. K - 1
      <4>1. p[j] = q[j - 1] /\ j - 1 \in 1 .. K
        BY <3>3, <1>2, <1>3
      <4> QED
        BY <4>1, <2>1
    <3> QED
      BY <3>1, <3>2, <3>3, <1>4
  <2> QED
    BY <2>2 DEF Items
<1>10. Furthest(p) <= Furthest(q)
  <2>1. CASE c = K
    BY <2>1, <1>2, <1>3 DEF Furthest
  <2>2. CASE c + 1 = K
    <3>1. p[K].dist = Dist[n] /\ q[K].dist > Dist[n]
      BY <2>2, <1>2, <1>3
    <3> QED
      BY <3>1, <1>3 DEF Furthest
  <2>3. CASE K \in c + 2 .. K
    <3>1. p[K] = q[K - 1] /\ K - 1 \in 1 .. K /\ K \in 1 .. K
      BY <2>3, <1>2, <1>3
    <3> QED
      BY <3>1, <1>1, <1>3 DEF Furthest, Sorted
  <2> QED
    BY <2>1, <2>2, <2>3, <1>3
<1>11. ASSUME NEW m \in s \cup {n}, m \notin Items(p)
       PROVE  Dist[m] >= Furthest(p)
  <2>1. Furthest(p) \in Nat /\ Furthest(q) \in Nat /\ m \in Node /\ Dist[m] \in Nat
    BY <1>3, <1>6 DEF Furthest, Queue, Entry
  <2>2. \A j \in 1 .. K : p[j].node # m
    BY <1>3, <1>11, <2>1 DEF Items
  <2>3. CASE m = n
    <3>1. c = K
      <4>1. c < K => c + 1 \in 1 .. K /\ p[c + 1].node = n
        BY <1>2, <1>3
      <4> QED
        BY <4>1, <2>2, <2>3, <1>3
    <3>2. p[K] = q[K] /\ q[K].dist <= Dist[n]
      BY <3>1, <1>2, <1>3
    <3> QED
      BY <3>2, <2>3 DEF Furthest
  <2>4. CASE m \in s /\ m \in Items(q)
    <3>1. PICK j \in 1 .. K : q[j].node = m
      BY <2>4 DEF Items
    <3>2. q[j].dist = Dist[m]
      BY <3>1, <2>1, <1>3 DEF QueueOf
    <3>3. j = K
      <4>1. j \in 1 .. c => p[j] = q[j]
        BY <1>2
      <4>2. j \in c + 1 .. K - 1 => p[j + 1] = q[j] /\ j + 1 \in 1 .. K
        <5>1. j \in c + 1 .. K - 1 => j + 1 \in c + 2 .. K /\ (j + 1) - 1 = j
          BY <1>3
        <5> QED
          BY <5>1, <1>2, <1>3
      <4> QED
        BY <4>1, <4>2, <3>1, <2>2, <1>3
    <3> QED
      BY <3>2, <3>3, <1>10, <2>1 DEF Furthest
  <2>5. CASE m \in s /\ m \notin Items(q)
    <3>1. Dist[m] >= Furthest(q)
      BY <2>5 DEF QueueOf, NearestOf
    <3> QED
      BY <3>1, <1>10, <2>1
  <2> QED
    BY <2>3, <2>4, <2>5
<1>12. NearestOf(p, s \cup {n})
  BY <1>8, <1>9, <1>11 DEF NearestOf
<1> QED
  BY <1>6, <1>7, <1>10, <1>12 DEF p, QueueOf

-----------------------------------------------------------------------------
(* The inductive invariant of a lookup.                                    *)

Live == status \in {"start", "run", "done"}

\* The responders that the loop takes into closest.
Taken == answered \ (IF rescb = "values" THEN Value ELSE {})

Writers == IF rescb = "tokens" THEN answered \cap Token ELSE {}

QueueInv == QueueOf(closest, Taken) /\ QueueOf(writeable, Writers)

\* Who has been queried has been named, and answers or is still waited for,
\* unless the lookup broke off.
SeenInv ==
  /\ answered \subseteq seen /\ seen \subseteq learned
  /\ \A n \in Node : asking[n] > 0 => n \in seen
  /\ Live => \A n \in seen : asking[n] > 0 \/ n \in Taken

\* Who was named and not queried is too far; closest has only come nearer since.
FarInv == Live => \A n \in learned : n \in seen \/ Dist[n] >= Furthest(closest)

EndInv ==
  /\ status = "done" => \A n \in Node : asking[n] = 0
  /\ wrote # None => rescb = "tokens" /\ status = "done" /\ wrote = Items(writeable)

LInv == TypeOK /\ QueueInv /\ SeenInv /\ FarInv /\ EndInv

LEMMA LInit == Init => LInv
<1> SUFFICES ASSUME Init PROVE LInv
  OBVIOUS
<1>1. closest = EmptyQueue /\ writeable = EmptyQueue /\ Taken = {} /\ Writers = {}
  BY DEF Init, Taken, Writers
<1>2. QueueInv
  BY <1>1, EmptyQueueOf DEF QueueInv
<1>3. TypeOK
  <2>1. closest \in Queue /\ writeable \in Queue
    BY <1>2 DEF QueueInv, QueueOf
  <2> QED
    BY <2>1 DEF Init, TypeOK
<1>4. SeenInv /\ FarInv /\ EndInv
  BY DEF Init, SeenInv, FarInv, EndInv
<1> QED
  BY <1>2, <1>3, <1>4 DEF LInv

\* What a turn of the loop leaves, given its list, queue and outstanding queries.
LEMMA ContinueSets ==
  ASSUME NEW list \in Listed, NEW q, NEW remaining \in [Node -> Nat], seen \subseteq Node,
         Continue(list, q, remaining)
  PROVE  /\ closest' = q
         /\ seen' \subseteq Node /\ seen \subseteq seen'
         /\ learned' = learned \cup {list[i] : i \in 1 .. Len(list)}
         /\ \A i \in 1 .. Len(list) :
              list[i] \in Node /\ (list[i] \in seen' \/ ~ (Dist[list[i]] < Furthest(q)))
         /\ \A n \in seen' \ seen : n \in learned'
         /\ asking' \in [Node -> Nat]
         /\ \A n \in Node : asking'[n] > 0 <=> remaining[n] > 0 \/ n \in seen' \ seen
         /\ \A n \in Node : n \notin seen' \ seen => asking'[n] = remaining[n]
         /\ status' = IF \A n \in Node : asking'[n] = 0 THEN "done" ELSE "run"
         /\ twice \subseteq twice' /\ twice' \subseteq twice \cup Node
         /\ \A n \in Node \ twice' : asking'[n] <= remaining[n] + 1
<1> DEFINE c == Candidates(list, q)
           at(n) == {i \in c : list[i] = n}
<1>1. list \in Seq(Node) /\ Len(list) \in Nat
  BY ConstantsAssumption
<1>2. \A i \in 1 .. Len(list) : list[i] \in Node
  BY <1>1
<1>3. c \subseteq 1 .. Len(list) /\ \A i \in c : list[i] \notin seen
  BY DEF Candidates
<1>4. /\ closest' = q
      /\ seen' = seen \cup {list[i] : i \in c}
      /\ asking' = [n \in Node |-> remaining[n] + Cardinality(at(n))]
      /\ learned' = learned \cup {list[i] : i \in 1 .. Len(list)}
      /\ status' = IF \A n \in Node : asking'[n] = 0 THEN "done" ELSE "run"
      /\ twice' = twice \cup {n \in Node : Cardinality(at(n)) > 1}
  BY DEF Continue
<1>5. ASSUME NEW n \in Node
      PROVE  Cardinality(at(n)) \in Nat /\ (Cardinality(at(n)) = 0 <=> at(n) = {})
  <2>1. IsFiniteSet(1 .. Len(list))
    <3>1. 1 \in Int /\ Len(list) \in Int
      BY <1>1
    <3> QED
      BY <3>1, FS_Interval
  <2>2. at(n) \in SUBSET (1 .. Len(list))
    BY <1>3
  <2>3. IsFiniteSet(at(n))
    BY <2>1, <2>2, FS_Subset
  <2> QED
    BY <2>3, FS_CardinalityType, FS_EmptySet
<1>6. \A n \in Node : at(n) = {} <=> n \notin seen' \ seen
  BY <1>3, <1>4
<1>7. \A i \in 1 .. Len(list) : list[i] \in seen' \/ ~ (Dist[list[i]] < Furthest(q))
  BY <1>4 DEF Candidates
<1>8. seen' \subseteq Node /\ seen \subseteq seen' /\ \A n \in seen' \ seen : n \in learned'
  BY <1>2, <1>3, <1>4
<1> HIDE DEF at
<1>9. asking' \in [Node -> Nat]
  BY <1>4, <1>5
<1>10. \A n \in Node : asking'[n] > 0 <=> remaining[n] > 0 \/ n \in seen' \ seen
  <2> SUFFICES ASSUME NEW n \in Node
               PROVE  asking'[n] > 0 <=> remaining[n] > 0 \/ n \in seen' \ seen
    OBVIOUS
  <2>1. asking'[n] = remaining[n] + Cardinality(at(n)) /\ remaining[n] \in Nat
    BY <1>4
  <2>2. Cardinality(at(n)) \in Nat /\ (Cardinality(at(n)) = 0 <=> n \notin seen' \ seen)
    BY <1>5, <1>6
  <2> QED
    BY <2>1, <2>2
<1>11. \A n \in Node : n \notin seen' \ seen => asking'[n] = remaining[n]
  BY <1>4, <1>5, <1>6
<1>12. \A n \in Node \ twice' : asking'[n] <= remaining[n] + 1
  <2> SUFFICES ASSUME NEW n \in Node \ twice' PROVE asking'[n] <= remaining[n] + 1
    OBVIOUS
  <2>1. asking'[n] = remaining[n] + Cardinality(at(n)) /\ remaining[n] \in Nat
    BY <1>4
  <2>2. Cardinality(at(n)) \in Nat /\ ~ (Cardinality(at(n)) > 1)
    BY <1>4, <1>5
  <2> QED
    BY <2>1, <2>2
<1>13. twice \subseteq twice' /\ twice' \subseteq twice \cup Node
  BY <1>4
<1> QED
  BY <1>2, <1>4, <1>7, <1>8, <1>9, <1>10, <1>11, <1>12, <1>13

\* A turn of the loop keeps the invariant.
LEMMA ContinueInv ==
  ASSUME LInv, NEW list \in Listed, NEW q, NEW remaining \in [Node -> Nat],
         Continue(list, q, remaining), Live,
         rescb' = rescb, wrote' = None,
         answered \subseteq answered', answered' \subseteq seen,
         QueueOf(q, Taken'), Furthest(q) <= Furthest(closest),
         QueueOf(writeable', Writers'),
         \A n \in Node : remaining[n] > 0 => n \in seen,
         \A n \in seen : remaining[n] > 0 \/ n \in Taken'
  PROVE  LInv'
<1>1. /\ closest' = q
      /\ seen' \subseteq Node /\ seen \subseteq seen'
      /\ learned' = learned \cup {list[i] : i \in 1 .. Len(list)}
      /\ \A i \in 1 .. Len(list) :
              list[i] \in Node /\ (list[i] \in seen' \/ ~ (Dist[list[i]] < Furthest(q)))
      /\ \A n \in seen' \ seen : n \in learned'
      /\ asking' \in [Node -> Nat]
      /\ \A n \in Node : asking'[n] > 0 <=> remaining[n] > 0 \/ n \in seen' \ seen
      /\ status' = IF \A n \in Node : asking'[n] = 0 THEN "done" ELSE "run"
      /\ twice' \subseteq twice \cup Node
  <2>1. seen \subseteq Node
    BY DEF LInv, TypeOK
  <2> QED
    BY <2>1, ContinueSets
<1>2. Furthest(q) \in Nat /\ Furthest(closest) \in Nat /\ \A n \in Node : Dist[n] \in Nat
  BY ConstantsAssumption DEF QueueOf, Queue, Entry, Furthest, LInv, TypeOK
<1>3. learned' \subseteq Node /\ answered' \subseteq Node /\ twice' \subseteq Node
  BY <1>1 DEF LInv, TypeOK
<1>4. TypeOK'
  <2>1. q \in Queue /\ writeable' \in Queue
    BY DEF QueueOf
  <2>2. status' \in {"run", "done"} /\ rescb \in {"none", "tokens", "values"}
    BY <1>1 DEF LInv, TypeOK
  <2> QED
    BY <1>1, <1>3, <2>1, <2>2 DEF TypeOK
<1>5. QueueInv'
  BY <1>1 DEF QueueInv
<1>6. SeenInv'
  BY <1>1 DEF SeenInv, LInv, TypeOK
<1>7. FarInv'
  <2> SUFFICES ASSUME NEW n \in learned'
               PROVE  n \in seen' \/ Dist[n] >= Furthest(closest')
    BY DEF FarInv
  <2>1. CASE n \in learned
    <3>1. n \in Node /\ (n \in seen \/ Dist[n] >= Furthest(closest))
      BY <2>1 DEF LInv, TypeOK, FarInv
    <3> QED
      BY <3>1, <1>1, <1>2
  <2>2. CASE \E i \in 1 .. Len(list) : n = list[i]
    <3>1. n \in Node /\ (n \in seen' \/ ~ (Dist[n] < Furthest(q)))
      BY <2>2, <1>1
    <3> QED
      BY <3>1, <1>1, <1>2
  <2> QED
    BY <2>1, <2>2, <1>1
<1>8. EndInv'
  BY <1>1 DEF EndInv
<1> QED
  BY <1>4, <1>5, <1>6, <1>7, <1>8 DEF LInv

LEMMA StartInv ==
  ASSUME LInv, NEW list \in Listed, Start(list)
  PROVE  LInv'
<1>1. /\ status = "start" /\ Continue(list, closest, asking)
      /\ UNCHANGED <<rescb, writeable, wrote, answered>>
  BY DEF Start
<1>2. Live /\ wrote = None /\ asking \in [Node -> Nat]
  BY <1>1 DEF Live, LInv, EndInv, TypeOK
<1>3. Taken' = Taken /\ Writers' = Writers
  BY <1>1 DEF Taken, Writers
<1>4. QueueOf(closest, Taken') /\ QueueOf(writeable', Writers')
  BY <1>1, <1>3 DEF LInv, QueueInv
<1>5. Furthest(closest) <= Furthest(closest)
  BY ConstantsAssumption DEF LInv, TypeOK, Queue, Entry, Furthest
<1>6. /\ answered \subseteq seen
      /\ \A n \in Node : asking[n] > 0 => n \in seen
      /\ \A n \in seen : asking[n] > 0 \/ n \in Taken'
  BY <1>2, <1>3 DEF LInv, SeenInv
<1> QED
  BY <1>1, <1>2, <1>4, <1>5, <1>6, ContinueInv

LEMMA ResponseInv ==
  ASSUME LInv, NEW n \in Node, NEW list \in Listed, Response(n, list)
  PROVE  LInv'
<1>1. /\ status = "run" /\ asking[n] > 0
      /\ answered' = answered \cup {n}
      /\ writeable' = IF rescb = "tokens" /\ n \in Token THEN Push(writeable, n)
                                                         ELSE writeable
      /\ rescb' = rescb /\ wrote' = wrote
  BY DEF Response
<1>2. /\ asking \in [Node -> Nat] /\ answered \subseteq Node /\ n \in seen
      /\ Taken \subseteq Node /\ Writers \subseteq Node
      /\ wrote = None
  BY <1>1 DEF LInv, TypeOK, SeenInv, EndInv, Taken, Writers
<1>3. /\ Settled(n) \in [Node -> Nat]
      /\ \A m \in Node : Settled(n)[m] <= asking[m]
      /\ \A m \in Node \ {n} : Settled(n)[m] = asking[m]
  BY <1>1, <1>2 DEF Settled
<1>4. QueueOf(writeable', Writers')
  <2>1. CASE rescb = "tokens" /\ n \in Token
    <3>1. Writers' = Writers \cup {n} /\ writeable' = Push(writeable, n)
      BY <1>1, <2>1 DEF Writers
    <3>2. QueueOf(writeable, Writers)
      BY DEF LInv, QueueInv
    <3> QED
      BY <1>2, <3>1, <3>2, PushQueueOf
  <2>2. CASE ~ (rescb = "tokens" /\ n \in Token)
    <3>1. Writers' = Writers /\ writeable' = writeable
      BY <1>1, <2>2 DEF Writers
    <3> QED
      BY <3>1 DEF LInv, QueueInv
  <2> QED
    BY <2>1, <2>2
<1>5. CASE rescb = "values" /\ n \in Value
  <2>1. /\ status' = "value" /\ asking' = Settled(n)
        /\ UNCHANGED <<closest, seen, learned, twice>>
    BY <1>5 DEF Response
  <2>2. Taken' = Taken
    BY <1>1, <1>5 DEF Taken
  <2>3. QueueInv'
    BY <1>4, <2>1, <2>2 DEF LInv, QueueInv
  <2>4. TypeOK'
    BY <1>1, <1>2, <1>3, <2>1, <2>3 DEF LInv, TypeOK, QueueInv, QueueOf
  <2>5. \A m \in Node : asking'[m] > 0 => asking[m] > 0
    BY <1>2, <1>3, <2>1
  <2>6. SeenInv' /\ FarInv' /\ EndInv'
    BY <1>1, <1>2, <2>1, <2>5 DEF LInv, SeenInv, FarInv, EndInv, Live
  <2> QED
    BY <2>3, <2>4, <2>6 DEF LInv
<1>6. CASE ~ (rescb = "values" /\ n \in Value)
  <2>1. Continue(list, Push(closest, n), Settled(n))
    BY <1>6 DEF Response
  <2>2. Taken' = Taken \cup {n}
    BY <1>1, <1>6 DEF Taken
  <2>3. QueueOf(closest, Taken)
    BY DEF LInv, QueueInv
  <2>4. /\ QueueOf(Push(closest, n), Taken')
        /\ Furthest(Push(closest, n)) <= Furthest(closest)
    BY <1>2, <2>2, <2>3, PushQueueOf
  <2>5. answered \subseteq answered' /\ answered' \subseteq seen
    BY <1>1, <1>2 DEF LInv, SeenInv
  <2>6. Live
    BY <1>1 DEF Live
  <2>7. \A m \in Node : Settled(n)[m] > 0 => m \in seen
    BY <1>2, <1>3 DEF LInv, SeenInv
  <2>8. \A m \in seen : Settled(n)[m] > 0 \/ m \in Taken'
    <3> SUFFICES ASSUME NEW m \in seen PROVE Settled(n)[m] > 0 \/ m \in Taken'
      OBVIOUS
    <3>1. m \in Node /\ (asking[m] > 0 \/ m \in Taken)
      BY <2>6 DEF LInv, SeenInv, TypeOK
    <3> QED
      BY <3>1, <1>3, <2>2
  <2> QED
    BY <1>1, <1>2, <1>3, <1>4, <2>1, <2>4, <2>5, <2>6, <2>7, <2>8, ContinueInv
<1> QED
  BY <1>5, <1>6

LEMMA ErrorInv ==
  ASSUME LInv, NEW n \in Node, Error(n)
  PROVE  LInv'
<1>1. /\ status = "run" /\ asking[n] > 0 /\ asking' = Settled(n) /\ status' = "failed"
      /\ UNCHANGED <<rescb, closest, seen, writeable, wrote, learned, answered,
                     twice>>
  BY DEF Error
<1>2. asking \in [Node -> Nat] /\ wrote = None
  BY <1>1 DEF LInv, TypeOK, EndInv
<1>3. asking' \in [Node -> Nat] /\ \A m \in Node : asking'[m] > 0 => asking[m] > 0
  BY <1>1, <1>2 DEF Settled
<1>4. QueueInv'
  BY <1>1 DEF LInv, QueueInv, Taken, Writers
<1>5. TypeOK'
  BY <1>1, <1>3 DEF LInv, TypeOK
<1>6. SeenInv' /\ FarInv' /\ EndInv'
  BY <1>1, <1>2, <1>3 DEF LInv, SeenInv, FarInv, EndInv, Live
<1> QED
  BY <1>4, <1>5, <1>6 DEF LInv

LEMMA AnnounceInv ==
  ASSUME LInv, Announce
  PROVE  LInv'
<1>1. /\ status = "done" /\ rescb = "tokens" /\ wrote' = Items(writeable)
      /\ UNCHANGED <<rescb, closest, seen, asking, status, writeable, learned, answered,
                     twice>>
  BY DEF Announce
<1>2. Items(writeable) \subseteq Node
  BY DEF LInv, QueueInv, QueueOf, Items
<1>3. TypeOK'
  BY <1>1, <1>2 DEF LInv, TypeOK
<1>4. QueueInv' /\ SeenInv' /\ FarInv' /\ EndInv'
  BY <1>1 DEF LInv, QueueInv, SeenInv, FarInv, EndInv, Taken, Writers, Live
<1> QED
  BY <1>3, <1>4 DEF LInv

LEMMA LNext == LInv /\ [Next]_vars => LInv'
<1> SUFFICES ASSUME LInv, [Next]_vars PROVE LInv'
  OBVIOUS
<1>1. CASE Next
  BY <1>1, StartInv, ResponseInv, ErrorInv, AnnounceInv DEF Next
<1>2. CASE UNCHANGED vars
  BY <1>2 DEF vars, LInv, TypeOK, QueueInv, SeenInv, FarInv, EndInv, Taken, Writers, Live
<1> QED
  BY <1>1, <1>2

LEMMA Inductive == Spec => []LInv
BY LInit, LNext, PTL DEF Spec

-----------------------------------------------------------------------------
(* Who has two places in a queue.                                          *)

\* OnePlaceEach, of any set of nodes that may have two.
OnePlaceBut(q, t) ==
  \A i, j \in 1 .. K : i < j /\ q[i].node = q[j].node => q[i].node \in t \cup {None}

LEMMA PushOnePlace ==
  ASSUME NEW q \in Queue, NEW n \in Node, NEW t, OnePlaceBut(q, t),
         n \in t \/ n \notin Items(q)
  PROVE  OnePlaceBut(Push(q, n), t)
<1> DEFINE p == Push(q, n)
<1>1. PICK c \in 0 .. K :
           /\ \A j \in 1 .. c : q[j].dist <= Dist[n] /\ p[j] = q[j]
           /\ c < K => /\ q[c + 1].dist > Dist[n]
                       /\ p[c + 1] = [dist |-> Dist[n], node |-> n]
           /\ \A j \in c + 2 .. K : p[j] = q[j - 1]
           /\ DOMAIN p = 1 .. K
  BY PushAt
<1>2. K \in Nat /\ K >= 1 /\ n # None
  BY ConstantsAssumption
<1>3. n \in t \/ \A j \in 1 .. K : q[j].node # n
  BY <1>2 DEF Items
<1> HIDE DEF p
<1> SUFFICES ASSUME NEW i \in 1 .. K, NEW j \in 1 .. K, i < j, p[i].node = p[j].node
             PROVE  p[i].node \in t \cup {None}
  BY DEF OnePlaceBut, p
<1>4. \A x, y \in 1 .. K : x < y /\ q[x].node = q[y].node => q[x].node \in t \cup {None}
  BY DEF OnePlaceBut
<1>5. CASE j \in 1 .. c
  <2>1. p[i] = q[i] /\ p[j] = q[j]
    BY <1>1, <1>5
  <2> QED
    BY <1>4, <2>1
<1>6. CASE j = c + 1 /\ c < K
  <2>1. p[i] = q[i] /\ p[j].node = n
    BY <1>1, <1>6
  <2> QED
    BY <1>3, <2>1
<1>7. CASE i \in 1 .. c /\ j \in c + 2 .. K
  <2>1. p[i] = q[i] /\ p[j] = q[j - 1] /\ j - 1 \in 1 .. K /\ i < j - 1
    BY <1>1, <1>2, <1>7
  <2> QED
    BY <1>4, <2>1
<1>8. CASE i = c + 1 /\ c < K /\ j \in c + 2 .. K
  <2>1. p[i].node = n /\ p[j] = q[j - 1] /\ j - 1 \in 1 .. K
    BY <1>1, <1>2, <1>8
  <2> QED
    BY <1>3, <2>1
<1>9. CASE i \in c + 2 .. K /\ j \in c + 2 .. K
  <2>1. /\ p[i] = q[i - 1] /\ p[j] = q[j - 1]
        /\ i - 1 \in 1 .. K /\ j - 1 \in 1 .. K /\ i - 1 < j - 1
    BY <1>1, <1>2, <1>9
  <2> QED
    BY <1>4, <2>1
<1> QED
  BY <1>5, <1>6, <1>7, <1>8, <1>9, <1>2

\* A node that no list named twice is waited for once, until it answers, and
\* so it is pushed once.
OnceInv ==
  /\ \A n \in Node \ twice :
       asking[n] # 0 => asking[n] = 1 /\ n \notin answered
  /\ OnePlaceBut(closest, twice)
  /\ OnePlaceBut(writeable, twice)

LEMMA OnceInit == Init => OnceInv
<1> SUFFICES ASSUME Init PROVE OnceInv
  OBVIOUS
<1>1. OnePlaceBut(EmptyQueue, twice)
  BY DEF OnePlaceBut, EmptyQueue
<1> QED
  BY <1>1 DEF Init, OnceInv

LEMMA MorePlaces ==
  ASSUME NEW q, NEW t, NEW u, t \subseteq u, OnePlaceBut(q, t)
  PROVE  OnePlaceBut(q, u)
BY DEF OnePlaceBut

\* A turn of the loop asks no node that was asked before.
LEMMA ContinueOnce ==
  ASSUME LInv, NEW list \in Listed, NEW q, NEW remaining \in [Node -> Nat],
         Continue(list, q, remaining), answered' \subseteq seen,
         \A n \in Node : remaining[n] > 0 => n \in seen,
         \A n \in Node \ twice :
           remaining[n] # 0 => remaining[n] = 1 /\ n \notin answered'
  PROVE  /\ twice \subseteq twice' /\ closest' = q
         /\ \A n \in Node \ twice' :
              asking'[n] # 0 => asking'[n] = 1 /\ n \notin answered'
<1>1. /\ closest' = q
      /\ asking' \in [Node -> Nat]
      /\ \A n \in Node : n \notin seen' \ seen => asking'[n] = remaining[n]
      /\ twice \subseteq twice'
      /\ \A n \in Node \ twice' : asking'[n] <= remaining[n] + 1
  <2>1. seen \subseteq Node
    BY DEF LInv, TypeOK
  <2> QED
    BY <2>1, ContinueSets
<1>2. ASSUME NEW n \in Node \ twice'
      PROVE  asking'[n] # 0 => asking'[n] = 1 /\ n \notin answered'
  <2>1. CASE n \in seen' \ seen
    <3>1. remaining[n] = 0 /\ n \notin answered'
      BY <2>1
    <3>2. asking'[n] \in Nat /\ asking'[n] <= 1
      BY <1>1, <3>1
    <3> QED
      BY <3>1, <3>2
  <2>2. CASE n \notin seen' \ seen
    BY <1>1, <2>2
  <2> QED
    BY <2>1, <2>2
<1> QED
  BY <1>1, <1>2

LEMMA StartOnce ==
  ASSUME LInv, OnceInv, NEW list \in Listed, Start(list)
  PROVE  OnceInv'
<1>1. Continue(list, closest, asking) /\ UNCHANGED <<writeable, answered>>
  BY DEF Start
<1>2. /\ asking \in [Node -> Nat] /\ answered' \subseteq seen
      /\ \A n \in Node : asking[n] > 0 => n \in seen
  BY <1>1 DEF LInv, TypeOK, SeenInv
<1>3. \A n \in Node \ twice : asking[n] # 0 => asking[n] = 1 /\ n \notin answered'
  BY <1>1 DEF OnceInv
<1>4. /\ twice \subseteq twice' /\ closest' = closest
      /\ \A n \in Node \ twice' : asking'[n] # 0 => asking'[n] = 1 /\ n \notin answered'
  BY <1>1, <1>2, <1>3, ContinueOnce
<1>5. OnePlaceBut(closest, twice') /\ OnePlaceBut(writeable, twice')
  BY <1>4, MorePlaces DEF OnceInv
<1> QED
  BY <1>1, <1>4, <1>5 DEF OnceInv

LEMMA ResponseOnce ==
  ASSUME LInv, OnceInv, NEW n \in Node, NEW list \in Listed, Response(n, list)
  PROVE  OnceInv'
<1>1. /\ asking[n] > 0
      /\ answered' = answered \cup {n}
      /\ writeable' = IF rescb = "tokens" /\ n \in Token THEN Push(writeable, n)
                                                         ELSE writeable
  BY DEF Response
<1>2. /\ asking \in [Node -> Nat] /\ n \in seen /\ answered' \subseteq seen
      /\ closest \in Queue /\ writeable \in Queue
      /\ \A m \in Node : asking[m] > 0 => m \in seen
  BY <1>1 DEF LInv, TypeOK, SeenInv
<1>3. /\ Settled(n) \in [Node -> Nat]
      /\ Settled(n)[n] = asking[n] - 1
      /\ \A m \in Node \ {n} : Settled(n)[m] = asking[m]
  BY <1>1, <1>2 DEF Settled
<1>4. \A m \in Node \ twice :
        Settled(n)[m] # 0 => Settled(n)[m] = 1 /\ m \notin answered'
  BY <1>1, <1>3 DEF OnceInv
<1>5. n \in twice \/ n \notin answered
  BY <1>1 DEF OnceInv
<1>6. Items(closest) \subseteq answered /\ Items(writeable) \subseteq answered
  BY DEF LInv, QueueInv, QueueOf, NearestOf, Taken, Writers
<1>7. OnePlaceBut(Push(closest, n), twice) /\ OnePlaceBut(closest, twice)
  BY <1>2, <1>5, <1>6, PushOnePlace DEF OnceInv
<1>8. OnePlaceBut(writeable', twice)
  <2>1. OnePlaceBut(Push(writeable, n), twice)
    BY <1>2, <1>5, <1>6, PushOnePlace DEF OnceInv
  <2> QED
    BY <1>1, <2>1 DEF OnceInv
<1>9. CASE rescb = "values" /\ n \in Value
  BY <1>3, <1>4, <1>7, <1>8, <1>9 DEF Response, OnceInv
<1>10. CASE ~ (rescb = "values" /\ n \in Value)
  <2>1. Continue(list, Push(closest, n), Settled(n))
    BY <1>10 DEF Response
  <2>2. \A m \in Node : Settled(n)[m] > 0 => m \in seen
    BY <1>2, <1>3
  <2>3. /\ twice \subseteq twice' /\ closest' = Push(closest, n)
        /\ \A m \in Node \ twice' : asking'[m] # 0 => asking'[m] = 1 /\ m \notin answered'
    BY <1>2, <1>3, <1>4, <2>1, <2>2, ContinueOnce
  <2>4. OnePlaceBut(closest', twice') /\ OnePlaceBut(writeable', twice')
    BY <1>7, <1>8, <2>3, MorePlaces
  <2> QED
    BY <2>3, <2>4 DEF OnceInv
<1> QED
  BY <1>9, <1>10

LEMMA ErrorOnce ==
  ASSUME LInv, OnceInv, NEW n \in Node, Error(n)
  PROVE  OnceInv'
<1>1. /\ asking[n] > 0 /\ asking' = Settled(n)
      /\ UNCHANGED <<closest, writeable, answered, twice>>
  BY DEF Error
<1>2. /\ asking \in [Node -> Nat] /\ asking'[n] = asking[n] - 1
      /\ \A m \in Node \ {n} : asking'[m] = asking[m]
  BY <1>1 DEF LInv, TypeOK, Settled
<1> QED
  BY <1>1, <1>2 DEF OnceInv

LEMMA OnceNext == LInv /\ OnceInv /\ [Next]_vars => OnceInv'
<1> SUFFICES ASSUME LInv, OnceInv, [Next]_vars PROVE OnceInv'
  OBVIOUS
<1>1. CASE \E list \in Listed : Start(list)
  BY <1>1, StartOnce
<1>2. CASE \E n \in Node : Error(n)
  BY <1>2, ErrorOnce
<1>3. CASE \E n \in Node, list \in Listed : Response(n, list)
  BY <1>3, ResponseOnce
<1>4. CASE Announce \/ UNCHANGED vars
  BY <1>4 DEF Announce, vars, OnceInv
<1> QED
  BY <1>1, <1>2, <1>3, <1>4 DEF Next

LEMMA Once == Spec => []OnceInv
BY OnceInit, OnceNext, Inductive, PTL DEF Spec

LEMMA OnceEach ==
  ASSUME OnceInv
  PROVE  OnePlaceEach(closest) /\ OnePlaceEach(writeable)
BY DEF OnceInv, OnePlaceBut, OnePlaceEach

-----------------------------------------------------------------------------
(* The properties of a lookup, and of a lookup within listen().            *)

\* Whatever listen() and the routing table do, a node's lookup is a lookup.
THEOREM ListenLooksUp == ListenSpec => Spec
<1>1. ListenInit => Init
  BY DEF ListenInit
<1>2. [ListenNext]_listenVars => [Next]_vars
  <2>1. UNCHANGED vars => [Next]_vars
    OBVIOUS
  <2>2. CASE ListenNext
    BY <2>1, <2>2 DEF ListenNext, BeginListen, LookupOwnId, ListenReturns, ListenRejects,
                BootstrapAnswers, BootstrapSilent, HearsQuery, LookupResponse,
                OtherLookup, Next
  <2>3. CASE UNCHANGED listenVars
    BY <2>3 DEF listenVars
  <2> QED
    BY <2>2, <2>3
<1> QED
  BY <1>1, <1>2, PTL DEF ListenSpec, Spec

\* The state of a lookup has its types throughout, both queues K entries long.
THEOREM LookupTypeCorrect == Spec => []TypeOK
<1>1. LInv => TypeOK
  BY DEF LInv
<1> QED
  BY Inductive, <1>1, PTL

\* closest_ keeps the K nearest responders, in whatever order they answer: each
\* in one place, unless one list named it twice.
THEOREM ClosestNearest == Spec => []ClosestAreNearest
<1>1. LInv /\ OnceInv => ClosestAreNearest
  BY OnceEach
  DEF LInv, QueueInv, QueueOf, Taken, ClosestAreNearest, NearestUnlessTwice
<1> QED
  BY Inductive, Once, <1>1, PTL

LEMMA DoneNearest ==
  ASSUME LInv, status = "done"
  PROVE  NearestOf(closest, learned)
<1>1. NearestOf(closest, Taken)
  BY DEF LInv, QueueInv, QueueOf
<1>2. \A n \in seen : n \in Taken
  <2>1. \A n \in Node : ~ (asking[n] > 0)
    BY DEF LInv, EndInv
  <2> QED
    BY <2>1 DEF LInv, SeenInv, TypeOK, Live
<1>3. Taken \subseteq learned
  BY DEF Taken, LInv, SeenInv
<1>4. \A n \in learned : n \in seen \/ Dist[n] >= Furthest(closest)
  BY DEF LInv, FarInv, Live
<1> QED
  BY <1>1, <1>2, <1>3, <1>4 DEF NearestOf

\* A lookup of closest_ that returns has the K nearest of all it was told of,
\* each in one place, unless one list named a node twice.  With every list free
\* of that, twice is {} and these are the K nearest outright.
THEOREM LearnedNearest == Spec => []NearestLearnedFound
<1>1. LInv /\ OnceInv => NearestLearnedFound
  BY DoneNearest, OnceEach DEF NearestLearnedFound, NearestUnlessTwice
<1> QED
  BY Inductive, Once, <1>1, PTL

\* announce_peer writes to the K nearest of the nodes that gave a token, each in
\* one place, unless one list named a node twice.
THEOREM WritesNearest == Spec => []WritesToNearest
<1>1. LInv /\ OnceInv => WritesToNearest
  BY OnceEach
  DEF LInv, QueueInv, QueueOf, Writers, EndInv, WritesToNearest, NearestUnlessTwice
<1> QED
  BY Inductive, Once, <1>1, PTL

-----------------------------------------------------------------------------
(* Every round of the loop comes nearer to its end.                        *)

\* What LookupAdvances says of a step.
RoundAdvances ==
  status = "run" =>
    /\ seen \subseteq seen'
    /\ \A n \in seen : asking'[n] <= asking[n]
    /\ \/ seen' # seen
       \/ \E n \in Node : asking[n] > 0 /\ asking' = Settled(n)

LEMMA SettledFacts ==
  ASSUME LInv, NEW n \in Node, asking[n] > 0
  PROVE  /\ Settled(n) \in [Node -> Nat]
         /\ \A m \in Node : Settled(n)[m] <= asking[m]
BY DEF LInv, TypeOK, Settled

LEMMA RoundSettles ==
  ASSUME LInv, NEW n \in Node, asking[n] > 0, asking' = Settled(n), seen' = seen
  PROVE  RoundAdvances
BY SettledFacts DEF RoundAdvances, LInv, TypeOK

LEMMA ResponseAdvances ==
  ASSUME LInv, NEW n \in Node, NEW list \in Listed, Response(n, list)
  PROVE  RoundAdvances
<1>1. asking[n] > 0
  BY DEF Response
<1>2. CASE rescb = "values" /\ n \in Value
  BY <1>1, <1>2, RoundSettles DEF Response
<1>3. CASE ~ (rescb = "values" /\ n \in Value)
  <2>1. Continue(list, Push(closest, n), Settled(n))
    BY <1>3 DEF Response
  <2>2. Settled(n) \in [Node -> Nat] /\ seen \subseteq Node
    BY <1>1, SettledFacts DEF LInv, TypeOK
  <2>3. /\ seen \subseteq seen' /\ asking' \in [Node -> Nat]
        /\ \A m \in Node : m \notin seen' \ seen => asking'[m] = Settled(n)[m]
    BY <2>1, <2>2, ContinueSets
  <2>4. CASE seen' = seen
    <3>1. asking' = Settled(n)
      BY <2>2, <2>3, <2>4
    <3> QED
      BY <1>1, <2>4, <3>1, RoundSettles
  <2>5. CASE seen' # seen
    <3>1. \A m \in seen : m \in Node /\ asking'[m] = Settled(n)[m]
      BY <2>2, <2>3
    <3>2. \A m \in seen : asking'[m] <= asking[m]
      BY <1>1, <3>1, SettledFacts
    <3> QED
      BY <2>3, <2>5, <3>2 DEF RoundAdvances
  <2> QED
    BY <2>4, <2>5
<1> QED
  BY <1>2, <1>3

LEMMA NextRound == LInv /\ [Next]_vars => [RoundAdvances]_vars
<1> SUFFICES ASSUME LInv, Next PROVE RoundAdvances
  OBVIOUS
<1>1. CASE Announce \/ \E list \in Listed : Start(list)
  BY <1>1 DEF Announce, Start, RoundAdvances
<1>2. CASE \E n \in Node : Error(n)
  BY <1>2, RoundSettles DEF Error
<1>3. CASE \E n \in Node, list \in Listed : Response(n, list)
  BY <1>3, ResponseAdvances
<1> QED
  BY <1>1, <1>2, <1>3 DEF Next

\* For any nodes, distances and lists, false or repeated ones included: a node
\* is not queried again once it has been, and every turn of the loop of closest_
\* queries a new node or settles one query.  Over finitely many nodes whose
\* queries settle, LookupEnds follows.
THEOREM LookupsAdvance == Spec => LookupAdvances
<1>1. Spec => [][RoundAdvances]_vars
  BY NextRound, Inductive, PTL DEF Spec
<1> QED
  BY <1>1 DEF RoundAdvances, LookupAdvances

-----------------------------------------------------------------------------
(* What listen() started with.                                             *)

\* A node the lookup started with has been named, or K nearer ones have.
StartedFrom(n) ==
  \/ n \in learned
  \/ \E S \in SUBSET learned :
       /\ IsFiniteSet(S) /\ Cardinality(S) = K
       /\ \A m \in S : Dist[m] <= Dist[n]

FirstInv ==
  /\ first \subseteq Node /\ known \subseteq Node
  /\ \A n \in first : StartedFrom(n)
  /\ phase = "ready" => status = "done"

\* K distinct nodes cannot all be nearer than the last of K entries.
LEMMA NotAllNearer ==
  ASSUME LInv, status = "done", NEW S \in SUBSET learned,
         IsFiniteSet(S), Cardinality(S) = K
  PROVE  \E m \in S : Dist[m] >= Furthest(closest)
<1> SUFFICES ASSUME \A m \in S : ~ (Dist[m] >= Furthest(closest)) PROVE FALSE
  OBVIOUS
<1>1. NearestOf(closest, learned)
  BY DoneNearest
<1>2. K \in Nat /\ K >= 1
  BY ConstantsAssumption
<1>3. ASSUME NEW m \in S PROVE \E j \in 1 .. K - 1 : closest[j].node = m
  <2>1. m \in Items(closest)
    BY <1>1 DEF NearestOf
  <2>2. PICK j \in 1 .. K : closest[j].node = m /\ m # None
    BY <2>1 DEF Items
  <2>3. closest[j].dist = Dist[m]
    BY <2>2 DEF LInv, QueueInv, QueueOf
  <2>4. Dist[m] \in Nat
    BY ConstantsAssumption DEF LInv, TypeOK
  <2>5. j # K
    BY <2>3, <2>4 DEF Furthest
  <2> QED
    BY <1>2, <2>2, <2>5
<1> DEFINE f == [m \in S |-> CHOOSE j \in 1 .. K - 1 : closest[j].node = m]
<1>4. f \in [S -> 1 .. K - 1] /\ \A m \in S : closest[f[m]].node = m
  BY <1>3
<1>5. IsFiniteSet(1 .. K - 1) /\ Cardinality(1 .. K - 1) < Cardinality(S)
  <2>1. 1 \in Int /\ K - 1 \in Int
    BY <1>2
  <2>2. /\ IsFiniteSet(1 .. K - 1)
        /\ Cardinality(1 .. K - 1) = IF 1 > K - 1 THEN 0 ELSE K - 1 - 1 + 1
    BY <2>1, FS_Interval
  <2> QED
    BY <1>2, <2>2
<1> DEFINE T == 1 .. K - 1
<1>6. f \in [S -> T] /\ IsFiniteSet(T) /\ Cardinality(T) < Cardinality(S)
  BY <1>4, <1>5
<1> HIDE DEF f, T
<1>7. \E x, y \in S : x # y /\ f[x] = f[y]
  BY <1>6, FS_PigeonHole
<1> QED
  BY <1>4, <1>7

LEMMA KnownNearest == LInv /\ OnceInv /\ FirstInv => NearestKnownFound
<1> SUFFICES ASSUME LInv, OnceInv, FirstInv, phase = "ready"
             PROVE  NearestOf(closest, first \cup learned)
  BY OnceEach DEF NearestKnownFound, NearestUnlessTwice
<1>1. status = "done" /\ NearestOf(closest, learned)
  BY DoneNearest DEF FirstInv
<1>2. ASSUME NEW n \in first, n \notin learned PROVE Dist[n] >= Furthest(closest)
  <2>1. PICK S \in SUBSET learned :
          /\ IsFiniteSet(S) /\ Cardinality(S) = K
          /\ \A m \in S : Dist[m] <= Dist[n]
    BY <1>2 DEF FirstInv, StartedFrom
  <2>2. PICK m \in S : Dist[m] >= Furthest(closest)
    BY <1>1, <2>1, NotAllNearer
  <2>3. Dist[m] <= Dist[n] /\ m \in Node /\ n \in Node
    BY <2>1 DEF LInv, TypeOK, FirstInv
  <2>4. Dist[m] \in Nat /\ Dist[n] \in Nat /\ Furthest(closest) \in Nat
    BY <2>3, ConstantsAssumption DEF LInv, TypeOK, Queue, Entry, Furthest
  <2> QED
    BY <2>2, <2>3, <2>4
<1> QED
  BY <1>1, <1>2 DEF NearestOf

\* The table keeps holding nodes.
LEMMA RecordedNodes ==
  ASSUME known \subseteq Node, NEW n \in Node, NEW s \in Recorded(n)
  PROVE  s \subseteq Node
BY DEF Recorded

LEMMA LookupOwnIdInv ==
  ASSUME LInv, FirstInv, LookupOwnId
  PROVE  FirstInv'
<1>1. PICK list \in Listed : ClosestOf(list, known) /\ Start(list)
  BY DEF LookupOwnId
<1>2. first' = known /\ known' = known /\ known \subseteq Node /\ phase' = "lookup"
  BY DEF LookupOwnId, FirstInv
<1> DEFINE S == {list[i] : i \in 1 .. Len(list)}
<1>3. S \subseteq learned'
  BY <1>1 DEF Start, Continue
<1>4. IsFiniteSet(S)
  <2> DEFINE f == [i \in 1 .. Len(list) |-> list[i]]
  <2>1. f \in Surjection(1 .. Len(list), S)
    BY DEF Surjection
  <2>2. 1 \in Int /\ Len(list) \in Int
    BY ConstantsAssumption
  <2>3. IsFiniteSet(1 .. Len(list))
    BY <2>2, FS_Interval
  <2> QED
    BY <2>1, <2>3, FS_Surjection
<1>5. /\ Len(list) = Cardinality(S)
      /\ Len(list) = K \/ S = known
      /\ \A n \in known \ S, m \in S : Dist[m] <= Dist[n]
  BY <1>1 DEF ClosestOf, NamesOnce
<1> HIDE DEF S
<1>6. ASSUME NEW n \in first' PROVE StartedFrom(n)'
  BY <1>2, <1>3, <1>4, <1>5 DEF StartedFrom
<1> QED
  BY <1>2, <1>6 DEF FirstInv

\* A step that takes nothing back of what has been named.
LEMMA StartedKept ==
  ASSUME FirstInv, first' = first, learned \subseteq learned', known' \subseteq Node,
         phase' = "ready" => status' = "done"
  PROVE  FirstInv'
<1>1. ASSUME NEW n \in first' PROVE StartedFrom(n)'
  <2>1. StartedFrom(n)
    BY DEF FirstInv
  <2> QED
    BY <2>1 DEF StartedFrom
<1> QED
  BY <1>1 DEF FirstInv

LEMMA FirstNext == LInv /\ FirstInv /\ [ListenNext]_listenVars => FirstInv'
<1> SUFFICES ASSUME LInv, FirstInv, [ListenNext]_listenVars PROVE FirstInv'
  OBVIOUS
<1> USE DEF own, vars
<1>1. known \subseteq Node /\ (phase = "ready" => status = "done")
  BY DEF FirstInv
<1>2. CASE BeginListen \/ ListenReturns \/ ListenRejects
  BY <1>1, <1>2, StartedKept DEF BeginListen, ListenReturns, ListenRejects
<1>3. CASE LookupOwnId
  BY <1>3, LookupOwnIdInv
<1>4. ASSUME NEW n \in Node, BootstrapAnswers(n) \/ HearsQuery(n) PROVE FirstInv'
  <2>1. known' \in Recorded(n) /\ UNCHANGED <<vars, phase, first>>
    BY <1>4 DEF BootstrapAnswers, HearsQuery
  <2> QED
    BY <1>1, <2>1, RecordedNodes, StartedKept
<1>5. ASSUME NEW n \in Node, BootstrapSilent(n) PROVE FirstInv'
  BY <1>1, <1>5, StartedKept DEF BootstrapSilent
<1>6. ASSUME NEW n \in Node, Error(n), UNCHANGED own PROVE FirstInv'
  BY <1>1, <1>6, StartedKept DEF Error
<1>7. ASSUME NEW n \in Node, NEW list \in Listed, LookupResponse(n, list) PROVE FirstInv'
  <2>1. /\ Response(n, list) /\ known' \in Recorded(n) \cup {known}
        /\ UNCHANGED <<phase, pinging, first>>
    BY <1>7 DEF LookupResponse
  <2>2. known' \subseteq Node
    BY <1>1, <2>1, RecordedNodes
  <2>3. learned \subseteq learned' /\ status = "run"
    BY <2>1 DEF Response, Continue
  <2> QED
    BY <1>1, <2>1, <2>2, <2>3, StartedKept
<1>8. ASSUME NEW list \in Listed, OtherLookup(list) PROVE FirstInv'
  <2>1. Start(list) /\ UNCHANGED own /\ phase = "new"
    BY <1>8 DEF OtherLookup
  <2>2. learned \subseteq learned'
    BY <2>1 DEF Start, Continue
  <2> QED
    BY <1>1, <2>1, <2>2, StartedKept
<1>9. CASE Announce /\ UNCHANGED own
  BY <1>1, <1>9, StartedKept DEF Announce
<1>10. CASE UNCHANGED listenVars
  BY <1>1, <1>10, StartedKept DEF listenVars
<1> QED
  BY <1>2, <1>3, <1>4, <1>5, <1>6, <1>7, <1>8, <1>9, <1>10 DEF ListenNext

\* When listen() returns, its lookup has found the K nearest of all nodes it
\* heard of and all that the table held when it began, each in one place, unless
\* one list named a node twice.
THEOREM KnownFound == ListenSpec => []NearestKnownFound
<1>1. ListenInit => FirstInv
  BY DEF ListenInit, Init, FirstInv
<1>2. LInv /\ FirstInv /\ [ListenNext]_listenVars => FirstInv'
  BY FirstNext
<1> QED
  BY <1>1, <1>2, ListenLooksUp, Inductive, Once, KnownNearest, PTL DEF ListenSpec
=============================================================================
