---------------------------- MODULE MCBucketPing ----------------------------
(* Instances of BucketPing for TLC.                                        *)
EXTENDS BucketPing

\* Bytes of the upper half decode to U+FFFD, except that one id begins with
\* EF BF BE, which is U+FFFE.
UpperReplaced ==
  [i \in Byte \X Byte |-> IF i = <<Base \div 2, 1>>
                            THEN <<Base + 1, Char(1)>>
                            ELSE <<Char(i[1]), Char(i[2])>>]

\* A local id above the root's maximum: the root is never split, and its bucket
\* is full after K contacts (after a split, it would fill a second time).
LocalAbove == <<1, 1>>
ThreeIds   == {<<0, 1>>, <<0, 2>>, <<1, 0>>}

OnlyNull == {0}

Symmetry == Permutations(Obj)

\* Node objects are alike, and so are the ids of one bucket: it is enough that
\* objects are allocated in order, and ids in order to the first objects.
FourInOrder == 1 .. 4
Allocated   == {o \in Obj : task[o].pc # "new"}
InOrder ==
  \A o \in Allocated :
    /\ \A p \in Obj : p < o => p \in Allocated
    /\ \A i \in Id : Less(i, node[o].id) => \E p \in Allocated : p < o /\ node[p].id = i

\* Time passes only while two insertions await pings (a bound of the model).
TicksWhileTwoWait == now' # now => Cardinality(Waiting) = 2

InOrderSpec ==
  DHTInit /\ [][DHTNext /\ InOrder' /\ TicksWhileTwoWait]_allVars /\ DHTFairness
=============================================================================
