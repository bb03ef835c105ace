--------------------------- MODULE MCRoutingTable ---------------------------
(* Instances of RoutingTable for TLC.                                      *)
EXTENDS RoutingTable

\* Bytes of the upper half decode to U+FFFD, except that one id begins with
\* EF BF BE, which is U+FFFE.
UpperReplaced ==
  [i \in Byte \X Byte |-> IF i = <<Base \div 2, 0>>
                            THEN <<Base + 1, 0>>
                            ELSE <<Char(i[1]), Char(i[2])>>]

FourIds  == {<<0, 1>>, <<1, 1>>, <<2, 3>>, <<3, 0>>}
LocalLow == <<1, 0>>

\* Base = 3: the root splits once, and its left bucket, which is at the end of
\* the bytes, takes almost every id: insertions overlap there soonest.
ThreeIds  == {<<0, 1>>, <<0, 2>>, <<2, 0>>}
\* The last one decodes to the bound between the halves of the root.
WithBound == {<<0, 1>>, <<0, 2>>, <<2, 2>>}
\* One more, which decodes to more than every bound.
WithAbove == ThreeIds \cup {<<1, 0>>}
LocalZero == <<0, 0>>

OnlyNull   == {0}
NullOrBoot == {0, Boot}

Symmetry == Permutations(Obj)
=============================================================================
