------------------------------- MODULE Contacts -------------------------------
(***************************************************************************)
(* What a routing table promises of the nodes it is told about, however    *)
(* many insertions overlap: each is decided on once.  It is taken into the *)
(* table, taken in exchange for exactly one contact, or turned away, and a *)
(* node that is gone does not come back.  A closed table takes nothing.    *)
(***************************************************************************)
CONSTANT Obj

VARIABLES place, closed

vars == <<place, closed>>

Init ==
  /\ place = [o \in Obj |-> "new"]
  /\ closed = FALSE

Take(o) ==
  /\ ~closed
  /\ place[o] = "new"
  /\ place' = [place EXCEPT ![o] = "in"]
  /\ UNCHANGED closed

Exchange(p, o) ==
  /\ ~closed
  /\ place[p] = "in" /\ place[o] = "new"
  /\ place' = [place EXCEPT ![p] = "gone", ![o] = "in"]
  /\ UNCHANGED closed

Refuse(o) ==
  /\ place[o] = "new"
  /\ place' = [place EXCEPT ![o] = "gone"]
  /\ UNCHANGED closed

Close ==
  /\ ~closed
  /\ closed' = TRUE
  /\ place' = [o \in Obj |-> IF place[o] = "in" THEN "gone" ELSE place[o]]

Next ==
  \/ \E o \in Obj : Take(o) \/ Refuse(o) \/ \E p \in Obj : Exchange(p, o)
  \/ Close

Spec == Init /\ [][Next]_vars
=============================================================================
