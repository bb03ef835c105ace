------------------------------ MODULE MCTracker ------------------------------
(* An instance of Tracker for TLC.                                         *)
EXTENDS Tracker, TLC
Symmetry == Permutations(Target) \cup Permutations(Address)
              \cup Permutations(Secret)
=============================================================================
