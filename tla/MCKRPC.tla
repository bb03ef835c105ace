------------------------------- MODULE MCKRPC -------------------------------
(* Instances of KRPC for TLC.                                              *)
EXTENDS KRPC
=============================================================================
