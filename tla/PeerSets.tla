------------------------------- MODULE PeerSets -------------------------------
(***************************************************************************)
(* What the tracker of a node promises: each target has a set of peers.    *)
(* An announcement adds one peer; the peers of a target are forgotten all  *)
(* together or not at all; a listing is the whole set.                     *)
(***************************************************************************)
CONSTANTS Target, Peer, None

VARIABLES peers, answer

vars == <<peers, answer>>

Init ==
  /\ peers = [t \in Target |-> {}]
  /\ answer = None

\* The targets other than those in s keep their peers or lose them all.
KeepOrForget(s) ==
  /\ peers' \in [Target -> SUBSET Peer]
  /\ \A t \in Target \ s : peers'[t] \in {peers[t], {}}

Announce(t, p) ==
  /\ KeepOrForget({t})
  /\ peers'[t] = peers[t] \cup {p}
  /\ answer' = None

List(t) ==
  /\ answer' = [target |-> t, values |-> peers[t]]
  /\ UNCHANGED peers

Forget ==
  /\ KeepOrForget({})
  /\ answer' \in {answer, None}

Next ==
  \/ \E t \in Target : List(t) \/ \E p \in Peer : Announce(t, p)
  \/ Forget

Spec == Init /\ [][Next]_vars
=============================================================================
