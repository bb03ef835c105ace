------------------------------- MODULE Tracker -------------------------------
(***************************************************************************)
(* The tracker of a node, in src/index.js: handleGetPeers_ hands out write *)
(* tokens and lists peers, handleAnnouncePeer_ adds a peer to a target.    *)
(* The peers of a target are one Set object in the cache, changed in place.*)
(*                                                                         *)
(* Other nodes are the environment: they ask and announce in any order,    *)
(* with any token or none.  The secret has no part in a token, so that one *)
(* for any target and address can be had without asking for it.            *)
(***************************************************************************)
EXTENDS TokenStore

CONSTANT Port

ASSUME TrackerAssumption == None \notin Target \X Address

Peer == Address \X Port    \* what encodeCompactNodeInfo keeps of a peer

VARIABLES
  announcedPeers,  \* announcedPeers_
  answer,          \* the listing the last query was answered with, or None
  lastAnnounce     \* History, for the properties only: when each peer's last
                   \* accepted announcement came, or 0

trackerVars == <<secret, now, announcedPeers, answer, lastAnnounce>>

TrackerInit ==
  /\ secret \in Secret
  /\ now = 1
  /\ announcedPeers = Empty
  /\ answer = None
  /\ lastAnnounce = [t \in Target |-> [p \in Peer |-> 0]]

Peers(t) == IF Has(announcedPeers, t) THEN announcedPeers[t].value ELSE {}

HandleGetPeers(t, a) ==
  /\ announcedPeers' = Got(announcedPeers, t)
  /\ answer' = [target |-> t, values |-> Peers(t)]
  /\ UNCHANGED <<secret, now, lastAnnounce>>

verifyToken(token, t, a) == token = getWriteToken(t, a)

\* Variants: the cache is set again, which renews the entry; a new Set
\* replaces the one that is there.
AddRenews(t, p) == announcedPeers' \in Sets(announcedPeers, t, Peers(t) \cup {p})
AddAfresh(t, p) == announcedPeers' \in Sets(announcedPeers, t, {p})

\* A new Set where there is none; then the peer is added in place, which the
\* cache does not notice.
Add(t, p) ==
  IF Has(announcedPeers, t)
    THEN announcedPeers' = [announcedPeers EXCEPT ![t].value = @ \cup {p}]
    ELSE announcedPeers' \in Sets(announcedPeers, t, {p})

Announced(t, p) == lastAnnounce' = [lastAnnounce EXCEPT ![t][p] = now]

\* The port announced may be the implied one: any port stands for both.
HandleAnnouncePeer(t, a, port, token) ==
  /\ verifyToken(token, t, a)
  /\ Add(t, <<a, port>>)
  /\ Announced(t, <<a, port>>)
  /\ answer' = None
  /\ UNCHANGED <<secret, now>>

\* A port that is not one: the peer is encoded last, which throws, and a new Set
\* stays in the cache without it.
AnnounceThrows(t, a, token) ==
  /\ verifyToken(token, t, a)
  /\ IF Has(announcedPeers, t) THEN UNCHANGED announcedPeers
                               ELSE announcedPeers' \in Sets(announcedPeers, t, {})
  /\ answer' = None
  /\ UNCHANGED <<secret, now, lastAnnounce>>

\* 'Bad token', or no token at all: handleQuery_ logs it and sends no answer.
BadToken(t, a, token) ==
  /\ ~verifyToken(token, t, a)
  /\ answer' = None
  /\ UNCHANGED <<secret, now, announcedPeers, lastAnnounce>>

\* dispose(), or a crash, and the start of another process: peers are kept in
\* memory only.
Restart ==
  /\ announcedPeers' = Empty
  /\ secret' \in Secret
  /\ answer' = None
  /\ UNCHANGED <<now, lastAnnounce>>

\* Whoever knows a target and an address can make the token for them.
Presented == {getWriteToken(t, a) : t \in Target, a \in Address} \cup {None}

TrackerNext ==
  \/ \E t \in Target, a \in Address :
       \/ HandleGetPeers(t, a)
       \/ \E token \in Presented :
            \/ BadToken(t, a, token)
            \/ AnnounceThrows(t, a, token)
            \/ \E port \in Port : HandleAnnouncePeer(t, a, port, token)
  \/ Restart
  \/ RenewSecret /\ UNCHANGED <<now, announcedPeers, answer, lastAnnounce>>
  \/ Elapse /\ UNCHANGED <<secret, announcedPeers, answer, lastAnnounce>>

TrackerSpec == TrackerInit /\ [][TrackerNext]_trackerVars
-----------------------------------------------------------------------------
(* Properties.                                                             *)

Listing == [target : Target, values : SUBSET Peer]

TrackerTypeOK ==
  /\ secret \in Secret
  /\ now \in Time
  /\ announcedPeers \in Store(SUBSET Peer)
  /\ answer \in Listing \cup {None}
  /\ lastAnnounce \in [Target -> [Peer -> 0 .. MaxTime]]

\* A peer that is listed announced itself within the last Ttl: a Set is never
\* renewed by the announcements added to it, so that a peer that has gone is
\* not listed for as long as others keep coming.
PeersAreRecent ==
  \A t \in Target : \A p \in Peers(t) :
    lastAnnounce[t][p] > 0 /\ now <= lastAnnounce[t][p] + Ttl

\* The tracker implements PeerSets, an expired entry being an empty set: an
\* announcement adds its peer to all that are there and changes no other target
\* but by losing it whole, and a listing has every peer.
Contract == INSTANCE PeerSets WITH peers <- [t \in Target |-> Peers(t)]
ImplementsPeerSets == Contract!Spec
=============================================================================
