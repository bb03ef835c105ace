---------------------------- MODULE TrackerProofs ----------------------------
(***************************************************************************)
(* Proofs about Tracker.tla, for any targets, addresses, ports and secrets *)
(* and a cache of any size and age.                                        *)
(***************************************************************************)
EXTENDS Tracker, TLAPS

-----------------------------------------------------------------------------
(* The cache.                                                              *)

\* set() puts the value under its target and keeps or drops every other entry.
LEMMA SetsPut ==
  ASSUME NEW s, NEW t \in Target, NEW v, NEW r \in Sets(s, t, v)
  PROVE  /\ r[t] = [value |-> v, at |-> now]
         /\ \A u \in Target \ {t} : r[u] \in {s[u], Absent}
<1>1. PICK out : r = [u \in Target |-> IF u = t THEN [value |-> v, at |-> now]
                                       ELSE IF u \in out THEN Absent ELSE s[u]]
  BY DEF Sets
<1> QED
  BY <1>1

\* What a store may hold under a target.
LEMMA EntryOf ==
  ASSUME NEW Value, NEW s \in Store(Value), NEW t \in Target
  PROVE  \/ s[t] = Absent
         \/ /\ s[t] # Absent
            /\ s[t] = [value |-> s[t].value, at |-> s[t].at]
            /\ s[t].value \in Value /\ s[t].at \in 1 .. MaxTime
BY TokenStoreAssumption DEF Store, Absent, Time

LEMMA EntryIn ==
  ASSUME NEW Value, NEW v \in Value, now \in Time
  PROVE  /\ [value |-> v, at |-> now] \in
              [value : Value, at : Time] \cup {Absent}
         /\ [value |-> v, at |-> now] # Absent
BY TokenStoreAssumption DEF Time, Absent

LEMMA StoreIs ==
  ASSUME NEW Value, NEW s
  PROVE  s \in Store(Value) <=>
           s \in [Target -> [value : Value, at : Time] \cup {Absent}]
BY DEF Store, Absent

LEMMA SetsType ==
  ASSUME NEW Value, NEW s \in Store(Value), NEW t \in Target,
         NEW v \in Value, NEW r \in Sets(s, t, v), now \in Time
  PROVE  r \in Store(Value)
<1> DEFINE Entry == [value : Value, at : Time] \cup {Absent}
<1>1. [value |-> v, at |-> now] \in Entry
  BY EntryIn
<1>2. Absent \in Entry
  OBVIOUS
<1>3. s \in [Target -> Entry]
  BY StoreIs
<1>4. PICK out : r = [u \in Target |-> IF u = t THEN [value |-> v, at |-> now]
                                       ELSE IF u \in out THEN Absent ELSE s[u]]
  BY DEF Sets
<1> HIDE DEF Entry
<1>5. r \in [Target -> Entry]
  BY <1>1, <1>2, <1>3, <1>4
<1> QED
  BY <1>5, StoreIs DEF Entry

LEMMA GotType ==
  ASSUME NEW Value, NEW s \in Store(Value), NEW t \in Target
  PROVE  /\ Got(s, t) \in Store(Value)
         /\ \A u \in Target : Got(s, t)[u] \in {s[u], Absent}
         /\ \A u \in Target : Has(s, u) => Got(s, t)[u] = s[u]
<1>1. CASE Has(s, t)
  BY <1>1 DEF Got
<1>2. CASE ~Has(s, t)
  <2>1. Got(s, t) = [s EXCEPT ![t] = Absent]
    BY <1>2 DEF Got
  <2>2. s \in [Target -> [value : Value, at : Time] \cup {Absent}]
    BY StoreIs
  <2>3. Got(s, t) \in [Target -> [value : Value, at : Time] \cup {Absent}]
    BY <2>1, <2>2
  <2> QED
    BY <1>2, <2>1, <2>2, <2>3, StoreIs
<1> QED
  BY <1>1, <1>2

-----------------------------------------------------------------------------
(* The inductive invariant.                                                *)

\* Every peer held, listed or past its time, came no earlier than its entry.
HeldInv ==
  \A t \in Target : announcedPeers[t] # Absent =>
    /\ announcedPeers[t].at <= now
    /\ \A p \in announcedPeers[t].value :
         lastAnnounce[t][p] >= announcedPeers[t].at

TInv == TrackerTypeOK /\ HeldInv

LEMMA InitInv == TrackerInit => TInv
<1> SUFFICES ASSUME TrackerInit PROVE TInv
  OBVIOUS
<1>1. announcedPeers \in Store(SUBSET Peer) /\ \A t \in Target : announcedPeers[t] = Absent
  BY StoreIs DEF TrackerInit, Empty
<1>2. now \in Time
  BY TokenStoreAssumption DEF TrackerInit, Time
<1>3. lastAnnounce \in [Target -> [Peer -> 0 .. MaxTime]]
  BY TokenStoreAssumption DEF TrackerInit
<1> QED
  BY <1>1, <1>2, <1>3 DEF TrackerInit, TInv, TrackerTypeOK, HeldInv

LEMMA HandleGetPeersInv ==
  ASSUME TInv, NEW t \in Target, NEW a \in Address, HandleGetPeers(t, a)
  PROVE  TInv'
<1> USE DEF TInv
<1>1. announcedPeers' = Got(announcedPeers, t)
  BY DEF HandleGetPeers
<1>2. announcedPeers' \in Store(SUBSET Peer)
  BY <1>1, GotType DEF TrackerTypeOK
<1>3. \A u \in Target : announcedPeers'[u] \in {announcedPeers[u], Absent}
  BY <1>1, GotType DEF TrackerTypeOK
<1>4. Peers(t) \subseteq Peer
  <2>1. announcedPeers \in Store(SUBSET Peer)
    BY DEF TrackerTypeOK
  <2>2. CASE Has(announcedPeers, t)
    <3>1. announcedPeers[t] # Absent
      BY <2>2 DEF Has
    <3>2. announcedPeers[t].value \in SUBSET Peer
      BY <2>1, <3>1, EntryOf
    <3> QED
      BY <2>2, <3>2 DEF Peers
  <2> QED
    BY <2>2 DEF Peers
<1>5. TrackerTypeOK'
  <2>1. Store(SUBSET Peer)' = Store(SUBSET Peer)
    BY DEF Store
  <2>2. answer' \in Listing
    BY <1>4 DEF HandleGetPeers, Listing
  <2> QED
    BY <1>2, <2>1, <2>2 DEF HandleGetPeers, TrackerTypeOK, Listing
<1>6. HeldInv'
  BY <1>3 DEF HandleGetPeers, HeldInv
<1> QED
  BY <1>5, <1>6

\* What Add leaves under its own target and under the others.
LEMMA AddPut ==
  ASSUME TInv, NEW t \in Target, NEW p \in Peer, Add(t, p)
  PROVE  /\ announcedPeers' \in Store(SUBSET Peer)
         /\ announcedPeers'[t] # Absent
         /\ announcedPeers'[t].value = Peers(t) \cup {p}
         /\ announcedPeers'[t].at <= now
         /\ now <= announcedPeers'[t].at + Ttl
         /\ Has(announcedPeers, t) =>
              announcedPeers'[t].at = announcedPeers[t].at
         /\ \A u \in Target \ {t} :
              announcedPeers'[u] \in {announcedPeers[u], Absent}
<1> DEFINE Entry == [value : SUBSET Peer, at : Time] \cup {Absent}
<1>1. announcedPeers \in [Target -> Entry] /\ now \in Time
  BY StoreIs DEF TInv, TrackerTypeOK
<1>2. CASE Has(announcedPeers, t)
  <2> DEFINE e == announcedPeers[t]
             f == [value |-> e.value \cup {p}, at |-> e.at]
  <2>1. e # Absent /\ now <= e.at + Ttl /\ Peers(t) = e.value
    BY <1>2 DEF Has, Peers
  <2>2. e = [value |-> e.value, at |-> e.at] /\ e.value \in SUBSET Peer
        /\ e.at \in 1 .. MaxTime /\ e.at \in Time
    BY <1>1, <2>1, TokenStoreAssumption DEF Time
  <2>3. announcedPeers' = [announcedPeers EXCEPT ![t].value = @ \cup {p}]
    BY <1>2 DEF Add
  <2>4. announcedPeers' = [announcedPeers EXCEPT ![t] = f]
    <3>1. [e EXCEPT !.value = @ \cup {p}] = f
      BY <2>2
    <3>2. announcedPeers' = [announcedPeers EXCEPT ![t] = [e EXCEPT !.value = @ \cup {p}]]
      BY <2>3
    <3> QED
      BY <3>1, <3>2
  <2>5. f \in Entry /\ f # Absent
    BY <2>2, TokenStoreAssumption DEF Absent
  <2> HIDE DEF Entry, e, f
  <2>6. announcedPeers' \in [Target -> Entry] /\ announcedPeers'[t] = f
        /\ \A u \in Target \ {t} : announcedPeers'[u] = announcedPeers[u]
    BY <1>1, <2>4, <2>5
  <2>7. announcedPeers' \in Store(SUBSET Peer)
    BY <2>6, StoreIs DEF Entry
  <2>8. f.value = e.value \cup {p} /\ f.at = e.at
    BY DEF f
  <2>9. e.at <= now
    BY <2>1 DEF TInv, HeldInv, e
  <2> QED
    BY <2>1, <2>5, <2>6, <2>7, <2>8, <2>9 DEF e
<1>3. CASE ~Has(announcedPeers, t)
  <2>1. announcedPeers' \in Sets(announcedPeers, t, {p})
    BY <1>3 DEF Add
  <2>2. announcedPeers' \in Store(SUBSET Peer)
    BY <1>1, <2>1, SetsType, StoreIs
  <2>3. /\ announcedPeers'[t] = [value |-> {p}, at |-> now]
        /\ \A u \in Target \ {t} : announcedPeers'[u] \in {announcedPeers[u], Absent}
    BY <2>1, SetsPut
  <2>4. announcedPeers'[t] # Absent
    BY <1>1, <2>3, EntryIn
  <2>5. Peers(t) = {}
    BY <1>3 DEF Peers
  <2>6. now <= now + Ttl /\ now <= now
    BY <1>1, TokenStoreAssumption DEF Time
  <2> QED
    BY <1>3, <2>2, <2>3, <2>4, <2>5, <2>6
<1> QED
  BY <1>2, <1>3

LEMMA HandleAnnouncePeerInv ==
  ASSUME TInv, NEW t \in Target, NEW a \in Address, NEW port \in Port,
         NEW token \in Presented, HandleAnnouncePeer(t, a, port, token)
  PROVE  TInv'
<1> DEFINE p == <<a, port>>
<1>1. p \in Peer /\ Add(t, p) /\ Announced(t, p)
  BY DEF HandleAnnouncePeer, Peer
<1>3. Peers(t) \subseteq IF Has(announcedPeers, t) THEN announcedPeers[t].value ELSE {}
  BY DEF Peers
<1>4. now \in Time /\ lastAnnounce \in [Target -> [Peer -> 0 .. MaxTime]]
  BY DEF TInv, TrackerTypeOK
<1>5. now \in 0 .. MaxTime
  BY <1>4, TokenStoreAssumption DEF Time
<1>6. /\ lastAnnounce' = [lastAnnounce EXCEPT ![t][p] = now]
      /\ UNCHANGED <<secret, now>>
  BY <1>1 DEF Announced, HandleAnnouncePeer
<1>7. /\ lastAnnounce' \in [Target -> [Peer -> 0 .. MaxTime]]
      /\ lastAnnounce'[t][p] = now
      /\ \A u \in Target, q \in Peer :
           u # t \/ q # p => lastAnnounce'[u][q] = lastAnnounce[u][q]
  BY <1>1, <1>4, <1>5, <1>6
<1> HIDE DEF p
<1>8. TrackerTypeOK'
  <2>1. Store(SUBSET Peer)' = Store(SUBSET Peer)
    BY DEF Store
  <2>2. announcedPeers' \in Store(SUBSET Peer)
    BY <1>1, AddPut
  <2> QED
    BY <1>6, <1>7, <2>1, <2>2 DEF TInv, TrackerTypeOK, HandleAnnouncePeer
<1>9. HeldInv'
  <2>0. \A u \in Target : announcedPeers'[u] # Absent => announcedPeers'[u].at <= now'
    BY <1>1, <1>6, AddPut DEF TInv, HeldInv
  <2> SUFFICES ASSUME NEW u \in Target, announcedPeers'[u] # Absent,
                      NEW q \in announcedPeers'[u].value
               PROVE  lastAnnounce'[u][q] >= announcedPeers'[u].at
    BY <1>6, <2>0 DEF HeldInv
  <2>1. CASE u # t
    <3>1. announcedPeers'[u] = announcedPeers[u]
      BY <1>1, <2>1, AddPut
    <3>2. q \in Peer
      <4>1. announcedPeers \in Store(SUBSET Peer)
        BY DEF TInv, TrackerTypeOK
      <4>2. announcedPeers[u].value \in SUBSET Peer
        BY <3>1, <4>1, EntryOf
      <4> QED
        BY <3>1, <4>2
    <3> QED
      BY <1>7, <2>1, <3>1, <3>2 DEF TInv, HeldInv
  <2>2. CASE u = t /\ q = p
    <3>1. announcedPeers'[t].at <= now
      BY <1>1, AddPut
    <3>3. lastAnnounce'[u][q] = now
      BY <1>7, <2>2
    <3>4. announcedPeers'[u].at \in 1 .. MaxTime
      <4>1. announcedPeers' \in Store(SUBSET Peer)
        BY <1>1, AddPut
      <4> QED
        BY <4>1, EntryOf
    <3> QED
      BY <1>5, <2>2, <3>1, <3>3, <3>4
  <2>3. CASE u = t /\ q # p
    <3>1. q \in Peers(t)
      BY <1>1, <2>3, AddPut
    <3>2. Has(announcedPeers, t) /\ q \in announcedPeers[t].value
      BY <3>1 DEF Peers
    <3>3. announcedPeers'[t].at = announcedPeers[t].at
      BY <1>1, <3>2, AddPut
    <3>4. announcedPeers[t] # Absent
      BY <3>2 DEF Has
    <3>5. q \in Peer
      <4>1. announcedPeers \in Store(SUBSET Peer)
        BY DEF TInv, TrackerTypeOK
      <4>2. announcedPeers[t].value \in SUBSET Peer
        BY <3>4, <4>1, EntryOf
      <4> QED
        BY <3>2, <4>2
    <3> QED
      BY <1>7, <2>3, <3>2, <3>3, <3>4, <3>5 DEF TInv, HeldInv
  <2> QED
    BY <2>1, <2>2, <2>3
<1> QED
  BY <1>8, <1>9 DEF TInv

\* A new Set that is left empty has no peer to be too old.
LEMMA AnnounceThrowsInv ==
  ASSUME TInv, NEW t \in Target, NEW a \in Address, NEW token \in Presented,
         AnnounceThrows(t, a, token)
  PROVE  /\ TInv'
         /\ \A u \in Target \ {t} : announcedPeers'[u] \in {announcedPeers[u], Absent}
         /\ Peers(t)' = Peers(t)
<1>1. /\ UNCHANGED <<secret, now, lastAnnounce>> /\ answer' = None
      /\ announcedPeers \in Store(SUBSET Peer) /\ now \in Time
  BY DEF AnnounceThrows, TInv, TrackerTypeOK
<1>2. Store(SUBSET Peer)' = Store(SUBSET Peer)
  BY DEF Store
<1>3. CASE Has(announcedPeers, t)
  <2>1. announcedPeers' = announcedPeers
    BY <1>3 DEF AnnounceThrows
  <2> QED
    BY <1>1, <1>2, <2>1 DEF TInv, TrackerTypeOK, HeldInv, Peers, Has
<1>4. CASE ~Has(announcedPeers, t)
  <2>1. announcedPeers' \in Sets(announcedPeers, t, {})
    BY <1>4 DEF AnnounceThrows
  <2>2. {} \in SUBSET Peer
    OBVIOUS
  <2>3. announcedPeers' \in Store(SUBSET Peer)
    BY <1>1, <2>1, <2>2, SetsType
  <2>4. /\ announcedPeers'[t] = [value |-> {}, at |-> now]
        /\ \A u \in Target \ {t} : announcedPeers'[u] \in {announcedPeers[u], Absent}
    BY <2>1, SetsPut
  <2>5. TrackerTypeOK'
    BY <1>1, <1>2, <2>3 DEF TInv, TrackerTypeOK
  <2>6. now <= now
    BY <1>1, TokenStoreAssumption DEF Time
  <2>7. HeldInv'
    BY <1>1, <2>4, <2>6 DEF TInv, HeldInv
  <2>8. Peers(t) = {} /\ Peers(t)' = {}
    BY <1>4, <2>4 DEF Peers
  <2> QED
    BY <2>4, <2>5, <2>7, <2>8 DEF TInv
<1> QED
  BY <1>3, <1>4

LEMMA RestartInv == TInv /\ Restart => TInv'
<1> SUFFICES ASSUME TInv, Restart PROVE TInv'
  OBVIOUS
<1>1. announcedPeers' \in Store(SUBSET Peer)
      /\ \A t \in Target : announcedPeers'[t] = Absent
  BY StoreIs DEF Restart, Empty
<1>2. Store(SUBSET Peer)' = Store(SUBSET Peer)
  BY DEF Store
<1>3. TrackerTypeOK'
  BY <1>1, <1>2 DEF TInv, TrackerTypeOK, Restart
<1>4. HeldInv'
  BY <1>1 DEF TInv, HeldInv, Restart
<1> QED
  BY <1>3, <1>4 DEF TInv

LEMMA Inductive == TrackerSpec => []TInv
<1>1. TInv /\ [TrackerNext]_trackerVars => TInv'
  <2> SUFFICES ASSUME TInv, [TrackerNext]_trackerVars PROVE TInv'
    OBVIOUS
  <2>1. CASE \E t \in Target, a \in Address : HandleGetPeers(t, a)
    BY <2>1, HandleGetPeersInv
  <2>2. CASE \E t \in Target, a \in Address, token \in Presented, port \in Port :
               HandleAnnouncePeer(t, a, port, token)
    BY <2>2, HandleAnnouncePeerInv
  <2>3. CASE Restart
    BY <2>3, RestartInv
  <2>4. CASE \/ UNCHANGED trackerVars
             \/ RenewSecret /\ UNCHANGED <<now, announcedPeers, answer, lastAnnounce>>
             \/ \E t \in Target, a \in Address, token \in Presented : BadToken(t, a, token)
    <3>1. /\ UNCHANGED <<now, announcedPeers, lastAnnounce>>
          /\ secret' \in Secret /\ answer' \in {answer, None}
      BY <2>4 DEF trackerVars, RenewSecret, BadToken, TInv, TrackerTypeOK
    <3>2. Store(SUBSET Peer)' = Store(SUBSET Peer)
      BY DEF Store
    <3> QED
      BY <3>1, <3>2 DEF TInv, TrackerTypeOK, HeldInv
  <2>5. CASE Elapse /\ UNCHANGED <<secret, announcedPeers, answer, lastAnnounce>>
    <3>1. Store(SUBSET Peer)' = Store(SUBSET Peer)
      BY DEF Store
    <3>2. now' \in Time
      BY <2>5, TokenStoreAssumption DEF Elapse, Time, TInv, TrackerTypeOK
    <3>3. now <= now' /\ now \in Nat /\ now' \in Nat
      BY <2>5, TokenStoreAssumption DEF Elapse, Time, TInv, TrackerTypeOK
    <3>4. \A t \in Target : announcedPeers[t] # Absent => announcedPeers[t].at <= now'
      <4> SUFFICES ASSUME NEW t \in Target, announcedPeers[t] # Absent
                   PROVE  announcedPeers[t].at <= now'
        OBVIOUS
      <4>1. announcedPeers \in Store(SUBSET Peer)
        BY DEF TInv, TrackerTypeOK
      <4>2. announcedPeers[t].at \in 1 .. MaxTime
        BY <4>1, EntryOf
      <4>3. announcedPeers[t].at <= now
        BY DEF TInv, HeldInv
      <4> QED
        BY <3>3, <4>2, <4>3, TokenStoreAssumption
    <3>5. HeldInv'
      BY <2>5, <3>4 DEF TInv, HeldInv
    <3> QED
      BY <2>5, <3>1, <3>2, <3>5 DEF TInv, TrackerTypeOK
  <2>6. CASE \E t \in Target, a \in Address, token \in Presented :
               AnnounceThrows(t, a, token)
    BY <2>6, AnnounceThrowsInv
  <2> QED
    BY <2>1, <2>2, <2>3, <2>4, <2>5, <2>6 DEF TrackerNext
<1> QED
  BY <1>1, InitInv, PTL DEF TrackerSpec

-----------------------------------------------------------------------------
(* The theorems.                                                           *)

\* Every variable keeps its type: a cache entry is a set of peers with the
\* time it was set, or is absent.
THEOREM TrackerTypeCorrect == TrackerSpec => []TrackerTypeOK
<1>1. TInv => TrackerTypeOK
  BY DEF TInv
<1> QED
  BY <1>1, Inductive, PTL

\* handleGetPeers_ lists no peer whose last announcement is older than the
\* lifetime of a cache entry.
THEOREM ListedAreRecent == TrackerSpec => []PeersAreRecent
<1>1. TInv => PeersAreRecent
  <2> SUFFICES ASSUME TInv, NEW t \in Target, NEW p \in Peers(t)
               PROVE  lastAnnounce[t][p] > 0 /\ now <= lastAnnounce[t][p] + Ttl
    BY DEF PeersAreRecent
  <2>1. Has(announcedPeers, t) /\ p \in announcedPeers[t].value
    BY DEF Peers
  <2>2. announcedPeers[t] # Absent /\ now <= announcedPeers[t].at + Ttl
    BY <2>1 DEF Has
  <2>3. announcedPeers \in Store(SUBSET Peer)
    BY DEF TInv, TrackerTypeOK
  <2>4. announcedPeers[t].at \in 1 .. MaxTime /\ announcedPeers[t].value \in SUBSET Peer
    BY <2>2, <2>3, EntryOf
  <2>5. lastAnnounce[t][p] >= announcedPeers[t].at
    BY <2>1, <2>2 DEF TInv, HeldInv
  <2>6. lastAnnounce[t][p] \in 0 .. MaxTime /\ now \in Nat
    BY <2>1, <2>4, TokenStoreAssumption DEF TInv, TrackerTypeOK, Time
  <2> QED
    BY <2>2, <2>4, <2>5, <2>6, TokenStoreAssumption
<1> QED
  BY <1>1, Inductive, PTL

-----------------------------------------------------------------------------
(* The tracker implements PeerSets.                                        *)

\* An entry that is unchanged keeps its peers, and loses them only to time.
LEMMA PeersKept ==
  ASSUME TInv, TInv', now <= now', NEW t \in Target,
         announcedPeers'[t] \in {announcedPeers[t], Absent}
  PROVE  Peers(t)' \in {Peers(t), {}}
<1>1. CASE Has(announcedPeers, t)'
  <2>1. announcedPeers'[t] # Absent
    BY <1>1 DEF Has, Absent
  <2>2. announcedPeers'[t] = announcedPeers[t]
    BY <2>1
  <2>3. announcedPeers[t].at \in 1 .. MaxTime /\ now \in Nat /\ now' \in Nat
    <3>1. announcedPeers \in Store(SUBSET Peer)
      BY DEF TInv, TrackerTypeOK
    <3>2. announcedPeers[t].at \in 1 .. MaxTime
      BY <2>1, <2>2, <3>1, EntryOf
    <3> QED
      BY <3>2, TokenStoreAssumption DEF TInv, TrackerTypeOK, Time
  <2>4. now' <= announcedPeers[t].at + Ttl
    BY <1>1, <2>2 DEF Has
  <2>5. Has(announcedPeers, t)
    BY <2>1, <2>2, <2>3, <2>4, TokenStoreAssumption DEF Has
  <2> QED
    BY <1>1, <2>2, <2>5 DEF Peers
<1>2. CASE ~Has(announcedPeers, t)'
  BY <1>2 DEF Peers
<1> QED
  BY <1>1, <1>2

\* Outside s, every target keeps its peers or loses them all.
LEMMA KeptOrForgotten ==
  ASSUME TInv, TInv', now <= now', NEW s,
         \A t \in Target \ s : announcedPeers'[t] \in {announcedPeers[t], Absent}
  PROVE  Contract!KeepOrForget(s)
<1>1. \A t \in Target : Peers(t)' \in SUBSET Peer
  <2> SUFFICES ASSUME NEW t \in Target PROVE Peers(t)' \in SUBSET Peer
    OBVIOUS
  <2>1. announcedPeers' \in Store(SUBSET Peer)'
    BY DEF TInv, TrackerTypeOK
  <2>2. Store(SUBSET Peer)' = Store(SUBSET Peer)
    BY DEF Store
  <2>3. CASE Has(announcedPeers, t)'
    <3>1. announcedPeers'[t] # Absent
      BY <2>3 DEF Has, Absent
    <3>2. announcedPeers'[t].value \in SUBSET Peer
      BY <2>1, <2>2, <3>1, EntryOf
    <3> QED
      BY <2>3, <3>2 DEF Peers
  <2> QED
    BY <2>3 DEF Peers
<1>2. \A t \in Target \ s : Peers(t)' \in {Peers(t), {}}
  BY PeersKept
<1> QED
  BY <1>1, <1>2 DEF Contract!KeepOrForget

\* handleGetPeers_ lists the peers, and its get() loses none.
LEMMA ListStep ==
  ASSUME TInv, TInv', NEW t \in Target, NEW a \in Address, HandleGetPeers(t, a)
  PROVE  Contract!List(t)
<1>1. /\ announcedPeers' = Got(announcedPeers, t) /\ now' = now
      /\ announcedPeers \in Store(SUBSET Peer)
      /\ announcedPeers' \in Store(SUBSET Peer)
  BY GotType DEF HandleGetPeers, TInv, TrackerTypeOK
<1>2. \A u \in Target : Peers(u)' = Peers(u)
  <2> SUFFICES ASSUME NEW u \in Target PROVE Peers(u)' = Peers(u)
    OBVIOUS
  <2>1. CASE Has(announcedPeers, u)
    <3>1. announcedPeers'[u] = announcedPeers[u]
      BY <1>1, <2>1, GotType
    <3> QED
      BY <1>1, <3>1 DEF Peers, Has, Absent
  <2>2. CASE ~Has(announcedPeers, u)
    <3>1. announcedPeers'[u] \in {announcedPeers[u], Absent}
      BY <1>1, GotType
    <3>2. ~Has(announcedPeers, u)'
      BY <1>1, <2>2, <3>1 DEF Has, Absent
    <3> QED
      BY <2>2, <3>2 DEF Peers
  <2> QED
    BY <2>1, <2>2
<1> QED
  BY <1>2 DEF HandleGetPeers, Contract!List

\* handleAnnouncePeer_ adds its peer to what the target has.
LEMMA AnnounceStep ==
  ASSUME TInv, TInv', NEW t \in Target, NEW a \in Address, NEW port \in Port,
         NEW token \in Presented, HandleAnnouncePeer(t, a, port, token)
  PROVE  Contract!Announce(t, <<a, port>>)
<1> DEFINE p == <<a, port>>
<1>1. p \in Peer /\ Add(t, p) /\ answer' = None /\ now' = now
  BY DEF HandleAnnouncePeer, Peer
<1>2. now \in Nat
  BY TokenStoreAssumption DEF TInv, TrackerTypeOK, Time
<1> HIDE DEF p
<1>3. Contract!KeepOrForget({t})
  BY <1>1, <1>2, AddPut, KeptOrForgotten
<1>4. Peers(t)' = Peers(t) \cup {p}
  <2>1. Has(announcedPeers, t)'
    BY <1>1, AddPut DEF Has, Absent
  <2> QED
    BY <1>1, <2>1, AddPut DEF Peers
<1> QED
  BY <1>1, <1>3, <1>4 DEF Contract!Announce, p

\* The cache of peers implements PeerSets: announcements add one peer, sets are
\* lost whole, by age, eviction or restart, and listings are complete.
THEOREM PeerSetsImplemented == TrackerSpec => ImplementsPeerSets
<1>1. TrackerInit => Contract!Init
  BY DEF TrackerInit, Contract!Init, Peers, Has, Empty
<1>2. TInv /\ TInv' /\ [TrackerNext]_trackerVars => [Contract!Next]_(Contract!vars)
  <2> SUFFICES ASSUME TInv, TInv', [TrackerNext]_trackerVars
               PROVE  Contract!Next \/ UNCHANGED Contract!vars
    OBVIOUS
  <2>1. CASE \E t \in Target, a \in Address : HandleGetPeers(t, a)
    BY <2>1, ListStep DEF Contract!Next
  <2>2. CASE \E t \in Target, a \in Address, token \in Presented, port \in Port :
               HandleAnnouncePeer(t, a, port, token)
    <3>1. PICK t \in Target, a \in Address, token \in Presented, port \in Port :
            HandleAnnouncePeer(t, a, port, token)
      BY <2>2
    <3>2. <<a, port>> \in Peer
      BY DEF Peer
    <3>3. Contract!Announce(t, <<a, port>>)
      BY <3>1, AnnounceStep
    <3> QED
      BY <3>2, <3>3 DEF Contract!Next
  <2>3. CASE \/ Restart
             \/ RenewSecret /\ UNCHANGED <<now, announcedPeers, answer, lastAnnounce>>
             \/ Elapse /\ UNCHANGED <<secret, announcedPeers, answer, lastAnnounce>>
             \/ \E t \in Target, a \in Address, token \in Presented : BadToken(t, a, token)
    <3>1. answer' \in {answer, None}
      BY <2>3 DEF Restart, BadToken
    <3>2. now <= now'
      BY <2>3, TokenStoreAssumption
         DEF Restart, BadToken, Elapse, TInv, TrackerTypeOK, Time
    <3>3. \A t \in Target \ {} : announcedPeers'[t] \in {announcedPeers[t], Absent}
      BY <2>3 DEF Restart, BadToken, Empty
    <3>4. Contract!KeepOrForget({})
      BY <3>2, <3>3, KeptOrForgotten
    <3> QED
      BY <3>1, <3>4 DEF Contract!Next, Contract!Forget
  <2>4. CASE UNCHANGED trackerVars
    BY <2>4 DEF trackerVars, Contract!vars, Peers, Has
  <2>5. CASE \E t \in Target, a \in Address, token \in Presented :
               AnnounceThrows(t, a, token)
    <3>1. PICK t \in Target, a \in Address, token \in Presented :
            AnnounceThrows(t, a, token)
      BY <2>5
    <3>2. answer' = None /\ now' = now /\ now <= now'
      BY <3>1, TokenStoreAssumption DEF AnnounceThrows, TInv, TrackerTypeOK, Time
    <3>3. \A u \in Target \ {t} : announcedPeers'[u] \in {announcedPeers[u], Absent}
      BY <3>1, AnnounceThrowsInv
    <3>4. Contract!KeepOrForget({t}) /\ Peers(t)' = Peers(t)
      BY <3>1, <3>2, <3>3, KeptOrForgotten, AnnounceThrowsInv
    <3>5. Contract!KeepOrForget({})
      BY <3>4 DEF Contract!KeepOrForget
    <3> QED
      BY <3>2, <3>5 DEF Contract!Next, Contract!Forget
  <2> QED
    BY <2>1, <2>2, <2>3, <2>4, <2>5 DEF TrackerNext
<1> QED
  BY <1>1, <1>2, Inductive, PTL DEF TrackerSpec, ImplementsPeerSets, Contract!Spec
=============================================================================
