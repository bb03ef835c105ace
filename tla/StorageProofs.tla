---------------------------- MODULE StorageProofs ----------------------------
(***************************************************************************)
(* Proofs about Storage.tla, for any nodes, keys, salts, sequence numbers  *)
(* and values, and caches of any size and age.                             *)
(***************************************************************************)
EXTENDS Storage, TLAPS

-----------------------------------------------------------------------------
(* Records, and what may arrive of them.                                   *)

LEMMA PuttableIs ==
  ASSUME NEW p \in Puttable
  PROVE  \/ \E v \in Val : p = Immutable(v)
         \/ \E k \in Key, x \in Salts, n \in Seq, v \in Val : p = Mutable(k, x, n, v)
BY DEF Puttable

LEMMA ImmutableIs ==
  ASSUME NEW v \in Val, NEW p, p = Immutable(v)
  PROVE  /\ p \in Record
         /\ p.k = None /\ p.sig = None /\ p.v = v
         /\ p = [k |-> None, salt |-> None, seq |-> 0, v |-> v, sig |-> None]
BY StorageAssumption DEF Immutable, Record, Salts

LEMMA MutableIs ==
  ASSUME NEW k \in Key, NEW x \in Salts, NEW n \in Seq, NEW v \in Val,
         NEW p, p = Mutable(k, x, n, v)
  PROVE  /\ p \in Record
         /\ p.k = k /\ p.salt = x /\ p.seq = n /\ p.v = v
         /\ p.sig = <<k, x, n, v>> /\ p.sig # None /\ k # None
         /\ p = [k |-> k, salt |-> x, seq |-> n, v |-> v, sig |-> <<k, x, n, v>>]
BY StorageAssumption DEF Mutable, Record

LEMMA AlteredIs ==
  ASSUME NEW p \in Record, NEW r \in Altered(p)
  PROVE  /\ r \in Record
         /\ r.k = p.k
         /\ \/ r.sig = p.sig
            \/ r.sig = None
BY DEF Altered, Record

LEMMA RecordEq ==
  ASSUME NEW p \in Record, NEW r \in Record,
         p.k = r.k, p.salt = r.salt, p.seq = r.seq, p.v = r.v, p.sig = r.sig
  PROVE  p = r
BY DEF Record

\* A packet whose token fits its target and whose signature verifies is what
\* was put, whatever was altered.
LEMMA AlteredPut ==
  ASSUME NEW p \in Puttable, NEW r \in Altered(p), TargetOf(r) = TargetOf(p),
         r.sig # None => Verified(r, r.salt)
  PROVE  Kept(r) = p
<1>1. CASE \E v \in Val : p = Immutable(v)
  <2>1. PICK v \in Val : p = Immutable(v)
    BY <1>1
  <2>2. p \in Record /\ p.sig = None /\ p.v = v
    BY <2>1, ImmutableIs
  <2>3. r.sig = None
    BY <2>2, AlteredIs
  <2>4. <<r.v>> = <<v>>
    BY <2>2, <2>3 DEF TargetOf
  <2> QED
    BY <2>1, <2>3, <2>4 DEF Kept
<1>2. CASE \E k \in Key, x \in Salts, n \in Seq, v \in Val : p = Mutable(k, x, n, v)
  <2>1. PICK k \in Key, x \in Salts, n \in Seq, v \in Val : p = Mutable(k, x, n, v)
    BY <1>2
  <2>2. /\ p \in Record /\ p.sig # None /\ p.sig = <<k, x, n, v>>
        /\ p.k = k /\ p.salt = x /\ p.seq = n /\ p.v = v
    BY <2>1, MutableIs
  <2>3. r.sig # None
    BY <2>2 DEF TargetOf
  <2>4. r \in Record /\ r.sig = p.sig
    BY <2>2, <2>3, AlteredIs
  <2>5. <<r.k, r.salt, r.seq, r.v>> = <<k, x, n, v>>
    BY <2>2, <2>3, <2>4 DEF Verified
  <2>6. r = p
    BY <2>2, <2>4, <2>5, RecordEq
  <2> QED
    BY <2>3, <2>6 DEF Kept
<1> QED
  BY <1>1, <1>2, PuttableIs

\* An answer that is valid for the target carries what was put.
LEMMA AlteredValid ==
  ASSUME NEW p \in Puttable, NEW r \in Altered(p), NEW salt,
         Valid(r, TargetOf(p), salt)
  PROVE  r.v = p.v /\ r.sig = p.sig /\ (r.sig # None => r.seq = p.seq)
<1>1. CASE \E v \in Val : p = Immutable(v)
  <2>1. PICK v \in Val : p = Immutable(v)
    BY <1>1
  <2>2. p \in Record /\ p.sig = None /\ p.k = None /\ p.v = v
    BY <2>1, ImmutableIs
  <2>3. r.sig = None /\ r.k = None
    BY <2>2, AlteredIs
  <2>4. <<r.v>> = <<v>>
    BY <2>2, <2>3 DEF TargetOf, Valid
  <2> QED
    BY <2>2, <2>3, <2>4
<1>2. CASE \E k \in Key, x \in Salts, n \in Seq, v \in Val : p = Mutable(k, x, n, v)
  <2>1. PICK k \in Key, x \in Salts, n \in Seq, v \in Val : p = Mutable(k, x, n, v)
    BY <1>2
  <2>2. /\ p \in Record /\ p.sig = <<k, x, n, v>>
        /\ p.k = k /\ k # None /\ p.seq = n /\ p.v = v
    BY <2>1, MutableIs
  <2>3. r.k # None /\ r.sig # None /\ r.sig = p.sig
    BY <2>2, AlteredIs DEF Valid
  <2>4. \E y : r.sig = <<r.k, y, r.seq, r.v>>
    BY <2>3 DEF Valid, Verified
  <2> QED
    BY <2>2, <2>3, <2>4
<1> QED
  BY <1>1, <1>2, PuttableIs

\* What was put under a target is valid there.
LEMMA PuttableIsValid ==
  ASSUME NEW p \in Puttable
  PROVE  /\ Valid(p, TargetOf(p), p.salt)
         /\ p.sig # None => Verified(p, p.salt)
         /\ p \in Record
<1>1. CASE \E v \in Val : p = Immutable(v)
  BY <1>1, ImmutableIs DEF Valid, TargetOf
<1>2. CASE \E k \in Key, x \in Salts, n \in Seq, v \in Val : p = Mutable(k, x, n, v)
  BY <1>2, MutableIs DEF Valid, TargetOf, Verified
<1> QED
  BY <1>1, <1>2, PuttableIs

-----------------------------------------------------------------------------
(* The inductive invariant.                                                *)

Entry == [value : issued, at : Time] \cup {Absent}

\* Every entry, expired or not, is a record that was put under its target.
StoreInv ==
  /\ store \in [Node -> [Target -> Entry]]
  /\ \A m \in Node, t \in Target :
       store[m][t] # Absent => TargetOf(store[m][t].value) = t

\* Every packet on the wire carries the token of its sender for its target.
WireInv ==
  /\ wire \subseteq [from : Node, to : Node, token : Target \X Node, rec : issued]
  /\ \A w \in wire : w.token = getWriteToken(TargetOf(w.rec), w.from)

\* The tokens a put has collected are its own, and what get returned was put.
OpInv ==
  /\ op \in [Node -> Op]
  /\ \A n \in Node : op[n].kind = "put" =>
       \A w \in op[n].tokens : w[2] = getWriteToken(op[n].target, n)
  /\ ResultWasPut

HistoryInv == issued \subseteq Puttable /\ now \in Time /\ secret \in Secret

SInv == StoreInv /\ WireInv /\ OpInv /\ HistoryInv

LEMMA InitInv == Init => SInv
<1> SUFFICES ASSUME Init PROVE SInv
  OBVIOUS
<1>1. StoreInv
  BY DEF Init, StoreInv, Empty, Entry
<1>2. WireInv
  BY DEF Init, WireInv
<1>3. OpInv
  BY DEF Init, OpInv, ResultWasPut, Op, Idle
<1>4. HistoryInv
  BY StorageAssumption DEF Init, HistoryInv, Time
<1> QED
  BY <1>1, <1>2, <1>3, <1>4 DEF SInv

\* What an operation needs that changes nothing but the others' parts.
LEMMA WireKept ==
  ASSUME WireInv, wire' = wire, issued' = issued
  PROVE  WireInv'
BY DEF WireInv, getWriteToken

LEMMA HistoryKept ==
  ASSUME HistoryInv, issued' = issued, now' = now, secret' = secret
  PROVE  HistoryInv'
BY DEF HistoryInv

LEMMA StoreKept ==
  ASSUME StoreInv, store' \in [Node -> [Target -> Entry]],
         issued \subseteq issued',
         \A m \in Node, t \in Target : store'[m][t] \in {store[m][t], Absent}
  PROVE  StoreInv'
<1>1. Entry \subseteq Entry'
  BY DEF Entry
<1>2. store' \in [Node -> [Target -> Entry']]
  BY <1>1
<1> QED
  BY <1>2 DEF StoreInv

\* get() on a node's cache, for its own operation or for another's query.
LEMMA GotKeeps ==
  ASSUME SInv, NEW m \in Node, NEW t \in Target, HandleGet(m, t)
  PROVE  /\ store' \in [Node -> [Target -> Entry]]
         /\ \A n \in Node, u \in Target : store'[n][u] \in {store[n][u], Absent}
<1>1. store \in [Node -> [Target -> Entry]] /\ Absent \in Entry
  BY DEF SInv, StoreInv, Entry
<1>2. /\ Got(store[m], t) \in [Target -> Entry]
      /\ \A u \in Target : Got(store[m], t)[u] \in {store[m][u], Absent}
  BY <1>1 DEF Got
<1>3. store' = [store EXCEPT ![m] = Got(store[m], t)]
  BY DEF HandleGet
<1> QED
  BY <1>1, <1>2, <1>3

\* A store keeps only what was put.
LEMMA HeldWasPut ==
  ASSUME SInv, NEW m \in Node, NEW t \in Target, Held(m, t) # None
  PROVE  Held(m, t) \in issued /\ Held(m, t) \in Puttable /\ TargetOf(Held(m, t)) = t
<1>1. Has(store[m], t) /\ Held(m, t) = store[m][t].value
  BY DEF Held
<1>2. store[m][t] # Absent
  BY <1>1 DEF Has
<1>3. store[m][t] \in Entry
  BY DEF SInv, StoreInv
<1> QED
  BY <1>1, <1>2, <1>3 DEF Entry, SInv, StoreInv, HistoryInv

LEMMA HandlePutStores ==
  ASSUME SInv, NEW w \in wire, HandlePut(w)
  PROVE  /\ w.rec \in issued /\ w.to \in Node /\ TargetOf(w.rec) \in Target
         /\ store' \in [Node -> [Target -> Entry]]
         /\ store'[w.to][TargetOf(w.rec)] = [value |-> w.rec, at |-> now]
         /\ \A m \in Node, t \in Target : 
              m # w.to \/ t # TargetOf(w.rec) => store'[m][t] \in {store[m][t], Absent}
<1> DEFINE t0 == TargetOf(w.rec)
<1>1. /\ w.rec \in issued /\ w.rec \in Puttable /\ w.from \in Node /\ w.to \in Node
      /\ w.token \in Target \X Node /\ w.token = <<t0, w.from>>
  BY DEF SInv, WireInv, HistoryInv, getWriteToken
<1>2. t0 \in Target
  BY <1>1
<1>3. PICK r \in Altered(w.rec) :
        /\ Accepts([w EXCEPT !.rec = r])
        /\ \E s \in Sets(store[w.to], TargetOf(r), Kept(r)) :
             store' = [store EXCEPT ![w.to] = s]
  BY DEF HandlePut
<1>4. w.token = <<TargetOf(r), w.from>> /\ (r.sig # None => Verified(r, r.salt))
  <2>1. w = [from |-> w.from, to |-> w.to, token |-> w.token, rec |-> w.rec]
    BY DEF SInv, WireInv
  <2>2. [w EXCEPT !.rec = r] = [from |-> w.from, to |-> w.to, token |-> w.token, rec |-> r]
    BY <2>1
  <2> QED
    BY <1>3, <2>2 DEF Accepts, getWriteToken
<1>5. TargetOf(r) = t0
  BY <1>1, <1>4
<1>6. Kept(r) = w.rec
  BY <1>1, <1>4, <1>5, AlteredPut
<1>7. PICK s \in Sets(store[w.to], t0, w.rec) : store' = [store EXCEPT ![w.to] = s]
  <2>1. \E s \in Sets(store[w.to], TargetOf(r), Kept(r)) :
          store' = [store EXCEPT ![w.to] = s]
    BY <1>3
  <2> QED
    BY <1>5, <1>6, <2>1
<1>8. PICK out : s = [u \in Target |->
          IF u = t0 THEN [value |-> w.rec, at |-> now]
          ELSE IF u \in out THEN Absent ELSE store[w.to][u]]
  BY <1>7 DEF Sets
<1>9. /\ store \in [Node -> [Target -> Entry]] /\ Absent \in Entry
      /\ [value |-> w.rec, at |-> now] \in Entry
  BY <1>1 DEF SInv, StoreInv, HistoryInv, Entry
<1> HIDE DEF t0
<1>10. /\ store' \in [Node -> [Target -> Entry]]
      /\ store'[w.to][t0] = [value |-> w.rec, at |-> now]
      /\ \A m \in Node, t \in Target :
           m # w.to \/ t # t0 => store'[m][t] \in {store[m][t], Absent}
  BY <1>1, <1>2, <1>7, <1>9, <1>8
<1> QED
  BY <1>1, <1>2, <1>10 DEF t0

LEMMA HandlePutInv ==
  ASSUME SInv, NEW w \in wire, HandlePut(w)
  PROVE  SInv'
<1>1. UNCHANGED <<op, wire, secret, now, issued>>
  BY DEF HandlePut
<1>2. Entry' = Entry
  BY <1>1 DEF Entry
<1>3. StoreInv'
  <2> SUFFICES ASSUME NEW m \in Node, NEW t \in Target, store'[m][t] # Absent
               PROVE  TargetOf(store'[m][t].value) = t
    BY <1>2, HandlePutStores DEF StoreInv
  <2>1. CASE m = w.to /\ t = TargetOf(w.rec)
    <3>1. store'[m][t] = [value |-> w.rec, at |-> now]
      BY <2>1, HandlePutStores
    <3>2. store'[m][t].value = w.rec
      BY <3>1
    <3> QED
      BY <2>1, <3>2
  <2>2. CASE m # w.to \/ t # TargetOf(w.rec)
    <3>1. store'[m][t] \in {store[m][t], Absent}
      BY <2>2, HandlePutStores
    <3> QED
      BY <3>1 DEF SInv, StoreInv, Absent
  <2> QED
    BY <2>1, <2>2
<1>4. OpInv'
  BY <1>1 DEF SInv, OpInv, ResultWasPut, getWriteToken
<1> QED
  BY <1>1, <1>3, <1>4, WireKept, HistoryKept DEF SInv

-----------------------------------------------------------------------------
(* The operations of get and put.                                          *)

\* What op[n] must satisfy once it is o, when the records in S have been put.
OpIs(n, o, S) ==
  /\ o \in Op
  /\ o.kind = "put" => \A w \in o.tokens : w[2] = getWriteToken(o.target, n)
  /\ o.kind = "got" =>
       \E r \in S : /\ TargetOf(r) = o.target
                    /\ r.v = o.rec.v /\ r.sig = o.rec.sig
                    /\ r.sig # None => r.seq = o.rec.seq

LEMMA OpInvIs == OpInv <=> op \in [Node -> Op] /\ \A n \in Node : OpIs(n, op[n], issued)
BY DEF OpInv, ResultWasPut, OpIs

LEMMA OpSet ==
  ASSUME OpInv, NEW n \in Node, NEW o, OpIs(n, o, issued), issued \subseteq issued',
         op' = [op EXCEPT ![n] = o]
  PROVE  OpInv'
<1>1. op \in [Node -> Op] /\ \A m \in Node : OpIs(m, op[m], issued)
  BY OpInvIs
<1>2. op' \in [Node -> Op]
  BY <1>1 DEF OpIs
<1>3. ASSUME NEW m \in Node PROVE OpIs(m, op'[m], issued)
  BY <1>1
<1>4. ASSUME NEW m \in Node PROVE OpIs(m, op'[m], issued')
  BY <1>3 DEF OpIs
<1> QED
  BY <1>2, <1>4 DEF OpInv, ResultWasPut, OpIs, getWriteToken

LEMMA IdleIs == ASSUME NEW n \in Node PROVE OpIs(n, Idle, issued)
BY DEF OpIs, Idle, Op

\* An operation under way, with one more node heard.
LEMMA GetIs ==
  ASSUME NEW o \in Op, o.kind = "get", NEW m \in Node
  PROVE  /\ o.target \in Target /\ o.salt \in Salts /\ o.heard \subseteq Node
         /\ [o EXCEPT !.heard = @ \cup {m}] \in Op
         /\ [o EXCEPT !.heard = @ \cup {m}].kind = "get"
<1>1. o \in [kind : {"get"}, target : Target, salt : Salts, heard : SUBSET Node]
  BY DEF Op, Idle
<1>2. [o EXCEPT !.heard = @ \cup {m}]
        = [kind |-> "get", target |-> o.target, salt |-> o.salt, heard |-> o.heard \cup {m}]
  BY <1>1
<1> QED
  BY <1>1, <1>2 DEF Op

LEMMA PutIs ==
  ASSUME NEW o \in Op, o.kind = "put"
  PROVE  o \in [kind : {"put"}, target : Target, heard : SUBSET Node,
                tokens : SUBSET (Node \X (Target \X Node))]
BY DEF Op, Idle

\* A get that returns r.
LEMMA ReturnInv ==
  ASSUME SInv, NEW n \in Node, NEW t \in Target, NEW r \in Record,
         NEW p \in issued, TargetOf(p) = t, p.v = r.v, p.sig = r.sig,
         p.sig # None => p.seq = r.seq,
         Return(n, t, r), issued' = issued
  PROVE  OpInv'
<1> DEFINE o == [kind |-> "got", target |-> t, rec |-> r]
<1>1. o \in Op
  BY DEF Op
<1>2. OpIs(n, o, issued)
  BY <1>1 DEF OpIs
<1> QED
  BY <1>2, OpSet DEF SInv, Return

LEMMA BeginGetInv ==
  ASSUME SInv, NEW n \in Node, NEW t \in Target, NEW salt \in Salts, BeginGet(n, t, salt)
  PROVE  SInv'
<1>1. UNCHANGED <<wire, secret, now, issued>> /\ HandleGet(n, t)
  BY DEF BeginGet, HandleGet
<1>2. StoreInv'
  BY <1>1, GotKeeps, StoreKept DEF SInv
<1>3. OpInv'
  <2>1. CASE Has(store[n], t)
    <3>1. store[n][t] \in Entry /\ store[n][t] # Absent
      BY <2>1 DEF SInv, StoreInv, Has
    <3>2. /\ Held(n, t) = store[n][t].value /\ Held(n, t) \in issued
          /\ TargetOf(Held(n, t)) = t
      BY <2>1, <3>1 DEF Held, Entry, SInv, StoreInv
    <3>3. Held(n, t) \in Record
      BY <3>2, PuttableIsValid DEF SInv, HistoryInv
    <3>4. Return(n, t, Held(n, t))
      BY <2>1 DEF BeginGet
    <3> QED
      BY <1>1, <3>2, <3>3, <3>4, ReturnInv
  <2>2. CASE ~Has(store[n], t)
    <3> DEFINE o == [kind |-> "get", target |-> t, salt |-> salt, heard |-> {}]
    <3>1. op' = [op EXCEPT ![n] = o]
      BY <2>2 DEF BeginGet
    <3>2. OpIs(n, o, issued)
      BY DEF OpIs, Op
    <3> QED
      BY <1>1, <3>1, <3>2, OpSet DEF SInv
  <2> QED
    BY <2>1, <2>2
<1> QED
  BY <1>1, <1>2, <1>3, WireKept, HistoryKept DEF SInv

LEMMA GetHearsInv ==
  ASSUME SInv, NEW n \in Node, NEW m \in Node, GetHears(n, m)
  PROVE  SInv'
<1>1. UNCHANGED <<wire, secret, now, issued>> /\ HandleGet(m, op[n].target)
      /\ op[n].kind = "get" /\ op[n] \in Op
  BY DEF GetHears, Hears, SInv, OpInv
<1> DEFINE t == op[n].target
<1>2. t \in Target
  BY <1>1, GetIs
<1>3. StoreInv'
  BY <1>1, <1>2, GotKeeps, StoreKept DEF SInv
<1>4. PICK r \in Answers(m, t) :
        IF r # None /\ Valid(r, t, op[n].salt)
          THEN Return(n, t, r)
          ELSE op' = [op EXCEPT ![n].heard = @ \cup {m}]
  BY DEF GetHears
<1>5. OpInv'
  <2>1. CASE r # None /\ Valid(r, t, op[n].salt)
    <3>1. Held(m, t) # None /\ r \in Altered(Held(m, t))
      BY <2>1, <1>4 DEF Answers
    <3>2. Held(m, t) \in issued /\ Held(m, t) \in Puttable /\ TargetOf(Held(m, t)) = t
      BY <1>2, <3>1, HeldWasPut
    <3>3. r \in Record
      BY <3>1, <3>2, PuttableIsValid, AlteredIs
    <3>4. Valid(r, TargetOf(Held(m, t)), op[n].salt)
      BY <2>1, <3>2
    <3>5. /\ Held(m, t).v = r.v /\ Held(m, t).sig = r.sig
          /\ Held(m, t).sig # None => Held(m, t).seq = r.seq
      BY <3>1, <3>2, <3>4, AlteredValid
    <3>6. Return(n, t, r)
      BY <2>1, <1>4
    <3> QED
      BY <1>1, <1>2, <3>2, <3>3, <3>5, <3>6, ReturnInv
  <2>2. CASE ~(r # None /\ Valid(r, t, op[n].salt))
    <3> DEFINE o == [op[n] EXCEPT !.heard = @ \cup {m}]
    <3>1. op' = [op EXCEPT ![n] = o]
      BY <2>2, <1>4
    <3>2. o \in Op /\ o.kind = "get"
      BY <1>1, GetIs
    <3>3. OpIs(n, o, issued)
      BY <3>2 DEF OpIs
    <3> QED
      BY <1>1, <3>1, <3>3, OpSet DEF SInv
  <2> QED
    BY <2>1, <2>2
<1> QED
  BY <1>1, <1>3, <1>5, WireKept, HistoryKept DEF SInv

LEMMA BeginPutInv ==
  ASSUME SInv, NEW n \in Node, NEW t \in Target, BeginPut(n, t)
  PROVE  SInv'
<1>1. UNCHANGED <<store, wire, secret, now, issued>>
  BY DEF BeginPut
<1>2. StoreInv'
  BY <1>1 DEF SInv, StoreInv, Entry
<1>3. OpInv'
  <2> DEFINE o == [kind |-> "put", target |-> t, heard |-> {}, tokens |-> {}]
  <2>1. OpIs(n, o, issued)
    BY DEF OpIs, Op
  <2>2. op' = [op EXCEPT ![n] = o]
    BY DEF BeginPut
  <2> QED
    BY <1>1, <2>1, <2>2, OpSet DEF SInv
<1> QED
  BY <1>1, <1>2, <1>3, WireKept, HistoryKept DEF SInv

LEMMA PutHearsInv ==
  ASSUME SInv, NEW n \in Node, NEW m \in Node, PutHears(n, m)
  PROVE  SInv'
<1> DEFINE t == op[n].target
           tok == <<m, getWriteToken(t, n)>>
<1>1. UNCHANGED <<wire, secret, now, issued>> /\ HandleGet(m, t)
      /\ op[n].kind = "put" /\ op[n] \in Op
  BY DEF PutHears, Hears, SInv, OpInv
<1>2. op[n] \in [kind : {"put"}, target : Target, heard : SUBSET Node,
                 tokens : SUBSET (Node \X (Target \X Node))]
  BY <1>1, PutIs
<1>3. StoreInv'
  BY <1>1, <1>2, GotKeeps, StoreKept DEF SInv
<1>4. OpInv'
  <2> DEFINE o == [kind |-> "put", target |-> t, heard |-> op[n].heard \cup {m},
                   tokens |-> op[n].tokens \cup {tok}]
  <2>3. op' = [op EXCEPT ![n] = o]
    BY DEF PutHears
  <2>4. tok \in Node \X (Target \X Node)
    BY <1>2 DEF getWriteToken
  <2>5. o \in Op
    BY <1>2, <2>4 DEF Op
  <2>6. \A w \in op[n].tokens : w[2] = getWriteToken(t, n)
    BY <1>1 DEF SInv, OpInv
  <2>7. OpIs(n, o, issued)
    BY <2>5, <2>6 DEF OpIs
  <2> QED
    BY <1>1, <2>3, <2>7, OpSet DEF SInv
<1> QED
  BY <1>1, <1>3, <1>4, WireKept, HistoryKept DEF SInv

LEMMA WriteInv ==
  ASSUME SInv, NEW n \in Node, NEW r \in Puttable, Write(n, r)
  PROVE  SInv'
<1> DEFINE sent == {[from |-> n, to |-> w[1], token |-> w[2], rec |-> r] : w \in op[n].tokens}
<1>1. /\ UNCHANGED <<store, secret, now>>
      /\ op[n].kind = "put" /\ op[n] \in Op /\ TargetOf(r) = op[n].target
      /\ issued' = issued \cup {r} /\ wire' = wire \cup sent
      /\ op' = [op EXCEPT ![n] = Idle]
  BY DEF Write, SInv, OpInv
<1>2. op[n] \in [kind : {"put"}, target : Target, heard : SUBSET Node,
                 tokens : SUBSET (Node \X (Target \X Node))]
  BY <1>1, PutIs
<1>3. StoreInv'
  <2>1. issued \subseteq issued' /\ store' \in [Node -> [Target -> Entry]]
    BY <1>1 DEF SInv, StoreInv
  <2> QED
    BY <1>1, <2>1, StoreKept DEF SInv
<1>4. WireInv'
  <2>1. ASSUME NEW w \in wire'
        PROVE  /\ w \in [from : Node, to : Node, token : Target \X Node, rec : issued']
               /\ w.token = <<TargetOf(w.rec), w.from>>
    <3>1. CASE w \in wire
      BY <1>1, <3>1 DEF SInv, WireInv, getWriteToken
    <3>2. CASE w \in sent
      <4>1. PICK x \in op[n].tokens : w = [from |-> n, to |-> x[1], token |-> x[2], rec |-> r]
        BY <3>2
      <4>2. x \in Node \X (Target \X Node) /\ x[2] = <<op[n].target, n>>
        BY <1>1, <1>2 DEF SInv, OpInv, getWriteToken
      <4>3. x[1] \in Node /\ x[2] \in Target \X Node /\ r \in issued'
        BY <1>1, <4>2
      <4> QED
        BY <1>1, <4>1, <4>2, <4>3
    <3> QED
      BY <1>1, <3>1, <3>2
  <2> QED
    BY <2>1 DEF WireInv, getWriteToken
<1>5. OpInv'
  BY <1>1, IdleIs, OpSet DEF SInv
<1>6. HistoryInv'
  BY <1>1 DEF SInv, HistoryInv
<1> QED
  BY <1>3, <1>4, <1>5, <1>6 DEF SInv

LEMMA NothingFoundInv ==
  ASSUME SInv, NEW n \in Node, NothingFound(n)
  PROVE  SInv'
<1>1. UNCHANGED <<store, wire, secret, now, issued>> /\ op' = [op EXCEPT ![n] = Idle]
  BY DEF NothingFound
<1>2. StoreInv'
  BY <1>1 DEF SInv, StoreInv, Entry
<1>3. OpInv'
  BY <1>1, IdleIs, OpSet DEF SInv
<1> QED
  BY <1>1, <1>2, <1>3, WireKept, HistoryKept DEF SInv

LEMMA RestartStores ==
  ASSUME SInv, NEW n \in Node, Restart(n)
  PROVE  /\ store' \in [Node -> [Target -> Entry]]
         /\ \A m \in Node, t \in Target : store'[m][t] \in {store[m][t], Absent}
<1>1. store \in [Node -> [Target -> Entry]] /\ store' = [store EXCEPT ![n] = Empty]
  BY DEF SInv, StoreInv, Restart
<1>2. Empty \in [Target -> Entry] /\ \A t \in Target : Empty[t] = Absent
  BY DEF Empty, Entry
<1> QED
  BY <1>1, <1>2

LEMMA RestartInv ==
  ASSUME SInv, NEW n \in Node, Restart(n)
  PROVE  SInv'
<1>1. UNCHANGED <<wire, now, issued>> /\ secret' \in Secret
      /\ op' = [op EXCEPT ![n] = Idle]
  BY DEF Restart
<1>2. StoreInv'
  BY <1>1, RestartStores, StoreKept DEF SInv
<1>3. OpInv'
  BY <1>1, IdleIs, OpSet DEF SInv
<1>4. HistoryInv'
  BY <1>1 DEF SInv, HistoryInv
<1> QED
  BY <1>1, <1>2, <1>3, <1>4, WireKept DEF SInv

LEMMA ElapseInv ==
  ASSUME SInv, Elapse, UNCHANGED <<store, op, wire, secret, issued>>
  PROVE  SInv'
<1>1. now \in Nat /\ now' = now + 1 /\ now' \in Time
  BY StorageAssumption DEF Elapse, SInv, HistoryInv, Time
<1>2. StoreInv'
  BY DEF SInv, StoreInv, Entry
<1>3. OpInv'
  BY DEF SInv, OpInv, ResultWasPut, getWriteToken
<1>4. HistoryInv'
  BY <1>1 DEF SInv, HistoryInv
<1> QED
  BY <1>2, <1>3, <1>4, WireKept DEF SInv

LEMMA RenewInv ==
  ASSUME SInv, Renew
  PROVE  SInv'
<1>1. UNCHANGED <<store, op, wire, now, issued>> /\ secret' \in Secret
  BY DEF Renew, RenewSecret
<1>2. StoreInv'
  BY <1>1 DEF SInv, StoreInv, Entry
<1>3. OpInv'
  BY <1>1 DEF SInv, OpInv, ResultWasPut, getWriteToken
<1>4. HistoryInv'
  BY <1>1 DEF SInv, HistoryInv
<1> QED
  BY <1>1, <1>2, <1>3, <1>4, WireKept DEF SInv

LEMMA StutterInv ==
  ASSUME SInv, UNCHANGED vars
  PROVE  SInv'
<1>1. StoreInv'
  BY DEF SInv, StoreInv, Entry, vars
<1>2. OpInv'
  BY DEF SInv, OpInv, ResultWasPut, getWriteToken, vars
<1> QED
  BY <1>1, <1>2, WireKept, HistoryKept DEF SInv, vars

LEMMA NextInv == SInv /\ [Next]_vars => SInv'
<1> SUFFICES ASSUME SInv, [Next]_vars PROVE SInv'
  OBVIOUS
<1>1. ASSUME NEW n \in Node, NEW t \in Target, BeginGet(n, t, None) PROVE SInv'
  BY <1>1, BeginGetInv DEF Salts
<1>2. ASSUME NEW n \in Node, NEW t \in Target, BeginPut(n, t) PROVE SInv'
  BY <1>2, BeginPutInv
<1>3. ASSUME NEW n \in Node, NEW k \in Key, NEW x \in Salt, BeginGet(n, <<k, x>>, x) PROVE SInv'
  <2>1. x \in Salts /\ <<k, x>> \in Target
    BY DEF Salts, Target
  <2> QED
    BY <1>3, <2>1, BeginGetInv
<1>4. ASSUME NEW n \in Node, NEW m \in Node, GetHears(n, m) PROVE SInv'
  BY <1>4, GetHearsInv
<1>5. ASSUME NEW n \in Node, NEW m \in Node, PutHears(n, m) PROVE SInv'
  BY <1>5, PutHearsInv
<1>6. ASSUME NEW n \in Node, NothingFound(n) PROVE SInv'
  BY <1>6, NothingFoundInv
<1>7. ASSUME NEW n \in Node, NEW r \in Puttable, Write(n, r) PROVE SInv'
  BY <1>7, WriteInv
<1>8. ASSUME NEW n \in Node, Restart(n) PROVE SInv'
  BY <1>8, RestartInv
<1>9. ASSUME NEW w \in wire, HandlePut(w) PROVE SInv'
  BY <1>9, HandlePutInv
<1>10. CASE Elapse /\ UNCHANGED <<store, op, wire, secret, issued>>
  BY <1>10, ElapseInv
<1>11. CASE Renew
  BY <1>11, RenewInv
<1>12. CASE UNCHANGED vars
  BY <1>12, StutterInv
<1> QED
  BY <1>1, <1>2, <1>3, <1>4, <1>5, <1>6, <1>7, <1>8, <1>9, <1>10, <1>11, <1>12 DEF Next

LEMMA Inductive == Spec => []SInv
BY InitInv, NextInv, PTL DEF Spec

-----------------------------------------------------------------------------
(* The properties.                                                         *)

LEMMA SInvTypeOK == SInv => TypeOK
<1> SUFFICES ASSUME SInv PROVE TypeOK
  OBVIOUS
<1>1. issued \subseteq Record /\ issued \subseteq Puttable
  BY PuttableIsValid DEF SInv, HistoryInv
<1>2. Entry \subseteq [value : Record, at : Time] \cup {[value |-> None, at |-> 0]}
  BY <1>1 DEF Entry, Absent
<1>3. store \in [Node -> Store(Record)]
  BY <1>2 DEF SInv, StoreInv, Store
<1>4. wire \subseteq [from : Node, to : Node, token : Target \X Node, rec : Puttable]
  BY <1>1 DEF SInv, WireInv
<1> QED
  BY <1>1, <1>3, <1>4 DEF TypeOK, SInv, OpInv, HistoryInv

\* The stores, the packets and the operations have their types throughout:
\* what altered packets leave in store_ is always a record.
THEOREM StorageTypeCorrect == Spec => []TypeOK
BY Inductive, SInvTypeOK, PTL

\* handlePutQuery_ stores under a target only what somebody put there, whatever
\* was altered on the way.
THEOREM StoresWhatWasPut == Spec => []StoredWasPut
<1>1. SInv => StoredWasPut
  BY HeldWasPut DEF StoredWasPut
<1> QED
  BY Inductive, <1>1, PTL

\* get returns a value somebody put under its target, whatever was altered in
\* the answers.
THEOREM ReturnsWhatWasPut == Spec => []ResultWasPut
<1>1. SInv => ResultWasPut
  BY DEF SInv, OpInv
<1> QED
  BY Inductive, <1>1, PTL

\* What put sends, handlePutQuery_ accepts: at once, late, again, and after the
\* secret was renewed.
THEOREM PacketsAccepted == Spec => []WritesAreAccepted
<1>1. SInv => WritesAreAccepted
  BY PuttableIsValid DEF SInv, WireInv, HistoryInv, WritesAreAccepted, Accepts
<1> QED
  BY Inductive, <1>1, PTL

\* What handlePutQuery_ stored, the validator of get lets pass.
THEOREM StoredValid == Spec => []StoredIsFound
<1>1. SInv => StoredIsFound
  BY HeldWasPut, PuttableIsValid DEF StoredIsFound
<1> QED
  BY Inductive, <1>1, PTL

-----------------------------------------------------------------------------
(* The stores implement LastPut.                                           *)

LEMMA HeldType ==
  SInv => \A m \in Node, t \in Target : Held(m, t) \in Puttable \cup {None}
BY HeldWasPut

\* Outside put, entries stay or go, and time does not run backwards.
LEMMA KeptOrForgotten ==
  ASSUME SInv, SInv', now' = now \/ now' = now + 1, NEW put,
         \A m \in Node, t \in Target :
           <<m, t>> \in put \/ store'[m][t] \in {store[m][t], Absent}
  PROVE  Contract!KeepOrForget(put)
<1>1. (\A m \in Node, t \in Target : Held(m, t) \in Puttable \cup {None})'
  BY HeldType, PTL
<1>2. ASSUME NEW m \in Node, NEW t \in Target, <<m, t>> \notin put
      PROVE  Held(m, t)' \in {Held(m, t), None}
  <2>1. now \in Nat
    BY StorageAssumption DEF SInv, HistoryInv, Time
  <2>2. CASE store'[m][t] = Absent
    BY <2>2 DEF Held, Has
  <2>3. CASE store'[m][t] = store[m][t] /\ store[m][t] # Absent
    <3>1. store[m][t].at \in Nat
      BY <2>3 DEF SInv, StoreInv, Entry, Time
    <3>2. Has(store[m], t)' => Has(store[m], t)
      BY <2>1, <2>3, <3>1, StorageAssumption DEF Has, Absent
    <3> QED
      BY <2>3, <3>2 DEF Held
  <2> QED
    BY <1>2, <2>2, <2>3
<1> DEFINE h == [m \in Node |-> [t \in Target |-> Held(m, t)]]
<1>3. h' \in [Node -> [Target -> Puttable \cup {None}]]
  BY <1>1
<1>4. \A m \in Node, t \in Target :
        <<m, t>> \in put \/ h'[m][t] \in {h[m][t], None}
  BY <1>2
<1> QED
  BY <1>3, <1>4 DEF Contract!KeepOrForget

\* An accepted packet.
LEMMA AcceptStep ==
  ASSUME SInv, SInv', NEW w \in wire, HandlePut(w)
  PROVE  Contract!Accept(w.to, w.rec)
<1> DEFINE t0 == TargetOf(w.rec)
<1>1. /\ w.rec \in issued /\ w.to \in Node /\ t0 \in Target
      /\ store'[w.to][t0] = [value |-> w.rec, at |-> now]
      /\ \A m \in Node, t \in Target :
           m # w.to \/ t # t0 => store'[m][t] \in {store[m][t], Absent}
  BY HandlePutStores
<1>2. now' = now /\ issued' = issued /\ now \in Nat /\ now # 0
  BY StorageAssumption DEF HandlePut, SInv, HistoryInv, Time
<1> HIDE DEF t0
<1>3. Contract!KeepOrForget({<<w.to, t0>>})
  BY <1>1, <1>2, KeptOrForgotten
<1>4. Held(w.to, t0)' = w.rec
  BY <1>1, <1>2, StorageAssumption DEF Held, Has, Absent
<1> QED
  BY <1>1, <1>2, <1>3, <1>4 DEF Contract!Accept, t0

\* Steps by which nothing is put.
LEMMA ForgetStep ==
  ASSUME SInv, SInv', now' = now \/ now' = now + 1, issued' = issued,
         \A m \in Node, t \in Target : store'[m][t] \in {store[m][t], Absent}
  PROVE  Contract!Next
BY KeptOrForgotten DEF Contract!Next, Contract!Forget

\* Stores hold what arrived last, one target at a time, or have forgotten it.
THEOREM LastPutImplemented == Spec => ImplementsLastPut
<1>1. Init => Contract!Init
  BY DEF Init, Contract!Init, Held, Has, Empty
<1>2. SInv /\ SInv' /\ [Next]_vars => [Contract!Next]_(Contract!vars)
  <2> SUFFICES ASSUME SInv, SInv', [Next]_vars
               PROVE  Contract!Next \/ UNCHANGED Contract!vars
    OBVIOUS
  <2>1. ASSUME NEW n \in Node, NEW t \in Target, NEW salt \in Salts, BeginGet(n, t, salt)
        PROVE  Contract!Next
    <3>1. HandleGet(n, t) /\ now' = now /\ issued' = issued
      BY <2>1 DEF BeginGet, HandleGet
    <3> QED
      BY <3>1, GotKeeps, ForgetStep
  <2>2. ASSUME NEW n \in Node, NEW m \in Node, GetHears(n, m) \/ PutHears(n, m)
        PROVE  Contract!Next
    <3>1. /\ HandleGet(m, op[n].target) /\ now' = now /\ issued' = issued
          /\ op[n] \in Op /\ op[n].kind \in {"get", "put"}
      BY <2>2 DEF GetHears, PutHears, Hears, SInv, OpInv
    <3>2. op[n].target \in Target
      BY <3>1, GetIs, PutIs
    <3> QED
      BY <3>1, <3>2, GotKeeps, ForgetStep
  <2>3. ASSUME NEW n \in Node, NEW r \in Puttable, Write(n, r)
        PROVE  Contract!Next
    <3>1. store' = store /\ now' = now /\ issued' = issued \cup {r}
      BY <2>3 DEF Write
    <3>2. \A m \in Node, t \in Target : Held(m, t)' = Held(m, t)
      BY <3>1 DEF Held, Has
    <3>3. Contract!Issue
      BY <3>1, <3>2 DEF Contract!Issue
    <3> QED
      BY <3>3 DEF Contract!Next
  <2>4. ASSUME NEW n \in Node, Restart(n) PROVE Contract!Next
    BY <2>4, RestartStores, ForgetStep DEF Restart
  <2>5. ASSUME NEW w \in wire, HandlePut(w) PROVE Contract!Next
    <3>1. w.rec \in issued /\ w.to \in Node
      BY DEF SInv, WireInv
    <3> QED
      BY <2>5, <3>1, AcceptStep DEF Contract!Next
  <2>6. CASE Elapse /\ UNCHANGED <<store, op, wire, secret, issued>>
    BY <2>6, ForgetStep DEF Elapse
  <2>7. CASE \/ UNCHANGED vars \/ Renew
             \/ \E n \in Node : NothingFound(n) \/ \E t \in Target : BeginPut(n, t)
    <3>1. store' = store /\ now' = now /\ issued' = issued
      BY <2>7 DEF vars, NothingFound, BeginPut, Renew
    <3> QED
      BY <3>1, ForgetStep
  <2>8. ASSUME NEW n \in Node, NEW k \in Key, NEW x \in Salt, BeginGet(n, <<k, x>>, x)
        PROVE  Contract!Next
    <3>1. x \in Salts /\ <<k, x>> \in Target
      BY DEF Salts, Target
    <3> QED
      BY <2>8, <3>1, <2>1
  <2>9. ASSUME NEW n \in Node, NEW t \in Target, BeginGet(n, t, None)
        PROVE  Contract!Next
    BY <2>9, <2>1 DEF Salts
  <2> QED
    BY <2>2, <2>3, <2>4, <2>5, <2>6, <2>7, <2>8, <2>9 DEF Next
<1> QED
  BY <1>1, <1>2, Inductive, PTL DEF Spec, ImplementsLastPut, Contract!Spec
=============================================================================
