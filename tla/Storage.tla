------------------------------- MODULE Storage -------------------------------
(***************************************************************************)
(* BEP 44 storage, src/storage.js, in a network of nodes that all run it:  *)
(* put looks up nodes, collects their write tokens, signs and writes; get  *)
(* looks into its own store, then takes the first valid answer it hears.   *)
(*                                                                         *)
(* A lookup is abstracted to answers of any of the nodes in any order      *)
(* (Lookup.tla).  Put packets stay in wire: they arrive late, again, in    *)
(* another order, or never.  Put packets and answers may be altered on the *)
(* way.  A hash is what it is the hash of, and a signature what it signs.  *)
(***************************************************************************)
EXTENDS Naturals, FiniteSets

CONSTANTS
  Node, Key, Salt, Seq, Val,
  Secret, MaxEntries, Ttl, MaxTime, None,   \* of TokenStore
  MaxPuts     \* records that may be put (a bound of the model)

VARIABLES
  store,   \* store_ of each node
  op,      \* the get or put a node has under way, or what get returned
  wire,    \* put packets
  secret, now,
  issued   \* History: the records that put has signed or hashed

vars == <<store, op, wire, secret, now, issued>>

Salts == Salt \cup {None}

\* sha1(v), and sha1(k + salt).
Target == {<<v>> : v \in Val} \cup (Key \X Salts)

INSTANCE TokenStore WITH Address <- Node

ASSUME StorageAssumption ==
  /\ MaxEntries \in Nat /\ Ttl \in Nat /\ MaxTime \in Nat /\ MaxTime >= 1
  /\ 0 \in Seq
  /\ None \notin Key
  /\ None \notin Key \X Salts \X Seq \X Val

Record == [k : Key \cup {None}, salt : Salts, seq : Seq, v : Val,
           sig : (Key \X Salts \X Seq \X Val) \cup {None}]

Immutable(v) == [k |-> None, salt |-> None, seq |-> 0, v |-> v, sig |-> None]

\* A variant: the salt is left out of what is signed.
SignedWithoutSalt(k, salt, seq, v) ==
  [k |-> k, salt |-> salt, seq |-> seq, v |-> v, sig |-> <<k, None, seq, v>>]

\* A mutable record, with its signature by k.
Mutable(k, salt, seq, v) ==
  [k |-> k, salt |-> salt, seq |-> seq, v |-> v, sig |-> <<k, salt, seq, v>>]

\* What put makes of its arguments.
Puttable == {Immutable(v) : v \in Val}
              \cup {Mutable(k, x, n, v) : k \in Key, x \in Salts, n \in Seq, v \in Val}

\* ed25519.verify of encodeSigData(r, salt).
Verified(r, salt) == r.sig = <<r.k, salt, r.seq, r.v>>

TargetOf(r) == IF r.sig # None THEN <<r.k, r.salt>> ELSE <<r.v>>

\* What may arrive of r: r itself, or r with one of its fields changed.
Altered(r) ==
  {[r EXCEPT !.v = v] : v \in Val} \cup {[r EXCEPT !.seq = n] : n \in Seq}
    \cup {[r EXCEPT !.salt = x] : x \in Salts} \cup {[r EXCEPT !.sig = None]}

Idle == [kind |-> "idle"]

Init ==
  /\ store = [n \in Node |-> Empty]
  /\ op = [n \in Node |-> Idle]
  /\ wire = {}
  /\ secret \in Secret
  /\ now = 1
  /\ issued = {}

-----------------------------------------------------------------------------
(* Answering.                                                              *)

Held(m, t) == IF Has(store[m], t) THEN store[m][t].value ELSE None

\* handleGetQuery_ of m, which answers with Held(m, t) and a token.
HandleGet(m, t) == store' = [store EXCEPT ![m] = Got(@, t)]

\* A variant: the signature is not checked.
AcceptsByToken(w) == w.token = getWriteToken(TargetOf(w.rec), w.from)

\* handlePutQuery_ lets a packet pass: its token is checked first, then the
\* signature of a mutable record.
Accepts(w) ==
  /\ w.token = getWriteToken(TargetOf(w.rec), w.from)
  /\ w.rec.sig # None => Verified(w.rec, w.rec.salt)

\* Of an immutable record only the value is kept.
Kept(r) == IF r.sig # None THEN r ELSE Immutable(r.v)

\* A packet that does not pass throws, and is not answered.
HandlePut(w) ==
  /\ \E r \in Altered(w.rec) :
       /\ Accepts([w EXCEPT !.rec = r])
       /\ \E s \in Sets(store[w.to], TargetOf(r), Kept(r)) :
            store' = [store EXCEPT ![w.to] = s]
  /\ UNCHANGED <<op, wire, secret, now, issued>>

-----------------------------------------------------------------------------
(* get.                                                                    *)

\* Variants: a mutable record is not verified; its salt does not count.
ValidUnverified(r, t, salt) ==
  IF r.sig # None THEN t = <<r.k, salt>> ELSE t = <<r.v>>
ValidUnsalted(r, t, salt) ==
  IF r.sig # None THEN Verified(r, salt) /\ t = <<r.k, None>> ELSE t = <<r.v>>

\* GetResponseValidator(target, salt).
Valid(r, t, salt) ==
  IF r.k # None \/ r.sig # None
    THEN /\ r.sig # None /\ r.k # None
         /\ Verified(r, IF salt # None THEN salt ELSE r.salt)
         /\ t = <<r.k, salt>>
    ELSE t = <<r.v>>

Return(n, t, r) ==
  op' = [op EXCEPT ![n] = [kind |-> "got", target |-> t, rec |-> r]]

Ready(n) == op[n].kind \in {"idle", "got"}

\* The target is given as a hash, or as a key and a salt.
BeginGet(n, t, salt) ==
  /\ Ready(n)
  /\ store' = [store EXCEPT ![n] = Got(@, t)]
  /\ IF Has(store[n], t)
       THEN Return(n, t, Held(n, t))
       ELSE op' = [op EXCEPT ![n] = [kind |-> "get", target |-> t,
                                     salt |-> salt, heard |-> {}]]
  /\ UNCHANGED <<wire, secret, now, issued>>

Hears(n, m, kind) ==
  /\ m # n /\ op[n].kind = kind /\ m \notin op[n].heard
  /\ HandleGet(m, op[n].target)

Answers(m, t) ==
  IF Held(m, t) = None THEN {None} ELSE Altered(Held(m, t))

\* The first valid answer ends the lookup.
GetHears(n, m) ==
  /\ Hears(n, m, "get")
  /\ \E r \in Answers(m, op[n].target) :
       IF r # None /\ Valid(r, op[n].target, op[n].salt)
         THEN Return(n, op[n].target, r)
         ELSE op' = [op EXCEPT ![n].heard = @ \cup {m}]
  /\ UNCHANGED <<wire, secret, now, issued>>

-----------------------------------------------------------------------------
(* put.                                                                    *)

BeginPut(n, t) ==
  /\ Ready(n)
  /\ op' = [op EXCEPT ![n] = [kind |-> "put", target |-> t, heard |-> {},
                              tokens |-> {}]]
  /\ UNCHANGED <<store, wire, secret, now, issued>>

PutHears(n, m) ==
  /\ Hears(n, m, "put")
  /\ LET t == op[n].target
         token == <<m, getWriteToken(t, n)>>
     IN  op' = [op EXCEPT ![n] = [kind |-> "put", target |-> t,
                                  heard |-> @.heard \cup {m},
                                  tokens |-> @.tokens \cup {token}]]
  /\ UNCHANGED <<wire, secret, now, issued>>

\* A variant: the writer keeps a copy at once.
WriteKeepsCopy(n, r) ==
  /\ op[n].kind = "put" /\ TargetOf(r) = op[n].target
  /\ r \in issued \/ Cardinality(issued) < MaxPuts
  /\ issued' = issued \cup {r}
  /\ op' = [op EXCEPT ![n] = Idle]
  /\ \E s \in Sets(store[n], TargetOf(r), r) : store' = [store EXCEPT ![n] = s]
  /\ UNCHANGED <<wire, secret, now>>

\* The record is made once the lookup is over, whatever it found stored.
Write(n, r) ==
  /\ op[n].kind = "put" /\ TargetOf(r) = op[n].target
  /\ r \in issued \/ Cardinality(issued) < MaxPuts
  /\ issued' = issued \cup {r}
  /\ wire' = wire \cup {[from |-> n, to |-> w[1], token |-> w[2], rec |-> r] :
                          w \in op[n].tokens}
  /\ op' = [op EXCEPT ![n] = Idle]
  /\ UNCHANGED <<store, secret, now>>

\* get has found no value, or the lookup of either threw.
NothingFound(n) ==
  /\ op[n].kind \in {"get", "put"}
  /\ op' = [op EXCEPT ![n] = Idle]
  /\ UNCHANGED <<store, wire, secret, now, issued>>

-----------------------------------------------------------------------------
\* The interval timer of token-store.js.
Renew == RenewSecret /\ UNCHANGED <<store, op, wire, now, issued>>

Restart(n) ==
  /\ store' = [store EXCEPT ![n] = Empty]
  /\ op' = [op EXCEPT ![n] = Idle]
  /\ secret' \in Secret
  /\ UNCHANGED <<wire, now, issued>>

Next ==
  \/ \E n \in Node :
       \/ \E t \in Target : BeginGet(n, t, None) \/ BeginPut(n, t)
       \/ \E k \in Key, x \in Salt : BeginGet(n, <<k, x>>, x)
       \/ \E m \in Node : GetHears(n, m) \/ PutHears(n, m)
       \/ NothingFound(n)
       \/ \E r \in Puttable : Write(n, r)
       \/ Restart(n)
  \/ \E w \in wire : HandlePut(w)
  \/ Elapse /\ UNCHANGED <<store, op, wire, secret, issued>>
  \/ Renew

Spec == Init /\ [][Next]_vars
-----------------------------------------------------------------------------
(* Properties.                                                             *)

Op == {Idle}
  \cup [kind : {"get"}, target : Target, salt : Salts, heard : SUBSET Node]
  \cup [kind : {"got"}, target : Target, rec : Record]
  \cup [kind : {"put"}, target : Target, heard : SUBSET Node,
        tokens : SUBSET (Node \X (Target \X Node))]

TypeOK ==
  /\ store \in [Node -> Store(Record)]
  /\ op \in [Node -> Op]
  /\ wire \subseteq [from : Node, to : Node, token : Target \X Node,
                     rec : Puttable]
  /\ secret \in Secret
  /\ now \in Time
  /\ issued \subseteq Puttable

\* Whatever is altered on the way, a node stores nothing under a target but a
\* record somebody put there.
StoredWasPut ==
  \A m \in Node, t \in Target :
    Held(m, t) # None => Held(m, t) \in issued /\ TargetOf(Held(m, t)) = t

\* Whatever is altered in the answers, get returns what somebody put under
\* that target.  (Other fields of an immutable answer, and its salt where get
\* was given one, are returned unchecked.)
ResultWasPut ==
  \A n \in Node : op[n].kind = "got" =>
    LET a == op[n].rec IN
    \E r \in issued : /\ TargetOf(r) = op[n].target
                      /\ r.v = a.v /\ r.sig = a.sig
                      /\ r.sig # None => r.seq = a.seq

\* The packets of a put are accepted by the nodes they are for whenever they
\* arrive, also after those have renewed their secret or restarted: both ends
\* agree on the target, the token and what is signed.
WritesAreAccepted ==
  \A w \in wire : Accepts(w)

\* What a node stores is found by its key and salt, or by its hash if
\* immutable: the validator of get lets pass what handlePutQuery_ let pass.
StoredIsFound ==
  \A m \in Node, t \in Target :
    Held(m, t) # None => Valid(Held(m, t), t, Held(m, t).salt)

\* A node "will reject mutable data that is has a lower sequence number"
\* (test/storage.js:118): while it holds a record, no older one takes its
\* place.  handlePutQuery_ looks the record up and compares nothing ("todo
\* verify seq and cas"), so an older put that arrives late wins.
LowerSeqRejected ==
  [][\A m \in Node, t \in Target :
       Held(m, t) # None /\ Held(m, t)' # None
         => Held(m, t)'.seq >= Held(m, t).seq]_vars

\* The stores implement LastPut: they change by the arrival of what somebody
\* put, one target at a time, and by forgetting, in no other way.  It says what
\* handlePutQuery_ does: that a lower sequence number is refused is
\* LowerSeqRejected, which does not hold.
Contract == INSTANCE LastPut WITH
  Record <- Puttable,
  held <- [m \in Node |-> [t \in Target |-> Held(m, t)]]
ImplementsLastPut == Contract!Spec
=============================================================================
