------------------------------ MODULE TokenStore ------------------------------
(***************************************************************************)
(* src/token-store.js: write tokens, and an LRU cache in which entries     *)
(* expire.  The tracker and BEP 44 storage each keep one.                  *)
(*                                                                         *)
(* The cache is the npm package lru-cache with max and ttl set.  A lookup  *)
(* drops an entry past its ttl and does not renew one that is not; a set   *)
(* beyond max drops another entry: the least recently used one, here any.  *)
(***************************************************************************)
EXTENDS Naturals, FiniteSets

CONSTANTS
  Target,      \* the hashes that entries are stored under
  Address,     \* the addresses of requesters
  Secret,
  MaxEntries,  \* max of the cache
  Ttl,         \* ttl of the cache, in ticks
  None,
  MaxTime      \* the clock stops here (a bound of the model)

ASSUME TokenStoreAssumption ==
  /\ MaxEntries \in Nat /\ MaxEntries >= 1
  /\ Ttl \in Nat /\ MaxTime \in Nat /\ MaxTime >= 1

VARIABLES
  secret,  \* secret_
  now      \* the clock of the cache

Time == 1 .. MaxTime

Store(Value) ==
  [Target -> [value : Value, at : Time] \cup {[value |-> None, at |-> 0]}]

\* A target with no entry.
Absent == [value |-> None, at |-> 0]

Empty == [t \in Target |-> Absent]

\* Whether get() finds an entry: it is there and not past its ttl.
Has(s, t) == s[t] # Absent /\ now <= s[t].at + Ttl

\* The cache after get().
Got(s, t) == IF Has(s, t) THEN s ELSE [s EXCEPT ![t] = Absent]

Others(s, t) == {u \in Target \ {t} : s[u] # Absent}

\* A variant: no time is kept for the entry.
SetsUntimed(s, t, v) ==
  {[u \in Target |-> IF u = t THEN [value |-> v, at |-> 0]
                     ELSE IF u \in out THEN Absent ELSE s[u]] :
     out \in SUBSET Others(s, t)}

\* The caches set() may leave.
Sets(s, t, v) ==
  {[u \in Target |-> IF u = t THEN [value |-> v, at |-> now]
                     ELSE IF u \in out THEN Absent ELSE s[u]] :
     out \in IF Cardinality(Others(s, t)) < MaxEntries
               THEN {{}} ELSE {{u} : u \in Others(s, t)}}

\* A variant: the token is made with the secret.
TokenWithSecret(target, address) == <<target, address, secret>>

\* SHA1 of the target and the address.
getWriteToken(target, address) == <<target, address>>

\* The interval timer: another ten random bytes.
RenewSecret == \E s \in Secret \ {secret} : secret' = s

Elapse == now < MaxTime /\ now' = now + 1
=============================================================================
