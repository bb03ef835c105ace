# A specification of kadem

kadem is a Kademlia DHT node (BEP 5, with BEP 44 storage) for Node.js.  This
directory models it in TLA+, checks the models with TLC and proves their safety
properties with TLAPS.  Everything is translated from the code in `src/`; where
the code and its comments disagree, the model follows the code and a run shows
the disagreement.  Below, paths are relative to the repository.

## The system

| Component | State | Operations | Talks to |
|---|---|---|---|
| Routing table, `src/routing.js` | bucket tree `_root`, `_nodeMap`, the fields of each `Node`, `_isDisposed` | `recordQuery`, `recordResponse`, `recordNoResponse`, `_insertNode`, `_evict`, `_split`, `_ping`, `refresh`, `loadState`, `getState`, `closest`, `dispose` | emits `ping` (with a callback) and `refresh` |
| KRPC socket, `src/krpc.js` | `outstandingTransactions_`, one timer for each | `query`, `transact_`, `handleMessage_`, `dispose` | UDP; emits `query`, `response`, `timeout` |
| DHT node, `src/index.js` | `pendingPings_`, `isBootstrapping_`, refresh timer | `listen`, `ping`, `find_node`, `closest_`, handlers of all those events, `save`, `load`, `dispose` | owns the table, the socket and the extensions |
| Lookup, `closest_` with `src/util.js` | `PQueue` of the nearest, `seen`, `PromiseSelector` | the loop of `closest_`; `announce_peer`, `get_peers`, storage `get` and `put` on top | `KRPCSocket.query`, `RoutingTable.closest` |
| Tracker, `src/index.js` and `src/token-store.js` | an LRU of peer sets, the write-token secret | `handleGetPeers_`, `handleAnnouncePeer_`, `getWriteToken`, `verifyToken` | the socket's `query` event |
| Storage, `src/storage.js` | an LRU of values | `get`, `put`, `handleGetQuery_`, `handlePutQuery_` | `closest_`, the socket's `query` event |
| Secure ids, pub/sub | none | one pure function; a stub | nothing |

All of it runs on one event loop.  A turn (a packet, a timer, a call) runs to
completion, promise continuations run before the next turn, and so state can
change under a piece of code in three ways only: across an `await`, during an
`emit` whose listeners call back into the emitter, and by packets that are lost,
late, repeated or out of order.  These are what is hard here:

* `_insertNode` picks a bucket and a list of contacts, awaits their pings and then
  evicts; queries, responses, timeouts, other insertions and `dispose` run in
  between.  Correct means: buckets keep their size, the map and the tree agree, only
  an unresponsive contact is evicted, and a disposed table stays empty.
* The KRPC socket emits `response` *before* it removes the transaction; the listener
  records the node, which may insert it, which may ping another, which is a new query.
  Correct means: each promise settles exactly once, the table hears of each query at
  most once, and no timer touches another query's entry.
* `DHT.ping` shares one promise between all that ping the same address.  Correct
  means: no insertion waits for a ping that nobody sent, and the callback tells the
  table what happened.
* A lookup takes answers in any order, with ties in distance, and a list may name a node
  twice.  Correct means: it ends, with the nearest of all nodes it learned of.
* `listen` pings the bootstrap nodes at once and starts its lookup from whatever the
  table holds by then.  Correct means: it settles, silent nodes or not, and none of the
  nodes it knew is left out.
* The tracker and the storage answer from a cache that forgets, with tokens that must
  be good from the lookup that collects them to the write that uses them.  Put packets
  come late, twice, altered or after another.  Correct means: only what was put is
  stored or returned, what is written is accepted, and what is stored is found.

`PROJECT.json` lists these hazards at their lines, each with the properties that
cover it or a note why none does yet.

## The modules

| Module | Models | Notes |
|---|---|---|
| `RoutingTable` | `src/routing.js` | the detailed model of the table |
| `Contacts` | | what the table promises of the nodes it is told about; `RoutingTable` implements it |
| `KRPC` | query side of `src/krpc.js` | |
| `QueryPromise` | | what `KRPC` promises its callers; `KRPC` implements it |
| `BucketPing` | `ping`, `handleBucketPing_` and the event wiring of `src/index.js` | extends `RoutingTable` |
| `Lookup` | `closest_`, `announce_peer`, `src/util.js` | takes from `KRPC` that queries settle |
| `Listen` | `listen` and `load` of `src/index.js`, `closest` of the table | extends `Lookup` |
| `TokenStore` | `src/token-store.js` and the `lru-cache` behind it | operators on a cache, no specification of its own |
| `Tracker` | `handleGetPeers_`, `handleAnnouncePeer_` of `src/index.js` | extends `TokenStore` |
| `PeerSets` | | what the tracker promises; `Tracker` implements it |
| `Storage` | `src/storage.js`, in several nodes | instantiates `TokenStore` |
| `LastPut` | | what becomes of the stores of all nodes; `Storage` implements it |
| `RoutingTableProofs`, `TableMapProofs`, `ContactsProofs`, `KRPCProofs`, `BucketPingProofs`, `LookupProofs`, `TrackerProofs`, `StorageProofs` | | theorems about each |
| `MC...` | | the instances TLC checks |

**RoutingTable.**  A turn that calls `_insertNode` is a sequence of steps, one per
iteration of its loops (`AddContact`, `Walk`, `BeginSplit`, `MoveContact`, `EndSplit`,
`ReplaceBad`, `StartPings`, `Discard`), on the task of the `Node` object being
inserted; no other turn starts until the task returns or awaits (`Turn`).  The end
of an await is `PingAnswered` (the callback says true), `PingFailed` (it says
false) or `PingTimedOut` (the table's own timer).  The three `record` methods,
`LoadEntry`, `EndLoad` and `Dispose` are the entry points.

`Contacts` is the abstract view: each `Node` object is new, in the table or gone, and
the table open or closed.  A node is in when a bucket holds it; it is gone when its
insertion is done and no bucket does.  The move of a contact between buckets is a
stutter, and a replacement is one `Exchange`, of whichever contact `splice` takes out.

The code compares 20-byte Buffers with `<` and `<=`.  JavaScript does that on their
UTF-8 decodings, in which bytes of 0x80 and above that belong to no valid sequence
become U+FFFD each, and those that do become a character that may be less or more than
it: EF BF BE is U+FFFE.  An id is its first byte and a byte for the rest, over a small byte
range, and what it decodes to is the constant `Decoded`, of which `DecodingAssumption` says
only that bytes of the lower half decode to themselves and that a first byte of the upper
half decodes to none of the lower.  So an id may decode to more than the
maximum of the root, and `PlacedInTextRange` says of such a one that it is in a bucket at
the end.  `mid` works byte by byte and every bound it computes repeats one byte, so a bucket
is a pair of bytes, and a bound above 0x7F decodes to U+FFFDs.  Addresses and tokens are
left out, and `isBad`, `isGood` use a clock of ticks.

**KRPC.**  `Register` draws an id that is not outstanding and sets the entry and
the timer; `Query` sends, `QueryThrows` fails in the send.  `EmitResponse` and
`FinishResponse` are the two halves of handling a reply, with `emitting` in
between, when only listeners run; likewise for a timeout.  `wire` never forgets a
reply, so a reply is handled late, twice or never.

**BucketPing.**  `pending` is `pendingPings_`, and `due` the promise results whose
continuations have not run.  `Quiet` says that there are none, so that a turn may
start: the microtasks of a turn come before the next turn.  `UserPings` is a call of
`DHT.ping` by `listen` or the user: it shares `pending` with the table, so that an insertion may join it; where it finds a ping to
join itself, nothing changes.  Each id has one address, and the node starts without a save
file.

**Lookup.**  One step settles any outstanding query and runs the loop body,
because `Promise.race` may yield any settled query.  Lists of nodes that peers answer with
are arbitrary (short) sequences, which may name a node twice; the first list is the
table's, which cannot (`NamesOnce`).  Distances are a constant in which nodes may tie, as
they do in `distance`, which accumulates 160 bits in a double.

A node that one list names twice is asked twice, since `seen` is read for the whole list
before it is written, and its two answers take two of the K places of the queue; another
node is left out for good.  This is at odds with `src/index.js:523`, "write to the K closest",
and no property hides it: the history variable `twice` holds those nodes, and
`NearestUnlessTwice` says that the queue has the nearest of what was pushed and, but for the
nodes in `twice`, each in one place.

**Listen.**  Each bootstrap ping ends as `BootstrapAnswers` or `BootstrapSilent`, in any
order; `HearsQuery` is another node's query, which fills the table as well.
`LookupOwnId` runs after the last ping (`Promise.all`), on a list that satisfies
`ClosestOf`, the K nearest of the table in order.  Of the table this module keeps the
set of its nodes: the first K are taken, and what becomes of one more is left open.
`OtherLookup` keeps every lookup of `Lookup` a behaviour, so that one run checks both.

**TokenStore.**  An entry is a value and the time it was set.  `Has` and `Got` are
`get`, which drops an entry past its lifetime and renews none; `Sets` gives the caches
`set` may leave, where any entry stands for the least recently used one.  A token is
what is hashed: the target and the address.  The secret is there, and not in it, although
`src/token-store.js:11-14` says that tokens up to ten minutes old are accepted and `:20` calls
the secret "used to compute the tokens".  Every token is good for ever, and can be computed
without asking for it; so no property is stated about who may announce.

**Tracker.**  One node.  The peers of a target are a `Set` in the cache, changed in
place, so `Add` keeps the time of the entry.  Others ask and announce with the token of any
target and address, asked for or not, and with none.  `AnnounceThrows` is an announcement
of a port that cannot be encoded: the new `Set` is in the cache by then, and stays empty.
`Restart` forgets the cache and draws a secret.

**Storage.**  All nodes run this code and talk to each other.  `BeginGet` reads the own
store; `GetHears` takes one answer, which may have been altered on the way, through the
validator `Valid`.  `PutHears` collects tokens, `Write` makes the record and sends it to
those that gave one, and `HandlePut` is the arrival of a packet that stays on the wire,
with a field altered or not.  A hash is what it is the hash of and a signature what it
signs, so that who computes it over what, and with which salt, is all in the model.
Lookups are reduced to answers of any nodes in any order, which is what `Lookup` shows.
`LastPut` says what the stores do: one arrival changes one target of one node, and the last
to arrive is held.  That a lower sequence number is refused is `LowerSeqRejected`, which the code
does not keep.  `Renew` is the interval timer of the token store.

Definitions named as variants ("A variant: ...") are a definition with one plausible
slip.  No specification uses them: each shows that a property notices that slip when
it is put in the place of the definition it varies.

## What the runs check

| Run | Instance | Properties |
|---|---|---|
| `overlap` | `MCRoutingTable.cfg`: one contact per bucket, three ids, four `Node` objects, two insertions awaiting pings; one id decodes to the bound between two buckets | `TypeOK`, `Capacity`, `CapturedBucketStillFullLeaf`, `DisposedStaysEmpty`, `PlacedInTextRange`, `LowPlacedInRange`, `ImplementsContacts` |
| `serial` | `MCRoutingTableSerial.cfg`: two contacts per bucket, one insertion at a time, a clock that ticks, saved timestamps; one id decodes to more than every bound | `PlacedInTextRange`, `MapMatchesBuckets`, `OnlyUnresponsiveEvicted`, `InsertionAdvances` |
| `krpc` | `MCKRPC.cfg`: three queries, two ids, so that ids are reused | `TypeOK`, `TimerOwnsEntry`, `NoLostPromise`, `OneNoticePerQuery`, `NoLeakedEntry`, `KeepsContract`, `QuerySettles`, `EntriesAreFreed` |
| `bucket_ping` | `MCBucketPing.cfg`: two contacts per bucket, three ids, four `Node` objects, two insertions awaiting pings, pings of the user | `DHTTypeOK`, `NoLostPing`, `InsertionSettles` |
| `lookup` | `MCLookup.cfg`: four nodes, two at the same distance, one whose answer ends the lookup with a value, a queue of two, two bootstrap nodes | `TypeOK`, `ClosestAreNearest`, `NearestLearnedFound`, `WritesToNearest`, `NearestKnownFound`, `LookupAdvances`, `LookupEnds`, `ListenSettles` |
| `tracker` | `MCTracker.cfg`: two targets in a cache of one, two addresses, two secrets, a lifetime of one tick in four | `TrackerTypeOK`, `PeersAreRecent`, `ImplementsPeerSets` |
| `storage` | `MCStorage.cfg`: two nodes, a key with and without a salt, two sequence numbers, two values, two secrets, caches of one, entries that expire | `TypeOK`, `StoredWasPut`, `ResultWasPut`, `WritesAreAccepted`, `StoredIsFound`, `ImplementsLastPut` |

Five runs end in a violation, each a disagreement of the code with its comments or tests:

| Run | The code | The comment or test |
|---|---|---|
| `overlap_evicts_other` | two insertions that await a ping of the same contact: the second one's `_evict` splices at `indexOf` = -1 and removes the node the first just inserted, which stays in `_nodeMap` | `src/routing.js:337` "evict this node and insert the new one" |
| `bucket_range` | a contact in a bucket whose bounds do not enclose its id as a number | `src/routing.js:55-56` "The minimum node id of this bucket" |
| `answering_contact` | `handleBucketPing_` passes `!!res.error`: contacts that answer are evicted, silent ones refreshed | `src/index.js:319` "Callback to whether the ping succeeded or not" |
| `lookup_silent_node` | one query that times out makes the lookup throw | `src/index.js:278` "will block waiting for a response or timeout" |
| `lower_seq` | a node that holds a record replaces it by one of a lower sequence number, which an earlier put sent and which arrives late | `test/storage.js:118` "Will reject mutable data that is has a lower sequence number." (a test without a body) |

Three more were met and have no run, as a model of them shows no more than the line does:

* the secret that enters no token (above, **TokenStore**);
* the validator of `get` takes the salt from its caller only (`src/storage.js:365`), so that a salted
  record is refused by a `get` of the hash that `put` returned, which `:69-70` offers;
* a node that a list names twice fills two places of the queue (above, **Lookup**).

### Bounds

The constants that bound a model and not the code are named in the module:
`MaxTime`, `MaxFailed`, `MaxOverlap` and `MaxPuts`, and the sets of objects, queries and
ids.

* With the code's order nearly all ids go to the left child, so buckets overflow
  soon: with one contact per bucket and three byte values two insertions wait for
  the same contact after three `Node` objects, and a fourth is inserted meanwhile.
  Two of them may evict the same contact, which is the interesting overlap.  The id that
  decodes to the bound is on one side of it when a bucket splits and on the other when an
  insertion walks by, which needs the emptied root to fill again: the fourth object.
* In `serial` three of four ids go left into a bucket of two, which overflows; the fourth
  goes right.  No walk fits into its three objects: that is for `overlap`.
* `bucket_ping` is about pings, so its local id decodes to more than the root's maximum and
  the root does not split: two contacts fill it, and the other two insertions await pings of
  the same contact or of different ones, join each other's or the user's, and ask for a new
  one as one settles.  Objects are created in the order of their number, and the ids of the one
  bucket first appear in theirs (`InOrderSpec`): they differ in nothing else, so this stands for
  every order, and unlike a symmetry set it may be used with liveness.  Time passes once, while
  two insertions await pings, so that a contact heard of before is asked again.
  `InsertionSettles` says that again and again no insertion is under way, one temporal formula in
  place of one for each object: with finitely many objects that is the same.
* `bucket_range` uses four byte values, which let the tree split twice, and includes
  ids whose bytes decode to an order that is not theirs as numbers.
* `MaxFailed` = `SilenceBeforeBad` = 1 makes one silence enough to be bad; a longer
  count adds only states in between.
* Two transaction ids for three queries force reuse of ids, by queries whose
  predecessors have late replies on the wire.
* Four nodes, a tie and a queue of two let a list hold nodes that are nearer, farther
  and as far as the furthest; lists hold up to two nodes and may repeat one.  The two
  bootstrap nodes are the nearest and the farthest.
* A cache of one entry is full at once, so that each further target evicts; a lifetime
  of one tick in a clock of four lets an entry be set, added to, expire and be set again.
* Two nodes are all that a put, the arrival of its packet and a get involve.  Two records
  may be put, so that one replaces another of the same key, with the same sequence number, a
  higher or a lower one, and a late packet comes after both.
* `MCStorage.tla` has two constraints on `storage`, with their reasons: one `get` or `put` is under
  way at a time (`OneBusy`), for those of two nodes meet only in stores and packets; and a `get`
  that has returned is checked but not followed (`NoneReturned`), as its node goes on like an idle one.

`Node` objects are interchangeable, and so are nodes, values and secrets in `storage`; their
symmetry is used where no liveness is checked.  Runs do not check deadlock: every one of these programs may
come to rest.

### Fairness

Weak fairness of the steps of a turn (a turn that has started runs to its end),
and of the step by which an armed timer fires.  In `krpc` that is the socket's
two-second timer.  In `bucket_ping` it is the same one, as strong fairness of
`PingExpires`, since the timer's turn is put off while other turns run; the table's
own five-second timer is left out there, so the run shows that an insertion ends
even without it.  For a lookup and for the bootstrap pings, weak fairness says that
each outstanding query settles one way or the other, which is what `krpc` shows.
Nothing is assumed of peers, packets, or the order of turns.

## What is proved

Everything in this section holds for every value of the constants that satisfies the
`ASSUME` of the module, and is checked by TLAPS to the last step.

**RoutingTableProofs**: `TypeOK`, `Capacity`, `CapturedBucketStillFullLeaf`,
`PlacedInTextRange`, `LowPlacedInRange`, `DisposedStaysEmpty` and `InsertionAdvances`,
for every `Decoded` that `DecodingAssumption` admits.  None of them is inductive alone.  The inductive invariant `IInv` adds:

* `TreeInv`: split buckets can be split, and an unsplit bucket of the tree encloses or
  is apart from none but the buckets below and beside it, so that a split never
  overwrites a bucket in use;
* `StackInv`: only one insertion is on the stack, at a bucket of the tree, and one that
  awaits has a contact to ping;
* `SplitInv`: while contacts are being moved, the bucket being split and its two
  children together hold no more than K, and no insertion holds a child;
* `WaitInv`: an insertion that awaits a ping holds a full leaf which can never be split.
  It stays full because a leaf loses a contact only in the step in which it gains
  another, also when `_evict` splices at -1;
* `PlaceInv`: contacts, and insertions at their bucket, are within its bounds in the
  code's order;
* `DisposeInv`: `dispose` finds no insertion on the stack, and leaves nothing behind.

There is one lemma per action, and under it one step per part of `IInv` the action
can disturb.  The bounds of `overlap` and `serial` are also enough for TLC to check `IInv` itself.

`LowPlacedInRange` delimits what `bucket_range` shows: an id whose first byte is below
0x80 is within the bounds of its bucket as a number, whatever its other bytes decode to.

`InsertionAdvances` is what a termination argument needs and TLAPS can say: with any
number of overlapping insertions, each step of one that does not end it lowers its
`Rank`, the width of its bucket and then what is left to move or to ping there, and a
step of another leaves an insertion that awaits a ping as it was.  Ranks are pairs of
natural numbers, so that no insertion takes steps for ever.

**ContactsProofs**: `RoutingTable` implements `Contacts`, for any number of overlapping
insertions.  This is what is left of `OnlyUnresponsiveEvicted` and `MapMatchesBuckets`
when insertions overlap: a second eviction may take out the wrong contact, but it takes
out exactly one for the one that it adds, no contact is in two places (`Once`), and no
node that was refused, evicted or left in a disposed table comes back.  The invariant
`IInv /\ CInv` does not mention `_nodeMap`, which does get out of step.  `Take`, `Refuse`,
`Exchange` and `Close` each have a lemma that says what a step must do to the buckets and
tasks to be one of them, and each action of the table has one that puts it under those.

**TableMapProofs**: `MapMatchesBuckets` and `OnlyUnresponsiveEvicted`, from the assumption
`MaxOverlap <= 1`: with overlapping insertions the second fails (run `overlap_evicts_other`),
and two nodes with the same id can be inserted.  `IInv /\ MInv` is inductive.  `MInv` says that one
insertion at a time is under way, of an id that `_nodeMap` does not hold (`SerialInv`), that
the buckets outside the tree are empty, so that what `_split` clears held nothing
(`OffTreeInv`), that the contacts still to be pinged are in the bucket the insertion holds,
so that `_evict` finds the one it looks for (`ListInv`), and that map and buckets hold the
same nodes (`MapInv`).  The action property is proved of the same steps.

**BucketPingProofs**: `DHTSpec` implements the `Spec` of `RoutingTable`
(`TableWithin`), so that all of the above holds of the table of a node, stated as
`NodeKeepsTable` and `NodeImplementsContacts`; `DHTTypeOK`; and `NoLostPing`.  `IInv /\ NInv` is inductive, where `NInv` adds to `NoLostPing` that the
contacts on an insertion's list have been given their ids (`IdsInv`): an id does not change
afterwards, so that the ping an insertion joined stays the ping of its contact.

**KRPCProofs**, with and without a timeout: `TypeOK`, `TimerOwnsEntry`, `NoLostPromise`,
`NoLeakedEntry`, `OneNoticePerQuery` (an action property) and `KeepsContract`: `KRPC`
implements `QueryPromise`, with the same `promise` and `notice`.  `NoLeakedEntry` is stronger
than what `NoLostPromise` needs: also an entry that nobody awaits, after a send that
threw, has its timer, which will free its id.
Its inductive invariant `KInv` says that a call named by an entry drew that id and has not
resolved (`EntryInv`), that a call with a timer, or whose event is being emitted, is
registered (`TimerInv`, `EmitInv`), and, what makes the rest inductive, that a call
whose listeners have returned has neither entry nor timer (`NoticeInv`).  The refinement
maps a query to `Begin`, an event to `Notify`, the end of a response to `Resolve`, and an
error reply, the end of a timeout and `dispose` to `Reject`; a query whose send threw has
already rejected, and what follows for it is a stutter.

**LookupProofs**, for any nodes, distances with any ties, any K and any lists: `TypeOK`,
`ClosestAreNearest`, `NearestLearnedFound`, `WritesToNearest`, `NearestKnownFound` and
`LookupAdvances`.  The last is the safety half of `LookupEnds`: `seen` only grows, a node in
it is not asked again, and a round that asks nobody new settles one query.
The inductive invariant `LInv` says that the queues hold the nearest of what was pushed
(`QueueInv`), that every node queried has answered or is still asked (`SeenInv`), and
that a node named but not queried is no nearer than the furthest in the queue (`FarInv`),
which only comes nearer.  At the end nobody is being asked (`EndInv`), and the nodes left
out are not needed.  `OnceInv` says that a node not in `twice` is asked at most once and not
after it has answered, so that it has one place (`OnePlaceEach`).  `ListenLooksUp` carries this over to `ListenSpec`, where a node of
the table that the lookup did not start from has K nodes no farther that it did
(`FirstInv`); that these cannot all be nearer than the last of K entries is the
pigeonhole step `NotAllNearer`.

**TrackerProofs**: `TrackerTypeOK`, `PeersAreRecent`, and that `Tracker` implements
`PeerSets`.  A peer in the cache
announced itself no earlier than its entry was set: the entry's time, which is not
renewed, is a lower bound for all of its peers.  In the refinement an expired entry is an
empty set, so that a tick of the clock is a `Forget`, and an eviction is part of the
`Announce` that caused it.

**StorageProofs**: `TypeOK`, `StoredWasPut`, `ResultWasPut`, `WritesAreAccepted`,
`StoredIsFound`, and that `Storage` implements `LastPut`.  The inductive invariant `SInv`
says that entries are records that were put, under their own target (`StoreInv`), that
packets carry their sender's token for their target (`WireInv`), and that the tokens a
put has collected are its own (`OpInv`).  The heart of it is that whatever is altered in a
packet, what the receiver accepts and keeps is the record that was signed, or a value
that was hashed.

Only model-checked: the liveness properties `InsertionSettles`, `QuerySettles`,
`EntriesAreFreed`, `LookupEnds` and `ListenSettles`, since fairness is out of the prover's
reach.  What they rest on is proved where it is a matter of safety: `InsertionAdvances`,
`LookupAdvances`, `NoLostPromise`, `NoLeakedEntry` and `NoLostPing`.  That the ranks they
use admit no infinite descent is not formal: induction over data is out of reach as
well.  The violations are found by TLC.

## What is not modelled

* `refresh` and `getState` of the routing table, which read it and change nothing, and
  the addresses and tokens of its nodes.  The timer that calls `refresh` starts lookups
  of random ids, and these are `OtherLookup`.
* The file `save` writes: it is read by another process, and a loaded node starts from
  any set of nodes (`Listen`) or inserts any sequence of them (`RoutingTable`).
* The answers of the socket to queries, which change none of its state, and malformed
  packets, which throw out of the handler.  A query to an array of peers is one query for
  each.
* The size of packets, and so the unbounded set of peers under one target.
* `distance` and `rand_on_range` bit by bit, the compact encodings, secure node ids (pure
  functions), the pub/sub stub, and type declarations.

## Plan

Done: `RoutingTable` with `Contacts`, `KRPC` with `QueryPromise`, `BucketPing`, `Lookup`, `Listen`,
`Tracker` with `PeerSets`, `Storage` with `LastPut`, and the proofs of all their safety
properties.  Left, in this order:

1. `Lookup` over the promises of `QueryPromise`, so that its fairness is what `krpc` shows.
2. `getState` then `loadState` of every table a small run can reach, with the
   constructor's ping.
3. Addresses and tokens in the table, and what a contact with an old address means for
   the lookups that get it.
4. `distance` in limited precision, against the metric.
