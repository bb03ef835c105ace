---------------------------- MODULE RoutingTable ----------------------------
(***************************************************************************)
(* The k-bucket routing table of src/routing.js: the bucket tree, the id   *)
(* map, the asynchronous eviction in _insertNode, save-file loading and    *)
(* disposal.                                                               *)
(*                                                                         *)
(* JavaScript runs one turn of the event loop to completion.  A turn that  *)
(* calls _insertNode is a sequence of steps here, one per loop iteration,  *)
(* and no other turn starts before it reaches a return or an await (Idle). *)
(* The await in _insertNode is the only place where turns interleave.      *)
(*                                                                         *)
(* Ids and bucket bounds are 20-byte Buffers.  The code compares them with *)
(* < and <=, which compares the UTF-8 decodings of the two Buffers.  Every *)
(* bound the code computes repeats one byte, so a bucket is a pair of      *)
(* bytes, and no two buckets of a tree have the same pair.  A bound of the *)
(* upper half of 0..Base-1 (bytes from 0x80) decodes to U+FFFD throughout. *)
(* What matters of an id among such bounds is its first byte and the first *)
(* byte that differs from it, and the same of the characters it decodes to.*)
(***************************************************************************)
EXTENDS Integers, Sequences, FiniteSets, SequencesExt

CONSTANTS
  Obj,              \* the Node objects the process may allocate
  Id,               \* the ids peers present
  localId,          \* this node's id
  Base,             \* the number of byte values
  Decoded,          \* the characters that ids decode to, by rank
  K,                \* contacts per bucket
  GoodnessTimeout,  \* GOODNESS_TIMEOUT, in ticks
  SilenceBeforeBad, \* SILENCE_BEFORE_BAD
  Boot,             \* the clock when the table is created
  SavedTime,        \* timestamps a save file may hold (0 is null)
  None,
  \* Bounds of the model, not of the code:
  MaxTime,          \* the clock stops here
  MaxFailed,        \* failedResponses saturates here
  MaxOverlap        \* insertions that may await a ping at the same time

Byte == 0 .. Base - 1

ASSUME ConstantsAssumption ==
  /\ Base \in Nat /\ Base >= 2
  /\ Id \subseteq Byte \X Byte
  /\ localId \in Byte \X Byte
  /\ K \in Nat /\ K >= 1
  /\ GoodnessTimeout \in Nat
  /\ SilenceBeforeBad \in Nat
  /\ Boot \in Nat /\ MaxTime \in Nat /\ Boot <= MaxTime
  /\ SavedTime \subseteq 0 .. Boot
  /\ MaxFailed \in Nat /\ SilenceBeforeBad <= MaxFailed
  /\ MaxOverlap \in Nat
  /\ None \notin Obj
  /\ None \notin Byte \X Byte

\* A byte of the lower half is a character.  A byte of the upper half is part
\* of a character of higher rank: of a valid sequence, or the replacement
\* character U+FFFD, whose rank is Base.  What follows such a byte may have
\* any rank, and one below 0 if nothing follows: a text shorter than a bound
\* it agrees with is less than that.
ASSUME DecodingAssumption ==
  /\ Decoded \in [Byte \X Byte -> Int \X Int]
  /\ \A i \in Byte \X Byte :
       /\ i[1] < Base \div 2 =>
            /\ Decoded[i][1] = i[1]
            /\ i[2] < Base \div 2 => Decoded[i][2] = i[2]
            /\ i[2] >= Base \div 2 => Decoded[i][2] >= Base \div 2
       /\ i[1] >= Base \div 2 => Decoded[i][1] >= Base \div 2

VARIABLES
  contacts,     \* Bucket.contacts, the array of each bucket
  split,        \* the buckets whose left and right are set
  lastChanged,  \* Bucket.lastChanged
  nodeMap,      \* _nodeMap: id -> Node object
  node,         \* the fields of each Node object
  task,         \* the _insertNode call of each Node object: its locals
  loading,      \* the constructor's loadState has not returned yet
  disposed,     \* _isDisposed
  now           \* Date.now()

vars == <<contacts, split, lastChanged, nodeMap, node, task, loading,
          disposed, now>>

-----------------------------------------------------------------------------
(* Ids, buckets and their order.                                           *)

Bucket == {b \in [min : Byte, max : Byte] : b.min <= b.max}

Root == [min |-> 0, max |-> Base - 1]

(* Variants named for a mistake, such as this one, are the definitions that *)
(* follow them with one plausible slip; no behaviour of Spec uses them.     *)
MidNotHalved(b) == b.min + (b.max + 1 - b.min)

\* mid(): byte by byte, rounded down as it is stored into a Uint8Array.
Mid(b) == b.min + (b.max + 1 - b.min) \div 2

Left(b)  == [min |-> b.min, max |-> Mid(b)]
Right(b) == [min |-> Mid(b), max |-> b.max]

\* The rank of the character that a repeated byte decodes to.
Char(byte) == IF byte < Base \div 2 THEN byte ELSE Base

Text(id)    == Decoded[id]
Bound(byte) == <<Char(byte), Char(byte)>>

Less(s, t)   == s[1] < t[1] \/ (s[1] = t[1] /\ s[2] < t[2])
AtMost(s, t) == s = t \/ Less(s, t)

ContainsLocal(b) ==
  AtMost(Bound(b.min), Text(localId)) /\ Less(Text(localId), Bound(b.max))

Splittable(b) == Mid(b) # b.min /\ Mid(b) # b.max

-----------------------------------------------------------------------------
(* Node objects and insertion tasks.                                       *)

Time == 0 .. MaxTime      \* 0 stands for null

NodeRecord == [id : Id \cup {None}, lastResponse : Time, lastQuery : Time,
               failed : 0 .. MaxFailed]

Blank == [id |-> None, lastResponse |-> 0, lastQuery |-> 0, failed |-> 0]

IsBad(o) == node[o].failed >= SilenceBeforeBad

IsGood(o) ==
  /\ node[o].lastResponse # 0
  /\ ~IsBad(o)
  /\ \/ node[o].lastResponse >= now - GoodnessTimeout
     \/ node[o].lastQuery # 0 /\ node[o].lastQuery >= now - GoodnessTimeout

Bumped(n) == IF n < MaxFailed THEN n + 1 ELSE n

\* new: not allocated.  walk, split: on the stack, at task.bucket.
\* ping: awaiting the ping of Head(task.unknown).  done: returned.
Pc == {"new", "walk", "split", "ping", "done"}

Task == [pc : Pc, bucket : Bucket, unknown : Seq(Obj)]

Waiting == {o \in Obj : task[o].pc = "ping"}

\* No _insertNode call is on the stack.
Idle == \A o \in Obj : task[o].pc \notin {"walk", "split"}

\* A new turn of the event loop may start.
Turn == Idle /\ ~loading

Init ==
  /\ contacts = [b \in Bucket |-> <<>>]
  /\ split = {}
  /\ lastChanged = [b \in Bucket |-> Boot]
  /\ nodeMap = [i \in Id |-> None]
  /\ node = [o \in Obj |-> Blank]
  /\ task = [o \in Obj |-> [pc |-> "new", bucket |-> Root, unknown |-> <<>>]]
  /\ loading = TRUE
  /\ disposed = FALSE
  /\ now = Boot

tree == <<contacts, split, lastChanged, nodeMap>>

\* new Node(..) with fields r, and the call of _insertNode up to its loop.
Insert(r) ==
  /\ Cardinality(Waiting) < MaxOverlap
  /\ \E o \in Obj :
       /\ task[o].pc = "new"
       /\ node' = [node EXCEPT ![o] = r]
       /\ task' = [task EXCEPT ![o].pc = "walk"]
  /\ UNCHANGED tree

\* Overwrite fields of the known Node of an id.
Touch(i, r) ==
  /\ node' = [node EXCEPT ![nodeMap[i]] = r]
  /\ UNCHANGED <<tree, task>>

-----------------------------------------------------------------------------
(* What the RPC layer and the save file tell the table.                    *)

RecordQuery(i) ==
  /\ Turn /\ ~disposed
  /\ IF nodeMap[i] # None
       THEN Touch(i, [node[nodeMap[i]] EXCEPT !.lastQuery = now])
       ELSE Insert([Blank EXCEPT !.id = i, !.lastQuery = now])
  /\ UNCHANGED <<loading, disposed, now>>

RecordResponse(i) ==
  /\ Turn /\ ~disposed
  /\ IF nodeMap[i] # None
       THEN Touch(i, [node[nodeMap[i]] EXCEPT !.lastResponse = now,
                                              !.failed = 0])
       ELSE Insert([Blank EXCEPT !.id = i, !.lastResponse = now])
  /\ UNCHANGED <<loading, disposed, now>>

RecordNoResponse(i) ==
  /\ Turn /\ ~disposed
  /\ nodeMap[i] # None
  /\ Touch(i, [node[nodeMap[i]] EXCEPT !.failed = Bumped(@)])
  /\ UNCHANGED <<loading, disposed, now>>

\* One iteration of loadState: saved fields override only where they are set.
LoadEntry(i, response, query, failed) ==
  /\ loading /\ Idle
  /\ IF nodeMap[i] # None
       THEN Touch(i, LET n == node[nodeMap[i]] IN
              [n EXCEPT
                 !.lastResponse = IF response # 0 THEN response ELSE @,
                 !.lastQuery    = IF query # 0 THEN query ELSE @,
                 !.failed       = IF failed # 0 THEN failed ELSE @])
       ELSE Insert([id |-> i, lastResponse |-> response, lastQuery |-> query,
                    failed |-> failed])
  /\ UNCHANGED <<loading, disposed, now>>

EndLoad ==
  /\ loading /\ Idle
  /\ loading' = FALSE
  /\ UNCHANGED <<tree, node, task, disposed, now>>

-----------------------------------------------------------------------------
(* _insertNode, one iteration of its walk at a time.                       *)

FullOffByOne(b) == Len(contacts[b]) > K
Full(b) == Len(contacts[b]) >= K

Goto(o, b) == task' = [task EXCEPT ![o].pc = "walk", ![o].bucket = b]
Return(o)  == task' = [task EXCEPT ![o].pc = "done", ![o].unknown = <<>>]

\* The space check comes first, whether or not the bucket is split.
AddContact(o) ==
  LET b == task[o].bucket IN
  /\ task[o].pc = "walk"
  /\ ~Full(b)
  /\ contacts' = [contacts EXCEPT ![b] = Append(@, o)]
  /\ lastChanged' = [lastChanged EXCEPT ![b] = now]
  /\ nodeMap' = [nodeMap EXCEPT ![node[o].id] = o]
  /\ Return(o)
  /\ UNCHANGED <<split, node, loading, disposed, now>>

\* A variant: the walk and the split disagree on which side is which.
WalkSwapped(o) ==
  LET b == task[o].bucket IN
  /\ task[o].pc = "walk"
  /\ Full(b) /\ b \in split
  /\ Goto(o, IF AtMost(Text(node[o].id), Bound(Mid(b))) THEN Right(b)
                                                        ELSE Left(b))
  /\ UNCHANGED <<tree, node, loading, disposed, now>>

Walk(o) ==
  LET b == task[o].bucket IN
  /\ task[o].pc = "walk"
  /\ Full(b) /\ b \in split
  /\ Goto(o, IF AtMost(Text(node[o].id), Bound(Mid(b))) THEN Left(b)
                                                        ELSE Right(b))
  /\ UNCHANGED <<tree, node, loading, disposed, now>>

CanSplit(b) == b \notin split /\ ContainsLocal(b) /\ Splittable(b)

BeginSplit(o) ==
  LET b == task[o].bucket IN
  /\ task[o].pc = "walk"
  /\ Full(b) /\ CanSplit(b)
  /\ split' = split \cup {b}
  /\ contacts' = [contacts EXCEPT ![Left(b)] = <<>>, ![Right(b)] = <<>>]
  /\ lastChanged' = [lastChanged EXCEPT ![Left(b)] = now, ![Right(b)] = now]
  /\ task' = [task EXCEPT ![o].pc = "split"]
  /\ UNCHANGED <<nodeMap, node, loading, disposed, now>>

\* One iteration of the loop that redistributes the contacts.
MoveContact(o) ==
  LET b == task[o].bucket
      p == Head(contacts[b])
      target == IF Less(Text(node[p].id), Bound(Mid(b))) THEN Left(b)
                                                         ELSE Right(b)
  IN
  /\ task[o].pc = "split"
  /\ contacts[b] # <<>>
  /\ contacts' = [contacts EXCEPT ![b] = Tail(@), ![target] = Append(@, p)]
  /\ UNCHANGED <<split, lastChanged, nodeMap, node, task, loading, disposed,
                 now>>

EndSplitSwapped(o) ==
  LET b == task[o].bucket IN
  /\ task[o].pc = "split"
  /\ contacts[b] = <<>>
  /\ Goto(o, IF Less(Text(node[o].id), Bound(Mid(b))) THEN Right(b)
                                                      ELSE Left(b))
  /\ UNCHANGED <<tree, node, loading, disposed, now>>

EndSplitRestarts(o) ==
  /\ task[o].pc = "split"
  /\ contacts[task[o].bucket] = <<>>
  /\ Goto(o, Root)
  /\ UNCHANGED <<tree, node, loading, disposed, now>>

EndSplit(o) ==
  LET b == task[o].bucket IN
  /\ task[o].pc = "split"
  /\ contacts[b] = <<>>
  /\ Goto(o, IF Less(Text(node[o].id), Bound(Mid(b))) THEN Left(b)
                                                      ELSE Right(b))
  /\ UNCHANGED <<tree, node, loading, disposed, now>>

-----------------------------------------------------------------------------
(* Eviction.                                                               *)

\* The i-th element is the one contacts.splice(contacts.indexOf(p), 1) removes:
\* indexOf is the first position of p, and -1 when p is no longer there, for
\* which splice(-1, 1) removes the last element.
SpliceRemoves(s, p, i) ==
  IF Contains(s, p) THEN s[i] = p /\ \A j \in 1 .. i - 1 : s[j] # p
                    ELSE i = Len(s)

ReplaceKeepsMapEntry(o, p) ==
  LET b == task[o].bucket IN
  /\ \E i \in 1 .. Len(contacts[b]) :
       /\ SpliceRemoves(contacts[b], p, i)
       /\ contacts' = [contacts EXCEPT ![b] = Append(RemoveAt(@, i), o)]
  /\ nodeMap' = [nodeMap EXCEPT ![node[o].id] = o]
  /\ lastChanged' = [lastChanged EXCEPT ![b] = now]
  /\ Return(o)

ReplaceWithoutPush(o, p) ==
  LET b == task[o].bucket IN
  /\ \E i \in 1 .. Len(contacts[b]) :
       /\ SpliceRemoves(contacts[b], p, i)
       /\ contacts' = [contacts EXCEPT ![b] = RemoveAt(@, i)]
  /\ nodeMap' = [nodeMap EXCEPT ![node[p].id] = None, ![node[o].id] = o]
  /\ lastChanged' = [lastChanged EXCEPT ![b] = now]
  /\ Return(o)

\* replace(): p makes room for o in the bucket o's insertion is holding.
Replace(o, p) ==
  LET b == task[o].bucket IN
  /\ \E i \in 1 .. Len(contacts[b]) :
       /\ SpliceRemoves(contacts[b], p, i)
       /\ contacts' = [contacts EXCEPT ![b] = Append(RemoveAt(@, i), o)]
  /\ nodeMap' = [nodeMap EXCEPT ![node[p].id] = None, ![node[o].id] = o]
  /\ lastChanged' = [lastChanged EXCEPT ![b] = now]
  /\ Return(o)

EvictBeforeSplit(o) ==
  /\ task[o].pc = "walk"
  /\ Full(task[o].bucket)
  /\ task[o].bucket \notin split

AtFullLeaf(o) ==
  /\ task[o].pc = "walk"
  /\ Full(task[o].bucket)
  /\ task[o].bucket \notin split
  /\ ~CanSplit(task[o].bucket)

ReplaceFirstContact(o) ==
  LET s == contacts[task[o].bucket] IN
  /\ AtFullLeaf(o)
  /\ \E i \in 1 .. Len(s) : IsBad(s[i]) /\ Replace(o, s[1])
  /\ UNCHANGED <<split, node, loading, disposed, now>>

\* The first bad contact in array order is replaced without a ping.
ReplaceBad(o) ==
  LET s == contacts[task[o].bucket] IN
  /\ AtFullLeaf(o)
  /\ \E i \in 1 .. Len(s) :
       /\ IsBad(s[i])
       /\ \A j \in 1 .. i - 1 : ~IsBad(s[j])
       /\ Replace(o, s[i])
  /\ UNCHANGED <<split, node, loading, disposed, now>>

\* The positions of s in the order unknown.sort() gives them: by
\* lastResponse, and Array.prototype.sort is stable.
PingOrder(s, u) ==
  \A i, j \in DOMAIN u : i < j =>
    \/ node[s[u[i]]].lastResponse < node[s[u[j]]].lastResponse
    \/ node[s[u[i]]].lastResponse = node[s[u[j]]].lastResponse /\ u[i] < u[j]

StartPings(o) ==
  LET s == contacts[task[o].bucket]
      unknown == {i \in 1 .. Len(s) : ~IsGood(s[i])}
  IN
  /\ AtFullLeaf(o)
  /\ \A i \in 1 .. Len(s) : ~IsBad(s[i])
  /\ unknown # {}
  /\ \E n \in 1 .. Len(s) : \E u \in [1 .. n -> unknown] :
       /\ \A i \in unknown : \E j \in 1 .. n : u[j] = i
       /\ PingOrder(s, u)
       /\ task' = [task EXCEPT ![o].pc = "ping",
                               ![o].unknown = [j \in 1 .. n |-> s[u[j]]]]
  /\ UNCHANGED <<tree, node, loading, disposed, now>>

Discard(o) ==
  LET s == contacts[task[o].bucket] IN
  /\ AtFullLeaf(o)
  /\ \A i \in 1 .. Len(s) : ~IsBad(s[i]) /\ IsGood(s[i])
  /\ Return(o)
  /\ UNCHANGED <<tree, node, loading, disposed, now>>

-----------------------------------------------------------------------------
(* The ping settles, and _insertNode goes on after its await.  The         *)
(* callback of _ping and the continuation are one step: they run in the    *)
(* same turn and only the continuations of other pings can come between.   *)

Checked(o) == Head(task[o].unknown)

\* The callback reports a response.
PingAnswered(o) ==
  LET p == Checked(o)
      rest == Tail(task[o].unknown)
  IN
  /\ Turn
  /\ task[o].pc = "ping"
  /\ node' = [node EXCEPT ![p].lastResponse = now, ![p].failed = 0]
  /\ IF disposed
       THEN Return(o) /\ UNCHANGED lastChanged
       ELSE /\ lastChanged' = [lastChanged EXCEPT ![task[o].bucket] = now]
            /\ IF rest = <<>> THEN Return(o)
                              ELSE task' = [task EXCEPT ![o].unknown = rest]
  /\ UNCHANGED <<contacts, split, nodeMap, loading, disposed, now>>

GiveUpAfterDispose(o) ==
  /\ IF disposed
       THEN /\ nodeMap' = [nodeMap EXCEPT ![node[o].id] = o]
            /\ Return(o)
            /\ UNCHANGED <<contacts, lastChanged>>
       ELSE Replace(o, Checked(o))
  /\ UNCHANGED <<split, loading, disposed, now>>

\* What follows an unanswered ping.
GiveUp(o) ==
  /\ IF disposed
       THEN Return(o) /\ UNCHANGED <<contacts, nodeMap, lastChanged>>
       ELSE Replace(o, Checked(o))
  /\ UNCHANGED <<split, loading, disposed, now>>

\* The callback reports no response.
PingFailed(o) ==
  /\ Turn
  /\ task[o].pc = "ping"
  /\ node' = [node EXCEPT ![Checked(o)].failed = Bumped(@)]
  /\ GiveUp(o)

\* The five-second timer fires first; a later callback returns early.
PingTimedOut(o) ==
  /\ Turn
  /\ task[o].pc = "ping"
  /\ UNCHANGED node
  /\ GiveUp(o)

-----------------------------------------------------------------------------
Dispose ==
  /\ Turn /\ ~disposed
  /\ disposed' = TRUE
  /\ contacts' = [b \in Bucket |-> <<>>]
  /\ split' = {}
  /\ nodeMap' = [i \in Id |-> None]
  /\ UNCHANGED <<lastChanged, node, task, loading, now>>

Tick ==
  /\ Turn
  /\ now < MaxTime
  /\ now' = now + 1
  /\ UNCHANGED <<tree, node, task, loading, disposed>>

\* The synchronous part of _insertNode.
Running(o) ==
  \/ AddContact(o) \/ Walk(o)
  \/ BeginSplit(o) \/ MoveContact(o) \/ EndSplit(o)
  \/ ReplaceBad(o) \/ StartPings(o) \/ Discard(o)

Next ==
  \/ \E i \in Id : RecordQuery(i) \/ RecordResponse(i) \/ RecordNoResponse(i)
  \/ \E i \in Id, response, query \in SavedTime, failed \in 0 .. MaxFailed :
       LoadEntry(i, response, query, failed)
  \/ EndLoad
  \/ \E o \in Obj : Running(o)
  \/ \E o \in Obj : PingAnswered(o) \/ PingFailed(o) \/ PingTimedOut(o)
  \/ Dispose
  \/ Tick

Spec == Init /\ [][Next]_vars
-----------------------------------------------------------------------------
(* Properties.                                                             *)

TypeOK ==
  /\ contacts \in [Bucket -> Seq(Obj)]
  /\ split \subseteq Bucket
  /\ lastChanged \in [Bucket -> Time]
  /\ nodeMap \in [Id -> Obj \cup {None}]
  /\ node \in [Obj -> NodeRecord]
  /\ task \in [Obj -> Task]
  /\ loading \in BOOLEAN
  /\ disposed \in BOOLEAN
  /\ now \in Time

\* No bucket ever holds more than K contacts, however many evictions of the
\* same contact overlap (the splice in _evict has to remove exactly one).
Capacity == \A b \in Bucket : Len(contacts[b]) <= K

\* The bucket an insertion read before its await is, when the ping settles,
\* still a leaf and still exactly full: replace() may evict one and push one.
CapturedBucketStillFullLeaf ==
  ~disposed => \A o \in Waiting :
                 /\ Len(contacts[task[o].bucket]) = K
                 /\ task[o].bucket \notin split

\* An id may decode to more than the maximum of the root: U+FFFE is EF BF BE.
InTextRange(i, b) == /\ AtMost(Bound(b.min), Text(i))
                     /\ AtMost(Text(i), Bound(b.max)) \/ b.max = Root.max

\* Splitting and walking use < in one place and <= in the other, and still
\* every contact lies within the bounds of its bucket, in the order in which
\* the code compares Buffers, or above them all in a bucket at the end.
PlacedInTextRange ==
  \A b \in Bucket : \A j \in 1 .. Len(contacts[b]) :
    InTextRange(node[contacts[b][j]].id, b)

\* Whatever awaited a ping when dispose() ran, nothing puts a node back into
\* a disposed table.
DisposedStaysEmpty ==
  disposed => /\ \A b \in Bucket : contacts[b] = <<>>
              /\ \A i \in Id : nodeMap[i] = None

Placed(o) == \E b \in Bucket : \E j \in 1 .. Len(contacts[b]) :
               contacts[b][j] = o

\* _nodeMap and the buckets hold the same nodes, each once: closest() and
\* length read the one, eviction the other.  Only as long as no two
\* insertions overlap (MaxOverlap = 1).
MapMatchesBuckets ==
  /\ \A o \in Obj : Placed(o) <=> \E i \in Id : nodeMap[i] = o
  /\ \A i \in Id : nodeMap[i] # None => node[nodeMap[i]].id = i
  /\ \A b, c \in Bucket : \A j \in DOMAIN contacts[b], k \in DOMAIN contacts[c] :
       contacts[b][j] = contacts[c][k] => b = c /\ j = k

\* "evict this node and insert the new one" (routing.js:337): a contact leaves
\* a live table only if it was known bad or is the one whose ping failed.
OnlyUnresponsiveEvicted ==
  [][\A o \in Obj : Placed(o) /\ ~Placed(o)' /\ ~disposed' =>
       IsBad(o) \/ \E t \in Waiting : t \notin Waiting' /\ Checked(t) = o]_vars

Place(o) == IF Placed(o) THEN "in"
            ELSE IF task[o].pc = "done" THEN "gone" ELSE "new"

\* However insertions overlap, even where the wrong contact is evicted, the
\* table keeps the contract of Contacts: _insertNode decides once on each node,
\* every eviction exchanges one contact for one (routing.js:337), so that the
\* table never shrinks, nothing comes back, and dispose() is final.
Members == INSTANCE Contacts WITH
  place <- [o \in Obj |-> Place(o)], closed <- disposed

ImplementsContacts == Members!Spec

Active(o) == task[o].pc \in {"walk", "split", "ping"}

\* What the while loop of _insertNode, the loop of _split and the loop over
\* the unanswered contacts use up: the bucket, and what is left to do there.
Rank(o) ==
  LET t == task[o] IN
  <<t.bucket.max - t.bucket.min,
    IF t.pc = "walk" THEN K + 1
    ELSE IF t.pc = "split" THEN Len(contacts[t.bucket]) ELSE Len(t.unknown)>>

\* No step of any call leads an insertion back to where it was: each of its
\* own steps that does not end it lowers its rank, and only an insertion that
\* awaits a ping can be passed by others.
InsertionAdvances ==
  [][\A o \in Obj : Active(o) /\ Active(o)' =>
       \/ Less(Rank(o)', Rank(o))
       \/ o \in Waiting /\ task'[o] = task[o]]_vars

\* Every call of _insertNode returns: the walk ends, and each of a finite list
\* of pings settles (in BucketPing.tla, by the timeout of the RPC layer alone,
\* without the table's five-second timer).  Again and again no call is under
\* way: this implies that each returns, and where Obj is finite, as one that
\* has returned stays so, it says no more.
InsertionSettles == []<>(\A o \in Obj : ~Active(o))

ByteLess(i, j) == i[1] < j[1] \/ (i[1] = j[1] /\ i[2] < j[2])

\* "The minimum node id of this bucket", "The maximum node id of this bucket"
\* (routing.js:55-56): the bounds hold for ids as numbers.
PlacedInRange ==
  \A b \in Bucket : \A j \in 1 .. Len(contacts[b]) :
    LET i == node[contacts[b][j]].id IN
    /\ ~ByteLess(i, <<b.min, b.min>>)
    /\ ~ByteLess(<<b.max, b.max>>, i)

\* They do hold for the ids whose first byte decodes to itself.
LowPlacedInRange ==
  \A b \in Bucket : \A j \in 1 .. Len(contacts[b]) :
    LET i == node[contacts[b][j]].id IN
    i[1] < Base \div 2 => /\ ~ByteLess(i, <<b.min, b.min>>)
                          /\ ~ByteLess(<<b.max, b.max>>, i)
=============================================================================
