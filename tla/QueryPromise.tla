---------------------------- MODULE QueryPromise ----------------------------
(***************************************************************************)
(* What KRPCSocket.query promises its callers and its listeners: a query   *)
(* settles at most once; it resolves only with the 'response' event of its *)
(* node, and it rejects with a 'timeout' event or with none.  The one      *)
(* exception is a query that failed before it was sent: it rejects at      *)
(* once, and the event of its forgotten transaction may follow.            *)
(***************************************************************************)
CONSTANT Call

VARIABLES promise, notice

vars == <<promise, notice>>

Init ==
  /\ promise = [c \in Call |-> "new"]
  /\ notice = [c \in Call |-> "none"]

Begin(c) ==
  /\ promise[c] = "new"
  /\ \E p \in {"pending", "error"} : promise' = [promise EXCEPT ![c] = p]
  /\ UNCHANGED notice

\* The event is emitted before the promise settles.
Notify(c) ==
  /\ promise[c] \in {"pending", "error"} /\ notice[c] = "none"
  /\ \E n \in {"response", "timeout"} : notice' = [notice EXCEPT ![c] = n]
  /\ UNCHANGED promise

Resolve(c) ==
  /\ promise[c] = "pending" /\ notice[c] = "response"
  /\ promise' = [promise EXCEPT ![c] = "ok"]
  /\ UNCHANGED notice

\* dispose() rejects every pending query at once.
Reject(s) ==
  /\ \A c \in s : promise[c] = "pending" /\ notice[c] # "response"
  /\ promise' = [c \in Call |-> IF c \in s THEN "error" ELSE promise[c]]
  /\ UNCHANGED notice

Next ==
  \/ \E c \in Call : Begin(c) \/ Notify(c) \/ Resolve(c)
  \/ \E s \in SUBSET Call : Reject(s)

Spec == Init /\ [][Next]_vars
=============================================================================
