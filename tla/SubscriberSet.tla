--------------------------- MODULE SubscriberSet ---------------------------
(***************************************************************************)
(* What the local service promises its users: a set of subscribers with a  *)
(* limit, and publications that reach every member once, dead or alive,    *)
(* before the set may change again.  Client uses its subscribers in this   *)
(* way; Subscriptions shows that the array of src/subscribe.c and the loop *)
(* of LocalIO_sendCandidateNodes keep the promise as long as the process   *)
(* lives.                                                                  *)
(***************************************************************************)
EXTENDS FiniteSets, Naturals

CONSTANTS Addresses, MaxNumSubs

VARIABLES
  subscribed,   \* the set of subscribers
  pending,      \* those the current publication has not reached yet
  stopped       \* the process has ended

vars == <<subscribed, pending, stopped>>

Init ==
  /\ subscribed = {}
  /\ pending = {}
  /\ stopped = FALSE

Add(a) ==
  /\ pending = {}
  /\ Cardinality(subscribed) < MaxNumSubs
  /\ subscribed' = subscribed \union {a}
  /\ UNCHANGED pending

Remove(a) ==
  /\ pending = {}
  /\ subscribed' = subscribed \ {a}
  /\ UNCHANGED pending

Publish ==
  /\ pending = {}
  /\ pending' = subscribed
  /\ UNCHANGED subscribed

Serve(a) ==
  /\ a \in pending
  /\ pending' = pending \ {a}
  /\ UNCHANGED subscribed

Stop == UNCHANGED <<subscribed, pending>>

(* The process may end with whatever it does last.                         *)
Next ==
  /\ ~stopped
  /\ stopped' \in BOOLEAN
  /\ \/ \E a \in Addresses : Add(a) \/ Remove(a) \/ Serve(a)
     \/ Publish
     \/ Stop

(* A publication that has begun goes on until everyone has been served or  *)
(* the process has ended.                                                  *)
Serving == ~stopped /\ stopped' \in BOOLEAN /\ \E a \in Addresses : Serve(a)

Spec == Init /\ [][Next]_vars /\ WF_vars(Serving)
=============================================================================
