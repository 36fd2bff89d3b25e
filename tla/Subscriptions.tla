--------------------------- MODULE Subscriptions ---------------------------
(***************************************************************************)
(* The subscribers and what it takes to serve them: the array of           *)
(* src/subscribe.c, the requests that change it, the loop of               *)
(* LocalIO_sendCandidateNodes with its sockets, and the end of the process *)
(* with or without the cleanup in main.                                    *)
(*                                                                         *)
(* A subscriber is a process of its own with a datagram socket of limited  *)
(* size: it reads, dies and starts again as it likes.  sendto waits while  *)
(* that socket is full.  Descriptors are counted, because every line of    *)
(* the log needs one and every datagram to a subscriber keeps one.         *)
(***************************************************************************)
EXTENDS Integers, Sequences, SequencesExt, Functions

CONSTANTS
  Addresses,     \* paths of the subscribers' sockets
  MaxNumSubs,    \* MAX_NUM_SUBSCRIBERS
  Descriptors,   \* free file descriptors when the main loop starts
  QueueSize      \* bound: datagrams the socket of a subscriber holds

ASSUME SizeAssumption == /\ MaxNumSubs \in Nat
                         /\ Descriptors \in Nat
                         /\ QueueSize \in Nat \ {0}

VARIABLES
  pc,        \* "loop", "select", "check", "publish", "send"; at the end
             \* "exited" (exit), "aborted" (in free) or "done" (main returned)
  running,   \* RUNNING
  subs,      \* the SubscriberList
  i,         \* in a publication, the index of the loop; otherwise 0
  free,      \* free descriptors
  linked,    \* the path of the local socket exists
  bound,     \* the addresses with a living process
  queue      \* datagrams that wait in the socket of each address

process == <<pc, running, subs, i, free, linked>>
users   == <<bound, queue>>
vars    == <<process, users>>

Init ==
  /\ pc = "loop"
  /\ running = TRUE
  /\ subs = <<>>
  /\ i = 0
  /\ free = Descriptors
  /\ linked = TRUE
  /\ bound \in SUBSET Addresses
  /\ queue = [a \in Addresses |-> 0]

Ended == pc \in {"exited", "aborted", "done"}

(* log_event opens the log file and exits if it cannot.                    *)
Logged(next, descriptors) == IF descriptors > 0 THEN next ELSE "exited"

-----------------------------------------------------------------------------
(* The list                                                                *)

(* Mutants: nobody looks for the address in the list; the limit is tested  *)
(* one too high.                                                           *)
AddSubUnchecked(list, a) ==
  IF Len(list) < MaxNumSubs THEN Append(list, a) ELSE list

AddSubOverfull(list, a) ==
  IF Len(list) <= MaxNumSubs /\ a \notin Range(list)
  THEN Append(list, a)
  ELSE list

(* SubscriberList_addSub.                                                  *)
AddSub(list, a) ==
  IF Len(list) < MaxNumSubs /\ a \notin Range(list)
  THEN Append(list, a)
  ELSE list

(* SubscriberList_removeSub: the last entry that matches is removed.       *)
RemoveSub(list, a) ==
  IF a \in Range(list)
  THEN RemoveAt(list, SelectLastInSeq(list, LAMBDA b : b = a))
  ELSE list

-----------------------------------------------------------------------------
(* The process                                                             *)

LoopTest ==
  /\ pc = "loop"
  /\ running
  /\ pc' = "select"
  /\ UNCHANGED <<running, subs, i, free, linked, users>>

(* The end of main: SubscriberList_destroy passes addresses inside the     *)
(* list to free, the first of them the list's own, and then the list       *)
(* itself.  With subscribers left, free may notice and abort.              *)
ShutDown ==
  /\ pc = "loop"
  /\ ~running
  /\ \/ pc' = "done" /\ linked' = FALSE
     \/ subs # <<>> /\ pc' = "aborted" /\ UNCHANGED linked
  /\ UNCHANGED <<running, subs, i, free, users>>

(* select returns for another reason: a timeout or a signal, which do not  *)
(* log, or a packet or another local request, which do.  The answer to a   *)
(* packet ends the process if it cannot be sent, or not be logged.         *)
OtherEvent ==
  /\ pc = "select"
  /\ pc' \in {"check", "exited"}
  /\ UNCHANGED <<running, subs, i, free, linked, users>>

Subscribe(a) ==
  /\ pc = "select"
  /\ subs' = AddSub(subs, a)
  /\ pc' = Logged("check", free)
  /\ UNCHANGED <<running, i, free, linked, users>>

Unsubscribe(a) ==
  /\ pc = "select"
  /\ subs' = RemoveSub(subs, a)
  /\ pc' = Logged("check", free)
  /\ UNCHANGED <<running, i, free, linked, users>>

NotDue ==
  /\ pc = "check"
  /\ pc' = "loop"
  /\ UNCHANGED <<running, subs, i, free, linked, users>>

(* The cleanup is due: it contacts a peer or the origin, and publishes if  *)
(* there is a subscriber.  IO_sendBytes logs while its own socket is open, *)
(* and exits if sendto fails.                                              *)
Due ==
  /\ pc = "check"
  /\ pc' \in {Logged(IF subs = <<>> THEN "loop" ELSE "publish", free - 1), "exited"}
  /\ i' = IF pc' = "publish" THEN 1 ELSE 0
  /\ UNCHANGED <<running, subs, free, linked, users>>

(* A socket for the next subscriber.  The loop would end without one, but  *)
(* the error is logged first.                                              *)
OpenSocket ==
  /\ pc = "publish"
  /\ i <= Len(subs)
  /\ IF free > 0
     THEN pc' = "send" /\ free' = free - 1
     ELSE pc' = "exited" /\ UNCHANGED free
  /\ UNCHANGED <<running, subs, i, linked, users>>

(* Mutants: a failure ends the loop; sendto waits for the dead, too.       *)
SendOrBreak ==
  /\ pc = "send"
  /\ \/ subs[i] \notin bound /\ i' = Len(subs) + 1 /\ UNCHANGED queue
     \/ /\ subs[i] \in bound
        /\ queue[subs[i]] < QueueSize
        /\ queue' = [queue EXCEPT ![subs[i]] = @ + 1]
        /\ i' = i + 1
  /\ pc' = Logged("publish", free)
  /\ UNCHANGED <<running, subs, free, linked, bound>>

SendToLiving ==
  /\ pc = "send"
  /\ subs[i] \in bound
  /\ queue[subs[i]] < QueueSize
  /\ queue' = [queue EXCEPT ![subs[i]] = @ + 1]
  /\ i' = i + 1
  /\ pc' = Logged("publish", free)
  /\ UNCHANGED <<running, subs, free, linked, bound>>

(* sendto fails if nobody has bound the address, and waits while the       *)
(* socket is full.  Both outcomes are logged; the socket stays open.       *)
Send ==
  /\ pc = "send"
  /\ \/ subs[i] \notin bound /\ UNCHANGED queue
     \/ /\ subs[i] \in bound
        /\ queue[subs[i]] < QueueSize
        /\ queue' = [queue EXCEPT ![subs[i]] = @ + 1]
  /\ i' = i + 1
  /\ pc' = Logged("publish", free)
  /\ UNCHANGED <<running, subs, free, linked, bound>>

FinishPublication ==
  /\ pc = "publish"
  /\ i > Len(subs)
  /\ i' = 0
  /\ pc' = Logged("loop", free)
  /\ UNCHANGED <<running, subs, free, linked, users>>

(* SIGTERM or SIGINT: terminate logs and clears RUNNING.  A sendto that    *)
(* waits goes on waiting, as signal installs handlers that restart calls.  *)
Signal ==
  /\ ~Ended
  /\ running
  /\ pc' = Logged(pc, free)
  /\ running' = (pc' = "exited")
  /\ UNCHANGED <<subs, i, free, linked, users>>

-----------------------------------------------------------------------------
(* The subscribers' processes                                              *)

Start(a) ==
  /\ a \notin bound
  /\ bound' = bound \union {a}
  /\ UNCHANGED <<process, queue>>

Die(a) ==
  /\ a \in bound
  /\ bound' = bound \ {a}
  /\ queue' = [queue EXCEPT ![a] = 0]
  /\ UNCHANGED process

Read(a) ==
  /\ queue[a] > 0
  /\ queue' = [queue EXCEPT ![a] = @ - 1]
  /\ UNCHANGED <<process, bound>>

Process ==
  \/ LoopTest \/ ShutDown \/ OtherEvent
  \/ \E a \in Addresses : Subscribe(a) \/ Unsubscribe(a)
  \/ NotDue \/ Due \/ OpenSocket \/ Send \/ FinishPublication

Users == \E a \in Addresses : Start(a) \/ Die(a) \/ Read(a)

Next == Process \/ Signal \/ Users

(* The process is scheduled; what the subscribers do is their own affair.  *)
Spec == Init /\ [][Next]_vars /\ WF_vars(Process)

(* Subscribers that live read what they get.                               *)
ReadersSpec == Spec /\ \A a \in Addresses : WF_vars(Read(a))

-----------------------------------------------------------------------------
(* Properties                                                              *)

(* The type invariant.                                                     *)
TypeOK ==
  /\ pc \in {"loop", "select", "check", "publish", "send",
             "exited", "aborted", "done"}
  /\ running \in BOOLEAN
  /\ subs \in BoundedSeq(Addresses, MaxNumSubs)
  /\ i \in 0..(MaxNumSubs + 1)
  /\ free \in 0..Descriptors
  /\ linked \in BOOLEAN
  /\ bound \subseteq Addresses
  /\ queue \in [Addresses -> 0..QueueSize]

(* Those whom the publication in progress has not reached.                 *)
Pending == IF i = 0 THEN {} ELSE {subs[k] : k \in i..Len(subs)}

Promise == INSTANCE SubscriberSet WITH
  subscribed <- Range(subs), pending <- Pending, stopped <- Ended

(* A subscriber has one entry, so that nobody gets a publication twice and *)
(* one request ends a subscription (SubscriberList_addSub).                *)
UniqueAddresses == IsInjective(subs)

(* As long as the process lives, subscribe.c and the publication loop of   *)
(* io.c keep the promise: a subscription ends for good with one request,   *)
(* and a publication reaches everyone in spite of subscribers that have    *)
(* died.                                                                   *)
KeepsPromise == Promise!Spec

(* A signal ends the process in the end, in the middle of a publication    *)
(* too (terminate and the loop of main).                                   *)
EndsOnSignal == ~running ~> Ended

(* io.h, LocalIO_sendCandidateNodes: the list is pushed to all             *)
(* subscribers.                                                            *)
PushesToAll == Pending # {} ~> Pending = {}
=============================================================================
