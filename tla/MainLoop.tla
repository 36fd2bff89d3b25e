------------------------------ MODULE MainLoop ------------------------------
(***************************************************************************)
(* When things happen in the main loop of src/p2p-dprd.c: the timer of     *)
(* select, the two sockets, the periodic cleanup and the signals.  What    *)
(* the handlers do is the business of Client; here a handler only takes    *)
(* time, none or one tick.                                                 *)
(*                                                                         *)
(* A second has PerSecond ticks: the timer counts ticks, time(NULL) whole  *)
(* seconds.  Time is kept relative to the last cleanup, so that no bound   *)
(* on the clock is needed.  The network and the local users may send at    *)
(* most Rate datagrams in a tick.                                          *)
(***************************************************************************)
EXTENDS Integers

CONSTANTS
  PerSecond,      \* ticks in a second
  Timeout,        \* PROTO_timeout, in seconds
  Variation,      \* PROTO_timeout_variation, in ticks
  QueueSize,      \* bound: datagrams a socket holds
  Rate            \* bound: datagrams that arrive in one tick

ASSUME TimingAssumption == /\ PerSecond \in Nat \ {0}
                           /\ Timeout \in Nat
                           /\ Variation \in Nat \ {0}
                           /\ QueueSize \in Nat \ {0}
                           /\ Rate \in Nat

VARIABLES
  pc,        \* "loop", "call", "select", "handle", "check" or "exited"
  running,   \* RUNNING
  cause,     \* why select returned last
  timer,     \* varTime, in ticks
  subsec,    \* the ticks of the current second that have passed
  age,       \* time(NULL) - last_cleanup_timestamp
  network,   \* datagrams waiting on the network socket
  local,     \* datagrams waiting on the local socket
  credit,    \* datagrams that may still arrive in this tick
  overdue    \* ticks since a signal asked the process to stop

clock   == <<subsec, age, overdue, credit>>
sockets == <<network, local>>
vars    == <<pc, running, cause, timer, clock, sockets>>

Init ==
  /\ pc = "loop"
  /\ running = TRUE
  /\ cause = "none"
  /\ timer = 0
  /\ subsec \in 0..(PerSecond - 1)
  /\ age = 0
  /\ network = 0
  /\ local = 0
  /\ credit = Rate
  /\ overdue = 0

LongestTimer == Timeout * PerSecond + Variation - 1

(* Bound: the ticks since a signal are counted up to here, beyond what     *)
(* StopDelay allows.                                                       *)
OverdueMax == LongestTimer + 2

(* A tick of the clock.                                                    *)
TimePasses ==
  /\ subsec' = (subsec + 1) % PerSecond
  /\ age' = IF subsec' = 0 THEN age + 1 ELSE age
  /\ overdue' = IF running THEN 0 ELSE
                IF overdue < OverdueMax THEN overdue + 1 ELSE overdue
  /\ credit' = Rate

-----------------------------------------------------------------------------
(* The loop                                                                *)

(* Mutant: the loop goes on when it should not.                            *)
LoopForever ==
  /\ pc = "loop"
  /\ pc' = "call"
  /\ UNCHANGED <<running, cause, timer, clock, sockets>>

(* while(RUNNING)                                                          *)
LoopTest ==
  /\ pc = "loop"
  /\ pc' = IF running THEN "call" ELSE "exited"
  /\ UNCHANGED <<running, cause, timer, clock, sockets>>

(* The process enters select.  A signal that comes just before it does not *)
(* interrupt it.                                                           *)
CallSelect ==
  /\ pc = "call"
  /\ pc' = "select"
  /\ UNCHANGED <<running, cause, timer, clock, sockets>>

Ready == network > 0 \/ local > 0

(* select leaves the rest of its timeout in varTime.                       *)
Wait ==
  /\ pc = "select"
  /\ ~Ready
  /\ timer > 0
  /\ timer' = timer - 1
  /\ TimePasses
  /\ UNCHANGED <<pc, running, cause, sockets>>

(* Mutant: the timer is not set again.                                     *)
TimeoutWithoutReset ==
  /\ pc = "select"
  /\ ~Ready
  /\ timer = 0
  /\ cause' = "timeout"
  /\ pc' = "check"
  /\ UNCHANGED <<running, timer, clock, sockets>>

(* Mutant: the variation is one too long.                                  *)
LongVariation ==
  /\ pc = "select"
  /\ ~Ready
  /\ timer = 0
  /\ timer' \in {Timeout * PerSecond + v : v \in 0..Variation}
  /\ cause' = "timeout"
  /\ pc' = "check"
  /\ UNCHANGED <<running, clock, sockets>>

(* selectState == 0: the timer is set again, with a variation.             *)
SelectTimesOut ==
  /\ pc = "select"
  /\ ~Ready
  /\ timer = 0
  /\ timer' \in {Timeout * PerSecond + v : v \in 0..(Variation - 1)}
  /\ cause' = "timeout"
  /\ pc' = "check"
  /\ UNCHANGED <<running, clock, sockets>>

(* Mutant: the local socket goes first.                                    *)
LocalFirst ==
  /\ pc = "select"
  /\ Ready
  /\ cause' = IF local > 0 THEN "local" ELSE "network"
  /\ pc' = "handle"
  /\ UNCHANGED <<running, timer, clock, sockets>>

(* selectState > 0: the local socket is looked at only if nothing waits on *)
(* the network socket.  The timer goes on where it was.                    *)
SelectReady ==
  /\ pc = "select"
  /\ Ready
  /\ cause' = IF network > 0 THEN "network" ELSE "local"
  /\ pc' = "handle"
  /\ UNCHANGED <<running, timer, clock, sockets>>

(* The datagram is read and handled.                                       *)
Handle ==
  /\ pc = "handle"
  /\ network' = IF cause = "network" THEN network - 1 ELSE network
  /\ local' = IF cause = "local" THEN local - 1 ELSE local
  /\ TimePasses \/ UNCHANGED clock
  /\ pc' = "check"
  /\ UNCHANGED <<running, cause, timer>>

(* Mutants: the cleanup is made on a timeout of select only, as it once    *)
(* was; after the test the loop goes on without looking at RUNNING.        *)
CheckOnTimeout ==
  /\ pc = "check"
  /\ age' = IF cause = "timeout" /\ age > Timeout THEN 0 ELSE age
  /\ pc' = "loop"
  /\ UNCHANGED <<running, cause, timer, subsec, overdue, credit, sockets>>

CheckAndCall ==
  /\ pc = "check"
  /\ age' = IF age > Timeout THEN 0 ELSE age
  /\ pc' = IF age > Timeout THEN "loop" ELSE "call"
  /\ UNCHANGED <<running, cause, timer, subsec, overdue, credit, sockets>>

(* The cleanup, if it is due, and with it the exchange with the peers.     *)
Check ==
  /\ pc = "check"
  /\ age' = IF age > Timeout THEN 0 ELSE age
  /\ pc' = "loop"
  /\ UNCHANGED <<running, cause, timer, subsec, overdue, credit, sockets>>

-----------------------------------------------------------------------------
(* The environment                                                         *)

(* SIGTERM or SIGINT and its handler, terminate: select returns with an    *)
(* error if it is waiting, and nothing else happens in that iteration.     *)
Signal ==
  /\ pc # "exited"
  /\ running
  /\ running' = FALSE
  /\ IF pc = "select" /\ ~Ready
     THEN pc' = "check" /\ cause' = "signal"
     ELSE UNCHANGED <<pc, cause>>
  /\ UNCHANGED <<timer, clock, sockets>>

Arrive ==
  /\ pc # "exited"
  /\ credit > 0
  /\ credit' = credit - 1
  /\ \/ network < QueueSize /\ network' = network + 1 /\ UNCHANGED local
     \/ local < QueueSize /\ local' = local + 1 /\ UNCHANGED network
  /\ UNCHANGED <<pc, running, cause, timer, subsec, age, overdue>>

(* exit in a handler or in the cleanup: sendto has failed, or the log file *)
(* cannot be opened.                                                       *)
Fail ==
  /\ pc = "handle" \/ (pc = "check" /\ age > Timeout)
  /\ pc' = "exited"
  /\ UNCHANGED <<running, cause, timer, clock, sockets>>

Loop == LoopTest \/ CallSelect \/ SelectTimesOut \/ SelectReady \/ Handle \/ Check

Next == Loop \/ Wait \/ Signal \/ Arrive \/ Fail

(* The process is scheduled and time passes; no signal and no datagram     *)
(* need ever come.                                                         *)
Spec == Init /\ [][Next]_vars /\ WF_vars(Loop) /\ WF_vars(Wait)

-----------------------------------------------------------------------------
(* Properties                                                              *)

(* The type invariant.                                                     *)
TypeOK ==
  /\ pc \in {"loop", "call", "select", "handle", "check", "exited"}
  /\ running \in BOOLEAN
  /\ cause \in {"none", "network", "local", "timeout", "signal"}
  /\ timer \in 0..LongestTimer
  /\ subsec \in 0..(PerSecond - 1)
  /\ age \in Nat
  /\ network \in 0..QueueSize
  /\ local \in 0..QueueSize
  /\ credit \in 0..Rate
  /\ overdue \in 0..OverdueMax

(* Whatever arrives, the lists are cleaned and the peers contacted at      *)
(* least every two timeouts, the variation and a second that rounding and  *)
(* a handler add: a timer that runs out when the cleanup is not quite due  *)
(* starts again, and nothing wakes select before it has run out again.     *)
CleanupPeriod ==
  age <= 2 * Timeout + (Variation - 1) \div PerSecond + 1

(* A signal ends the process, at the latest when the timer that was        *)
(* running runs out and the handler of that moment is done: one that comes *)
(* between the test of RUNNING and select does not wake select.            *)
StopDelay == overdue <= LongestTimer + 1

(* A signal ends the process.                                              *)
Stops == ~running ~> pc = "exited"

(* The process never stops contacting its peers, however busy it is.       *)
CleansAgain == [](pc # "exited" => <>(pc = "exited" \/ (pc = "loop" /\ age = 0)))

(* A datagram on the network socket is read in its turn, whatever the      *)
(* local users do.                                                         *)
NetworkServed == [](network > 0 => <>(pc = "exited" \/ cause = "network"))
=============================================================================
