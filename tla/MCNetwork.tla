----------------------------- MODULE MCNetwork -----------------------------
(* Small instances of Network: two processes on a line, the first of which *)
(* is the origin peer of both, as in the example of README.md.             *)
EXTENDS Network

MCOrigin == [c \in Clients |-> 1]

(* All clocks agree; the clock of the first process is a second ahead.     *)
MCNoSkew == [c \in Clients |-> 0]
MCSkew   == [MCNoSkew EXCEPT ![1] = 1]

(* All stay in reach of each other; the first may be out of reach.         *)
MCTogether == [c \in Clients |-> {[pos |-> 0, coordRange |-> 1]}]
MCMoving   == [MCTogether EXCEPT ![1] = @ \cup {[pos |-> 3, coordRange |-> 1]}]
=============================================================================
