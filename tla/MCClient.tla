------------------------------ MODULE MCClient ------------------------------
(* Small instances of Client: three peers on a line.  The first is in      *)
(* reach of the client's first place and the third of its second; the      *)
(* second moves from the reach of the second place to that of the first.   *)
EXTENDS Client

CONSTANTS Peers, Types, Stamps, MaxLength

MCPos(id, ts) == CASE id = 1 -> 1
                   [] id = 2 -> IF ts = 0 THEN 6 ELSE 2
                   [] id = 3 -> 6
                   [] id = 4 -> 0

Record(id, ts) == NewNode(id, id, MCPos(id, ts), 1, ts)

Records == {Record(id, ts) : id \in Peers \cup {Self}, ts \in Stamps}

(* What peers send: the sender first, then another node, perhaps the       *)
(* receiver; no node twice (PayloadsFit).                                  *)
MCMessages ==
  [type  : Types,
   nodes : {s \in UNION {[1..n -> Records] : n \in 1..MaxLength} :
              s[1].nodeID # Self /\ UniqueIDs(s)}]

MCNear   == {[pos |-> 0, coordRange |-> 1]}
MCPlaces == MCNear \cup {[pos |-> 5, coordRange |-> 1]}
=============================================================================
