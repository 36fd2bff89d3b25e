------------------------------- MODULE MCWire -------------------------------
(* A small instance of Wire, with bytes of three bits: collections of up   *)
(* to four nodes, of which two fit the buffer of a peer and four exceed    *)
(* the size of a packet, as 862 and 1725 do in the code.                   *)
EXTENDS Wire

MCHigh == [ nodeID |-> Pow2[4 * ByteBits] - 1, lat |-> (Pow2[SigBits + 1] - 1) * Pow2[Pow2[ExpBits] - 3],
            lon |-> -One, coordRange |-> Pow2[2 * ByteBits] - 1, ipAddr |-> 8, port |-> 7,
            radac_ip |-> 64, radac_port |-> 1, timeStamp |-> 512 ]
MCLow  == [ nodeID |-> 2, lat |-> 0, lon |-> Pow2[SigBits] + 1, coordRange |-> 0,
            ipAddr |-> Pow2[4 * ByteBits] - 2, port |-> Pow2[2 * ByteBits] - 1, radac_ip |-> 0,
            radac_port |-> 8, timeStamp |-> 9 ]
MCTiny == [MCLow EXCEPT !.lat = 1]

MCNodeLists == {<<>>, <<MCTiny>>, <<MCHigh, MCLow>>,
                <<MCLow, MCHigh, MCLow>>, <<MCLow, MCLow, MCHigh, MCHigh>>}

MCCollections ==
  {[versionID |-> 1, payloadType |-> 1, nodes |-> s] : s \in MCNodeLists}

(* Zero, one and the normal numbers at both ends; a number without a full  *)
(* significand; an infinity.                                               *)
MCPositions ==
  {[lat |-> 0, lon |-> 3 * One],
   [lat |-> -(Pow2[SigBits]), lon |-> MCHigh.lat],
   [lat |-> Pow2[SigBits] - 1, lon |-> -One],
   [lat |-> One + One \div 4, lon |-> -Infinity]}

MCPaths == {<<1>>, <<1, 7, 1, 1, 1>>}
=============================================================================
