------------------------------ MODULE MCConfig ------------------------------
(* Instances of Config: the sizes of examples/p2p-dprd.cfg, sizes at the   *)
(* hard limit and sizes whose sums do not fit 16 bits.                     *)
EXTENDS Config

MCSizeChoices ==
  {[PROTO_N |-> 10, PROTO_M |-> 200, PROTO_K |-> 40],
   [PROTO_N |-> 10000, PROTO_M |-> 10000, PROTO_K |-> 10000],
   [PROTO_N |-> 40000, PROTO_M |-> 40000, PROTO_K |-> 40000]}
=============================================================================
