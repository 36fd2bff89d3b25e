------------------------- MODULE MCDuplicateRemoval -------------------------
(* All arrays of up to MaxLength records, with few identifiers and time    *)
(* stamps; the position tells two records of equal age apart.              *)
EXTENDS DuplicateRemoval

CONSTANTS Idents, Stamps, Positions, MaxLength

MCInputs ==
  UNION {[1..n -> {NewNode(id, 0, pos, 0, ts) :
                     id \in Idents, pos \in Positions, ts \in Stamps}] :
           n \in 0..MaxLength}
=============================================================================
