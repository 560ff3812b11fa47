------------------------- MODULE MCRecursionDivergence -------------------------
(* Instances of RecursionDivergence for TLC: every program on the states.   *)
EXTENDS RecursionDivergence

(* Depths 2, 4, 6 and 10 are recorded.                                      *)
MCTiers == { [above |-> 0,  upto |-> 4,   every |-> 2],
             [above |-> 4,  upto |-> 8,   every |-> 3],
             [above |-> 8,  upto |-> 100, every |-> 5] }

MCDigest == [s \in States |-> s]
=============================================================================
