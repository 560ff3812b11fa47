-------------------------- MODULE MCRecursionMonitor --------------------------
(* Instances of RecursionMonitor for TLC, with distinct digests for         *)
(* distinct states and the sampling tiers scaled down.                      *)
EXTENDS RecursionMonitor, TLC

(* 1000 / 100, 10000 / 500, 20000 / 1000 and beyond / 5000, in small:       *)
(* depths 2, 4, 6 and 10 are recorded; the last range has no end in reach.  *)
MCTiers == { [above |-> 0,  upto |-> 4,   every |-> 2],
             [above |-> 4,  upto |-> 8,   every |-> 3],
             [above |-> 8,  upto |-> 100, every |-> 5] }

MCDigest == [s \in States |-> s]

StateSymmetry == Permutations(States)
=============================================================================
