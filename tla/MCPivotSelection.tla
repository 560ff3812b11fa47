--------------------------- MODULE MCPivotSelection ---------------------------
(* Instances of PivotSelection for TLC: every strongly connected call graph *)
(* on the given functions, self-calls included.                             *)
EXTENDS PivotSelection, TLC

(* The functions are interchangeable: Init takes every graph on them.       *)
NodeSymmetry == Permutations(Nodes)

(* BreaksEveryCycle speaks of sets that can call into themselves.  The      *)
(* reference definition is the usual one: outside P no chain of calls leads *)
(* from a function back to itself.  Compared on every graph of three        *)
(* functions.                                                               *)
Three == CHOOSE S \in SUBSET Nodes : Cardinality(S) = 3

Small == INSTANCE FeedbackSelection
           WITH Nodes <- Three, remaining <- candidates, chosen <- pivotNodes

RECURSIVE ReachedIn(_, _, _)
ReachedIn(g, S, k) ==
    IF k = 0 THEN S ELSE ReachedIn(g, UNION {g[n] : n \in S} \cup S, k - 1)

HasCycleOutside(g, P) ==
    LET h == [n \in Three |-> IF n \in P THEN {} ELSE g[n] \ P] IN
    \E n \in Three : n \in ReachedIn(h, h[n], Cardinality(Three))

ASSUME SelfSustainingIsCyclic ==
    \A g \in [Three -> SUBSET Three], P \in SUBSET Three :
        Small!BreaksEveryCycle(g, P) <=> ~ HasCycleOutside(g, P)
=============================================================================
