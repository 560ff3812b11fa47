-------------------------- MODULE FeedbackSelection --------------------------
(***************************************************************************)
(* What choosing the functions to instrument promises, whatever the        *)
(* bookkeeping: a strongly connected component of the call graph is taken  *)
(* apart by choosing functions, and by dropping a function only when it no *)
(* longer calls any function that is left.  PivotSelection (the code's     *)
(* SCCParser::link and SCCPruning) is shown to implement this.             *)
(***************************************************************************)

CONSTANT Nodes          \* the functions of one component (CallGraphNode*)

VARIABLES
    calls,              \* calls[n]: the functions of the component n calls
    remaining,          \* neither chosen nor dropped
    chosen              \* the functions that will be instrumented

avars == <<calls, remaining, chosen>>

-----------------------------------------------------------------------------
(* scc_iterator yields a strongly connected component: no proper part of   *)
(* it is closed under calls.  hasLoop() leaves out a lone function that    *)
(* does not call itself.                                                   *)

StronglyConnected(g) ==
    \A S \in SUBSET Nodes :
        S # {} /\ S # Nodes => \E n \in S : \E m \in Nodes \ S : m \in g[n]

HasLoop(g) == (\E n \in Nodes : Nodes = {n}) => \E n \in Nodes : n \in g[n]

Components == {g \in [Nodes -> SUBSET Nodes] : StronglyConnected(g) /\ HasLoop(g)}

(* Every function of C can call into C again: C contains a call cycle.     *)
SelfSustaining(g, C) ==
    /\ C # {}
    /\ \A n \in C : g[n] \cap C # {}

(* Every call cycle of the component passes through P.                     *)
BreaksEveryCycle(g, P) == \A C \in SUBSET (Nodes \ P) : ~ SelfSustaining(g, C)

-----------------------------------------------------------------------------
AInit ==
    /\ calls \in Components
    /\ remaining = Nodes
    /\ chosen = {}

Choose(n) ==
    /\ n \in remaining
    /\ remaining' = remaining \ {n}
    /\ chosen' = chosen \cup {n}
    /\ UNCHANGED calls

Drop(n) ==
    /\ n \in remaining
    /\ calls[n] \cap remaining = {}
    /\ remaining' = remaining \ {n}
    /\ UNCHANGED <<calls, chosen>>

ANext == \E n \in Nodes : Choose(n) \/ Drop(n)

ASpec == AInit /\ [][ANext]_avars

-----------------------------------------------------------------------------
ATypeOK ==
    /\ calls \in [Nodes -> SUBSET Nodes]
    /\ remaining \in SUBSET Nodes
    /\ chosen \in SUBSET Nodes

(* The inductive core: a set of functions that can keep calling itself     *)
(* without entering a chosen function is still there in full.              *)
CyclesRemain ==
    \A C \in SUBSET (Nodes \ chosen) : SelfSustaining(calls, C) => C \subseteq remaining
=============================================================================
