---------------------------- MODULE PivotSelection ----------------------------
(***************************************************************************)
(* SCCParser::link and SCCPruning (llvm_mode/afl-llvm-pass.so.cc): which   *)
(* functions of a strongly connected component of the call graph get the   *)
(* recursion monitor.  Functions are taken as pivots, and after each pivot *)
(* the functions that can no longer reach a cycle are pruned recursively.  *)
(*                                                                         *)
(* Abstracted: a CallGraphNode is a model value; its call records are the  *)
(* set of distinct targets inside the component (visitedCG drops           *)
(* duplicates, std::find drops the rest).  Containers ordered by pointer   *)
(* value (set, map) and the order of the SCC vector depend on the          *)
(* allocator, so each iteration order is a nondeterministic choice.        *)
(***************************************************************************)
EXTENDS Integers, Sequences, FiniteSets

CONSTANTS
    Nodes,              \* the component: vector<CallGraphNode*> SCC
    NoNode              \* the value of `pivot` before it is assigned

ASSUME NodesFinite == IsFiniteSet(Nodes) /\ Nodes # {}
ASSUME NoNodeIsNone == NoNode \notin Nodes

VARIABLES
    calls,              \* calls[n]: distinct targets in the component
    unread,             \* functions the first loop of link has still to read
    preNodes,           \* preNodes[t]: the callers of t read so far
    outDegree,          \* map<CallGraphNode*, int>, entries erased on the way
    maxDegree,
    candidates,         \* candidateNodes
    pivot,
    pivotNodes,         \* the result
    stack,              \* the nested calls of SCCPruning, innermost first
    todo,               \* todo[m]: allPreNodes still to visit in m's call
    pc                  \* where link is

vars == <<calls, unread, preNodes, outDegree, maxDegree, candidates, pivot,
          pivotNodes, stack, todo, pc>>

Abstract == INSTANCE FeedbackSelection
              WITH remaining <- (unread \cup candidates) \ pivotNodes, chosen <- pivotNodes

-----------------------------------------------------------------------------
Init ==
    /\ calls \in Abstract!Components
    /\ unread = Nodes
    /\ preNodes = [n \in Nodes |-> {}]
    /\ outDegree = [n \in {} |-> 0]
    /\ maxDegree = 0
    /\ candidates = {}
    /\ pivot = NoNode
    /\ pivotNodes = {}
    /\ stack = << >>
    /\ todo = [n \in Nodes |-> {}]
    /\ pc = "link"

(* erase(n) on the degree map *)
DegreeKept(deg, n) == deg                               \* fault: no erase
DegreeNegated(deg, n) == [deg EXCEPT ![n] = -1]         \* fault: marked, not erased
WithoutDegree(deg, n) == [m \in DOMAIN deg \ {n} |-> deg[m]]

(* The distinct callees of n in the component, n itself included. *)
DegreeBesidesSelf(n) == Cardinality(calls[n] \ {n})     \* fault: self-calls missed
DegreeBeyondFirst(n) == Cardinality(calls[n]) - 1       \* fault: off by one
Degree(n) == Cardinality(calls[n])

(* One round of the first loop: count the distinct callees of n, file n    *)
(* under each of them, and keep the first function of greatest degree.     *)
Link(n) ==
    LET degree == Degree(n) IN
    /\ pc = "link"
    /\ n \in unread
    /\ unread' = unread \ {n}
    /\ preNodes' = [t \in Nodes |-> IF t \in calls[n] THEN preNodes[t] \cup {n}
                                                      ELSE preNodes[t]]
    /\ outDegree' = [m \in DOMAIN outDegree \cup {n} |->
                        IF m = n THEN degree ELSE outDegree[m]]
    /\ candidates' = candidates \cup {n}
    /\ IF degree > maxDegree
         THEN maxDegree' = degree /\ pivot' = n
         ELSE UNCHANGED <<maxDegree, pivot>>
    /\ UNCHANGED <<calls, pivotNodes, stack, todo, pc>>

FirstPivot ==
    /\ pc = "link"
    /\ unread = {}
    /\ pivotNodes' = IF pivot # NoNode THEN {pivot} ELSE {}
    /\ pc' = "erase"
    /\ UNCHANGED <<calls, unread, preNodes, outDegree, maxDegree, candidates,
                   pivot, stack, todo>>

(* The head of the while loop: the pivot leaves both containers.  With no  *)
(* candidate left the loop breaks, otherwise SCCPruning(pivot) is entered. *)
ErasePivot ==
    /\ pc = "erase"
    /\ candidates' = candidates \ {pivot}
    /\ outDegree' = WithoutDegree(outDegree, pivot)
    /\ IF candidates' = {}
         THEN pc' = "done" /\ UNCHANGED <<stack, todo>>
         ELSE /\ pc' = "prune"
              /\ stack' = <<pivot>>
              /\ todo' = [todo EXCEPT ![pivot] = preNodes[pivot]]
    /\ UNCHANGED <<calls, unread, preNodes, maxDegree, pivot, pivotNodes>>

(* The next caller p that the innermost SCCPruning looks at.               *)
Visits(p) ==
    /\ pc = "prune"
    /\ stack # << >>
    /\ p \in todo[Head(stack)]

(* p was erased earlier: candidate.find(preIt) fails. *)
SkipErased(p) ==
    /\ Visits(p)
    /\ p \notin candidates
    /\ todo' = [todo EXCEPT ![Head(stack)] = @ \ {p}]
    /\ UNCHANGED <<calls, unread, preNodes, outDegree, maxDegree, candidates,
                   pivot, pivotNodes, stack, pc>>

(* p keeps a callee among the candidates. *)
LoseCallee(p) ==
    /\ Visits(p)
    /\ p \in candidates
    /\ outDegree[p] - 1 > 0
    /\ outDegree' = [outDegree EXCEPT ![p] = @ - 1]
    /\ todo' = [todo EXCEPT ![Head(stack)] = @ \ {p}]
    /\ UNCHANGED <<calls, unread, preNodes, maxDegree, candidates, pivot,
                   pivotNodes, stack, pc>>

(* p has lost its last callee: it is erased and SCCPruning(p) is entered.  *)
Prune(p) ==
    /\ Visits(p)
    /\ p \in candidates
    /\ outDegree[p] - 1 <= 0
    /\ candidates' = candidates \ {p}
    /\ outDegree' = WithoutDegree(outDegree, p)
    /\ stack' = <<p>> \o stack
    /\ todo' = [todo EXCEPT ![Head(stack)] = @ \ {p}, ![p] = preNodes[p]]
    /\ UNCHANGED <<calls, unread, preNodes, maxDegree, pivot, pivotNodes, pc>>

PruneReturns ==
    /\ pc = "prune"
    /\ stack # << >>
    /\ todo[Head(stack)] = {}
    /\ stack' = Tail(stack)
    /\ UNCHANGED <<calls, unread, preNodes, outDegree, maxDegree, candidates,
                   pivot, pivotNodes, todo, pc>>

(* What the scan over outDegree finds. *)
CyclicTwice == {n \in DOMAIN outDegree : outDegree[n] > 1}   \* fault: off by one
Cyclic == {n \in DOMAIN outDegree : outDegree[n] > 0}

(* The scan over outDegree.  maxDegree is reset but never raised, so the   *)
(* pivot is whichever function of positive degree the map lists last.      *)
NextPivot(n) ==
    /\ pc = "prune"
    /\ stack = << >>
    /\ n \in Cyclic
    /\ maxDegree' = 0
    /\ pivot' = n
    /\ pivotNodes' = pivotNodes \cup {n}
    /\ pc' = "erase"
    /\ UNCHANGED <<calls, unread, preNodes, outDegree, candidates, stack, todo>>

(* isSCC stays false: the old pivot is inserted again and the loop ends.   *)
NoMoreCycles ==
    /\ pc = "prune"
    /\ stack = << >>
    /\ Cyclic = {}
    /\ maxDegree' = 0
    /\ pivotNodes' = pivotNodes \cup {pivot}
    /\ pc' = "done"
    /\ UNCHANGED <<calls, unread, preNodes, outDegree, candidates, pivot, stack, todo>>

(* link has returned. *)
Returned == pc = "done" /\ UNCHANGED vars

LinkLoop == \E n \in Nodes : Link(n)
PruneLoop == \E p \in Nodes : SkipErased(p) \/ LoseCallee(p) \/ Prune(p)
PickLoop == \E n \in Nodes : NextPivot(n)

Step ==
    \/ LinkLoop
    \/ FirstPivot
    \/ ErasePivot
    \/ PruneLoop
    \/ PruneReturns
    \/ PickLoop
    \/ NoMoreCycles

Next == Step \/ Returned

Spec == Init /\ [][Next]_vars

-----------------------------------------------------------------------------
TypeOK ==
    /\ calls \in [Nodes -> SUBSET Nodes]
    /\ unread \in SUBSET Nodes
    /\ preNodes \in [Nodes -> SUBSET Nodes]
    /\ DOMAIN outDegree \in SUBSET Nodes
    /\ outDegree \in [DOMAIN outDegree -> Nat]
    /\ maxDegree \in Nat
    /\ candidates \in SUBSET Nodes
    /\ pivot \in Nodes \cup {NoNode}
    /\ pivotNodes \in SUBSET Nodes
    /\ stack \in Seq(Nodes)
    /\ todo \in [Nodes -> SUBSET Nodes]
    /\ pc \in {"link", "erase", "prune", "done"}

(* The callees of n that still count: candidates, and erased functions     *)
(* whose SCCPruning call has not yet come to n.                            *)
Counted(n) == {m \in calls[n] : m \in candidates \/ n \in todo[m]}

(* outDegree, decremented in the middle of nested SCCPruning calls, is     *)
(* exactly the number of callees that still count; a candidate that has    *)
(* none is gone.  The degree map and the candidate set stay in step.       *)
DegreeExact ==
    /\ DOMAIN outDegree = candidates
    /\ pc # "link" =>
         \A n \in candidates : outDegree[n] = Cardinality(Counted(n)) /\ outDegree[n] > 0

(* The pivot that leaves the loop body or is first inserted was assigned   *)
(* (the local is declared without an initializer) and was still a          *)
(* candidate when it was chosen.                                           *)
PivotAssigned ==
    /\ pc # "link" => pivot \in pivotNodes /\ pivot \in Nodes
    /\ pc = "erase" => pivotNodes \cap candidates = {pivot}
    /\ pc = "prune" => pivotNodes \cap candidates = {}

(* What the instrumentation relies on: when link returns, a chain of calls *)
(* in the component cannot go on for ever without entering a pivot.        *)
PivotsBreakEveryCycle ==
    pc = "done" => Abstract!BreaksEveryCycle(calls, pivotNodes)

(* link leaves no candidate behind, whichever of its two exits it takes.   *)
NothingLeft == pc = "done" => candidates = {} /\ stack = << >>

(* The selection loop implements choose-or-drop.                           *)
ImplementsSelection == Abstract!ASpec

(* link returns on every component: each step that is not the return       *)
(* lowers this number, although pruning adds visits and nested calls.      *)
Visiting == {e \in Nodes \X Nodes : e[2] \in todo[e[1]]}
PhaseRank == CASE pc = "link" -> 3 [] pc = "prune" -> 2 [] pc = "erase" -> 1 [] pc = "done" -> 0
Variant ==
    (Cardinality(unread) + Cardinality(unread \cup candidates)) * (Cardinality(Nodes) + 3)
      + Cardinality(Visiting) + Len(stack) + PhaseRank

SelectionAdvances == [][Variant' < Variant]_vars
=============================================================================
