------------------------------ MODULE Pass_proofs ------------------------------
(***************************************************************************)
(* The part of the pass that looks for recursions.                         *)
(*                                                                         *)
(* PivotSelection, for every finite component: the type invariant, the     *)
(* exactness of the degree bookkeeping under the nested pruning calls, that *)
(* the selection implements FeedbackSelection, and that the pivots break    *)
(* every call cycle.                                                       *)
(*                                                                         *)
(* StateChoice: the walk of getPath is exhaustive: a path is walked for     *)
(* every way through the blocks that meets none twice, although the stack   *)
(* is all it remembers.  And what the visitor notes on the walk lies        *)
(* between two bounds: no argument is chosen that cannot matter, and none   *)
(* is missing that surely does.                                            *)
(***************************************************************************)
EXTENDS PivotSelection, StateChoice, NaturalSets

-----------------------------------------------------------------------------
(* The choice of the pivots. *)

(* A pending visit belongs to a call of SCCPruning that is on the stack,   *)
(* for a function that is erased already, and goes to one of its callers.  *)
PendingVisits ==
    \A m \in Nodes : todo[m] # {} =>
        /\ m \notin candidates
        /\ \E i \in 1..Len(stack) : stack[i] = m
        /\ todo[m] \subseteq preNodes[m]

(* What link knows of the component while it reads it, and afterwards.     *)
Bookkeeping ==
    /\ \A t \in Nodes : preNodes[t] = {n \in Nodes \ unread : t \in calls[n]}
    /\ pc = "link" => /\ candidates = Nodes \ unread
                      /\ \A n \in candidates : outDegree[n] = Cardinality(calls[n])
                      /\ pivotNodes = {}
                      /\ stack = << >>
                      /\ pivot = NoNode => maxDegree = 0 /\ unread = Nodes
                      /\ pivot # NoNode => pivot \in candidates
    /\ pc # "link" => unread = {}
    /\ pc = "erase" => stack = << >>

Exits == pc = "done" => candidates = {} /\ stack = << >>

IInv ==
    /\ TypeOK
    /\ calls \in Abstract!Components
    /\ Bookkeeping
    /\ PendingVisits
    /\ DegreeExact
    /\ PivotAssigned
    /\ Exits

-----------------------------------------------------------------------------
(* In a component every function calls a function of the component.        *)
LEMMA EveryoneCalls ==
    ASSUME calls \in Abstract!Components, NEW n \in Nodes
    PROVE  calls[n] # {}
<1>1. CASE Nodes = {n}
  BY <1>1 DEF Abstract!Components, Abstract!HasLoop
<1>2. CASE Nodes # {n}
  <2>1. {n} \in SUBSET Nodes /\ {n} # {} /\ {n} # Nodes
    BY <1>2
  <2>2. \E k \in {n} : \E m \in Nodes \ {n} : m \in calls[k]
    BY <2>1 DEF Abstract!Components, Abstract!StronglyConnected
  <2> QED BY <2>2
<1> QED BY <1>1, <1>2

(* A subset of the component is finite; it is empty iff it counts zero.    *)
LEMMA CountNodes ==
    ASSUME NEW S \in SUBSET Nodes
    PROVE  /\ IsFiniteSet(S)
           /\ Cardinality(S) \in Nat
           /\ Cardinality(S) = 0 <=> S = {}
BY NodesFinite, FS_Subset, FS_CardinalityType, FS_EmptySet

(* Taking a counted callee away lowers the count by one.                   *)
LEMMA CountLess ==
    ASSUME NEW S \in SUBSET Nodes, NEW m \in S
    PROVE  Cardinality(S \ {m}) = Cardinality(S) - 1
BY CountNodes, FS_RemoveElement

-----------------------------------------------------------------------------
LEMMA InitInv == Init => IInv
<1> SUFFICES ASSUME Init PROVE IInv
  OBVIOUS
<1> USE NodesFinite, NoNodeIsNone DEF Init
<1>1. TypeOK
  BY DEF TypeOK, Abstract!Components
<1>2. Bookkeeping /\ PendingVisits /\ DegreeExact /\ PivotAssigned /\ Exits
  BY DEF Bookkeeping, PendingVisits, DegreeExact, PivotAssigned, Exits
<1> QED BY <1>1, <1>2 DEF IInv

LEMMA LinkInv == ASSUME IInv, NEW n \in Nodes, Link(n) PROVE IInv'
<1> USE NodesFinite, NoNodeIsNone DEF IInv
<1> DEFINE d == Cardinality(calls[n])
<1>0. /\ pc = "link" /\ pc' = "link" /\ n \in unread /\ calls' = calls
      /\ stack' = stack /\ todo' = todo /\ pivotNodes' = pivotNodes
      /\ unread' = unread \ {n} /\ candidates' = candidates \cup {n}
  BY DEF Link, Degree
<1>1. d \in Nat /\ d > 0
  BY CountNodes, EveryoneCalls DEF TypeOK
<1>2. outDegree' = [m \in DOMAIN outDegree \cup {n} |-> IF m = n THEN d ELSE outDegree[m]]
  BY DEF Link, Degree
<1>3. preNodes' = [t \in Nodes |-> IF t \in calls[n] THEN preNodes[t] \cup {n} ELSE preNodes[t]]
  BY DEF Link, Degree
<1>4. \/ d > maxDegree /\ maxDegree' = d /\ pivot' = n
      \/ d <= maxDegree /\ maxDegree' = maxDegree /\ pivot' = pivot
  BY <1>1 DEF Link, Degree, TypeOK
<1>5. TypeOK'
  <2>1. DOMAIN outDegree' = DOMAIN outDegree \cup {n} /\ outDegree' \in [DOMAIN outDegree' -> Nat]
    BY <1>1, <1>2 DEF TypeOK
  <2>2. preNodes' \in [Nodes -> SUBSET Nodes]
    BY <1>3 DEF TypeOK
  <2> QED BY <1>0, <1>1, <1>4, <2>1, <2>2 DEF TypeOK
<1>6. Bookkeeping'
  <2>1. \A t \in Nodes : preNodes'[t] = {k \in Nodes \ unread' : t \in calls'[k]}
    BY <1>0, <1>3 DEF TypeOK, Bookkeeping
  <2>2. candidates' = Nodes \ unread'
    BY <1>0 DEF TypeOK, Bookkeeping
  <2>3. \A m \in candidates' : outDegree'[m] = Cardinality(calls'[m])
    BY <1>0, <1>2 DEF TypeOK, Bookkeeping, DegreeExact
  <2>4. pivot' # NoNode /\ pivot' \in candidates'
    BY <1>0, <1>1, <1>4 DEF TypeOK, Bookkeeping
  <2> QED BY <1>0, <2>1, <2>2, <2>3, <2>4 DEF Bookkeeping
<1>7. PendingVisits'
  <2>1. \A m \in Nodes : todo[m] = {}
    BY <1>0 DEF PendingVisits, Bookkeeping
  <2> QED BY <1>0, <2>1 DEF PendingVisits
<1>8. DegreeExact' /\ PivotAssigned' /\ Exits'
  BY <1>0, <1>2 DEF DegreeExact, PivotAssigned, Exits, TypeOK
<1> QED BY <1>0, <1>5, <1>6, <1>7, <1>8

LEMMA FirstPivotInv == ASSUME IInv, FirstPivot PROVE IInv'
<1> USE NodesFinite, NoNodeIsNone DEF IInv, FirstPivot
<1>1. pivot \in Nodes /\ candidates = Nodes
  BY DEF Bookkeeping, TypeOK
<1>2. TypeOK' /\ Bookkeeping' /\ PivotAssigned' /\ Exits'
  BY <1>1 DEF TypeOK, Bookkeeping, PivotAssigned, Exits
<1>3. PendingVisits'
  BY DEF PendingVisits
<1>4. DegreeExact'
  <2>1. ASSUME NEW n \in candidates'
        PROVE  outDegree'[n] = Cardinality(Counted(n)') /\ outDegree'[n] > 0
    <3>1. Counted(n)' = calls[n]
      BY <1>1 DEF Counted, TypeOK
    <3>2. n \in Nodes /\ outDegree[n] = Cardinality(calls[n]) /\ outDegree' = outDegree
      BY <1>1 DEF Bookkeeping
    <3>3. calls[n] \in SUBSET Nodes /\ calls[n] # {}
      BY <3>2, EveryoneCalls DEF TypeOK
    <3>4. Cardinality(calls[n]) \in Nat /\ Cardinality(calls[n]) # 0
      BY <3>3, CountNodes
    <3> QED BY <3>1, <3>2, <3>4
  <2> QED BY <2>1 DEF DegreeExact
<1> QED BY <1>2, <1>3, <1>4

(* Removing p from the candidates and at once queueing its callers leaves  *)
(* what every other candidate counts as it was.                            *)
LEMMA CountedUnchanged ==
    ASSUME IInv, unread = {}, NEW p \in candidates, calls' = calls,
           candidates' = candidates \ {p}, NEW n \in candidates',
           todo'[p] = preNodes[p],
           \A m \in Nodes \ {p} : n \in todo'[m] <=> n \in todo[m]
    PROVE  Counted(n)' = Counted(n)
<1>1. p \in calls[n] => n \in todo'[p]
  BY DEF IInv, Bookkeeping, TypeOK
<1>2. calls[n] \subseteq Nodes
  BY DEF IInv, TypeOK
<1> QED BY <1>1, <1>2 DEF Counted, IInv, TypeOK

LEMMA ErasePivotInv == ASSUME IInv, ErasePivot PROVE IInv'
<1> USE NodesFinite, NoNodeIsNone DEF IInv
<1>0. /\ pc = "erase" /\ unread = {} /\ stack = << >> /\ pivot \in candidates
      /\ candidates' = candidates \ {pivot}
      /\ UNCHANGED <<calls, unread, preNodes, maxDegree, pivot, pivotNodes>>
  BY DEF ErasePivot, Bookkeeping, PivotAssigned
<1>1. outDegree' = [m \in DOMAIN outDegree \ {pivot} |-> outDegree[m]]
  BY DEF ErasePivot, WithoutDegree
<1>2. \A m \in Nodes : todo[m] = {}
  BY <1>0 DEF PendingVisits
<1>3. CASE candidates' = {}
  <2>1. pc' = "done" /\ UNCHANGED <<stack, todo>>
    BY <1>3 DEF ErasePivot
  <2>2. TypeOK'
    BY <1>0, <1>1, <2>1 DEF TypeOK
  <2>3. Bookkeeping' /\ PendingVisits' /\ PivotAssigned' /\ Exits'
    BY <1>0, <1>2, <1>3, <2>1 DEF Bookkeeping, PendingVisits, PivotAssigned, Exits
  <2>4. DegreeExact'
    BY <1>0, <1>1, <1>3 DEF DegreeExact, TypeOK
  <2> QED BY <1>0, <2>2, <2>3, <2>4
<1>4. CASE candidates' # {}
  <2>1. pc' = "prune" /\ stack' = <<pivot>> /\ todo' = [todo EXCEPT ![pivot] = preNodes[pivot]]
    BY <1>4 DEF ErasePivot
  <2>2. pivot \in Nodes
    BY <1>0 DEF TypeOK
  <2>3. TypeOK'
    BY <1>0, <1>1, <2>1, <2>2 DEF TypeOK
  <2>4. Bookkeeping' /\ PivotAssigned' /\ Exits'
    BY <1>0, <2>1 DEF Bookkeeping, PivotAssigned, Exits
  <2>5. PendingVisits'
    <3>1. Len(stack') = 1 /\ stack'[1] = pivot
      BY <2>1
    <3>2. \A m \in Nodes : todo'[m] # {} => m = pivot
      BY <1>2, <2>1 DEF TypeOK
    <3> QED BY <1>0, <2>1, <2>2, <3>1, <3>2 DEF PendingVisits, TypeOK
  <2>6. DegreeExact'
    <3>1. ASSUME NEW n \in candidates'
          PROVE  outDegree'[n] = Cardinality(Counted(n)') /\ outDegree'[n] > 0
      <4>1. Counted(n)' = Counted(n)
        BY <1>0, <1>2, <2>1, CountedUnchanged DEF TypeOK
      <4> QED BY <1>0, <1>1, <4>1 DEF DegreeExact
    <3>2. DOMAIN outDegree' = candidates'
      BY <1>0, <1>1 DEF DegreeExact
    <3> QED BY <3>1, <3>2 DEF DegreeExact
  <2> QED BY <1>0, <2>3, <2>4, <2>5, <2>6
<1> QED BY <1>3, <1>4

-----------------------------------------------------------------------------
(* The innermost call runs for an erased function whose caller p it visits.*)
LEMMA VisitFacts ==
    ASSUME IInv, NEW p \in Nodes, Visits(p)
    PROVE  LET m == Head(stack) IN
           /\ pc = "prune" /\ unread = {} /\ m \in Nodes /\ m \notin candidates
           /\ p \in todo[m] /\ m \in calls[p] /\ m \in Counted(p)
           /\ stack # << >> /\ stack \in Seq(Nodes)
<1> DEFINE m == Head(stack)
<1>1. m \in Nodes /\ p \in todo[m] /\ pc = "prune" /\ unread = {}
  BY DEF Visits, IInv, TypeOK, Bookkeeping
<1>2. m \notin candidates /\ p \in preNodes[m]
  BY <1>1 DEF IInv, PendingVisits
<1>3. m \in calls[p]
  BY <1>1, <1>2 DEF IInv, Bookkeeping
<1> QED BY <1>1, <1>2, <1>3 DEF Counted, Visits, IInv, TypeOK

(* Ticking off p in the innermost call keeps the pending visits in order.  *)
LEMMA TickedOff ==
    ASSUME IInv, NEW p \in Nodes, Visits(p),
           todo' = [todo EXCEPT ![Head(stack)] = @ \ {p}],
           UNCHANGED <<candidates, preNodes, stack>>
    PROVE  PendingVisits'
<1>1. \A k \in Nodes : todo'[k] \subseteq todo[k]
  BY DEF IInv, TypeOK
<1> QED BY <1>1 DEF IInv, PendingVisits

LEMMA SkipErasedInv == ASSUME IInv, NEW p \in Nodes, SkipErased(p) PROVE IInv'
<1> USE DEF IInv
<1>1. Visits(p) /\ p \notin candidates /\ todo' = [todo EXCEPT ![Head(stack)] = @ \ {p}]
  BY DEF SkipErased
<1>2. UNCHANGED <<calls, unread, preNodes, outDegree, maxDegree, candidates, pivot, pivotNodes, stack, pc>>
  BY DEF SkipErased
<1>3. TypeOK' /\ Bookkeeping' /\ PivotAssigned' /\ Exits'
  BY <1>1, <1>2 DEF TypeOK, Bookkeeping, PivotAssigned, Exits
<1>4. PendingVisits'
  BY <1>1, <1>2, TickedOff
<1>5. DegreeExact'
  <2>1. \A n \in candidates, m \in Nodes : n \in todo'[m] <=> n \in todo[m]
    BY <1>1 DEF TypeOK
  <2>2. \A n \in candidates : Counted(n)' = Counted(n)
    BY <1>2, <2>1 DEF Counted, TypeOK
  <2> QED BY <1>2, <2>2 DEF DegreeExact
<1> QED BY <1>2, <1>3, <1>4, <1>5

LEMMA LoseCalleeInv == ASSUME IInv, NEW p \in Nodes, LoseCallee(p) PROVE IInv'
<1> USE DEF IInv
<1> DEFINE top == Head(stack)
<1>1. /\ Visits(p) /\ p \in candidates /\ outDegree[p] - 1 > 0
      /\ todo' = [todo EXCEPT ![top] = @ \ {p}]
      /\ outDegree' = [outDegree EXCEPT ![p] = @ - 1]
  BY DEF LoseCallee
<1>2. UNCHANGED <<calls, unread, preNodes, maxDegree, candidates, pivot, pivotNodes, stack, pc>>
  BY DEF LoseCallee
<1>3. /\ pc = "prune" /\ top \in Nodes /\ top \notin candidates
      /\ p \in todo[top] /\ top \in calls[p] /\ top \in Counted(p)
  BY <1>1, VisitFacts
<1>4. p \in DOMAIN outDegree /\ DOMAIN outDegree = candidates
  BY <1>1 DEF DegreeExact
<1>5. TypeOK'
  <2>1. outDegree' \in [DOMAIN outDegree' -> Nat] /\ DOMAIN outDegree' = DOMAIN outDegree
    BY <1>1, <1>4 DEF TypeOK
  <2> QED BY <1>1, <1>2, <2>1 DEF TypeOK
<1>6. Bookkeeping' /\ PivotAssigned' /\ Exits'
  BY <1>2, <1>3 DEF Bookkeeping, PivotAssigned, Exits
<1>7. PendingVisits'
  BY <1>1, <1>2, TickedOff
<1>8. DegreeExact'
  <2>1. \A n \in Nodes \ {p}, m \in Nodes : n \in todo'[m] <=> n \in todo[m]
    BY <1>1 DEF TypeOK
  <2>2. \A n \in candidates \ {p} : Counted(n)' = Counted(n)
    BY <1>2, <2>1 DEF Counted, TypeOK
  <2>3. Counted(p)' = Counted(p) \ {top}
    <3>1. \A m \in Nodes : p \in todo'[m] <=> p \in todo[m] /\ m # top
      BY <1>1 DEF TypeOK
    <3> QED BY <1>2, <1>3, <3>1 DEF Counted, TypeOK
  <2>4. Cardinality(Counted(p)') = Cardinality(Counted(p)) - 1
    <3>1. Counted(p) \in SUBSET Nodes
      BY DEF Counted, TypeOK
    <3> QED BY <1>3, <2>3, <3>1, CountLess
  <2>5. outDegree'[p] = Cardinality(Counted(p)') /\ outDegree'[p] > 0
    BY <1>1, <1>3, <1>4, <2>4 DEF DegreeExact
  <2>6. \A n \in candidates \ {p} : outDegree'[n] = outDegree[n]
    BY <1>1, <1>4
  <2>7. \A n \in candidates' : outDegree'[n] = Cardinality(Counted(n)') /\ outDegree'[n] > 0
    BY <1>2, <1>3, <2>2, <2>5, <2>6 DEF DegreeExact
  <2> QED BY <1>1, <1>2, <1>4, <2>7 DEF DegreeExact
<1> QED BY <1>2, <1>5, <1>6, <1>7, <1>8

LEMMA PruneInv == ASSUME IInv, NEW p \in Nodes, Prune(p) PROVE IInv'
<1> USE DEF IInv
<1> DEFINE top == Head(stack)
<1>1. /\ Visits(p) /\ p \in candidates
      /\ candidates' = candidates \ {p}
      /\ outDegree' = [m \in DOMAIN outDegree \ {p} |-> outDegree[m]]
      /\ stack' = <<p>> \o stack
      /\ todo' = [todo EXCEPT ![top] = @ \ {p}, ![p] = preNodes[p]]
  BY DEF Prune, WithoutDegree
<1>2. UNCHANGED <<calls, unread, preNodes, maxDegree, pivot, pivotNodes, pc>>
  BY DEF Prune
<1>3. /\ pc = "prune" /\ unread = {} /\ top \in Nodes /\ top \notin candidates /\ top # p
      /\ stack \in Seq(Nodes)
  BY <1>1, VisitFacts
<1>4. /\ todo'[p] = preNodes[p] /\ todo'[top] = todo[top] \ {p}
      /\ \A m \in Nodes \ {p, top} : todo'[m] = todo[m]
      /\ todo' \in [Nodes -> SUBSET Nodes]
  BY <1>1, <1>3 DEF TypeOK
<1>5. TypeOK'
  <2>1. outDegree' \in [DOMAIN outDegree' -> Nat] /\ DOMAIN outDegree' \in SUBSET Nodes
    BY <1>1 DEF TypeOK
  <2>2. stack' \in Seq(Nodes)
    BY <1>1, <1>3
  <2> QED BY <1>1, <1>2, <1>4, <2>1, <2>2 DEF TypeOK
<1>6. Bookkeeping' /\ PivotAssigned' /\ Exits'
  BY <1>1, <1>2, <1>3 DEF Bookkeeping, PivotAssigned, Exits
<1>7. PendingVisits'
  <2>1. /\ Len(stack') = Len(stack) + 1 /\ stack'[1] = p
        /\ \A i \in 1..Len(stack) : stack'[i + 1] = stack[i] /\ i + 1 \in 1..Len(stack')
    BY <1>1, <1>3
  <2>2. ASSUME NEW m \in Nodes, todo'[m] # {}
        PROVE  /\ m \notin candidates'
               /\ \E i \in 1..Len(stack') : stack'[i] = m
               /\ todo'[m] \subseteq preNodes'[m]
    <3>1. CASE m = p
      BY <1>1, <1>2, <1>3, <1>4, <2>1, <3>1
    <3>2. CASE m # p
      <4>1. todo[m] # {} /\ todo'[m] \subseteq todo[m]
        BY <1>4, <2>2, <3>2
      <4>2. PICK i \in 1..Len(stack) : stack[i] = m
        BY <4>1 DEF PendingVisits
      <4> QED BY <1>1, <1>2, <2>1, <4>1, <4>2 DEF PendingVisits
    <3> QED BY <3>1, <3>2
  <2> QED BY <2>2 DEF PendingVisits
<1>8. DegreeExact'
  <2>1. DOMAIN outDegree' = candidates'
    BY <1>1 DEF DegreeExact
  <2>2. ASSUME NEW n \in candidates'
        PROVE  outDegree'[n] = Cardinality(Counted(n)') /\ outDegree'[n] > 0
    <3>1. \A m \in Nodes \ {p} : n \in todo'[m] <=> n \in todo[m]
      BY <1>1, <1>3, <1>4, <2>2
    <3>2. Counted(n)' = Counted(n)
      BY <1>1, <1>2, <1>3, <1>4, <3>1, CountedUnchanged
    <3> QED BY <1>1, <1>3, <3>2 DEF DegreeExact
  <2> QED BY <2>1, <2>2 DEF DegreeExact
<1> QED BY <1>2, <1>5, <1>6, <1>7, <1>8

LEMMA PruneReturnsInv == ASSUME IInv, PruneReturns PROVE IInv'
<1> USE DEF IInv
<1>1. /\ pc = "prune" /\ stack # << >> /\ todo[Head(stack)] = {} /\ stack' = Tail(stack)
      /\ stack \in Seq(Nodes)
  BY DEF PruneReturns, TypeOK
<1>2. UNCHANGED <<calls, unread, preNodes, outDegree, maxDegree, candidates, pivot, pivotNodes, todo, pc>>
  BY DEF PruneReturns
<1>3. TypeOK' /\ Bookkeeping' /\ PivotAssigned' /\ Exits'
  BY <1>1, <1>2 DEF TypeOK, Bookkeeping, PivotAssigned, Exits
<1>4. PendingVisits'
  <2>1. ASSUME NEW m \in Nodes, todo[m] # {}
        PROVE  \E j \in 1..Len(stack') : stack'[j] = m
    <3>1. PICK i \in 1..Len(stack) : stack[i] = m
      BY <2>1 DEF PendingVisits
    <3>2. i # 1
      BY <1>1, <2>1, <3>1
    <3>3. i - 1 \in 1..Len(stack') /\ stack'[i - 1] = stack[i]
      BY <1>1, <3>1, <3>2
    <3> QED BY <3>1, <3>3
  <2> QED BY <1>2, <2>1 DEF PendingVisits
<1>5. DegreeExact'
  BY <1>2 DEF DegreeExact, Counted
<1> QED BY <1>2, <1>3, <1>4, <1>5

LEMMA NextPivotInv == ASSUME IInv, NEW n \in Nodes, NextPivot(n) PROVE IInv'
<1> USE DEF IInv
<1>1. /\ pc = "prune" /\ stack = << >> /\ n \in candidates /\ pc' = "erase"
      /\ pivot' = n /\ pivotNodes' = pivotNodes \cup {n} /\ maxDegree' = 0
  BY DEF NextPivot, Cyclic, DegreeExact
<1>2. UNCHANGED <<calls, unread, preNodes, outDegree, candidates, stack, todo>>
  BY DEF NextPivot, Cyclic
<1>3. TypeOK' /\ Bookkeeping' /\ PivotAssigned' /\ Exits'
  BY <1>1, <1>2 DEF TypeOK, Bookkeeping, PivotAssigned, Exits
<1>4. PendingVisits' /\ DegreeExact'
  <2>1. PendingVisits'
    BY <1>2 DEF PendingVisits
  <2>2. \A k \in candidates : Counted(k)' = Counted(k)
    BY <1>2 DEF Counted
  <2> QED BY <1>1, <1>2, <2>1, <2>2 DEF DegreeExact
<1> QED BY <1>2, <1>3, <1>4

LEMMA NoMoreCyclesInv == ASSUME IInv, NoMoreCycles PROVE IInv'
<1> USE DEF IInv
<1>1. /\ pc = "prune" /\ stack = << >> /\ pc' = "done" /\ maxDegree' = 0
      /\ pivotNodes' = pivotNodes \cup {pivot}
  BY DEF NoMoreCycles
<1>2. UNCHANGED <<calls, unread, preNodes, outDegree, candidates, pivot, stack, todo>>
  BY DEF NoMoreCycles
<1>3. candidates = {}
  <2>1. {n \in DOMAIN outDegree : outDegree[n] > 0} = {}
    BY DEF NoMoreCycles, Cyclic
  <2> QED BY <1>1, <2>1 DEF DegreeExact, TypeOK
<1>4. pivot \in pivotNodes /\ pivot \in Nodes
  BY <1>1 DEF PivotAssigned
<1>5. TypeOK' /\ Bookkeeping' /\ PivotAssigned' /\ Exits'
  BY <1>1, <1>2, <1>3, <1>4 DEF TypeOK, Bookkeeping, PivotAssigned, Exits
<1>6. PendingVisits' /\ DegreeExact'
  <2>1. PendingVisits'
    BY <1>2 DEF PendingVisits
  <2>2. \A k \in candidates : Counted(k)' = Counted(k)
    BY <1>2 DEF Counted
  <2> QED BY <1>1, <1>2, <2>1, <2>2 DEF DegreeExact
<1> QED BY <1>2, <1>5, <1>6

LEMMA NextInv == IInv /\ [Next]_vars => IInv'
<1> SUFFICES ASSUME IInv, [Next]_vars PROVE IInv'
  OBVIOUS
<1>1. CASE LinkLoop
  BY <1>1, LinkInv DEF LinkLoop
<1>2. CASE FirstPivot
  BY <1>2, FirstPivotInv
<1>3. CASE ErasePivot
  BY <1>3, ErasePivotInv
<1>4. CASE PruneLoop
  BY <1>4, SkipErasedInv, LoseCalleeInv, PruneInv DEF PruneLoop
<1>5. CASE PruneReturns
  BY <1>5, PruneReturnsInv
<1>6. CASE PickLoop
  BY <1>6, NextPivotInv DEF PickLoop
<1>7. CASE NoMoreCycles
  BY <1>7, NoMoreCyclesInv
<1>8. CASE UNCHANGED vars
  BY <1>8 DEF vars, IInv, TypeOK, Bookkeeping, PendingVisits, DegreeExact,
              Counted, PivotAssigned, Exits
<1> QED BY <1>1, <1>2, <1>3, <1>4, <1>5, <1>6, <1>7, <1>8 DEF Next, Step, Returned

(* The inductive invariant holds throughout.                               *)
THEOREM InductiveInvariant == Spec => []IInv
BY InitInv, NextInv, PTL DEF Spec

(* Type correctness of the selection's state.                              *)
THEOREM TypeCorrect == Spec => []TypeOK
<1>1. IInv => TypeOK
  BY DEF IInv
<1> QED BY <1>1, InductiveInvariant, PTL

(* outDegree counts exactly the callees that can still lead to a cycle, at *)
(* every point of the nested SCCPruning calls.                             *)
THEOREM DegreesAreExact == Spec => []DegreeExact
<1>1. IInv => DegreeExact
  BY DEF IInv
<1> QED BY <1>1, InductiveInvariant, PTL

(* pivot is never used before it is assigned, and no function is chosen    *)
(* after it was pruned.                                                    *)
THEOREM PivotIsAssigned == Spec => []PivotAssigned
<1>1. IInv => PivotAssigned
  BY DEF IInv
<1> QED BY <1>1, InductiveInvariant, PTL

(* Both exits of link leave no candidate.                                  *)
THEOREM NoCandidateLeft == Spec => []NothingLeft
<1>1. IInv => NothingLeft
  BY DEF IInv, Exits, NothingLeft
<1> QED BY <1>1, InductiveInvariant, PTL

-----------------------------------------------------------------------------
(* Refinement: an insertion into pivotNodes is Choose, an erasure inside   *)
(* SCCPruning is Drop, everything else changes nothing the abstract        *)
(* specification sees.                                                     *)
Remaining == (unread \cup candidates) \ pivotNodes

LEMMA InitRefines == Init => Abstract!AInit
BY DEF Init, Abstract!AInit

LEMMA PruneRefines ==
    ASSUME IInv, NEW p \in Nodes, Prune(p)
    PROVE  Abstract!Drop(p)
<1>1. /\ Visits(p) /\ p \in candidates /\ outDegree[p] - 1 <= 0
      /\ candidates' = candidates \ {p}
      /\ UNCHANGED <<calls, unread, pivotNodes>>
  BY DEF Prune
<1>2. /\ pc = "prune" /\ unread = {} /\ Head(stack) \notin candidates
      /\ Head(stack) \in Counted(p)
  BY <1>1, VisitFacts
<1>3. pivotNodes \cap candidates = {}
  BY <1>2 DEF IInv, PivotAssigned
<1>4. Cardinality(Counted(p)) = 1
  BY <1>1, <1>2, CountNodes DEF IInv, DegreeExact, TypeOK
<1>5. Counted(p) \in SUBSET Nodes
  BY DEF IInv, TypeOK, Counted
<1>6. Counted(p) \ {Head(stack)} = {}
  <2>1. Counted(p) \ {Head(stack)} \in SUBSET Nodes
    BY <1>5
  <2>2. Cardinality(Counted(p) \ {Head(stack)}) = 0
    BY <1>2, <1>4, <1>5, CountLess
  <2> QED BY <2>1, <2>2, CountNodes
<1>7. calls[p] \cap candidates = {}
  BY <1>2, <1>6 DEF Counted
<1> QED BY <1>1, <1>2, <1>3, <1>7 DEF Abstract!Drop

LEMMA StepRefines ==
    IInv /\ [Next]_vars => [Abstract!ANext]_(Abstract!avars)
<1> SUFFICES ASSUME IInv, [Next]_vars PROVE [Abstract!ANext]_(Abstract!avars)
  OBVIOUS
<1>1. ASSUME NEW n \in Nodes, Link(n) PROVE UNCHANGED <<calls, Remaining, pivotNodes>>
  BY <1>1 DEF Link, Degree, Remaining
<1>2. CASE FirstPivot
  <2>1. pivot \in candidates /\ unread = {} /\ pivotNodes = {} /\ pivot # NoNode /\ pivot \in Nodes
    BY <1>2, NoNodeIsNone, NodesFinite DEF IInv, Bookkeeping, FirstPivot, TypeOK
  <2>2. Abstract!Choose(pivot)
    BY <1>2, <2>1 DEF FirstPivot, Abstract!Choose
  <2> QED BY <2>1, <2>2 DEF Abstract!ANext
<1>3. CASE ErasePivot
  <2>1. pivot \in pivotNodes /\ unread' = unread /\ candidates' = candidates \ {pivot}
        /\ pivotNodes' = pivotNodes /\ calls' = calls
    BY <1>3 DEF ErasePivot, IInv, PivotAssigned
  <2> QED BY <2>1 DEF Abstract!avars
<1>4. ASSUME NEW p \in Nodes, SkipErased(p) \/ LoseCallee(p)
      PROVE  UNCHANGED <<calls, Remaining, pivotNodes>>
  BY <1>4 DEF SkipErased, LoseCallee, Remaining
<1>5. ASSUME NEW p \in Nodes, Prune(p) PROVE Abstract!ANext
  BY <1>5, PruneRefines DEF Abstract!ANext
<1>6. CASE PruneReturns
  BY <1>6 DEF PruneReturns, Abstract!avars
<1>7. ASSUME NEW n \in Nodes, NextPivot(n) PROVE Abstract!ANext
  <2>1. n \in candidates /\ pivotNodes \cap candidates = {}
    BY <1>7 DEF NextPivot, Cyclic, IInv, DegreeExact, PivotAssigned
  <2>2. Abstract!Choose(n)
    BY <1>7, <2>1 DEF NextPivot, Abstract!Choose
  <2> QED BY <2>2 DEF Abstract!ANext
<1>8. CASE NoMoreCycles
  <2>1. pivot \in pivotNodes
    BY <1>8 DEF NoMoreCycles, IInv, PivotAssigned
  <2> QED BY <1>8, <2>1 DEF NoMoreCycles, Abstract!avars
<1>9. CASE UNCHANGED vars
  BY <1>9 DEF vars, Abstract!avars
<1>10. UNCHANGED <<calls, Remaining, pivotNodes>> => UNCHANGED Abstract!avars
  BY DEF Remaining, Abstract!avars
<1> QED BY <1>1, <1>2, <1>3, <1>4, <1>5, <1>6, <1>7, <1>8, <1>9, <1>10
        DEF Next, Step, Returned, LinkLoop, PruneLoop, PickLoop

(* link and SCCPruning implement the choose-or-drop selection.             *)
THEOREM SelectionImplemented == Spec => ImplementsSelection
BY InitRefines, StepRefines, InductiveInvariant, PTL DEF Spec, ImplementsSelection, Abstract!ASpec

-----------------------------------------------------------------------------
(* The abstract argument, carried out under the refinement mapping.        *)
LEMMA CyclesRemainInit == Init => Abstract!CyclesRemain
BY DEF Init, Abstract!CyclesRemain, Abstract!SelfSustaining

LEMMA CyclesRemainStep ==
    Abstract!CyclesRemain /\ [Abstract!ANext]_(Abstract!avars) => Abstract!CyclesRemain'
<1> SUFFICES ASSUME Abstract!CyclesRemain, [Abstract!ANext]_(Abstract!avars)
             PROVE  Abstract!CyclesRemain'
  OBVIOUS
<1>1. ASSUME NEW n \in Nodes, Abstract!Choose(n) PROVE Abstract!CyclesRemain'
  BY <1>1 DEF Abstract!Choose, Abstract!CyclesRemain, Abstract!SelfSustaining
<1>2. ASSUME NEW n \in Nodes, Abstract!Drop(n) PROVE Abstract!CyclesRemain'
  BY <1>2 DEF Abstract!Drop, Abstract!CyclesRemain, Abstract!SelfSustaining
<1>3. CASE UNCHANGED Abstract!avars
  BY <1>3 DEF Abstract!avars, Abstract!CyclesRemain, Abstract!SelfSustaining
<1> QED BY <1>1, <1>2, <1>3 DEF Abstract!ANext

(* When link returns, a chain of calls inside the component cannot go on   *)
(* for ever without entering an instrumented function.                     *)
THEOREM EveryCycleHasPivot == Spec => []PivotsBreakEveryCycle
<1>1. IInv /\ Abstract!CyclesRemain /\ [Next]_vars => (Abstract!CyclesRemain)'
  BY StepRefines, CyclesRemainStep
<1>2. IInv /\ Abstract!CyclesRemain => PivotsBreakEveryCycle
  <2> SUFFICES ASSUME IInv, Abstract!CyclesRemain, pc = "done",
                      NEW C \in SUBSET (Nodes \ pivotNodes), Abstract!SelfSustaining(calls, C)
               PROVE  FALSE
    BY DEF PivotsBreakEveryCycle, Abstract!BreaksEveryCycle
  <2>1. candidates = {} /\ unread = {}
    BY DEF IInv, Exits, Bookkeeping
  <2>2. C \subseteq (unread \cup candidates) \ pivotNodes
    BY DEF Abstract!CyclesRemain
  <2> QED BY <2>1, <2>2 DEF Abstract!SelfSustaining
<1> QED BY <1>1, <1>2, CyclesRemainInit, InductiveInvariant, PTL DEF Spec

-----------------------------------------------------------------------------
(* Paths.                                                                  *)
IsWalk(p) ==
    /\ p \in Seq(DOMAIN fun.blocks) /\ Len(p) > 0 /\ p[1] = 1
    /\ \A k \in 1 .. Len(p) - 1 : p[k + 1] \in Range(fun.blocks[p[k]].succ)
    /\ \A j, k \in 1 .. Len(p) : p[j] = p[k] => j = k

(* p is w, or its beginning.                                               *)
Starts(p, w) == Len(p) <= Len(w) /\ \A k \in 1 .. Len(p) : w[k] = p[k]

Beginning(p, k) == [j \in 1 .. k |-> p[j]]

LEMMA FunctionFacts ==
    ASSUME fun \in Functions
    PROVE  /\ Len(fun.blocks) \in Nat \ {0} /\ DOMAIN fun.blocks = 1 .. Len(fun.blocks)
           /\ \A b \in DOMAIN fun.blocks : /\ fun.blocks[b].succ \in Seq(DOMAIN fun.blocks)
                                           /\ Range(fun.blocks[b].succ) \subseteq DOMAIN fun.blocks
<1>1. \A b \in DOMAIN fun.blocks : fun.blocks[b].succ \in Seq(DOMAIN fun.blocks)
  BY FunctionsTyped
<1> QED BY <1>1, FunctionsTyped DEF Range

LEMMA WalkFacts ==
    ASSUME NEW p, IsWalk(p)
    PROVE  /\ Len(p) \in Nat \ {0} /\ DOMAIN p = 1 .. Len(p) /\ p \in [1 .. Len(p) -> DOMAIN fun.blocks]
           /\ Last(p) = p[Len(p)] /\ Last(p) \in DOMAIN fun.blocks
           /\ Range(p) = {p[k] : k \in 1 .. Len(p)}
BY DEF IsWalk, Last, Range

(* A path that meets no block twice is not longer than there are blocks.   *)
LEMMA WalksAreShort ==
    ASSUME fun \in Functions, NEW p, IsWalk(p)
    PROVE  Len(p) \in DOMAIN fun.blocks
<1> DEFINE N == Len(fun.blocks)
           n == Len(p)
<1>1. n \in Nat \ {0} /\ p \in [1 .. n -> 1 .. N] /\ N \in Nat
  BY FunctionFacts, WalkFacts
<1>2. /\ IsFiniteSet(1 .. n) /\ Cardinality(1 .. n) = n
      /\ IsFiniteSet(1 .. N) /\ Cardinality(1 .. N) = N
  <2> HIDE DEF n, N
  <2>1. 1 \in Int /\ n \in Int /\ N \in Int /\ 1 <= n
    BY <1>1
  <2>2. /\ IsFiniteSet(1 .. n) /\ Cardinality(1 .. n) = n - 1 + 1
        /\ IsFiniteSet(1 .. N) /\ Cardinality(1 .. N) = IF 1 <= N THEN N - 1 + 1 ELSE 0
    BY <2>1, FS_Interval
  <2> QED BY <1>1, <2>2
<1>3. ASSUME n > N PROVE FALSE
  <2>1. \E j, k \in 1 .. n : j # k /\ p[j] = p[k]
    <3> HIDE DEF n, N
    <3> QED BY <1>1, <1>2, <1>3, FS_PigeonHole
  <2> QED BY <2>1 DEF IsWalk
<1> QED BY <1>1, <1>3, FunctionFacts

LEMMA WalkSet ==
    ASSUME fun \in Functions, NEW p
    PROVE  p \in Walks <=> IsWalk(p)
<1>1. ASSUME p \in Walks PROVE IsWalk(p)
  <2>1. PICK n \in DOMAIN fun.blocks :
          /\ p \in [1 .. n -> DOMAIN fun.blocks]
          /\ p[1] = 1
          /\ \A k \in 1 .. n - 1 : p[k + 1] \in Range(fun.blocks[p[k]].succ)
          /\ \A j, k \in 1 .. n : p[j] = p[k] => j = k
    BY <1>1 DEF Walks, WalksOf
  <2>2. n \in Nat \ {0}
    BY FunctionFacts
  <2>3. p \in Seq(DOMAIN fun.blocks) /\ Len(p) = n
    BY <2>1, <2>2
  <2> QED BY <2>1, <2>2, <2>3 DEF IsWalk
<1>2. ASSUME IsWalk(p) PROVE p \in Walks
  <2> DEFINE n == Len(p)
  <2>1. /\ n \in DOMAIN fun.blocks /\ p \in [1 .. n -> DOMAIN fun.blocks]
        /\ p[1] = 1
        /\ \A k \in 1 .. n - 1 : p[k + 1] \in Range(fun.blocks[p[k]].succ)
        /\ \A j, k \in 1 .. n : p[j] = p[k] => j = k
    BY <1>2, WalkFacts, WalksAreShort DEF IsWalk
  <2> HIDE DEF n
  <2> QED BY <2>1 DEF Walks, WalksOf
<1> QED BY <1>1, <1>2

(* Whatever a path has met, it has begun with a path that ends there.      *)
LEMMA BeginningIsWalk ==
    ASSUME fun \in Functions, NEW p, IsWalk(p), NEW k \in 1 .. Len(p)
    PROVE  IsWalk(Beginning(p, k)) /\ Last(Beginning(p, k)) = p[k]
<1> DEFINE b == Beginning(p, k)
<1>1. k \in Nat \ {0} /\ k <= Len(p) /\ Len(p) \in Nat /\ p \in [1 .. Len(p) -> DOMAIN fun.blocks]
  BY WalkFacts
<1>2. /\ b \in [1 .. k -> DOMAIN fun.blocks] /\ \A j \in 1 .. k : b[j] = p[j]
  BY <1>1 DEF Beginning
<1>3. b \in Seq(DOMAIN fun.blocks) /\ Len(b) = k
  BY <1>1, <1>2
<1> HIDE DEF b
<1>4. \A j \in 1 .. k - 1 : b[j + 1] = p[j + 1] /\ b[j] = p[j] /\ j \in 1 .. Len(p) - 1
  BY <1>1, <1>2
<1>5. IsWalk(b)
  BY <1>1, <1>2, <1>3, <1>4 DEF IsWalk
<1> QED BY <1>1, <1>2, <1>3, <1>5 DEF Last, b

LEMMA ReachableBlocks ==
    ASSUME fun \in Functions, NEW b
    PROVE  b \in Reachable <=> \E p : IsWalk(p) /\ Last(p) = b
<1>1. ASSUME b \in Reachable PROVE \E p : IsWalk(p) /\ Last(p) = b
  <2>1. PICK w : IsWalk(w) /\ b \in Range(w)
    BY <1>1, WalkSet DEF Reachable
  <2>2. PICK k \in 1 .. Len(w) : w[k] = b
    BY <2>1, WalkFacts
  <2> QED BY <2>1, <2>2, BeginningIsWalk
<1>2. ASSUME NEW p, IsWalk(p), Last(p) = b PROVE b \in Reachable
  <2>1. p \in Walks /\ b \in Range(p)
    BY <1>2, WalkSet, WalkFacts
  <2> QED BY <2>1 DEF Reachable
<1> QED BY <1>1, <1>2

(* A path is continued to a block it has not met.                          *)
LEMMA Continued ==
    ASSUME fun \in Functions, NEW p, IsWalk(p), NEW s \in Continuations(p)
    PROVE  /\ IsWalk(Append(p, s)) /\ Len(Append(p, s)) = Len(p) + 1
           /\ Append(p, s)[Len(p) + 1] = s /\ \A k \in 1 .. Len(p) : Append(p, s)[k] = p[k]
<1> DEFINE n == Len(p)
           q == Append(p, s)
<1>1. /\ n \in Nat \ {0} /\ p \in Seq(DOMAIN fun.blocks) /\ Range(p) = {p[k] : k \in 1 .. n}
      /\ Last(p) = p[n] /\ p[n] \in DOMAIN fun.blocks
  BY WalkFacts DEF IsWalk
<1>2. s \in DOMAIN fun.blocks /\ s \in Range(fun.blocks[p[n]].succ) /\ \A k \in 1 .. n : p[k] # s
  BY <1>1, FunctionFacts DEF Continuations
<1>3. /\ q \in Seq(DOMAIN fun.blocks) /\ Len(q) = n + 1 /\ q[n + 1] = s
      /\ \A k \in 1 .. n : q[k] = p[k]
  BY <1>1, <1>2
<1> HIDE DEF q
<1>4. ASSUME NEW k \in 1 .. n PROVE q[k + 1] \in Range(fun.blocks[q[k]].succ)
  <2>1. CASE k = n
    BY <1>1, <1>2, <1>3, <2>1
  <2>2. CASE k # n
    <3>1. k \in 1 .. n - 1 /\ k + 1 \in 1 .. n
      BY <1>1, <2>2
    <3> QED BY <1>3, <3>1 DEF IsWalk
  <2> QED BY <2>1, <2>2
<1>5. ASSUME NEW j \in 1 .. n + 1, NEW k \in 1 .. n + 1, q[j] = q[k] PROVE j = k
  <2>1. j \in 1 .. n \/ j = n + 1
    BY <1>1
  <2>2. k \in 1 .. n \/ k = n + 1
    BY <1>1
  <2> QED BY <1>2, <1>3, <1>5, <2>1, <2>2 DEF IsWalk
<1>6. q[1] = 1
  BY <1>1, <1>3 DEF IsWalk
<1>7. IsWalk(q)
  BY <1>1, <1>3, <1>4, <1>5, <1>6 DEF IsWalk
<1> QED BY <1>3, <1>7 DEF q

-----------------------------------------------------------------------------
(* What getPath pushes: the loop over the successors, and what it leaves on *)
(* the stack.                                                              *)
Succ(path) == fun.blocks[Last(path)].succ
PushStep(path, pushed, s) == IF s \notin Continuations(path) THEN pushed ELSE Append(pushed, Append(path, s))
PushLoop(path) ==
    CHOOSE f : f = [k \in 0 .. Len(Succ(path)) |->
                       IF k = 0 THEN << >> ELSE PushStep(path, f[k - 1], Succ(path)[k])]

LEMMA PushedUnfolds ==
    ASSUME fun \in Functions, NEW path, IsWalk(path)
    PROVE  /\ Pushed(path) = PushLoop(path)[Len(Succ(path))] /\ Len(Succ(path)) \in Nat
           /\ PushLoop(path)[0] = << >>
           /\ \A k \in 1 .. Len(Succ(path)) :
                PushLoop(path)[k] = PushStep(path, PushLoop(path)[k - 1], Succ(path)[k])
<1> DEFINE N == Len(Succ(path))
           Upto(n, f) == f = [k \in 0 .. n |-> IF k = 0 THEN << >> ELSE PushStep(path, f[k - 1], Succ(path)[k])]
           S == {n \in Nat : \E f : Upto(n, f)}
<1>1. N \in Nat
  BY FunctionFacts, WalkFacts DEF Succ
<1>2. 0 \in S
  <2>1. Upto(0, [k \in 0 .. 0 |-> << >>])
    OBVIOUS
  <2> QED BY <2>1
<1>3. ASSUME NEW n \in Nat, n \in S PROVE n + 1 \in S
  <2>1. PICK f : Upto(n, f)
    BY <1>3
  <2> DEFINE g == [k \in 0 .. n + 1 |-> IF k = n + 1 THEN PushStep(path, f[n], Succ(path)[n + 1]) ELSE f[k]]
  <2>2. ASSUME NEW k \in 0 .. n + 1
        PROVE  g[k] = IF k = 0 THEN << >> ELSE PushStep(path, g[k - 1], Succ(path)[k])
    <3>1. CASE k = n + 1
      <4>1. k - 1 = n /\ n \in 0 .. n + 1 /\ n # n + 1 /\ k # 0
        BY <3>1
      <4> QED BY <3>1, <4>1
    <3>2. CASE k # n + 1
      <4>1. k \in 0 .. n /\ (k # 0 => k - 1 \in 0 .. n + 1 /\ k - 1 # n + 1)
        BY <3>2
      <4>2. f[k] = IF k = 0 THEN << >> ELSE PushStep(path, f[k - 1], Succ(path)[k])
        BY <2>1, <4>1
      <4> QED BY <3>2, <4>1, <4>2
    <3> QED BY <3>1, <3>2
  <2>3. Upto(n + 1, g)
    <3>1. g = [k \in 0 .. n + 1 |-> g[k]]
      OBVIOUS
    <3> HIDE DEF g
    <3> QED BY <2>2, <3>1
  <2>4. \E h : Upto(n + 1, h)
    <3> HIDE DEF g, Upto
    <3> QED BY <2>3
  <2> HIDE DEF Upto
  <2> QED BY <2>4
<1>4. N \in S
  <2> HIDE DEF S
  <2> QED BY <1>1, <1>2, <1>3, NaturalInduction
<1>5. \E f : Upto(N, f)
  BY <1>4
<1>6. Upto(N, PushLoop(path))
  <2>1. PushLoop(path) = CHOOSE f : Upto(N, f)
    BY DEF PushLoop
  <2> HIDE DEF Upto
  <2> QED BY <1>5, <2>1
<1>7. Pushed(path) = PushLoop(path)[N]
  BY DEF Pushed, PushLoop, PushStep, Succ
<1> HIDE DEF N
<1> QED BY <1>1, <1>6, <1>7 DEF N

(* The paths pushed are the continuations of the path; each is there once   *)
(* if no successor is named twice.                                         *)
OnStack(path, k, pushed) ==
    /\ Len(pushed) \in Nat /\ DOMAIN pushed = 1 .. Len(pushed) /\ pushed \in Seq(Walks)
    /\ \A i \in DOMAIN pushed : \E s \in Continuations(path) :
            pushed[i] = Append(path, s) /\ \E j \in 1 .. k : Succ(path)[j] = s
    /\ \A j \in 1 .. k : Succ(path)[j] \in Continuations(path) =>
            \E i \in DOMAIN pushed : pushed[i] = Append(path, Succ(path)[j])
    /\ IsInjective(Succ(path)) => \A i, j \in DOMAIN pushed : pushed[i] = pushed[j] => i = j

LEMMA PushedPaths ==
    ASSUME fun \in Functions, NEW path, IsWalk(path)
    PROVE  OnStack(path, Len(Succ(path)), Pushed(path))
<1> DEFINE N == Len(Succ(path))
           f == PushLoop(path)
           S == {k \in 0 .. N : OnStack(path, k, f[k])}
<1>1. /\ N \in Nat /\ f[0] = << >> /\ \A k \in 1 .. N : f[k] = PushStep(path, f[k - 1], Succ(path)[k])
      /\ Pushed(path) = f[N] /\ DOMAIN Succ(path) = 1 .. N
  BY PushedUnfolds, FunctionFacts, WalkFacts DEF Succ
<1>2. 0 \in S
  <2>1. OnStack(path, 0, << >>)
    BY DEF OnStack
  <2> HIDE DEF f
  <2> QED BY <1>1, <2>1
<1>3. ASSUME NEW k \in 1 .. N, k - 1 \in S PROVE k \in S
  <2> DEFINE old == f[k - 1]
             s == Succ(path)[k]
             new == PushStep(path, old, s)
  <2>1. /\ OnStack(path, k - 1, old) /\ f[k] = new
        /\ k \in DOMAIN Succ(path) /\ 1 .. k = (1 .. k - 1) \cup {k} /\ 1 .. k - 1 \subseteq DOMAIN Succ(path)
    BY <1>1, <1>3
  <2>2. CASE s \notin Continuations(path)
    <3>1. new = old
      BY <2>2 DEF PushStep
    <3> HIDE DEF old, new, f
    <3>2. OnStack(path, k, old)
      BY <2>1, <2>2 DEF OnStack
    <3> QED BY <2>1, <3>1, <3>2 DEF f
  <2>3. CASE s \in Continuations(path)
    <3> DEFINE q == Append(path, s)
    <3>1. new = Append(old, q) /\ q \in Walks
      BY <2>3, Continued, WalkSet DEF PushStep
    <3>2. /\ old \in Seq(Walks) /\ Len(old) \in Nat /\ DOMAIN old = 1 .. Len(old)
      BY <2>1 DEF OnStack
    <3> HIDE DEF old, new, f, q
    <3>3. /\ new \in Seq(Walks) /\ Len(new) = Len(old) + 1 /\ DOMAIN new = DOMAIN old \cup {Len(old) + 1}
          /\ DOMAIN new = 1 .. Len(new) /\ Len(new) \in Nat
          /\ new[Len(old) + 1] = q /\ \A i \in DOMAIN old : new[i] = old[i]
      BY <3>1, <3>2
    <3>4. \A i \in DOMAIN new : \E t \in Continuations(path) :
             new[i] = Append(path, t) /\ \E j \in 1 .. k : Succ(path)[j] = t
      <4> SUFFICES ASSUME NEW i \in DOMAIN new
                   PROVE  \E t \in Continuations(path) :
                            new[i] = Append(path, t) /\ \E j \in 1 .. k : Succ(path)[j] = t
        OBVIOUS
      <4>1. CASE i \in DOMAIN old
        <5>1. PICK t \in Continuations(path) : old[i] = Append(path, t) /\ \E j \in 1 .. k - 1 : Succ(path)[j] = t
          BY <2>1, <4>1 DEF OnStack
        <5> QED BY <2>1, <3>3, <4>1, <5>1
      <4>2. CASE i = Len(old) + 1
        BY <2>1, <2>3, <3>3, <4>2 DEF q
      <4> QED BY <3>3, <4>1, <4>2
    <3>5. \A j \in 1 .. k : Succ(path)[j] \in Continuations(path) =>
             \E i \in DOMAIN new : new[i] = Append(path, Succ(path)[j])
      <4> SUFFICES ASSUME NEW j \in 1 .. k, Succ(path)[j] \in Continuations(path)
                   PROVE  \E i \in DOMAIN new : new[i] = Append(path, Succ(path)[j])
        OBVIOUS
      <4>1. CASE j \in 1 .. k - 1
        <5>1. PICK i \in DOMAIN old : old[i] = Append(path, Succ(path)[j])
          BY <2>1, <4>1 DEF OnStack
        <5> QED BY <3>3, <5>1
      <4>2. CASE j = k
        BY <3>3, <4>2 DEF q
      <4> QED BY <2>1, <4>1, <4>2
    <3>6. ASSUME IsInjective(Succ(path)), NEW i \in DOMAIN new, NEW j \in DOMAIN new, new[i] = new[j] PROVE i = j
      <4>1. ASSUME NEW h \in DOMAIN old PROVE old[h] # q
        <5>1. PICK t \in Continuations(path) : old[h] = Append(path, t) /\ \E m \in 1 .. k - 1 : Succ(path)[m] = t
          BY <2>1 DEF OnStack
        <5>2. t # s
          BY <1>3, <2>1, <3>6, <5>1 DEF IsInjective
        <5>3. Append(path, t)[Len(path) + 1] = t /\ q[Len(path) + 1] = s
          BY <2>3, Continued DEF q
        <5> QED BY <5>1, <5>2, <5>3
      <4>2. \A h, m \in DOMAIN old : old[h] = old[m] => h = m
        BY <2>1, <3>6 DEF OnStack
      <4> QED BY <3>3, <3>6, <4>1, <4>2
    <3>7. OnStack(path, k, new)
      BY <3>3, <3>4, <3>5, <3>6 DEF OnStack
    <3> QED BY <2>1, <3>7 DEF f
  <2> QED BY <2>2, <2>3
<1>4. N \in S
  <2> HIDE DEF S, N
  <2>1. 0 .. N \subseteq S
    BY <1>1, <1>2, <1>3, IntervalInduction
  <2> QED BY <1>1, <2>1
<1> QED BY <1>1, <1>4

-----------------------------------------------------------------------------
(* What link notes of a block: whether it returns.                         *)
IsNotes(n) ==
    n = [vmap |-> n.vmap, phis |-> n.phis, stateVars |-> n.stateVars,
         isBranch |-> n.isBranch, isReturn |-> n.isReturn, isRec |-> n.isRec]

Fresh(n) == [n EXCEPT !.isBranch = FALSE, !.isReturn = FALSE, !.isRec = FALSE]
CodeOf(block) == fun.blocks[block].code
NoteLoop(n, block) ==
    CHOOSE f : f = [k \in 0 .. Len(CodeOf(block)) |-> IF k = 0 THEN Fresh(n) ELSE Noted(f[k - 1], CodeOf(block)[k])]

LEMMA LinkedUnfolds ==
    ASSUME fun \in Functions, NEW n, NEW block \in DOMAIN fun.blocks
    PROVE  /\ Linked(n, block) = NoteLoop(n, block)[Len(CodeOf(block))] /\ Len(CodeOf(block)) \in Nat
           /\ NoteLoop(n, block)[0] = Fresh(n)
           /\ \A k \in 1 .. Len(CodeOf(block)) :
                NoteLoop(n, block)[k] = Noted(NoteLoop(n, block)[k - 1], CodeOf(block)[k])
<1> DEFINE N == Len(CodeOf(block))
           Upto(m, f) == f = [k \in 0 .. m |-> IF k = 0 THEN Fresh(n) ELSE Noted(f[k - 1], CodeOf(block)[k])]
           S == {m \in Nat : \E f : Upto(m, f)}
<1>1. N \in Nat
  BY FunctionsTyped DEF CodeOf
<1>2. 0 \in S
  <2>1. Upto(0, [k \in 0 .. 0 |-> Fresh(n)])
    OBVIOUS
  <2> QED BY <2>1
<1>3. ASSUME NEW m \in Nat, m \in S PROVE m + 1 \in S
  <2>1. PICK f : Upto(m, f)
    BY <1>3
  <2> DEFINE g == [k \in 0 .. m + 1 |-> IF k = m + 1 THEN Noted(f[m], CodeOf(block)[m + 1]) ELSE f[k]]
  <2>2. ASSUME NEW k \in 0 .. m + 1
        PROVE  g[k] = IF k = 0 THEN Fresh(n) ELSE Noted(g[k - 1], CodeOf(block)[k])
    <3>1. CASE k = m + 1
      <4>1. k - 1 = m /\ m \in 0 .. m + 1 /\ m # m + 1 /\ k # 0
        BY <3>1
      <4> QED BY <3>1, <4>1
    <3>2. CASE k # m + 1
      <4>1. k \in 0 .. m /\ (k # 0 => k - 1 \in 0 .. m + 1 /\ k - 1 # m + 1)
        BY <3>2
      <4>2. f[k] = IF k = 0 THEN Fresh(n) ELSE Noted(f[k - 1], CodeOf(block)[k])
        BY <2>1, <4>1
      <4> QED BY <3>2, <4>1, <4>2
    <3> QED BY <3>1, <3>2
  <2>3. Upto(m + 1, g)
    <3>1. g = [k \in 0 .. m + 1 |-> g[k]]
      OBVIOUS
    <3> HIDE DEF g
    <3> QED BY <2>2, <3>1
  <2>4. \E h : Upto(m + 1, h)
    <3> HIDE DEF g, Upto
    <3> QED BY <2>3
  <2> HIDE DEF Upto
  <2> QED BY <2>4
<1>4. N \in S
  <2> HIDE DEF S
  <2> QED BY <1>1, <1>2, <1>3, NaturalInduction
<1>5. \E f : Upto(N, f)
  BY <1>4
<1>6. Upto(N, NoteLoop(n, block))
  <2>1. NoteLoop(n, block) = CHOOSE f : Upto(N, f)
    BY DEF NoteLoop
  <2> HIDE DEF Upto
  <2> QED BY <1>5, <2>1
<1>7. Linked(n, block) = NoteLoop(n, block)[N]
  BY DEF Linked, NoteLoop, Fresh, CodeOf
<1> HIDE DEF N
<1> QED BY <1>1, <1>6, <1>7 DEF N

LEMMA NotedReturn ==
    ASSUME NEW n, IsNotes(n), NEW i, i.op \in Ops
    PROVE  /\ IsNotes(Noted(n, i))
           /\ Noted(n, i).isReturn <=> (i.op = "return" \/ n.isReturn)
<1> DEFINE vals == RelatedAll(n.vmap, i.from)
           found == Insert(n.vmap, i.def, vals)
           u == [n EXCEPT !.vmap = found]
<1>1. Used(n, i) = u
  BY DEF Used, IsNotes
<1>2. IsNotes(u) /\ (u.isReturn <=> n.isReturn)
  <2> HIDE DEF found
  <2> QED BY DEF IsNotes
<1> HIDE DEF u
<1>4. CASE i.op \in {"use", "switch"}
  BY <1>1, <1>2, <1>4 DEF Noted
<1>5. CASE i.op = "branch"
  <2>1. Noted(n, i) = [u EXCEPT !.isBranch = TRUE]
    BY <1>1, <1>5 DEF Noted
  <2> QED BY <1>2, <1>5, <2>1 DEF IsNotes
<1>6. CASE i.op = "store"
  <2> DEFINE map == With(n.vmap, i.def, vals)
  <2>1. Noted(n, i) = [n EXCEPT !.vmap = map]
    BY <1>6 DEF Noted, IsNotes
  <2> HIDE DEF map
  <2> QED BY <1>6, <2>1 DEF IsNotes
<1>7. CASE i.op = "phi"
  <2> DEFINE phis == n.phis \cup {i}
  <2>1. Noted(n, i) = [n EXCEPT !.phis = phis]
    BY <1>7 DEF Noted, IsNotes
  <2> HIDE DEF phis
  <2> QED BY <1>7, <2>1 DEF IsNotes
<1>8. CASE i.op = "call"
  <2>1. Noted(n, i) = [u EXCEPT !.isRec = TRUE]
    BY <1>1, <1>8 DEF Noted
  <2> QED BY <1>2, <1>8, <2>1 DEF IsNotes
<1>9. CASE i.op = "recurse"
  <2> DEFINE newVars == u.stateVars \cup vals
  <2>1. Noted(n, i) = [u EXCEPT !.isRec = TRUE, !.stateVars = newVars]
    BY <1>1, <1>2, <1>9 DEF Noted, IsNotes
  <2> HIDE DEF newVars
  <2> QED BY <1>2, <1>9, <2>1 DEF IsNotes
<1>10. CASE i.op = "return"
  <2>1. Noted(n, i) = [n EXCEPT !.isReturn = TRUE]
    BY <1>10 DEF Noted
  <2> QED BY <1>10, <2>1 DEF IsNotes
<1>11. CASE i.op = "ignored"
  BY <1>11 DEF Noted
<1> QED BY <1>4, <1>5, <1>6, <1>7, <1>8, <1>9, <1>10, <1>11 DEF Ops

Returns(block) == \E k \in 1 .. Len(CodeOf(block)) : CodeOf(block)[k].op = "return"

LEMMA LinkedReturn ==
    ASSUME fun \in Functions, NEW n, IsNotes(n), NEW block \in DOMAIN fun.blocks
    PROVE  IsNotes(Linked(n, block)) /\ (Linked(n, block).isReturn <=> Returns(block))
<1> DEFINE N == Len(CodeOf(block))
           f == NoteLoop(n, block)
           S == {k \in 0 .. N : /\ IsNotes(f[k])
                                /\ (f[k].isReturn <=> \E j \in 1 .. k : CodeOf(block)[j].op = "return")}
<1>1. /\ N \in Nat /\ f[0] = Fresh(n) /\ Linked(n, block) = f[N]
      /\ \A k \in 1 .. N : f[k] = Noted(f[k - 1], CodeOf(block)[k]) /\ CodeOf(block)[k].op \in Ops
  BY LinkedUnfolds, FunctionsTyped DEF CodeOf
<1>2. 0 \in S
  <2>1. Fresh(n) = [n EXCEPT !.isBranch = FALSE, !.isReturn = FALSE, !.isRec = FALSE]
    BY DEF Fresh
  <2>2. IsNotes(Fresh(n)) /\ Fresh(n).isReturn = FALSE
    BY <2>1 DEF IsNotes
  <2> HIDE DEF f
  <2>3. 0 \in 0 .. N /\ ~ \E j \in 1 .. 0 : CodeOf(block)[j].op = "return"
    BY <1>1
  <2>4. IsNotes(f[0]) /\ ~ f[0].isReturn
    BY <1>1, <2>2
  <2> QED BY <2>3, <2>4
<1>3. ASSUME NEW k \in 1 .. N, k - 1 \in S PROVE k \in S
  <2> HIDE DEF f
  <2>1. /\ f[k] = Noted(f[k - 1], CodeOf(block)[k]) /\ CodeOf(block)[k].op \in Ops /\ IsNotes(f[k - 1])
    BY <1>1, <1>3
  <2>4. IsNotes(f[k]) /\ (f[k].isReturn <=> (CodeOf(block)[k].op = "return" \/ f[k - 1].isReturn))
    BY <2>1, NotedReturn
  <2>2. f[k - 1].isReturn <=> \E j \in 1 .. k - 1 : CodeOf(block)[j].op = "return"
    BY <1>3
  <2>3. 1 .. k = (1 .. k - 1) \cup {k}
    BY <1>1
  <2>5. f[k].isReturn <=> \E j \in 1 .. k : CodeOf(block)[j].op = "return"
    BY <2>2, <2>3, <2>4
  <2>6. k \in 0 .. N
    BY <1>1
  <2> QED BY <2>4, <2>5, <2>6
<1>4. N \in S
  <2> HIDE DEF S, N
  <2>1. 0 .. N \subseteq S
    BY <1>1, <1>2, <1>3, IntervalInduction
  <2> QED BY <1>1, <2>1
<1> QED BY <1>1, <1>4 DEF Returns

-----------------------------------------------------------------------------
(* The invariant of the walk.  Every path not walked yet begins with one on *)
(* the stack; and what is on the stack is not the beginning of a path       *)
(* walked, nor of another on the stack, so that none is met again.          *)
AllDue == \A w \in Walks : (\E i \in DOMAIN walked : walked[i] = w) \/ \E j \in DOMAIN paths : Starts(paths[j], w)
NoneTwice ==
    /\ \A i, j \in DOMAIN walked : walked[i] = walked[j] => i = j
    /\ \A i \in DOMAIN walked, j \in DOMAIN paths : ~ Starts(paths[j], walked[i])
    /\ \A i, j \in DOMAIN paths : Starts(paths[i], paths[j]) => i = j
ReturnsFound == \A b : b \in retBlks <=> \E i \in DOMAIN walked : Last(walked[i]) = b /\ Returns(b)

Walking ==
    /\ IsNotes(notes)
    /\ parsing = "none" => walked = << >> /\ paths = << >> /\ retBlks = {}
    /\ parsing # "none" => /\ fun \in Functions /\ paths \in Seq(Walks) /\ walked \in Seq(Walks)
                           /\ AllDue /\ (Simple => NoneTwice) /\ ReturnsFound
    /\ parsing \in {"phis", "done"} => paths = << >>

LEMMA StartsFacts ==
    ASSUME fun \in Functions, NEW p \in Walks, NEW w \in Walks
    PROVE  /\ Starts(p, p)
           /\ Starts(p, w) /\ Len(p) = Len(w) => p = w
           /\ Starts(p, w) => Len(p) <= Len(w)
           /\ \A v \in Walks : Starts(p, v) /\ Starts(v, w) => Starts(p, w)
<1>1. /\ IsWalk(p) /\ IsWalk(w) /\ \A v \in Walks : IsWalk(v) /\ Len(v) \in Nat
      /\ Len(p) \in Nat /\ p \in [1 .. Len(p) -> DOMAIN fun.blocks]
      /\ Len(w) \in Nat /\ w \in [1 .. Len(w) -> DOMAIN fun.blocks]
  BY WalkSet, WalkFacts
<1>2. Starts(p, p)
  BY <1>1 DEF Starts
<1>3. Starts(p, w) /\ Len(p) = Len(w) => p = w
  BY <1>1 DEF Starts
<1>4. ASSUME NEW v \in Walks, Starts(p, v), Starts(v, w) PROVE Starts(p, w)
  <2>1. Len(p) <= Len(w) /\ \A k \in 1 .. Len(p) : k \in 1 .. Len(v)
    BY <1>1, <1>4 DEF Starts
  <2> QED BY <1>4, <2>1 DEF Starts
<1> QED BY <1>2, <1>3, <1>4 DEF Starts

LEMMA WalkingInit == ChoiceInit => Walking
BY DEF ChoiceInit, Walking, NoNotes, IsNotes

LEMMA WalkingBegins ==
    ASSUME Walking, BeginParsing
    PROVE  Walking'
<1>1. /\ fun' \in Functions /\ paths' = << <<1>> >> /\ walked' = << >> /\ parsing' = "paths"
      /\ retBlks' = {} /\ notes' = notes
  BY DEF BeginParsing, Walking
<1> DEFINE N == Len(fun'.blocks)
<1>2. N \in Nat \ {0} /\ DOMAIN fun'.blocks = 1 .. N
  BY <1>1, FunctionsTyped
<1>3. ASSUME NEW w \in Walks' PROVE Starts(<<1>>, w)
  <2>1. PICK n \in DOMAIN fun'.blocks : w \in [1 .. n -> DOMAIN fun'.blocks] /\ w[1] = 1
    BY DEF Walks, WalksOf
  <2>2. n \in Nat \ {0} /\ w \in Seq(1 .. N) /\ Len(w) = n
    BY <1>2, <2>1
  <2> QED BY <2>1, <2>2 DEF Starts
<1>4. <<1>> \in Walks'
  <2>1. /\ 1 \in DOMAIN fun'.blocks /\ <<1>> \in [1 .. 1 -> DOMAIN fun'.blocks] /\ <<1>>[1] = 1
        /\ \A k \in 1 .. 1 - 1 : <<1>>[k + 1] \in Range(fun'.blocks[<<1>>[k]].succ)
        /\ \A j, k \in 1 .. 1 : <<1>>[j] = <<1>>[k] => j = k
    BY <1>2
  <2> QED BY <2>1 DEF Walks, WalksOf
<1>5. paths' \in Seq(Walks') /\ walked' \in Seq(Walks') /\ DOMAIN paths' = {1} /\ paths'[1] = <<1>>
      /\ DOMAIN walked' = {}
  BY <1>1, <1>4
<1>6. AllDue'
  BY <1>3, <1>5 DEF AllDue
<1>7. NoneTwice' /\ ReturnsFound'
  BY <1>1, <1>5 DEF NoneTwice, ReturnsFound
<1> QED BY <1>1, <1>5, <1>6, <1>7 DEF Walking

(* The parts of the round.                                                 *)
LEMMA Concatenated ==
    ASSUME NEW S, NEW a \in Seq(S), NEW b \in Seq(S)
    PROVE  /\ a \o b \in Seq(S) /\ Len(a \o b) = Len(a) + Len(b) /\ DOMAIN (a \o b) = 1 .. Len(a \o b)
           /\ \A j \in 1 .. Len(a) : (a \o b)[j] = a[j]
           /\ \A i \in 1 .. Len(b) : (a \o b)[Len(a) + i] = b[i]
OBVIOUS

LEMMA RoundFacts ==
    ASSUME Walking, WalkBlock
    PROVE  \E path \in Walks :
             /\ path = Last(paths) /\ IsWalk(path) /\ fun \in Functions /\ UNCHANGED fun
             /\ paths \in Seq(Walks) /\ Len(paths) \in Nat \ {0} /\ walked \in Seq(Walks)
             /\ path = paths[Len(paths)] /\ DOMAIN paths = 1 .. Len(paths)
             /\ OnStack(path, Len(Succ(path)), Pushed(path))
             /\ paths' \in Seq(Walks) /\ walked' \in Seq(Walks)
             /\ walked' = Append(walked, path)
             /\ Len(paths') = Len(paths) - 1 + Len(Pushed(path)) /\ DOMAIN paths' = 1 .. Len(paths')
             /\ \A j \in 1 .. Len(paths) - 1 : paths'[j] = paths[j]
             /\ \A i \in DOMAIN Pushed(path) : paths'[Len(paths) - 1 + i] = Pushed(path)[i]
<1> DEFINE path == Last(paths)
           new == Pushed(path)
           rest == Front(paths)
<1>1. /\ parsing = "paths" /\ paths # << >> /\ UNCHANGED fun
      /\ paths' = rest \o new /\ walked' = Append(walked, path)
  BY DEF WalkBlock
<1>2. fun \in Functions /\ paths \in Seq(Walks) /\ walked \in Seq(Walks)
  BY <1>1 DEF Walking
<1>3. /\ Len(paths) \in Nat \ {0} /\ DOMAIN paths = 1 .. Len(paths)
      /\ path \in Walks /\ path = paths[Len(paths)]
  BY <1>1, <1>2 DEF Last
<1>4. IsWalk(path)
  BY <1>2, <1>3, WalkSet
<1>5. OnStack(path, Len(Succ(path)), new)
  BY <1>2, <1>4, PushedPaths
<1>6. new \in Seq(Walks) /\ Len(new) \in Nat /\ DOMAIN new = 1 .. Len(new)
  BY <1>5 DEF OnStack
<1>7. rest \in Seq(Walks) /\ Len(rest) = Len(paths) - 1 /\ \A j \in 1 .. Len(paths) - 1 : rest[j] = paths[j]
  BY <1>2, <1>3 DEF Front
<1> HIDE DEF path, new, rest
<1>8. /\ paths' \in Seq(Walks) /\ walked' \in Seq(Walks)
      /\ Len(paths') = Len(paths) - 1 + Len(new) /\ DOMAIN paths' = 1 .. Len(paths')
      /\ \A j \in 1 .. Len(paths) - 1 : paths'[j] = paths[j]
      /\ \A i \in DOMAIN new : paths'[Len(paths) - 1 + i] = new[i]
  <2>1. PICK a \in Seq(Walks) : a = rest
    BY <1>7
  <2>2. PICK b \in Seq(Walks) : b = new
    BY <1>6
  <2>3. PICK n \in Nat : n = Len(paths) - 1
    <3>1. Len(paths) - 1 \in Nat
      BY <1>3
    <3> QED BY <3>1, Zenon
  <2>4. /\ a \o b \in Seq(Walks) /\ Len(a \o b) = n + Len(b) /\ DOMAIN (a \o b) = 1 .. Len(a \o b)
        /\ \A j \in 1 .. n : (a \o b)[j] = paths[j]
        /\ \A i \in 1 .. Len(b) : (a \o b)[n + i] = b[i]
    <3>1. n = Len(a) /\ \A j \in 1 .. n : a[j] = paths[j]
      BY <1>7, <2>1, <2>3
    <3> QED BY <3>1, Concatenated
  <2>5. paths' = a \o b
    BY <1>1, <2>1, <2>2
  <2>6. walked' \in Seq(Walks)
    BY <1>1, <1>2, <1>3
  <2> QED BY <1>6, <2>2, <2>3, <2>4, <2>5, <2>6
<1> QED BY <1>1, <1>2, <1>3, <1>4, <1>5, <1>8 DEF path, new

(* A path begun with the one walked in this round is that path, or begins   *)
(* with one of its continuations.                                          *)
LEMMA DueContinues ==
    ASSUME fun \in Functions, NEW path \in Walks, NEW w \in Walks, Starts(path, w), w # path,
           NEW new, OnStack(path, Len(Succ(path)), new)
    PROVE  \E i \in DOMAIN new : Starts(new[i], w)
<1> DEFINE n == Len(path)
           s == w[n + 1]
<1>1. IsWalk(path) /\ IsWalk(w) /\ n \in Nat \ {0} /\ Len(w) \in Nat /\ n < Len(w)
  <2>1. IsWalk(path) /\ IsWalk(w)
    BY WalkSet
  <2>2. n \in Nat \ {0} /\ Len(w) \in Nat /\ n <= Len(w) /\ n # Len(w)
    BY <2>1, WalkFacts, StartsFacts DEF Starts
  <2> QED BY <2>1, <2>2
<1>2. /\ n \in 1 .. Len(w) - 1 /\ n + 1 \in 1 .. Len(w) /\ w[n] = Last(path)
      /\ Range(path) = {path[k] : k \in 1 .. n}
  BY <1>1, WalkFacts DEF Starts
<1>3. s \in Range(Succ(path))
  BY <1>1, <1>2 DEF IsWalk, Succ
<1>4. s \notin Range(path)
  <2> SUFFICES ASSUME NEW k \in 1 .. n, path[k] = s PROVE FALSE
    BY <1>2
  <2>1. w[k] = w[n + 1] /\ k \in 1 .. Len(w) /\ k # n + 1
    BY <1>1
    DEF Starts
  <2> QED BY <1>1, <1>2, <2>1 DEF IsWalk
<1>5. s \in Continuations(path)
  BY <1>3, <1>4 DEF Continuations, Succ
<1>6. PICK j \in 1 .. Len(Succ(path)) : Succ(path)[j] = s
  <2>1. DOMAIN Succ(path) = 1 .. Len(Succ(path))
    BY <1>1, FunctionFacts, WalkFacts DEF Succ
  <2> QED BY <1>3, <2>1 DEF Range
<1>7. PICK i \in DOMAIN new : new[i] = Append(path, s)
  BY <1>5, <1>6 DEF OnStack
<1>8. Len(new[i]) = n + 1 /\ new[i][n + 1] = s /\ \A k \in 1 .. n : new[i][k] = path[k]
  BY <1>1, <1>5, <1>7, Continued
<1>9. \A k \in 1 .. n + 1 : w[k] = new[i][k]
  <2> SUFFICES ASSUME NEW k \in 1 .. n + 1 PROVE w[k] = new[i][k]
    OBVIOUS
  <2>1. k \in 1 .. n \/ k = n + 1
    BY <1>1
  <2> QED BY <1>8, <2>1 DEF Starts
<1> QED BY <1>1, <1>8, <1>9 DEF Starts

LEMMA RoundDue ==
    ASSUME Walking, WalkBlock
    PROVE  AllDue'
<1>1. AllDue
  BY DEF Walking, WalkBlock
<1>2. PICK path \in Walks :
        /\ IsWalk(path) /\ fun \in Functions /\ UNCHANGED fun
        /\ Len(paths) \in Nat \ {0} /\ walked \in Seq(Walks)
        /\ path = paths[Len(paths)] /\ DOMAIN paths = 1 .. Len(paths)
        /\ OnStack(path, Len(Succ(path)), Pushed(path))
        /\ walked' = Append(walked, path)
        /\ Len(paths') = Len(paths) - 1 + Len(Pushed(path)) /\ DOMAIN paths' = 1 .. Len(paths')
        /\ \A j \in 1 .. Len(paths) - 1 : paths'[j] = paths[j]
        /\ \A i \in DOMAIN Pushed(path) : paths'[Len(paths) - 1 + i] = Pushed(path)[i]
  BY RoundFacts
<1>3. PICK new : new = Pushed(path)
  OBVIOUS
<1>4. OnStack(path, Len(Succ(path)), new) /\ Len(new) \in Nat /\ DOMAIN new = 1 .. Len(new)
  <2>1. OnStack(path, Len(Succ(path)), new)
    BY <1>2, <1>3
  <2> QED BY <2>1 DEF OnStack
<1>5. PICK m : m = Len(paths) - 1
  OBVIOUS
<1>6. /\ m \in Nat /\ Len(paths') = m + Len(new) /\ DOMAIN paths' = 1 .. m + Len(new)
      /\ \A j \in 1 .. m : paths'[j] = paths[j]
      /\ \A i \in 1 .. Len(new) : paths'[m + i] = new[i]
      /\ DOMAIN paths = 1 .. m + 1 /\ paths[m + 1] = path
  <2>1. m \in Nat /\ Len(paths) = m + 1
    BY <1>2, <1>5
  <2>2. Len(paths') = m + Len(new) /\ DOMAIN paths' = 1 .. Len(paths')
    BY <1>2, <1>3, <1>5
  <2>3. /\ \A j \in 1 .. m : paths'[j] = paths[j]
        /\ \A i \in 1 .. Len(new) : paths'[m + i] = new[i]
    BY <1>2, <1>3, <1>4, <1>5
  <2> QED BY <1>2, <2>1, <2>2, <2>3
<1>7. /\ DOMAIN walked' = DOMAIN walked \cup {Len(walked) + 1} /\ walked'[Len(walked) + 1] = path
      /\ \A i \in DOMAIN walked : walked'[i] = walked[i]
  BY <1>2
<1>8. Walks' = Walks
  BY <1>2 DEF Walks, WalksOf
<1>9. \A p, w : Starts(p, w)' <=> Starts(p, w)
  BY DEF Starts
<1>10. ASSUME NEW w \in Walks
       PROVE  (\E i \in DOMAIN walked' : walked'[i] = w) \/ \E j \in DOMAIN paths' : Starts(paths'[j], w)
  <2>1. CASE \E i \in DOMAIN walked : walked[i] = w
    BY <1>7, <2>1
  <2>2. CASE \E j \in DOMAIN paths : Starts(paths[j], w)
    <3>1. PICK j \in 1 .. m + 1 : Starts(paths[j], w)
      BY <1>6, <2>2
    <3>2. CASE j # m + 1
      <4>1. j \in 1 .. m /\ j \in 1 .. m + Len(new)
        BY <1>4, <1>6, <3>2
      <4> QED BY <1>6, <3>1, <4>1
    <3>3. CASE j = m + 1
      <4>1. CASE w = path
        BY <1>7, <4>1
      <4>2. CASE w # path
        <5>1. PICK i \in DOMAIN new : Starts(new[i], w)
          BY <1>2, <1>4, <1>6, <3>1, <3>3, <4>2, DueContinues
        <5>2. m + i \in 1 .. m + Len(new) /\ paths'[m + i] = new[i]
          BY <1>4, <1>6, <5>1
        <5> QED BY <1>6, <5>1, <5>2
      <4> QED BY <4>1, <4>2
    <3> QED BY <3>2, <3>3
  <2> QED BY <1>1, <2>1, <2>2 DEF AllDue
<1> QED BY <1>8, <1>10 DEF AllDue, Starts

LEMMA RoundNoneTwice ==
    ASSUME Walking, WalkBlock, Simple'
    PROVE  NoneTwice'
<1>1. PICK path \in Walks :
        /\ IsWalk(path) /\ fun \in Functions /\ UNCHANGED fun
        /\ Len(paths) \in Nat \ {0} /\ paths \in Seq(Walks) /\ walked \in Seq(Walks)
        /\ path = paths[Len(paths)] /\ DOMAIN paths = 1 .. Len(paths)
        /\ OnStack(path, Len(Succ(path)), Pushed(path))
        /\ walked' = Append(walked, path)
        /\ Len(paths') = Len(paths) - 1 + Len(Pushed(path)) /\ DOMAIN paths' = 1 .. Len(paths')
        /\ \A j \in 1 .. Len(paths) - 1 : paths'[j] = paths[j]
        /\ \A i \in DOMAIN Pushed(path) : paths'[Len(paths) - 1 + i] = Pushed(path)[i]
  BY RoundFacts
<1>2. NoneTwice
  <2>1. Simple
    BY <1>1 DEF Simple
  <2> QED BY <2>1 DEF Walking, WalkBlock
<1>3. PICK new : new = Pushed(path)
  OBVIOUS
<1>4. /\ Len(new) \in Nat /\ DOMAIN new = 1 .. Len(new)
      /\ \A i \in DOMAIN new : \E s \in Continuations(path) : new[i] = Append(path, s)
      /\ \A i, j \in DOMAIN new : new[i] = new[j] => i = j
  <2>1. OnStack(path, Len(Succ(path)), new)
    BY <1>1, <1>3
  <2>2. IsInjective(Succ(path))
    BY <1>1, WalkFacts DEF Simple, Succ
  <2> QED BY <2>1, <2>2 DEF OnStack
<1>5. PICK m : m = Len(paths) - 1
  OBVIOUS
<1>6. /\ m \in Nat /\ DOMAIN paths' = 1 .. m + Len(new)
      /\ \A j \in 1 .. m : paths'[j] = paths[j]
      /\ \A i \in 1 .. Len(new) : paths'[m + i] = new[i]
      /\ DOMAIN paths = 1 .. m + 1 /\ paths[m + 1] = path
  <2>1. m \in Nat /\ Len(paths) = m + 1
    BY <1>1, <1>5
  <2>2. Len(paths') = m + Len(new) /\ DOMAIN paths' = 1 .. Len(paths')
    BY <1>1, <1>3, <1>5
  <2>3. /\ \A j \in 1 .. m : paths'[j] = paths[j]
        /\ \A i \in 1 .. Len(new) : paths'[m + i] = new[i]
    BY <1>1, <1>3, <1>4, <1>5
  <2> QED BY <1>1, <2>1, <2>2, <2>3
<1>7. /\ DOMAIN walked' = DOMAIN walked \cup {Len(walked) + 1} /\ walked'[Len(walked) + 1] = path
      /\ \A i \in DOMAIN walked : walked'[i] = walked[i] /\ walked[i] \in Walks
      /\ DOMAIN walked = 1 .. Len(walked) /\ Len(walked) \in Nat
  BY <1>1
<1>8. /\ \A j \in 1 .. m + 1 : paths[j] \in Walks
      /\ \A i \in 1 .. m + 1, j \in 1 .. m + 1 : Starts(paths[i], paths[j]) => i = j
      /\ \A i \in DOMAIN walked, j \in 1 .. m + 1 : ~ Starts(paths[j], walked[i])
      /\ \A i, j \in DOMAIN walked : walked[i] = walked[j] => i = j
  <2>1. \A j \in 1 .. m + 1 : paths[j] \in Walks
    BY <1>1, <1>6
  <2>2. DOMAIN paths = 1 .. m + 1
    BY <1>6
  <2> QED BY <1>2, <2>1, <2>2 DEF NoneTwice
(* A path pushed is the one walked and one block more.                     *)
<1>9. ASSUME NEW i \in DOMAIN new
      PROVE  new[i] \in Walks /\ Len(new[i]) = Len(path) + 1 /\ Starts(path, new[i]) /\ Len(path) \in Nat
  <2>1. PICK s \in Continuations(path) : new[i] = Append(path, s)
    BY <1>4, <1>9
  <2>2. /\ IsWalk(new[i]) /\ Len(new[i]) = Len(path) + 1 /\ \A k \in 1 .. Len(path) : new[i][k] = path[k]
    BY <1>1, <2>1, Continued
  <2> QED BY <1>1, <2>2, WalkSet, WalkFacts DEF Starts
<1>10. \A i, j \in DOMAIN walked' : walked'[i] = walked'[j] => i = j
  <2>1. \A i \in DOMAIN walked : walked[i] # path
    BY <1>1, <1>6, <1>8, StartsFacts
  <2> QED BY <1>7, <1>8, <2>1
<1>11. ASSUME NEW w \in Walks, NEW i \in DOMAIN new, Starts(new[i], w) PROVE Starts(path, w) /\ w # path
  <2>1. Starts(path, w)
    BY <1>1, <1>9, <1>11, StartsFacts
  <2>2. Len(new[i]) <= Len(w)
    BY <1>11 DEF Starts
  <2> QED BY <1>9, <2>1, <2>2
<1>12. ASSUME NEW i \in DOMAIN new, NEW w \in Walks, Starts(w, new[i]), w # new[i] PROVE Starts(w, path)
  <2>1. Len(w) \in Nat /\ Len(w) <= Len(path) + 1 /\ Len(w) # Len(path) + 1
    BY <1>1, <1>9, <1>12, StartsFacts, WalkSet, WalkFacts
  <2> QED BY <1>9, <1>12, <2>1 DEF Starts
<1>13. ASSUME NEW j \in DOMAIN paths'
       PROVE  \/ j \in 1 .. m /\ j # m + 1 /\ j \in 1 .. m + 1 /\ paths'[j] = paths[j]
              \/ \E i \in DOMAIN new : j = m + i /\ paths'[j] = new[i]
  <2>1. CASE j \in 1 .. m
    BY <1>6, <2>1
  <2>2. CASE j \notin 1 .. m
    <3>1. j - m \in 1 .. Len(new) /\ j = m + (j - m)
      BY <1>4, <1>6, <1>13, <2>2
    <3>2. paths'[m + (j - m)] = new[j - m]
      BY <1>6, <3>1
    <3> QED BY <1>4, <3>1, <3>2
  <2> QED BY <2>1, <2>2
<1>14. ASSUME NEW i \in DOMAIN walked', NEW j \in DOMAIN paths' PROVE ~ Starts(paths'[j], walked'[i])
  <2>1. CASE paths'[j] = paths[j] /\ j \in 1 .. m /\ j # m + 1 /\ j \in 1 .. m + 1
    <3>1. ~ Starts(paths[j], path)
      BY <1>6, <1>8, <2>1
    <3> QED BY <1>7, <1>8, <2>1, <3>1
  <2>2. ASSUME NEW h \in DOMAIN new, paths'[j] = new[h] PROVE ~ Starts(new[h], walked'[i])
    <3>1. ~ Starts(new[h], path)
      BY <1>11
    <3>2. ASSUME NEW k \in DOMAIN walked PROVE ~ Starts(new[h], walked[k])
      <4>1. ~ Starts(path, walked[k])
        BY <1>6, <1>8
      <4> QED BY <1>7, <1>11, <4>1
    <3> QED BY <1>7, <3>1, <3>2
  <2> QED BY <1>13, <2>1, <2>2
<1>15. ASSUME NEW i \in DOMAIN paths', NEW j \in DOMAIN paths', Starts(paths'[i], paths'[j]) PROVE i = j
  <2>1. \A h \in 1 .. m : /\ h \in 1 .. m + 1 /\ h # m + 1 /\ paths[h] \in Walks
                          /\ ~ Starts(paths[h], path) /\ ~ Starts(path, paths[h])
    <3> SUFFICES ASSUME NEW h \in 1 .. m
                 PROVE  /\ h \in 1 .. m + 1 /\ h # m + 1 /\ paths[h] \in Walks
                        /\ ~ Starts(paths[h], path) /\ ~ Starts(path, paths[h])
      OBVIOUS
    <3>1. h \in 1 .. m + 1 /\ h # m + 1 /\ m + 1 \in 1 .. m + 1
      BY <1>6
    <3> QED BY <1>6, <1>8, <3>1
  <2>2. CASE i \in 1 .. m /\ paths'[i] = paths[i] /\ j \in 1 .. m /\ paths'[j] = paths[j]
    BY <1>8, <1>15, <2>1, <2>2
  <2>3. ASSUME NEW h \in DOMAIN new, i \in 1 .. m, paths'[i] = paths[i], paths'[j] = new[h] PROVE FALSE
    <3>1. paths[i] # new[h]
      BY <1>9, <2>1, <2>3
    <3>2. Starts(paths[i], path)
      BY <1>12, <1>15, <2>1, <2>3, <3>1
    <3> QED BY <2>1, <2>3, <3>2
  <2>4. ASSUME NEW h \in DOMAIN new, paths'[i] = new[h], j \in 1 .. m, paths'[j] = paths[j] PROVE FALSE
    BY <1>11, <1>15, <2>1, <2>4
  <2>5. ASSUME NEW g \in DOMAIN new, NEW h \in DOMAIN new, paths'[i] = new[g], paths'[j] = new[h] PROVE g = h
    <3>1. new[g] = new[h]
      BY <1>1, <1>9, <1>15, <2>5, StartsFacts
    <3> QED BY <1>4, <3>1
  <2> QED BY <1>13, <2>2, <2>3, <2>4, <2>5
<1> QED BY <1>10, <1>14, <1>15 DEF NoneTwice, Starts

LEMMA RoundReturns ==
    ASSUME Walking, WalkBlock
    PROVE  ReturnsFound' /\ IsNotes(notes')
<1>1. PICK path \in Walks :
        /\ path = Last(paths) /\ IsWalk(path) /\ fun \in Functions /\ UNCHANGED fun
        /\ walked \in Seq(Walks) /\ walked' = Append(walked, path)
  BY RoundFacts
<1> DEFINE n == Linked(notes, Last(path))
<1>2. notes' = n /\ retBlks' = IF n.isReturn THEN retBlks \cup {Last(path)} ELSE retBlks
  BY <1>1 DEF WalkBlock
<1>3. IsNotes(n) /\ (n.isReturn <=> Returns(Last(path)))
  BY <1>1, WalkFacts, LinkedReturn DEF Walking
<1>4. ReturnsFound
  BY DEF Walking, WalkBlock
<1>5. /\ DOMAIN walked' = DOMAIN walked \cup {Len(walked) + 1} /\ walked'[Len(walked) + 1] = path
      /\ \A i \in DOMAIN walked : walked'[i] = walked[i]
  BY <1>1
<1>6. \A b : Returns(b)' <=> Returns(b)
  BY <1>1 DEF Returns, CodeOf
<1> HIDE DEF n
<1>7. ASSUME NEW b PROVE b \in retBlks' <=> \E i \in DOMAIN walked' : Last(walked'[i]) = b /\ Returns(b)
  <2>1. b \in retBlks' <=> b \in retBlks \/ (b = Last(path) /\ Returns(b))
    BY <1>2, <1>3
  <2>2. b \in retBlks <=> \E i \in DOMAIN walked : Last(walked[i]) = b /\ Returns(b)
    BY <1>4 DEF ReturnsFound
  <2>3. (\E i \in DOMAIN walked' : Last(walked'[i]) = b) <=>
          (\E i \in DOMAIN walked : Last(walked[i]) = b) \/ Last(path) = b
    BY <1>5
  <2> QED BY <2>1, <2>2, <2>3
<1> QED BY <1>2, <1>3, <1>6, <1>7 DEF ReturnsFound

LEMMA WalkingNext == Walking /\ [ChoiceNext]_choiceVars => Walking'
<1> SUFFICES ASSUME Walking, [ChoiceNext]_choiceVars PROVE Walking'
  OBVIOUS
<1>1. CASE BeginParsing
  BY <1>1, WalkingBegins
<1>2. CASE WalkBlock
  <2>1. parsing' = "paths"
    BY <1>2 DEF WalkBlock
  <2>2. fun' \in Functions /\ paths' \in Seq(Walks) /\ walked' \in Seq(Walks) /\ Walks' = Walks
    <3>1. fun \in Functions /\ UNCHANGED fun /\ paths' \in Seq(Walks) /\ walked' \in Seq(Walks)
      BY <1>2, RoundFacts
    <3>2. Walks' = Walks
      BY <3>1 DEF Walks, WalksOf
    <3> QED BY <3>1, <3>2
  <2> QED BY <1>2, <2>1, <2>2, RoundDue, RoundNoneTwice, RoundReturns DEF Walking, IsNotes
<1>3. CASE UNCHANGED <<fun, paths, walked, retBlks>> /\ IsNotes(notes') /\ parsing # "none" /\ parsing' # "none"
           /\ (parsing' \in {"phis", "done"} => paths = << >>)
  <2>1. Walks' = Walks /\ (Simple' <=> Simple) /\ \A b : Returns(b)' <=> Returns(b)
    BY <1>3 DEF Walks, WalksOf, Simple, Returns, CodeOf
  <2>2. AllDue' <=> AllDue
    BY <1>3, <2>1 DEF AllDue, Starts
  <2>3. NoneTwice' <=> NoneTwice
    BY <1>3 DEF NoneTwice, Starts
  <2>4. ReturnsFound' <=> ReturnsFound
    BY <1>3, <2>1 DEF ReturnsFound
  <2> QED BY <1>3, <2>1, <2>2, <2>3, <2>4 DEF Walking, IsNotes
<1>4. CASE PathsWalked
  BY <1>3, <1>4 DEF PathsWalked, Walking
<1>5. CASE ParsePHI
  <2>1. IsNotes(notes')
    <3>1. PICK phi : notes' = [notes EXCEPT !.phis = @ \ {phi},
                                            !.vmap = Insert(@, phi.def, RelatedAll(@, phi.from))]
      BY <1>5 DEF ParsePHI
    <3> DEFINE map == Insert(notes.vmap, phi.def, RelatedAll(notes.vmap, phi.from))
    <3>2. IsNotes(notes)
      BY DEF Walking
    <3>3. notes' = [notes EXCEPT !.phis = notes.phis \ {phi}, !.vmap = map]
      BY <3>1, <3>2 DEF IsNotes
    <3> HIDE DEF map
    <3> QED BY <3>2, <3>3 DEF IsNotes
  <2> QED BY <1>3, <1>5, <2>1 DEF ParsePHI, Walking
<1>6. CASE ChooseStates
  BY <1>3, <1>6 DEF ChooseStates, Walking
<1>7. CASE UNCHANGED choiceVars
  <2>1. Walks' = Walks /\ (Simple' <=> Simple) /\ \A b : Returns(b)' <=> Returns(b)
    BY <1>7 DEF choiceVars, Walks, WalksOf, Simple, Returns, CodeOf
  <2>2. AllDue' <=> AllDue
    BY <1>7, <2>1 DEF choiceVars, AllDue, Starts
  <2>3. (NoneTwice' <=> NoneTwice) /\ (ReturnsFound' <=> ReturnsFound)
    BY <1>7, <2>1 DEF choiceVars, NoneTwice, Starts, ReturnsFound
  <2> QED BY <1>7, <2>1, <2>2, <2>3 DEF choiceVars, Walking, IsNotes
<1> QED BY <1>1, <1>2, <1>4, <1>5, <1>6, <1>7 DEF ChoiceNext

LEMMA WalkingAlways == ChoiceSpec => []Walking
BY WalkingInit, WalkingNext, PTL DEF ChoiceSpec

(* When the walk is over, every path that meets no block twice has been     *)
(* walked, once if no block names a successor twice, and the blocks that    *)
(* get the check of a return are those that return and can be reached.      *)
THEOREM EveryPathWalkedOnce == ChoiceSpec => []EveryPathOnce
<1>1. Walking => EveryPathOnce
  <2> SUFFICES ASSUME Walking, parsing = "done"
               PROVE  /\ Range(walked) = Walks
                      /\ Simple => Len(walked) = Cardinality(Walks)
                      /\ retBlks = {b \in Reachable : \E i \in Code(b) : i.op = "return"}
    BY DEF EveryPathOnce
  <2>1. /\ fun \in Functions /\ paths = << >> /\ walked \in Seq(Walks)
        /\ AllDue /\ (Simple => NoneTwice) /\ ReturnsFound
    BY DEF Walking
  <2>2. Range(walked) = Walks
    <3>1. \A w \in Walks : \E i \in DOMAIN walked : walked[i] = w
      BY <2>1 DEF AllDue
    <3> QED BY <2>1, <3>1 DEF Range
  <2>3. ASSUME Simple PROVE Len(walked) = Cardinality(Walks)
    <3> DEFINE n == Len(walked)
    <3>1. n \in Nat /\ walked \in [1 .. n -> Walks] /\ DOMAIN walked = 1 .. n
      BY <2>1
    <3>2. /\ \A i, j \in 1 .. n : walked[i] = walked[j] => i = j
          /\ \A w \in Walks : \E i \in 1 .. n : walked[i] = w
      BY <2>1, <2>3, <3>1 DEF NoneTwice, AllDue
    <3>3. IsFiniteSet(1 .. n) /\ Cardinality(1 .. n) = n
      <4> HIDE DEF n
      <4>1. IsFiniteSet(1 .. n) /\ Cardinality(1 .. n) = IF 1 <= n THEN n - 1 + 1 ELSE 0
        BY <3>1, FS_Interval
      <4> QED BY <3>1, <4>1
    <3>4. ExistsBijection(1 .. n, Walks)
      <4> HIDE DEF n
      <4>1. walked \in Bijection(1 .. n, Walks)
        BY <3>1, <3>2 DEF Bijection, Injection, Surjection, IsInjective
      <4> QED BY <4>1 DEF ExistsBijection
    <3> HIDE DEF n
    <3>5. Cardinality(1 .. n) = Cardinality(Walks)
      BY <3>3, <3>4, FS_Bijection
    <3> QED BY <3>3, <3>5 DEF n
  <2>4. ASSUME NEW b PROVE b \in retBlks <=> b \in Reachable /\ \E i \in Code(b) : i.op = "return"
    <3>1. b \in retBlks <=> (\E i \in DOMAIN walked : Last(walked[i]) = b) /\ Returns(b)
      BY <2>1 DEF ReturnsFound
    <3>2. (\E i \in DOMAIN walked : Last(walked[i]) = b) <=> \E p \in Walks : Last(p) = b
      BY <2>1 DEF AllDue
    <3>3. (\E p \in Walks : Last(p) = b) <=> b \in Reachable
      BY <2>1, WalkSet, ReachableBlocks
    <3>4. b \in Reachable => (Returns(b) <=> \E i \in Code(b) : i.op = "return")
      <4> SUFFICES ASSUME b \in Reachable PROVE Returns(b) <=> \E i \in Code(b) : i.op = "return"
        OBVIOUS
      <4>1. b \in DOMAIN fun.blocks
        BY <2>1, ReachableBlocks, WalkFacts
      <4>2. DOMAIN CodeOf(b) = 1 .. Len(CodeOf(b))
        BY <2>1, <4>1, FunctionsTyped DEF CodeOf
      <4> QED BY <4>2 DEF Returns, Code, CodeOf, Range
    <3> QED BY <3>1, <3>2, <3>3, <3>4
  <2> QED BY <2>2, <2>3, <2>4
<1> QED BY <1>1, WalkingAlways, PTL

-----------------------------------------------------------------------------
(* What values carry an argument: the closures are reached in as many steps *)
(* as there are instructions.                                              *)
Defs == {i.def : i \in Instructions}

LEMMA BlocksReached ==
    ASSUME fun \in Functions, NEW b \in Reachable
    PROVE  b \in DOMAIN fun.blocks /\ Code(b) \subseteq Instructions
BY ReachableBlocks, WalkFacts DEF Instructions

LEMMA InstructionsFinite ==
    ASSUME fun \in Functions
    PROVE  IsFiniteSet(Instructions) /\ Cardinality(Instructions) \in Nat
<1>1. IsFiniteSet(Reachable)
  <2>1. Reachable \subseteq 1 .. Len(fun.blocks) /\ Len(fun.blocks) \in Nat
    BY BlocksReached, FunctionFacts
  <2>2. IsFiniteSet(1 .. Len(fun.blocks))
    BY <2>1, FS_Interval
  <2> QED BY <2>1, <2>2, FS_Subset
<1>2. ASSUME NEW b \in Reachable PROVE IsFiniteSet(Code(b))
  <2> DEFINE code == fun.blocks[b].code
             n == Len(code)
  <2>1. n \in Nat /\ DOMAIN code = 1 .. n
    BY BlocksReached, FunctionsTyped
  <2>2. IsFiniteSet(1 .. n)
    BY <2>1, FS_Interval
  <2> DEFINE f == [k \in 1 .. n |-> code[k]]
  <2>3. f \in Surjection(1 .. n, Code(b))
    BY <2>1 DEF Surjection, Code, Range
  <2> HIDE DEF f, n, code
  <2> QED BY <2>2, <2>3, FS_Surjection
<1>3. IsFiniteSet({Code(b) : b \in Reachable})
  <2> DEFINE f == [b \in Reachable |-> Code(b)]
             T == {Code(b) : b \in Reachable}
  <2>1. f \in Surjection(Reachable, T)
    BY DEF Surjection
  <2> HIDE DEF f, T
  <2>2. IsFiniteSet(T)
    BY <1>1, <2>1, FS_Surjection
  <2> QED BY <2>2 DEF T
<1>4. IsFiniteSet(Instructions)
  BY <1>2, <1>3, FS_UNION DEF Instructions
<1> QED BY <1>4, FS_CardinalityType

LEMMA DefsFinite ==
    ASSUME fun \in Functions
    PROVE  IsFiniteSet(Defs) /\ Cardinality(Defs) <= Cardinality(Instructions)
<1> DEFINE f == [i \in Instructions |-> i.def]
<1>1. f \in Surjection(Instructions, Defs)
  BY DEF Surjection, Defs
<1> HIDE DEF f
<1> QED BY <1>1, InstructionsFinite, FS_Surjection

(* What an argument reaches, as a function of the number of steps.          *)
Loop(carriers, a) ==
    CHOOSE c : c = [k \in 0 .. Cardinality(Instructions) |-> IF k = 0 THEN {a} ELSE Spread(carriers, c[k - 1])]

LEMMA ReachedUnfolds ==
    ASSUME fun \in Functions, NEW carriers \in SUBSET Instructions, NEW a
    PROVE  /\ Reached(carriers, a) = Loop(carriers, a)[Cardinality(Instructions)]
           /\ Loop(carriers, a)[0] = {a}
           /\ \A k \in 1 .. Cardinality(Instructions) :
                Loop(carriers, a)[k] = Spread(carriers, Loop(carriers, a)[k - 1])
<1> DEFINE N == Cardinality(Instructions)
           T == SUBSET ({a} \cup Defs)
           step == [k \in 1 .. N |-> [S \in T |-> Spread(carriers, S)]]
           Unfolds(c) == c = [k \in 0 .. N |-> IF k = 0 THEN {a} ELSE Spread(carriers, c[k - 1])]
<1>1. N \in Nat
  BY InstructionsFinite
<1>2. {a} \in T /\ step \in [1 .. N -> [T -> T]]
  BY DEF Spread, Defs
<1>3. PICK f : f \in [0 .. N -> T] /\ f[0] = {a} /\ \A i \in 1 .. N : f[i] = step[i][f[i - 1]]
  <2> HIDE DEF step, T
  <2>1. \E f : Recurs(f, N, T, {a}, step)
    BY <1>1, <1>2, RecursionExists
  <2> QED BY <2>1 DEF Recurs
<1>4. Unfolds(f)
  <2>1. ASSUME NEW i \in 1 .. N PROVE f[i] = Spread(carriers, f[i - 1])
    <3>1. i - 1 \in 0 .. N /\ f[i - 1] \in T /\ f[i] = step[i][f[i - 1]]
      <4> HIDE DEF step, T, N
      <4> QED BY <1>1, <1>3
    <3>2. step[i] = [S \in T |-> Spread(carriers, S)]
      OBVIOUS
    <3> HIDE DEF T, step
    <3> QED BY <3>1, <3>2
  <2>2. f = [k \in 0 .. N |-> f[k]] /\ f[0] = {a}
    BY <1>3
  <2>3. \A k \in 0 .. N : k = 0 \/ k \in 1 .. N
    BY <1>1
  <2> HIDE DEF step, T, N
  <2> QED BY <2>1, <2>2, <2>3
<1>6. Unfolds(Loop(carriers, a))
  <2>1. \E c : Unfolds(c)
    <3> HIDE DEF Unfolds
    <3> QED BY <1>4
  <2>2. Loop(carriers, a) = CHOOSE c : Unfolds(c)
    BY DEF Loop
  <2> HIDE DEF Unfolds
  <2> QED BY <2>1, <2>2
<1>7. Reached(carriers, a) = Loop(carriers, a)[N]
  BY DEF Reached, Loop
<1>8. Loop(carriers, a)[0] = {a} /\ \A k \in 1 .. N : Loop(carriers, a)[k] = Spread(carriers, Loop(carriers, a)[k - 1])
  <2>1. PICK c : c = Loop(carriers, a) /\ Unfolds(c)
    BY <1>6
  <2>2. c[0] = {a} /\ \A k \in 1 .. N : c[k] = Spread(carriers, c[k - 1])
    <3>1. \A k \in 0 .. N : c[k] = IF k = 0 THEN {a} ELSE Spread(carriers, c[k - 1])
      <4> HIDE DEF N
      <4> QED BY <2>1, Zenon
    <3>2. 0 \in 0 .. N /\ \A k \in 1 .. N : k \in 0 .. N /\ k # 0
      BY <1>1
    <3> HIDE DEF N
    <3> QED BY <3>1, <3>2
  <2> QED BY <2>1, <2>2
<1> QED BY <1>7, <1>8

(* It is closed: while it is not, each step adds a value, and there are no  *)
(* more values than instructions.                                          *)
LEMMA ReachedClosed ==
    ASSUME fun \in Functions, NEW carriers \in SUBSET Instructions, NEW a
    PROVE  /\ a \in Reached(carriers, a)
           /\ \A i \in carriers : i.from \cap Reached(carriers, a) # {} => i.def \in Reached(carriers, a)
<1> DEFINE N == Cardinality(Instructions)
           U == Defs \cup {a}
           c == Loop(carriers, a)
           Grown(k) == /\ a \in c[k] /\ c[k] \subseteq U
                       /\ Spread(carriers, c[k]) = c[k] \/ Cardinality(c[k]) >= k + 1
           S == {k \in 0 .. N : Grown(k)}
<1>1. N \in Nat /\ c[0] = {a} /\ Reached(carriers, a) = c[N] /\ \A k \in 1 .. N : c[k] = Spread(carriers, c[k - 1])
  BY InstructionsFinite, ReachedUnfolds
<1>2. IsFiniteSet(U) /\ Cardinality(U) \in Nat /\ Cardinality(U) <= N + 1
  <2>1. IsFiniteSet(Defs) /\ Cardinality(Defs) \in Nat /\ Cardinality(Defs) <= N
    BY DefsFinite, FS_CardinalityType
  <2>2. IsFiniteSet(U) /\ (Cardinality(U) = Cardinality(Defs) \/ Cardinality(U) = Cardinality(Defs) + 1)
    BY <2>1, FS_AddElement
  <2> HIDE DEF U, N
  <2> QED BY <1>1, <2>1, <2>2
<1>3. ASSUME NEW P \in SUBSET U
      PROVE  P \subseteq Spread(carriers, P) /\ Spread(carriers, P) \subseteq U
  BY DEF Spread, Defs
<1>4. 0 \in S
  <2>1. Cardinality({a}) = 1
    BY FS_Singleton
  <2> HIDE DEF c, N
  <2> QED BY <1>1, <2>1
<1>5. ASSUME NEW k \in 1 .. N, k - 1 \in S PROVE k \in S
  <2> DEFINE P == c[k - 1]
             Q == c[k]
  <2>1. k \in 0 .. N /\ Q = Spread(carriers, P) /\ a \in P /\ P \subseteq U
        /\ (Spread(carriers, P) = P \/ Cardinality(P) >= k)
    <3> HIDE DEF c, N, U
    <3> QED BY <1>1, <1>5
  <2>2. P \subseteq Q /\ Q \subseteq U
    BY <1>3, <2>1
  <2>3. IsFiniteSet(P) /\ IsFiniteSet(Q) /\ Cardinality(P) \in Nat /\ Cardinality(Q) \in Nat
    <3> HIDE DEF P, Q, U
    <3> QED BY <1>2, <2>2, <2>1, FS_Subset, FS_CardinalityType
  <2>4. Cardinality(P) <= Cardinality(Q) /\ (Cardinality(P) = Cardinality(Q) => P = Q)
    <3> HIDE DEF P, Q, U
    <3> QED BY <2>2, <2>3, FS_Subset
  <2>5. Spread(carriers, Q) = Q \/ Cardinality(Q) >= k + 1
    <3>1. CASE P = Q
      BY <2>1, <3>1
    <3>2. CASE P # Q
      <4> HIDE DEF P, Q
      <4> QED BY <2>1, <2>3, <2>4, <3>2
    <3> QED BY <3>1, <3>2
  <2> HIDE DEF c, N, U
  <2> QED BY <2>1, <2>2, <2>5
<1>6. N \in S
  <2> HIDE DEF S, N
  <2>1. 0 .. N \subseteq S
    BY <1>1, <1>4, <1>5, IntervalInduction
  <2> QED BY <1>1, <2>1
<1>7. a \in Reached(carriers, a) /\ Spread(carriers, Reached(carriers, a)) = Reached(carriers, a)
  <2> DEFINE R == c[N]
  <2>0. Reached(carriers, a) = R
    BY <1>1
  <2>1. a \in R /\ R \subseteq U /\ (Spread(carriers, R) = R \/ Cardinality(R) >= N + 1)
    BY <1>6
  <2> HIDE DEF R, U, N
  <2>2. CASE Cardinality(R) >= N + 1
    <3>1. R = U
      <4>1. Cardinality(R) <= Cardinality(U) /\ Cardinality(R) \in Nat /\ (Cardinality(R) = Cardinality(U) => R = U)
        BY <1>2, <2>1, FS_Subset, FS_CardinalityType
      <4> QED BY <1>1, <1>2, <2>2, <4>1
    <3> QED BY <1>3, <2>0, <2>1, <3>1
  <2> QED BY <2>0, <2>1, <2>2
<1> QED BY <1>7 DEF Spread


(* Nothing but the argument is in it that no carrier brought there.         *)
LEMMA ReachedGenerated ==
    ASSUME fun \in Functions, NEW carriers \in SUBSET Instructions, NEW a, NEW v \in Reached(carriers, a), v # a
    PROVE  \E i \in carriers : i.def = v /\ i.from \cap Reached(carriers, a) # {}
<1> DEFINE N == Cardinality(Instructions)
           c == Loop(carriers, a)
           Brought(P) == \A w \in P : w = a \/ \E i \in carriers : i.def = w /\ i.from \cap P # {}
           S == {k \in 0 .. N : Brought(c[k])}
<1>1. N \in Nat /\ c[0] = {a} /\ Reached(carriers, a) = c[N] /\ \A k \in 1 .. N : c[k] = Spread(carriers, c[k - 1])
  BY InstructionsFinite, ReachedUnfolds
<1>2. ASSUME NEW P, Brought(P) PROVE Brought(Spread(carriers, P))
  BY <1>2 DEF Spread
<1> HIDE DEF c, N
<1>3. 0 \in S
  BY <1>1
<1>4. ASSUME NEW k \in 1 .. N, k - 1 \in S PROVE k \in S
  <2>1. k \in 0 .. N /\ Brought(c[k - 1]) /\ c[k] = Spread(carriers, c[k - 1])
    BY <1>1, <1>4
  <2> HIDE DEF Brought
  <2> QED BY <1>2, <2>1
<1>5. N \in S
  <2> HIDE DEF S
  <2>1. 0 .. N \subseteq S
    BY <1>1, <1>3, <1>4, IntervalInduction
  <2> QED BY <1>1, <2>1
<1> QED BY <1>1, <1>5

-----------------------------------------------------------------------------
(* What the visitor notes of an instruction.                               *)
LookedUp == {"use", "switch", "branch", "call", "recurse"}

LEMMA NotedFields ==
    ASSUME NEW n, IsNotes(n), NEW i, i.op \in Ops
    PROVE  /\ Noted(n, i).vmap = IF i.op \in LookedUp THEN Insert(n.vmap, i.def, RelatedAll(n.vmap, i.from))
                                 ELSE IF i.op = "store" THEN With(n.vmap, i.def, RelatedAll(n.vmap, i.from))
                                 ELSE n.vmap
           /\ Noted(n, i).phis = IF i.op = "phi" THEN n.phis \cup {i} ELSE n.phis
           /\ Noted(n, i).stateVars = IF i.op = "recurse" THEN n.stateVars \cup RelatedAll(n.vmap, i.from)
                                      ELSE n.stateVars
<1> DEFINE vals == RelatedAll(n.vmap, i.from)
           found == Insert(n.vmap, i.def, vals)
           u == [n EXCEPT !.vmap = found]
<1>1. Used(n, i) = u
  BY DEF Used, IsNotes
<1>2. u.vmap = found /\ u.phis = n.phis /\ u.stateVars = n.stateVars /\ IsNotes(u)
  <2> HIDE DEF found
  <2> QED BY DEF IsNotes
<1> HIDE DEF u, found
<1>4. CASE i.op \in {"use", "switch"}
  BY <1>1, <1>2, <1>4 DEF Noted, LookedUp, found
<1>5. CASE i.op = "branch"
  <2>1. Noted(n, i) = [u EXCEPT !.isBranch = TRUE]
    BY <1>1, <1>5 DEF Noted
  <2> QED BY <1>2, <1>5, <2>1 DEF IsNotes, LookedUp, found
<1>6. CASE i.op = "store"
  <2> DEFINE map == With(n.vmap, i.def, vals)
  <2>1. Noted(n, i) = [n EXCEPT !.vmap = map]
    BY <1>6 DEF Noted, IsNotes
  <2>2. Noted(n, i).vmap = map /\ Noted(n, i).phis = n.phis /\ Noted(n, i).stateVars = n.stateVars
    <3> HIDE DEF map
    <3> QED BY <2>1 DEF IsNotes
  <2> QED BY <1>6, <2>2 DEF LookedUp
<1>7. CASE i.op = "phi"
  <2> DEFINE phis == n.phis \cup {i}
  <2>1. Noted(n, i) = [n EXCEPT !.phis = phis]
    BY <1>7 DEF Noted, IsNotes
  <2>2. Noted(n, i).vmap = n.vmap /\ Noted(n, i).phis = phis /\ Noted(n, i).stateVars = n.stateVars
    <3> HIDE DEF phis
    <3> QED BY <2>1 DEF IsNotes
  <2> QED BY <1>7, <2>2 DEF LookedUp
<1>8. CASE i.op = "call"
  <2>1. Noted(n, i) = [u EXCEPT !.isRec = TRUE]
    BY <1>1, <1>8 DEF Noted
  <2> QED BY <1>2, <1>8, <2>1 DEF IsNotes, LookedUp, found
<1>9. CASE i.op = "recurse"
  <2> DEFINE newVars == u.stateVars \cup vals
  <2>1. Noted(n, i) = [u EXCEPT !.isRec = TRUE, !.stateVars = newVars]
    BY <1>1, <1>2, <1>9 DEF Noted, IsNotes
  <2>2. Noted(n, i).vmap = u.vmap /\ Noted(n, i).phis = u.phis /\ Noted(n, i).stateVars = newVars
    <3> HIDE DEF newVars
    <3> QED BY <1>2, <2>1 DEF IsNotes
  <2> QED BY <1>2, <1>9, <2>2 DEF LookedUp, found
<1>10. CASE i.op = "return"
  <2>1. Noted(n, i) = [n EXCEPT !.isReturn = TRUE]
    BY <1>10 DEF Noted
  <2> QED BY <1>10, <2>1 DEF IsNotes, LookedUp
<1>11. CASE i.op = "ignored"
  BY <1>11 DEF Noted, LookedUp
<1> QED BY <1>4, <1>5, <1>6, <1>7, <1>8, <1>9, <1>10, <1>11 DEF Ops

LEMMA FreshFields ==
    ASSUME NEW n, IsNotes(n)
    PROVE  /\ IsNotes(Fresh(n)) /\ Fresh(n).vmap = n.vmap
           /\ Fresh(n).phis = n.phis /\ Fresh(n).stateVars = n.stateVars
<1>1. Fresh(n) = [n EXCEPT !.isBranch = FALSE, !.isReturn = FALSE, !.isRec = FALSE]
  BY DEF Fresh
<1> QED BY <1>1 DEF IsNotes

(* What is noted for a value are arguments that can get into it.           *)
Gets(v, a) == a \in fun.args /\ \E j \in Instructions : j.def = v /\ j.from \cap Reached(Instructions, a) # {}
Decides(a, op) == a \in fun.args /\ \E i \in Instructions : i.op = op /\ i.from \cap Reached(Instructions, a) # {}

Carried(n) ==
    /\ \A v \in DOMAIN n.vmap : \A a \in n.vmap[v] : Gets(v, a)
    /\ n.phis \subseteq Instructions
    /\ \A a \in n.stateVars : Decides(a, "recurse")

LEMMA RelatedCarried ==
    ASSUME fun \in Functions, NEW n, Carried(n), NEW vs, NEW a \in RelatedAll(n.vmap, vs)
    PROVE  a \in fun.args /\ vs \cap Reached(Instructions, a) # {}
<1>1. PICK v \in vs : a \in Related(n.vmap, v)
  BY DEF RelatedAll
<1>2. a \in fun.args
  BY <1>1 DEF Related
<1>3. CASE v \in DOMAIN n.vmap
  <2>1. a \in n.vmap[v]
    BY <1>1, <1>3 DEF Related
  <2>2. PICK j \in Instructions : j.def = v /\ j.from \cap Reached(Instructions, a) # {}
    BY <1>3, <2>1 DEF Carried, Gets
  <2>3. v \in Reached(Instructions, a)
    BY <2>2, ReachedClosed
  <2> QED BY <1>1, <1>2, <2>3
<1>4. CASE v \notin DOMAIN n.vmap
  <2>1. a = v
    BY <1>1, <1>4 DEF Related
  <2>2. a \in Reached(Instructions, a)
    BY ReachedClosed
  <2> QED BY <1>1, <1>2, <2>1, <2>2
<1> QED BY <1>3, <1>4

LEMMA InsertCarried ==
    ASSUME fun \in Functions, NEW n, Carried(n), NEW i \in Instructions, NEW map,
           \/ map = Insert(n.vmap, i.def, RelatedAll(n.vmap, i.from))
           \/ map = With(n.vmap, i.def, RelatedAll(n.vmap, i.from))
           \/ map = n.vmap
    PROVE  \A v \in DOMAIN map : \A a \in map[v] : Gets(v, a)
<1> SUFFICES ASSUME NEW v \in DOMAIN map, NEW a \in map[v] PROVE Gets(v, a)
  OBVIOUS
<1>1. \/ v \in DOMAIN n.vmap /\ map[v] = n.vmap[v]
      \/ v = i.def /\ map[v] = RelatedAll(n.vmap, i.from)
  BY DEF Insert, With
<1>2. CASE v \in DOMAIN n.vmap /\ map[v] = n.vmap[v]
  BY <1>2 DEF Carried
<1>3. CASE v = i.def /\ map[v] = RelatedAll(n.vmap, i.from)
  BY <1>3, RelatedCarried DEF Gets
<1> QED BY <1>1, <1>2, <1>3

LEMMA NotedCarried ==
    ASSUME fun \in Functions, NEW n, IsNotes(n), Carried(n), NEW i \in Instructions, i.op \in Ops
    PROVE  Carried(Noted(n, i))
<1> DEFINE m == Noted(n, i)
<1>1. \A v \in DOMAIN m.vmap : \A a \in m.vmap[v] : Gets(v, a)
  <2>1. \/ m.vmap = Insert(n.vmap, i.def, RelatedAll(n.vmap, i.from))
        \/ m.vmap = With(n.vmap, i.def, RelatedAll(n.vmap, i.from))
        \/ m.vmap = n.vmap
    BY NotedFields
  <2> HIDE DEF m
  <2> QED BY <2>1, InsertCarried
<1>2. m.phis \subseteq Instructions
  <2>1. m.phis = IF i.op = "phi" THEN n.phis \cup {i} ELSE n.phis
    BY NotedFields
  <2> HIDE DEF m
  <2> QED BY <2>1 DEF Carried
<1>3. ASSUME NEW a \in m.stateVars PROVE Decides(a, "recurse")
  <2>1. a \in n.stateVars \/ (i.op = "recurse" /\ a \in RelatedAll(n.vmap, i.from))
    BY <1>3, NotedFields
  <2>2. CASE a \in n.stateVars
    BY <2>2 DEF Carried
  <2>3. CASE i.op = "recurse" /\ a \in RelatedAll(n.vmap, i.from)
    BY <2>3, RelatedCarried DEF Decides
  <2> QED BY <2>1, <2>2, <2>3
<1> HIDE DEF m
<1>4. Carried(m)
  BY <1>1, <1>2, <1>3 DEF Carried
<1> QED BY <1>4 DEF m

LEMMA LinkedCarried ==
    ASSUME fun \in Functions, NEW n, IsNotes(n), Carried(n), NEW block \in Reachable
    PROVE  Carried(Linked(n, block))
<1> DEFINE N == Len(CodeOf(block))
           f == NoteLoop(n, block)
           S == {k \in 0 .. N : IsNotes(f[k]) /\ Carried(f[k])}
<1>1. /\ N \in Nat /\ f[0] = Fresh(n) /\ Linked(n, block) = f[N]
      /\ \A k \in 1 .. N : f[k] = Noted(f[k - 1], CodeOf(block)[k])
  BY LinkedUnfolds, BlocksReached
<1>2. \A k \in 1 .. N : CodeOf(block)[k] \in Instructions /\ CodeOf(block)[k].op \in Ops
  <2>1. block \in DOMAIN fun.blocks /\ Code(block) \subseteq Instructions
    BY BlocksReached
  <2>2. DOMAIN CodeOf(block) = 1 .. N /\ \A k \in 1 .. N : CodeOf(block)[k].op \in Ops
    BY <2>1, FunctionsTyped DEF CodeOf
  <2> QED BY <2>1, <2>2 DEF Code, CodeOf, Range
<1> HIDE DEF f, N
<1>3. 0 \in S
  <2>1. Carried(Fresh(n)) /\ IsNotes(Fresh(n))
    BY FreshFields DEF Carried
  <2> QED BY <1>1, <2>1
<1>4. ASSUME NEW k \in 1 .. N, k - 1 \in S PROVE k \in S
  <2>1. IsNotes(f[k - 1]) /\ Carried(f[k - 1]) /\ k \in 0 .. N
    BY <1>1, <1>4
  <2>2. IsNotes(f[k]) /\ Carried(f[k])
    BY <1>1, <1>2, <2>1, NotedReturn, NotedCarried
  <2> QED BY <2>1, <2>2
<1>5. N \in S
  <2> HIDE DEF S
  <2>1. 0 .. N \subseteq S
    BY <1>1, <1>3, <1>4, IntervalInduction
  <2> QED BY <1>1, <2>1
<1> QED BY <1>1, <1>5

-----------------------------------------------------------------------------
(* Nothing is chosen that cannot matter: the invariant of the choice.       *)
Choosing ==
    /\ parsing = "none" => notes = NoNotes /\ visitedBranchs = {} /\ visitedBrBlks = {}
    /\ parsing # "none" => Carried(notes) /\ visitedBranchs \subseteq Reachable /\ visitedBrBlks \subseteq Reachable
    /\ parsing = "done" => \A a \in stateValues : Decides(a, "recurse") \/ Decides(a, "branch")

LEMMA SameInstructions ==
    ASSUME UNCHANGED fun
    PROVE  Walks' = Walks /\ Reachable' = Reachable /\ Instructions' = Instructions
<1>1. Walks' = Walks
  BY DEF Walks, WalksOf
<1>2. Reachable' = Reachable
  BY <1>1 DEF Reachable
<1>3. Instructions' = Instructions
  BY <1>2 DEF Instructions, Code
<1> QED BY <1>1, <1>2, <1>3

LEMMA SameReached ==
    ASSUME UNCHANGED fun
    PROVE  \A a : Reached(Instructions, a)' = Reached(Instructions, a)
BY SameInstructions DEF Reached, Spread

LEMMA SameCarried ==
    ASSUME UNCHANGED fun
    PROVE  /\ \A a, op : Decides(a, op)' <=> Decides(a, op)
           /\ UNCHANGED notes => (Carried(notes)' <=> Carried(notes))
           /\ \A n : n = notes' /\ Carried(n) => Carried(notes)'
<1>1. \A a : Reached(Instructions, a)' = Reached(Instructions, a)
  BY SameReached
<1>2. \A v, a : Gets(v, a)' <=> Gets(v, a)
  BY <1>1, SameInstructions DEF Gets
<1>3. \A a, op : Decides(a, op)' <=> Decides(a, op)
  BY <1>1, SameInstructions DEF Decides
<1>4. \A n : n = notes' /\ Carried(n) => Carried(notes)'
  BY <1>2, <1>3, SameInstructions DEF Carried
<1>5. UNCHANGED notes => (Carried(notes)' <=> Carried(notes))
  BY <1>2, <1>3, SameInstructions DEF Carried
<1> QED BY <1>3, <1>4, <1>5

(* The value of a branch is yielded by that branch alone.                   *)
LEMMA BranchAlone ==
    ASSUME fun \in Functions, NEW i \in Instructions, i.op = "branch"
    PROVE  i.def \notin fun.args /\ \A j \in Instructions : j.def = i.def => j = i
<1>1. PICK b \in Reachable : i \in Code(b)
  BY DEF Instructions
<1>2. b \in DOMAIN fun.blocks
  BY <1>1, BlocksReached
<1>3. PICK k \in DOMAIN fun.blocks[b].code : fun.blocks[b].code[k] = i
  BY <1>1 DEF Code, Range
<1>4. i.def \notin fun.args
  BY <1>2, <1>3, StaticSingleAssignment
<1>5. ASSUME NEW j \in Instructions, j.def = i.def PROVE j = i
  <2>1. PICK c \in Reachable : j \in Code(c)
    BY DEF Instructions
  <2>2. c \in DOMAIN fun.blocks
    BY <2>1, BlocksReached
  <2>3. PICK l \in DOMAIN fun.blocks[c].code : fun.blocks[c].code[l] = j
    BY <2>1 DEF Code, Range
  <2>4. b = c /\ k = l
    BY <1>2, <1>3, <1>5, <2>2, <2>3, StaticSingleAssignment
  <2> QED BY <1>3, <2>3, <2>4
<1> QED BY <1>4, <1>5

LEMMA BranchesCarried ==
    ASSUME fun \in Functions, Carried(notes), visitedBrBlks \subseteq Reachable,
           NEW a \in RelatedAll(notes.vmap, BranchVals)
    PROVE  Decides(a, "branch")
<1>1. PICK v \in BranchVals : a \in Related(notes.vmap, v)
  BY DEF RelatedAll
<1>2. PICK i \in Instructions : i.op = "branch" /\ i.def = v
  <2>1. PICK b \in Open : v \in {i.def : i \in {j \in Range(fun.blocks[b].code) : j.op = "branch"}}
    BY <1>1 DEF BranchVals
  <2>2. b \in Reachable
    BY DEF Open
  <2> QED BY <2>1, <2>2, BlocksReached DEF Code
<1>3. a \in fun.args
  BY <1>1 DEF Related
<1>4. CASE v \in DOMAIN notes.vmap
  <2>1. a \in notes.vmap[v]
    BY <1>1, <1>4 DEF Related
  <2>2. PICK j \in Instructions : j.def = v /\ j.from \cap Reached(Instructions, a) # {}
    BY <1>4, <2>1 DEF Carried, Gets
  <2>3. j = i
    BY <1>2, <2>2, BranchAlone
  <2> QED BY <1>2, <1>3, <2>2, <2>3 DEF Decides
<1>5. CASE v \notin DOMAIN notes.vmap
  <2>1. a = v
    BY <1>1, <1>5 DEF Related
  <2> QED BY <1>2, <1>3, <2>1, BranchAlone
<1> QED BY <1>4, <1>5

LEMMA ChoosingNext == Walking /\ Choosing /\ [ChoiceNext]_choiceVars => Choosing'
<1> SUFFICES ASSUME Walking, Choosing, [ChoiceNext]_choiceVars PROVE Choosing'
  OBVIOUS
<1>1. CASE BeginParsing
  <2>1. /\ notes' = NoNotes /\ visitedBranchs' = {} /\ visitedBrBlks' = {} /\ parsing' = "paths"
    BY <1>1 DEF BeginParsing, Choosing
  <2>2. Carried(notes)'
    BY <2>1 DEF Carried, NoNotes
  <2> QED BY <2>1, <2>2 DEF Choosing
<1>2. CASE WalkBlock
  <2>1. PICK path \in Walks : path = Last(paths) /\ IsWalk(path) /\ fun \in Functions /\ UNCHANGED fun
    BY <1>2, RoundFacts
  <2> DEFINE block == Last(path)
             n == Linked(notes, block)
  <2>2. block \in Reachable
    BY <2>1, ReachableBlocks
  <2>3. IsNotes(notes) /\ Carried(notes) /\ visitedBranchs \subseteq Reachable /\ visitedBrBlks \subseteq Reachable
    BY <1>2 DEF Walking, Choosing, WalkBlock
  <2>4. Carried(n)
    BY <2>1, <2>2, <2>3, LinkedCarried
  <2>5. /\ notes' = n /\ parsing' = "paths"
        /\ visitedBranchs' \subseteq visitedBranchs \cup {block}
        /\ visitedBrBlks' \subseteq visitedBrBlks \cup visitedBranchs'
    BY <1>2, <2>1 DEF WalkBlock
  <2> HIDE DEF n
  <2>6. Carried(notes)'
    BY <2>1, <2>3, <2>4, <2>5, SameCarried
  <2>7. Reachable' = Reachable
    BY <2>1, SameInstructions
  <2> QED BY <2>2, <2>3, <2>5, <2>6, <2>7 DEF Choosing
<1>3. CASE PathsWalked
  <2>1. /\ UNCHANGED <<fun, notes, visitedBranchs, visitedBrBlks>> /\ parsing = "paths" /\ parsing' = "phis"
    BY <1>3 DEF PathsWalked
  <2>2. Carried(notes)' /\ Reachable' = Reachable
    BY <2>1, SameCarried, SameInstructions DEF Choosing
  <2> QED BY <2>1, <2>2 DEF Choosing
<1>4. CASE ParsePHI
  <2>1. PICK phi \in notes.phis :
          notes' = [notes EXCEPT !.phis = @ \ {phi}, !.vmap = Insert(@, phi.def, RelatedAll(@, phi.from))]
    BY <1>4 DEF ParsePHI
  <2>2. /\ UNCHANGED <<fun, visitedBranchs, visitedBrBlks, parsing>> /\ parsing = "phis"
        /\ IsNotes(notes) /\ Carried(notes) /\ fun \in Functions
        /\ visitedBranchs \subseteq Reachable /\ visitedBrBlks \subseteq Reachable
    BY <1>4 DEF ParsePHI, Choosing, Walking
  <2>3. phi \in Instructions
    BY <2>2 DEF Carried
  <2> DEFINE map == Insert(notes.vmap, phi.def, RelatedAll(notes.vmap, phi.from))
             n == [notes EXCEPT !.phis = notes.phis \ {phi}, !.vmap = map]
  <2>4. \A v \in DOMAIN map : \A a \in map[v] : Gets(v, a)
    <3> HIDE DEF map
    <3>1. map = Insert(notes.vmap, phi.def, RelatedAll(notes.vmap, phi.from))
      BY DEF map
    <3> QED BY <2>2, <2>3, <3>1, InsertCarried
  <2>5. notes' = n
    BY <2>1, <2>2 DEF IsNotes
  <2>6. Carried(n)
    <3>1. n.vmap = map /\ n.phis = notes.phis \ {phi} /\ n.stateVars = notes.stateVars
      <4> HIDE DEF map
      <4> QED BY <2>2 DEF IsNotes
    <3> HIDE DEF map, n
    <3> QED BY <2>2, <2>4, <3>1 DEF Carried
  <2> HIDE DEF n
  <2>7. Carried(notes)' /\ Reachable' = Reachable
    BY <2>2, <2>5, <2>6, SameCarried, SameInstructions
  <2> QED BY <2>2, <2>7 DEF Choosing
<1>5. CASE ChooseStates
  <2>1. /\ UNCHANGED <<fun, notes, visitedBranchs, visitedBrBlks>> /\ parsing = "phis" /\ parsing' = "done"
        /\ stateValues' = Chosen
    BY <1>5 DEF ChooseStates
  <2>2. Carried(notes) /\ visitedBrBlks \subseteq Reachable /\ fun \in Functions
    BY <2>1 DEF Choosing, Walking
  <2>3. Carried(notes)' /\ Reachable' = Reachable /\ \A a, op : Decides(a, op)' <=> Decides(a, op)
    BY <2>1, <2>2, SameCarried, SameInstructions
  <2>4. ASSUME NEW a \in Chosen PROVE Decides(a, "recurse") \/ Decides(a, "branch")
    <3>1. a \in RelatedAll(notes.vmap, BranchVals) \/ a \in notes.stateVars
      BY DEF Chosen
    <3>2. CASE a \in RelatedAll(notes.vmap, BranchVals)
      BY <2>2, <3>2, BranchesCarried
    <3>3. CASE a \in notes.stateVars
      BY <2>2, <3>3 DEF Carried
    <3> QED BY <3>1, <3>2, <3>3
  <2>5. \A a \in stateValues' : Decides(a, "recurse")' \/ Decides(a, "branch")'
    BY <2>1, <2>3, <2>4
  <2> QED BY <2>1, <2>2, <2>3, <2>5 DEF Choosing
<1>6. CASE UNCHANGED choiceVars
  <2>1. UNCHANGED <<fun, notes, visitedBranchs, visitedBrBlks, parsing, stateValues>>
    BY <1>6 DEF choiceVars
  <2>2. (Carried(notes)' <=> Carried(notes)) /\ Reachable' = Reachable /\ \A a, op : Decides(a, op)' <=> Decides(a, op)
    BY <2>1, SameCarried, SameInstructions
  <2> QED BY <2>1, <2>2 DEF Choosing
<1> QED BY <1>1, <1>2, <1>3, <1>4, <1>5, <1>6 DEF ChoiceNext

(* Whatever the order in which blocks are walked and phis parsed, and        *)
(* however a slot is written, the state of a pivot holds nothing but         *)
(* arguments that can get into a recursive call or a branch's condition.    *)
THEOREM StatesMatter == ChoiceSpec => []StatesCanMatter
<1>1. ChoiceInit => Choosing
  BY DEF ChoiceInit, Choosing
<1>2. Walking /\ Choosing => StatesCanMatter
  <2> SUFFICES ASSUME Choosing, parsing = "done", NEW a \in stateValues
               PROVE  a \in fun.args /\ Carries(Instructions, a, {"recurse", "branch"})
    BY DEF StatesCanMatter
  <2>1. PICK op \in {"recurse", "branch"} : Decides(a, op)
    BY DEF Choosing
  <2> QED BY <2>1 DEF Decides, Carries
<1> QED BY <1>1, <1>2, ChoosingNext, WalkingAlways, PTL DEF ChoiceSpec

-----------------------------------------------------------------------------
(* Nothing that surely matters is missing: what is noted of the instructions *)
(* met so far, D being their places.                                       *)
Place(b, k) == b \in Reachable /\ k \in 1 .. Len(CodeOf(b))
Unwritten == {a \in fun.args : Writes(a) = {}}
Surely(a) == Reached(SureCarriers, a)

HeldOf(n, i) ==
    \A a \in Unwritten :
        i.from \cap Surely(a) # {} =>
            /\ i \in SureCarriers => i.def \in DOMAIN n.vmap /\ a \in n.vmap[i.def]
            /\ i.op = "recurse" => a \in n.stateVars
Held(n, D) ==
    /\ \A v \in DOMAIN n.vmap : \E b, k : Place(b, k) /\ <<b, k>> \in D /\ CodeOf(b)[k].def = v
    /\ \A b, k : Place(b, k) /\ <<b, k>> \in D => HeldOf(n, CodeOf(b)[k])

(* All that comes before a place has been met.                             *)
Ready(D, b, k) == \A c, l : Place(c, l) /\ Comes(fun, c, l, b, k) => <<c, l>> \in D

LEMMA PlaceFacts ==
    ASSUME fun \in Functions, NEW b, NEW k, Place(b, k)
    PROVE  /\ b \in DOMAIN fun.blocks /\ k \in DOMAIN fun.blocks[b].code /\ k \in Nat \ {0}
           /\ CodeOf(b)[k] = fun.blocks[b].code[k] /\ CodeOf(b)[k] \in Instructions /\ CodeOf(b)[k].op \in Ops
<1>1. b \in DOMAIN fun.blocks /\ Code(b) \subseteq Instructions
  BY BlocksReached DEF Place
<1>2. Len(CodeOf(b)) \in Nat /\ DOMAIN CodeOf(b) = 1 .. Len(CodeOf(b)) /\ CodeOf(b) = fun.blocks[b].code
  BY <1>1, FunctionsTyped DEF CodeOf
<1>3. CodeOf(b)[k].op \in Ops
  BY <1>1, <1>2, FunctionsTyped DEF Place, CodeOf
<1> QED BY <1>1, <1>2, <1>3 DEF Place, Code, Range

LEMMA InstructionsPlaced ==
    ASSUME fun \in Functions, NEW i \in Instructions
    PROVE  \E b, k : Place(b, k) /\ CodeOf(b)[k] = i
<1>1. PICK b \in Reachable : i \in Code(b)
  BY DEF Instructions
<1>2. DOMAIN CodeOf(b) = 1 .. Len(CodeOf(b)) /\ CodeOf(b) = fun.blocks[b].code
  BY <1>1, BlocksReached, FunctionsTyped DEF CodeOf
<1> QED BY <1>1, <1>2 DEF Place, Code, Range

LEMMA DefinedOnce ==
    ASSUME fun \in Functions, NEW c, NEW l, Place(c, l), CodeOf(c)[l].op # "store"
    PROVE  /\ CodeOf(c)[l].def \notin fun.args
           /\ \A b, k : /\ Place(b, k) /\ CodeOf(b)[k].op # "store" /\ CodeOf(b)[k].def = CodeOf(c)[l].def
                        => b = c /\ k = l
           /\ \A b, k : /\ Place(b, k) /\ CodeOf(b)[k].op # "phi" /\ CodeOf(c)[l].def \in CodeOf(b)[k].from
                        => Comes(fun, c, l, b, k)
<1>1. CodeOf(c)[l].def \notin fun.args
  BY PlaceFacts, StaticSingleAssignment
<1>2. ASSUME NEW b, NEW k, Place(b, k), CodeOf(b)[k].op # "store", CodeOf(b)[k].def = CodeOf(c)[l].def
      PROVE  b = c /\ k = l
  BY <1>2, PlaceFacts, StaticSingleAssignment
<1>3. ASSUME NEW b, NEW k, Place(b, k), CodeOf(b)[k].op # "phi", CodeOf(c)[l].def \in CodeOf(b)[k].from
      PROVE  Comes(fun, c, l, b, k)
  BY <1>3, PlaceFacts, StaticSingleAssignment
<1> QED BY <1>1, <1>2, <1>3

(* A slot that is written once, in the entry block, is written before it is   *)
(* read.                                                                   *)
LEMMA SpilledBefore ==
    ASSUME fun \in Functions, NEW j \in Instructions, Spills(j),
           NEW b, NEW k, Place(b, k), j.def \in CodeOf(b)[k].from
    PROVE  \E l : Place(1, l) /\ CodeOf(1)[l] = j /\ Comes(fun, 1, l, b, k)
<1>1. b \in DOMAIN fun.blocks /\ k \in Nat \ {0} /\ CodeOf(b) = fun.blocks[b].code
  BY PlaceFacts DEF CodeOf
<1>2. 1 \in Reachable
  <2>1. PICK w : IsWalk(w) /\ Last(w) = b
    BY ReachableBlocks DEF Place
  <2>2. w[1] = 1 /\ 1 \in 1 .. Len(w) /\ w \in Walks
    BY <2>1, WalkFacts, WalkSet DEF IsWalk
  <2> QED BY <2>1, <2>2, WalkFacts DEF Reachable
<1>3. 1 \in DOMAIN fun.blocks /\ DOMAIN fun.blocks[1].code = 1 .. Len(CodeOf(1)) /\ CodeOf(1) = fun.blocks[1].code
      /\ Len(CodeOf(1)) \in Nat
  BY <1>2, BlocksReached, FunctionsTyped DEF CodeOf
<1>4. PICK l \in 1 .. Len(CodeOf(1)) : CodeOf(1)[l] = j /\ \A m \in 1 .. l : j.def \notin CodeOf(1)[m].from
  BY <1>3 DEF Spills
<1>5. Comes(fun, 1, l, b, k)
  <2>1. CASE b = 1
    <3>1. k \notin 1 .. l
      BY <1>4, <2>1
    <3> QED BY <1>1, <1>3, <1>4, <2>1, <3>1 DEF Comes
  <2>2. CASE b # 1
    <3>1. ASSUME NEW p \in Walks PROVE \E n \in DOMAIN p : p[n] = 1
      BY WalkSet, WalkFacts DEF IsWalk
    <3> QED BY <2>2, <3>1 DEF Comes, Walks
  <2> QED BY <2>1, <2>2
<1> QED BY <1>2, <1>4, <1>5 DEF Place

(* What the visitor finds for the operands of an instruction it has not met   *)
(* yet, once it has met all that comes before.                             *)
LEMMA UnwrittenUnnoted ==
    ASSUME fun \in Functions, NEW n, NEW D, Held(n, D), NEW a \in Unwritten
    PROVE  a \notin DOMAIN n.vmap
<1> SUFFICES ASSUME a \in DOMAIN n.vmap PROVE FALSE
  OBVIOUS
<1>1. PICK b, k : Place(b, k) /\ CodeOf(b)[k].def = a
  BY DEF Held
<1>2. CASE CodeOf(b)[k].op = "store"
  BY <1>1, <1>2, PlaceFacts DEF Unwritten, Writes
<1>3. CASE CodeOf(b)[k].op # "store"
  BY <1>1, <1>3, DefinedOnce DEF Unwritten
<1> QED BY <1>2, <1>3

LEMMA SurelyFound ==
    ASSUME fun \in Functions, NEW n, NEW D, Held(n, D), NEW a \in Unwritten,
           NEW b, NEW k, Place(b, k), Ready(D, b, k), CodeOf(b)[k].op # "phi",
           CodeOf(b)[k].from \cap Surely(a) # {}
    PROVE  a \in RelatedAll(n.vmap, CodeOf(b)[k].from)
<1>1. PICK v \in CodeOf(b)[k].from : v \in Surely(a)
  OBVIOUS
<1>2. a \in fun.args
  BY DEF Unwritten
<1>3. a \in Related(n.vmap, v)
  <2>1. CASE v = a
    BY <1>2, <2>1, UnwrittenUnnoted DEF Related
  <2>2. CASE v # a
    <3>1. PICK j \in SureCarriers : j.def = v /\ j.from \cap Surely(a) # {}
      <4>1. SureCarriers \in SUBSET Instructions
        BY DEF SureCarriers
      <4> QED BY <1>1, <2>2, <4>1, ReachedGenerated DEF Surely
    <3>2. \E c, l : Place(c, l) /\ CodeOf(c)[l] = j /\ Comes(fun, c, l, b, k)
      <4>1. CASE j.op = "store"
        BY <1>1, <3>1, <4>1, SpilledBefore DEF SureCarriers
      <4>2. CASE j.op # "store"
        <5>1. PICK c, l : Place(c, l) /\ CodeOf(c)[l] = j
          BY <3>1, InstructionsPlaced DEF SureCarriers
        <5> QED BY <1>1, <3>1, <4>2, <5>1, DefinedOnce
      <4> QED BY <4>1, <4>2
    <3>3. HeldOf(n, j)
      <4>1. PICK c, l : Place(c, l) /\ CodeOf(c)[l] = j /\ Comes(fun, c, l, b, k)
        BY <3>2
      <4>2. <<c, l>> \in D
        BY <4>1 DEF Ready
      <4> QED BY <4>1, <4>2 DEF Held
    <3>4. v \in DOMAIN n.vmap /\ a \in n.vmap[v]
      BY <3>1, <3>3 DEF HeldOf
    <3> QED BY <1>2, <3>4 DEF Related
  <2> QED BY <2>1, <2>2
<1> QED BY <1>1, <1>3 DEF RelatedAll

LEMMA NotedHeld ==
    ASSUME fun \in Functions, NEW n, IsNotes(n), NEW D, Held(n, D), NEW b, NEW k, Place(b, k), Ready(D, b, k)
    PROVE  Held(Noted(n, CodeOf(b)[k]), D \cup {<<b, k>>})
<1> DEFINE i == CodeOf(b)[k]
           vals == RelatedAll(n.vmap, i.from)
<1>1. i \in Instructions /\ i.op \in Ops
  BY PlaceFacts
<1>2. PICK m : m = Noted(n, i)
  OBVIOUS
<1>3. /\ m.vmap = IF i.op \in LookedUp THEN Insert(n.vmap, i.def, vals)
                  ELSE IF i.op = "store" THEN With(n.vmap, i.def, vals) ELSE n.vmap
      /\ m.stateVars = IF i.op = "recurse" THEN n.stateVars \cup vals ELSE n.stateVars
  BY <1>1, <1>2, NotedFields
<1>4. ASSUME NEW v \in DOMAIN m.vmap PROVE v \in DOMAIN n.vmap \/ v = i.def
  BY <1>3 DEF Insert, With
<1>5. ASSUME NEW v \in DOMAIN n.vmap, i.op # "store" \/ i.def # v
      PROVE  v \in DOMAIN m.vmap /\ m.vmap[v] = n.vmap[v]
  BY <1>3, <1>5 DEF Insert, With
<1>6. i.op = "store" => i.def \in DOMAIN m.vmap /\ m.vmap[i.def] = vals
  BY <1>3 DEF With, LookedUp
<1>7. i.op \in LookedUp /\ i.def \notin DOMAIN n.vmap => i.def \in DOMAIN m.vmap /\ m.vmap[i.def] = vals
  BY <1>3 DEF Insert, With
<1>8. HeldOf(m, i)
  <2> SUFFICES ASSUME NEW a \in Unwritten, i.from \cap Surely(a) # {}
               PROVE  /\ i \in SureCarriers => i.def \in DOMAIN m.vmap /\ a \in m.vmap[i.def]
                      /\ i.op = "recurse" => a \in m.stateVars
    BY DEF HeldOf
  <2>1. i.op # "phi" => a \in vals
    BY SurelyFound
  <2> HIDE DEF vals
  <2>2. ASSUME i \in SureCarriers PROVE i.def \in DOMAIN m.vmap /\ a \in m.vmap[i.def]
    <3>1. CASE i.op = "store"
      BY <1>6, <2>1, <3>1
    <3>2. CASE i.op # "store"
      <4>1. i.op \in {"use", "call", "recurse"} /\ Writes(i.def) = {}
        BY <2>2, <3>2 DEF SureCarriers
      <4>2. CASE i.def \notin DOMAIN n.vmap
        BY <1>7, <2>1, <4>1, <4>2 DEF LookedUp
      <4>3. CASE i.def \in DOMAIN n.vmap
        <5>1. PICK c, l : Place(c, l) /\ <<c, l>> \in D /\ CodeOf(c)[l].def = i.def
          BY <4>3 DEF Held
        <5>2. CodeOf(c)[l].op # "store"
          BY <4>1, <5>1, PlaceFacts DEF Writes
        <5>3. c = b /\ l = k
          BY <3>2, <5>1, <5>2, DefinedOnce
        <5>4. HeldOf(n, i)
          BY <5>1, <5>3 DEF Held
        <5>5. a \in n.vmap[i.def]
          BY <2>2, <5>4 DEF HeldOf
        <5> QED BY <1>5, <3>2, <4>3, <5>5
      <4> QED BY <4>2, <4>3
    <3> QED BY <3>1, <3>2
  <2>3. i.op = "recurse" => a \in m.stateVars
    BY <1>3, <2>1
  <2> QED BY <2>2, <2>3
<1>9. ASSUME NEW c, NEW l, Place(c, l), <<c, l>> \in D PROVE HeldOf(m, CodeOf(c)[l])
  <2> DEFINE j == CodeOf(c)[l]
  <2>1. HeldOf(n, j)
    BY <1>9 DEF Held
  <2> SUFFICES ASSUME NEW a \in Unwritten, j.from \cap Surely(a) # {}
               PROVE  /\ j \in SureCarriers => j.def \in DOMAIN m.vmap /\ a \in m.vmap[j.def]
                      /\ j.op = "recurse" => a \in m.stateVars
    BY DEF HeldOf
  <2> HIDE DEF i, j, vals
  <2>2. ASSUME j \in SureCarriers PROVE j.def \in DOMAIN m.vmap /\ a \in m.vmap[j.def]
    <3>1. j.def \in DOMAIN n.vmap /\ a \in n.vmap[j.def]
      BY <2>1, <2>2 DEF HeldOf
    <3>2. CASE i.op = "store" /\ i.def = j.def
      <4>1. i \in Writes(j.def)
        BY <1>1, <3>2 DEF Writes
      <4>2. i = j
        BY <2>2, <4>1 DEF SureCarriers
      <4> QED BY <1>8, <2>2, <4>2 DEF HeldOf
    <3>3. CASE ~ (i.op = "store" /\ i.def = j.def)
      BY <1>5, <3>1, <3>3
    <3> QED BY <3>2, <3>3
  <2>3. j.op = "recurse" => a \in m.stateVars
    BY <1>3, <2>1 DEF HeldOf
  <2> QED BY <2>2, <2>3
<1>10. ASSUME NEW v \in DOMAIN m.vmap
       PROVE  \E c, l : Place(c, l) /\ <<c, l>> \in D \cup {<<b, k>>} /\ CodeOf(c)[l].def = v
  <2>1. CASE v \in DOMAIN n.vmap
    BY <2>1 DEF Held
  <2>2. CASE v = i.def
    BY <2>2
  <2> QED BY <1>4, <2>1, <2>2
<1>11. ASSUME NEW c, NEW l, Place(c, l), <<c, l>> \in D \cup {<<b, k>>} PROVE HeldOf(m, CodeOf(c)[l])
  <2>1. CASE <<c, l>> \in D
    BY <1>9, <1>11, <2>1
  <2>2. CASE <<c, l>> = <<b, k>>
    BY <1>8, <2>2
  <2> QED BY <1>11, <2>1, <2>2
<1>12. Held(m, D \cup {<<b, k>>})
  BY <1>10, <1>11 DEF Held
<1> QED BY <1>2, <1>12

LEMMA LinkedHeld ==
    ASSUME fun \in Functions, NEW n, IsNotes(n), NEW D, Held(n, D), NEW block \in Reachable,
           \A k, c, l : Place(block, k) /\ Place(c, l) /\ Comes(fun, c, l, block, k) => <<c, l>> \in D \/ c = block
    PROVE  Held(Linked(n, block), D \cup {<<block, k>> : k \in 1 .. Len(CodeOf(block))})
<1> DEFINE N == Len(CodeOf(block))
           f == NoteLoop(n, block)
           Met(k) == D \cup {<<block, j>> : j \in 1 .. k}
           S == {k \in 0 .. N : IsNotes(f[k]) /\ Held(f[k], Met(k))}
<1>1. /\ N \in Nat /\ f[0] = Fresh(n) /\ Linked(n, block) = f[N]
      /\ \A k \in 1 .. N : f[k] = Noted(f[k - 1], CodeOf(block)[k])
  BY LinkedUnfolds, BlocksReached
<1>2. \A k \in 1 .. N : Place(block, k) /\ CodeOf(block)[k].op \in Ops
  BY PlaceFacts DEF Place
<1> HIDE DEF f
<1>3. 0 \in S
  <2>1. IsNotes(Fresh(n)) /\ Fresh(n).vmap = n.vmap /\ Fresh(n).stateVars = n.stateVars
    BY FreshFields
  <2>2. Held(Fresh(n), D)
    BY <2>1 DEF Held, HeldOf
  <2>3. Met(0) = D
    OBVIOUS
  <2> HIDE DEF Met, N
  <2> QED BY <1>1, <2>1, <2>2, <2>3
<1>4. ASSUME NEW k \in 1 .. N, k - 1 \in S PROVE k \in S
  <2>1. IsNotes(f[k - 1]) /\ Held(f[k - 1], Met(k - 1)) /\ k \in 0 .. N /\ k \in Nat
    BY <1>1, <1>4
  <2>2. Place(block, k) /\ CodeOf(block)[k].op \in Ops /\ f[k] = Noted(f[k - 1], CodeOf(block)[k])
    BY <1>1, <1>2
  <2>3. Ready(Met(k - 1), block, k)
    <3> SUFFICES ASSUME NEW c, NEW l, Place(c, l), Comes(fun, c, l, block, k), <<c, l>> \notin D
                 PROVE  <<c, l>> \in Met(k - 1)
      BY DEF Ready
    <3>1. c = block /\ l < k
      <4>1. c = block
        BY <2>2
      <4> QED BY <4>1 DEF Comes
    <3>2. l \in 1 .. k - 1
      BY <2>1, <3>1, PlaceFacts
    <3> QED BY <3>1, <3>2
  <2>4. Met(k) = Met(k - 1) \cup {<<block, k>>}
    <3>1. 1 .. k = (1 .. k - 1) \cup {k}
      BY <2>1
    <3> QED BY <3>1
  <2> HIDE DEF Met, N
  <2>5. IsNotes(f[k])
    BY <2>1, <2>2, NotedReturn
  <2>6. Held(f[k], Met(k))
    BY <2>1, <2>2, <2>3, <2>4, NotedHeld
  <2> QED BY <2>1, <2>5, <2>6
<1>5. N \in S
  <2> HIDE DEF S, N
  <2>1. 0 .. N \subseteq S
    BY <1>1, <1>3, <1>4, IntervalInduction
  <2> QED BY <1>1, <2>1
<1> QED BY <1>1, <1>5

(* The invariant of the notes: a block of a path on the stack has been walked *)
(* before, but the last; and after the walk the arguments are kept.         *)
Ends == {Last(walked[i]) : i \in DOMAIN walked}
Met == UNION {{<<b, k>> : k \in 1 .. Len(CodeOf(b))} : b \in Ends}
Started == \A j \in DOMAIN paths : \A k \in 1 .. Len(paths[j]) - 1 : paths[j][k] \in Ends
KeptIn(S) ==
    \A a \in Unwritten : \A i \in Instructions : i.op = "recurse" /\ i.from \cap Surely(a) # {} => a \in S

Holding ==
    /\ parsing = "paths" => Started /\ Held(notes, Met)
    /\ parsing = "phis" => KeptIn(notes.stateVars)
    /\ parsing = "done" => KeptIn(stateValues)

LEMMA SameSurely ==
    ASSUME UNCHANGED fun
    PROVE  /\ SureCarriers' = SureCarriers /\ Unwritten' = Unwritten
           /\ \A a : Surely(a)' = Surely(a)
           /\ \A b : CodeOf(b)' = CodeOf(b)
           /\ \A b, k : Place(b, k)' <=> Place(b, k)
<1>1. SureCarriers' = SureCarriers /\ Unwritten' = Unwritten
  BY SameInstructions DEF SureCarriers, Unwritten, Writes, Spills
<1>2. \A a : Surely(a)' = Surely(a)
  BY <1>1, SameInstructions DEF Surely, Reached, Spread
<1>3. \A b : CodeOf(b)' = CodeOf(b)
  BY DEF CodeOf
<1>4. \A b, k : Place(b, k)' <=> Place(b, k)
  BY SameInstructions DEF Place, CodeOf
<1> QED BY <1>1, <1>2, <1>3, <1>4

LEMMA SameHeld ==
    ASSUME UNCHANGED fun
    PROVE  \A n, D : n = notes' /\ D = Met' /\ Held(n, D) => Held(notes, Met)'
<1>1. \A n : n = notes' => \A i : HeldOf(notes, i)' <=> HeldOf(n, i)
  BY SameSurely DEF HeldOf
<1> QED BY <1>1, SameSurely DEF Held

LEMMA SameKept ==
    ASSUME UNCHANGED fun
    PROVE  /\ \A S : S = stateValues' /\ KeptIn(S) => KeptIn(stateValues)'
           /\ \A S : S = notes'.stateVars /\ KeptIn(S) => KeptIn(notes.stateVars)'
BY SameSurely, SameInstructions DEF KeptIn

LEMMA HoldingBegins ==
    ASSUME Walking, Choosing, BeginParsing
    PROVE  Holding'
<1>1. notes' = NoNotes /\ paths' = << <<1>> >> /\ walked' = << >> /\ parsing' = "paths"
  BY DEF BeginParsing, Choosing, Walking
<1>2. Started'
  <2>1. DOMAIN paths' = {1} /\ Len(paths'[1]) = 1 /\ \A k \in 1 .. 1 - 1 : FALSE
    BY <1>1
  <2> QED BY <2>1 DEF Started
<1>3. Met' = {}
  BY <1>1 DEF Met, Ends
<1>4. Held(notes, Met)'
  BY <1>1, <1>3 DEF Held, NoNotes
<1> QED BY <1>1, <1>2, <1>4 DEF Holding

LEMMA HoldingRound ==
    ASSUME Walking, Holding, WalkBlock
    PROVE  Holding'
<1>1. PICK path \in Walks :
        /\ path = Last(paths) /\ IsWalk(path) /\ fun \in Functions /\ UNCHANGED fun
        /\ Len(paths) \in Nat \ {0} /\ walked \in Seq(Walks)
        /\ path = paths[Len(paths)] /\ DOMAIN paths = 1 .. Len(paths)
        /\ OnStack(path, Len(Succ(path)), Pushed(path))
        /\ walked' = Append(walked, path)
        /\ Len(paths') = Len(paths) - 1 + Len(Pushed(path)) /\ DOMAIN paths' = 1 .. Len(paths')
        /\ \A j \in 1 .. Len(paths) - 1 : paths'[j] = paths[j]
        /\ \A i \in DOMAIN Pushed(path) : paths'[Len(paths) - 1 + i] = Pushed(path)[i]
  BY RoundFacts
<1>2. PICK new : new = Pushed(path)
  OBVIOUS
<1>3. PICK m : m = Len(paths) - 1
  OBVIOUS
<1>4. PICK block : block = Last(path)
  OBVIOUS
<1>5. Started /\ Held(notes, Met) /\ IsNotes(notes) /\ parsing' = "paths" /\ notes' = Linked(notes, block)
  BY <1>1, <1>4 DEF Holding, Walking, WalkBlock
<1>6. Ends' = Ends \cup {block}
  <2>1. /\ DOMAIN walked' = DOMAIN walked \cup {Len(walked) + 1} /\ walked'[Len(walked) + 1] = path
        /\ \A i \in DOMAIN walked : walked'[i] = walked[i]
    BY <1>1
  <2> QED BY <1>4, <2>1 DEF Ends
<1>7. Met' = Met \cup {<<block, k>> : k \in 1 .. Len(CodeOf(block))}
  <2>1. \A b : CodeOf(b)' = CodeOf(b)
    BY <1>1, SameSurely
  <2> QED BY <1>6, <2>1 DEF Met
<1>8. block \in Reachable
  BY <1>1, <1>4, ReachableBlocks
(* A block that comes before this one is on the path.                      *)
<1>9. ASSUME NEW k, NEW c, NEW l, Place(block, k), Place(c, l), Comes(fun, c, l, block, k), c # block
      PROVE  <<c, l>> \in Met
  <2>1. PICK h \in DOMAIN path : path[h] = c
    <3>1. path[Len(path)] = block
      BY <1>1, <1>4, WalkFacts
    <3> QED BY <1>9, <3>1 DEF Comes, Walks
  <2>2. h \in 1 .. Len(path) - 1
    BY <1>1, <1>4, <1>9, <2>1, WalkFacts
  <2>3. c \in Ends
    <3>1. Len(paths) \in DOMAIN paths
      BY <1>1
    <3> QED BY <1>1, <1>5, <2>1, <2>2, <3>1 DEF Started
  <2>4. l \in 1 .. Len(CodeOf(c))
    BY <1>9 DEF Place
  <2> QED BY <2>3, <2>4 DEF Met
<1>10. Held(Linked(notes, block), Met \cup {<<block, k>> : k \in 1 .. Len(CodeOf(block))})
  BY <1>1, <1>5, <1>8, <1>9, LinkedHeld
<1>11. Held(notes, Met)'
  BY <1>1, <1>5, <1>7, <1>10, SameHeld
<1>12. Started'
  <2> SUFFICES ASSUME NEW j \in DOMAIN paths', NEW k \in 1 .. Len(paths'[j]) - 1 PROVE paths'[j][k] \in Ends'
    BY DEF Started
  <2>1. /\ m \in Nat /\ Len(new) \in Nat /\ DOMAIN new = 1 .. Len(new)
        /\ \A i \in DOMAIN new : \E s \in Continuations(path) : new[i] = Append(path, s)
    <3>1. OnStack(path, Len(Succ(path)), new)
      BY <1>1, <1>2
    <3> QED BY <1>1, <1>3, <3>1 DEF OnStack
  <2>2. j \in 1 .. m + Len(new)
    BY <1>1, <1>2, <1>3
  <2>3. CASE j \in 1 .. m
    <3>1. j \in DOMAIN paths /\ paths'[j] = paths[j]
      <4>1. j \in 1 .. Len(paths) - 1
        BY <1>3, <2>3
      <4>2. paths'[j] = paths[j]
        <5>1. \A h \in 1 .. Len(paths) - 1 : paths'[h] = paths[h]
          BY <1>1
        <5> QED BY <4>1, <5>1
      <4>3. Len(paths) \in Nat \ {0} /\ DOMAIN paths = 1 .. Len(paths)
        BY <1>1
      <4> QED BY <4>1, <4>2, <4>3
    <3> QED BY <1>5, <1>6, <3>1 DEF Started
  <2>4. CASE j \notin 1 .. m
    <3>1. j - m \in DOMAIN new /\ j = m + (j - m)
      BY <2>1, <2>2, <2>4
    <3>2. paths'[j] = new[j - m]
      <4>1. paths'[m + (j - m)] = new[j - m]
        BY <1>1, <1>2, <1>3, <3>1
      <4> QED BY <3>1, <4>1
    <3>3. PICK s \in Continuations(path) : new[j - m] = Append(path, s)
      BY <2>1, <3>1
    <3>4. Len(path) \in Nat \ {0} /\ Len(paths'[j]) = Len(path) + 1 /\ \A h \in 1 .. Len(path) : paths'[j][h] = path[h]
      BY <1>1, <3>2, <3>3, Continued, WalkFacts
    <3>5. k \in 1 .. Len(path) /\ paths'[j][k] = path[k]
      BY <3>4
    <3>6. CASE k = Len(path)
      BY <1>1, <1>4, <1>6, <3>5, <3>6, WalkFacts
    <3>7. CASE k # Len(path)
      <4>1. k \in 1 .. Len(path) - 1 /\ Len(paths) \in DOMAIN paths
        <5>1. Len(paths) \in DOMAIN paths
          BY <1>1
        <5>2. k \in 1 .. Len(path) - 1
          BY <3>4, <3>5, <3>7
        <5> QED BY <5>1, <5>2
      <4> QED BY <1>1, <1>5, <1>6, <3>5, <4>1 DEF Started
    <3> QED BY <3>6, <3>7
  <2> QED BY <2>3, <2>4
<1> QED BY <1>5, <1>11, <1>12 DEF Holding

LEMMA HoldingWalked ==
    ASSUME Walking, Holding, PathsWalked
    PROVE  Holding'
<1>1. /\ parsing = "paths" /\ parsing' = "phis" /\ paths = << >> /\ UNCHANGED <<fun, notes>>
      /\ fun \in Functions /\ AllDue /\ Held(notes, Met)
  BY DEF PathsWalked, Walking, Holding
<1>2. KeptIn(notes.stateVars)
  <2> SUFFICES ASSUME NEW a \in Unwritten, NEW i \in Instructions, i.op = "recurse", i.from \cap Surely(a) # {}
               PROVE  a \in notes.stateVars
    BY DEF KeptIn
  <2>1. PICK b, k : Place(b, k) /\ CodeOf(b)[k] = i
    BY <1>1, InstructionsPlaced
  <2>2. PICK w : IsWalk(w) /\ Last(w) = b
    BY <1>1, <2>1, ReachableBlocks DEF Place
  <2>3. b \in Ends
    BY <1>1, <2>2, WalkSet DEF AllDue, Ends
  <2>4. <<b, k>> \in Met
    BY <2>1, <2>3 DEF Met, Place
  <2> QED BY <1>1, <2>1, <2>4 DEF Held, HeldOf
<1> QED BY <1>1, <1>2, SameKept DEF Holding

LEMMA HoldingNext == Walking /\ Choosing /\ Holding /\ [ChoiceNext]_choiceVars => Holding'
<1> SUFFICES ASSUME Walking, Choosing, Holding, [ChoiceNext]_choiceVars PROVE Holding'
  OBVIOUS
<1>1. CASE ParsePHI
  <2>1. parsing = "phis" /\ UNCHANGED <<fun, parsing>> /\ IsNotes(notes) /\ KeptIn(notes.stateVars)
    BY <1>1 DEF ParsePHI, Walking, Holding
  <2>2. PICK phi : notes' = [notes EXCEPT !.phis = @ \ {phi}, !.vmap = Insert(@, phi.def, RelatedAll(@, phi.from))]
    BY <1>1 DEF ParsePHI
  <2> DEFINE map == Insert(notes.vmap, phi.def, RelatedAll(notes.vmap, phi.from))
  <2>3. notes' = [notes EXCEPT !.phis = notes.phis \ {phi}, !.vmap = map]
    BY <2>1, <2>2 DEF IsNotes
  <2>4. notes'.stateVars = notes.stateVars
    <3> HIDE DEF map
    <3> QED BY <2>1, <2>3 DEF IsNotes
  <2> QED BY <2>1, <2>4, SameKept DEF Holding
<1>2. CASE ChooseStates
  <2>1. /\ parsing = "phis" /\ parsing' = "done" /\ UNCHANGED fun /\ KeptIn(notes.stateVars)
        /\ stateValues' = Chosen /\ notes.stateVars \subseteq Chosen
    BY <1>2 DEF ChooseStates, Holding, Chosen
  <2>2. KeptIn(Chosen)
    BY <2>1 DEF KeptIn
  <2> QED BY <2>1, <2>2, SameKept DEF Holding
<1>3. CASE UNCHANGED choiceVars
  <2>1. UNCHANGED <<fun, paths, walked, notes, parsing, stateValues>>
    BY <1>3 DEF choiceVars
  <2>2. Ends' = Ends
    BY <2>1 DEF Ends
  <2>3. Met' = Met /\ (Started' <=> Started)
    <3>1. \A b : CodeOf(b)' = CodeOf(b)
      BY <2>1, SameSurely
    <3> QED BY <2>1, <2>2, <3>1 DEF Met, Started
  <2>4. parsing = "paths" => Held(notes, Met)'
    BY <2>1, <2>3, SameHeld DEF Holding
  <2>5. /\ parsing = "phis" => KeptIn(notes.stateVars)'
        /\ parsing = "done" => KeptIn(stateValues)'
    BY <2>1, SameKept DEF Holding
  <2> QED BY <2>1, <2>3, <2>4, <2>5 DEF Holding
<1> QED BY <1>1, <1>2, <1>3, HoldingBegins, HoldingRound, HoldingWalked DEF ChoiceNext

(* Whatever the order of the walk, and although a value is looked up only     *)
(* once, the state of a pivot holds every argument that surely gets into a   *)
(* recursive call.                                                         *)
THEOREM NoneMissing == ChoiceSpec => []StatesComplete
<1>1. ChoiceInit => Choosing /\ Holding
  BY DEF ChoiceInit, Choosing, Holding
<1>2. Holding => StatesComplete
  <2> SUFFICES ASSUME Holding, parsing = "done", NEW a \in fun.args, Writes(a) = {},
                      Carries(SureCarriers, a, {"recurse"})
               PROVE  a \in stateValues
    BY DEF StatesComplete
  <2> QED BY DEF Holding, KeptIn, Carries, Surely, Unwritten
<1> QED BY <1>1, <1>2, ChoosingNext, HoldingNext, WalkingAlways, PTL DEF ChoiceSpec

(* The two bounds together: the states the monitor compares tell calls apart  *)
(* by all the arguments that surely matter and by none that cannot.         *)
THEOREM StatesBounded == ChoiceSpec => []StatesBetweenBounds
<1>1. StatesComplete /\ StatesCanMatter => StatesBetweenBounds
  BY DEF StatesBetweenBounds
<1> QED BY <1>1, NoneMissing, StatesMatter, PTL
=============================================================================
