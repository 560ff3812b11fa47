----------------------------- MODULE StateChoice -----------------------------
(***************************************************************************)
(* FunctionParser and Visitor (llvm_mode/afl-llvm-pass.so.cc): which        *)
(* arguments of a pivot function make up the state its monitor compares, and *)
(* at which blocks the function returns.  getPath walks the paths of the     *)
(* function's blocks; the visitor notes for each value the arguments it      *)
(* comes from.                                                              *)
(*                                                                         *)
(* Abstracted: an instruction is what the visitor does with it.  "use": its  *)
(* operands are looked up (arithmetic, comparisons, loads, casts, selects,   *)
(* extractions); "ignored": nothing is noted (addresses, right shifts,       *)
(* insertions, invokes).  Constants and globals are not values here:         *)
(* getValuesFromStack answers {} for both before it looks at anything else.  *)
(***************************************************************************)
EXTENDS Integers, SequencesExt

CONSTANT Functions      \* args; blocks, the first being the entry: code, succ

Ops == {"use", "switch", "branch", "store", "phi", "call", "recurse", "return", "ignored"}

(* A function has an entry block, and terminators name blocks of the function. *)
ASSUME FunctionsTyped ==
    \A f \in Functions :
        /\ Len(f.blocks) \in Nat \ {0} /\ DOMAIN f.blocks = 1 .. Len(f.blocks)
        /\ \A b \in DOMAIN f.blocks :
             /\ f.blocks[b].succ \in Seq(DOMAIN f.blocks)
             /\ Len(f.blocks[b].code) \in Nat /\ DOMAIN f.blocks[b].code = 1 .. Len(f.blocks[b].code)
             /\ \A k \in DOMAIN f.blocks[b].code : f.blocks[b].code[k].op \in Ops

(* The paths of a function that meet no block twice, defined without a stack. *)
WalksOf(f) ==
    UNION {{p \in [1 .. n -> DOMAIN f.blocks] :
                /\ p[1] = 1
                /\ \A k \in 1 .. n - 1 : p[k + 1] \in Range(f.blocks[p[k]].succ)
                /\ \A j, k \in 1 .. n : p[j] = p[k] => j = k}
           : n \in DOMAIN f.blocks}

(* The form LLVM keeps its code in: what an instruction yields is yielded by no *)
(* other, and not an argument; it comes before its uses, except in phis, in   *)
(* the same block or in one that every path to the use passes; and a branch   *)
(* yields nothing that could be stored to.                                  *)
Comes(f, c, l, b, k) ==
    IF b = c THEN l < k
             ELSE \A p \in WalksOf(f) : p[Len(p)] = b => \E n \in DOMAIN p : p[n] = c

ASSUME StaticSingleAssignment ==
    \A f \in Functions : \A b, c \in DOMAIN f.blocks :
        \A k \in DOMAIN f.blocks[b].code, l \in DOMAIN f.blocks[c].code :
            LET i == f.blocks[b].code[k]
                j == f.blocks[c].code[l]
            IN  j.op # "store" =>
                  /\ j.def \notin f.args
                  /\ (i.op # "store" \/ j.op = "branch") /\ i.def = j.def => b = c /\ k = l
                  /\ i.op # "phi" /\ j.def \in i.from => Comes(f, c, l, b, k)

VARIABLES
    fun,                \* func
    paths,              \* pathStack; the last blocks are BBStack
    isRec,              \* isRecStack: of all paths, as each round pops one and pushes
    visitedBranchs,     \* branchStack   one for all successors, there is never more than one
    notes,              \* the visitor: VMap, phiNodes, stateVars
    retBlks, retPathBlks, visitedBrBlks,
    stateValues,        \* the result
    parsing,            \* where run() is: "none", "paths", "phis", "done"
    walked              \* history: the paths walked, in order

choiceVars == <<fun, paths, isRec, visitedBranchs, notes, retBlks, retPathBlks, visitedBrBlks,
                stateValues, parsing, walked>>

NoNotes == [vmap |-> [v \in {} |-> {}], phis |-> {}, stateVars |-> {},
            isBranch |-> FALSE, isReturn |-> FALSE, isRec |-> FALSE]

ChoiceInit ==
    /\ fun = [args |-> {}, blocks |-> << >>]
    /\ paths = << >>
    /\ isRec = FALSE /\ visitedBranchs = {}
    /\ notes = NoNotes
    /\ retBlks = {} /\ retPathBlks = {} /\ visitedBrBlks = {}
    /\ stateValues = {}
    /\ parsing = "none"
    /\ walked = << >>

(* funcParser(targetFunc, SCC) for a pivot *)
BeginParsing ==
    /\ parsing = "none"
    /\ fun' \in Functions
    /\ paths' = <<<<1>>>>
    /\ parsing' = "paths"
    /\ UNCHANGED <<isRec, visitedBranchs, notes, retBlks, retPathBlks, visitedBrBlks, stateValues, walked>>

-----------------------------------------------------------------------------
(* The visitor. *)

(* getValuesFromStack *)
\* fault: what is not known stands for itself
RelatedOrSelf(vmap, v) == IF v \in DOMAIN vmap THEN vmap[v] ELSE {v}
Related(vmap, v) == (IF v \in DOMAIN vmap THEN vmap[v] ELSE {v}) \cap fun.args
RelatedAll(vmap, vs) == UNION {Related(vmap, v) : v \in vs}

With(vmap, v, vals) == [w \in DOMAIN vmap \cup {v} |-> IF w = v THEN vals ELSE vmap[w]]
Insert(vmap, v, vals) == IF v \in DOMAIN vmap THEN vmap ELSE With(vmap, v, vals)      \* map::insert

(* an instruction whose operands are looked up, once *)
Used(n, i) == [n EXCEPT !.vmap = Insert(@, i.def, RelatedAll(@, i.from))]

(* visit(I).  Any direct call makes its block recursive: it is the caller that *)
(* is looked up in the component.                                           *)
Noted(n, i) ==
    CASE i.op \in {"use", "switch"} -> Used(n, i)
      [] i.op = "branch" -> [Used(n, i) EXCEPT !.isBranch = TRUE]
      [] i.op = "store" -> [n EXCEPT !.vmap = With(@, i.def, RelatedAll(@, i.from))]
      [] i.op = "phi" -> [n EXCEPT !.phis = @ \cup {i}]
      [] i.op = "call" -> [Used(n, i) EXCEPT !.isRec = TRUE]
      [] i.op = "recurse" ->
            [Used(n, i) EXCEPT !.isRec = TRUE, !.stateVars = @ \cup RelatedAll(n.vmap, i.from)]
      [] i.op = "return" -> [n EXCEPT !.isReturn = TRUE]
      [] i.op = "ignored" -> n

(* link(BB) *)
Linked(n, block) ==
    LET code == fun.blocks[block].code
        noted[k \in 0 .. Len(code)] ==
            IF k = 0 THEN [n EXCEPT !.isBranch = FALSE, !.isReturn = FALSE, !.isRec = FALSE]
            ELSE Noted(noted[k - 1], code[k])
    IN  noted[Len(code)]

-----------------------------------------------------------------------------
(* getPath: a round of its loop. *)

\* fault: a path ends where a block was met before, on whatever path
ContinuationsUnmet(path) == {s \in Range(fun.blocks[Last(path)].succ) : \A p \in Range(walked) : s \notin Range(p)}
Continuations(path) == Range(fun.blocks[Last(path)].succ) \ Range(path)
Pushed(path) ==
    LET succ == fun.blocks[Last(path)].succ
        pushed[k \in 0 .. Len(succ)] ==
            IF k = 0 THEN << >>
            ELSE IF succ[k] \notin Continuations(path) THEN pushed[k - 1]
            ELSE Append(pushed[k - 1], Append(path, succ[k]))
    IN  pushed[Len(succ)]

WalkBlock ==
    /\ parsing = "paths"
    /\ paths # << >>
    /\ LET path == Last(paths)
           block == Last(path)
           n == Linked(notes, block)
           rec == isRec \/ n.isRec
           branches == IF n.isBranch THEN visitedBranchs \cup {block} ELSE visitedBranchs
           returns == n.isReturn /\ ~rec
       IN  /\ notes' = n
           /\ isRec' = rec
           /\ visitedBranchs' = branches
           /\ retBlks' = IF n.isReturn THEN retBlks \cup {block} ELSE retBlks
           /\ retPathBlks' = IF returns THEN retPathBlks \cup Range(path) ELSE retPathBlks
           /\ visitedBrBlks' = IF returns THEN visitedBrBlks \cup branches ELSE visitedBrBlks
           /\ paths' = Front(paths) \o Pushed(path)
           /\ walked' = Append(walked, path)
    /\ UNCHANGED <<fun, stateValues, parsing>>

PathsWalked ==
    /\ parsing = "paths"
    /\ paths = << >>
    /\ parsing' = "phis"
    /\ UNCHANGED <<fun, paths, isRec, visitedBranchs, notes, retBlks, retPathBlks, visitedBrBlks, stateValues, walked>>

(* parsePHI goes through a set of pointers *)
ParsePHI ==
    /\ parsing = "phis"
    /\ \E phi \in notes.phis :
         notes' = [notes EXCEPT !.phis = @ \ {phi},
                                !.vmap = Insert(@, phi.def, RelatedAll(@, phi.from))]
    /\ UNCHANGED <<fun, paths, isRec, visitedBranchs, retBlks, retPathBlks, visitedBrBlks, stateValues, parsing, walked>>

(* getBranchVals, and the states: of the branches with a way out of the paths  *)
(* that return, and of the recursive calls' arguments.                      *)
Open == {b \in visitedBrBlks : \E s \in Range(fun.blocks[b].succ) : s \notin retPathBlks}
BranchVals ==
    UNION {{i.def : i \in {j \in Range(fun.blocks[b].code) : j.op = "branch"}} : b \in Open}

\* fault: the arguments of the recursive calls are forgotten
ChosenOfBranches == RelatedAll(notes.vmap, BranchVals)
Chosen == RelatedAll(notes.vmap, BranchVals) \cup notes.stateVars

ChooseStates ==
    /\ parsing = "phis"
    /\ notes.phis = {}
    /\ parsing' = "done"
    /\ stateValues' = Chosen
    /\ UNCHANGED <<fun, paths, isRec, visitedBranchs, notes, retBlks, retPathBlks, visitedBrBlks, walked>>

ChoiceNext == BeginParsing \/ WalkBlock \/ PathsWalked \/ ParsePHI \/ ChooseStates

ChoiceSpec == ChoiceInit /\ [][ChoiceNext]_choiceVars

-----------------------------------------------------------------------------
(* Properties. *)

Walks == WalksOf(fun)
Code(b) == Range(fun.blocks[b].code)
Reachable == UNION {Range(p) : p \in Walks}

(* Every path is walked, exactly once if no block names a successor twice (a    *)
(* switch may), so the walk ends; and every block that returns and can be     *)
(* reached gets its check, without which the monitor's counter would never    *)
(* come down.                                                               *)
Simple == \A b \in DOMAIN fun.blocks : IsInjective(fun.blocks[b].succ)

EveryPathOnce ==
    parsing = "done" =>
        /\ Range(walked) = Walks
        /\ Simple => Len(walked) = Cardinality(Walks)
        /\ retBlks = {b \in Reachable : \E i \in Code(b) : i.op = "return"}

(* Which values carry argument a: surely (through values that are looked up     *)
(* and not written through, and slots that are written once, in the entry     *)
(* block before they are read), and perhaps (through any use).                *)
Instructions == UNION {Code(b) : b \in Reachable}
Writes(v) == {i \in Instructions : i.op = "store" /\ i.def = v}
Spills(j) ==
    LET code == fun.blocks[1].code IN
    \E l \in DOMAIN code : code[l] = j /\ \A k \in 1 .. l : j.def \notin code[k].from
SureCarriers ==
    {j \in Instructions :
        \/ j.op \in {"use", "call", "recurse"} /\ Writes(j.def) = {}
        \/ j.op = "store" /\ Writes(j.def) = {j} /\ Spills(j)}
Spread(carriers, S) == S \cup {i.def : i \in {j \in carriers : j.from \cap S # {}}}
Reached(carriers, a) ==
    LET n == Cardinality(Instructions)
        c[k \in 0 .. n] == IF k = 0 THEN {a} ELSE Spread(carriers, c[k - 1])
    IN  c[n]

Carries(carriers, a, ops) == \E i \in Instructions : i.op \in ops /\ i.from \cap Reached(carriers, a) # {}

(* The state holds nothing but arguments, since the digest is computed on      *)
(* entry, where no other value exists; and only those that can get, in any    *)
(* number of steps, into the arguments of a recursive call or the condition   *)
(* of a branch.                                                             *)
StatesCanMatter ==
    parsing = "done" =>
        stateValues \subseteq {a \in fun.args : Carries(Instructions, a, {"recurse", "branch"})}

(* The state holds every argument that surely reaches a recursive call's       *)
(* arguments, whatever the order of the walk, and although a value is looked  *)
(* up once and the phis last.                                               *)
StatesComplete ==
    parsing = "done" =>
        {a \in fun.args : Writes(a) = {} /\ Carries(SureCarriers, a, {"recurse"})} \subseteq stateValues

(* What the monitor of a pivot compares lies between the arguments that surely *)
(* make two calls differ and those that possibly do.                        *)
StatesBetweenBounds == StatesComplete /\ StatesCanMatter
=============================================================================
