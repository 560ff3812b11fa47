------------------------------- MODULE MCPass -------------------------------
(* The part of the pass that looks for recursions: the pivots of a component, *)
(* and then the states and return blocks of a pivot.  Every component of the  *)
(* given functions with some pivot, and one component with every pivot of the *)
(* family below.                                                            *)
EXTENDS MCPivotSelection, StateChoice

I(op, def, from) == [op |-> op, def |-> def, from |-> from]
Block(code, succ) == [code |-> code, succ |-> succ]
Fun(blocks) == [args |-> {"x", "y"}, blocks |-> blocks]

(* As compiled without optimisation: the arguments are spilled to slots. *)
Spill == <<I("store", "sx", {"x"}), I("store", "sy", {"y"})>>
Load(v, slot) == I("use", v, {slot})

(* The condition: on x, on a right shift of y, on both, on a call's result *)
Tests ==
    {<<Load("t", "sx"), I("use", "c", {"t"}), I("branch", "br", {"c"})>>,
     <<Load("t", "sy"), I("ignored", "h", {"t"}), I("use", "c", {"h"}), I("branch", "br", {"c"})>>,
     <<Load("t", "sx"), Load("u", "sy"), I("use", "c", {"t", "u"}), I("branch", "br", {"c"})>>,
     <<Load("t", "sy"), I("call", "c", {"t"}), I("branch", "br", {"c"})>>,
     <<Load("t", "sx"), I("switch", "br", {"t"})>>}

(* The recursion: passes on x, y through a slot written again, memory that an  *)
(* argument or a loaded value points to, or nothing.                        *)
Bodies ==
    {<<Load("a", "sx"), I("use", "b", {"a"}), I("recurse", "r", {"b"})>>,
     <<Load("a", "sx"), I("store", "sy", {"a"}), Load("b", "sy"), I("recurse", "r", {"b"})>>,
     <<I("store", "x", {}), I("recurse", "r", {"x", "y"})>>,
     <<Load("a", "sx"), I("store", "a", {}), I("recurse", "r", {"a", "y"})>>,
     <<I("recurse", "r", {})>>,
     <<I("ignored", "r", {})>>}

(* Blocks: 2 is the base case, 3 the recursion, 4 the common end; the order of *)
(* the successors is the compiler's.  In a loop, 3 returns to the test, with a *)
(* phi of a phi.                                                            *)
Straight ==
    {Fun(<<Block(Spill \o test, order), Block(base, end2), Block(body, <<4>>), Block(<<I("return", "ret", {})>>, << >>)>>)
        : test \in Tests, body \in Bodies, order \in {<<2, 3>>, <<3, 2>>},
          base \in {<<I("return", "ret2", {})>>, <<I("call", "k", {"y"})>>},
          end2 \in {<< >>, <<4>>}}

Loops ==
    {Fun(<<Block(Spill, <<2>>),
           Block(<<I("phi", "p", {"y", "q"})>> \o test, order),
           Block(<<I("phi", "q", {"p", "x"})>> \o body, <<2, 4>>),
           Block(<<I("use", "z", {"p"}), I("branch", "br2", {"z"})>>, <<5, 3>>),
           Block(<<I("return", "ret", {})>>, << >>)>>)
        : test \in Tests, body \in Bodies, order \in {<<3, 4>>, <<4, 3>>}}

(* Two cases of a switch that share their block. *)
Shared ==
    {Fun(<<Block(Spill \o <<Load("t", "sx"), I("switch", "br", {"t"})>>, <<3, 2, 2>>),
           Block(<<I("call", "k", {"y"})>>, <<4>>), Block(body, <<4>>),
           Block(<<I("return", "ret", {})>>, << >>)>>)
        : body \in Bodies}

(* A base case without successors returns; the others fall through. *)
MCFunctions ==
    {f \in Straight : (f.blocks[2].succ = << >>) <=> (f.blocks[2].code[1].op = "return")}
    \cup Loops \cup Shared

-----------------------------------------------------------------------------
(* every function a pivot, so that one outcome of link suffices *)
Complete == \A n \in Nodes : calls[n] = Nodes

PassInit == Init /\ ChoiceInit

PassNext ==
    \/ Next /\ UNCHANGED choiceVars
    \/ pc = "done" /\ Complete /\ ChoiceNext /\ UNCHANGED vars

PassSpec == PassInit /\ [][PassNext]_<<vars, choiceVars>>
=============================================================================
