-------------------------- MODULE RecursionDivergence --------------------------
(***************************************************************************)
(* The monitor facing a program that never stops recursing: the state of   *)
(* each call of f determines the state of the call it makes.  With         *)
(* finitely many states such a recursion must revisit one; the question is *)
(* whether the oracle speaks before the native stack is exhausted.         *)
(***************************************************************************)
EXTENDS RecursionMonitor

VARIABLES
    program,            \* the state a call of f with a given state calls f with
    site                \* the block of f that makes the call

dvars == <<frames, times, num, slots, starts, status, program, site>>

DInit ==
    /\ Init
    /\ program \in [States -> States]
    /\ site \in {"body"} \cup (IF CallsInReturnBlock THEN {"return"} ELSE {})

Recurse ==
    /\ frames # << >> => Innermost.phase = site
    /\ \E s \in States :
          /\ frames # << >> => s = program[Innermost.state]
          /\ Enter(s)
    /\ UNCHANGED <<program, site>>

(* The call sits in the return block, behind _checkReturn. *)
ReachReturnBlock ==
    /\ site = "return"
    /\ CheckReturn
    /\ UNCHANGED <<program, site>>

StackOverflow ==
    /\ status = "running"
    /\ Len(frames) = MaxDepth
    /\ status' = "crashed"
    /\ UNCHANGED <<frames, times, num, slots, starts, program, site>>

DNext == Recurse \/ ReachReturnBlock \/ StackOverflow

DSpec == DInit /\ [][DNext]_dvars /\ WF_dvars(DNext)

-----------------------------------------------------------------------------
(* "Non-terminating recursions are able to be detected": the process is    *)
(* stopped by the oracle, not by its stack.                                *)
DivergenceReported == <>(status = "reported")

(* The same where the recursive call lies between the two checks.          *)
BodyDivergenceReported == site = "body" => <>(status = "reported")
=============================================================================
