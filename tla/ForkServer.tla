------------------------------ MODULE ForkServer ------------------------------
(***************************************************************************)
(* The execution protocol: afl-fuzz (init_forkserver, run_target, its      *)
(* signal handlers and the end of main), the fork server inside the target *)
(* (__afl_start_forkserver, __afl_persistent_loop) and the processes the   *)
(* server forks.  They share two pipes, the trace map and signals.         *)
(*                                                                         *)
(* Abstracted: a test case is the number of the run it was written for; a  *)
(* process that works on it marks the map with that number.  A wait status *)
(* is how the process ended, with the run it worked on.  SIGKILL reaches a *)
(* process some time after it is sent; a pid is never given out twice.     *)
(* In the dumb mode (dumb_mode is 1, or AFL_NO_FORKSRV) there is no server: *)
(* run_target forks, the new process calls execv, run_target waits for it. *)
(***************************************************************************)
EXTENDS Integers, Sequences, FiniteSets

CONSTANTS
    MaxRuns,            \* bound: calls of run_target
    Persistent,         \* __AFL_PERSISTENT: a process may serve several runs
    UsesAsan            \* uses_asan, found in the target's binary

ASSUME RunsBounded == MaxRuns \in Nat
ASSUME ModeOptions == Persistent \in BOOLEAN /\ UsesAsan \in BOOLEAN

VARIABLES
    dumb,               \* the mode
    \* afl-fuzz
    fz,                 \* where afl-fuzz is
    childPid,           \* child_pid: -1 in the handshake, 0 when it has ended
    timedOut,           \* child_timed_out
    prevTimedOut,       \* prev_timed_out, sent to the server as was_killed
    armed,              \* ITIMER_REAL is running
    stopSoon,           \* stop_soon: 1 by a signal, 2 programmatically
    run,                \* the number of the current run
    status,             \* the wait status run_target has read
    verdict,            \* what the last run_target returned, and its evidence
    \* the fork server
    srv,                \* where the server is
    srvChild,           \* child_pid in the server
    childStopped,       \* child_stopped
    srvStatus,          \* status in the server
    \* shared
    ctl, st,            \* the pipes to the server and back
    procs,              \* the processes the server has forked
    trace               \* the runs whose marks are in trace_bits

fuzzer == <<fz, childPid, timedOut, prevTimedOut, armed, stopSoon, run, status, verdict>>
server == <<srv, srvChild, childStopped, srvStatus>>
vars == <<dumb, fuzzer, server, ctl, st, procs, trace>>

-----------------------------------------------------------------------------
Pids == 1 .. MaxRuns
Ends == {"none", "exit", "report", "msan", "segv", "kill", "stopped"}
ExecFailSig == 0        \* EXEC_FAIL_SIG, marked instead of a run

Status(end, r) == [what |-> "status", pid |-> 0, end |-> end, of |-> r]
Hello == [what |-> "hello", pid |-> 0, end |-> "none", of |-> 0]
PidMessage(p) == [what |-> "pid", pid |-> p, end |-> "none", of |-> 0]

Verdict(fault, s) == [fault |-> fault, end |-> s.end, of |-> s.of, run |-> run]

Gone == fz \in {"stopped", "dead"}

Init ==
    /\ dumb \in BOOLEAN
    /\ fz = IF dumb THEN "idle" ELSE "hello"
    /\ childPid = -1
    /\ timedOut = FALSE
    /\ prevTimedOut = FALSE
    /\ armed = ~ dumb
    /\ stopSoon = 0
    /\ run = 0
    /\ status = Status("none", 0)
    /\ verdict = Verdict("none", status)
    /\ srv = IF dumb THEN "dead" ELSE "hello"
    /\ srvChild = 0
    /\ childStopped = FALSE
    /\ srvStatus = Status("none", 0)
    /\ ctl = << >>
    /\ st = << >>
    /\ procs = [p \in Pids |-> [state |-> "unborn", run |-> 0, killed |-> FALSE, end |-> "none"]]
    /\ trace = {}

Alive == {"forked", "running", "stopped"}

(* kill(p, SIGKILL) *)
KillNothing(ps, p) == ps                                \* fault: no signal
Kill(ps, p) ==
    IF p \in Pids /\ ps[p].state \in Alive
      THEN [ps EXCEPT ![p].killed = TRUE]
      ELSE ps

-----------------------------------------------------------------------------
(* afl-fuzz.  A read or write that finds no server at the other end of the *)
(* pipe makes run_target return after a stop, and is fatal otherwise.      *)
Broken(pipe) == srv = "dead" /\ pipe = << >>
GiveUp == fz' = IF stopSoon # 0 THEN "returned" ELSE "dead"

ReadHello ==
    /\ fz = "hello"
    /\ st # << >>
    /\ st' = Tail(st)
    /\ fz' = "disarmHello"
    /\ UNCHANGED <<childPid, timedOut, prevTimedOut, armed, stopSoon, run, status,
                   verdict, server, ctl, procs, trace>>

(* The server has gone, or the timer has killed it: afl-fuzz says which of *)
(* the two it was, or how the server ended, and gives up.                  *)
HandshakeFails ==
    /\ fz = "hello"
    /\ Broken(st)
    /\ armed' = FALSE
    /\ fz' = "dead"
    /\ UNCHANGED <<childPid, timedOut, prevTimedOut, stopSoon, run, status, verdict,
                   server, ctl, st, procs, trace>>

DisarmHello ==
    /\ fz = "disarmHello"
    /\ armed' = FALSE
    /\ fz' = "idle"
    /\ UNCHANGED <<childPid, timedOut, prevTimedOut, stopSoon, run, status, verdict,
                   server, ctl, st, procs, trace>>

(* fault: no memset of the trace map. *)
BeginRunUnclean ==
    /\ fz = "idle"
    /\ run < MaxRuns
    /\ run' = run + 1
    /\ timedOut' = FALSE
    /\ fz' = "request"
    /\ UNCHANGED <<childPid, prevTimedOut, armed, stopSoon, status, verdict, server,
                   ctl, st, procs, trace>>

(* A test case is written and run_target entered. *)
BeginRun ==
    /\ fz = "idle"
    /\ run < MaxRuns
    /\ run' = run + 1
    /\ timedOut' = FALSE
    /\ trace' = {}
    /\ fz' = "request"
    /\ UNCHANGED <<childPid, prevTimedOut, armed, stopSoon, status, verdict, server,
                   ctl, st, procs>>

WriteRequest ==
    /\ ~ dumb
    /\ fz = "request"
    /\ \/ srv # "dead" /\ ctl' = Append(ctl, prevTimedOut) /\ fz' = "readPid"
       \/ srv = "dead" /\ UNCHANGED ctl /\ GiveUp
    /\ UNCHANGED <<childPid, timedOut, prevTimedOut, armed, stopSoon, run, status,
                   verdict, server, st, procs, trace>>

ReadPid ==
    /\ ~ dumb
    /\ fz = "readPid"
    /\ \/ st # << >> /\ st' = Tail(st) /\ childPid' = Head(st).pid
            /\ armed' = TRUE /\ fz' = "readStatus"
       \/ Broken(st) /\ GiveUp /\ UNCHANGED <<st, childPid, armed>>
    /\ UNCHANGED <<timedOut, prevTimedOut, stopSoon, run, status, verdict, server,
                   ctl, procs, trace>>

ReadStatus ==
    /\ ~ dumb
    /\ fz = "readStatus"
    /\ \/ st # << >> /\ st' = Tail(st) /\ status' = Head(st) /\ fz' = "settle"
       \/ Broken(st) /\ GiveUp /\ UNCHANGED <<st, status>>
    /\ UNCHANGED <<childPid, timedOut, prevTimedOut, armed, stopSoon, run, verdict,
                   server, ctl, procs, trace>>

(* The dumb mode: fork, and child_pid assigned a moment later; waitpid.    *)
Unborn == {p \in Pids : procs[p].state = "unborn"}
NextPid(p) == p \in Unborn /\ \A q \in Unborn : p <= q

ForkRunner ==
    /\ dumb
    /\ fz = "request"
    /\ \/ /\ \E p \in Pids : NextPid(p) /\ procs' = [procs EXCEPT ![p].state = "forked", ![p].run = run]
          /\ fz' = "readPid"
       \/ UNCHANGED procs /\ fz' = "dead"
    /\ UNCHANGED <<childPid, timedOut, prevTimedOut, armed, stopSoon, run, status,
                   verdict, server, ctl, st, trace>>

AssignPid ==
    /\ dumb
    /\ fz = "readPid"
    /\ \E p \in Pids : procs[p].run = run /\ childPid' = p
    /\ armed' = TRUE
    /\ fz' = "readStatus"
    /\ UNCHANGED <<timedOut, prevTimedOut, stopSoon, run, status, verdict, server,
                   ctl, st, procs, trace>>

(* waitpid(child_pid, &status, 0): a process that stops itself is waited for *)
(* until the timer kills it.                                               *)
WaitRunner ==
    /\ dumb
    /\ fz = "readStatus"
    /\ procs[childPid].state = "zombie"
    /\ procs' = [procs EXCEPT ![childPid].state = "reaped"]
    /\ status' = Status(procs[childPid].end, procs[childPid].run)
    /\ fz' = "settle"
    /\ UNCHANGED <<childPid, timedOut, prevTimedOut, armed, stopSoon, run, verdict,
                   server, ctl, st, trace>>

(* if (!WIFSTOPPED(status)) child_pid = 0 *)
Settle ==
    /\ fz = "settle"
    /\ childPid' = IF status.end = "stopped" THEN childPid ELSE 0
    /\ fz' = "judge"
    /\ UNCHANGED <<timedOut, prevTimedOut, armed, stopSoon, run, status, verdict,
                   server, ctl, st, procs, trace>>

(* The timer is disarmed first: no alarm comes between the two uses of     *)
(* child_timed_out.                                                        *)
Fault ==
    CASE status.end \in {"segv", "kill"} /\ stopSoon = 0 ->
           IF timedOut /\ status.end = "kill" THEN "FAULT_TMOUT" ELSE "FAULT_CRASH"
      [] UsesAsan /\ status.end = "msan" -> "FAULT_CRASH"
      [] UsesAsan /\ status.end = "report" -> "NON_TERM"
      [] dumb /\ ExecFailSig \in trace -> "FAULT_ERROR"
      [] OTHER -> "FAULT_NONE"

(* fault: the timer is left running. *)
JudgeArmed ==
    /\ fz = "judge"
    /\ prevTimedOut' = timedOut
    /\ verdict' = Verdict(Fault, status)
    /\ fz' = "returned"
    /\ UNCHANGED <<childPid, timedOut, armed, stopSoon, run, status, server, ctl, st, procs, trace>>

Judge ==
    /\ fz = "judge"
    /\ armed' = FALSE
    /\ prevTimedOut' = timedOut
    /\ verdict' = Verdict(Fault, status)
    /\ fz' = "returned"
    /\ UNCHANGED <<childPid, timedOut, stopSoon, run, status, server, ctl, st, procs, trace>>

(* Every caller of run_target looks at stop_soon before the next call.     *)
LookAtStop ==
    /\ fz = "returned"
    /\ fz' = IF stopSoon # 0 THEN "leave" ELSE "idle"
    /\ UNCHANGED <<childPid, timedOut, prevTimedOut, armed, stopSoon, run, status,
                   verdict, server, ctl, st, procs, trace>>

(* exit_1, AFL_EXIT_WHEN_DONE, AFL_BENCH_UNTIL_CRASH *)
StopProgrammatically ==
    /\ fz = "idle"
    /\ stopSoon # 2
    /\ stopSoon' = 2
    /\ UNCHANGED <<fz, childPid, timedOut, prevTimedOut, armed, run, status, verdict,
                   server, ctl, st, procs, trace>>

KillsNobody == FALSE                                    \* fault: left to the handler
KillsAtEnd == stopSoon = 2

(* The end of main: after a programmatic stop the runner and the server    *)
(* are killed here; then waitpid(forksrv_pid).                             *)
Leave ==
    /\ fz \in {"idle", "leave"}
    /\ stopSoon # 0
    /\ IF KillsAtEnd
         THEN procs' = Kill(procs, childPid) /\ srv' = "dead"
         ELSE UNCHANGED <<procs, srv>>
    /\ fz' = "waitServer"
    /\ UNCHANGED <<childPid, timedOut, prevTimedOut, armed, stopSoon, run, status,
                   verdict, srvChild, childStopped, srvStatus, ctl, st, trace>>

WaitServer ==
    /\ fz = "waitServer"
    /\ srv = "dead"
    /\ fz' = "stopped"
    /\ UNCHANGED <<childPid, timedOut, prevTimedOut, armed, stopSoon, run, status,
                   verdict, server, ctl, st, procs, trace>>

(* handle_timeout *)
Alarm ==
    /\ armed
    /\ ~ Gone
    /\ armed' = FALSE
    /\ IF childPid > 0
         THEN timedOut' = TRUE /\ procs' = Kill(procs, childPid) /\ UNCHANGED srv
         ELSE /\ timedOut' = ((childPid = -1 /\ ~ dumb) \/ timedOut)
              /\ srv' = IF childPid = -1 THEN "dead" ELSE srv
              /\ UNCHANGED procs
    /\ UNCHANGED <<fz, childPid, prevTimedOut, stopSoon, run, status, verdict, srvChild,
                   childStopped, srvStatus, ctl, st, trace>>

(* handle_stop_sig *)
StopSignal ==
    /\ ~ Gone
    /\ stopSoon # 1
    /\ stopSoon' = 1
    /\ procs' = Kill(procs, childPid)
    /\ srv' = "dead"
    /\ UNCHANGED <<fz, childPid, timedOut, prevTimedOut, armed, run, status, verdict,
                   srvChild, childStopped, srvStatus, ctl, st, trace>>

-----------------------------------------------------------------------------
(* The fork server.  It ends when afl-fuzz is no longer at the other end.  *)
Send(m) == IF Gone THEN UNCHANGED st ELSE st' = Append(st, m)

SendHello ==
    /\ srv = "hello"
    /\ Send(Hello)
    /\ srv' = IF Gone THEN "dead" ELSE "read"
    /\ UNCHANGED <<fuzzer, srvChild, childStopped, srvStatus, ctl, procs, trace>>

(* A process that stopped itself and was killed afterwards is written off. *)
NoWriteOff(wasKilled) == FALSE                          \* fault: it is continued
MustWriteOff(wasKilled) == childStopped /\ wasKilled

ReadRequest ==
    /\ srv = "read"
    /\ \/ /\ ctl # << >>
          /\ ctl' = Tail(ctl)
          /\ IF MustWriteOff(Head(ctl))
               THEN childStopped' = FALSE /\ srv' = "writeOff"
               ELSE srv' = "launch" /\ UNCHANGED childStopped
       \/ /\ ctl = << >> /\ Gone
          /\ srv' = "dead"
          /\ UNCHANGED <<ctl, childStopped>>
    /\ UNCHANGED <<fuzzer, srvChild, srvStatus, st, procs, trace>>

(* fault: the server does not wait for the process to be gone. *)
WriteOffUnwaited ==
    /\ srv = "writeOff"
    /\ srv' = "launch"
    /\ UNCHANGED <<fuzzer, srvChild, childStopped, srvStatus, ctl, st, procs, trace>>

(* fault: the status of the written-off process is relayed. *)
WriteOffRelayed ==
    /\ srv = "writeOff"
    /\ procs[srvChild].state = "zombie"
    /\ procs' = [procs EXCEPT ![srvChild].state = "reaped"]
    /\ Send(Status(procs[srvChild].end, procs[srvChild].run))
    /\ srv' = "launch"
    /\ UNCHANGED <<fuzzer, srvChild, childStopped, srvStatus, ctl, trace>>

(* waitpid(child_pid, &status, 0) *)
WriteOff ==
    /\ srv = "writeOff"
    /\ procs[srvChild].state = "zombie"
    /\ procs' = [procs EXCEPT ![srvChild].state = "reaped"]
    /\ srv' = "launch"
    /\ UNCHANGED <<fuzzer, srvChild, childStopped, srvStatus, ctl, st, trace>>

Fork ==
    /\ srv = "launch"
    /\ ~ childStopped
    /\ \E p \in Pids :
          /\ NextPid(p)
          /\ procs' = [procs EXCEPT ![p].state = "running", ![p].run = run]
          /\ srvChild' = p
    /\ srv' = "writePid"
    /\ UNCHANGED <<fuzzer, childStopped, srvStatus, ctl, st, trace>>

ForkFails ==
    /\ srv = "launch"
    /\ ~ childStopped
    /\ srv' = "dead"
    /\ UNCHANGED <<fuzzer, srvChild, childStopped, srvStatus, ctl, st, procs, trace>>

(* kill(child_pid, SIGCONT) *)
Continue ==
    /\ srv = "launch"
    /\ childStopped
    /\ childStopped' = FALSE
    /\ procs' = IF procs[srvChild].state = "stopped"
                  THEN [procs EXCEPT ![srvChild].state = "running", ![srvChild].run = run]
                  ELSE procs
    /\ srv' = "writePid"
    /\ UNCHANGED <<fuzzer, srvChild, srvStatus, ctl, st, trace>>

WritePid ==
    /\ srv = "writePid"
    /\ Send(PidMessage(srvChild))
    /\ srv' = IF Gone THEN "dead" ELSE "wait"
    /\ UNCHANGED <<fuzzer, srvChild, childStopped, srvStatus, ctl, procs, trace>>

(* waitpid(child_pid, &status, is_persistent ? WUNTRACED : 0) *)
Wait ==
    /\ srv = "wait"
    /\ LET p == procs[srvChild] IN
       \/ /\ p.state = "zombie"
          /\ procs' = [procs EXCEPT ![srvChild].state = "reaped"]
          /\ srvStatus' = Status(p.end, p.run)
          /\ UNCHANGED childStopped
       \/ /\ Persistent /\ p.state = "stopped"
          /\ srvStatus' = Status("stopped", p.run)
          /\ childStopped' = TRUE
          /\ UNCHANGED procs
    /\ srv' = "writeStatus"
    /\ UNCHANGED <<fuzzer, srvChild, ctl, st, trace>>

WriteStatus ==
    /\ srv = "writeStatus"
    /\ Send(srvStatus)
    /\ srv' = IF Gone THEN "dead" ELSE "read"
    /\ UNCHANGED <<fuzzer, srvChild, childStopped, srvStatus, ctl, procs, trace>>

-----------------------------------------------------------------------------
(* The instrumented processes.  Until SIGKILL takes effect a process can   *)
(* still mark the map.                                                     *)
Touch(p) ==
    /\ procs[p].state = "running"
    /\ trace' = trace \cup {procs[p].run}
    /\ UNCHANGED <<fuzzer, server, ctl, st, procs>>

(* execv in the dumb mode; if it fails, the map says so and the process exits *)
Exec(p) ==
    /\ procs[p].state = "forked"
    /\ ~ procs[p].killed
    /\ \/ procs' = [procs EXCEPT ![p].state = "running"] /\ UNCHANGED trace
       \/ /\ procs' = [procs EXCEPT ![p].state = "zombie", ![p].end = "exit"]
          /\ trace' = trace \cup {ExecFailSig}
    /\ UNCHANGED <<fuzzer, server, ctl, st>>

(* It exits, exits with the oracle's code or that of MSAN, or crashes. *)
End(p) ==
    /\ procs[p].state = "running"
    /\ ~ procs[p].killed
    /\ \E e \in {"exit", "report", "msan", "segv"} :
          procs' = [procs EXCEPT ![p].state = "zombie", ![p].end = e]
    /\ UNCHANGED <<fuzzer, server, ctl, st, trace>>

(* raise(SIGSTOP) in __afl_persistent_loop *)
StopItself(p) ==
    /\ Persistent
    /\ procs[p].state = "running"
    /\ ~ procs[p].killed
    /\ procs' = [procs EXCEPT ![p].state = "stopped"]
    /\ UNCHANGED <<fuzzer, server, ctl, st, trace>>

Die(p) ==
    /\ procs[p].state \in Alive
    /\ procs[p].killed
    /\ procs' = [procs EXCEPT ![p].state = "zombie", ![p].end = "kill"]
    /\ UNCHANGED <<fuzzer, server, ctl, st, trace>>

-----------------------------------------------------------------------------
Fuzzer ==
    /\ \/ ReadHello \/ HandshakeFails \/ DisarmHello
       \/ BeginRun \/ WriteRequest \/ ReadPid \/ ReadStatus
       \/ ForkRunner \/ AssignPid \/ WaitRunner
       \/ Settle \/ Judge
       \/ LookAtStop \/ Leave \/ WaitServer
    /\ UNCHANGED dumb

Server ==
    /\ \/ SendHello \/ ReadRequest \/ WriteOff \/ Fork \/ ForkFails \/ Continue
       \/ WritePid \/ Wait \/ WriteStatus
    /\ UNCHANGED dumb

Process(p) == (Exec(p) \/ Touch(p) \/ End(p) \/ StopItself(p) \/ Die(p)) /\ UNCHANGED dumb

Timer == Alarm /\ UNCHANGED dumb
Stop == (StopProgrammatically \/ StopSignal) /\ UNCHANGED dumb

Over == Gone /\ srv = "dead" /\ UNCHANGED vars

Next ==
    \/ Fuzzer
    \/ Timer
    \/ Stop
    \/ Server
    \/ \E p \in Pids : Process(p)
    \/ Over

(* The scheduler runs afl-fuzz and the server, the timer expires and a     *)
(* SIGKILL arrives.  Nothing makes the target finish.                      *)
Fairness ==
    /\ WF_vars(Fuzzer)
    /\ WF_vars(Server)
    /\ WF_vars(Timer)
    /\ \A p \in Pids : WF_vars(Die(p) /\ UNCHANGED dumb)

Spec == Init /\ [][Next]_vars /\ Fairness

-----------------------------------------------------------------------------
StatusSet == [what : {"status"}, pid : {0}, end : Ends, of : 0 .. MaxRuns]
MessageSet == [what : {"hello", "pid", "status"}, pid : 0 .. MaxRuns, end : Ends, of : 0 .. MaxRuns]
ProcSet == [state : {"unborn", "forked", "running", "stopped", "zombie", "reaped"}, run : 0 .. MaxRuns,
            killed : BOOLEAN, end : Ends]
VerdictSet == [fault : {"none", "FAULT_NONE", "FAULT_TMOUT", "FAULT_CRASH", "NON_TERM", "FAULT_ERROR"},
               end : Ends, of : 0 .. MaxRuns, run : 0 .. MaxRuns]

TypeOK ==
    /\ fz \in {"hello", "disarmHello", "idle", "request", "readPid", "readStatus",
               "settle", "judge", "returned", "leave", "waitServer", "stopped", "dead"}
    /\ childPid \in -1 .. MaxRuns
    /\ timedOut \in BOOLEAN
    /\ prevTimedOut \in BOOLEAN
    /\ armed \in BOOLEAN
    /\ stopSoon \in 0 .. 2
    /\ run \in 0 .. MaxRuns
    /\ status \in StatusSet
    /\ verdict \in VerdictSet
    /\ srv \in {"hello", "read", "writeOff", "launch", "writePid", "wait",
                "writeStatus", "dead"}
    /\ srvChild \in 0 .. MaxRuns
    /\ childStopped \in BOOLEAN
    /\ srvStatus \in StatusSet
    /\ ctl \in Seq(BOOLEAN) /\ Len(ctl) <= 1
    /\ st \in Seq(MessageSet) /\ Len(st) <= 2
    /\ procs \in [Pids -> ProcSet]
    /\ trace \in SUBSET (0 .. MaxRuns)

(* The pipes carry bare four-byte words: afl-fuzz takes the first as a pid *)
(* and the second as a status because of the order alone.  The word it     *)
(* finds is the one it takes it for, and the status is the one of the run  *)
(* under way, whatever was stopped, killed or written off before.          *)
StatusIsOwn ==
    /\ fz = "hello" /\ st # << >> => Head(st).what = "hello"
    /\ fz = "readPid" /\ st # << >> => Head(st).what = "pid" /\ Head(st).pid \in Pids
    /\ fz = "readStatus" /\ st # << >> => Head(st).what = "status" /\ Head(st).of = run
    /\ fz \in {"settle", "judge"} => status.what = "status" /\ status.of = run

(* A verdict rests on what the process of this run did: a crash is its own *)
(* signal, never the SIGKILL afl-fuzz sent it, be it in this run or after  *)
(* the previous one.                                                       *)
VerdictIsOwn ==
    /\ verdict.of = verdict.run
    /\ verdict.fault = "FAULT_CRASH" => verdict.end \in {"segv", "msan"}
    /\ verdict.fault = "FAULT_ERROR" => dumb /\ verdict.end = "exit"
    /\ verdict.fault = "FAULT_TMOUT" => verdict.end = "kill"
    /\ verdict.fault = "NON_TERM" => verdict.end = "report"

(* When run_target classifies the map, only the process of this run has    *)
(* marked it since the memset, though a killed process may mark it until   *)
(* the signal takes effect.                                                *)
TraceIsOwn == fz = "judge" => trace \subseteq {run} \/ (dumb /\ trace = {ExecFailSig})

(* As long as the server lives there is at most one process that can touch *)
(* the map or wait to be reaped.                                           *)
Unreaped == {p \in Pids : procs[p].state \in {"running", "stopped", "zombie"}}
OneRunner == srv # "dead" => Cardinality(Unreaped) <= 1

(* The timer of one run never kills the process that serves another.       *)
AlarmHitsOwnRun ==
    [][Alarm => \A p \in Pids :
          procs'[p].killed /\ ~ procs[p].killed => procs[p].run = run]_vars

(* run_target returns, even if the target hangs in every run or, in the dumb *)
(* mode, stops itself for a server that is not there.                      *)
InRun == fz \in {"request", "readPid", "readStatus", "settle", "judge"}
RunEnds == InRun ~> ~ InRun

(* Once stop_soon is set afl-fuzz ends, its last waitpid included.         *)
StopIsObeyed == stopSoon # 0 ~> Gone

(* "If we stopped programmatically, we kill the forkserver and the current *)
(* runner. If we stopped manually, this is done by the signal handler":    *)
(* however afl-fuzz was stopped, no process of the target is left behind.  *)
NoRunnerLeft ==
    fz = "stopped" => \A p \in Pids :
        procs[p].state \in Alive => procs[p].killed
=============================================================================
