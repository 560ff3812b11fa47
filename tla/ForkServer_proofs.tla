--------------------------- MODULE ForkServer_proofs ---------------------------
(***************************************************************************)
(* What TLAPS proves about ForkServer, for any number of runs and in every *)
(* mode: types, and that the status afl-fuzz reads, the verdict it passes,  *)
(* the map it classifies and the process its timer kills are those of the  *)
(* run under way.                                                          *)
(***************************************************************************)
EXTENDS ForkServer, FiniteSetTheorems, SequenceTheorems, TLAPS

-----------------------------------------------------------------------------
(* The inductive invariant.                                                *)

Began == {"readPid", "readStatus"}
Judging == {"settle", "judge"}
Quiet == {"disarmHello", "idle", "request"}
Ending == {"waitServer", "stopped", "dead"}

OfRun(s) == s.what = "status" /\ s.of = run

(* What is in the two pipes follows from where the two sides are; when the *)
(* server has died, from where it was.                                     *)
PipesHello ==
    \/ st = << >> /\ srv \in {"hello", "dead"}
    \/ st = <<Hello>> /\ srv \in {"read", "dead"}

PipesReadPid ==
    \/ st = << >> /\ srv = "read" /\ ctl = <<prevTimedOut>>
    \/ st = << >> /\ srv \in {"writeOff", "launch", "writePid"} /\ ctl = << >>
    \/ st = << >> /\ srv = "dead"
    \/ /\ st = <<PidMessage(srvChild)>> /\ srvChild \in Pids
       /\ srv \in {"wait", "writeStatus", "dead"} /\ (srv # "dead" => ctl = << >>)
    \/ /\ st = <<PidMessage(srvChild), srvStatus>> /\ srvChild \in Pids
       /\ srv \in {"read", "dead"} /\ (srv # "dead" => ctl = << >>)
       /\ OfRun(srvStatus)

PipesReadStatus ==
    /\ \/ st = << >> /\ srv \in {"wait", "writeStatus", "dead"}
       \/ st = <<srvStatus>> /\ srv \in {"read", "dead"} /\ OfRun(srvStatus)
    /\ srv # "dead" => ctl = << >>
    /\ childPid = srvChild

Pipes ==
    /\ ctl \in {<< >>} \cup {<<b>> : b \in BOOLEAN}
    /\ fz = "hello" => PipesHello /\ ctl = << >>
    /\ fz = "readPid" /\ ~ dumb => PipesReadPid
    /\ fz = "readStatus" /\ ~ dumb => PipesReadStatus
    /\ fz \in Quiet \cup Judging \cup {"returned", "leave"} =>
          st = << >> /\ srv \in {"read", "dead"} /\ (srv = "read" => ctl = << >>)
    /\ fz \in Ending => srv = "dead" /\ st = << >>
    /\ dumb => srv = "dead" /\ st = << >> /\ fz \notin {"hello", "disarmHello"}
    /\ stopSoon = 1 => srv = "dead"

(* The process the server is busy with, or keeps stopped.                  *)
Child == procs[srvChild]
NoneLeft == \A p \in Pids : procs[p].state \in {"unborn", "reaped"}
KeptStopped == srvChild \in Pids /\ Child.state \in {"stopped", "zombie"}

ServerChild ==
    /\ \A p \in Pids : procs[p].state \notin {"unborn", "reaped"} => p = srvChild
    /\ fz \in {"hello", "disarmHello"} => NoneLeft /\ ~ childStopped
    /\ srv \in {"read", "writeStatus"} => IF childStopped THEN KeptStopped ELSE NoneLeft
    /\ srv = "writeOff" => KeptStopped /\ ~ childStopped
    /\ srv = "launch" =>
          IF childStopped THEN KeptStopped /\ Child.state = "stopped" /\ ~ Child.killed
                          ELSE NoneLeft
    /\ srv \in {"writePid", "wait"} =>
          srvChild \in Pids /\ ~ childStopped /\ Child.run = run
    /\ srv = "writeStatus" => OfRun(srvStatus)
    /\ childStopped =>
          /\ Child.killed \/ Child.state = "stopped"
          /\ fz \in {"readStatus"} \cup Judging => Child.run = run

(* A process that was killed while it was kept stopped is known to have    *)
(* been: afl-fuzz says so with its next request.                           *)
KillIsKnown ==
    /\ childStopped
    /\ Child.killed
    /\ fz \in Quiet \cup {"returned", "leave"} \/ (fz = "readPid" /\ st = << >> /\ srv = "read")
    => prevTimedOut

(* Without a server: the one process of the run.                           *)
DumbRunner ==
    /\ fz \notin Began => NoneLeft
    /\ fz \in Began => \A p \in Pids :
          procs[p].state \notin {"unborn", "reaped"} => procs[p].run = run
    /\ fz \in Began => \A p, q \in Pids :
          procs[p].run = run /\ procs[q].run = run => p = q
    /\ fz = "readStatus" => childPid \in Pids /\ procs[childPid].run = run

(* What the processes have in common in the two modes.                     *)
Processes ==
    /\ \A p \in Pids :
          /\ procs[p].run <= run
          /\ fz = "request" => procs[p].run < run
          /\ procs[p].state = "unborn" => procs[p].run = 0 /\ ~ procs[p].killed
          /\ procs[p].state = "forked" => dumb
          /\ procs[p].state = "zombie" /\ procs[p].end = "kill" => procs[p].killed
          /\ procs[p].killed /\ procs[p].run = run => timedOut \/ (stopSoon # 0 /\ srv = "dead")
    /\ fz \in {"request"} \cup Began \cup Judging => run >= 1

(* Who may still mark the map works on the run under way, and afl-fuzz is  *)
(* not looking at the map.                                                 *)
Running ==
    \A p \in Pids : procs[p].state = "running" =>
        /\ procs[p].run = run
        /\ fz \in Began \cup Ending \cup {"returned", "leave"}
        /\ fz = "returned" => stopSoon # 0
        /\ fz = "readPid" => Len(st) < 2
        /\ fz = "readStatus" => st = << >>

(* The timer runs for the run under way only, and the pid it will go by is *)
(* that of the process which serves this run.                              *)
TimerOwn ==
    /\ armed => fz \notin {"idle", "request", "readPid"}
    /\ armed /\ fz \in {"returned", "leave"} => stopSoon # 0 /\ srv = "dead"
    /\ fz \in {"hello", "disarmHello"} => childPid = -1 /\ run = 0
    /\ armed /\ fz \notin {"hello", "disarmHello"} => childPid # -1
    /\ armed /\ childPid \in Pids => procs[childPid].run = run
    /\ fz = "readPid" /\ ~ dumb /\ st # << >> => procs[srvChild].run = run

(* A status that says "killed" is about a kill of this run.                *)
KillOwn(s) == s.end = "kill" => timedOut \/ stopSoon # 0
StatusOwn ==
    /\ fz \in Judging => OfRun(status) /\ KillOwn(status)
    /\ srv = "writeStatus" => KillOwn(srvStatus)
    /\ fz = "readPid" /\ Len(st) = 2 => KillOwn(srvStatus)
    /\ fz = "readStatus" /\ st # << >> => KillOwn(Head(st))

(* The marks in the map: of this run, or that execv failed.                *)
FailedExec ==
    /\ dumb
    /\ trace = {ExecFailSig}
    /\ fz \in Judging => status.end = "exit"
    /\ fz \in Began => \A p \in Pids : procs[p].run = run =>
          procs[p].state \in {"zombie", "reaped"} /\ procs[p].end = "exit"
MapOwn ==
    /\ fz \in {"request"} \cup Began \cup Judging => trace \subseteq {run} \/ FailedExec
    /\ fz = "request" => trace = {}
    /\ fz \in Began => \A p \in Pids : procs[p].state = "forked" => trace = {}

IInv ==
    /\ TypeOK
    /\ Pipes
    /\ (~ dumb /\ srv # "dead" => ServerChild /\ KillIsKnown)
    /\ (dumb => DumbRunner)
    /\ Processes
    /\ Running
    /\ TimerOwn
    /\ StatusOwn
    /\ VerdictIsOwn
    /\ MapOwn

-----------------------------------------------------------------------------
(* Shapes of the pipes and of the process table.                           *)

USE DEF Pids, Alive, Gone, Began, Judging, Quiet, Ending, ExecFailSig

LEMMA AppendSecond ==
    ASSUME NEW m, NEW n
    PROVE  Append(<<m>>, n) = <<m, n>>
<1> DEFINE S == {m, n}
<1>1. <<m>> \in Seq(S) /\ n \in S /\ <<m, n>> \in Seq(S)
  OBVIOUS
<1>2. /\ Append(<<m>>, n) \in Seq(S)
      /\ Len(Append(<<m>>, n)) = 2
      /\ Append(<<m>>, n)[1] = m /\ Append(<<m>>, n)[2] = n
  BY <1>1, AppendProperties
<1>3. \A i \in 1 .. 2 : Append(<<m>>, n)[i] = <<m, n>>[i]
  BY <1>2
<1> QED BY <1>1, <1>2, <1>3, SeqEqual

LEMMA PipeFacts ==
    ASSUME NEW m, NEW n
    PROVE  /\ << >> # <<m>> /\ << >> # <<m, n>> /\ Len(<< >>) = 0
           /\ Len(<<m>>) = 1 /\ Len(<<m, n>>) = 2
           /\ Head(<<m>>) = m /\ Head(<<m, n>>) = m
           /\ Tail(<<m>>) = << >> /\ Tail(<<m, n>>) = <<n>>
           /\ Append(<< >>, m) = <<m>> /\ Append(<<m>>, n) = <<m, n>>
<1>1. Append(<<m>>, n) = <<m, n>>
  BY AppendSecond
<1> QED BY <1>1

LEMMA PipeTypes ==
    ASSUME NEW S, NEW m \in S, NEW n \in S
    PROVE  << >> \in Seq(S) /\ <<m>> \in Seq(S) /\ <<m, n>> \in Seq(S)
OBVIOUS

LEMMA MessageTypes ==
    ASSUME TypeOK
    PROVE  /\ Hello \in MessageSet /\ srvStatus \in MessageSet
           /\ srvChild \in Pids => PidMessage(srvChild) \in MessageSet
           /\ Hello.what = "hello" /\ srvStatus.what = "status"
           /\ \A p \in Pids : PidMessage(p).what = "pid" /\ PidMessage(p).pid = p
BY RunsBounded DEF TypeOK, Hello, PidMessage, MessageSet, StatusSet, Ends

LEMMA WordsTyped ==
    ASSUME TypeOK
    PROVE  /\ <<srvStatus>> \in Seq(MessageSet)
           /\ srvChild \in Pids => <<PidMessage(srvChild), srvStatus>> \in Seq(MessageSet)
BY MessageTypes, PipeTypes

(* A process is sent SIGKILL.                                              *)
LEMMA KillEffect ==
    ASSUME TypeOK, NEW p \in Int, procs' = Kill(procs, p)
    PROVE  /\ procs' \in [Pids -> ProcSet]
           /\ \A q \in Pids :
                /\ procs'[q].state = procs[q].state
                /\ procs'[q].run = procs[q].run
                /\ procs'[q].end = procs[q].end
                /\ procs'[q].killed <=> procs[q].killed \/ (q = p /\ procs[q].state \in Alive)
<1>0. procs \in [Pids -> ProcSet]
    BY DEF TypeOK
<1>1. CASE p \in Pids /\ procs[p].state \in Alive
  <2>1. procs' = [procs EXCEPT ![p].killed = TRUE]
    BY <1>1 DEF Kill
  <2>2. procs[p] \in ProcSet
    BY <1>1, <1>0
  <2> DEFINE r == [procs[p] EXCEPT !.killed = TRUE]
  <2>4. r \in ProcSet /\ r.state = procs[p].state /\ r.run = procs[p].run /\ r.end = procs[p].end /\ r.killed = TRUE
    BY <2>2 DEF ProcSet
  <2>3. procs' = [procs EXCEPT ![p] = r]
    BY <2>1
  <2> HIDE DEF r
  <2>5. procs' \in [Pids -> ProcSet] /\ procs'[p] = r /\ \A q \in Pids \ {p} : procs'[q] = procs[q]
     BY <1>0, <1>1, <2>3, <2>4
  <2> QED BY <1>1, <2>5, <2>4
<1>2. CASE ~ (p \in Pids /\ procs[p].state \in Alive)
  BY <1>0, <1>2 DEF Kill, ProcSet
<1> QED BY <1>1, <1>2

(* A process changes its state, the run it works on, or how it ended.      *)
Becomes(p, s, r, e) ==
    /\ \A q \in Pids \ {p} : procs'[q] = procs[q]
    /\ procs'[p].state = s
    /\ procs'[p].run = r
    /\ procs'[p].end = e
    /\ procs'[p].killed = procs[p].killed

ProcStates == {"unborn", "forked", "running", "stopped", "zombie", "reaped"}

LEMMA StateEffect ==
    ASSUME TypeOK, NEW p \in Pids, NEW s \in ProcStates,
           procs' = [procs EXCEPT ![p].state = s]
    PROVE  procs' \in [Pids -> ProcSet] /\ Becomes(p, s, procs[p].run, procs[p].end)
<1>1. procs[p] \in ProcSet
  BY DEF TypeOK
<1>2. procs \in [Pids -> ProcSet]
  BY DEF TypeOK
<1> QED BY <1>1, <1>2 DEF Becomes, ProcSet, ProcStates

LEMMA EndEffect ==
    ASSUME TypeOK, NEW p \in Pids, NEW s \in ProcStates, NEW e \in Ends,
           procs' = [procs EXCEPT ![p].state = s, ![p].end = e]
    PROVE  procs' \in [Pids -> ProcSet] /\ Becomes(p, s, procs[p].run, e)
<1>1. procs[p] \in ProcSet
  BY DEF TypeOK
<1>2. procs \in [Pids -> ProcSet]
  BY DEF TypeOK
<1> QED BY <1>1, <1>2 DEF Becomes, ProcSet, ProcStates

LEMMA RunEffect ==
    ASSUME TypeOK, NEW p \in Pids, NEW s \in ProcStates,
           procs' = [procs EXCEPT ![p].state = s, ![p].run = run]
    PROVE  procs' \in [Pids -> ProcSet] /\ Becomes(p, s, run, procs[p].end)
<1>1. procs[p] \in ProcSet /\ run \in 0 .. MaxRuns
  BY DEF TypeOK
<1>2. procs \in [Pids -> ProcSet]
  BY DEF TypeOK
<1> QED BY <1>1, <1>2 DEF Becomes, ProcSet, ProcStates

(* Where afl-fuzz is while the server is at work.                          *)
LEMMA WhereIsFuzzer ==
    ASSUME IInv, ~ dumb
    PROVE  /\ srv = "hello" => fz = "hello" /\ st = << >>
           /\ srv = "read" /\ ctl # << >> => fz = "readPid" /\ st = << >> /\ ctl = <<prevTimedOut>>
           /\ srv \in {"writeOff", "launch", "writePid"} => fz = "readPid" /\ st = << >> /\ ctl = << >>
           /\ srv \in {"wait", "writeStatus"} =>
                 /\ ctl = << >>
                 /\ \/ fz = "readPid" /\ st = <<PidMessage(srvChild)>>
                    \/ fz = "readStatus" /\ st = << >> /\ childPid = srvChild
BY DEF IInv, TypeOK, Pipes, PipesHello, PipesReadPid, PipesReadStatus, ServerChild

LEMMA BeginRunInv ==
    ASSUME IInv, BeginRun, UNCHANGED dumb
    PROVE  IInv'
<1> USE RunsBounded DEF IInv
<1>1. TypeOK'
  <2>1. (run \in 0 .. MaxRuns)'
    BY DEF BeginRun, fuzzer, server, TypeOK
  <2>2. (trace \in SUBSET (0 .. MaxRuns))'
    BY DEF BeginRun, fuzzer, server, TypeOK
  <2>3. (procs \in [Pids -> ProcSet])'
    BY DEF BeginRun, fuzzer, server, TypeOK
  <2>4. (status \in StatusSet /\ srvStatus \in StatusSet /\ verdict \in VerdictSet)'
    BY DEF BeginRun, fuzzer, server, TypeOK
  <2>5. (ctl \in Seq(BOOLEAN) /\ Len(ctl) <= 1)'
    BY DEF BeginRun, fuzzer, server, TypeOK
  <2>6. (st \in Seq(MessageSet) /\ Len(st) <= 2)'
    BY DEF BeginRun, fuzzer, server, TypeOK
  <2> QED BY <2>1, <2>2, <2>3, <2>4, <2>5, <2>6 DEF BeginRun, fuzzer, server, TypeOK
<1>2. Pipes'
  BY DEF BeginRun, server, Pipes, PipesHello, PipesReadPid, PipesReadStatus, OfRun
<1>3. (~ dumb /\ srv # "dead" => ServerChild /\ KillIsKnown)'
  BY DEF BeginRun, fuzzer, server, ServerChild, KillIsKnown, Child, NoneLeft, KeptStopped, OfRun,
       Pipes, PipesHello, PipesReadPid, PipesReadStatus, Processes, ProcSet, TimerOwn
<1>4. (dumb => DumbRunner)'
  BY DEF BeginRun, server, DumbRunner, NoneLeft
<1>5. Processes'
  BY SMTT(30) DEF BeginRun, fuzzer, server, Processes, ProcSet, TypeOK, Pipes, PipesHello, PipesReadPid,
       PipesReadStatus, OfRun, ServerChild, KillIsKnown, Child, NoneLeft, KeptStopped, DumbRunner,
       TimerOwn
<1>6. Running'
  BY DEF BeginRun, server, Running
<1>7. TimerOwn'
  BY DEF BeginRun, server, TimerOwn
<1>8. StatusOwn'
  BY DEF BeginRun, fuzzer, server, StatusOwn, KillOwn, OfRun, Pipes, PipesHello, PipesReadPid,
       PipesReadStatus, ServerChild, KillIsKnown, Child, NoneLeft, KeptStopped, DumbRunner,
       Processes, ProcSet
<1>9. VerdictIsOwn'
  BY DEF BeginRun, server, VerdictIsOwn
<1>10. MapOwn'
  BY DEF BeginRun, server, MapOwn, FailedExec
<1> QED BY <1>1, <1>2, <1>3, <1>4, <1>5, <1>6, <1>7, <1>8, <1>9, <1>10

LEMMA ReadHelloInv ==
    ASSUME IInv, ReadHello, UNCHANGED dumb
    PROVE  IInv'
<1> USE PipeFacts, RunsBounded DEF IInv
<1>1. TypeOK'
  BY DEF ReadHello, server, TypeOK
<1>2. Pipes'
  BY PipeTypes, MessageTypes DEF ReadHello, fuzzer, server, Pipes, PipesHello, PipesReadPid,
       PipesReadStatus, OfRun, TypeOK, ServerChild, KillIsKnown, Child, NoneLeft, KeptStopped
<1>3. (~ dumb /\ srv # "dead" => ServerChild /\ KillIsKnown)'
  BY DEF ReadHello, fuzzer, server, ServerChild, KillIsKnown, Child, NoneLeft, KeptStopped, OfRun
<1>4. (dumb => DumbRunner)'
  BY DEF ReadHello, fuzzer, server, DumbRunner, NoneLeft
<1>5. Processes'
  BY DEF ReadHello, fuzzer, server, Processes, ProcSet
<1>6. Running'
  BY DEF ReadHello, fuzzer, server, Running
<1>7. TimerOwn'
  BY DEF ReadHello, fuzzer, server, TimerOwn
<1>8. StatusOwn'
  BY DEF ReadHello, fuzzer, server, StatusOwn, KillOwn, OfRun
<1>9. VerdictIsOwn'
  BY DEF ReadHello, fuzzer, server, VerdictIsOwn
<1>10. MapOwn'
  BY DEF ReadHello, fuzzer, server, MapOwn, FailedExec
<1> QED BY <1>1, <1>2, <1>3, <1>4, <1>5, <1>6, <1>7, <1>8, <1>9, <1>10

LEMMA HandshakeFailsInv ==
    ASSUME IInv, HandshakeFails, UNCHANGED dumb
    PROVE  IInv'
<1> USE PipeFacts, RunsBounded DEF IInv
<1>1. TypeOK'
  BY DEF HandshakeFails, server, TypeOK
<1>2. Pipes'
  BY DEF HandshakeFails, fuzzer, server, Broken, Pipes, PipesHello, PipesReadPid, PipesReadStatus,
       OfRun, ServerChild, KillIsKnown, Child, NoneLeft, KeptStopped
<1>3. (~ dumb /\ srv # "dead" => ServerChild /\ KillIsKnown)'
  BY DEF HandshakeFails, server, ServerChild, KillIsKnown, Child, NoneLeft, KeptStopped, OfRun
<1>4. (dumb => DumbRunner)'
  BY DEF HandshakeFails, server, DumbRunner, NoneLeft
<1>5. Processes'
  BY DEF HandshakeFails, server, Processes, ProcSet
<1>6. Running'
  BY DEF HandshakeFails, server, Running
<1>7. TimerOwn'
  BY DEF HandshakeFails, server, TimerOwn
<1>8. StatusOwn'
  BY DEF HandshakeFails, server, StatusOwn, KillOwn, OfRun
<1>9. VerdictIsOwn'
  BY DEF HandshakeFails, server, VerdictIsOwn
<1>10. MapOwn'
  BY DEF HandshakeFails, server, MapOwn, FailedExec
<1> QED BY <1>1, <1>2, <1>3, <1>4, <1>5, <1>6, <1>7, <1>8, <1>9, <1>10

LEMMA DisarmHelloInv ==
    ASSUME IInv, DisarmHello, UNCHANGED dumb
    PROVE  IInv'
<1> USE PipeFacts, RunsBounded DEF IInv
<1>1. TypeOK'
  BY DEF DisarmHello, server, TypeOK
<1>2. Pipes'
  BY DEF DisarmHello, server, Pipes, PipesHello, PipesReadPid, PipesReadStatus, OfRun
<1>3. (~ dumb /\ srv # "dead" => ServerChild /\ KillIsKnown)'
  BY DEF DisarmHello, server, ServerChild, KillIsKnown, Child, NoneLeft, KeptStopped, OfRun
<1>4. (dumb => DumbRunner)'
  BY DEF DisarmHello, server, DumbRunner, NoneLeft
<1>5. Processes'
  BY DEF DisarmHello, server, Processes, ProcSet
<1>6. Running'
  BY DEF DisarmHello, server, Running
<1>7. TimerOwn'
  BY DEF DisarmHello, server, TimerOwn
<1>8. StatusOwn'
  BY DEF DisarmHello, server, StatusOwn, KillOwn, OfRun
<1>9. VerdictIsOwn'
  BY DEF DisarmHello, server, VerdictIsOwn
<1>10. MapOwn'
  BY DEF DisarmHello, server, MapOwn, FailedExec
<1> QED BY <1>1, <1>2, <1>3, <1>4, <1>5, <1>6, <1>7, <1>8, <1>9, <1>10

LEMMA WriteRequestInv ==
    ASSUME IInv, WriteRequest, UNCHANGED dumb
    PROVE  IInv'
<1> USE PipeFacts, RunsBounded DEF IInv
<1>1. TypeOK'
  <2>1. (run \in 0 .. MaxRuns)'
    BY DEF WriteRequest, fuzzer, server, TypeOK
  <2>2. (trace \in SUBSET (0 .. MaxRuns))'
    BY DEF WriteRequest, fuzzer, server, TypeOK
  <2>3. (procs \in [Pids -> ProcSet])'
    BY DEF WriteRequest, fuzzer, server, TypeOK
  <2>4. (status \in StatusSet /\ srvStatus \in StatusSet /\ verdict \in VerdictSet)'
    BY DEF WriteRequest, fuzzer, server, TypeOK
  <2>5. (ctl \in Seq(BOOLEAN) /\ Len(ctl) <= 1)'
    BY PipeFacts, PipeTypes DEF WriteRequest, fuzzer, server, TypeOK, Pipes
  <2>6. (st \in Seq(MessageSet) /\ Len(st) <= 2)'
    BY DEF WriteRequest, fuzzer, server, TypeOK
  <2> QED BY <2>1, <2>2, <2>3, <2>4, <2>5, <2>6 DEF WriteRequest, fuzzer, server, TypeOK, GiveUp
<1>2. Pipes'
  <2>1. /\ ~ dumb /\ fz = "request" /\ st = << >> /\ srv \in {"read", "dead"}
        /\ (srv = "read" => ctl = << >>) /\ (stopSoon = 1 => srv = "dead")
        /\ prevTimedOut \in BOOLEAN /\ ctl \in {<< >>} \cup {<<b>> : b \in BOOLEAN}
    BY DEF WriteRequest, Pipes, TypeOK
  <2>2. UNCHANGED <<st, srv, stopSoon, prevTimedOut>>
    BY DEF WriteRequest, server
  <2>3. CASE srv = "read" /\ ctl' = Append(ctl, prevTimedOut) /\ fz' = "readPid"
    <3>1. ctl' = <<prevTimedOut>>
      BY <2>1, <2>3
    <3> QED BY <2>1, <2>2, <2>3, <3>1 DEF Pipes, PipesReadPid
  <2>4. CASE srv = "dead" /\ UNCHANGED ctl /\ fz' \in {"returned", "dead"}
    BY <2>1, <2>2, <2>4 DEF Pipes
  <2> QED BY <2>1, <2>3, <2>4 DEF WriteRequest, GiveUp
<1>3. (~ dumb /\ srv # "dead" => ServerChild /\ KillIsKnown)'
  BY DEF WriteRequest, server, ServerChild, KillIsKnown, Child, NoneLeft, KeptStopped, OfRun
<1>4. (dumb => DumbRunner)'
  BY DEF WriteRequest, server, DumbRunner, NoneLeft
<1>5. Processes'
  BY DEF WriteRequest, server, Processes, ProcSet
<1>6. Running'
  BY DEF WriteRequest, server, Running
<1>7. TimerOwn'
  BY DEF WriteRequest, fuzzer, server, GiveUp, TimerOwn, Pipes, PipesHello, PipesReadPid,
       PipesReadStatus, OfRun, ServerChild, KillIsKnown, Child, NoneLeft, KeptStopped, DumbRunner
<1>8. StatusOwn'
  BY DEF WriteRequest, fuzzer, server, GiveUp, StatusOwn, KillOwn, OfRun, Pipes, PipesHello,
       PipesReadPid, PipesReadStatus, ServerChild, KillIsKnown, Child, NoneLeft, KeptStopped,
       DumbRunner, Processes, ProcSet
<1>9. VerdictIsOwn'
  BY DEF WriteRequest, server, VerdictIsOwn
<1>10. MapOwn'
  BY DEF WriteRequest, server, MapOwn, FailedExec
<1> QED BY <1>1, <1>2, <1>3, <1>4, <1>5, <1>6, <1>7, <1>8, <1>9, <1>10

LEMMA ReadPidInv ==
    ASSUME IInv, ReadPid, UNCHANGED dumb
    PROVE  IInv'
<1> USE RunsBounded DEF IInv
<1>p. PidMessage(srvChild).pid = srvChild
  BY DEF PidMessage
<1>a. ASSUME st # << >>
      PROVE  /\ srvChild \in Pids /\ childPid' = srvChild /\ fz' = "readStatus" /\ armed' = TRUE
             /\ \/ st = <<PidMessage(srvChild)>> /\ st' = << >> /\ Len(st) = 1
                \/ /\ st = <<PidMessage(srvChild), srvStatus>> /\ st' = <<srvStatus>> /\ Len(st) = 2
                   /\ OfRun(srvStatus)
  <2>1. st' = Tail(st) /\ childPid' = Head(st).pid /\ fz' = "readStatus" /\ armed' = TRUE
    BY <1>a DEF ReadPid, Broken
  <2>2. /\ srvChild \in Pids
        /\ \/ st = <<PidMessage(srvChild)>>
           \/ st = <<PidMessage(srvChild), srvStatus>> /\ OfRun(srvStatus)
    BY <1>a DEF ReadPid, Pipes, PipesReadPid
  <2>3. CASE st = <<PidMessage(srvChild)>>
    <3> DEFINE m == PidMessage(srvChild)
    <3>1. Head(<<m>>) = m /\ Tail(<<m>>) = << >> /\ Len(<<m>>) = 1
      BY PipeFacts
    <3> QED BY <2>1, <2>2, <2>3, <3>1, <1>p
  <2>4. CASE st = <<PidMessage(srvChild), srvStatus>> /\ OfRun(srvStatus)
    <3> DEFINE m == PidMessage(srvChild)
    <3>1. Head(<<m, srvStatus>>) = m /\ Tail(<<m, srvStatus>>) = <<srvStatus>> /\ Len(<<m, srvStatus>>) = 2
      BY PipeFacts
    <3> QED BY <2>1, <2>2, <2>4, <3>1, <1>p
  <2> QED BY <2>2, <2>3, <2>4
<1>b. st = << >> => /\ srv = "dead" /\ fz' = IF stopSoon # 0 THEN "returned" ELSE "dead"
                    /\ UNCHANGED <<st, childPid, armed>>
  BY DEF ReadPid, Broken, GiveUp
<1>c. /\ ~ dumb /\ fz = "readPid" /\ fz' # "readPid" /\ fz' # "hello"
      /\ UNCHANGED <<timedOut, prevTimedOut, stopSoon, run, status, verdict, srv, srvChild, childStopped,
                     srvStatus, ctl, procs, trace>>
  BY <1>a, <1>b DEF ReadPid, server
<1>1. TypeOK'
  <2>1. CASE st = << >>
    BY <1>b, <1>c, <2>1 DEF TypeOK
  <2>2. CASE st # << >>
    <3>1. CASE st' = << >>
      BY <1>a, <1>c, <2>2, <3>1, PipeTypes, PipeFacts DEF TypeOK
    <3>2. CASE st' = <<srvStatus>>
      <4>1. srvStatus \in MessageSet
        BY MessageTypes
      <4>2. st' \in Seq(MessageSet) /\ Len(st') = 1
        BY <3>2, <4>1
      <4> QED BY <1>a, <1>c, <2>2, <4>2 DEF TypeOK
    <3> QED BY <1>a, <2>2, <3>1, <3>2
  <2> QED BY <2>1, <2>2
<1>2. Pipes'
  <2>1. CASE st = << >>
    BY <1>b, <1>c, <2>1 DEF Pipes, PipesReadPid, PipesReadStatus, OfRun
  <2>2. CASE st # << >>
    <3>1. CASE st = <<PidMessage(srvChild)>> /\ st' = << >> /\ Len(st) = 1
      <4>1. srv \in {"wait", "writeStatus", "dead"} /\ (srv # "dead" => ctl = << >>)
        BY <1>c, <2>2, <3>1, PipeFacts DEF Pipes, PipesReadPid
      <4> QED BY <1>a, <1>c, <2>2, <3>1, <4>1 DEF Pipes, PipesReadStatus
    <3>2. CASE st = <<PidMessage(srvChild), srvStatus>> /\ st' = <<srvStatus>> /\ Len(st) = 2 /\ OfRun(srvStatus)
      <4>1. srv \in {"read", "dead"} /\ (srv # "dead" => ctl = << >>)
        BY <1>c, <2>2, <3>2, PipeFacts DEF Pipes, PipesReadPid
      <4> QED BY <1>a, <1>c, <2>2, <3>2, <4>1 DEF Pipes, PipesReadStatus, OfRun
    <3> QED BY <1>a, <2>2, <3>1, <3>2
  <2> QED BY <2>1, <2>2
<1>3. (~ dumb /\ srv # "dead" => ServerChild /\ KillIsKnown)'
  <2>1. CASE st = << >>
    BY <1>b, <1>c, <2>1 DEF OfRun, ServerChild, KillIsKnown, Child, NoneLeft, KeptStopped, TimerOwn
  <2>2. CASE st # << >>
    BY <1>a, <1>c, <2>2, PipeFacts DEF OfRun, ServerChild, KillIsKnown, Child, NoneLeft,
         KeptStopped, TimerOwn
  <2> QED BY <2>1, <2>2
<1>4. (dumb => DumbRunner)'
  <2>1. CASE st = << >>
    BY <1>b, <1>c, <2>1 DEF DumbRunner, NoneLeft
  <2>2. CASE st # << >>
    BY <1>a, <1>c, <2>2 DEF DumbRunner, NoneLeft
  <2> QED BY <2>1, <2>2
<1>5. Processes'
  <2>1. CASE st = << >>
    BY <1>b, <1>c, <2>1 DEF Processes
  <2>2. CASE st # << >>
    BY <1>a, <1>c, <2>2 DEF Processes
  <2> QED BY <2>1, <2>2
<1>6. Running'
  <2>1. CASE st = << >>
    BY <1>b, <1>c, <2>1 DEF Running
  <2>2. CASE st # << >>
    BY <1>a, <1>c, <2>2, PipeFacts DEF Running
  <2> QED BY <2>1, <2>2
<1>7. TimerOwn'
  <2>1. CASE st = << >>
    BY <1>b, <1>c, <2>1 DEF TimerOwn, Pipes
  <2>2. CASE st # << >>
    <3>1. procs[srvChild].run = run
      BY <1>c, <2>2 DEF TimerOwn
    <3> QED BY <1>a, <1>c, <2>2, <3>1 DEF TimerOwn
  <2> QED BY <2>1, <2>2
<1>8. StatusOwn'
  <2>1. CASE st = << >>
    BY <1>b, <1>c, <2>1 DEF StatusOwn, KillOwn, OfRun
  <2>2. CASE st # << >>
    <3>1. CASE st' = << >>
      BY <1>a, <1>c, <2>2, <3>1 DEF StatusOwn, KillOwn, OfRun
    <3>2. CASE st' = <<srvStatus>> /\ Len(st) = 2
      <4>1. Head(<<srvStatus>>) = srvStatus
        OBVIOUS
      <4> QED BY <1>a, <1>c, <2>2, <3>2, <4>1 DEF StatusOwn, KillOwn, OfRun
    <3> QED BY <1>a, <2>2, <3>1, <3>2
  <2> QED BY <2>1, <2>2
<1>9. VerdictIsOwn'
  <2>1. CASE st = << >>
    BY <1>b, <1>c, <2>1 DEF VerdictIsOwn
  <2>2. CASE st # << >>
    BY <1>a, <1>c, <2>2 DEF VerdictIsOwn
  <2> QED BY <2>1, <2>2
<1>10. MapOwn'
  <2>1. CASE st = << >>
    BY <1>b, <1>c, <2>1 DEF MapOwn, FailedExec
  <2>2. CASE st # << >>
    BY <1>a, <1>c, <2>2 DEF MapOwn, FailedExec
  <2> QED BY <2>1, <2>2
<1> QED BY <1>1, <1>2, <1>3, <1>4, <1>5, <1>6, <1>7, <1>8, <1>9, <1>10

LEMMA ReadStatusInv ==
    ASSUME IInv, ReadStatus, UNCHANGED dumb
    PROVE  IInv'
<1> USE PipeFacts, RunsBounded DEF IInv
<1>a. st # << >> => /\ st = <<srvStatus>> /\ st' = << >> /\ status' = srvStatus
                    /\ fz' = "settle" /\ OfRun(srvStatus) /\ Head(st) = srvStatus
  BY DEF ReadStatus, Pipes, PipesReadStatus, Broken
<1>b. st = << >> => /\ srv = "dead" /\ fz' = IF stopSoon # 0 THEN "returned" ELSE "dead"
                    /\ UNCHANGED <<st, status>>
  BY DEF ReadStatus, Broken, GiveUp
<1>1. TypeOK'
  BY <1>a, <1>b, PipeTypes, MessageTypes DEF ReadStatus, fuzzer, server, TypeOK
<1>2. Pipes'
  BY <1>a, <1>b, PipeTypes, MessageTypes DEF ReadStatus, fuzzer, server, Pipes, PipesHello,
       PipesReadPid, PipesReadStatus, OfRun
<1>3. (~ dumb /\ srv # "dead" => ServerChild /\ KillIsKnown)'
  BY <1>a, <1>b, PipeTypes, MessageTypes DEF ReadStatus, fuzzer, server, ServerChild, KillIsKnown,
       Child, NoneLeft, KeptStopped, OfRun
<1>4. (dumb => DumbRunner)'
  BY DEF ReadStatus, fuzzer, server, DumbRunner, NoneLeft
<1>5. Processes'
  BY <1>a, <1>b, PipeTypes, MessageTypes DEF ReadStatus, fuzzer, server, Processes, ProcSet
<1>6. Running'
  BY <1>a, <1>b, PipeTypes, MessageTypes DEF ReadStatus, fuzzer, server, Running
<1>7. TimerOwn'
  BY <1>a, <1>b, PipeTypes, MessageTypes DEF ReadStatus, fuzzer, server, TimerOwn
<1>8. StatusOwn'
  BY <1>a, <1>b, PipeTypes, MessageTypes DEF ReadStatus, fuzzer, server, StatusOwn, KillOwn, OfRun
<1>9. VerdictIsOwn'
  BY DEF ReadStatus, fuzzer, server, VerdictIsOwn
<1>10. MapOwn'
  BY <1>a, <1>b, PipeTypes, MessageTypes DEF ReadStatus, fuzzer, server, MapOwn, FailedExec
<1> QED BY <1>1, <1>2, <1>3, <1>4, <1>5, <1>6, <1>7, <1>8, <1>9, <1>10

LEMMA ForkRunnerInv ==
    ASSUME IInv, ForkRunner, UNCHANGED dumb
    PROVE  IInv'
<1> USE PipeFacts, RunsBounded DEF IInv
<1>b. \/ UNCHANGED procs /\ fz' = "dead"
      \/ /\ fz' = "readPid" /\ procs' \in [Pids -> ProcSet]
         /\ \E p \in Pids : procs[p].state = "unborn" /\ Becomes(p, "forked", run, procs[p].end)
  BY RunEffect DEF ForkRunner, NextPid, Unborn, ProcStates
<1>c. /\ fz = "request" /\ dumb
      /\ UNCHANGED <<childPid, timedOut, prevTimedOut, armed, stopSoon, run, status,
                     verdict, srv, srvChild, childStopped, srvStatus, ctl, st, trace>>
  BY DEF ForkRunner, server
<1>d. /\ run \in Int /\ run >= 1
      /\ \A q \in Pids : procs[q].run \in Int /\ procs[q].run < run
  BY <1>c DEF Processes, TypeOK, ProcSet
<1>1. TypeOK'
  BY <1>b, <1>c DEF ForkRunner, fuzzer, server, TypeOK
<1>2. Pipes'
  BY DEF ForkRunner, fuzzer, server, Pipes, PipesHello, PipesReadPid, PipesReadStatus, OfRun
<1>3. (~ dumb /\ srv # "dead" => ServerChild /\ KillIsKnown)'
  BY DEF ForkRunner, fuzzer, server, ServerChild, KillIsKnown, Child, NoneLeft, KeptStopped, OfRun
<1>4. (dumb => DumbRunner)'
  <2>1. CASE UNCHANGED procs /\ fz' = "dead"
    BY <1>c, <1>d, <2>1 DEF DumbRunner, NoneLeft
  <2>2. ASSUME NEW p \in Pids, procs[p].state = "unborn", Becomes(p, "forked", run, procs[p].end), fz' = "readPid"
        PROVE  (dumb => DumbRunner)'
    BY <1>c, <1>d, <2>2 DEF Becomes, DumbRunner, NoneLeft
  <2> QED BY <1>b, <2>1, <2>2
<1>5. Processes'
  <2>1. CASE UNCHANGED procs /\ fz' = "dead"
    BY <1>c, <1>d, <2>1 DEF Processes
  <2>2. ASSUME NEW p \in Pids, procs[p].state = "unborn", Becomes(p, "forked", run, procs[p].end), fz' = "readPid"
        PROVE  Processes'
    BY <1>c, <1>d, <2>2 DEF Becomes, Processes, DumbRunner, NoneLeft
  <2> QED BY <1>b, <2>1, <2>2
<1>6. Running'
  BY <1>b, <1>c DEF ForkRunner, fuzzer, server, Running, Pipes, PipesHello, PipesReadPid,
       PipesReadStatus, OfRun, ServerChild, KillIsKnown, Child, NoneLeft, KeptStopped, DumbRunner,
       Processes, ProcSet, Becomes
<1>7. TimerOwn'
  BY DEF ForkRunner, fuzzer, server, TimerOwn
<1>8. StatusOwn'
  BY <1>b, <1>c DEF ForkRunner, fuzzer, server, StatusOwn, KillOwn, OfRun, Pipes, PipesHello,
       PipesReadPid, PipesReadStatus, ServerChild, KillIsKnown, Child, NoneLeft, KeptStopped,
       DumbRunner, Processes, ProcSet
<1>9. VerdictIsOwn'
  BY DEF ForkRunner, fuzzer, server, VerdictIsOwn
<1>10. MapOwn'
  <2>1. CASE UNCHANGED procs /\ fz' = "dead"
    BY <1>c, <1>d, <2>1 DEF MapOwn, FailedExec
  <2>2. ASSUME NEW p \in Pids, procs[p].state = "unborn", Becomes(p, "forked", run, procs[p].end), fz' = "readPid"
        PROVE  MapOwn'
    BY <1>c, <1>d, <2>2 DEF Becomes, MapOwn, FailedExec, DumbRunner, NoneLeft
  <2> QED BY <1>b, <2>1, <2>2
<1> QED BY <1>1, <1>2, <1>3, <1>4, <1>5, <1>6, <1>7, <1>8, <1>9, <1>10

LEMMA AssignPidInv ==
    ASSUME IInv, AssignPid, UNCHANGED dumb
    PROVE  IInv'
<1> USE PipeFacts, RunsBounded DEF IInv
<1>1. TypeOK'
  BY DEF AssignPid, server, TypeOK
<1>2. Pipes'
  BY DEF AssignPid, server, Pipes, PipesHello, PipesReadPid, PipesReadStatus, OfRun
<1>3. (~ dumb /\ srv # "dead" => ServerChild /\ KillIsKnown)'
  BY DEF AssignPid, server, ServerChild, KillIsKnown, Child, NoneLeft, KeptStopped, OfRun
<1>4. (dumb => DumbRunner)'
  BY DEF AssignPid, server, DumbRunner, NoneLeft
<1>5. Processes'
  BY DEF AssignPid, server, Processes, ProcSet
<1>6. Running'
  BY DEF AssignPid, fuzzer, server, Running, Pipes, PipesHello, PipesReadPid, PipesReadStatus,
       OfRun, ServerChild, KillIsKnown, Child, NoneLeft, KeptStopped, DumbRunner, Processes,
       ProcSet
<1>7. TimerOwn'
  BY DEF AssignPid, server, TimerOwn
<1>8. StatusOwn'
  BY DEF AssignPid, fuzzer, server, StatusOwn, KillOwn, OfRun, Pipes, PipesHello, PipesReadPid,
       PipesReadStatus, ServerChild, KillIsKnown, Child, NoneLeft, KeptStopped, DumbRunner,
       Processes, ProcSet
<1>9. VerdictIsOwn'
  BY DEF AssignPid, server, VerdictIsOwn
<1>10. MapOwn'
  BY DEF AssignPid, server, MapOwn, FailedExec
<1> QED BY <1>1, <1>2, <1>3, <1>4, <1>5, <1>6, <1>7, <1>8, <1>9, <1>10

LEMMA WaitRunnerInv ==
    ASSUME IInv, WaitRunner, UNCHANGED dumb
    PROVE  IInv'
<1> USE PipeFacts, RunsBounded DEF IInv
<1>a. /\ childPid \in Pids /\ procs[childPid].state = "zombie" /\ procs[childPid].run = run
      /\ procs' \in [Pids -> ProcSet] /\ procs[childPid] \in ProcSet
      /\ Becomes(childPid, "reaped", run, procs[childPid].end)
      /\ status' = [what |-> "status", pid |-> 0, end |-> procs[childPid].end, of |-> run]
  <2>1. childPid \in Pids /\ procs[childPid].state = "zombie" /\ procs[childPid].run = run
    BY DEF WaitRunner, DumbRunner
  <2>2. procs[childPid] \in ProcSet /\ "reaped" \in ProcStates
    BY <2>1 DEF TypeOK, ProcStates
  <2>3. procs' = [procs EXCEPT ![childPid].state = "reaped"]
        /\ status' = [what |-> "status", pid |-> 0, end |-> procs[childPid].end, of |-> run]
    BY <2>1 DEF WaitRunner, Status
  <2> QED BY <2>1, <2>2, <2>3, StateEffect
<1>1. TypeOK'
  BY <1>a DEF WaitRunner, fuzzer, server, TypeOK, StatusSet, ProcSet
<1>2. Pipes'
  BY DEF WaitRunner, fuzzer, server, Pipes, PipesHello, PipesReadPid, PipesReadStatus, OfRun
<1>3. (~ dumb /\ srv # "dead" => ServerChild /\ KillIsKnown)'
  BY DEF WaitRunner, fuzzer, server, ServerChild, KillIsKnown, Child, NoneLeft, KeptStopped, OfRun
<1>4. (dumb => DumbRunner)'
  BY <1>a DEF WaitRunner, fuzzer, server, DumbRunner, NoneLeft
<1>5. Processes'
  BY DEF WaitRunner, fuzzer, server, Processes, ProcSet
<1>6. Running'
  BY <1>a DEF WaitRunner, fuzzer, server, Running, Pipes, PipesHello, PipesReadPid,
       PipesReadStatus, OfRun, ServerChild, KillIsKnown, Child, NoneLeft, KeptStopped, DumbRunner,
       Processes, ProcSet, Becomes
<1>7. TimerOwn'
  BY DEF WaitRunner, fuzzer, server, TimerOwn
<1>8. StatusOwn'
  BY <1>a DEF WaitRunner, fuzzer, server, StatusOwn, KillOwn, OfRun, Pipes, PipesHello,
       PipesReadPid, PipesReadStatus, ServerChild, KillIsKnown, Child, NoneLeft, KeptStopped,
       DumbRunner, Processes, ProcSet, Becomes
<1>9. VerdictIsOwn'
  BY DEF WaitRunner, fuzzer, server, VerdictIsOwn
<1>10. MapOwn'
  BY <1>a DEF WaitRunner, fuzzer, server, MapOwn, FailedExec
<1> QED BY <1>1, <1>2, <1>3, <1>4, <1>5, <1>6, <1>7, <1>8, <1>9, <1>10

LEMMA SettleInv ==
    ASSUME IInv, Settle, UNCHANGED dumb
    PROVE  IInv'
<1> USE PipeFacts, RunsBounded DEF IInv
<1>1. TypeOK'
  BY DEF Settle, server, TypeOK
<1>2. Pipes'
  BY DEF Settle, server, Pipes, PipesHello, PipesReadPid, PipesReadStatus, OfRun
<1>3. (~ dumb /\ srv # "dead" => ServerChild /\ KillIsKnown)'
  BY DEF Settle, server, ServerChild, KillIsKnown, Child, NoneLeft, KeptStopped, OfRun
<1>4. (dumb => DumbRunner)'
  BY DEF Settle, server, DumbRunner, NoneLeft
<1>5. Processes'
  BY DEF Settle, server, Processes, ProcSet
<1>6. Running'
  BY DEF Settle, server, Running
<1>7. TimerOwn'
  BY DEF Settle, server, TimerOwn
<1>8. StatusOwn'
  BY DEF Settle, server, StatusOwn, KillOwn, OfRun
<1>9. VerdictIsOwn'
  BY DEF Settle, server, VerdictIsOwn
<1>10. MapOwn'
  BY DEF Settle, server, MapOwn, FailedExec
<1> QED BY <1>1, <1>2, <1>3, <1>4, <1>5, <1>6, <1>7, <1>8, <1>9, <1>10

LEMMA LookAtStopInv ==
    ASSUME IInv, LookAtStop, UNCHANGED dumb
    PROVE  IInv'
<1> USE PipeFacts, RunsBounded DEF IInv
<1>1. TypeOK'
  BY DEF LookAtStop, server, TypeOK
<1>2. Pipes'
  BY DEF LookAtStop, server, Pipes, PipesHello, PipesReadPid, PipesReadStatus, OfRun
<1>3. (~ dumb /\ srv # "dead" => ServerChild /\ KillIsKnown)'
  BY DEF LookAtStop, server, ServerChild, KillIsKnown, Child, NoneLeft, KeptStopped, OfRun
<1>4. (dumb => DumbRunner)'
  BY DEF LookAtStop, server, DumbRunner, NoneLeft
<1>5. Processes'
  BY DEF LookAtStop, server, Processes, ProcSet
<1>6. Running'
  BY DEF LookAtStop, server, Running
<1>7. TimerOwn'
  BY DEF LookAtStop, server, TimerOwn
<1>8. StatusOwn'
  BY DEF LookAtStop, server, StatusOwn, KillOwn, OfRun
<1>9. VerdictIsOwn'
  BY DEF LookAtStop, server, VerdictIsOwn
<1>10. MapOwn'
  BY DEF LookAtStop, server, MapOwn, FailedExec
<1> QED BY <1>1, <1>2, <1>3, <1>4, <1>5, <1>6, <1>7, <1>8, <1>9, <1>10

LEMMA StopProgrammaticallyInv ==
    ASSUME IInv, StopProgrammatically, UNCHANGED dumb
    PROVE  IInv'
<1> USE PipeFacts, RunsBounded DEF IInv
<1>1. TypeOK'
  BY DEF StopProgrammatically, server, TypeOK
<1>2. Pipes'
  BY DEF StopProgrammatically, server, Pipes, PipesHello, PipesReadPid, PipesReadStatus, OfRun
<1>3. (~ dumb /\ srv # "dead" => ServerChild /\ KillIsKnown)'
  BY DEF StopProgrammatically, server, ServerChild, KillIsKnown, Child, NoneLeft, KeptStopped, OfRun
<1>4. (dumb => DumbRunner)'
  BY DEF StopProgrammatically, server, DumbRunner, NoneLeft
<1>5. Processes'
  BY DEF StopProgrammatically, server, Processes, ProcSet
<1>6. Running'
  BY DEF StopProgrammatically, server, Running
<1>7. TimerOwn'
  BY DEF StopProgrammatically, server, TimerOwn
<1>8. StatusOwn'
  BY DEF StopProgrammatically, server, StatusOwn, KillOwn, OfRun
<1>9. VerdictIsOwn'
  BY DEF StopProgrammatically, server, VerdictIsOwn
<1>10. MapOwn'
  BY DEF StopProgrammatically, server, MapOwn, FailedExec
<1> QED BY <1>1, <1>2, <1>3, <1>4, <1>5, <1>6, <1>7, <1>8, <1>9, <1>10

LEMMA WaitServerInv ==
    ASSUME IInv, WaitServer, UNCHANGED dumb
    PROVE  IInv'
<1> USE PipeFacts, RunsBounded DEF IInv
<1>1. TypeOK'
  BY DEF WaitServer, server, TypeOK
<1>2. Pipes'
  BY DEF WaitServer, server, Pipes, PipesHello, PipesReadPid, PipesReadStatus, OfRun
<1>3. (~ dumb /\ srv # "dead" => ServerChild /\ KillIsKnown)'
  BY DEF WaitServer, server, ServerChild, KillIsKnown, Child, NoneLeft, KeptStopped, OfRun
<1>4. (dumb => DumbRunner)'
  BY DEF WaitServer, server, DumbRunner, NoneLeft
<1>5. Processes'
  BY DEF WaitServer, server, Processes, ProcSet
<1>6. Running'
  BY DEF WaitServer, server, Running
<1>7. TimerOwn'
  BY DEF WaitServer, server, TimerOwn
<1>8. StatusOwn'
  BY DEF WaitServer, server, StatusOwn, KillOwn, OfRun
<1>9. VerdictIsOwn'
  BY DEF WaitServer, server, VerdictIsOwn
<1>10. MapOwn'
  BY DEF WaitServer, server, MapOwn, FailedExec
<1> QED BY <1>1, <1>2, <1>3, <1>4, <1>5, <1>6, <1>7, <1>8, <1>9, <1>10

LEMMA JudgeInv ==
    ASSUME IInv, Judge, UNCHANGED dumb
    PROVE  IInv'
<1> USE PipeFacts, RunsBounded DEF IInv
<1>1. TypeOK'
  BY DEF Judge, server, TypeOK, Verdict, VerdictSet, StatusSet, Fault
<1>2. Pipes'
  BY DEF Judge, server, Pipes, PipesHello, PipesReadPid, PipesReadStatus, OfRun
<1>3. (~ dumb /\ srv # "dead" => ServerChild /\ KillIsKnown)'
  BY DEF Judge, fuzzer, server, ServerChild, KillIsKnown, Child, NoneLeft, KeptStopped, OfRun,
       Pipes, PipesHello, PipesReadPid, PipesReadStatus, Processes, ProcSet, TimerOwn
<1>4. (dumb => DumbRunner)'
  BY DEF Judge, server, DumbRunner, NoneLeft
<1>5. Processes'
  BY DEF Judge, server, Processes, ProcSet
<1>6. Running'
  BY DEF Judge, server, Running
<1>7. TimerOwn'
  BY DEF Judge, server, TimerOwn
<1>8. StatusOwn'
  BY DEF Judge, server, StatusOwn, KillOwn, OfRun
<1>9. VerdictIsOwn'
  <2>1. /\ fz = "judge" /\ OfRun(status) /\ KillOwn(status) /\ run >= 1 /\ run \in Int
        /\ verdict'.fault = Fault /\ verdict'.end = status.end
        /\ verdict'.of = status.of /\ verdict'.run = run /\ UNCHANGED dumb
    BY DEF Judge, Verdict, StatusOwn, Processes, TypeOK
  <2>2. trace \subseteq {run} \/ (dumb /\ status.end = "exit")
    BY <2>1 DEF MapOwn, FailedExec
  <2>3. dumb /\ 0 \in trace => status.end = "exit"
    BY <2>1, <2>2
  <2> DEFINE e == status.end
  <2>4. CASE status.end \in {"segv", "kill"} /\ stopSoon = 0
    <3>1. Fault = IF timedOut /\ e = "kill" THEN "FAULT_TMOUT" ELSE "FAULT_CRASH"
      BY <2>3, <2>4 DEF Fault
    <3> QED BY <2>1, <2>4, <3>1 DEF VerdictIsOwn, OfRun, KillOwn
  <2>5. CASE ~ (status.end \in {"segv", "kill"} /\ stopSoon = 0)
    <3>1. CASE UsesAsan /\ e = "msan"
      <4>1. Fault = "FAULT_CRASH"
        BY <2>3, <2>5, <3>1 DEF Fault
      <4> QED BY <2>1, <3>1, <4>1 DEF VerdictIsOwn, OfRun
    <3>2. CASE UsesAsan /\ e = "report"
      <4>1. Fault = "NON_TERM"
        BY <2>3, <2>5, <3>2 DEF Fault
      <4> QED BY <2>1, <3>2, <4>1 DEF VerdictIsOwn, OfRun
    <3>3. CASE ~ (UsesAsan /\ e \in {"msan", "report"}) /\ dumb /\ 0 \in trace
      <4>1. Fault = "FAULT_ERROR"
        BY <2>3, <2>5, <3>3 DEF Fault
      <4> QED BY <2>1, <2>3, <3>3, <4>1 DEF VerdictIsOwn, OfRun
    <3>4. CASE ~ (UsesAsan /\ e \in {"msan", "report"}) /\ ~ (dumb /\ 0 \in trace)
      <4>1. Fault = "FAULT_NONE"
        BY <2>3, <2>5, <3>4 DEF Fault
      <4> QED BY <2>1, <4>1 DEF VerdictIsOwn, OfRun
    <3> QED BY <3>1, <3>2, <3>3, <3>4
  <2> QED BY <2>4, <2>5
<1>10. MapOwn'
  BY DEF Judge, server, MapOwn, FailedExec
<1> QED BY <1>1, <1>2, <1>3, <1>4, <1>5, <1>6, <1>7, <1>8, <1>9, <1>10

LEMMA LeaveInv ==
    ASSUME IInv, Leave, UNCHANGED dumb
    PROVE  IInv'
<1> USE PipeFacts, RunsBounded DEF IInv
<1>a. /\ procs' \in [Pids -> ProcSet]
      /\ \A q \in Pids : /\ procs'[q].state = procs[q].state /\ procs'[q].run = procs[q].run
                         /\ procs'[q].end = procs[q].end
                         /\ procs'[q].killed <=> procs[q].killed
                               \/ (stopSoon = 2 /\ q = childPid /\ procs[q].state \in Alive)
      /\ srv' = "dead"
  <2>1. CASE stopSoon = 2
    <3>1. procs' = Kill(procs, childPid) /\ srv' = "dead" /\ childPid \in Int
      BY <2>1 DEF Leave, KillsAtEnd, TypeOK
    <3> QED BY <2>1, <3>1, KillEffect
  <2>2. CASE stopSoon # 2
    BY <2>2 DEF Leave, KillsAtEnd, TypeOK, Pipes
  <2> QED BY <2>1, <2>2
<1>1. TypeOK'
  BY <1>a DEF Leave, fuzzer, server, TypeOK
<1>2. Pipes'
  BY <1>a DEF Leave, fuzzer, server, Pipes, PipesHello, PipesReadPid, PipesReadStatus, OfRun
<1>3. (~ dumb /\ srv # "dead" => ServerChild /\ KillIsKnown)'
  BY DEF Leave, fuzzer, server, ServerChild, KillIsKnown, Child, NoneLeft, KeptStopped, OfRun
<1>4. (dumb => DumbRunner)'
  BY <1>a DEF Leave, fuzzer, server, DumbRunner, NoneLeft
<1>5. Processes'
  <2>1. UNCHANGED run /\ (timedOut => timedOut') /\ (stopSoon # 0 => stopSoon' # 0) /\ (srv = "dead" => srv' = "dead")
    BY DEF Leave, TypeOK
  <2>2. fz' = fz \/ fz' = "waitServer"
    BY DEF Leave
  <2>3. \A q \in Pids : procs'[q].killed /\ ~ procs[q].killed => timedOut' \/ (stopSoon' # 0 /\ srv' = "dead")
    BY <1>a DEF Leave, KillsAtEnd
  <2> QED BY <1>a, <2>1, <2>2, <2>3 DEF Processes
<1>6. Running'
  BY <1>a DEF Leave, fuzzer, server, Running
<1>7. TimerOwn'
  BY <1>a DEF Leave, fuzzer, server, TimerOwn
<1>8. StatusOwn'
  BY DEF Leave, fuzzer, server, StatusOwn, KillOwn, OfRun
<1>9. VerdictIsOwn'
  BY DEF Leave, fuzzer, server, VerdictIsOwn
<1>10. MapOwn'
  BY DEF Leave, fuzzer, server, MapOwn, FailedExec
<1> QED BY <1>1, <1>2, <1>3, <1>4, <1>5, <1>6, <1>7, <1>8, <1>9, <1>10

LEMMA AlarmInv ==
    ASSUME IInv, Alarm, UNCHANGED dumb
    PROVE  IInv'
<1> USE PipeFacts, RunsBounded DEF IInv
<1>a. /\ procs' \in [Pids -> ProcSet]
      /\ \A q \in Pids : /\ procs'[q].state = procs[q].state /\ procs'[q].run = procs[q].run
                         /\ procs'[q].end = procs[q].end
                         /\ procs'[q].killed <=> procs[q].killed
                               \/ (q = childPid /\ procs[q].state \in Alive)
      /\ childPid \in Pids => timedOut'
  BY KillEffect DEF Alarm, TypeOK
<1>1. TypeOK'
  BY <1>a DEF Alarm, fuzzer, server, TypeOK
<1>2. Pipes'
  BY DEF Alarm, fuzzer, server, Pipes, PipesHello, PipesReadPid, PipesReadStatus, OfRun
<1>3. (~ dumb /\ srv # "dead" => ServerChild /\ KillIsKnown)'
  BY <1>a DEF Alarm, fuzzer, server, ServerChild, KillIsKnown, Child, NoneLeft, KeptStopped,
       OfRun, TypeOK, Pipes, PipesHello, PipesReadPid, PipesReadStatus, Processes, ProcSet,
       TimerOwn
<1>4. (dumb => DumbRunner)'
  <2>1. UNCHANGED <<fz, childPid, run>>
    BY DEF Alarm
  <2> QED BY <1>a, <2>1 DEF DumbRunner, NoneLeft
<1>5. Processes'
  <2>1. UNCHANGED run /\ (timedOut => timedOut') /\ (stopSoon # 0 => stopSoon' # 0) /\ (srv = "dead" => srv' = "dead")
    BY DEF Alarm, TypeOK
  <2>2. fz' = fz \/ fz' = "waitServer"
    BY DEF Alarm
  <2>3. \A q \in Pids : procs'[q].killed /\ ~ procs[q].killed => timedOut' \/ (stopSoon' # 0 /\ srv' = "dead")
    BY <1>a DEF Alarm, KillsAtEnd
  <2> QED BY <1>a, <2>1, <2>2, <2>3 DEF Processes
<1>6. Running'
  BY <1>a DEF Alarm, fuzzer, server, Running
<1>7. TimerOwn'
  BY DEF Alarm, fuzzer, server, TimerOwn
<1>8. StatusOwn'
  BY DEF Alarm, fuzzer, server, StatusOwn, KillOwn, OfRun
<1>9. VerdictIsOwn'
  BY DEF Alarm, fuzzer, server, VerdictIsOwn
<1>10. MapOwn'
  <2>1. UNCHANGED <<fz, run, status, trace>>
    BY DEF Alarm
  <2> QED BY <1>a, <2>1 DEF MapOwn, FailedExec
<1> QED BY <1>1, <1>2, <1>3, <1>4, <1>5, <1>6, <1>7, <1>8, <1>9, <1>10

LEMMA StopSignalInv ==
    ASSUME IInv, StopSignal, UNCHANGED dumb
    PROVE  IInv'
<1> USE PipeFacts, RunsBounded DEF IInv
<1>a. /\ procs' \in [Pids -> ProcSet]
      /\ \A q \in Pids : /\ procs'[q].state = procs[q].state /\ procs'[q].run = procs[q].run
                         /\ procs'[q].end = procs[q].end
                         /\ procs'[q].killed <=> procs[q].killed
                               \/ (q = childPid /\ procs[q].state \in Alive)
  BY KillEffect DEF StopSignal, TypeOK
<1>1. TypeOK'
  BY <1>a DEF StopSignal, fuzzer, server, TypeOK
<1>2. Pipes'
  BY DEF StopSignal, fuzzer, server, Pipes, PipesHello, PipesReadPid, PipesReadStatus, OfRun
<1>3. (~ dumb /\ srv # "dead" => ServerChild /\ KillIsKnown)'
  BY DEF StopSignal, fuzzer, server, ServerChild, KillIsKnown, Child, NoneLeft, KeptStopped, OfRun
<1>4. (dumb => DumbRunner)'
  <2>1. UNCHANGED <<fz, childPid, run>>
    BY DEF StopSignal
  <2> QED BY <1>a, <2>1 DEF DumbRunner, NoneLeft
<1>5. Processes'
  <2>1. UNCHANGED run /\ (timedOut => timedOut') /\ (stopSoon # 0 => stopSoon' # 0) /\ (srv = "dead" => srv' = "dead")
    BY DEF StopSignal, TypeOK
  <2>2. fz' = fz \/ fz' = "waitServer"
    BY DEF StopSignal
  <2>3. \A q \in Pids : procs'[q].killed /\ ~ procs[q].killed => timedOut' \/ (stopSoon' # 0 /\ srv' = "dead")
    BY <1>a DEF StopSignal, KillsAtEnd
  <2> QED BY <1>a, <2>1, <2>2, <2>3 DEF Processes
<1>6. Running'
  BY <1>a DEF StopSignal, fuzzer, server, Running
<1>7. TimerOwn'
  BY <1>a DEF StopSignal, fuzzer, server, TimerOwn, Pipes, PipesHello, PipesReadPid,
       PipesReadStatus, OfRun, ServerChild, KillIsKnown, Child, NoneLeft, KeptStopped, DumbRunner
<1>8. StatusOwn'
  BY DEF StopSignal, fuzzer, server, StatusOwn, KillOwn, OfRun
<1>9. VerdictIsOwn'
  BY DEF StopSignal, fuzzer, server, VerdictIsOwn
<1>10. MapOwn'
  <2>1. UNCHANGED <<fz, run, status, trace>>
    BY DEF StopSignal
  <2> QED BY <1>a, <2>1 DEF MapOwn, FailedExec
<1> QED BY <1>1, <1>2, <1>3, <1>4, <1>5, <1>6, <1>7, <1>8, <1>9, <1>10

LEMMA SendHelloInv ==
    ASSUME IInv, SendHello, UNCHANGED dumb
    PROVE  IInv'
<1> USE PipeFacts, RunsBounded DEF IInv
<1>z. ~ dumb /\ srv # "dead" /\ ~ Gone
  BY DEF SendHello, Pipes
<1>a. st = << >> /\ st' = <<Hello>> /\ srv' = "read" /\ fz = "hello"
  BY <1>z, WhereIsFuzzer DEF SendHello, Send
<1>1. TypeOK'
  BY <1>z, PipeTypes, MessageTypes, <1>a DEF SendHello, fuzzer, server, TypeOK
<1>2. Pipes'
  BY <1>z, PipeTypes, MessageTypes, <1>a DEF SendHello, fuzzer, server, Pipes, PipesHello,
       PipesReadPid, PipesReadStatus, OfRun
<1>3. (~ dumb /\ srv # "dead" => ServerChild /\ KillIsKnown)'
  BY <1>z, PipeTypes, MessageTypes, <1>a DEF SendHello, fuzzer, server, ServerChild, KillIsKnown,
       Child, NoneLeft, KeptStopped, OfRun
<1>4. (dumb => DumbRunner)'
  BY DEF SendHello, fuzzer, server, DumbRunner, NoneLeft
<1>5. Processes'
  BY DEF SendHello, fuzzer, server, Processes, ProcSet
<1>6. Running'
  BY <1>z, PipeTypes, MessageTypes, <1>a DEF SendHello, fuzzer, server, Running
<1>7. TimerOwn'
  BY <1>z, PipeTypes, MessageTypes, <1>a DEF SendHello, fuzzer, server, TimerOwn
<1>8. StatusOwn'
  BY <1>z, PipeTypes, MessageTypes, <1>a DEF SendHello, fuzzer, server, StatusOwn, KillOwn, OfRun
<1>9. VerdictIsOwn'
  BY DEF SendHello, fuzzer, server, VerdictIsOwn
<1>10. MapOwn'
  BY DEF SendHello, fuzzer, server, MapOwn, FailedExec
<1> QED BY <1>1, <1>2, <1>3, <1>4, <1>5, <1>6, <1>7, <1>8, <1>9, <1>10

LEMMA ReadRequestInv ==
    ASSUME IInv, ReadRequest, UNCHANGED dumb
    PROVE  IInv'
<1> USE PipeFacts, RunsBounded DEF IInv
<1>z. ~ dumb /\ srv # "dead" /\ ~ Gone
  BY DEF ReadRequest, Pipes
<1>a. /\ fz = "readPid" /\ st = << >> /\ ctl = <<prevTimedOut>> /\ ctl' = << >>
      /\ IF childStopped /\ prevTimedOut
           THEN ~ childStopped' /\ srv' = "writeOff"
           ELSE srv' = "launch" /\ UNCHANGED childStopped
  <2>1. /\ srv = "read" /\ ctl # << >> /\ ctl' = Tail(ctl)
        /\ IF MustWriteOff(Head(ctl))
             THEN ~ childStopped' /\ srv' = "writeOff"
             ELSE srv' = "launch" /\ UNCHANGED childStopped
    BY <1>z DEF ReadRequest
  <2>2. fz = "readPid" /\ st = << >> /\ ctl = <<prevTimedOut>>
    BY <1>z, <2>1, WhereIsFuzzer
  <2> QED BY <2>1, <2>2 DEF MustWriteOff
<1>1. TypeOK'
  <2>1. (run \in 0 .. MaxRuns)'
    BY DEF ReadRequest, fuzzer, server, TypeOK
  <2>2. (trace \in SUBSET (0 .. MaxRuns))'
    BY DEF ReadRequest, fuzzer, server, TypeOK
  <2>3. (procs \in [Pids -> ProcSet])'
    BY DEF ReadRequest, fuzzer, server, TypeOK
  <2>4. (status \in StatusSet /\ srvStatus \in StatusSet /\ verdict \in VerdictSet)'
    BY DEF ReadRequest, fuzzer, server, TypeOK
  <2>5. (ctl \in Seq(BOOLEAN) /\ Len(ctl) <= 1)'
    BY <1>a, PipeTypes DEF ReadRequest, fuzzer, server, TypeOK
  <2>6. (st \in Seq(MessageSet) /\ Len(st) <= 2)'
    BY DEF ReadRequest, fuzzer, server, TypeOK
  <2> QED BY <2>1, <2>2, <2>3, <2>4, <2>5, <2>6, <1>a DEF ReadRequest, fuzzer, server, TypeOK
<1>2. Pipes'
  BY DEF ReadRequest, fuzzer, server, Pipes, PipesHello, PipesReadPid, PipesReadStatus, OfRun
<1>3. (~ dumb /\ srv # "dead" => ServerChild /\ KillIsKnown)'
  <2>1. /\ UNCHANGED <<fz, run, procs, srvChild, prevTimedOut, st, srvStatus>>
        /\ childStopped /\ Child.killed => prevTimedOut
        /\ IF childStopped THEN KeptStopped ELSE NoneLeft
        /\ \A p \in Pids : procs[p].state \notin {"unborn", "reaped"} => p = srvChild
        /\ childStopped => Child.killed \/ Child.state = "stopped"
    BY <1>z, <1>a DEF ReadRequest, fuzzer, ServerChild, KillIsKnown
  <2>2. CASE childStopped /\ prevTimedOut
    BY <1>a, <2>1, <2>2 DEF ServerChild, KillIsKnown, Child, KeptStopped, NoneLeft
  <2>3. CASE childStopped /\ ~ prevTimedOut
    BY <1>a, <2>1, <2>3 DEF ServerChild, KillIsKnown, Child, KeptStopped, NoneLeft
  <2>4. CASE ~ childStopped
    BY <1>a, <2>1, <2>4 DEF ServerChild, KillIsKnown, Child, KeptStopped, NoneLeft
  <2> QED BY <2>2, <2>3, <2>4
<1>4. (dumb => DumbRunner)'
  BY DEF ReadRequest, fuzzer, server, DumbRunner, NoneLeft
<1>5. Processes'
  BY DEF ReadRequest, fuzzer, server, Processes, ProcSet
<1>6. Running'
  BY DEF ReadRequest, fuzzer, server, Running
<1>7. TimerOwn'
  BY DEF ReadRequest, fuzzer, server, TimerOwn
<1>8. StatusOwn'
  BY DEF ReadRequest, fuzzer, server, StatusOwn, KillOwn, OfRun
<1>9. VerdictIsOwn'
  BY DEF ReadRequest, fuzzer, server, VerdictIsOwn
<1>10. MapOwn'
  BY DEF ReadRequest, fuzzer, server, MapOwn, FailedExec
<1> QED BY <1>1, <1>2, <1>3, <1>4, <1>5, <1>6, <1>7, <1>8, <1>9, <1>10

LEMMA WriteOffInv ==
    ASSUME IInv, WriteOff, UNCHANGED dumb
    PROVE  IInv'
<1> USE PipeFacts, RunsBounded DEF IInv
<1>z. ~ dumb /\ srv # "dead" /\ ~ Gone
  BY DEF WriteOff, Pipes
<1>a. /\ srvChild \in Pids /\ fz = "readPid"
      /\ procs' \in [Pids -> ProcSet]
      /\ Becomes(srvChild, "reaped", procs[srvChild].run, procs[srvChild].end)
  BY <1>z, WhereIsFuzzer, StateEffect DEF WriteOff, ServerChild, KeptStopped, ProcStates
<1>1. TypeOK'
  BY <1>a DEF WriteOff, fuzzer, server, TypeOK
<1>2. Pipes'
  BY DEF WriteOff, fuzzer, server, Pipes, PipesHello, PipesReadPid, PipesReadStatus, OfRun
<1>3. (~ dumb /\ srv # "dead" => ServerChild /\ KillIsKnown)'
  BY <1>z, <1>a DEF WriteOff, fuzzer, server, ServerChild, KillIsKnown, Child, NoneLeft,
       KeptStopped, OfRun
<1>4. (dumb => DumbRunner)'
  BY DEF WriteOff, fuzzer, server, DumbRunner, NoneLeft
<1>5. Processes'
  BY DEF WriteOff, fuzzer, server, Processes, ProcSet
<1>6. Running'
  BY DEF WriteOff, fuzzer, server, Running
<1>7. TimerOwn'
  BY DEF WriteOff, fuzzer, server, TimerOwn
<1>8. StatusOwn'
  BY DEF WriteOff, fuzzer, server, StatusOwn, KillOwn, OfRun
<1>9. VerdictIsOwn'
  BY DEF WriteOff, fuzzer, server, VerdictIsOwn
<1>10. MapOwn'
  BY DEF WriteOff, fuzzer, server, MapOwn, FailedExec
<1> QED BY <1>1, <1>2, <1>3, <1>4, <1>5, <1>6, <1>7, <1>8, <1>9, <1>10

LEMMA ForkInv ==
    ASSUME IInv, Fork, UNCHANGED dumb
    PROVE  IInv'
<1> USE PipeFacts, RunsBounded DEF IInv
<1>z. ~ dumb /\ srv # "dead" /\ ~ Gone
  BY DEF Fork, Pipes
<1>a. /\ fz = "readPid" /\ st = << >> /\ srvChild' \in Pids /\ procs[srvChild'].state = "unborn"
      /\ procs' \in [Pids -> ProcSet]
      /\ Becomes(srvChild', "running", run, procs[srvChild'].end)
  BY <1>z, WhereIsFuzzer, RunEffect DEF Fork, NextPid, Unborn, ProcStates
<1>1. TypeOK'
  BY <1>a DEF Fork, fuzzer, server, TypeOK
<1>2. Pipes'
  BY DEF Fork, fuzzer, server, Pipes, PipesHello, PipesReadPid, PipesReadStatus, OfRun
<1>3. (~ dumb /\ srv # "dead" => ServerChild /\ KillIsKnown)'
  BY <1>z, <1>a DEF Fork, fuzzer, server, ServerChild, KillIsKnown, Child, NoneLeft, KeptStopped,
       OfRun
<1>4. (dumb => DumbRunner)'
  BY <1>z, <1>a DEF Fork, fuzzer, server, DumbRunner, NoneLeft
<1>5. Processes'
  BY <1>z, <1>a DEF Fork, fuzzer, server, Processes, ProcSet
<1>6. Running'
  BY <1>z, <1>a DEF Fork, fuzzer, server, Running
<1>7. TimerOwn'
  BY <1>z, <1>a DEF Fork, fuzzer, server, TimerOwn
<1>8. StatusOwn'
  BY DEF Fork, fuzzer, server, StatusOwn, KillOwn, OfRun
<1>9. VerdictIsOwn'
  BY DEF Fork, fuzzer, server, VerdictIsOwn
<1>10. MapOwn'
  BY <1>z, <1>a DEF Fork, fuzzer, server, MapOwn, FailedExec
<1> QED BY <1>1, <1>2, <1>3, <1>4, <1>5, <1>6, <1>7, <1>8, <1>9, <1>10

LEMMA ForkFailsInv ==
    ASSUME IInv, ForkFails, UNCHANGED dumb
    PROVE  IInv'
<1> USE PipeFacts, RunsBounded DEF IInv
<1>z. ~ dumb /\ srv # "dead" /\ ~ Gone
  BY DEF ForkFails, Pipes
<1>1. TypeOK'
  BY DEF ForkFails, fuzzer, server, TypeOK
<1>2. Pipes'
  BY DEF ForkFails, fuzzer, server, Pipes, PipesHello, PipesReadPid, PipesReadStatus, OfRun
<1>3. (~ dumb /\ srv # "dead" => ServerChild /\ KillIsKnown)'
  BY DEF ForkFails, fuzzer, server, ServerChild, KillIsKnown, Child, NoneLeft, KeptStopped, OfRun
<1>4. (dumb => DumbRunner)'
  BY DEF ForkFails, fuzzer, server, DumbRunner, NoneLeft
<1>5. Processes'
  BY DEF ForkFails, fuzzer, server, Processes, ProcSet
<1>6. Running'
  BY DEF ForkFails, fuzzer, server, Running
<1>7. TimerOwn'
  BY DEF ForkFails, fuzzer, server, TimerOwn
<1>8. StatusOwn'
  BY DEF ForkFails, fuzzer, server, StatusOwn, KillOwn, OfRun
<1>9. VerdictIsOwn'
  BY DEF ForkFails, fuzzer, server, VerdictIsOwn
<1>10. MapOwn'
  BY DEF ForkFails, fuzzer, server, MapOwn, FailedExec
<1> QED BY <1>1, <1>2, <1>3, <1>4, <1>5, <1>6, <1>7, <1>8, <1>9, <1>10

LEMMA ContinueInv ==
    ASSUME IInv, Continue, UNCHANGED dumb
    PROVE  IInv'
<1> USE PipeFacts, RunsBounded DEF IInv
<1>z. ~ dumb /\ srv # "dead" /\ ~ Gone
  BY DEF Continue, Pipes
<1>a. /\ fz = "readPid" /\ st = << >> /\ srvChild \in Pids /\ procs[srvChild].state = "stopped"
      /\ ~ procs[srvChild].killed
      /\ procs' \in [Pids -> ProcSet]
      /\ Becomes(srvChild, "running", run, procs[srvChild].end)
  BY <1>z, WhereIsFuzzer, RunEffect DEF Continue, ServerChild, KeptStopped, Child, ProcStates
<1>1. TypeOK'
  BY <1>a DEF Continue, fuzzer, server, TypeOK
<1>2. Pipes'
  BY DEF Continue, fuzzer, server, Pipes, PipesHello, PipesReadPid, PipesReadStatus, OfRun
<1>3. (~ dumb /\ srv # "dead" => ServerChild /\ KillIsKnown)'
  BY <1>z, <1>a DEF Continue, fuzzer, server, ServerChild, KillIsKnown, Child, NoneLeft,
       KeptStopped, OfRun
<1>4. (dumb => DumbRunner)'
  BY <1>z, <1>a DEF Continue, fuzzer, server, DumbRunner, NoneLeft
<1>5. Processes'
  BY <1>z, <1>a DEF Continue, fuzzer, server, Processes, ProcSet
<1>6. Running'
  BY <1>z, <1>a DEF Continue, fuzzer, server, Running
<1>7. TimerOwn'
  BY <1>z, <1>a DEF Continue, fuzzer, server, TimerOwn
<1>8. StatusOwn'
  BY DEF Continue, fuzzer, server, StatusOwn, KillOwn, OfRun
<1>9. VerdictIsOwn'
  BY DEF Continue, fuzzer, server, VerdictIsOwn
<1>10. MapOwn'
  BY <1>z, <1>a DEF Continue, fuzzer, server, MapOwn, FailedExec
<1> QED BY <1>1, <1>2, <1>3, <1>4, <1>5, <1>6, <1>7, <1>8, <1>9, <1>10

LEMMA WritePidInv ==
    ASSUME IInv, WritePid, UNCHANGED dumb
    PROVE  IInv'
<1> USE PipeFacts, RunsBounded DEF IInv
<1>z. ~ dumb /\ srv # "dead" /\ ~ Gone
  BY DEF WritePid, Pipes
<1>a. /\ fz = "readPid" /\ st = << >> /\ st' = <<PidMessage(srvChild)>> /\ srv' = "wait" /\ srvChild \in Pids
  BY <1>z, WhereIsFuzzer DEF WritePid, Send, ServerChild
<1>1. TypeOK'
  BY <1>z, PipeTypes, MessageTypes, <1>a DEF WritePid, fuzzer, server, TypeOK
<1>2. Pipes'
  BY <1>z, PipeTypes, MessageTypes, <1>a DEF WritePid, fuzzer, server, Pipes, PipesHello,
       PipesReadPid, PipesReadStatus, OfRun
<1>3. (~ dumb /\ srv # "dead" => ServerChild /\ KillIsKnown)'
  BY DEF WritePid, fuzzer, server, ServerChild, KillIsKnown, Child, NoneLeft, KeptStopped, OfRun
<1>4. (dumb => DumbRunner)'
  BY DEF WritePid, fuzzer, server, DumbRunner, NoneLeft
<1>5. Processes'
  BY DEF WritePid, fuzzer, server, Processes, ProcSet
<1>6. Running'
  BY <1>z, PipeTypes, MessageTypes, <1>a DEF WritePid, fuzzer, server, Running
<1>7. TimerOwn'
  BY <1>z, PipeTypes, MessageTypes, <1>a DEF WritePid, fuzzer, server, Send, TimerOwn, Pipes,
       PipesHello, PipesReadPid, PipesReadStatus, OfRun, ServerChild, KillIsKnown, Child,
       NoneLeft, KeptStopped, DumbRunner
<1>8. StatusOwn'
  BY <1>z, PipeTypes, MessageTypes, <1>a DEF WritePid, fuzzer, server, StatusOwn, KillOwn, OfRun
<1>9. VerdictIsOwn'
  BY DEF WritePid, fuzzer, server, VerdictIsOwn
<1>10. MapOwn'
  BY DEF WritePid, fuzzer, server, MapOwn, FailedExec
<1> QED BY <1>1, <1>2, <1>3, <1>4, <1>5, <1>6, <1>7, <1>8, <1>9, <1>10

LEMMA WaitInv ==
    ASSUME IInv, Wait, UNCHANGED dumb
    PROVE  IInv'
<1> USE PipeFacts, RunsBounded DEF IInv
<1>z. ~ dumb /\ srv # "dead" /\ ~ Gone
  BY DEF Wait, Pipes
<1>a. /\ srvChild \in Pids /\ fz \in Began /\ procs[srvChild].run = run /\ ~ childStopped
      /\ srv = "wait" /\ srv' = "writeStatus"
      /\ (fz = "readPid" => st = <<PidMessage(srvChild)>>) /\ (fz = "readStatus" => st = << >>)
  <2>1. srv = "wait" /\ srv' = "writeStatus"
    BY DEF Wait
  <2>2. srvChild \in Pids /\ procs[srvChild].run = run /\ ~ childStopped
    BY <1>z, <2>1 DEF ServerChild, Child
  <2>3. \/ fz = "readPid" /\ st = <<PidMessage(srvChild)>>
        \/ fz = "readStatus" /\ st = << >>
    BY <1>z, <2>1, WhereIsFuzzer
  <2> QED BY <2>1, <2>2, <2>3
<1>b. \/ /\ procs[srvChild].state = "zombie" /\ procs' \in [Pids -> ProcSet] /\ ~ childStopped'
         /\ Becomes(srvChild, "reaped", run, procs[srvChild].end)
         /\ srvStatus' = [what |-> "status", pid |-> 0, end |-> procs[srvChild].end, of |-> run]
      \/ /\ procs[srvChild].state = "stopped" /\ UNCHANGED procs /\ childStopped'
         /\ srvStatus' = [what |-> "status", pid |-> 0, end |-> "stopped", of |-> run]
  BY <1>a, StateEffect DEF Wait, Status, ProcStates
<1>c. procs[srvChild] \in ProcSet
  BY <1>a DEF TypeOK
<1>1. TypeOK'
  <2>1. (run \in 0 .. MaxRuns)'
    BY DEF Wait, fuzzer, server, TypeOK
  <2>2. (trace \in SUBSET (0 .. MaxRuns))'
    BY DEF Wait, fuzzer, server, TypeOK
  <2>3. (procs \in [Pids -> ProcSet])'
    BY <1>b DEF Wait, fuzzer, server, TypeOK
  <2>4. (status \in StatusSet /\ srvStatus \in StatusSet /\ verdict \in VerdictSet)'
    BY <1>a, <1>b, <1>c DEF Wait, fuzzer, server, TypeOK, StatusSet, ProcSet, Ends
  <2>5. (ctl \in Seq(BOOLEAN) /\ Len(ctl) <= 1)'
    BY DEF Wait, fuzzer, server, TypeOK
  <2>6. (st \in Seq(MessageSet) /\ Len(st) <= 2)'
    BY DEF Wait, fuzzer, server, TypeOK
  <2> QED BY <2>1, <2>2, <2>3, <2>4, <2>5, <2>6, <1>a, <1>b, <1>c DEF Wait, fuzzer, server, TypeOK
<1>2. Pipes'
  BY DEF Wait, fuzzer, server, Pipes, PipesHello, PipesReadPid, PipesReadStatus, OfRun
<1>3. (~ dumb /\ srv # "dead" => ServerChild /\ KillIsKnown)'
  <2>1. /\ UNCHANGED <<fz, run, srvChild, prevTimedOut, st>>
        /\ \A p \in Pids : procs[p].state \notin {"unborn", "reaped"} => p = srvChild
    BY <1>z DEF Wait, fuzzer, ServerChild
  <2>2. CASE procs[srvChild].state = "zombie" /\ ~ childStopped'
    BY <1>a, <1>b, <2>1, <2>2 DEF Becomes, ServerChild, KillIsKnown, Child, KeptStopped, NoneLeft,
         OfRun
  <2>3. CASE procs[srvChild].state = "stopped" /\ UNCHANGED procs /\ childStopped'
    BY <1>a, <1>b, <2>1, <2>3 DEF ServerChild, KillIsKnown, Child, KeptStopped, NoneLeft, OfRun
  <2> QED BY <1>b, <2>2, <2>3
<1>4. (dumb => DumbRunner)'
  BY <1>z, <1>a, <1>b, <1>c DEF Wait, fuzzer, server, DumbRunner, NoneLeft
<1>5. Processes'
  <2>1. UNCHANGED <<fz, run, timedOut, stopSoon, dumb>>
    BY DEF Wait, fuzzer
  <2>2. \A p \in Pids : procs'[p].run = procs[p].run /\ procs'[p].killed = procs[p].killed
    BY <1>a, <1>b DEF Becomes
  <2>3. \A p \in Pids : \/ procs'[p].state = procs[p].state /\ procs'[p].end = procs[p].end
                       \/ procs'[p].state = "reaped"
    BY <1>a, <1>b DEF Becomes
  <2>4. \A p \in Pids : procs[p].killed /\ procs[p].run = run => timedOut
    BY <1>a DEF Processes
  <2> QED BY <1>a, <2>1, <2>2, <2>3, <2>4 DEF Processes
<1>6. Running'
  BY <1>z, <1>a, <1>b, <1>c DEF Wait, fuzzer, server, Running, Pipes, PipesHello, PipesReadPid,
       PipesReadStatus, OfRun, ServerChild, KillIsKnown, Child, NoneLeft, KeptStopped, DumbRunner,
       Processes, ProcSet, Becomes
<1>7. TimerOwn'
  BY <1>z, <1>a, <1>b, <1>c DEF Wait, fuzzer, server, TimerOwn, Pipes, PipesHello, PipesReadPid,
       PipesReadStatus, OfRun, ServerChild, KillIsKnown, Child, NoneLeft, KeptStopped, DumbRunner,
       Becomes
<1>8. StatusOwn'
  BY <1>z, <1>a, <1>b, <1>c DEF Wait, fuzzer, server, StatusOwn, KillOwn, OfRun, Pipes,
       PipesHello, PipesReadPid, PipesReadStatus, ServerChild, KillIsKnown, Child, NoneLeft,
       KeptStopped, DumbRunner, Processes, ProcSet, Becomes
<1>9. VerdictIsOwn'
  BY DEF Wait, fuzzer, server, VerdictIsOwn
<1>10. MapOwn'
  BY <1>z, <1>a, <1>b, <1>c DEF Wait, fuzzer, server, MapOwn, FailedExec, Pipes, PipesHello,
       PipesReadPid, PipesReadStatus, OfRun, DumbRunner, NoneLeft, Processes, ProcSet, Running,
       Becomes
<1> QED BY <1>1, <1>2, <1>3, <1>4, <1>5, <1>6, <1>7, <1>8, <1>9, <1>10

LEMMA WriteStatusInv ==
    ASSUME IInv, WriteStatus, UNCHANGED dumb
    PROVE  IInv'
<1> USE PipeFacts, RunsBounded DEF IInv
<1>z. ~ dumb /\ srv # "dead" /\ ~ Gone
  BY DEF WriteStatus, Pipes
<1>a. /\ srv' = "read"
      /\ \/ fz = "readPid" /\ st = <<PidMessage(srvChild)>> /\ st' = <<PidMessage(srvChild), srvStatus>>
         \/ fz = "readStatus" /\ st = << >> /\ st' = <<srvStatus>>
  BY <1>z, WhereIsFuzzer DEF WriteStatus, Send, ServerChild
<1>1. TypeOK'
  <2>1. (run \in 0 .. MaxRuns /\ trace \in SUBSET (0 .. MaxRuns))'
    BY DEF WriteStatus, fuzzer, server, TypeOK
  <2>2. (procs \in [Pids -> ProcSet])'
    BY DEF WriteStatus, fuzzer, server, TypeOK
  <2>3. (status \in StatusSet /\ srvStatus \in StatusSet /\ verdict \in VerdictSet)'
    BY DEF WriteStatus, fuzzer, server, TypeOK
  <2>4. (ctl \in Seq(BOOLEAN) /\ Len(ctl) <= 1)'
    BY DEF WriteStatus, fuzzer, server, TypeOK
  <2>5. fz = "readPid" /\ st = <<PidMessage(srvChild)>> => srvChild \in Pids
    BY <1>z, MessageTypes DEF WriteStatus, Pipes, PipesReadPid
  <2>6. (st \in Seq(MessageSet) /\ Len(st) <= 2)'
    <3>1. /\ <<srvStatus>> \in Seq(MessageSet) /\ Len(<<srvStatus>>) <= 2
          /\ srvChild \in Pids => /\ <<PidMessage(srvChild), srvStatus>> \in Seq(MessageSet)
                                 /\ Len(<<PidMessage(srvChild), srvStatus>>) <= 2
      BY WordsTyped
    <3>2. st' = <<srvStatus>> \/ (srvChild \in Pids /\ st' = <<PidMessage(srvChild), srvStatus>>)
      BY <1>a, <2>5
    <3> HIDE DEF IInv
    <3> QED BY <3>1, <3>2
  <2> QED BY <2>1, <2>2, <2>3, <2>4, <2>6 DEF WriteStatus, fuzzer, server, TypeOK
<1>2. Pipes'
  BY <1>z, PipeTypes, MessageTypes, <1>a DEF WriteStatus, fuzzer, server, Send, Pipes, PipesHello,
       PipesReadPid, PipesReadStatus, OfRun, ServerChild, KillIsKnown, Child, NoneLeft,
       KeptStopped
<1>3. (~ dumb /\ srv # "dead" => ServerChild /\ KillIsKnown)'
  BY <1>z, PipeTypes, MessageTypes, <1>a DEF WriteStatus, fuzzer, server, ServerChild,
       KillIsKnown, Child, NoneLeft, KeptStopped, OfRun
<1>4. (dumb => DumbRunner)'
  BY DEF WriteStatus, fuzzer, server, DumbRunner, NoneLeft
<1>5. Processes'
  BY DEF WriteStatus, fuzzer, server, Processes, ProcSet
<1>6. Running'
  BY <1>z, PipeTypes, MessageTypes, <1>a DEF WriteStatus, fuzzer, server, Send, Running, Pipes,
       PipesHello, PipesReadPid, PipesReadStatus, OfRun, ServerChild, KillIsKnown, Child,
       NoneLeft, KeptStopped, DumbRunner, Processes, ProcSet
<1>7. TimerOwn'
  BY <1>z, PipeTypes, MessageTypes, <1>a DEF WriteStatus, fuzzer, server, TimerOwn
<1>8. StatusOwn'
  BY <1>z, PipeTypes, MessageTypes, <1>a DEF WriteStatus, fuzzer, server, StatusOwn, KillOwn, OfRun
<1>9. VerdictIsOwn'
  BY DEF WriteStatus, fuzzer, server, VerdictIsOwn
<1>10. MapOwn'
  BY DEF WriteStatus, fuzzer, server, MapOwn, FailedExec
<1> QED BY <1>1, <1>2, <1>3, <1>4, <1>5, <1>6, <1>7, <1>8, <1>9, <1>10

LEMMA ExecInv ==
    ASSUME IInv, NEW p \in Pids, Exec(p), UNCHANGED dumb
    PROVE  IInv'
<1> USE PipeFacts, RunsBounded DEF IInv
<1>a. /\ procs[p].state = "forked" /\ ~ procs[p].killed /\ procs' \in [Pids -> ProcSet]
      /\ dumb
      /\ \/ Becomes(p, "running", procs[p].run, procs[p].end) /\ UNCHANGED trace
         \/ Becomes(p, "zombie", procs[p].run, "exit") /\ trace' = trace \cup {0}
  BY StateEffect, EndEffect DEF Exec, Processes, ProcStates, Ends
<1>1. TypeOK'
  BY <1>a DEF Exec, fuzzer, server, TypeOK
<1>2. Pipes'
  BY DEF Exec, fuzzer, server, Pipes, PipesHello, PipesReadPid, PipesReadStatus, OfRun
<1>3. (~ dumb /\ srv # "dead" => ServerChild /\ KillIsKnown)'
  BY <1>a DEF Exec, fuzzer, server, ServerChild, KillIsKnown, Child, NoneLeft, KeptStopped, OfRun
<1>4. (dumb => DumbRunner)'
  <2>1. UNCHANGED <<fz, run, timedOut, stopSoon, srv, childPid>>
    BY DEF Exec, fuzzer, server
  <2>2. CASE Becomes(p, "running", procs[p].run, procs[p].end)
    BY <1>a, <2>1, <2>2 DEF Becomes, DumbRunner, NoneLeft, Processes
  <2>3. CASE Becomes(p, "zombie", procs[p].run, "exit")
    BY <1>a, <2>1, <2>3 DEF Becomes, DumbRunner, NoneLeft, Processes
  <2> QED BY <1>a, <2>2, <2>3
<1>5. Processes'
  <2>1. UNCHANGED <<fz, run, timedOut, stopSoon, srv, childPid>>
    BY DEF Exec, fuzzer, server
  <2>2. CASE Becomes(p, "running", procs[p].run, procs[p].end)
    BY <1>a, <2>1, <2>2 DEF Becomes, Processes, Ends
  <2>3. CASE Becomes(p, "zombie", procs[p].run, "exit")
    BY <1>a, <2>1, <2>3 DEF Becomes, Processes, Ends
  <2> QED BY <1>a, <2>2, <2>3
<1>6. Running'
  BY <1>a DEF Exec, fuzzer, server, Running, Pipes, PipesHello, PipesReadPid, PipesReadStatus,
       OfRun, ServerChild, KillIsKnown, Child, NoneLeft, KeptStopped, DumbRunner, Processes,
       ProcSet, Becomes
<1>7. TimerOwn'
  BY <1>a DEF Exec, fuzzer, server, TimerOwn, Pipes, PipesHello, PipesReadPid, PipesReadStatus,
       OfRun, ServerChild, KillIsKnown, Child, NoneLeft, KeptStopped, DumbRunner, Becomes
<1>8. StatusOwn'
  BY DEF Exec, fuzzer, server, StatusOwn, KillOwn, OfRun
<1>9. VerdictIsOwn'
  BY DEF Exec, fuzzer, server, VerdictIsOwn
<1>10. MapOwn'
  <2>1. UNCHANGED <<fz, run, status>>
    BY DEF Exec, fuzzer
  <2>2. /\ fz \in Began /\ procs[p].run = run /\ trace = {}
        /\ \A q \in Pids : procs[q].run = run => q = p
        /\ \A q \in Pids \ {p} : procs[q].state \in {"unborn", "reaped"}
    BY <1>a DEF DumbRunner, NoneLeft, MapOwn
  <2>3. CASE Becomes(p, "running", procs[p].run, procs[p].end) /\ UNCHANGED trace
    BY <2>1, <2>2, <2>3 DEF Becomes, MapOwn
  <2>4. CASE Becomes(p, "zombie", procs[p].run, "exit") /\ trace' = trace \cup {0}
    <3>1. trace' = {ExecFailSig} /\ dumb'
      BY <1>a, <2>2, <2>4
    <3> QED BY <2>1, <2>2, <2>4, <3>1 DEF Becomes, MapOwn, FailedExec
  <2> QED BY <1>a, <2>3, <2>4
<1> QED BY <1>1, <1>2, <1>3, <1>4, <1>5, <1>6, <1>7, <1>8, <1>9, <1>10

LEMMA TouchInv ==
    ASSUME IInv, NEW p \in Pids, Touch(p), UNCHANGED dumb
    PROVE  IInv'
<1> USE PipeFacts, RunsBounded DEF IInv
<1>a. procs[p].run = run
  BY DEF Touch, Running
<1>1. TypeOK'
  BY <1>a DEF Touch, fuzzer, server, TypeOK
<1>2. Pipes'
  BY DEF Touch, fuzzer, server, Pipes, PipesHello, PipesReadPid, PipesReadStatus, OfRun
<1>3. (~ dumb /\ srv # "dead" => ServerChild /\ KillIsKnown)'
  BY DEF Touch, fuzzer, server, ServerChild, KillIsKnown, Child, NoneLeft, KeptStopped, OfRun
<1>4. (dumb => DumbRunner)'
  BY DEF Touch, fuzzer, server, DumbRunner, NoneLeft
<1>5. Processes'
  BY DEF Touch, fuzzer, server, Processes, ProcSet
<1>6. Running'
  BY DEF Touch, fuzzer, server, Running
<1>7. TimerOwn'
  BY DEF Touch, fuzzer, server, TimerOwn
<1>8. StatusOwn'
  BY DEF Touch, fuzzer, server, StatusOwn, KillOwn, OfRun
<1>9. VerdictIsOwn'
  BY DEF Touch, fuzzer, server, VerdictIsOwn
<1>10. MapOwn'
  BY <1>a DEF Touch, fuzzer, server, MapOwn, FailedExec, Pipes, PipesHello, PipesReadPid,
       PipesReadStatus, OfRun, DumbRunner, NoneLeft, Processes, ProcSet, Running
<1> QED BY <1>1, <1>2, <1>3, <1>4, <1>5, <1>6, <1>7, <1>8, <1>9, <1>10

LEMMA EndInv ==
    ASSUME IInv, NEW p \in Pids, End(p), UNCHANGED dumb
    PROVE  IInv'
<1> USE PipeFacts, RunsBounded DEF IInv
<1>a. /\ procs[p].state = "running" /\ ~ procs[p].killed /\ procs' \in [Pids -> ProcSet]
      /\ \E e \in Ends \ {"kill"} : Becomes(p, "zombie", procs[p].run, e)
  BY EndEffect DEF End, ProcStates, Ends
<1>1. TypeOK'
  BY <1>a DEF End, fuzzer, server, TypeOK
<1>2. Pipes'
  BY DEF End, fuzzer, server, Pipes, PipesHello, PipesReadPid, PipesReadStatus, OfRun
<1>3. (~ dumb /\ srv # "dead" => ServerChild /\ KillIsKnown)'
  BY <1>a DEF End, fuzzer, server, ServerChild, KillIsKnown, Child, NoneLeft, KeptStopped, OfRun
<1>4. (dumb => DumbRunner)'
  BY <1>a DEF End, fuzzer, server, DumbRunner, NoneLeft
<1>5. Processes'
  BY <1>a DEF End, fuzzer, server, Processes, ProcSet
<1>6. Running'
  BY <1>a DEF End, fuzzer, server, Running
<1>7. TimerOwn'
  BY <1>a DEF End, fuzzer, server, TimerOwn, Pipes, PipesHello, PipesReadPid, PipesReadStatus,
       OfRun, ServerChild, KillIsKnown, Child, NoneLeft, KeptStopped, DumbRunner, Becomes
<1>8. StatusOwn'
  BY DEF End, fuzzer, server, StatusOwn, KillOwn, OfRun
<1>9. VerdictIsOwn'
  BY DEF End, fuzzer, server, VerdictIsOwn
<1>10. MapOwn'
  BY <1>a DEF End, fuzzer, server, MapOwn, FailedExec
<1> QED BY <1>1, <1>2, <1>3, <1>4, <1>5, <1>6, <1>7, <1>8, <1>9, <1>10

LEMMA StopItselfInv ==
    ASSUME IInv, NEW p \in Pids, StopItself(p), UNCHANGED dumb
    PROVE  IInv'
<1> USE PipeFacts, RunsBounded DEF IInv
<1>a. /\ procs[p].state = "running" /\ ~ procs[p].killed /\ procs' \in [Pids -> ProcSet]
      /\ Becomes(p, "stopped", procs[p].run, procs[p].end)
  BY StateEffect DEF StopItself, ProcStates
<1>1. TypeOK'
  BY <1>a DEF StopItself, fuzzer, server, TypeOK
<1>2. Pipes'
  BY DEF StopItself, fuzzer, server, Pipes, PipesHello, PipesReadPid, PipesReadStatus, OfRun
<1>3. (~ dumb /\ srv # "dead" => ServerChild /\ KillIsKnown)'
  BY DEF StopItself, fuzzer, server, ServerChild, KillIsKnown, Child, NoneLeft, KeptStopped, OfRun
<1>4. (dumb => DumbRunner)'
  BY DEF StopItself, fuzzer, server, DumbRunner, NoneLeft
<1>5. Processes'
  BY DEF StopItself, fuzzer, server, Processes, ProcSet
<1>6. Running'
  BY DEF StopItself, fuzzer, server, Running
<1>7. TimerOwn'
  BY DEF StopItself, fuzzer, server, TimerOwn
<1>8. StatusOwn'
  BY DEF StopItself, fuzzer, server, StatusOwn, KillOwn, OfRun
<1>9. VerdictIsOwn'
  BY DEF StopItself, fuzzer, server, VerdictIsOwn
<1>10. MapOwn'
  BY DEF StopItself, fuzzer, server, MapOwn, FailedExec
<1> QED BY <1>1, <1>2, <1>3, <1>4, <1>5, <1>6, <1>7, <1>8, <1>9, <1>10

LEMMA DieInv ==
    ASSUME IInv, NEW p \in Pids, Die(p), UNCHANGED dumb
    PROVE  IInv'
<1> USE PipeFacts, RunsBounded DEF IInv
<1>a. /\ procs[p].state \in Alive /\ procs[p].killed /\ procs' \in [Pids -> ProcSet]
      /\ Becomes(p, "zombie", procs[p].run, "kill")
  BY EndEffect DEF Die, ProcStates, Ends
<1>1. TypeOK'
  BY <1>a DEF Die, fuzzer, server, TypeOK
<1>2. Pipes'
  BY DEF Die, fuzzer, server, Pipes, PipesHello, PipesReadPid, PipesReadStatus, OfRun
<1>3. (~ dumb /\ srv # "dead" => ServerChild /\ KillIsKnown)'
  BY <1>a DEF Die, fuzzer, server, ServerChild, KillIsKnown, Child, NoneLeft, KeptStopped, OfRun
<1>4. (dumb => DumbRunner)'
  BY <1>a DEF Die, fuzzer, server, DumbRunner, NoneLeft
<1>5. Processes'
  BY <1>a DEF Die, fuzzer, server, Processes, ProcSet
<1>6. Running'
  BY <1>a DEF Die, fuzzer, server, Running
<1>7. TimerOwn'
  BY <1>a DEF Die, fuzzer, server, TimerOwn, Pipes, PipesHello, PipesReadPid, PipesReadStatus,
       OfRun, ServerChild, KillIsKnown, Child, NoneLeft, KeptStopped, DumbRunner, Becomes
<1>8. StatusOwn'
  BY DEF Die, fuzzer, server, StatusOwn, KillOwn, OfRun
<1>9. VerdictIsOwn'
  BY DEF Die, fuzzer, server, VerdictIsOwn
<1>10. MapOwn'
  BY <1>a DEF Die, fuzzer, server, MapOwn, FailedExec
<1> QED BY <1>1, <1>2, <1>3, <1>4, <1>5, <1>6, <1>7, <1>8, <1>9, <1>10

-----------------------------------------------------------------------------
(* The invariant holds always.                                             *)
LEMMA InvInit == Init => IInv
<1> SUFFICES ASSUME Init PROVE IInv
  OBVIOUS
<1>1. TypeOK
  <2>1. status \in StatusSet /\ srvStatus \in StatusSet
    BY RunsBounded DEF Init, Status, StatusSet, Ends
  <2>2. verdict \in VerdictSet
    BY RunsBounded DEF Init, Status, Verdict, VerdictSet, Ends
  <2>3. procs \in [Pids -> ProcSet]
    BY RunsBounded DEF Init, ProcSet, Ends
  <2>4. ctl \in Seq(BOOLEAN) /\ Len(ctl) = 0 /\ st \in Seq(MessageSet) /\ Len(st) = 0
    BY PipeFacts DEF Init
  <2>5. /\ fz \in {"hello", "idle"} /\ srv \in {"hello", "dead"} /\ childPid = -1
        /\ timedOut = FALSE /\ prevTimedOut = FALSE /\ armed \in BOOLEAN /\ childStopped = FALSE
        /\ stopSoon = 0 /\ run = 0 /\ srvChild = 0 /\ trace = {}
    BY DEF Init
  <2>6. /\ childPid \in -1 .. MaxRuns /\ run \in 0 .. MaxRuns /\ srvChild \in 0 .. MaxRuns
        /\ stopSoon \in 0 .. 2 /\ trace \in SUBSET (0 .. MaxRuns)
    BY <2>5, RunsBounded
  <2>7. Len(ctl) <= 1 /\ Len(st) <= 2
    BY <2>4
  <2> QED BY <2>1, <2>2, <2>3, <2>4, <2>5, <2>6, <2>7 DEF TypeOK
<1>2. /\ fz = IF dumb THEN "idle" ELSE "hello"
      /\ srv = IF dumb THEN "dead" ELSE "hello"
      /\ dumb \in BOOLEAN /\ childPid = -1 /\ run = 0 /\ stopSoon = 0 /\ armed = ~ dumb /\ ~ childStopped
      /\ ctl = << >> /\ st = << >> /\ trace = {}
      /\ \A p \in Pids : procs[p] = [state |-> "unborn", run |-> 0, killed |-> FALSE, end |-> "none"]
  BY DEF Init
<1>3. Pipes
  BY <1>2 DEF Pipes, PipesHello
<1>4. ServerChild /\ KillIsKnown
  BY <1>2 DEF ServerChild, KillIsKnown, NoneLeft
<1>5. DumbRunner \/ ~ dumb
  BY <1>2 DEF DumbRunner, NoneLeft
<1>6. Processes /\ Running
  BY <1>2 DEF Processes, Running
<1>7. TimerOwn /\ StatusOwn
  <2>1. fz \in {"hello", "idle"} /\ srv # "writeStatus" /\ childPid = -1 /\ run = 0
    BY <1>2
  <2>2. armed => fz = "hello"
    BY <1>2
  <2>3. TimerOwn
    BY <2>1, <2>2, RunsBounded DEF TimerOwn
  <2>4. StatusOwn
    BY <2>1 DEF StatusOwn
  <2> QED BY <2>3, <2>4
<1>8. VerdictIsOwn
  BY DEF Init, Verdict, Status, VerdictIsOwn
<1>9. MapOwn
  BY <1>2 DEF MapOwn
<1> QED BY <1>1, <1>3, <1>4, <1>5, <1>6, <1>7, <1>8, <1>9 DEF IInv

LEMMA InvNext == IInv /\ [Next]_vars => IInv'
<1> SUFFICES ASSUME IInv, [Next]_vars PROVE IInv'
  OBVIOUS
<1>1. CASE Fuzzer
  BY <1>1, ReadHelloInv, HandshakeFailsInv, DisarmHelloInv, BeginRunInv, WriteRequestInv,
       ReadPidInv, ReadStatusInv, ForkRunnerInv, AssignPidInv, WaitRunnerInv, SettleInv, JudgeInv,
       LookAtStopInv, LeaveInv, WaitServerInv
     DEF Fuzzer
<1>2. CASE Timer
  BY <1>2, AlarmInv DEF Timer
<1>3. CASE Stop
  BY <1>3, StopProgrammaticallyInv, StopSignalInv DEF Stop
<1>4. CASE Server
  BY <1>4, SendHelloInv, ReadRequestInv, WriteOffInv, ForkInv, ForkFailsInv, ContinueInv,
       WritePidInv, WaitInv, WriteStatusInv
     DEF Server
<1>5. ASSUME NEW p \in Pids, Process(p) PROVE IInv'
  BY <1>5, ExecInv, TouchInv, EndInv, StopItselfInv, DieInv DEF Process
<1>6. CASE Over \/ UNCHANGED vars
  <2>1. UNCHANGED <<dumb, fz, childPid, timedOut, prevTimedOut, armed, stopSoon, run, status, verdict,
                    srv, srvChild, childStopped, srvStatus, ctl, st, procs, trace>>
    BY <1>6 DEF Over, vars, fuzzer, server
  <2>2. (TypeOK /\ Pipes /\ Processes /\ Running)'
    BY <2>1 DEF IInv, TypeOK, Pipes, PipesHello, PipesReadPid, PipesReadStatus, OfRun, Processes,
         Running
  <2>3. (~ dumb /\ srv # "dead" => ServerChild /\ KillIsKnown)' /\ (dumb => DumbRunner)'
    BY <2>1 DEF IInv, ServerChild, KillIsKnown, Child, KeptStopped, NoneLeft, OfRun, DumbRunner
  <2>4. (TimerOwn /\ StatusOwn /\ VerdictIsOwn /\ MapOwn)'
    BY <2>1 DEF IInv, TimerOwn, StatusOwn, KillOwn, OfRun, VerdictIsOwn, MapOwn, FailedExec
  <2> QED BY <2>2, <2>3, <2>4 DEF IInv
<1> QED BY <1>1, <1>2, <1>3, <1>4, <1>5, <1>6 DEF Next

LEMMA InvAlways == Spec => []IInv
BY InvInit, InvNext, PTL DEF Spec

-----------------------------------------------------------------------------
(* What it gives.                                                          *)

(* The variables keep their types: no pipe ever holds more than the two    *)
(* words of one run, and no more than one request.                         *)
THEOREM TypeCorrect == Spec => []TypeOK
<1>1. IInv => TypeOK
  BY DEF IInv
<1> QED BY <1>1, InvAlways, PTL

(* afl-fuzz takes each word of the status pipe for what it is, and the     *)
(* status it judges is that of the run under way, whatever was stopped,    *)
(* killed or written off before.                                           *)
THEOREM StatusAlwaysOwn == Spec => []StatusIsOwn
<1>1. ASSUME IInv PROVE StatusIsOwn
  <2>1. ASSUME fz = "hello", st # << >> PROVE Head(st).what = "hello"
    BY <1>1, <2>1, PipeFacts DEF IInv, Pipes, PipesHello, Hello
  <2>2. ASSUME fz = "readPid", st # << >> PROVE Head(st).what = "pid" /\ Head(st).pid \in Pids
    <3>1. /\ srvChild \in Pids
          /\ st = <<PidMessage(srvChild)>> \/ st = <<PidMessage(srvChild), srvStatus>>
      BY <1>1, <2>2 DEF IInv, Pipes, PipesReadPid
    <3>2. Head(st) = PidMessage(srvChild)
      BY <3>1, PipeFacts
    <3> QED BY <3>1, <3>2 DEF PidMessage
  <2>3. ASSUME fz = "readStatus", st # << >> PROVE Head(st).what = "status" /\ Head(st).of = run
    BY <1>1, <2>3, PipeFacts DEF IInv, Pipes, PipesReadStatus, OfRun
  <2>4. ASSUME fz \in {"settle", "judge"} PROVE status.what = "status" /\ status.of = run
    BY <1>1, <2>4 DEF IInv, StatusOwn, OfRun
  <2> QED BY <2>1, <2>2, <2>3, <2>4 DEF StatusIsOwn
<1> QED BY <1>1, InvAlways, PTL

(* A verdict rests on what the process of its own run did: a crash is not  *)
(* the SIGKILL that afl-fuzz sent in this run or after the previous one.   *)
THEOREM VerdictAlwaysOwn == Spec => []VerdictIsOwn
<1>1. IInv => VerdictIsOwn
  BY DEF IInv
<1> QED BY <1>1, InvAlways, PTL

(* The map that run_target classifies holds marks of this run only, or the *)
(* sign that execv failed.                                                 *)
THEOREM TraceAlwaysOwn == Spec => []TraceIsOwn
<1>1. IInv => TraceIsOwn
  BY DEF IInv, MapOwn, FailedExec, TraceIsOwn
<1> QED BY <1>1, InvAlways, PTL

(* The server forks a process only after the last one is reaped.           *)
THEOREM OneRunnerAlways == Spec => []OneRunner
<1>1. ASSUME IInv PROVE OneRunner
  <2> SUFFICES ASSUME srv # "dead" PROVE Cardinality(Unreaped) <= 1
    BY DEF OneRunner
  <2>1. ~ dumb
    BY <1>1 DEF IInv, Pipes
  <2>2. Unreaped \subseteq {srvChild}
    BY <1>1, <2>1 DEF IInv, ServerChild, Unreaped
  <2>3. Unreaped = {} \/ Unreaped = {srvChild}
    BY <2>2
  <2>4. Cardinality({}) = 0
    BY FS_EmptySet
  <2>5. Cardinality({srvChild}) = 1
    BY FS_Singleton
  <2> QED BY <2>3, <2>4, <2>5
<1> QED BY <1>1, InvAlways, PTL

(* The timer never kills a process that serves another run than the one it *)
(* was set for.                                                            *)
THEOREM AlarmAlwaysOwn == Spec => AlarmHitsOwnRun
<1>1. ASSUME IInv, Alarm, NEW p \in Pids, procs'[p].killed, ~ procs[p].killed
      PROVE  procs[p].run = run
  <2>1. TypeOK /\ TimerOwn
    BY <1>1 DEF IInv
  <2>2. armed /\ (procs' = Kill(procs, childPid) \/ UNCHANGED procs)
    BY <1>1 DEF Alarm
  <2>3. p = childPid
    <3>1. CASE procs' = Kill(procs, childPid)
      <4>1. childPid \in Int
        BY <2>1 DEF TypeOK
      <4>2. procs'[p].killed <=> procs[p].killed \/ (p = childPid /\ procs[p].state \in Alive)
        BY <2>1, <3>1, <4>1, KillEffect
      <4> QED BY <1>1, <4>2
    <3>2. CASE UNCHANGED procs
      BY <1>1, <3>2
    <3> QED BY <2>2, <3>1, <3>2
  <2> QED BY <2>1, <2>2, <2>3 DEF TimerOwn
<1>2. IInv /\ [Next]_vars =>
        [Alarm => \A p \in Pids : procs'[p].killed /\ ~ procs[p].killed => procs[p].run = run]_vars
  BY <1>1
<1> QED BY <1>2, InvAlways, PTL DEF Spec, AlarmHitsOwnRun
=============================================================================
