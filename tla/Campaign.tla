------------------------------- MODULE Campaign -------------------------------
(***************************************************************************)
(* The campaign of one afl-fuzz instance: the queue and its calibration,   *)
(* the coverage maps, the favoured entries, and what is saved of each run  *)
(* of the target.  The program is sequential; it is cut into steps at the  *)
(* runs of the target, where a stop signal can make a difference.          *)
(*                                                                         *)
(* Abstracted: an input is what its runs do.  Any run may end in any way   *)
(* and touch any map, so a target may be as flaky as it likes.  A checksum *)
(* is the map itself.  Which mutation a stage tries, the random choice of  *)
(* skipping an entry, clocks and pure statistics are left out.             *)
(***************************************************************************)
EXTENDS Integers, Sequences, FiniteSets

CONSTANTS
    NumEdges,       \* MAP_SIZE
    Costs,          \* values of exec_us * len
    SkipQueue,      \* 10: up to this length no entry is skipped for not being favoured
    CalCycles, CalCyclesLong, CalChances, TmoutLimit,
    KeepUniqueHang, KeepUniqueCrash,
    Configs         \* command lines, and what the target and the user do:
                    \*   verdicts  the verdicts its runs can have
                    \*   flaky     the map may change from run to run of an input
                    \*   signal    the user sends a stop signal
                    \*   maps      what they leave in the map: edge -> 0 .. 255
                    \*   seeds     number of files in the input directory
                    \*   room      bound: entries in the queue

ASSUME EdgesBounded == NumEdges \in Nat \ {0}
ASSUME CostsTyped == Costs \subseteq Nat
ASSUME LimitsTyped ==
    /\ CalCycles \in Nat \ {0} /\ CalCyclesLong \in Nat /\ CalCycles <= CalCyclesLong
    /\ CalChances \in Nat \ {0} /\ TmoutLimit \in Nat /\ SkipQueue \in Nat
    /\ KeepUniqueHang \in Nat /\ KeepUniqueCrash \in Nat
ASSUME ConfigsTyped ==
    \A c \in Configs :
        /\ c.crashMode \in {"none", "crash"} /\ c.exit \in {"never", "one", "done", "crash"}
        /\ {c.dumb, c.tolerant, c.skipCrashes, c.rerun, c.sync, c.importFirst, c.signal, c.flaky} \subseteq BOOLEAN
        /\ c.verdicts \subseteq {"none", "tmout", "crash", "nonterm", "error"}
        /\ c.maps \subseteq [1 .. NumEdges -> 0 .. 255]
        /\ c.seeds \in Nat \ {0} /\ c.room \in Nat

VARIABLES
    config,
    pc,                 \* where the program is
    cur,                \* queue_cur as a position, 0 for NULL
    seekTo,             \* seek_to
    queue,              \* the queue entries
    top,                \* top_rated: positions, 0 for none
    virgin,             \* virgin_bits, virgin_tmout, virgin_crash
    varBytes,           \* var_bytes
    scoreChanged,       \* score_changed
    pendingFavored, pendingNotFuzzed,
    calibrated,         \* total_cal_cycles > 0
    trace,              \* trace_bits, classified
    ranAs,              \* history: how the run that filled trace_bits ended
    fault,              \* the fault save_if_interesting was called with
    after,              \* where save_if_interesting returns to
    cal,                \* the locals of calibrate_case
    subseqTmouts,       \* subseq_tmouts
    det,                \* the deterministic stages are being done
    hangs, crashes,     \* unique_hangs, unique_crashes
    totalCrashes,       \* total_crashes > 0
    files,              \* the files in the output directory
    stopSoon            \* stop_soon

entry == <<cur, seekTo, subseqTmouts, det>>
rating == <<top, scoreChanged, calibrated>>
seen == <<virgin, varBytes>>
counters == <<pendingFavored, pendingNotFuzzed>>
run == <<trace, ranAs>>
call == <<fault, after>>
findings == <<hangs, crashes, totalCrashes>>
vars == <<config, pc, entry, queue, rating, seen, counters, run, call, cal, findings, files, stopSoon>>

-----------------------------------------------------------------------------
(* The maps. *)

Edge == 1 .. NumEdges
Classes == {1, 2, 4, 8, 16, 32, 64, 128}

(* count_class_lookup8, through which classify_counts sends every byte *)
Classify(n) ==
    CASE n = 0 -> 0
      [] n = 1 -> 1
      [] n = 2 -> 2
      [] n = 3 -> 4
      [] n \in 4 .. 7 -> 8
      [] n \in 8 .. 15 -> 16
      [] n \in 16 .. 31 -> 32
      [] n \in 32 .. 127 -> 64
      [] OTHER -> 128

Empty == [e \in Edge |-> 0]
Unknown == [e \in Edge |-> -1]          \* exec_cksum = 0
Hit(t) == {e \in Edge : t[e] # 0}

Simplify(t) == [e \in Edge |-> IF t[e] = 0 THEN 1 ELSE 128]

(* A virgin map holds, for each edge, the bits that no run has set yet. *)
HasNewBits(map, t) ==
    IF \E e \in Hit(t) : map[e] = Classes THEN 2
    ELSE IF \E e \in Edge : t[e] \in map[e] THEN 1
    ELSE 0
Cleared(map, t) == [e \in Edge |-> map[e] \ {t[e]}]

Larger(a, b) == IF a > b THEN a ELSE b

-----------------------------------------------------------------------------
(* Files.  of: how the run ended whose map decided that the file is kept. *)

File(dir, id) == [dir |-> dir, id |-> id, of |-> "none"]
Kept(dir, id) == [dir |-> dir, id |-> id, of |-> ranAs]
Exists(f) == \E g \in files : g.dir = f.dir /\ g.id = f.id

(* open(O_CREAT | O_EXCL), and what follows if it succeeds *)
CreateThen(f, next) ==
    IF Exists(f) THEN pc' = "pfatal" /\ UNCHANGED files
    ELSE pc' = next /\ files' = files \cup {f}

-----------------------------------------------------------------------------
(* Queue entries.  mini = {} stands for trace_mini = 0; tried and late are  *)
(* history: a mutation of the entry was run, a calibration of it failed.    *)

NewEntry(passedDet, cksum) ==
    [passedDet |-> passedDet, wasFuzzed |-> FALSE, favored |-> FALSE, redundant |-> FALSE,
     variable |-> FALSE, trimDone |-> FALSE, calFailed |-> 0, cksum |-> cksum,
     factor |-> 0, refs |-> 0, mini |-> {}, tried |-> FALSE, late |-> FALSE]

Positions == 1 .. Len(queue)

(* update_bitmap_score(q) after q's exec_us * len became cost and the map t. *)
(* The loop runs over the edges in order; q may hold slots already, and a   *)
(* slot it holds is taken from it and given back.                           *)
\* fault: a slot without a winner is never taken
WonFromOthers(q, cost, t) == {e \in Hit(t) : top[e] # 0 /\ cost <= queue[top[e]].factor}
Won(q, cost, t) == {e \in Hit(t) : top[e] \in {0, q} \/ cost <= queue[top[e]].factor}
Lost(o, won) == {e \in won : top[e] = o}
Held(q) == {e \in Edge : top[e] = q}

\* fault: the slots q already holds are counted again
GainedAnew(q, won) == Cardinality(won)
Gained(q, won) == Cardinality(won \ Held(q))

Refreshed(q, won) ==
    /\ won # {}
    /\ \/ queue[q].refs = 0
       \/ queue[q].refs = 1 /\ \E e \in Held(q) \cap won : \A d \in won : e <= d

Scored(q, cost, t) ==
    LET won == Won(q, cost, t) IN
    [o \in Positions |->
        IF o = q
        THEN [queue[q] EXCEPT !.factor = cost,
                 !.refs = @ + Gained(q, won),
                 !.mini = IF Refreshed(q, won) THEN Hit(t) ELSE @]
        ELSE [queue[o] EXCEPT !.refs = @ - Cardinality(Lost(o, won)),
                 !.mini = IF Lost(o, won) # {} /\ queue[o].refs = Cardinality(Lost(o, won))
                          THEN {} ELSE @]]

TopAfter(q, won) == [e \in Edge |-> IF e \in won THEN q ELSE top[e]]

(* cull_queue: the winners, in the order of the edges, of what is not yet    *)
(* covered; and the counter of those that were not fuzzed.                  *)
Sweep[e \in 0 .. NumEdges] ==
    IF e = 0 THEN [left |-> Edge, winners |-> {}, pending |-> 0]
    ELSE LET p == Sweep[e - 1] IN
         IF top[e] = 0 \/ e \notin p.left THEN p
         ELSE [left |-> p.left \ queue[top[e]].mini,
               winners |-> p.winners \cup {top[e]},
               pending |-> p.pending + IF queue[top[e]].wasFuzzed THEN 0 ELSE 1]
Culled == Sweep[NumEdges]

Marks(dir, S) == {File(dir, q) : q \in S}

(* mark_as_redundant stops the program if a mark is there, or is missing. *)
CullQueue(next) ==
    IF config.dumb \/ ~scoreChanged
    THEN pc' = next /\ UNCHANGED <<queue, scoreChanged, pendingFavored, files>>
    ELSE LET favored == Culled.winners
             marked == {q \in Positions : q \notin favored /\ ~queue[q].redundant}
             unmarked == {q \in Positions : q \in favored /\ queue[q].redundant}
         IN  /\ pc' = IF \/ \E f \in Marks("redundant_edges", marked) : Exists(f)
                         \/ \E f \in Marks("redundant_edges", unmarked) : ~Exists(f)
                      THEN "pfatal" ELSE next
             /\ scoreChanged' = FALSE
             /\ pendingFavored' = Culled.pending
             /\ queue' = [q \in Positions |->
                            [queue[q] EXCEPT !.favored = q \in favored,
                                             !.redundant = q \notin favored]]
             /\ files' = (files \ Marks("redundant_edges", unmarked))
                             \cup Marks("redundant_edges", marked)

-----------------------------------------------------------------------------
(* calibrate_case.  cal holds its locals and where it returns to; res is its *)
(* result, "run" until it has one.                                          *)

Idle == [q |-> 0, return |-> "none", stage |-> 0, max |-> 0, first |-> Unknown,
         newBits |-> 0, variable |-> FALSE, firstRun |-> FALSE, res |-> "none"]

(* The beginning, for entry q of a queue that the caller may have changed. *)
StartCalibration(newQueue, q, return) ==
    LET cksum == newQueue[q].cksum IN
    /\ queue' = [newQueue EXCEPT ![q].calFailed = @ + 1]
    /\ cal' = [Idle EXCEPT !.q = q, !.return = return, !.max = CalCycles, !.res = "run",
                           !.firstRun = cksum = Unknown,
                           !.first = IF cksum = Unknown THEN Unknown ELSE trace,
                           !.newBits = IF cksum = Unknown THEN 0
                                       ELSE HasNewBits(virgin.bits, trace)]
    /\ pc' = "calibrate"

(* One run of the target: its verdict and the map it leaves.  In dumb mode   *)
(* the target does not know the map.  A run that could not be started leaves *)
(* an empty one.                                                            *)
RunTarget(f) ==
    /\ \E raw \in config.maps \cup {Empty} :
         /\ config.dumb \/ f = "error" => raw = Empty
         /\ trace' = [e \in Edge |-> Classify(raw[e])]
    /\ ranAs' = f

(* run_target clears the map first.  Where nobody reads it any more before    *)
(* the next run, the model forgets it.                                      *)
Forget == trace' = Empty /\ ranAs' = "none"

(* The verdicts this target gives rise to. *)
Verdicts == config.verdicts

Aborts(f) == stopSoon \/ f # config.crashMode

CalibrationAborts ==
    /\ pc = "calibrate"
    /\ cal.res = "run"
    /\ \E f \in Verdicts :
         /\ RunTarget(f)
         /\ \/ Aborts(f) /\ cal' = [cal EXCEPT !.res = f]
            \/ /\ ~Aborts(f)
               /\ ~config.dumb /\ cal.stage = 0 /\ trace' = Empty
               /\ cal' = [cal EXCEPT !.res = "noinst"]
    /\ queue' = [queue EXCEPT ![cal.q].late = TRUE]
    /\ pc' = "calibrated"
    /\ UNCHANGED <<config, entry, rating, seen, counters, call, findings, files, stopSoon>>

CalibrationRun ==
    /\ pc = "calibrate"
    /\ cal.res = "run"
    /\ RunTarget(config.crashMode)
    /\ ~stopSoon
    /\ config.dumb \/ cal.stage > 0 \/ trace' # Empty
    /\ config.flaky \/ cal.first \in {Unknown, trace'}
    /\ LET cksum == queue[cal.q].cksum
           differs == cksum # trace'
           known == cksum # Unknown
           newVar == {e \in Edge \ varBytes : cal.first[e] # trace'[e]}
           max == IF differs /\ known /\ newVar # {} THEN CalCyclesLong ELSE cal.max
       IN  /\ virgin' = IF differs THEN [virgin EXCEPT !.bits = Cleared(@, trace')] ELSE virgin
           /\ varBytes' = IF differs /\ known THEN varBytes \cup newVar ELSE varBytes
           /\ queue' = IF known THEN queue ELSE [queue EXCEPT ![cal.q].cksum = trace']
           /\ cal' = [cal EXCEPT
                        !.stage = @ + 1,
                        !.max = max,
                        !.newBits = IF differs THEN Larger(@, HasNewBits(virgin.bits, trace')) ELSE @,
                        !.variable = @ \/ (differs /\ known),
                        !.first = IF known THEN @ ELSE trace',
                        !.res = IF cal.stage + 1 >= max THEN "done" ELSE "run"]
    /\ UNCHANGED <<config, pc, entry, rating, counters, call, findings, files, stopSoon>>

(* All runs were good: the entry is rated. *)
CalibrationRates ==
    /\ pc = "calibrate"
    /\ cal.res = "done"
    /\ \E cost \in Costs :
         LET won == Won(cal.q, cost, trace) IN
         /\ queue' = [Scored(cal.q, cost, trace) EXCEPT ![cal.q].calFailed = 0]
         /\ top' = TopAfter(cal.q, won)
         /\ scoreChanged' = (scoreChanged \/ won # {})
    /\ calibrated' = TRUE
    /\ cal' = [cal EXCEPT !.res =
                 IF ~config.dumb /\ cal.firstRun /\ config.crashMode = "none" /\ cal.newBits = 0
                 THEN "nobits" ELSE config.crashMode]
    /\ pc' = "calibrated"
    /\ UNCHANGED <<config, entry, seen, counters, run, call, findings, files, stopSoon>>

\* fault: a variable entry is marked at every calibration
MarkedAgain == cal.variable
BecomesVariable == cal.variable /\ ~queue[cal.q].variable

(* abort_calibration: what is done on both ways out. *)
CalibrationReturns ==
    /\ pc = "calibrated"
    /\ IF BecomesVariable
       THEN /\ queue' = [queue EXCEPT ![cal.q].variable = TRUE]
            /\ CreateThen(File("variable_behavior", cal.q), cal.return)
       ELSE pc' = cal.return /\ UNCHANGED <<queue, files>>
    /\ UNCHANGED <<config, entry, rating, seen, counters, run, call, cal, findings, stopSoon>>

-----------------------------------------------------------------------------
(* Startup: read_testcases, pivot_inputs, perform_dry_run. *)

Fresh == [e \in Edge |-> Classes]

Init ==
    /\ config \in Configs
    /\ pc = "dry"
    /\ cur = 1
    /\ seekTo \in 0 .. config.seeds - 1            \* find_start_position
    /\ queue \in {q \in [1 .. config.seeds -> {NewEntry(d, Unknown) : d \in BOOLEAN}] :
                     q[config.seeds].passedDet => q[1].passedDet}
    /\ top = [e \in Edge |-> 0]
    /\ virgin = [bits |-> Fresh, tmout |-> Fresh, crash |-> Fresh]
    /\ varBytes = {}
    /\ scoreChanged = FALSE
    /\ pendingFavored = 0
    /\ pendingNotFuzzed = config.seeds
    /\ calibrated = FALSE
    /\ trace = Empty
    /\ ranAs = "none"
    /\ fault = "none"
    /\ after = "none"
    /\ cal = Idle
    /\ subseqTmouts = 0
    /\ det = FALSE
    /\ hangs = 0
    /\ crashes = 0
    /\ totalCrashes = FALSE
    /\ files = {File("queue", q) : q \in 1 .. config.seeds}
                 \cup {File("deterministic_done", q) : q \in {p \in 1 .. config.seeds : queue[p].passedDet}}
    /\ stopSoon = FALSE

DryRun ==
    /\ pc = "dry"
    /\ StartCalibration(queue, cur, "dryRan")
    /\ UNCHANGED <<config, entry, rating, seen, counters, run, call, findings, files, stopSoon>>

(* The results perform_dry_run goes on after; NON_TERM is not among its cases *)
(* and simply passes.                                                       *)
DryRunSkips ==
    \/ cal.res = "tmout" /\ config.tolerant
    \/ cal.res = "crash" /\ config.crashMode = "none" /\ config.skipCrashes
DryRunPasses ==
    \/ cal.res = "none" /\ config.crashMode = "none"
    \/ cal.res = "crash" /\ config.crashMode = "crash"
    \/ cal.res \in {"nobits", "nonterm"}

DryRunStops ==
    /\ pc = "dryRan"
    /\ IF stopSoon THEN pc' = "ready"
       ELSE ~DryRunSkips /\ ~DryRunPasses /\ pc' = "fatal"
    /\ UNCHANGED <<config, entry, queue, rating, seen, counters, run, call, cal, findings,
                   files, stopSoon>>

DryRunGoesOn ==
    /\ pc = "dryRan"
    /\ ~stopSoon
    /\ DryRunSkips \/ DryRunPasses
    /\ queue' = IF DryRunSkips THEN [queue EXCEPT ![cur].calFailed = CalChances] ELSE queue
    /\ IF cur < Len(queue) THEN pc' = "dry" /\ cur' = cur + 1
       ELSE /\ cur' = 0
            /\ pc' = IF \A q \in Positions : queue'[q].calFailed = CalChances
                     THEN "fatal" ELSE "ready"
    /\ cal' = Idle
    /\ Forget
    /\ UNCHANGED <<config, seekTo, subseqTmouts, det, rating, seen, counters, call, findings,
                   files, stopSoon>>

-----------------------------------------------------------------------------
(* The main loop and the frame of fuzz_one. *)

StartFuzzing ==
    /\ pc = "ready"
    /\ CullQueue(IF stopSoon THEN "end" ELSE "first")
    /\ cur' = 0
    /\ UNCHANGED <<config, seekTo, subseqTmouts, det, top, calibrated, seen, pendingNotFuzzed,
                   run, call, cal, findings, stopSoon>>

(* cull_queue, and at the end of the queue back to its beginning.  The first    *)
(* time, AFL_IMPORT_FIRST lets sync_fuzzers go before fuzz_one.              *)
PickEntry ==
    /\ pc \in {"first", "main"}
    /\ CullQueue(IF pc = "first" /\ config.sync /\ config.importFirst THEN "import" ELSE "entry")
    /\ cur' = IF cur = 0 THEN 1 + seekTo ELSE cur
    /\ seekTo' = 0
    /\ subseqTmouts' = 0
    /\ UNCHANGED <<config, det, top, calibrated, seen, pendingNotFuzzed, run, call, cal,
                   findings, stopSoon>>

MaySkip ==
    IF pendingFavored > 0 THEN queue[cur].wasFuzzed \/ ~queue[cur].favored
    ELSE ~config.dumb /\ ~queue[cur].favored /\ Len(queue) > SkipQueue

SkipEntry ==
    /\ pc = "entry"
    /\ MaySkip
    /\ pc' = "advance"
    /\ UNCHANGED <<config, entry, queue, rating, seen, counters, run, call, cal, findings,
                   files, stopSoon>>

HasChance == queue[cur].calFailed \in 1 .. CalChances - 1

TakeEntry ==
    /\ pc = "entry"
    /\ IF HasChance
       THEN StartCalibration([queue EXCEPT ![cur].cksum = Unknown], cur, "recalibrated")
       ELSE /\ pc' = IF queue[cur].calFailed = 0 THEN "trim" ELSE "abandon"
            /\ UNCHANGED <<queue, cal>>
    /\ UNCHANGED <<config, entry, rating, seen, counters, run, call, findings, files, stopSoon>>

Recalibrated ==
    /\ pc = "recalibrated"
    /\ pc' = IF cal.res = "error" THEN "fatal"
             ELSE IF stopSoon \/ cal.res # config.crashMode THEN "abandon"
             ELSE "trim"
    /\ cal' = Idle
    /\ Forget
    /\ UNCHANGED <<config, entry, queue, rating, seen, counters, call, findings, files, stopSoon>>

(* trim_case with all its runs.  The shorter input is written only if the    *)
(* trimming was not cut short, but its length is kept either way.           *)
TrimSkipped ==
    /\ pc = "trim"
    /\ config.dumb \/ queue[cur].trimDone
    /\ pc' = "score"
    /\ UNCHANGED <<config, entry, queue, rating, seen, counters, run, call, cal, findings,
                   files, stopSoon>>

Trims == pc = "trim" /\ ~config.dumb /\ ~queue[cur].trimDone

TrimAborts ==
    /\ Trims
    /\ \/ stopSoon /\ pc' = "abandon"
       \/ "error" \in Verdicts /\ pc' = "fatal"
    /\ \E cost \in Costs :
         cost <= queue[cur].factor /\ queue' = [queue EXCEPT ![cur].factor = cost]
    /\ UNCHANGED <<config, entry, rating, seen, counters, run, call, cal, findings, files,
                   stopSoon>>

TrimFails ==
    /\ Trims
    /\ ~stopSoon
    /\ pc' = "trimmed"
    /\ UNCHANGED <<config, entry, queue, rating, seen, counters, run, call, cal, findings,
                   files, stopSoon>>

TrimShortens ==
    /\ Trims
    /\ ~stopSoon
    /\ \E cost \in Costs :
         LET won == Won(cur, cost, queue[cur].cksum) IN
         /\ cost <= queue[cur].factor
         /\ queue' = Scored(cur, cost, queue[cur].cksum)
         /\ top' = TopAfter(cur, won)
         /\ scoreChanged' = (scoreChanged \/ won # {})
    /\ pc' = "trimmed"
    /\ Forget
    /\ UNCHANGED <<config, entry, calibrated, seen, counters, call, cal, findings, files,
                   stopSoon>>

(* Back in fuzz_one, a stop since the last run abandons the entry all the same. *)
Trimmed ==
    /\ pc = "trimmed"
    /\ IF stopSoon THEN pc' = "abandon" /\ UNCHANGED queue
       ELSE pc' = "score" /\ queue' = [queue EXCEPT ![cur].trimDone = TRUE]
    /\ UNCHANGED <<config, entry, rating, seen, counters, run, call, cal, findings, files,
                   stopSoon>>

(* calculate_score divides by total_cal_cycles; then the stages begin, the   *)
(* deterministic ones only for an entry they were not done for.             *)
ScoreEntry ==
    /\ pc = "score"
    /\ pc' = IF calibrated THEN "stage" ELSE "sigfpe"
    /\ \E d \in BOOLEAN :
         /\ d => ~queue[cur].wasFuzzed /\ ~queue[cur].passedDet
         /\ det' = d
    /\ queue' = [queue EXCEPT ![cur].tried = TRUE]
    /\ UNCHANGED <<config, cur, seekTo, subseqTmouts, rating, seen, counters, run, call, cal,
                   findings, files, stopSoon>>

(* The bound: no run brings something new once the queue is full. *)
Room(f) == f = config.crashMode /\ HasNewBits(virgin.bits, trace') > 0 => Len(queue) < config.room

(* common_fuzz_stuff *)
RunMutant ==
    /\ pc = "stage"
    /\ \E f \in Verdicts, skipRequested \in BOOLEAN :
         /\ RunTarget(f)
         /\ Room(f)
         /\ LET abandons == \/ stopSoon \/ skipRequested
                            \/ f = "tmout" /\ subseqTmouts > TmoutLimit
            IN  IF abandons THEN pc' = "abandon" /\ UNCHANGED <<call>>
                ELSE pc' = "save" /\ fault' = f /\ after' = "stage"
         /\ subseqTmouts' = IF stopSoon THEN subseqTmouts
                            ELSE IF f = "tmout" THEN subseqTmouts + 1 ELSE 0
    /\ UNCHANGED <<config, cur, seekTo, det, queue, rating, seen, counters, cal, findings,
                   files, stopSoon>>

FinishDeterministic ==
    /\ pc = "stage"
    /\ det
    /\ det' = FALSE
    /\ IF queue[cur].passedDet THEN UNCHANGED <<pc, queue, files>>
       ELSE /\ CreateThen(File("deterministic_done", cur), "stage")
            /\ queue' = [queue EXCEPT ![cur].passedDet = TRUE]
    /\ UNCHANGED <<config, cur, seekTo, subseqTmouts, rating, seen, counters, run, call, cal,
                   findings, stopSoon>>

FinishStages ==
    /\ pc = "stage"
    /\ ~det
    /\ pc' = "finish"
    /\ UNCHANGED <<config, entry, queue, rating, seen, counters, run, call, cal, findings,
                   files, stopSoon>>

\* fault: an entry counts again each time it is left
CountsEachTime == ~stopSoon /\ queue[cur].calFailed = 0
\* fault: an entry counts although the user stopped the campaign
CountsWhenStopped == queue[cur].calFailed = 0 /\ ~queue[cur].wasFuzzed
CountsAsFuzzed == ~stopSoon /\ queue[cur].calFailed = 0 /\ ~queue[cur].wasFuzzed

(* abandon_entry *)
LeaveEntry ==
    /\ pc \in {"abandon", "finish"}
    /\ IF CountsAsFuzzed
       THEN /\ queue' = [queue EXCEPT ![cur].wasFuzzed = TRUE]
            /\ pendingNotFuzzed' = pendingNotFuzzed - 1
            /\ pendingFavored' = IF queue[cur].favored THEN pendingFavored - 1 ELSE pendingFavored
       ELSE UNCHANGED <<queue, counters>>
    /\ \/ pc' = "advance"
       \/ (pc = "finish" /\ ~stopSoon /\ config.sync /\ pc' = "sync")
    /\ det' = FALSE
    /\ UNCHANGED <<config, cur, seekTo, subseqTmouts, rating, seen, run, call, cal, findings,
                   files, stopSoon>>

Advance ==
    /\ pc = "advance"
    /\ IF stopSoon \/ config.exit = "one" THEN pc' = "end" /\ UNCHANGED cur
       ELSE pc' = "main" /\ cur' = IF cur = Len(queue) THEN 0 ELSE cur + 1
    /\ UNCHANGED <<config, seekTo, subseqTmouts, det, queue, rating, seen, counters, run, call,
                   cal, findings, files, stopSoon>>

(* sync_fuzzers runs the inputs of other instances, and returns to main. *)
Importing == pc \in {"sync", "import"}
Imported == IF pc = "sync" THEN "advance" ELSE "entry"

Import ==
    /\ Importing
    /\ \E f \in Verdicts :
         /\ RunTarget(f)
         /\ Room(f)
         /\ IF stopSoon THEN pc' = Imported /\ UNCHANGED <<call>>
            ELSE pc' = "save" /\ fault' = f /\ after' = pc
    /\ UNCHANGED <<config, entry, queue, rating, seen, counters, cal, findings, files, stopSoon>>

ImportEnds ==
    /\ Importing
    /\ pc' = Imported
    /\ UNCHANGED <<config, entry, queue, rating, seen, counters, run, call, cal, findings,
                   files, stopSoon>>

-----------------------------------------------------------------------------
(* save_if_interesting *)

(* Back to the caller. *)
Return ==
    /\ pc' = after
    /\ Forget
    /\ fault' = "none"
    /\ after' = "none"

SaveNothing ==
    /\ pc = "save"
    /\ fault = config.crashMode
    /\ HasNewBits(virgin.bits, trace) = 0
    /\ Return
    /\ totalCrashes' = (totalCrashes \/ config.crashMode = "crash")
    /\ UNCHANGED <<config, entry, queue, rating, seen, counters, cal, hangs, crashes, files,
                   stopSoon>>

(* add_to_queue, and the calibration that follows at once *)
SaveEntry ==
    /\ pc = "save"
    /\ fault = config.crashMode
    /\ HasNewBits(virgin.bits, trace) > 0
    /\ virgin' = [virgin EXCEPT !.bits = Cleared(@, trace)]
    /\ pendingNotFuzzed' = pendingNotFuzzed + 1
    /\ StartCalibration(Append(queue, NewEntry(FALSE, trace)), Len(queue) + 1, "saved")
    /\ UNCHANGED <<config, entry, rating, varBytes, pendingFavored, run, call, findings, files,
                   stopSoon>>

SavedEntry ==
    /\ pc = "saved"
    /\ IF cal.res = "error" THEN pc' = "fatal" /\ UNCHANGED files
       ELSE CreateThen(File("queue", cal.q), "switch")
    /\ cal' = Idle
    /\ UNCHANGED <<config, entry, queue, rating, seen, counters, run, call, findings, stopSoon>>

Switch(f) == fault = f /\ (pc = "switch" \/ (pc = "save" /\ f # config.crashMode))

(* The default case of the switch. *)
KeepNothing ==
    /\ Switch("none")
    /\ Return
    /\ UNCHANGED <<config, entry, queue, rating, seen, counters, cal, findings, files, stopSoon>>

(* simplify_trace and has_new_bits for one of the two other maps; dumb mode   *)
(* keeps everything.                                                        *)
Judged == IF config.dumb THEN trace ELSE Simplify(trace)
IsUnique(map) == config.dumb \/ HasNewBits(map, Judged) > 0
Uniquely(map) == IF config.dumb THEN map ELSE Cleared(map, Judged)

(* open(O_CREAT | O_EXCL) for a finding, the last thing done *)
FileAndReturn(f) ==
    IF Exists(f) THEN pc' = "pfatal" /\ UNCHANGED <<run, call, files>>
    ELSE Return /\ files' = files \cup {f}

HangDropped ==
    /\ Switch("tmout")
    /\ \/ hangs >= KeepUniqueHang /\ UNCHANGED virgin
       \/ /\ hangs < KeepUniqueHang
          /\ ~IsUnique(virgin.tmout)
          /\ virgin' = [virgin EXCEPT !.tmout = Uniquely(@)]
    /\ Return
    /\ UNCHANGED <<config, entry, queue, rating, varBytes, counters, cal, findings, files,
                   stopSoon>>

HangUnique ==
    /\ Switch("tmout")
    /\ hangs < KeepUniqueHang
    /\ IsUnique(virgin.tmout)
    /\ virgin' = [virgin EXCEPT !.tmout = Uniquely(@)]
    /\ pc' = IF config.rerun THEN "rerun" ELSE "genuine"
    /\ trace' = Judged
    /\ UNCHANGED <<config, entry, queue, rating, varBytes, counters, ranAs, call, cal, findings,
                   files, stopSoon>>

\* fault: a crash of the second run is filed as a hang
RerunIsHang(f) == "genuine"
AfterRerun(f) == IF f = "tmout" THEN "genuine" ELSE "keepCrash"

(* The second run, with hang_tmout.  A crash is kept as one; a report of the *)
(* recursion oracle is dropped with everything else that is no timeout.     *)
RerunHang ==
    /\ pc = "rerun"
    /\ \E f \in Verdicts :
         \/ /\ ~stopSoon /\ f \in {"tmout", "crash"}
            /\ RunTarget(f)
            /\ pc' = AfterRerun(f)
            /\ UNCHANGED <<call>>
         \/ (stopSoon \/ f \notin {"tmout", "crash"}) /\ Return
    /\ UNCHANGED <<config, entry, queue, rating, seen, counters, cal, findings, files, stopSoon>>

KeepHang ==
    /\ pc = "genuine"
    /\ FileAndReturn(Kept("hangs", hangs))
    /\ hangs' = hangs + 1
    /\ UNCHANGED <<config, entry, queue, rating, seen, counters, cal, crashes, totalCrashes,
                   stopSoon>>

(* The limit and the uniqueness of crashes, which reports share. *)
Dropped ==
    \/ crashes >= KeepUniqueCrash /\ UNCHANGED virgin
    \/ /\ crashes < KeepUniqueCrash
       /\ ~IsUnique(virgin.crash)
       /\ virgin' = [virgin EXCEPT !.crash = Uniquely(@)]

CrashDropped ==
    /\ Switch("crash") \/ pc = "keepCrash"
    /\ totalCrashes' = TRUE
    /\ Dropped
    /\ Return
    /\ UNCHANGED <<config, entry, queue, rating, varBytes, counters, cal, hangs, crashes, files,
                   stopSoon>>

KeepCrash ==
    /\ Switch("crash") \/ pc = "keepCrash"
    /\ totalCrashes' = TRUE
    /\ crashes < KeepUniqueCrash
    /\ IsUnique(virgin.crash)
    /\ virgin' = [virgin EXCEPT !.crash = Uniquely(@)]
    /\ crashes' = crashes + 1
    /\ FileAndReturn(Kept("crashes", crashes))
    /\ UNCHANGED <<config, entry, queue, rating, varBytes, counters, cal, hangs, stopSoon>>

NonTermDropped ==
    /\ Switch("nonterm")
    /\ Dropped
    /\ Return
    /\ UNCHANGED <<config, entry, queue, rating, varBytes, counters, cal, findings, files,
                   stopSoon>>

(* case NON_TERM: no break, so a unique report ends in FATAL(). *)
KeepNonTerm ==
    /\ Switch("nonterm")
    /\ crashes < KeepUniqueCrash
    /\ IsUnique(virgin.crash)
    /\ virgin' = [virgin EXCEPT !.crash = Uniquely(@)]
    /\ crashes' = crashes + 1
    /\ pc' = "fatal"
    /\ UNCHANGED <<config, entry, queue, rating, varBytes, counters, run, call, cal, hangs,
                   totalCrashes, files, stopSoon>>

KeepError ==
    /\ Switch("error")
    /\ pc' = "fatal"
    /\ UNCHANGED <<config, entry, queue, rating, seen, counters, run, call, cal, findings,
                   files, stopSoon>>

-----------------------------------------------------------------------------
(* SIGINT and SIGTERM, and the environment variables show_stats honours.    *)

Over == {"end", "fatal", "pfatal", "sigfpe"}

Stop ==
    /\ stopSoon' = TRUE
    /\ UNCHANGED <<config, pc, entry, queue, rating, seen, counters, run, call, cal, findings,
                   files>>

StopSignal == config.signal /\ pc \notin Over /\ ~stopSoon /\ Stop

ShowStats ==
    /\ \/ pc \in {"stage", "sync", "import", "trimmed"} \/ Trims
       \/ pc = "calibrate" /\ ~cal.firstRun
       \/ pc \in {"first", "main"} /\ cur = 0
    /\ \/ config.exit = "done" /\ ~config.dumb /\ pendingNotFuzzed = 0
       \/ config.exit = "crash" /\ totalCrashes
    /\ ~stopSoon
    /\ Stop

Calibrate == CalibrationAborts \/ CalibrationRun \/ CalibrationRates \/ CalibrationReturns
Start == DryRun \/ DryRunStops \/ DryRunGoesOn \/ StartFuzzing
Trim == TrimSkipped \/ TrimAborts \/ TrimFails \/ TrimShortens \/ Trimmed
Fuzz == \/ PickEntry \/ SkipEntry \/ TakeEntry \/ Recalibrated \/ ScoreEntry \/ RunMutant
        \/ FinishDeterministic \/ FinishStages \/ LeaveEntry \/ Advance \/ Import \/ ImportEnds
Save == \/ SaveNothing \/ SaveEntry \/ SavedEntry \/ KeepNothing
        \/ HangDropped \/ HangUnique \/ RerunHang \/ KeepHang
        \/ CrashDropped \/ KeepCrash \/ NonTermDropped \/ KeepNonTerm \/ KeepError

Next == Calibrate \/ Start \/ Trim \/ Fuzz \/ Save \/ StopSignal \/ ShowStats

Spec == Init /\ [][Next]_vars

-----------------------------------------------------------------------------
(* Properties. *)

(* The reference counts of update_bitmap_score: tc_ref is the number of      *)
(* slots an entry holds in top_rated, and its trace_mini exists just as long *)
(* as it holds one, so that cull_queue never reads one that was freed.      *)
WinnersReferenced ==
    \A q \in Positions :
        /\ queue[q].refs = Cardinality(Held(q))
        /\ (queue[q].mini = {}) <=> (Held(q) = {})

(* What the comment above update_bitmap_score promises, "a minimal set of    *)
(* paths that trigger all the bits seen in the bitmap so far": once the      *)
(* queue is culled, every edge that left virgin_bits is in the trace of a    *)
(* favoured entry; unless some entry behaved differently from run to run or  *)
(* failed a calibration, when only the slots that have a winner are covered. *)
FavoredCover ==
    (~scoreChanged /\ ~config.dumb /\ pc \in {"first", "main", "entry", "stage", "advance"}) =>
        /\ \A e \in Edge : top[e] # 0 =>
             \E q \in Positions : queue[q].favored /\ (q = top[e] \/ e \in queue[q].mini)
        /\ (\A q \in Positions : ~queue[q].variable /\ ~queue[q].late) =>
             \A e \in Edge : virgin.bits[e] # Classes =>
                \E q \in Positions : queue[q].favored /\ e \in queue[q].mini

(* pending_not_fuzzed is the number of entries not fuzzed yet, and           *)
(* pending_favored, on which fuzz_one decides whether to skip everything     *)
(* else, is never less than the number of favoured ones among them; it is    *)
(* exact as long as no entry is variable (a winner is counted once for every *)
(* slot its trace_mini lacks).  A favoured entry has passed calibration, so  *)
(* its turn brings the counter down.                                        *)
Pending == {q \in Positions : ~queue[q].wasFuzzed}
NotFuzzedCounted == pendingNotFuzzed = Cardinality(Pending)
PendingFavorites == {q \in Pending : queue[q].favored}
FavoredCounted ==
    ~config.dumb =>
        /\ pendingFavored >= Cardinality(PendingFavorites)
        /\ (\A q \in Positions : ~queue[q].variable) => pendingFavored = Cardinality(PendingFavorites)
FavoredCalibrated == \A q \in Positions : queue[q].favored => queue[q].calFailed = 0
PendingCounts == NotFuzzedCounted /\ FavoredCounted /\ FavoredCalibrated

(* No legal sequence of operations makes an exclusive create, or the removal *)
(* of a mark, fail, or calculate_score divide by a zero total_cal_cycles.   *)
NeverDiesOfItself == pc \notin {"pfatal", "sigfpe"}

(* A crash or hang is filed on the evidence of a run that crashed or hung,   *)
(* although calibration and the second run of a hang overwrite trace_bits.   *)
(* In crash exploration mode the calibration comes in between, and its last *)
(* run may have ended in any way.                                           *)
FiledOnOwnRun ==
    config.crashMode = "none" =>
        \A f \in files : /\ f.dir = "crashes" => f.of = "crash"
                         /\ f.dir = "hangs" => f.of = "tmout"

(* An entry counted as fuzzed went through the stages; only one whose        *)
(* calibration once failed can be counted, on a later success, without.     *)
FuzzedWasTried ==
    \A q \in Positions : queue[q].wasFuzzed => queue[q].tried \/ queue[q].late

(* README.md promises the report of a non-terminating recursion in a file:   *)
(* every finding counted as unique has one, in crashes or, for a report, in  *)
(* non_term_recursions.                                                     *)
ReportsFiled ==
    crashes = Cardinality({f \in files : f.dir \in {"crashes", "non_term_recursions"}})

(* Types and limits. *)
TypeOK ==
    /\ config \in Configs
    /\ cur \in 0 .. Len(queue) /\ seekTo \in 0 .. config.seeds
    /\ Len(queue) <= Larger(config.seeds, config.room)
    /\ \A q \in Positions :
         /\ queue[q].calFailed \in 0 .. CalChances
         /\ queue[q].refs \in 0 .. NumEdges
         /\ queue[q].mini \subseteq Edge
         /\ queue[q].wasFuzzed => queue[q].calFailed = 0
    /\ top \in [Edge -> 0 .. Len(queue)]
    /\ subseqTmouts \in 0 .. TmoutLimit + 2
    /\ hangs <= KeepUniqueHang /\ crashes <= KeepUniqueCrash
    /\ cal = Idle \/ cal.q \in Positions

=============================================================================
