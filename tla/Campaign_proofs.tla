--------------------------- MODULE Campaign_proofs ---------------------------
(***************************************************************************)
(* What TLAPS proves about Campaign, for maps, queues and limits of any    *)
(* size and any set of command lines.  First the types of the state, what  *)
(* each action does to the entries of the queue, and that                  *)
(* update_bitmap_score counts its references right.  Then the turns of the *)
(* entries, and what is saved during them: the sweep of cull_queue, which  *)
(* decides whose turn it is; what an entry has been through when it counts *)
(* as fuzzed; on whose evidence a finding is filed; and why no file is     *)
(* created twice.  Last what culling achieves: the entries it favours      *)
(* cover every edge the queue has reached, and the counters of pending     *)
(* entries, on which fuzz_one decides what to skip, are right.             *)
(***************************************************************************)
EXTENDS Campaign, NaturalSets, SequenceTheorems

USE DEF Over

-----------------------------------------------------------------------------
(* The types, and where the positions cur and cal.q point.                 *)

Maps == [Edge -> Int]
Traces == [Edge -> Nat]
EntrySet ==
    [passedDet : BOOLEAN, wasFuzzed : BOOLEAN, favored : BOOLEAN, redundant : BOOLEAN,
     variable : BOOLEAN, trimDone : BOOLEAN, calFailed : Nat, cksum : Maps, factor : Nat,
     refs : Int, mini : SUBSET Edge, tried : BOOLEAN, late : BOOLEAN]
Returns == {"none", "dryRan", "recalibrated", "saved"}
Results == {"none", "run", "done", "noinst", "nobits", "tmout", "crash", "nonterm", "error"}
CalSet == [q : Nat, return : Returns, stage : Nat, max : Nat, first : Maps, newBits : 0 .. 2,
           variable : BOOLEAN, firstRun : BOOLEAN, res : Results]

Calibrating == pc \in {"calibrate", "calibrated"}
Saving == pc \in {"save", "saved", "switch", "rerun", "genuine", "keepCrash"}

Base ==
    /\ config \in Configs
    /\ queue \in Seq(EntrySet) /\ Len(queue) >= 1
    /\ top \in [Edge -> 0 .. Len(queue)]
    /\ cur \in 0 .. Len(queue)
    /\ seekTo \in 0 .. Len(queue) - 1
    /\ cur = 0 => pc \in {"ready", "first", "main"} \cup Over
    /\ trace \in Traces
    /\ cal \in CalSet
    /\ Calibrating => cal.q \in Positions /\ cal.return # "none"
    /\ Calibrating /\ cal.return # "saved" => cal.q = cur
    /\ Saving \/ (Calibrating /\ cal.return = "saved") => after \in {"stage", "sync", "import"}

-----------------------------------------------------------------------------
(* Sequences and records; what the actions do to the queue, one lemma each. *)
LEMMA QueueFacts ==
    ASSUME queue \in Seq(EntrySet)
    PROVE  /\ Len(queue) \in Nat /\ Positions = 1 .. Len(queue)
           /\ \A q \in Positions : queue[q] \in EntrySet
BY DEF Positions

LEMMA SeqUpdate ==
    ASSUME NEW s \in Seq(EntrySet), NEW q \in 1 .. Len(s), NEW r \in EntrySet
    PROVE  LET u == [s EXCEPT ![q] = r]
           IN  /\ u \in Seq(EntrySet) /\ Len(u) = Len(s) /\ u[q] = r
               /\ \A i \in 1 .. Len(s) : i # q => u[i] = s[i]
OBVIOUS

LEMMA SeqOfFunction ==
    ASSUME NEW n \in Nat, NEW f \in [1 .. n -> EntrySet]
    PROVE  f \in Seq(EntrySet) /\ Len(f) = n
OBVIOUS

(* An edge set is finite; what an entry holds is counted.                  *)
LEMMA EdgeSets ==
    ASSUME NEW S \in SUBSET Edge
    PROVE  IsFiniteSet(S) /\ Cardinality(S) \in Nat
<1>1. IsFiniteSet(Edge)
  BY EdgesBounded, FS_Interval DEF Edge
<1> QED BY <1>1, FS_Subset, FS_CardinalityType

(* What update_bitmap_score leaves of an entry.                            *)
SameButScore(a, b) ==
    /\ a.passedDet = b.passedDet /\ a.wasFuzzed = b.wasFuzzed /\ a.favored = b.favored
    /\ a.redundant = b.redundant /\ a.variable = b.variable /\ a.trimDone = b.trimDone
    /\ a.calFailed = b.calFailed /\ a.cksum = b.cksum /\ a.tried = b.tried /\ a.late = b.late

LEMMA ScoredType ==
    ASSUME queue \in Seq(EntrySet), NEW q \in Positions, NEW cost \in Nat, NEW t \in Maps
    PROVE  LET s == Scored(q, cost, t)
               won == Won(q, cost, t)
           IN  /\ s \in Seq(EntrySet) /\ Len(s) = Len(queue)
               /\ won \subseteq Edge
               /\ \A o \in Positions : SameButScore(s[o], queue[o])
               /\ s[q].refs = queue[q].refs + Gained(q, won)
               /\ s[q].mini = IF Refreshed(q, won) THEN Hit(t) ELSE queue[q].mini
               /\ \A o \in Positions \ {q} :
                     /\ s[o].refs = queue[o].refs - Cardinality(Lost(o, won))
                     /\ s[o].mini = IF Lost(o, won) # {} /\ queue[o].refs = Cardinality(Lost(o, won))
                                      THEN {} ELSE queue[o].mini
<1> DEFINE s == Scored(q, cost, t)
           won == Won(q, cost, t)
<1>1. won \subseteq Edge /\ Hit(t) \subseteq Edge
  BY DEF Won, Hit
<1>2. Gained(q, won) \in Nat /\ \A o \in Positions : Cardinality(Lost(o, won)) \in Nat
  <2>1. won \ Held(q) \in SUBSET Edge /\ \A o \in Positions : Lost(o, won) \in SUBSET Edge
    BY <1>1 DEF Lost
  <2> QED BY <2>1, EdgeSets DEF Gained
<1>3. \A o \in Positions : queue[o] \in EntrySet
  BY QueueFacts
<1> DEFINE mq == IF Refreshed(q, won) THEN Hit(t) ELSE queue[q].mini
           mo(o) == IF Lost(o, won) # {} /\ queue[o].refs = Cardinality(Lost(o, won)) THEN {} ELSE queue[o].mini
           eq == [queue[q] EXCEPT !.factor = cost, !.refs = queue[q].refs + Gained(q, won), !.mini = mq]
           eo(o) == [queue[o] EXCEPT !.refs = queue[o].refs - Cardinality(Lost(o, won)), !.mini = mo(o)]
<1>4. s = [o \in Positions |-> IF o = q THEN eq ELSE eo(o)]
  BY DEF Scored
<1>5. mq \subseteq Edge /\ queue[q].refs + Gained(q, won) \in Int
  BY <1>1, <1>2, <1>3 DEF EntrySet
<1>6. /\ eq \in EntrySet /\ SameButScore(eq, queue[q])
      /\ eq.refs = queue[q].refs + Gained(q, won) /\ eq.mini = mq
  <2> HIDE DEF mq
  <2>1. queue[q] \in EntrySet
    BY <1>3
  <2> QED BY <1>5, <2>1 DEF EntrySet, SameButScore
<1>7. ASSUME NEW o \in Positions
      PROVE  /\ eo(o) \in EntrySet /\ SameButScore(eo(o), queue[o])
             /\ eo(o).refs = queue[o].refs - Cardinality(Lost(o, won)) /\ eo(o).mini = mo(o)
  <2>1. queue[o] \in EntrySet /\ mo(o) \subseteq Edge /\ queue[o].refs - Cardinality(Lost(o, won)) \in Int
    BY SMTT(30), <1>2, <1>3 DEF EntrySet
  <2> HIDE DEF mo
  <2> QED BY <2>1 DEF EntrySet, SameButScore
<1> HIDE DEF eq, eo, s
<1>8. s \in [Positions -> EntrySet]
  BY <1>4, <1>6, <1>7
<1>9. s \in Seq(EntrySet) /\ Len(s) = Len(queue)
  BY <1>8, QueueFacts, SeqOfFunction
<1>10. s[q] = eq /\ \A o \in Positions \ {q} : s[o] = eo(o)
  BY <1>4
<1> QED BY <1>1, <1>6, <1>7, <1>9, <1>10 DEF s

LEMMA NewLast ==
    ASSUME queue \in Seq(EntrySet), NEW r \in EntrySet, NEW s, s = Append(queue, r)
    PROVE  /\ s \in Seq(EntrySet) /\ Len(s) = Len(queue) + 1
           /\ s[Len(queue) + 1] = r
           /\ \A i \in Positions : s[i] = queue[i]
BY DEF Positions

LEMMA NewEntryType ==
    ASSUME NEW d \in BOOLEAN, NEW m \in Maps
    PROVE  NewEntry(d, m) \in EntrySet
BY DEF NewEntry, EntrySet

LEMMA MapTypes ==
    Traces \subseteq Maps /\ Empty \in Traces /\ Unknown \in Maps \ Traces /\ Idle \in CalSet
<1>1. Unknown \notin Traces
  <2>1. 1 \in Edge
    BY EdgesBounded DEF Edge
  <2> QED BY <2>1 DEF Unknown, Traces
<1> QED BY <1>1 DEF Empty, Unknown, Maps, Traces, Idle, CalSet, Returns, Results

LEMMA ConfigTypes ==
    ASSUME config \in Configs
    PROVE  /\ config.crashMode \in {"none", "crash"}
           /\ config.verdicts \subseteq {"none", "tmout", "crash", "nonterm", "error"}
           /\ config.maps \subseteq [Edge -> 0 .. 255]
           /\ config.seeds \in Nat \ {0}
           /\ {config.dumb, config.tolerant, config.skipCrashes, config.rerun, config.sync, config.signal, config.flaky} \subseteq BOOLEAN
BY ConfigsTyped DEF Edge

LEMMA ClassifyType == \A n \in 0 .. 255 : Classify(n) \in Nat
BY DEF Classify

LEMMA RunTargetType ==
    ASSUME config \in Configs, NEW f, RunTarget(f)
    PROVE  trace' \in Traces
<1>1. PICK raw \in config.maps \cup {Empty} : trace' = [e \in Edge |-> Classify(raw[e])]
  BY DEF RunTarget
<1>2. raw \in [Edge -> 0 .. 255]
  BY ConfigTypes DEF Empty
<1> QED BY <1>1, <1>2, ClassifyType DEF Traces

(* One entry of the queue changes.                                         *)
Changed(q, r) ==
    /\ queue' \in Seq(EntrySet) /\ Len(queue') = Len(queue)
    /\ queue'[q] = r
    /\ \A i \in Positions : i # q => queue'[i] = queue[i]

LEMMA Changes ==
    ASSUME queue \in Seq(EntrySet), NEW q \in Positions, NEW r \in EntrySet, queue' = [queue EXCEPT ![q] = r]
    PROVE  Changed(q, r)
BY SeqUpdate, QueueFacts DEF Changed

LEMMA AbortsQueue ==
    ASSUME Base, CalibrationAborts
    PROVE  cal.q \in Positions /\ Changed(cal.q, [queue[cal.q] EXCEPT !.late = TRUE])
<1>1. cal.q \in Positions /\ queue' = [queue EXCEPT ![cal.q].late = TRUE] /\ queue \in Seq(EntrySet)
  BY DEF CalibrationAborts, Base, Calibrating
<1>2. queue[cal.q] \in EntrySet
  BY <1>1, QueueFacts
<1> DEFINE r == [queue[cal.q] EXCEPT !.late = TRUE]
<1>3. r \in EntrySet
  BY <1>2 DEF EntrySet
<1>4. queue' = [queue EXCEPT ![cal.q] = r]
  BY <1>1
<1> HIDE DEF r
<1>5. Changed(cal.q, r)
  BY <1>1, <1>3, <1>4, Changes
<1> QED BY <1>1, <1>5 DEF r

LEMMA RunQueue ==
    ASSUME Base, CalibrationRun
    PROVE  /\ cal.q \in Positions
           /\ IF queue[cal.q].cksum = Unknown
                THEN Changed(cal.q, [queue[cal.q] EXCEPT !.cksum = trace'])
                ELSE UNCHANGED queue
<1>1. /\ cal.q \in Positions /\ queue \in Seq(EntrySet)
      /\ IF queue[cal.q].cksum = Unknown THEN queue' = [queue EXCEPT ![cal.q].cksum = trace']
         ELSE UNCHANGED queue
  BY DEF CalibrationRun, Base, Calibrating
<1>2. queue[cal.q] \in EntrySet
  BY <1>1, QueueFacts
<1>3. trace' \in Maps
  BY RunTargetType, MapTypes DEF CalibrationRun, Base
<1> DEFINE r == [queue[cal.q] EXCEPT !.cksum = trace']
<1>4. r \in EntrySet
  BY <1>2, <1>3 DEF EntrySet
<1>5. IF queue[cal.q].cksum = Unknown THEN queue' = [queue EXCEPT ![cal.q] = r] ELSE UNCHANGED queue
  BY <1>1
<1> HIDE DEF r
<1>6. IF queue[cal.q].cksum = Unknown THEN Changed(cal.q, r) ELSE UNCHANGED queue
  BY <1>1, <1>4, <1>5, Changes
<1> QED BY <1>1, <1>6 DEF r

LEMMA ReturnsQueue ==
    ASSUME Base, CalibrationReturns
    PROVE  /\ cal.q \in Positions
           /\ \/ UNCHANGED queue /\ ~ BecomesVariable
              \/ Changed(cal.q, [queue[cal.q] EXCEPT !.variable = TRUE]) /\ BecomesVariable
<1>1. /\ cal.q \in Positions /\ queue \in Seq(EntrySet)
      /\ IF BecomesVariable THEN queue' = [queue EXCEPT ![cal.q].variable = TRUE] ELSE UNCHANGED queue
  BY DEF CalibrationReturns, Base, Calibrating
<1>2. queue[cal.q] \in EntrySet
  BY <1>1, QueueFacts
<1> DEFINE r == [queue[cal.q] EXCEPT !.variable = TRUE]
<1>3. r \in EntrySet
  BY <1>2 DEF EntrySet
<1>4. IF BecomesVariable THEN queue' = [queue EXCEPT ![cal.q] = r] ELSE UNCHANGED queue
  BY <1>1
<1> HIDE DEF r
<1>5. IF BecomesVariable THEN Changed(cal.q, r) ELSE UNCHANGED queue
  BY <1>1, <1>3, <1>4, Changes
<1> QED BY <1>1, <1>5 DEF r

LEMMA DryRunQueue ==
    ASSUME Base, DryRun
    PROVE  /\ cur \in Positions
           /\ Changed(cur, [queue[cur] EXCEPT !.calFailed = queue[cur].calFailed + 1])
<1>1. /\ cur \in Positions /\ queue \in Seq(EntrySet)
      /\ queue' = [queue EXCEPT ![cur].calFailed = queue[cur].calFailed + 1]
  BY DEF DryRun, Base, Positions, StartCalibration
<1>2. queue[cur] \in EntrySet /\ queue[cur].calFailed + 1 \in Nat
  BY SMTT(30), <1>1, QueueFacts DEF EntrySet
<1> DEFINE r == [queue[cur] EXCEPT !.calFailed = queue[cur].calFailed + 1]
<1>3. r \in EntrySet
  BY <1>2 DEF EntrySet
<1>4. queue' = [queue EXCEPT ![cur] = r]
  BY <1>1
<1> HIDE DEF r
<1>5. Changed(cur, r)
  BY <1>1, <1>3, <1>4, Changes
<1> QED BY <1>1, <1>5 DEF r

LEMMA DryRunGoesOnQueue ==
    ASSUME Base, DryRunGoesOn
    PROVE  /\ cur \in Positions
           /\ \/ UNCHANGED queue /\ ~ DryRunSkips
              \/ Changed(cur, [queue[cur] EXCEPT !.calFailed = CalChances]) /\ DryRunSkips
<1>1. /\ cur \in Positions /\ queue \in Seq(EntrySet)
      /\ IF DryRunSkips THEN queue' = [queue EXCEPT ![cur].calFailed = CalChances] ELSE UNCHANGED queue
  BY DEF DryRunGoesOn, Base, Positions
<1>2. queue[cur] \in EntrySet /\ CalChances \in Nat
  BY <1>1, QueueFacts, LimitsTyped DEF EntrySet
<1> DEFINE r == [queue[cur] EXCEPT !.calFailed = CalChances]
<1>3. r \in EntrySet
  BY <1>2 DEF EntrySet
<1>4. IF DryRunSkips THEN queue' = [queue EXCEPT ![cur] = r] ELSE UNCHANGED queue
  BY <1>1
<1> HIDE DEF r
<1>5. IF DryRunSkips THEN Changed(cur, r) ELSE UNCHANGED queue
  BY <1>1, <1>3, <1>4, Changes
<1> QED BY <1>1, <1>5 DEF r

LEMMA TakeQueue ==
    ASSUME Base, TakeEntry
    PROVE  /\ cur \in Positions
           /\ [queue[cur] EXCEPT !.cksum = Unknown, !.calFailed = queue[cur].calFailed + 1] \in EntrySet
           /\ \/ UNCHANGED queue /\ ~ HasChance
              \/ /\ Changed(cur, [queue[cur] EXCEPT !.cksum = Unknown, !.calFailed = queue[cur].calFailed + 1])
                 /\ HasChance
<1>1. cur \in Positions /\ queue \in Seq(EntrySet)
  BY DEF TakeEntry, Base, Positions
<1>2. queue[cur] \in EntrySet /\ queue[cur].calFailed + 1 \in Nat
  BY SMTT(30), <1>1, QueueFacts DEF EntrySet
<1> DEFINE a == [queue[cur] EXCEPT !.cksum = Unknown]
           u == [queue EXCEPT ![cur] = a]
           r == [a EXCEPT !.calFailed = a.calFailed + 1]
<1>3. a \in EntrySet /\ a.calFailed = queue[cur].calFailed
  BY <1>2, MapTypes DEF EntrySet
<1>4. r \in EntrySet /\ r = [queue[cur] EXCEPT !.cksum = Unknown, !.calFailed = queue[cur].calFailed + 1]
  <2>1. r = [queue[cur] EXCEPT !.cksum = Unknown, !.calFailed = queue[cur].calFailed + 1]
    BY <1>2 DEF EntrySet
  <2> HIDE DEF a
  <2>2. r \in EntrySet
    BY <1>2, <1>3 DEF EntrySet
  <2> QED BY <2>1, <2>2
<1>5. CASE HasChance
  <2>1. queue' = [u EXCEPT ![cur].calFailed = u[cur].calFailed + 1]
    BY <1>5 DEF TakeEntry, StartCalibration
  <2>2. u \in Seq(EntrySet) /\ Len(u) = Len(queue) /\ u[cur] = a /\ \A i \in Positions : i # cur => u[i] = queue[i]
    BY <1>1, <1>3, SeqUpdate, QueueFacts
  <2> HIDE DEF u
  <2>3. queue' = [u EXCEPT ![cur] = r]
    BY <2>1, <2>2
  <2> HIDE DEF r, a
  <2>4. Changed(cur, r)
    BY <1>1, <1>4, <2>2, <2>3, SeqUpdate, QueueFacts DEF Changed
  <2> QED BY <1>1, <1>4, <1>5, <2>4
<1>6. CASE ~ HasChance
  BY <1>1, <1>4, <1>6 DEF TakeEntry
<1> QED BY <1>1, <1>4, <1>5, <1>6

LEMMA TrimQueue ==
    ASSUME Base
    PROVE  /\ TrimAborts => cur \in Positions /\ \E c \in Nat : Changed(cur, [queue[cur] EXCEPT !.factor = c])
           /\ Trimmed => cur \in Positions /\ \E b \in BOOLEAN : Changed(cur, [queue[cur] EXCEPT !.trimDone = b])
<1>1. Trims \/ Trimmed => cur \in Positions /\ queue \in Seq(EntrySet) /\ queue[cur] \in EntrySet
  BY QueueFacts DEF Trims, Trimmed, Base, Positions, Over
<1>2. ASSUME TrimAborts PROVE cur \in Positions /\ \E c \in Nat : Changed(cur, [queue[cur] EXCEPT !.factor = c])
  <2>1. PICK c \in Nat : queue' = [queue EXCEPT ![cur].factor = c]
    BY <1>2, CostsTyped DEF TrimAborts
  <2>2. cur \in Positions /\ queue \in Seq(EntrySet) /\ queue[cur] \in EntrySet
    BY <1>1, <1>2 DEF TrimAborts
  <2> DEFINE r == [queue[cur] EXCEPT !.factor = c]
  <2>3. r \in EntrySet
    BY <2>2 DEF EntrySet
  <2>4. queue' = [queue EXCEPT ![cur] = r]
    BY <2>1
  <2> HIDE DEF r
  <2>5. Changed(cur, r)
    BY <2>2, <2>3, <2>4, Changes
  <2> QED BY <2>2, <2>5 DEF r
<1>3. ASSUME Trimmed PROVE cur \in Positions /\ \E b \in BOOLEAN : Changed(cur, [queue[cur] EXCEPT !.trimDone = b])
  <2>1. cur \in Positions /\ queue \in Seq(EntrySet) /\ queue[cur] \in EntrySet
    BY <1>1, <1>3
  <2>2. PICK b \in BOOLEAN : b = (~ stopSoon \/ queue[cur].trimDone)
    OBVIOUS
  <2> DEFINE r == [queue[cur] EXCEPT !.trimDone = b]
  <2>3. r \in EntrySet
    BY <2>1 DEF EntrySet
  <2>4. queue' = [queue EXCEPT ![cur] = r]
    <3>1. CASE stopSoon
      <4>1. r = queue[cur]
        BY <2>1, <2>2, <3>1 DEF EntrySet
      <4> HIDE DEF r
      <4>2. queue' = queue
        BY <1>3, <3>1 DEF Trimmed
      <4> QED BY <2>1, <4>1, <4>2 DEF Positions
    <3>2. CASE ~ stopSoon
      BY <1>3, <2>2, <3>2 DEF Trimmed
    <3> QED BY <3>1, <3>2
  <2> HIDE DEF r
  <2>5. Changed(cur, r)
    BY <2>1, <2>3, <2>4, Changes
  <2> QED BY <2>1, <2>2, <2>5 DEF r
<1> QED BY <1>2, <1>3

LEMMA ScoreQueue ==
    ASSUME Base, ScoreEntry
    PROVE  cur \in Positions /\ Changed(cur, [queue[cur] EXCEPT !.tried = TRUE])
<1>1. cur \in Positions /\ queue \in Seq(EntrySet) /\ queue[cur] \in EntrySet
  BY QueueFacts DEF ScoreEntry, Base, Positions
<1> DEFINE r == [queue[cur] EXCEPT !.tried = TRUE]
<1>2. r \in EntrySet
  BY <1>1 DEF EntrySet
<1>3. queue' = [queue EXCEPT ![cur] = r]
  BY DEF ScoreEntry
<1> HIDE DEF r
<1>4. Changed(cur, r)
  BY <1>1, <1>2, <1>3, Changes
<1> QED BY <1>1, <1>4 DEF r

LEMMA DeterministicQueue ==
    ASSUME Base, FinishDeterministic
    PROVE  /\ cur \in Positions
           /\ IF queue[cur].passedDet THEN UNCHANGED queue
              ELSE Changed(cur, [queue[cur] EXCEPT !.passedDet = TRUE])
<1>1. cur \in Positions /\ queue \in Seq(EntrySet) /\ queue[cur] \in EntrySet
  BY QueueFacts DEF FinishDeterministic, Base, Positions
<1> DEFINE r == [queue[cur] EXCEPT !.passedDet = TRUE]
<1>2. r \in EntrySet
  BY <1>1 DEF EntrySet
<1>3. IF queue[cur].passedDet THEN UNCHANGED queue ELSE queue' = [queue EXCEPT ![cur] = r]
  BY DEF FinishDeterministic
<1> HIDE DEF r
<1>4. ~ queue[cur].passedDet => Changed(cur, r)
  BY <1>1, <1>2, <1>3, Changes
<1> QED BY <1>1, <1>3, <1>4 DEF r

LEMMA LeaveQueue ==
    ASSUME Base, LeaveEntry
    PROVE  /\ cur \in Positions
           /\ IF CountsAsFuzzed THEN Changed(cur, [queue[cur] EXCEPT !.wasFuzzed = TRUE])
              ELSE UNCHANGED queue
<1>1. cur \in Positions /\ queue \in Seq(EntrySet) /\ queue[cur] \in EntrySet
  BY QueueFacts DEF LeaveEntry, Base, Positions
<1> DEFINE r == [queue[cur] EXCEPT !.wasFuzzed = TRUE]
<1>2. r \in EntrySet
  BY <1>1 DEF EntrySet
<1>3. IF CountsAsFuzzed THEN queue' = [queue EXCEPT ![cur] = r] ELSE UNCHANGED queue
  BY DEF LeaveEntry
<1> HIDE DEF r
<1>4. CountsAsFuzzed => Changed(cur, r)
  BY <1>1, <1>2, <1>3, Changes
<1> QED BY <1>1, <1>3, <1>4 DEF r

LEMMA SaveQueue ==
    ASSUME Base, SaveEntry
    PROVE  /\ queue' \in Seq(EntrySet) /\ Len(queue') = Len(queue) + 1
           /\ queue'[Len(queue) + 1] = [NewEntry(FALSE, trace) EXCEPT !.calFailed = 1]
           /\ \A i \in Positions : queue'[i] = queue[i]
<1> DEFINE n == NewEntry(FALSE, trace)
           s == Append(queue, n)
           k == Len(queue) + 1
           r == [n EXCEPT !.calFailed = 1]
<1>1. queue' = [s EXCEPT ![k].calFailed = s[k].calFailed + 1]
  BY DEF SaveEntry, StartCalibration
<1>2. n \in EntrySet /\ n.calFailed = 0 /\ queue \in Seq(EntrySet)
  <2>1. n \in EntrySet /\ queue \in Seq(EntrySet)
    BY NewEntryType, MapTypes DEF Base
  <2>2. n.calFailed = 0
    BY DEF NewEntry
  <2> QED BY <2>1, <2>2
<1> HIDE DEF n
<1>3. /\ s \in Seq(EntrySet) /\ Len(s) = k /\ s[k] = n /\ k \in 1 .. Len(s) /\ Len(queue) \in Nat
      /\ \A i \in Positions : s[i] = queue[i]
  BY <1>2, NewLast, QueueFacts
<1>4. queue' = [s EXCEPT ![k] = r]
  BY <1>1, <1>2, <1>3
<1>5. r \in EntrySet
  BY <1>2 DEF EntrySet
<1> HIDE DEF s, r
<1>6. queue' \in Seq(EntrySet) /\ Len(queue') = k /\ queue'[k] = r /\ \A i \in 1 .. Len(s) : i # k => queue'[i] = s[i]
  BY <1>3, <1>4, <1>5, SeqUpdate
<1> QED BY <1>3, <1>6, QueueFacts, <1>2 DEF r, n

(* cull_queue changes the favoured mark and its file, nothing else.        *)
LEMMA CullQueueQueue ==
    ASSUME Base, NEW next, CullQueue(next)
    PROVE  \/ UNCHANGED <<queue, files>> /\ pc' = next /\ (config.dumb \/ ~ scoreChanged) /\ UNCHANGED <<scoreChanged, pendingFavored>>
           \/ /\ queue' \in Seq(EntrySet) /\ Len(queue') = Len(queue)
              /\ ~ config.dumb /\ scoreChanged /\ ~ scoreChanged'
              /\ pc' = next \/ pc' = "pfatal"
              /\ \A q \in Positions : queue'[q] = [queue[q] EXCEPT !.favored = (q \in Culled.winners),
                                                                  !.redundant = ~ (q \in Culled.winners)]
<1>1. CASE config.dumb \/ ~ scoreChanged
  BY <1>1 DEF CullQueue
<1>2. CASE ~ (config.dumb \/ ~ scoreChanged)
  <2> DEFINE w == Culled.winners
             e(q) == [queue[q] EXCEPT !.favored = q \in w, !.redundant = q \notin w]
  <2>1. queue' = [q \in Positions |-> e(q)] /\ ~ scoreChanged' /\ (pc' = next \/ pc' = "pfatal")
    BY <1>2 DEF CullQueue
  <2> HIDE DEF w
  <2>2. \A q \in Positions : e(q) \in EntrySet /\ e(q) = [queue[q] EXCEPT !.favored = (q \in w), !.redundant = ~ (q \in w)]
    <3> TAKE q \in Positions
    <3>1. queue[q] \in EntrySet
      BY QueueFacts DEF Base
    <3> DEFINE b == q \in w
    <3>2. e(q) = [queue[q] EXCEPT !.favored = b, !.redundant = ~ b] /\ b \in BOOLEAN
      OBVIOUS
    <3> HIDE DEF b
    <3>3. [queue[q] EXCEPT !.favored = b, !.redundant = ~ b] \in EntrySet
      BY <3>1, <3>2 DEF EntrySet
    <3> QED BY <3>2, <3>3 DEF b
  <2> HIDE DEF e
  <2>3. queue' \in [Positions -> EntrySet]
    BY <2>1, <2>2
  <2>4. queue' \in Seq(EntrySet) /\ Len(queue') = Len(queue)
    BY <2>3, QueueFacts, SeqOfFunction DEF Base
  <2> QED BY <1>2, <2>1, <2>2, <2>4 DEF w
<1> QED BY <1>1, <1>2

(* The two actions that rate an entry.                                     *)
ScoredBy(q, t, won) ==
    /\ won \subseteq Hit(t) /\ {e \in Hit(t) : top[e] = 0} \subseteq won
    /\ top' = TopAfter(q, won)
    /\ scoreChanged' = (scoreChanged \/ won # {})
    /\ queue'[q].refs = queue[q].refs + Gained(q, won)
    /\ queue'[q].mini = IF Refreshed(q, won) THEN Hit(t) ELSE queue[q].mini
    /\ \A o \in Positions \ {q} :
          /\ queue'[o].refs = queue[o].refs - Cardinality(Lost(o, won))
          /\ queue'[o].mini = IF Lost(o, won) # {} /\ queue[o].refs = Cardinality(Lost(o, won))
                                THEN {} ELSE queue[o].mini

Rated(q, t) ==
    /\ q \in Positions
    /\ queue' \in Seq(EntrySet) /\ Len(queue') = Len(queue)
    /\ \E won \in SUBSET Edge : ScoredBy(q, t, won)
    /\ \A o \in Positions :
          /\ queue'[o].passedDet = queue[o].passedDet /\ queue'[o].wasFuzzed = queue[o].wasFuzzed
          /\ queue'[o].favored = queue[o].favored /\ queue'[o].redundant = queue[o].redundant
          /\ queue'[o].variable = queue[o].variable /\ queue'[o].cksum = queue[o].cksum
          /\ queue'[o].tried = queue[o].tried /\ queue'[o].late = queue[o].late

LEMMA RatesQueue ==
    ASSUME Base, CalibrationRates
    PROVE  /\ Rated(cal.q, trace)
           /\ queue'[cal.q].calFailed = 0
           /\ \A o \in Positions : o # cal.q => queue'[o].calFailed = queue[o].calFailed
<1>1. /\ cal.q \in Positions /\ queue \in Seq(EntrySet) /\ trace \in Maps
      /\ Positions = 1 .. Len(queue)
  BY MapTypes DEF CalibrationRates, Base, Calibrating, Positions
<1>2. PICK cost \in Nat :
        /\ queue' = [Scored(cal.q, cost, trace) EXCEPT ![cal.q].calFailed = 0]
        /\ top' = TopAfter(cal.q, Won(cal.q, cost, trace))
        /\ scoreChanged' = (scoreChanged \/ Won(cal.q, cost, trace) # {})
  BY CostsTyped DEF CalibrationRates
<1> DEFINE s == Scored(cal.q, cost, trace)
           won == Won(cal.q, cost, trace)
           r == [s[cal.q] EXCEPT !.calFailed = 0]
<1>3. /\ s \in Seq(EntrySet) /\ Len(s) = Len(queue)
      /\ won \subseteq Edge
      /\ \A o \in Positions : SameButScore(s[o], queue[o])
      /\ s[cal.q].refs = queue[cal.q].refs + Gained(cal.q, won)
      /\ s[cal.q].mini = IF Refreshed(cal.q, won) THEN Hit(trace) ELSE queue[cal.q].mini
      /\ \A o \in Positions \ {cal.q} :
            /\ s[o].refs = queue[o].refs - Cardinality(Lost(o, won))
            /\ s[o].mini = IF Lost(o, won) # {} /\ queue[o].refs = Cardinality(Lost(o, won))
                             THEN {} ELSE queue[o].mini
  BY SMTT(30), <1>1, ScoredType
<1>4. won \subseteq Hit(trace) /\ {e \in Hit(trace) : top[e] = 0} \subseteq won
  BY DEF Won, Hit
<1> HIDE DEF s, won
<1>5. s[cal.q] \in EntrySet
  BY <1>1, <1>3
<1>6. r \in EntrySet /\ r.calFailed = 0 /\ r.refs = s[cal.q].refs /\ r.mini = s[cal.q].mini
      /\ r.passedDet = s[cal.q].passedDet /\ r.wasFuzzed = s[cal.q].wasFuzzed
      /\ r.favored = s[cal.q].favored /\ r.redundant = s[cal.q].redundant
      /\ r.variable = s[cal.q].variable /\ r.cksum = s[cal.q].cksum
      /\ r.tried = s[cal.q].tried /\ r.late = s[cal.q].late
  BY <1>5 DEF EntrySet
<1> HIDE DEF r
<1>7. /\ queue' \in Seq(EntrySet) /\ Len(queue') = Len(queue) /\ queue'[cal.q] = r
      /\ \A o \in Positions : o # cal.q => queue'[o] = s[o]
  <2>1. queue' = [s EXCEPT ![cal.q] = r]
    BY <1>2 DEF s, r
  <2> QED BY <1>1, <1>3, <1>6, <2>1, SeqUpdate
<1>8. /\ top' = TopAfter(cal.q, won)
      /\ scoreChanged' = (scoreChanged \/ won # {})
  BY <1>2 DEF won
<1>9. \A o \in Positions : IF o = cal.q THEN queue'[o] = r ELSE queue'[o] = s[o]
  BY <1>7
<1>10. Rated(cal.q, trace)
  <2>1. ScoredBy(cal.q, trace, won)
    BY <1>3, <1>4, <1>6, <1>7, <1>8 DEF ScoredBy
  <2>2. \A o \in Positions :
          /\ queue'[o].passedDet = queue[o].passedDet /\ queue'[o].wasFuzzed = queue[o].wasFuzzed
          /\ queue'[o].favored = queue[o].favored /\ queue'[o].redundant = queue[o].redundant
          /\ queue'[o].variable = queue[o].variable /\ queue'[o].cksum = queue[o].cksum
          /\ queue'[o].tried = queue[o].tried /\ queue'[o].late = queue[o].late
    BY <1>3, <1>6, <1>9 DEF SameButScore
  <2> QED BY <1>1, <1>3, <1>7, <2>1, <2>2 DEF Rated
<1>11. \A o \in Positions : o # cal.q => queue'[o].calFailed = queue[o].calFailed
  BY <1>3, <1>7 DEF SameButScore
<1> QED BY <1>6, <1>7, <1>10, <1>11

LEMMA ShortensQueue ==
    ASSUME Base, TrimShortens
    PROVE  /\ Rated(cur, queue[cur].cksum)
           /\ \A o \in Positions : queue'[o].calFailed = queue[o].calFailed
<1> DEFINE t == queue[cur].cksum
<1>1. /\ cur \in Positions /\ queue \in Seq(EntrySet) /\ t \in Maps
      /\ Positions = 1 .. Len(queue)
  <2>1. cur \in Positions /\ queue \in Seq(EntrySet) /\ Positions = 1 .. Len(queue)
    BY DEF TrimShortens, Trims, Base, Positions
  <2>2. queue[cur] \in EntrySet
    BY <2>1, QueueFacts
  <2> QED BY <2>1, <2>2 DEF EntrySet
<1>2. PICK cost \in Nat :
        /\ queue' = Scored(cur, cost, t)
        /\ top' = TopAfter(cur, Won(cur, cost, t))
        /\ scoreChanged' = (scoreChanged \/ Won(cur, cost, t) # {})
  BY CostsTyped DEF TrimShortens
<1> HIDE DEF t
<1> DEFINE s == Scored(cur, cost, t)
           won == Won(cur, cost, t)
<1>3. /\ s \in Seq(EntrySet) /\ Len(s) = Len(queue)
      /\ won \subseteq Edge
      /\ \A o \in Positions : SameButScore(s[o], queue[o])
      /\ s[cur].refs = queue[cur].refs + Gained(cur, won)
      /\ s[cur].mini = IF Refreshed(cur, won) THEN Hit(t) ELSE queue[cur].mini
      /\ \A o \in Positions \ {cur} :
            /\ s[o].refs = queue[o].refs - Cardinality(Lost(o, won))
            /\ s[o].mini = IF Lost(o, won) # {} /\ queue[o].refs = Cardinality(Lost(o, won))
                             THEN {} ELSE queue[o].mini
  BY <1>1, ScoredType
<1>4. won \subseteq Hit(t) /\ {e \in Hit(t) : top[e] = 0} \subseteq won
  BY DEF Won, Hit
<1> HIDE DEF s, won
<1>5. queue' = s /\ top' = TopAfter(cur, won) /\ scoreChanged' = (scoreChanged \/ won # {})
  BY <1>2 DEF s, won
<1>6. ScoredBy(cur, t, won)
  BY <1>3, <1>4, <1>5 DEF ScoredBy
<1>7. Rated(cur, t)
  BY <1>1, <1>3, <1>5, <1>6 DEF Rated, SameButScore
<1> QED BY <1>3, <1>5, <1>7 DEF SameButScore, t

-----------------------------------------------------------------------------
(* Types, and where the positions cur and cal.q point.                     *)
LEMMA BaseInit == Init => Base
<1> SUFFICES ASSUME Init PROVE Base
  OBVIOUS
<1>1. config \in Configs /\ config.seeds \in Nat \ {0}
  BY ConfigTypes DEF Init
<1>2. queue \in [1 .. config.seeds -> EntrySet]
  <2>1. \A d \in BOOLEAN : NewEntry(d, Unknown) \in EntrySet
    BY NewEntryType, MapTypes
  <2>2. queue \in [1 .. config.seeds -> {NewEntry(d, Unknown) : d \in BOOLEAN}]
    BY DEF Init
  <2> QED BY <2>1, <2>2
<1>3. queue \in Seq(EntrySet) /\ Len(queue) = config.seeds
  BY <1>1, <1>2, SeqOfFunction
<1>4. top \in [Edge -> 0 .. Len(queue)]
  BY <1>1, <1>3 DEF Init
<1>5. /\ cur = 1 /\ seekTo \in 0 .. config.seeds - 1 /\ trace \in Traces /\ cal \in CalSet /\ pc = "dry"
  BY MapTypes DEF Init
<1> QED BY <1>1, <1>3, <1>4, <1>5 DEF Base, Calibrating, Saving

(* What most actions leave alone.                                          *)
Still == UNCHANGED <<config, queue, top>>

LEMMA NewBitsType == \A map, t : HasNewBits(map, t) \in 0 .. 2
BY DEF HasNewBits

LEMMA StartsType ==
    ASSUME trace \in Traces, NEW s, NEW q \in Nat, NEW return \in Returns, StartCalibration(s, q, return)
    PROVE  /\ cal' \in CalSet /\ cal'.q = q /\ cal'.return = return /\ cal'.res = "run" /\ cal'.stage = 0
           /\ ~ cal'.variable /\ pc' = "calibrate"
<1> DEFINE u == s[q].cksum = Unknown
           first == IF u THEN Unknown ELSE trace
           bits == IF u THEN 0 ELSE HasNewBits(virgin.bits, trace)
<1>1. cal' = [q |-> q, return |-> return, stage |-> 0, max |-> CalCycles, first |-> first,
              newBits |-> bits, variable |-> FALSE, firstRun |-> u, res |-> "run"]
      /\ pc' = "calibrate"
  BY DEF StartCalibration, Idle
<1>2. first \in Maps /\ bits \in 0 .. 2 /\ u \in BOOLEAN
  BY MapTypes, NewBitsType
<1> HIDE DEF u, first, bits
<1> QED BY <1>1, <1>2, LimitsTyped DEF CalSet, Results

LEMMA StartBase ==
    ASSUME Base, DryRunStops \/ DryRunGoesOn \/ DryRun
    PROVE  Base'
<1>1. CASE DryRunStops
  <2>1. Still /\ UNCHANGED <<trace, cal, cur, seekTo, after>> /\ pc = "dryRan" /\ pc' \in {"ready", "fatal"}
    BY <1>1 DEF DryRunStops, Still, entry, rating, run, call
  <2> QED BY <2>1 DEF Base, Still, Calibrating, Saving, Positions
<1>2. CASE DryRunGoesOn
  <2>1. /\ UNCHANGED <<config, top, seekTo>> /\ trace' = Empty /\ cal' = Idle
        /\ pc' \in {"dry", "fatal", "ready"}
        /\ \/ cur < Len(queue) /\ cur' = cur + 1 /\ pc' = "dry"
           \/ cur' = 0 /\ pc' \in {"fatal", "ready"}
    BY <1>2 DEF DryRunGoesOn, rating, Forget
  <2>2. queue' \in Seq(EntrySet) /\ Len(queue') = Len(queue)
    BY <1>2, DryRunGoesOnQueue DEF Base, Changed
  <2>3. Len(queue) \in Nat
    BY QueueFacts DEF Base
  <2> QED BY <2>1, <2>2, <2>3, MapTypes DEF Base, Calibrating, Saving, Positions
<1>3. CASE DryRun
  <2>1. /\ cur \in Positions /\ UNCHANGED <<config, top, seekTo, cur, trace>> /\ pc' = "calibrate" /\ Len(queue') = Len(queue)
        /\ queue' \in Seq(EntrySet) /\ cal'.q = cur /\ cal'.return = "dryRan"
    BY <1>3, DryRunQueue DEF DryRun, StartCalibration, Idle, entry, rating, run, Changed
  <2>2. cal' \in CalSet
    BY <1>3, StartsType, QueueFacts DEF DryRun, Base, Returns
  <2> QED BY <2>1, <2>2 DEF Base, Calibrating, Saving, Positions
<1> QED BY <1>1, <1>2, <1>3

LEMMA CalibrateBase ==
    ASSUME Base, Calibrate
    PROVE  Base'
<1>0. cal \in CalSet /\ cal.q \in Positions
  BY DEF Base, Calibrate, CalibrationAborts, CalibrationRun, CalibrationRates, CalibrationReturns, Calibrating
<1>1. CASE CalibrationAborts
  <2>1. UNCHANGED <<config, top, seekTo, cur, after>> /\ pc = "calibrate" /\ pc' = "calibrated"
    BY <1>1 DEF CalibrationAborts, rating, entry, call
  <2>2. /\ Len(queue') = Len(queue) /\ queue' \in Seq(EntrySet)
    BY <1>1, AbortsQueue DEF Changed
  <2>3. trace' \in Traces
    BY <1>1, RunTargetType DEF CalibrationAborts, Base
  <2>4. \E f \in Results : cal' = [cal EXCEPT !.res = f]
    <3>1. Verdicts \subseteq Results
      BY ConfigTypes DEF Base, Verdicts, Results
    <3>2. "noinst" \in Results
      BY DEF Results
    <3> QED BY <1>1, <3>1, <3>2 DEF CalibrationAborts
  <2>5. cal' \in CalSet /\ cal'.q = cal.q /\ cal'.return = cal.return
    BY <1>0, <2>4 DEF CalSet
  <2> QED BY <2>1, <2>2, <2>3, <2>5 DEF Base, Calibrating, Saving, Positions
<1>2. CASE CalibrationRun
  <2>1. UNCHANGED <<config, top, seekTo, cur, after>> /\ pc = "calibrate" /\ pc' = "calibrate"
    BY <1>2 DEF CalibrationRun, rating, entry, call
  <2>2. /\ Len(queue') = Len(queue) /\ queue' \in Seq(EntrySet)
    BY <1>2, RunQueue DEF Changed, Base
  <2>3. trace' \in Traces
    BY <1>2, RunTargetType DEF CalibrationRun, Base
  <2>4. \E st \in Nat, mx \in Nat, nb \in 0 .. 2, va \in BOOLEAN, fi \in Maps, re \in {"run", "done"} :
          cal' = [cal EXCEPT !.stage = st, !.max = mx, !.newBits = nb, !.variable = va, !.first = fi, !.res = re]
    <3> DEFINE cksum == queue[cal.q].cksum
               differs == cksum # trace'
               known == cksum # Unknown
               newVar == {e \in Edge \ varBytes : cal.first[e] # trace'[e]}
               max == IF differs /\ known /\ newVar # {} THEN CalCyclesLong ELSE cal.max
               st == cal.stage + 1
               nb == IF differs THEN Larger(cal.newBits, HasNewBits(virgin.bits, trace')) ELSE cal.newBits
               va == cal.variable \/ (differs /\ known)
               fi == IF known THEN cal.first ELSE trace'
               re == IF cal.stage + 1 >= max THEN "done" ELSE "run"
    <3>1. cal' = [cal EXCEPT !.stage = st, !.max = max, !.newBits = nb, !.variable = va, !.first = fi, !.res = re]
      BY <1>2 DEF CalibrationRun
    <3>2. st \in Nat /\ max \in Nat /\ va \in BOOLEAN
      BY <1>0, LimitsTyped DEF CalSet
    <3>3. nb \in 0 .. 2
      <4>1. HasNewBits(virgin.bits, trace') \in 0 .. 2 /\ cal.newBits \in 0 .. 2
        BY <1>0, NewBitsType DEF CalSet
      <4> QED BY <4>1 DEF Larger
    <3>4. fi \in Maps
      BY <1>0, <2>3, MapTypes DEF CalSet
    <3>5. re \in {"run", "done"}
      OBVIOUS
    <3> HIDE DEF st, max, nb, va, fi, re
    <3> QED BY <3>1, <3>2, <3>3, <3>4, <3>5
  <2>5. cal' \in CalSet /\ cal'.q = cal.q /\ cal'.return = cal.return
    <3>1. PICK st \in Nat, mx \in Nat, nb \in 0 .. 2, va \in BOOLEAN, fi \in Maps, re \in {"run", "done"} :
            cal' = [cal EXCEPT !.stage = st, !.max = mx, !.newBits = nb, !.variable = va, !.first = fi, !.res = re]
      BY <2>4
    <3>2. re \in Results
      BY <3>1 DEF Results
    <3>3. cal' = [q |-> cal.q, return |-> cal.return, stage |-> st, max |-> mx, first |-> fi, newBits |-> nb,
                  variable |-> va, firstRun |-> cal.firstRun, res |-> re]
      BY <1>0, <3>1 DEF CalSet
    <3> QED BY <1>0, <3>1, <3>2, <3>3 DEF CalSet
  <2> QED BY <2>1, <2>2, <2>3, <2>5 DEF Base, Calibrating, Saving, Positions
<1>3. CASE CalibrationRates
  <2>1. UNCHANGED <<config, seekTo, cur, after, trace>> /\ pc = "calibrate" /\ pc' = "calibrated"
    BY <1>3 DEF CalibrationRates, entry, call, run
  <2>2. Rated(cal.q, trace)
    BY <1>3, RatesQueue
  <2>3. top' \in [Edge -> 0 .. Len(queue)]
    <3>1. Len(queue) \in Nat /\ Positions = 1 .. Len(queue)
      BY QueueFacts DEF Base
    <3> QED BY <2>2, <3>1 DEF Rated, ScoredBy, TopAfter, Base
  <2>4. cal' = [cal EXCEPT !.res = cal'.res] /\ cal'.res \in Results
    <3> DEFINE re == IF ~config.dumb /\ cal.firstRun /\ config.crashMode = "none" /\ cal.newBits = 0
                       THEN "nobits" ELSE config.crashMode
    <3>1. cal' = [cal EXCEPT !.res = re]
      BY <1>3 DEF CalibrationRates
    <3>2. re \in Results
      BY ConfigTypes DEF Base, Results
    <3> HIDE DEF re
    <3> QED BY <1>0, <3>1, <3>2 DEF CalSet
  <2>5. cal' \in CalSet /\ cal'.q = cal.q /\ cal'.return = cal.return
    BY <1>0, <2>4 DEF CalSet
  <2> QED BY <2>1, <2>2, <2>3, <2>5 DEF Base, Calibrating, Saving, Positions, Rated
<1>4. CASE CalibrationReturns
  <2>1. UNCHANGED <<config, top, seekTo, cur, after, trace, cal>> /\ pc = "calibrated" /\ pc' \in {cal.return, "pfatal"}
    BY <1>4 DEF CalibrationReturns, rating, entry, call, run, CreateThen
  <2>2. /\ Len(queue') = Len(queue) /\ queue' \in Seq(EntrySet)
    BY <1>4, ReturnsQueue DEF Changed, Base
  <2>3. cal.return \in {"dryRan", "recalibrated", "saved"}
    BY <1>0, <2>1 DEF CalSet, Returns, Base, Calibrating
  <2> QED BY <2>1, <2>2, <2>3 DEF Base, Calibrating, Saving, Positions
<1> QED BY <1>1, <1>2, <1>3, <1>4 DEF Calibrate

LEMMA FuzzBase ==
    ASSUME Base, StartFuzzing \/ Fuzz
    PROVE  Base'
<1>0. Len(queue) \in Nat /\ Positions = 1 .. Len(queue)
  BY QueueFacts DEF Base
<1>1. CASE StartFuzzing
  <2>1. /\ UNCHANGED <<config, top, seekTo, trace, cal, after>> /\ cur' = 0 /\ pc = "ready"
        /\ CullQueue(IF stopSoon THEN "end" ELSE "first")
    BY <1>1 DEF StartFuzzing, run, call
  <2>2. Len(queue') = Len(queue) /\ queue' \in Seq(EntrySet) /\ pc' \in {"end", "first", "pfatal"}
    BY <2>1, CullQueueQueue DEF Base
  <2> QED BY <1>0, <2>1, <2>2 DEF Base, Calibrating, Saving
<1>2. CASE PickEntry
  <2>1. /\ UNCHANGED <<config, top, trace, cal, after>> /\ pc \in {"first", "main"}
        /\ cur' = (IF cur = 0 THEN 1 + seekTo ELSE cur) /\ seekTo' = 0
        /\ \E next \in {"import", "entry"} : CullQueue(next)
    BY <1>2 DEF PickEntry, run, call
  <2>2. Len(queue') = Len(queue) /\ queue' \in Seq(EntrySet) /\ pc' \in {"import", "entry", "pfatal"}
    BY <2>1, CullQueueQueue DEF Base
  <2>3. cur' \in 1 .. Len(queue)
    BY <1>0, <2>1 DEF Base
  <2> QED BY <1>0, <2>1, <2>2, <2>3 DEF Base, Calibrating, Saving
<1>3. CASE TakeEntry
  <2>1. UNCHANGED <<config, top, seekTo, cur, trace, after>> /\ pc = "entry"
    BY <1>3 DEF TakeEntry, rating, entry, run, call
  <2>2. cur \in Positions /\ Len(queue') = Len(queue) /\ queue' \in Seq(EntrySet)
    BY <1>3, TakeQueue DEF Base, Changed
  <2>3. CASE HasChance
    <3>1. cal' \in CalSet /\ cal'.q = cur /\ cal'.return = "recalibrated" /\ pc' = "calibrate"
      BY <1>0, <1>3, <2>2, <2>3, StartsType DEF TakeEntry, Base, Returns
    <3> QED BY <1>0, <2>1, <2>2, <3>1 DEF Base, Calibrating, Saving, Positions
  <2>4. CASE ~ HasChance
    <3>1. pc' \in {"trim", "abandon"} /\ UNCHANGED cal
      BY <1>3, <2>4 DEF TakeEntry
    <3> QED BY <1>0, <2>1, <2>2, <3>1 DEF Base, Calibrating, Saving, Positions
  <2> QED BY <2>3, <2>4
<1>4. CASE ScoreEntry
  <2>1. UNCHANGED <<config, top, seekTo, cur, trace, cal, after>> /\ pc = "score" /\ pc' \in {"stage", "sigfpe"}
    BY <1>4 DEF ScoreEntry, rating, run, call
  <2>2. Len(queue') = Len(queue) /\ queue' \in Seq(EntrySet)
    BY <1>4, ScoreQueue DEF Changed
  <2> QED BY <2>1, <2>2 DEF Base, Calibrating, Saving, Positions
<1>5. CASE FinishDeterministic
  <2>1. UNCHANGED <<config, top, seekTo, cur, trace, cal, after>> /\ pc = "stage" /\ pc' \in {"stage", "pfatal"}
    BY <1>5 DEF FinishDeterministic, rating, run, call, CreateThen
  <2>2. Len(queue') = Len(queue) /\ queue' \in Seq(EntrySet)
    BY <1>5, DeterministicQueue DEF Changed, Base
  <2> QED BY <2>1, <2>2 DEF Base, Calibrating, Saving, Positions
<1>6. CASE LeaveEntry
  <2>1. UNCHANGED <<config, top, seekTo, cur, trace, cal, after>> /\ pc \in {"abandon", "finish"} /\ pc' \in {"advance", "sync"}
    BY <1>6 DEF LeaveEntry, rating, run, call
  <2>2. Len(queue') = Len(queue) /\ queue' \in Seq(EntrySet)
    BY <1>6, LeaveQueue DEF Changed, Base
  <2> QED BY <2>1, <2>2 DEF Base, Calibrating, Saving, Positions
<1>7. CASE SkipEntry \/ FinishStages \/ ImportEnds
  <2>1. Still /\ UNCHANGED <<seekTo, cur, trace, cal, after>> /\ pc \in {"entry", "stage", "sync", "import"}
        /\ pc' \in {"advance", "finish", "entry"}
    BY <1>7 DEF SkipEntry, FinishStages, ImportEnds, Importing, Imported, Still, rating, entry, run, call
  <2> QED BY <2>1 DEF Base, Still, Calibrating, Saving, Positions
<1>8. CASE Recalibrated
  <2>1. /\ Still /\ UNCHANGED <<seekTo, cur, after>> /\ pc = "recalibrated" /\ pc' \in {"fatal", "abandon", "trim"}
        /\ trace' = Empty /\ cal' = Idle
    BY <1>8 DEF Recalibrated, Still, rating, entry, call, Forget
  <2> QED BY <2>1, MapTypes DEF Base, Still, Calibrating, Saving, Positions
<1>9. CASE RunMutant \/ Import
  <2>1. /\ Still /\ UNCHANGED <<seekTo, cur, cal>> /\ pc \in {"stage", "sync", "import"}
        /\ pc' \in {"abandon", "advance", "entry"} \/ (pc' = "save" /\ after' \in {"stage", "sync", "import"})
    BY <1>9 DEF RunMutant, Import, Importing, Imported, Still, rating, entry
  <2>2. trace' \in Traces
    BY <1>9, RunTargetType DEF RunMutant, Import, Base
  <2> QED BY <2>1, <2>2 DEF Base, Still, Calibrating, Saving, Positions
<1>10. CASE Advance
  <2>1. /\ Still /\ UNCHANGED <<seekTo, trace, cal, after>> /\ pc = "advance"
        /\ \/ pc' = "end" /\ UNCHANGED cur
           \/ pc' = "main" /\ cur' = IF cur = Len(queue) THEN 0 ELSE cur + 1
    BY <1>10 DEF Advance, Still, rating, run, call
  <2>2. cur' \in 0 .. Len(queue)
    BY <1>0, <2>1 DEF Base
  <2> QED BY <2>1, <2>2 DEF Base, Still, Calibrating, Saving, Positions
<1> QED BY <1>1, <1>2, <1>3, <1>4, <1>5, <1>6, <1>7, <1>8, <1>9, <1>10 DEF Fuzz

LEMMA TrimBase ==
    ASSUME Base, Trim
    PROVE  Base'
<1>1. CASE TrimSkipped
  <2>1. Still /\ UNCHANGED <<seekTo, cur, trace, cal, after>> /\ pc = "trim" /\ pc' = "score"
    BY <1>1 DEF TrimSkipped, Still, rating, entry, run, call
  <2> QED BY <2>1 DEF Base, Still, Calibrating, Saving, Positions
<1>2. CASE TrimAborts \/ TrimFails \/ Trimmed
  <2>1. /\ UNCHANGED <<config, top, seekTo, cur, trace, cal, after>> /\ pc \in {"trim", "trimmed"}
        /\ pc' \in {"abandon", "fatal", "trimmed", "score"}
    BY <1>2 DEF TrimAborts, TrimFails, Trimmed, Trims, rating, entry, run, call
  <2>2. Len(queue') = Len(queue) /\ queue' \in Seq(EntrySet)
    BY <1>2, TrimQueue DEF Changed, TrimFails, Base
  <2> QED BY <2>1, <2>2 DEF Base, Calibrating, Saving, Positions
<1>3. CASE TrimShortens
  <2>1. /\ UNCHANGED <<config, seekTo, cur, cal, after>> /\ pc = "trim" /\ pc' = "trimmed" /\ trace' = Empty
    BY <1>3 DEF TrimShortens, Trims, entry, call, Forget
  <2>2. Rated(cur, queue[cur].cksum)
    BY <1>3, ShortensQueue
  <2>3. top' \in [Edge -> 0 .. Len(queue)]
    <3>1. Len(queue) \in Nat /\ Positions = 1 .. Len(queue)
      BY QueueFacts DEF Base
    <3> QED BY <2>2, <3>1 DEF Rated, ScoredBy, TopAfter, Base
  <2> QED BY <2>1, <2>2, <2>3, MapTypes DEF Base, Calibrating, Saving, Positions, Rated
<1> QED BY <1>1, <1>2, <1>3 DEF Trim

(* Every other action of save_if_interesting leaves the queue alone, and   *)
(* goes on in it, returns to its caller or stops the program.              *)
SavesNoEntry == Save /\ ~ SaveEntry

LEMMA SaveStill ==
    ASSUME SavesNoEntry
    PROVE  /\ Still /\ UNCHANGED <<seekTo, cur>> /\ Saving
           /\ cal' \in {cal, Idle}
           /\ trace' \in {trace, Empty, Judged} \/ RunTarget(ranAs')
           /\ \/ Saving' /\ UNCHANGED after
              \/ pc' = after
              \/ pc' \in {"fatal", "pfatal"}
BY DEF SavesNoEntry, Save, SaveNothing, SavedEntry, KeepNothing, HangDropped, HangUnique, RerunHang,
       KeepHang, CrashDropped, KeepCrash, NonTermDropped, KeepNonTerm, KeepError, FileAndReturn,
       Return, Forget, Switch, Still, Saving, CreateThen, AfterRerun, entry, rating, run, call, RunTarget

LEMMA SaveBase ==
    ASSUME Base, Save
    PROVE  Base'
<1>1. CASE SaveEntry
  <2>1. UNCHANGED <<config, top, seekTo, cur, trace, after>> /\ pc = "save"
    BY <1>1 DEF SaveEntry, entry, rating, run, call
  <2>2. Len(queue') = Len(queue) + 1 /\ queue' \in Seq(EntrySet) /\ Len(queue) \in Nat
    BY <1>1, SaveQueue, QueueFacts DEF Base
  <2>3. cal' \in CalSet /\ cal'.q = Len(queue) + 1 /\ cal'.return = "saved" /\ pc' = "calibrate"
    <3>1. StartCalibration(Append(queue, NewEntry(FALSE, trace)), Len(queue) + 1, "saved")
      BY <1>1 DEF SaveEntry
    <3>2. trace \in Traces /\ "saved" \in Returns /\ Len(queue) + 1 \in Nat
      BY <2>2 DEF Base, Returns
    <3> QED BY <3>1, <3>2, StartsType
  <2> QED BY <2>1, <2>2, <2>3 DEF Base, Calibrating, Saving, Positions
<1>2. CASE ~ SaveEntry
  <2>1. /\ Still /\ UNCHANGED <<seekTo, cur>> /\ Saving
        /\ cal' \in {cal, Idle}
        /\ trace' \in {trace, Empty, Judged} \/ RunTarget(ranAs')
        /\ \/ Saving' /\ UNCHANGED after
           \/ pc' = after
           \/ pc' \in {"fatal", "pfatal"}
    BY <1>2, SaveStill DEF SavesNoEntry
  <2>2. Judged \in Traces
    <3>1. Simplify(trace) \in Traces
      BY DEF Simplify, Traces
    <3> QED BY <3>1 DEF Judged, Base
  <2>3. trace' \in Traces
    BY <2>1, <2>2, MapTypes, RunTargetType DEF Base
  <2>4. cal' \in CalSet
    BY <2>1, MapTypes DEF Base
  <2> QED BY <2>1, <2>3, <2>4 DEF Base, Still, Calibrating, Saving, Positions
<1> QED BY <1>1, <1>2

LEMMA BaseNext == Base /\ [Next]_vars => Base'
<1> SUFFICES ASSUME Base, [Next]_vars PROVE Base'
  OBVIOUS
<1>1. CASE StopSignal \/ ShowStats \/ UNCHANGED vars
  <2>1. Still /\ UNCHANGED <<seekTo, cur, trace, cal, after, pc>>
    BY <1>1 DEF StopSignal, ShowStats, Stop, Still, vars, entry, rating, run, call
  <2> QED BY <2>1 DEF Base, Still, Calibrating, Saving, Positions
<1> QED BY <1>1, StartBase, CalibrateBase, FuzzBase, TrimBase, SaveBase DEF Next, Start

LEMMA BaseAlways == Spec => []Base
BY BaseInit, BaseNext, PTL DEF Spec

-----------------------------------------------------------------------------
(* Which fields of the entries an action leaves alone, by what they serve:  *)
(* the chances of an entry, its marks in the output directory, the culling. *)
SameLength == Len(queue') = Len(queue) /\ Positions' = Positions

KeepsChances ==
    \A i \in Positions :
        /\ queue'[i].calFailed = queue[i].calFailed /\ queue'[i].late = queue[i].late
        /\ queue'[i].tried = queue[i].tried /\ queue'[i].wasFuzzed = queue[i].wasFuzzed
KeepsMarks ==
    \A i \in Positions :
        /\ queue'[i].passedDet = queue[i].passedDet /\ queue'[i].variable = queue[i].variable
        /\ queue'[i].redundant = queue[i].redundant
KeepsFavored == \A i \in Positions : queue'[i].favored = queue[i].favored
KeepsMinis ==
    \A i \in Positions : queue'[i].mini = queue[i].mini /\ queue'[i].refs = queue[i].refs
KeepsCksum == \A i \in Positions : queue'[i].cksum = queue[i].cksum

(* The entry q after one of its fields was set.                            *)
LEMMA ChangedFields ==
    ASSUME Base, NEW q \in Positions, NEW r \in EntrySet, Changed(q, r)
    PROVE  /\ SameLength /\ queue[q] \in EntrySet /\ queue'[q] = r
           /\ \A i \in Positions : i # q => queue'[i] = queue[i]
BY QueueFacts DEF Base, Changed, SameLength, Positions

LEMMA TraceMaps == Base /\ CalibrationRun => trace' \in Maps
BY RunTargetType, MapTypes DEF CalibrationRun, Base

LEMMA StillFields ==
    ASSUME Base, UNCHANGED queue
    PROVE  SameLength /\ KeepsChances /\ KeepsMarks /\ KeepsFavored /\ KeepsMinis /\ KeepsCksum
BY DEF SameLength, KeepsChances, KeepsMarks, KeepsFavored, KeepsMinis, KeepsCksum, Positions

LEMMA AbortsFields ==
    ASSUME Base, CalibrationAborts
    PROVE  /\ cal.q \in Positions /\ SameLength /\ KeepsMarks /\ KeepsFavored /\ KeepsMinis /\ KeepsCksum
           /\ \A i \in Positions :
                /\ queue'[i].late <=> queue[i].late \/ i = cal.q
                /\ queue'[i].calFailed = queue[i].calFailed /\ queue'[i].tried = queue[i].tried
                /\ queue'[i].wasFuzzed = queue[i].wasFuzzed
<1> DEFINE r == [queue[cal.q] EXCEPT !.late = TRUE]
<1>1. cal.q \in Positions /\ queue[cal.q] \in EntrySet /\ Changed(cal.q, r)
  BY AbortsQueue, QueueFacts DEF Base
<1>2. r \in EntrySet
  BY <1>1 DEF EntrySet
<1>3. /\ SameLength /\ queue'[cal.q] = r
      /\ \A i \in Positions : i # cal.q => queue'[i] = queue[i]
  <2> HIDE DEF r
  <2> QED BY <1>1, <1>2, ChangedFields
<1> QED BY <1>1, <1>3 DEF EntrySet, KeepsMarks, KeepsFavored, KeepsMinis, KeepsCksum

LEMMA RunFields ==
    ASSUME Base, CalibrationRun
    PROVE  /\ cal.q \in Positions /\ SameLength /\ KeepsChances /\ KeepsMarks /\ KeepsFavored /\ KeepsMinis
           /\ \A i \in Positions :
                /\ queue'[i].cksum = IF i = cal.q /\ queue[cal.q].cksum = Unknown THEN trace' ELSE queue[i].cksum
<1> DEFINE r == [queue[cal.q] EXCEPT !.cksum = trace']
<1>1. /\ cal.q \in Positions /\ queue[cal.q] \in EntrySet
      /\ IF queue[cal.q].cksum = Unknown THEN Changed(cal.q, r) ELSE UNCHANGED queue
  BY RunQueue, QueueFacts DEF Base
<1>2. r \in EntrySet
  BY <1>1, TraceMaps DEF EntrySet
<1>3. CASE queue[cal.q].cksum = Unknown
  <2>1. /\ SameLength /\ queue'[cal.q] = r
        /\ \A i \in Positions : i # cal.q => queue'[i] = queue[i]
    <3> HIDE DEF r
    <3> QED BY <1>1, <1>2, <1>3, ChangedFields
  <2> QED BY <1>1, <1>3, <2>1 DEF EntrySet, KeepsChances, KeepsMarks, KeepsFavored, KeepsMinis
<1>4. CASE ~ (queue[cal.q].cksum = Unknown)
  BY <1>1, <1>4, StillFields DEF SameLength, KeepsChances, KeepsMarks, KeepsFavored, KeepsMinis, KeepsCksum
<1> QED BY <1>3, <1>4

LEMMA ReturnsFields ==
    ASSUME Base, CalibrationReturns
    PROVE  /\ cal.q \in Positions /\ SameLength /\ KeepsChances /\ KeepsFavored /\ KeepsMinis /\ KeepsCksum
           /\ \A i \in Positions :
                /\ queue'[i].variable <=> queue[i].variable \/ (i = cal.q /\ BecomesVariable)
                /\ queue'[i].passedDet = queue[i].passedDet /\ queue'[i].redundant = queue[i].redundant
<1> DEFINE r == [queue[cal.q] EXCEPT !.variable = TRUE]
<1>1. /\ cal.q \in Positions /\ queue[cal.q] \in EntrySet
      /\ IF BecomesVariable THEN Changed(cal.q, r) ELSE UNCHANGED queue
  BY ReturnsQueue, QueueFacts DEF Base
<1>2. r \in EntrySet
  BY <1>1 DEF EntrySet
<1>3. CASE BecomesVariable
  <2>1. /\ SameLength /\ queue'[cal.q] = r
        /\ \A i \in Positions : i # cal.q => queue'[i] = queue[i]
    <3> HIDE DEF r
    <3> QED BY <1>1, <1>2, <1>3, ChangedFields
  <2> QED BY <1>1, <1>3, <2>1 DEF EntrySet, KeepsChances, KeepsFavored, KeepsMinis, KeepsCksum
<1>4. CASE ~ BecomesVariable
  BY <1>1, <1>4, StillFields DEF SameLength, KeepsChances, KeepsFavored, KeepsMinis, KeepsCksum, KeepsMarks
<1> QED BY <1>3, <1>4

LEMMA DryRunFields ==
    ASSUME Base, DryRun
    PROVE  /\ cur \in Positions /\ SameLength /\ KeepsMarks /\ KeepsFavored /\ KeepsMinis /\ KeepsCksum
           /\ \A i \in Positions :
                /\ queue'[i].calFailed = IF i = cur THEN queue[i].calFailed + 1 ELSE queue[i].calFailed
                /\ queue'[i].late = queue[i].late /\ queue'[i].tried = queue[i].tried
                /\ queue'[i].wasFuzzed = queue[i].wasFuzzed
<1> DEFINE r == [queue[cur] EXCEPT !.calFailed = queue[cur].calFailed + 1]
<1>1. cur \in Positions /\ queue[cur] \in EntrySet /\ Changed(cur, r)
  BY DryRunQueue, QueueFacts DEF Base
<1>2. r \in EntrySet
  BY <1>1 DEF EntrySet
<1>3. /\ SameLength /\ queue'[cur] = r
      /\ \A i \in Positions : i # cur => queue'[i] = queue[i]
  <2> HIDE DEF r
  <2> QED BY <1>1, <1>2, ChangedFields
<1> QED BY <1>1, <1>3 DEF EntrySet, KeepsMarks, KeepsFavored, KeepsMinis, KeepsCksum

LEMMA DryRunGoesOnFields ==
    ASSUME Base, DryRunGoesOn
    PROVE  /\ cur \in Positions /\ SameLength /\ KeepsMarks /\ KeepsFavored /\ KeepsMinis /\ KeepsCksum
           /\ \A i \in Positions :
                /\ queue'[i].calFailed = IF i = cur /\ DryRunSkips THEN CalChances ELSE queue[i].calFailed
                /\ queue'[i].late = queue[i].late /\ queue'[i].tried = queue[i].tried
                /\ queue'[i].wasFuzzed = queue[i].wasFuzzed
<1> DEFINE r == [queue[cur] EXCEPT !.calFailed = CalChances]
<1>1. /\ cur \in Positions /\ queue[cur] \in EntrySet
      /\ IF DryRunSkips THEN Changed(cur, r) ELSE UNCHANGED queue
  BY DryRunGoesOnQueue, QueueFacts DEF Base
<1>2. r \in EntrySet
  BY <1>1, LimitsTyped DEF EntrySet
<1>3. CASE DryRunSkips
  <2>1. /\ SameLength /\ queue'[cur] = r
        /\ \A i \in Positions : i # cur => queue'[i] = queue[i]
    <3> HIDE DEF r
    <3> QED BY <1>1, <1>2, <1>3, ChangedFields
  <2> QED BY <1>1, <1>3, <2>1 DEF EntrySet, KeepsMarks, KeepsFavored, KeepsMinis, KeepsCksum
<1>4. CASE ~ DryRunSkips
  BY <1>1, <1>4, StillFields DEF SameLength, KeepsMarks, KeepsFavored, KeepsMinis, KeepsCksum, KeepsChances
<1> QED BY <1>3, <1>4

LEMMA TakeFields ==
    ASSUME Base, TakeEntry
    PROVE  /\ cur \in Positions /\ SameLength /\ KeepsMarks /\ KeepsFavored /\ KeepsMinis
           /\ \A i \in Positions :
                /\ queue'[i].calFailed = IF i = cur /\ HasChance THEN queue[i].calFailed + 1 ELSE queue[i].calFailed
                /\ queue'[i].cksum = IF i = cur /\ HasChance THEN Unknown ELSE queue[i].cksum
                /\ queue'[i].late = queue[i].late /\ queue'[i].tried = queue[i].tried
                /\ queue'[i].wasFuzzed = queue[i].wasFuzzed
<1> DEFINE r == [queue[cur] EXCEPT !.calFailed = queue[cur].calFailed + 1, !.cksum = Unknown]
<1>1. /\ cur \in Positions /\ queue[cur] \in EntrySet
      /\ IF HasChance THEN Changed(cur, r) ELSE UNCHANGED queue
  BY TakeQueue, QueueFacts DEF Base
<1>2. r \in EntrySet
  BY TakeQueue
<1>a. /\ r.calFailed = queue[cur].calFailed + 1 /\ r.cksum = Unknown
      /\ r.late = queue[cur].late /\ r.tried = queue[cur].tried /\ r.wasFuzzed = queue[cur].wasFuzzed
      /\ r.passedDet = queue[cur].passedDet /\ r.variable = queue[cur].variable
      /\ r.redundant = queue[cur].redundant /\ r.favored = queue[cur].favored
      /\ r.mini = queue[cur].mini /\ r.refs = queue[cur].refs
  <2> DEFINE a == [queue[cur] EXCEPT !.cksum = Unknown]
  <2>1. r = [a EXCEPT !.calFailed = queue[cur].calFailed + 1] /\ a \in EntrySet
    BY <1>1, MapTypes DEF EntrySet
  <2>2. /\ a.cksum = Unknown
        /\ a.late = queue[cur].late /\ a.tried = queue[cur].tried /\ a.wasFuzzed = queue[cur].wasFuzzed
        /\ a.passedDet = queue[cur].passedDet /\ a.variable = queue[cur].variable
        /\ a.redundant = queue[cur].redundant /\ a.favored = queue[cur].favored
        /\ a.mini = queue[cur].mini /\ a.refs = queue[cur].refs
    BY <1>1, MapTypes DEF EntrySet
  <2> HIDE DEF a, r
  <2> QED BY <2>1, <2>2 DEF EntrySet
<1>3. CASE HasChance
  <2>1. /\ SameLength /\ queue'[cur] = r
        /\ \A i \in Positions : i # cur => queue'[i] = queue[i]
    <3> HIDE DEF r
    <3> QED BY <1>1, <1>2, <1>3, ChangedFields
  <2>2. /\ queue'[cur].calFailed = queue[cur].calFailed + 1 /\ queue'[cur].cksum = Unknown
        /\ queue'[cur].late = queue[cur].late /\ queue'[cur].tried = queue[cur].tried
        /\ queue'[cur].wasFuzzed = queue[cur].wasFuzzed
        /\ queue'[cur].passedDet = queue[cur].passedDet /\ queue'[cur].variable = queue[cur].variable
        /\ queue'[cur].redundant = queue[cur].redundant /\ queue'[cur].favored = queue[cur].favored
        /\ queue'[cur].mini = queue[cur].mini /\ queue'[cur].refs = queue[cur].refs
    <3> HIDE DEF r
    <3> QED BY <1>a, <2>1
  <2> HIDE DEF r
  <2> QED BY <1>1, <1>3, <2>1, <2>2 DEF KeepsMarks, KeepsFavored, KeepsMinis
<1>4. CASE ~ HasChance
  BY <1>1, <1>4, StillFields DEF SameLength, KeepsMarks, KeepsFavored, KeepsMinis, KeepsChances, KeepsCksum
<1> QED BY <1>3, <1>4

LEMMA ScoreFields ==
    ASSUME Base, ScoreEntry
    PROVE  /\ cur \in Positions /\ SameLength /\ KeepsMarks /\ KeepsFavored /\ KeepsMinis /\ KeepsCksum
           /\ \A i \in Positions :
                /\ queue'[i].tried <=> queue[i].tried \/ i = cur
                /\ queue'[i].calFailed = queue[i].calFailed /\ queue'[i].late = queue[i].late
                /\ queue'[i].wasFuzzed = queue[i].wasFuzzed
<1> DEFINE r == [queue[cur] EXCEPT !.tried = TRUE]
<1>1. cur \in Positions /\ queue[cur] \in EntrySet /\ Changed(cur, r)
  BY ScoreQueue, QueueFacts DEF Base
<1>2. r \in EntrySet
  BY <1>1 DEF EntrySet
<1>3. /\ SameLength /\ queue'[cur] = r
      /\ \A i \in Positions : i # cur => queue'[i] = queue[i]
  <2> HIDE DEF r
  <2> QED BY <1>1, <1>2, ChangedFields
<1> QED BY <1>1, <1>3 DEF EntrySet, KeepsMarks, KeepsFavored, KeepsMinis, KeepsCksum

LEMMA DeterministicFields ==
    ASSUME Base, FinishDeterministic
    PROVE  /\ cur \in Positions /\ SameLength /\ KeepsChances /\ KeepsFavored /\ KeepsMinis /\ KeepsCksum
           /\ \A i \in Positions :
                /\ queue'[i].passedDet <=> queue[i].passedDet \/ (i = cur /\ ~ queue[cur].passedDet)
                /\ queue'[i].variable = queue[i].variable /\ queue'[i].redundant = queue[i].redundant
<1> DEFINE r == [queue[cur] EXCEPT !.passedDet = TRUE]
<1>1. /\ cur \in Positions /\ queue[cur] \in EntrySet
      /\ IF ~ queue[cur].passedDet THEN Changed(cur, r) ELSE UNCHANGED queue
  BY DeterministicQueue, QueueFacts DEF Base
<1>2. r \in EntrySet
  BY <1>1 DEF EntrySet
<1>3. CASE ~ queue[cur].passedDet
  <2>1. /\ SameLength /\ queue'[cur] = r
        /\ \A i \in Positions : i # cur => queue'[i] = queue[i]
    <3> HIDE DEF r
    <3> QED BY <1>1, <1>2, <1>3, ChangedFields
  <2> QED BY <1>1, <1>3, <2>1 DEF EntrySet, KeepsChances, KeepsFavored, KeepsMinis, KeepsCksum
<1>4. CASE ~ (~ queue[cur].passedDet)
  BY <1>1, <1>4, StillFields DEF SameLength, KeepsChances, KeepsFavored, KeepsMinis, KeepsCksum, KeepsMarks
<1> QED BY <1>3, <1>4

LEMMA LeaveFields ==
    ASSUME Base, LeaveEntry
    PROVE  /\ cur \in Positions /\ SameLength /\ KeepsMarks /\ KeepsFavored /\ KeepsMinis /\ KeepsCksum
           /\ \A i \in Positions :
                /\ queue'[i].wasFuzzed <=> queue[i].wasFuzzed \/ (i = cur /\ CountsAsFuzzed)
                /\ queue'[i].calFailed = queue[i].calFailed /\ queue'[i].late = queue[i].late
                /\ queue'[i].tried = queue[i].tried
<1> DEFINE r == [queue[cur] EXCEPT !.wasFuzzed = TRUE]
<1>1. /\ cur \in Positions /\ queue[cur] \in EntrySet
      /\ IF CountsAsFuzzed THEN Changed(cur, r) ELSE UNCHANGED queue
  BY LeaveQueue, QueueFacts DEF Base
<1>2. r \in EntrySet
  BY <1>1 DEF EntrySet
<1>3. CASE CountsAsFuzzed
  <2>1. /\ SameLength /\ queue'[cur] = r
        /\ \A i \in Positions : i # cur => queue'[i] = queue[i]
    <3> HIDE DEF r
    <3> QED BY <1>1, <1>2, <1>3, ChangedFields
  <2> QED BY <1>1, <1>3, <2>1 DEF EntrySet, KeepsMarks, KeepsFavored, KeepsMinis, KeepsCksum
<1>4. CASE ~ CountsAsFuzzed
  BY <1>1, <1>4, StillFields DEF SameLength, KeepsMarks, KeepsFavored, KeepsMinis, KeepsCksum, KeepsChances
<1> QED BY <1>3, <1>4

LEMMA TrimFields ==
    ASSUME Base, TrimSkipped \/ TrimAborts \/ TrimFails \/ Trimmed
    PROVE  SameLength /\ KeepsChances /\ KeepsMarks /\ KeepsFavored /\ KeepsMinis /\ KeepsCksum
<1>1. CASE TrimSkipped \/ TrimFails
  BY <1>1, StillFields DEF TrimSkipped, TrimFails
<1>2. CASE TrimAborts
  <2>1. PICK c \in Nat : Changed(cur, [queue[cur] EXCEPT !.factor = c])
    BY <1>2, TrimQueue
  <2> DEFINE r == [queue[cur] EXCEPT !.factor = c]
  <2>2. cur \in Positions /\ queue[cur] \in EntrySet
    BY <1>2, TrimQueue, QueueFacts DEF Base
  <2>3. r \in EntrySet
    BY <2>2 DEF EntrySet
  <2>4. /\ SameLength /\ queue'[cur] = r
        /\ \A i \in Positions : i # cur => queue'[i] = queue[i]
    <3>1. Changed(cur, r)
      BY <2>1
    <3> HIDE DEF r
    <3> QED BY <2>2, <2>3, <3>1, ChangedFields
  <2> QED BY <2>2, <2>4 DEF EntrySet, KeepsChances, KeepsMarks, KeepsFavored, KeepsMinis, KeepsCksum
<1>3. CASE Trimmed
  <2>1. PICK b \in BOOLEAN : Changed(cur, [queue[cur] EXCEPT !.trimDone = b])
    BY <1>3, TrimQueue
  <2> DEFINE r == [queue[cur] EXCEPT !.trimDone = b]
  <2>2. cur \in Positions /\ queue[cur] \in EntrySet /\ Changed(cur, r)
    BY <1>3, <2>1, TrimQueue, QueueFacts DEF Base
  <2>3. r \in EntrySet
    BY <2>2 DEF EntrySet
  <2>4. /\ SameLength /\ queue'[cur] = r
        /\ \A i \in Positions : i # cur => queue'[i] = queue[i]
    <3> HIDE DEF r
    <3> QED BY <2>2, <2>3, ChangedFields
  <2> QED BY <2>2, <2>4 DEF EntrySet, KeepsChances, KeepsMarks, KeepsFavored, KeepsMinis, KeepsCksum
<1> QED BY <1>1, <1>2, <1>3

LEMMA RatesFields ==
    ASSUME Base, CalibrationRates
    PROVE  /\ cal.q \in Positions /\ SameLength /\ KeepsMarks /\ KeepsFavored /\ KeepsCksum
           /\ \A i \in Positions :
                /\ queue'[i].calFailed = IF i = cal.q THEN 0 ELSE queue[i].calFailed
                /\ queue'[i].late = queue[i].late /\ queue'[i].tried = queue[i].tried
                /\ queue'[i].wasFuzzed = queue[i].wasFuzzed
<1>1. Rated(cal.q, trace)
  BY RatesQueue
<1>2. SameLength
  BY <1>1 DEF Rated, SameLength, Positions
<1> QED BY <1>1, <1>2, RatesQueue DEF Rated, KeepsMarks, KeepsFavored, KeepsCksum

LEMMA ShortensFields ==
    ASSUME Base, TrimShortens
    PROVE  /\ cur \in Positions /\ SameLength /\ KeepsChances /\ KeepsMarks /\ KeepsFavored /\ KeepsCksum
<1>1. Rated(cur, queue[cur].cksum)
  BY ShortensQueue
<1>2. SameLength
  BY <1>1 DEF Rated, SameLength, Positions
<1> QED BY <1>1, <1>2, ShortensQueue DEF Rated, KeepsChances, KeepsMarks, KeepsFavored, KeepsCksum

LEMMA CullFields ==
    ASSUME Base, NEW next, CullQueue(next), ~ (config.dumb \/ ~ scoreChanged)
    PROVE  /\ SameLength /\ KeepsChances /\ KeepsMinis /\ KeepsCksum /\ ~ scoreChanged'
           /\ \A i \in Positions :
                /\ queue'[i].favored = (i \in Culled.winners)
                /\ queue'[i].redundant = ~ (i \in Culled.winners)
                /\ queue'[i].passedDet = queue[i].passedDet /\ queue'[i].variable = queue[i].variable
<1> DEFINE w == Culled.winners
<1>1. /\ Len(queue') = Len(queue) /\ ~ scoreChanged'
      /\ \A q \in Positions : queue'[q] = [queue[q] EXCEPT !.favored = (q \in w), !.redundant = ~ (q \in w)]
  BY CullQueueQueue
<1>2. \A q \in Positions : queue[q] \in EntrySet
  BY QueueFacts DEF Base
<1>3. SameLength
  BY <1>1 DEF SameLength, Positions
<1> HIDE DEF w
<1>4. ASSUME NEW i \in Positions
      PROVE  /\ queue'[i].favored = (i \in w) /\ queue'[i].redundant = ~ (i \in w)
             /\ queue'[i].passedDet = queue[i].passedDet /\ queue'[i].variable = queue[i].variable
             /\ queue'[i].calFailed = queue[i].calFailed /\ queue'[i].late = queue[i].late
             /\ queue'[i].tried = queue[i].tried /\ queue'[i].wasFuzzed = queue[i].wasFuzzed
             /\ queue'[i].mini = queue[i].mini /\ queue'[i].refs = queue[i].refs /\ queue'[i].cksum = queue[i].cksum
  <2> DEFINE b == i \in w
  <2>1. queue'[i] = [queue[i] EXCEPT !.favored = b, !.redundant = ~ b] /\ queue[i] \in EntrySet
    BY <1>1, <1>2
  <2> HIDE DEF b
  <2>2. /\ queue'[i].favored = b /\ queue'[i].redundant = ~ b
        /\ queue'[i].passedDet = queue[i].passedDet /\ queue'[i].variable = queue[i].variable
        /\ queue'[i].calFailed = queue[i].calFailed /\ queue'[i].late = queue[i].late
        /\ queue'[i].tried = queue[i].tried /\ queue'[i].wasFuzzed = queue[i].wasFuzzed
        /\ queue'[i].mini = queue[i].mini /\ queue'[i].refs = queue[i].refs /\ queue'[i].cksum = queue[i].cksum
    BY <2>1 DEF EntrySet
  <2> QED BY <2>2 DEF b
<1> QED BY <1>1, <1>3, <1>4 DEF KeepsChances, KeepsMinis, KeepsCksum, w

(* The entry save_if_interesting adds.                                     *)
LEMMA SaveFields ==
    ASSUME Base, SaveEntry
    PROVE  LET k == Len(queue) + 1
           IN  /\ Len(queue') = k /\ Positions' = Positions \cup {k} /\ k \notin Positions
               /\ KeepsChances /\ KeepsMarks /\ KeepsFavored /\ KeepsMinis /\ KeepsCksum
               /\ queue'[k].calFailed = 1 /\ ~ queue'[k].late /\ ~ queue'[k].tried /\ ~ queue'[k].wasFuzzed
               /\ ~ queue'[k].passedDet /\ ~ queue'[k].variable /\ ~ queue'[k].redundant /\ ~ queue'[k].favored
               /\ queue'[k].mini = {} /\ queue'[k].refs = 0 /\ queue'[k].cksum = trace
<1> DEFINE k == Len(queue) + 1
<1>1. /\ Len(queue') = k /\ \A i \in Positions : queue'[i] = queue[i]
      /\ queue'[k] = [NewEntry(FALSE, trace) EXCEPT !.calFailed = 1]
  BY SaveQueue
<1>2. Len(queue) \in Nat /\ Positions = 1 .. Len(queue)
  BY QueueFacts DEF Base
<1>3. Positions' = Positions \cup {k} /\ k \notin Positions
  BY <1>1, <1>2 DEF Positions
<1> HIDE DEF k
<1> QED BY <1>1, <1>3 DEF NewEntry, KeepsChances, KeepsMarks, KeepsFavored, KeepsMinis, KeepsCksum, k

-----------------------------------------------------------------------------
(* The reference counts.                                                   *)
LEMMA HeldFacts ==
    ASSUME NEW q
    PROVE  IsFiniteSet(Held(q)) /\ Cardinality(Held(q)) \in Nat /\ (Cardinality(Held(q)) = 0 <=> Held(q) = {})
<1>1. Held(q) \in SUBSET Edge
  BY DEF Held
<1> QED BY <1>1, EdgeSets, FS_EmptySet

LEMMA DisjointCount ==
    ASSUME NEW A \in SUBSET Edge, NEW B \in SUBSET Edge, A \cap B = {}
    PROVE  Cardinality(A \cup B) = Cardinality(A) + Cardinality(B)
<1>1. IsFiniteSet(A) /\ IsFiniteSet(B) /\ Cardinality(A) \in Nat /\ Cardinality(B) \in Nat
  BY EdgeSets
<1>2. Cardinality(A \cup B) = Cardinality(A) + Cardinality(B) - Cardinality(A \cap B)
  BY <1>1, FS_Union
<1>3. Cardinality(A \cap B) = 0
  BY FS_EmptySet
<1> QED BY <1>1, <1>2, <1>3

LEMMA RatedReferences ==
    ASSUME Base, WinnersReferenced, NEW q, NEW t, Rated(q, t)
    PROVE  WinnersReferenced'
<1>1. q \in Positions /\ Len(queue') = Len(queue)
  BY DEF Rated
<1>2. PICK won \in SUBSET Edge : ScoredBy(q, t, won)
  BY DEF Rated
<1>3. /\ won \subseteq Hit(t)
      /\ top' = TopAfter(q, won)
  BY <1>2 DEF ScoredBy
<1>4. top \in [Edge -> 0 .. Len(queue)]
  BY DEF Base
<1>5. Held(q)' = Held(q) \cup won /\ \A o \in Positions \ {q} : Held(o)' = Held(o) \ won /\ Lost(o, won) = Held(o) \cap won
  BY <1>3, <1>4 DEF Held, TopAfter, Lost
<1>6. queue'[q].refs = Cardinality(Held(q)')
  <2>1. Held(q)' = Held(q) \cup (won \ Held(q)) /\ Held(q) \cap (won \ Held(q)) = {}
    BY <1>5
  <2>2. won \ Held(q) \in SUBSET Edge /\ Held(q) \in SUBSET Edge
    BY DEF Held
  <2>3. Cardinality(Held(q)') = Cardinality(Held(q)) + Cardinality(won \ Held(q))
    BY <2>1, <2>2, DisjointCount
  <2> QED BY <1>1, <1>2, <2>3 DEF ScoredBy, Gained, WinnersReferenced
<1>7. (queue'[q].mini = {}) <=> (Held(q)' = {})
  <2>1. CASE won = {}
    BY <1>1, <1>2, <1>5, <2>1 DEF ScoredBy, Refreshed, WinnersReferenced
  <2>2. CASE won # {} /\ Refreshed(q, won)
    BY <1>2, <1>3, <1>5, <2>2 DEF ScoredBy
  <2>3. CASE won # {} /\ ~ Refreshed(q, won)
    <3>1. queue[q].refs # 0
      BY <2>3 DEF Refreshed
    <3>2. Held(q) # {}
      BY <1>1, <3>1, HeldFacts DEF WinnersReferenced
    <3> QED BY <1>1, <1>2, <1>5, <2>3, <3>2 DEF ScoredBy, WinnersReferenced
  <2> QED BY <2>1, <2>2, <2>3
<1>8. ASSUME NEW o \in Positions, o # q
      PROVE  queue'[o].refs = Cardinality(Held(o)') /\ ((queue'[o].mini = {}) <=> (Held(o)' = {}))
  <2>1. Held(o) = Held(o)' \cup Lost(o, won) /\ Held(o)' \cap Lost(o, won) = {} /\ Lost(o, won) \in SUBSET Edge
        /\ Held(o)' \in SUBSET Edge
    BY <1>5, <1>8 DEF Held
  <2>2. Cardinality(Held(o)) = Cardinality(Held(o)') + Cardinality(Lost(o, won))
    BY <2>1, DisjointCount
  <2>3. Cardinality(Held(o)') \in Nat /\ Cardinality(Lost(o, won)) \in Nat
    BY <2>1, EdgeSets
  <2>4. /\ queue'[o].refs = queue[o].refs - Cardinality(Lost(o, won))
        /\ queue'[o].mini = IF Lost(o, won) # {} /\ queue[o].refs = Cardinality(Lost(o, won))
                              THEN {} ELSE queue[o].mini
        /\ queue[o].refs = Cardinality(Held(o))
        /\ (queue[o].mini = {}) <=> (Held(o) = {})
    BY <1>2, <1>8 DEF ScoredBy, WinnersReferenced
  <2>5. Cardinality(Held(o)') = 0 <=> Held(o)' = {}
    BY <2>1, EdgeSets, FS_EmptySet
  <2>6. Lost(o, won) = {} => Held(o)' = Held(o)
    BY <2>1
  <2>7. CASE Held(o)' = {}
    BY <2>1, <2>2, <2>3, <2>4, <2>5, <2>7
  <2>8. CASE Held(o)' # {}
    BY <2>1, <2>2, <2>3, <2>4, <2>5, <2>8
  <2> QED BY <2>2, <2>3, <2>4, <2>7, <2>8
<1> QED BY <1>1, <1>6, <1>7, <1>8 DEF WinnersReferenced, Positions

(* Whatever else a step does to an entry.                                  *)
SameReferences ==
    /\ UNCHANGED top
    /\ Len(queue') \in Nat /\ Len(queue') >= Len(queue)
    /\ \A i \in Positions : queue'[i].refs = queue[i].refs /\ queue'[i].mini = queue[i].mini
    /\ \A i \in Positions' \ Positions : queue'[i].refs = 0 /\ queue'[i].mini = {}

LEMMA ReferencesKept ==
    ASSUME Base, WinnersReferenced, SameReferences
    PROVE  WinnersReferenced'
<1>1. \A i : Held(i)' = Held(i)
  BY DEF SameReferences, Held
<1>2. \A i \in Positions' \ Positions : Held(i) = {}
  <2>1. top \in [Edge -> 0 .. Len(queue)] /\ Len(queue) \in Nat
    BY QueueFacts DEF Base
  <2> QED BY <2>1 DEF Held, Positions, SameReferences
<1>3. Cardinality({}) = 0
  BY FS_EmptySet
<1> QED BY <1>1, <1>2, <1>3 DEF WinnersReferenced, SameReferences

LEMMA StillReferences ==
    ASSUME Base, UNCHANGED top, SameLength, KeepsMinis
    PROVE  SameReferences
BY QueueFacts DEF Base, SameLength, KeepsMinis, SameReferences

LEMMA ReferencesNext == Base /\ WinnersReferenced /\ [Next]_vars => WinnersReferenced'
<1> SUFFICES ASSUME Base, WinnersReferenced, [Next]_vars PROVE WinnersReferenced'
  OBVIOUS
<1>1. CASE CalibrationRates
  BY <1>1, RatesQueue, RatedReferences
<1>2. CASE TrimShortens
  BY <1>2, ShortensQueue, RatedReferences
<1>3. CASE SaveEntry
  <2> DEFINE k == Len(queue) + 1
  <2>1. /\ Len(queue') = k /\ Positions' = Positions \cup {k} /\ k \notin Positions /\ KeepsMinis
        /\ queue'[k].mini = {} /\ queue'[k].refs = 0
    BY <1>3, SaveFields
  <2>2. Len(queue) \in Nat /\ UNCHANGED top
    BY <1>3, QueueFacts DEF Base, SaveEntry, rating
  <2>3. SameReferences
    BY <2>1, <2>2 DEF SameReferences, KeepsMinis
  <2> QED BY <2>3, ReferencesKept
<1>4. CASE StartFuzzing \/ PickEntry
  <2>1. UNCHANGED top /\ \E next : CullQueue(next)
    BY <1>4 DEF StartFuzzing, PickEntry
  <2>2. SameLength /\ KeepsMinis
    <3>1. CASE config.dumb \/ ~ scoreChanged
      BY <2>1, <3>1, StillFields DEF CullQueue
    <3> QED BY <2>1, <3>1, CullFields
  <2> QED BY <2>1, <2>2, StillReferences, ReferencesKept
<1>5. CASE Calibrate /\ ~ CalibrationRates
  <2>1. UNCHANGED top
    BY <1>5 DEF Calibrate, CalibrationAborts, CalibrationRun, CalibrationReturns, rating
  <2>2. SameLength /\ KeepsMinis
    BY <1>5, AbortsFields, RunFields, ReturnsFields DEF Calibrate
  <2> QED BY <2>1, <2>2, StillReferences, ReferencesKept
<1>6. CASE \/ DryRun \/ DryRunGoesOn \/ TakeEntry \/ TrimSkipped \/ TrimAborts \/ TrimFails \/ Trimmed
           \/ ScoreEntry \/ FinishDeterministic \/ LeaveEntry
  <2>1. UNCHANGED top
    BY <1>6 DEF DryRun, DryRunGoesOn, TakeEntry, TrimSkipped, TrimAborts, TrimFails, Trimmed, ScoreEntry,
         FinishDeterministic, LeaveEntry, rating
  <2>2. SameLength /\ KeepsMinis
    BY <1>6, DryRunFields, DryRunGoesOnFields, TakeFields, TrimFields, ScoreFields,
         DeterministicFields, LeaveFields
  <2> QED BY <2>1, <2>2, StillReferences, ReferencesKept
<1>7. CASE \/ DryRunStops \/ SkipEntry \/ FinishStages \/ ImportEnds \/ Recalibrated \/ RunMutant
           \/ Import \/ Advance \/ StopSignal \/ ShowStats \/ UNCHANGED vars \/ SavesNoEntry
  <2>1. Still
    BY <1>7, SaveStill DEF DryRunStops, SkipEntry, FinishStages, ImportEnds, Recalibrated, RunMutant,
       Import, Advance, StopSignal, ShowStats, Stop, Still, vars, rating
  <2> QED BY <2>1, StillFields, StillReferences, ReferencesKept DEF Still
<1> QED BY <1>1, <1>2, <1>3, <1>4, <1>5, <1>6, <1>7
        DEF Next, Calibrate, Start, Trim, Fuzz, SavesNoEntry

LEMMA InitEntries ==
    ASSUME Init
    PROVE  /\ Positions = 1 .. config.seeds
           /\ \A q \in Positions : \E d \in BOOLEAN : queue[q] = NewEntry(d, Unknown)
<1>1. queue \in [1 .. config.seeds -> {NewEntry(d, Unknown) : d \in BOOLEAN}]
  BY DEF Init
<1>2. Positions = 1 .. Len(queue) /\ Len(queue) = config.seeds
  <2>1. Len(queue) \in Nat /\ DOMAIN queue = 1 .. Len(queue)
    BY BaseInit, QueueFacts DEF Base
  <2>2. DOMAIN queue = 1 .. config.seeds /\ config.seeds \in Nat
    BY BaseInit, <1>1, ConfigTypes DEF Base
  <2> QED BY <2>1, <2>2 DEF Positions
<1> QED BY <1>1, <1>2

LEMMA ReferencesInit == Init => WinnersReferenced
<1> SUFFICES ASSUME Init PROVE WinnersReferenced
  OBVIOUS
<1>1. \A q \in Positions : Held(q) = {}
  BY DEF Init, Held, Positions
<1>2. \A d : NewEntry(d, Unknown).refs = 0 /\ NewEntry(d, Unknown).mini = {}
  BY DEF NewEntry
<1> QED BY <1>1, <1>2, InitEntries, FS_EmptySet DEF WinnersReferenced

(* In any campaign tc_ref of an entry is the number of slots it holds in    *)
(* top_rated, and its trace_mini exists as long as it holds one.           *)
THEOREM ReferencesCounted == Spec => []WinnersReferenced
BY ReferencesInit, ReferencesNext, BaseAlways, PTL DEF Spec

-----------------------------------------------------------------------------
(* The sweep, which is defined by recursion over the edges.                *)

Swept0 == [left |-> Edge, winners |-> {}, pending |-> 0]
SweepStates == [left : SUBSET Edge, winners : SUBSET Positions, pending : Nat]
SweepStep(e, p) ==
    IF top[e] = 0 \/ e \notin p.left THEN p
    ELSE [left |-> p.left \ queue[top[e]].mini,
          winners |-> p.winners \cup {top[e]},
          pending |-> p.pending + IF queue[top[e]].wasFuzzed THEN 0 ELSE 1]

LEMMA SweepStepType ==
    ASSUME Base, NEW e \in Edge, NEW p \in SweepStates
    PROVE  SweepStep(e, p) \in SweepStates
<1>1. top[e] # 0 => top[e] \in Positions
  BY QueueFacts DEF Base, Positions
<1> QED BY <1>1 DEF SweepStep, SweepStates

LEMMA SweepUnfolds ==
    ASSUME Base
    PROVE  /\ Sweep \in [0 .. NumEdges -> SweepStates]
           /\ Sweep[0] = Swept0
           /\ \A e \in Edge : Sweep[e] = SweepStep(e, Sweep[e - 1])
<1> DEFINE N == NumEdges
           step == [e \in 1 .. N |-> [p \in SweepStates |-> SweepStep(e, p)]]
           Unfolds(f) == f = [e \in 0 .. N |-> IF e = 0 THEN Swept0 ELSE SweepStep(e, f[e - 1])]
<1>1. N \in Nat /\ Edge = 1 .. N
  BY EdgesBounded DEF Edge
<1>2. Swept0 \in SweepStates
  BY DEF Swept0, SweepStates
<1>3. step \in [1 .. N -> [SweepStates -> SweepStates]]
  BY <1>1, SweepStepType
<1>4. PICK f : f \in [0 .. N -> SweepStates] /\ f[0] = Swept0 /\ \A i \in 1 .. N : f[i] = step[i][f[i - 1]]
  <2> HIDE DEF step
  <2>1. \E f : Recurs(f, N, SweepStates, Swept0, step)
    BY <1>1, <1>2, <1>3, RecursionExists
  <2> QED BY <2>1 DEF Recurs
<1>5. Unfolds(f)
  <2>1. ASSUME NEW i \in 1 .. N PROVE f[i] = SweepStep(i, f[i - 1])
    <3>1. i - 1 \in 0 .. N /\ f[i - 1] \in SweepStates /\ f[i] = step[i][f[i - 1]]
      BY <1>1, <1>4
    <3> QED BY <3>1
  <2> HIDE DEF step
  <2> QED BY <1>1, <1>4, <2>1
<1>6. Sweep = CHOOSE g : Unfolds(g)
  BY DEF Sweep, Swept0, SweepStep
<1>7. Unfolds(Sweep)
  <2> HIDE DEF Unfolds
  <2> QED BY <1>5, <1>6
<1>8. Sweep[0] = Swept0 /\ \A e \in Edge : Sweep[e] = SweepStep(e, Sweep[e - 1])
  BY <1>1, <1>7
<1>9. 0 .. N \subseteq {n \in 0 .. N : Sweep[n] \in SweepStates}
  <2> DEFINE S == {n \in 0 .. N : Sweep[n] \in SweepStates}
  <2>1. 0 \in S
    BY <1>1, <1>2, <1>8
  <2>2. \A n \in 1 .. N : n - 1 \in S => n \in S
    BY <1>1, <1>8, SweepStepType
  <2> HIDE DEF S
  <2>3. 0 .. N \subseteq S
    BY <1>1, <2>1, <2>2, IntervalInduction
  <2> QED BY <2>3 DEF S
<1> QED BY <1>1, <1>7, <1>8, <1>9

(* What holds after the sweep has passed the first e edges.                *)
Minis(W) == UNION {queue[w].mini : w \in W}
Fresh0(W) == {w \in W : ~ queue[w].wasFuzzed}
SweepGood(e) ==
    LET p == Sweep[e] IN
    /\ p.left = Edge \ Minis(p.winners)
    /\ \A w \in p.winners : Held(w) # {}
    /\ \A d \in 1 .. e : top[d] # 0 => top[d] \in p.winners \/ d \in Minis(p.winners)
    /\ p.pending >= Cardinality(Fresh0(p.winners))
    /\ (\A d \in Edge : top[d] # 0 => d \in queue[top[d]].mini) =>
          p.pending = Cardinality(Fresh0(p.winners))

LEMMA SweepStepGood ==
    ASSUME Base, NEW e \in Edge, SweepGood(e - 1)
    PROVE  SweepGood(e)
<1> DEFINE p == Sweep[e - 1]
           w == top[e]
           r == Sweep[e]
<1>1. p \in SweepStates /\ r = SweepStep(e, p)
  BY SweepUnfolds, EdgesBounded DEF Edge
<1>2. 1 .. e = (1 .. e - 1) \cup {e}
  BY EdgesBounded DEF Edge
<1>3. /\ p.left = Edge \ Minis(p.winners)
      /\ \A v \in p.winners : Held(v) # {}
      /\ \A d \in 1 .. e - 1 : top[d] # 0 => top[d] \in p.winners \/ d \in Minis(p.winners)
      /\ p.pending >= Cardinality(Fresh0(p.winners))
      /\ (\A d \in Edge : top[d] # 0 => d \in queue[top[d]].mini) =>
            p.pending = Cardinality(Fresh0(p.winners))
  BY DEF SweepGood
<1>4. CASE w = 0 \/ e \notin p.left
  <2>1. r = p
    BY <1>1, <1>4 DEF SweepStep
  <2>2. top[e] # 0 => e \in Minis(p.winners)
    BY <1>3, <1>4
  <2> QED BY <1>2, <1>3, <2>1, <2>2 DEF SweepGood
<1>5. CASE w # 0 /\ e \in p.left
  <2>1. /\ r.left = p.left \ queue[w].mini
        /\ r.winners = p.winners \cup {w}
        /\ r.pending = p.pending + IF queue[w].wasFuzzed THEN 0 ELSE 1
    BY <1>1, <1>5 DEF SweepStep
  <2>2. Minis(r.winners) = Minis(p.winners) \cup queue[w].mini
    BY <2>1 DEF Minis
  <2>3. e \in Held(w) /\ e \notin Minis(p.winners)
    BY <1>3, <1>5 DEF Held
  <2>4. w \in Positions /\ queue[w] \in EntrySet
    BY <1>5, QueueFacts DEF Base, Positions
  <2>5. IsFiniteSet(p.winners) /\ IsFiniteSet(Fresh0(p.winners)) /\ Cardinality(Fresh0(p.winners)) \in Nat
    <3>1. IsFiniteSet(Positions)
      BY QueueFacts, FS_Interval DEF Base, Positions
    <3>2. p.winners \subseteq Positions /\ Fresh0(p.winners) \subseteq p.winners
      BY <1>1 DEF SweepStates, Fresh0
    <3> QED BY <3>1, <3>2, FS_Subset, FS_CardinalityType
  <2>6. /\ r.pending >= Cardinality(Fresh0(r.winners))
        /\ (\A d \in Edge : top[d] # 0 => d \in queue[top[d]].mini) =>
              r.pending = Cardinality(Fresh0(r.winners))
    <3>0. p.pending \in Nat
      BY <1>1 DEF SweepStates
    <3>1. CASE queue[w].wasFuzzed
      <4>1. Fresh0(r.winners) = Fresh0(p.winners)
        BY <2>1, <3>1 DEF Fresh0
      <4> QED BY <1>3, <2>1, <3>0, <3>1, <4>1
    <3>2. CASE ~ queue[w].wasFuzzed
      <4>1. Fresh0(r.winners) = Fresh0(p.winners) \cup {w}
        BY <2>1, <3>2 DEF Fresh0
      <4>2. Cardinality(Fresh0(r.winners)) =
              IF w \in Fresh0(p.winners) THEN Cardinality(Fresh0(p.winners)) ELSE Cardinality(Fresh0(p.winners)) + 1
        BY <2>5, <4>1, FS_AddElement
      <4>3. (\A d \in Edge : top[d] # 0 => d \in queue[top[d]].mini) => w \notin Fresh0(p.winners)
        BY <1>5, <2>3 DEF Fresh0, Minis
      <4>4. r.pending = p.pending + 1
        BY <2>1, <3>2
      <4> QED BY <1>3, <2>5, <3>0, <4>2, <4>3, <4>4
    <3> QED BY <3>1, <3>2
  <2>7. r.left = Edge \ Minis(r.winners)
    BY <1>3, <2>1, <2>2
  <2>8. \A v \in r.winners : Held(v) # {}
    BY <1>3, <2>1, <2>3
  <2>9. \A d \in 1 .. e : top[d] # 0 => top[d] \in r.winners \/ d \in Minis(r.winners)
    BY <1>2, <1>3, <2>1, <2>2
  <2> QED BY <2>6, <2>7, <2>8, <2>9 DEF SweepGood
<1> QED BY <1>4, <1>5

(* What cull_queue computes.                                               *)
LEMMA CulledGood ==
    ASSUME Base
    PROVE  /\ Culled.winners \subseteq Positions /\ Culled.pending \in Nat
           /\ \A w \in Culled.winners : Held(w) # {}
           /\ \A d \in Edge : top[d] # 0 => top[d] \in Culled.winners
                                           \/ \E w \in Culled.winners : d \in queue[w].mini
           /\ Culled.pending >= Cardinality(Fresh0(Culled.winners))
           /\ (\A d \in Edge : top[d] # 0 => d \in queue[top[d]].mini) =>
                 Culled.pending = Cardinality(Fresh0(Culled.winners))
<1> DEFINE S == {n \in 0 .. NumEdges : SweepGood(n)}
<1>1. NumEdges \in Nat /\ Edge = 1 .. NumEdges
  BY EdgesBounded DEF Edge
<1>2. 0 \in S
  <2>1. Sweep[0] = Swept0
    BY SweepUnfolds
  <2>2. Fresh0({}) = {} /\ Minis({}) = {} /\ Cardinality({}) = 0
    BY FS_EmptySet DEF Fresh0, Minis
  <2>3. Sweep[0].left = Edge /\ Sweep[0].winners = {} /\ Sweep[0].pending = 0
    BY <2>1 DEF Swept0
  <2>4. SweepGood(0)
    BY <2>2, <2>3 DEF SweepGood
  <2> QED BY <1>1, <2>4
<1>3. \A n \in 1 .. NumEdges : n - 1 \in S => n \in S
  BY <1>1, SweepStepGood
<1> HIDE DEF S
<1>4. NumEdges \in S
  <2>1. 0 .. NumEdges \subseteq S
    BY <1>1, <1>2, <1>3, IntervalInduction
  <2> QED BY <1>1, <2>1
<1>5. SweepGood(NumEdges) /\ Culled = Sweep[NumEdges] /\ Sweep[NumEdges] \in SweepStates
  BY <1>1, <1>4, SweepUnfolds DEF S, Culled
<1> QED BY <1>1, <1>5 DEF SweepGood, SweepStates, Minis
SavingEntry == (Calibrating /\ cal.return = "saved") \/ pc = "saved"

-----------------------------------------------------------------------------
(* The chances of an entry.  Where calibrate_case returns to, and with what: *)
(* an entry that passed has cal_failed 0, one that did not is remembered.   *)
DryPhase == pc \in {"dry", "dryRan"} \/ (Calibrating /\ cal.return = "dryRan")
Called == {"calibrated", "dryRan", "recalibrated", "saved"}

Passed == cal.res \in {"nobits", config.crashMode} /\ queue[cal.q].calFailed = 0 /\ calibrated
NotPassed ==
    /\ queue[cal.q].late /\ queue[cal.q].calFailed # 0
    /\ stopSoon \/ cal.res # config.crashMode

Returned ==
    /\ pc \in {"dryRan", "recalibrated", "saved"} =>
          cal.return = pc /\ cal.q \in Positions /\ (pc # "saved" => cal.q = cur)
    /\ pc \in Called => Passed \/ NotPassed
    /\ pc = "calibrate" => queue[cal.q].calFailed # 0 /\ cal.res \in {"run", "done"}
    /\ (Calibrating /\ cal.return = "recalibrated") \/ pc = "recalibrated" => queue[cal.q].late

(* The entries the dry run has not come to.                                *)
NotYet(q) == DryPhase /\ (q > cur \/ (q = cur /\ pc = "dry"))

ChancesOf(q) ==
    /\ queue[q].calFailed # 0 => queue[q].late \/ (pc = "calibrate" /\ cal.q = q)
    /\ NotYet(q) => queue[q].calFailed = 0 /\ Held(q) = {}
    /\ Held(q) # {} => queue[q].calFailed = 0
    /\ queue[q].calFailed = 0 =>
          calibrated \/ NotYet(q) \/ (pc = "ready" /\ stopSoon) \/ pc \in Over
    /\ DryPhase \/ pc = "ready" => ~ queue[q].favored
    /\ queue[q].favored => queue[q].calFailed = 0
Chances == \A q \in Positions : ChancesOf(q)

(* What the turn of an entry amounts to.                                   *)
InStages == pc \in {"stage", "finish"} \/ ((Saving \/ SavingEntry) /\ after = "stage")
Turn ==
    /\ FuzzedWasTried
    /\ InStages => queue[cur].tried
    /\ pc = "abandon" => queue[cur].calFailed # 0 \/ queue[cur].tried \/ queue[cur].late \/ stopSoon
    /\ pc \in {"trim", "trimmed", "score"} => calibrated /\ queue[cur].calFailed = 0
    /\ pc # "sigfpe"

Turns == Returned /\ Chances /\ Turn

LEMMA InitQueue ==
    ASSUME Init
    PROVE  \A q \in Positions :
             /\ queue[q].calFailed = 0 /\ ~ queue[q].late /\ ~ queue[q].tried /\ ~ queue[q].wasFuzzed
             /\ ~ queue[q].favored /\ ~ queue[q].variable /\ ~ queue[q].redundant
             /\ queue[q].cksum = Unknown /\ queue[q].mini = {} /\ queue[q].refs = 0
<1>1. \A q \in Positions : \E d \in BOOLEAN : queue[q] = NewEntry(d, Unknown)
  BY InitEntries
<1> DEFINE P(r) == /\ r.calFailed = 0 /\ ~ r.late /\ ~ r.tried /\ ~ r.wasFuzzed
                   /\ ~ r.favored /\ ~ r.variable /\ ~ r.redundant
                   /\ r.cksum = Unknown /\ r.mini = {} /\ r.refs = 0
<1>2. \A d \in BOOLEAN : P(NewEntry(d, Unknown))
  BY DEF NewEntry
<1> HIDE DEF P
<1>3. \A q \in Positions : P(queue[q])
  BY <1>1, <1>2
<1> QED BY <1>3 DEF P

LEMMA TurnsInit == Init => Turns
<1> SUFFICES ASSUME Init PROVE Turns
  OBVIOUS
<1>1. pc = "dry" /\ cur = 1 /\ \A q \in Positions : Held(q) = {}
  BY DEF Init, Held, Positions
<1>2. \A q \in Positions : q > 1 \/ q = 1
  BY DEF Positions
<1>3. Chances
  BY <1>1, <1>2, InitQueue DEF Chances, ChancesOf, NotYet, DryPhase
<1>4. Turn
  BY <1>1, InitQueue DEF Turn, FuzzedWasTried, InStages, Saving, SavingEntry, Calibrating
<1> QED BY <1>1, <1>3, <1>4 DEF Turns, Returned, Called, Calibrating

LEMMA SaveSteps ==
    ASSUME Base, SavesNoEntry
    PROVE  /\ UNCHANGED <<calibrated, stopSoon>> /\ Saving
           /\ pc' \in {"stage", "sync", "import", "switch", "rerun", "genuine", "keepCrash", "fatal", "pfatal"}
<1>1. Saving /\ pc' \in {after, "switch", "rerun", "genuine", "keepCrash", "fatal", "pfatal"}
  BY DEF SavesNoEntry, Save, SaveNothing, SavedEntry, KeepNothing, HangDropped, HangUnique, RerunHang,
       KeepHang, CrashDropped, KeepCrash, NonTermDropped, KeepNonTerm, KeepError, FileAndReturn,
       Return, Switch, Saving, CreateThen, AfterRerun
<1>2. UNCHANGED <<calibrated, stopSoon>>
  BY DEF SavesNoEntry, Save, SaveNothing, SavedEntry, KeepNothing, HangDropped, HangUnique, RerunHang,
       KeepHang, CrashDropped, KeepCrash, NonTermDropped, KeepNonTerm, KeepError, rating
<1> QED BY <1>1, <1>2 DEF Base

(* A step that changes neither an entry nor top_rated.                     *)
LEMMA ChancesCarried ==
    ASSUME Base, Chances, Still, UNCHANGED <<calibrated, stopSoon>>,
           pc' \notin {"calibrate", "calibrated", "dry", "dryRan"},
           \/ pc = "dryRan" /\ (pc' = "fatal" \/ (pc' = "ready" /\ stopSoon))
           \/ pc \notin {"dry", "dryRan", "calibrate", "calibrated", "ready"} \cup Over /\ pc' # "ready"
    PROVE  Chances'
<1>1. Positions' = Positions /\ \A q : Held(q)' = Held(q)
  BY DEF Still, Positions, Held
<1>2. ~ DryPhase'
  BY DEF DryPhase, Calibrating
<1>3. ASSUME NEW q \in Positions PROVE ChancesOf(q)'
  <2>1. ChancesOf(q) /\ queue' = queue /\ Held(q)' = Held(q)
    BY <1>1, <1>3 DEF Chances, Still
  <2>2. queue[q].calFailed = 0 => calibrated \/ (pc' = "ready" /\ stopSoon) \/ pc' \in Over
    BY <2>1 DEF ChancesOf, NotYet, DryPhase, Calibrating, Over
  <2>3. pc' = "ready" => ~ queue[q].favored
    BY <2>1 DEF ChancesOf, DryPhase
  <2> QED BY <1>2, <2>1, <2>2, <2>3 DEF ChancesOf, NotYet
<1> QED BY <1>1, <1>3 DEF Chances

LEMMA TriesCarried ==
    ASSUME FuzzedWasTried, UNCHANGED queue
    PROVE  FuzzedWasTried'
BY DEF FuzzedWasTried, Positions

LEMMA SaveTurns ==
    ASSUME Base, Turns, SavesNoEntry
    PROVE  Turns'
<1>1. Still /\ UNCHANGED <<cur, calibrated, stopSoon>> /\ Saving
      /\ pc' \in {"stage", "sync", "import", "switch", "rerun", "genuine", "keepCrash", "fatal", "pfatal"}
  BY SaveStill, SaveSteps
<1>2. pc \notin {"dry", "dryRan", "calibrate", "calibrated", "ready"} \cup Over
  BY <1>1 DEF Saving, Over
<1>3. Chances'
  BY <1>1, <1>2, ChancesCarried DEF Turns
<1>4. Returned'
  BY <1>1 DEF Returned, Called, Calibrating
<1>5. InStages' => InStages
  <2>1. pc' \in {"fatal", "pfatal"} \/ (Saving' /\ UNCHANGED after) \/ pc' = after
    BY SaveStill
  <2>2. after \in {"stage", "sync", "import"}
    BY <1>1 DEF Base
  <2> QED BY <1>1, <2>1, <2>2 DEF InStages, Saving, SavingEntry, Calibrating
<1>6. Turn'
  BY <1>1, <1>5, TriesCarried DEF Turns, Turn, Still
<1> QED BY <1>3, <1>4, <1>6 DEF Turns

(* The other steps that change neither an entry nor top_rated.             *)
LEMMA StillTurns ==
    ASSUME Base, Turns,
           \/ DryRunStops \/ TrimSkipped \/ SkipEntry \/ FinishStages \/ ImportEnds \/ Recalibrated
           \/ RunMutant \/ Import \/ Advance
    PROVE  Turns'
<1>1. Still /\ UNCHANGED <<calibrated, stopSoon>>
  BY DEF DryRunStops, TrimSkipped, SkipEntry, FinishStages, ImportEnds, Recalibrated,
       RunMutant, Import, Advance, Still, rating
<1>2. /\ pc' \in {"fatal", "ready", "score", "advance", "finish", "abandon", "trim", "save", "end", "main",
                 "entry"}
      /\ \/ pc = "dryRan" /\ (pc' = "fatal" \/ (pc' = "ready" /\ stopSoon))
         \/ pc \in {"trim", "entry", "stage", "sync", "import", "recalibrated", "advance"} /\ pc' # "ready"
  BY DEF DryRunStops, TrimSkipped, SkipEntry, FinishStages, ImportEnds, Recalibrated,
       RunMutant, Import, Importing, Imported, Advance
<1>3. Chances'
  BY <1>1, <1>2, ChancesCarried DEF Turns, Over
<1>4. Returned'
  BY <1>2 DEF Returned, Called, Calibrating
<1>5. FuzzedWasTried'
  BY <1>1, TriesCarried DEF Turns, Turn, Still
<1>6. Turn'
  <2>1. CASE DryRunStops \/ SkipEntry \/ ImportEnds \/ Advance
    <3>1. pc' \in {"ready", "fatal", "advance", "end", "main", "entry"}
      BY <2>1 DEF DryRunStops, SkipEntry, ImportEnds, Imported, Advance
    <3> QED BY <1>5, <3>1 DEF Turn, InStages, Saving, SavingEntry, Calibrating
  <2>2. CASE TrimSkipped
    <3>1. UNCHANGED cur /\ pc = "trim" /\ pc' = "score"
      BY <2>2 DEF TrimSkipped, entry
    <3>2. ~ InStages'
      BY <3>1 DEF InStages, Saving, SavingEntry, Calibrating
    <3> QED BY <1>1, <1>5, <3>1, <3>2 DEF Turns, Turn, Still
  <2>3. CASE FinishStages
    <3>1. UNCHANGED cur /\ pc = "stage" /\ pc' = "finish"
      BY <2>3 DEF FinishStages, entry
    <3>2. InStages
      BY <3>1 DEF InStages
    <3> QED BY <1>1, <1>5, <3>1, <3>2 DEF Turns, Turn, Still
  <2>4. CASE Recalibrated
    <3>1. /\ UNCHANGED cur /\ pc = "recalibrated"
          /\ \/ pc' \in {"fatal", "abandon"}
             \/ pc' = "trim" /\ ~ stopSoon /\ cal.res = config.crashMode
      BY <2>4 DEF Recalibrated, entry
    <3>2. /\ queue[cur].late
          /\ pc' = "trim" => calibrated /\ queue[cur].calFailed = 0
      BY <3>1 DEF Turns, Returned, Passed, NotPassed, Called
    <3>3. ~ InStages'
      BY <3>1 DEF InStages, Saving, SavingEntry, Calibrating
    <3> QED BY <1>1, <1>5, <3>1, <3>2, <3>3 DEF Turn, Still
  <2>5. CASE RunMutant
    <3>1. UNCHANGED cur /\ pc = "stage" /\ pc' \in {"abandon", "save"}
      BY <2>5 DEF RunMutant
    <3>2. InStages
      BY <3>1 DEF InStages
    <3> QED BY <1>1, <1>5, <3>1, <3>2 DEF Turns, Turn, Still
  <2>6. CASE Import
    <3>1. UNCHANGED cur
          /\ (pc' \in {"advance", "entry"} \/ (pc' = "save" /\ after' \in {"sync", "import"}))
      BY <2>6 DEF Import, Importing, Imported, entry
    <3>2. ~ InStages'
      BY <3>1 DEF InStages, Saving, SavingEntry, Calibrating
    <3> QED BY <1>1, <1>5, <3>1, <3>2 DEF Turn, Still
  <2> QED BY <2>1, <2>2, <2>3, <2>4, <2>5, <2>6
<1> QED BY <1>3, <1>4, <1>6 DEF Turns

LEMMA AbortsTurns ==
    ASSUME Base, Turns, CalibrationAborts
    PROVE  Turns'
<1>1. /\ pc = "calibrate" /\ pc' = "calibrated" /\ UNCHANGED <<config, cur, top, calibrated, stopSoon, after>>
      /\ cal'.q = cal.q /\ cal'.return = cal.return
  BY DEF CalibrationAborts, entry, rating, call, Base, CalSet
<1>2. stopSoon \/ cal'.res # config.crashMode
  BY ConfigTypes DEF CalibrationAborts, Aborts, Base, CalSet
<1>3. /\ cal.q \in Positions /\ SameLength /\ KeepsFavored
      /\ \A i \in Positions :
           /\ queue'[i].late <=> queue[i].late \/ i = cal.q
           /\ queue'[i].calFailed = queue[i].calFailed /\ queue'[i].tried = queue[i].tried
           /\ queue'[i].wasFuzzed = queue[i].wasFuzzed
  BY AbortsFields
<1>4. queue[cal.q].calFailed # 0
  BY <1>1 DEF Turns, Returned
<1>5. Returned'
  BY <1>1, <1>2, <1>3, <1>4 DEF Returned, NotPassed, Called
<1>6. (DryPhase' <=> DryPhase) /\ \A q : (NotYet(q)' <=> NotYet(q)) /\ Held(q)' = Held(q)
  BY <1>1 DEF DryPhase, NotYet, Calibrating, Held
<1>7. ASSUME NEW q \in Positions PROVE ChancesOf(q)'
  <2>1. ChancesOf(q) /\ (queue'[q].favored <=> queue[q].favored)
    BY <1>3 DEF Turns, Chances, KeepsFavored
  <2> QED BY <1>1, <1>3, <1>6, <2>1 DEF ChancesOf, Over
<1>8. Turn'
  <2>1. FuzzedWasTried'
    BY <1>3 DEF Turns, Turn, FuzzedWasTried, SameLength
  <2>2. InStages' => InStages
    BY <1>1 DEF InStages, Saving, SavingEntry, Calibrating
  <2>3. InStages => queue'[cur].tried
    <3>1. InStages => cur \in Positions
      BY <1>1 DEF Base, Positions, Over
    <3> QED BY <1>3, <3>1 DEF Turns, Turn
  <2> QED BY <1>1, <2>1, <2>2, <2>3 DEF Turn
<1> QED BY <1>3, <1>5, <1>7, <1>8 DEF Turns, Chances, SameLength

LEMMA RunTurns ==
    ASSUME Base, Turns, CalibrationRun
    PROVE  Turns'
<1>1. /\ pc = "calibrate" /\ pc' = "calibrate" /\ UNCHANGED <<config, cur, top, calibrated, stopSoon, after>>
      /\ cal'.q = cal.q /\ cal'.return = cal.return /\ cal'.res \in {"run", "done"}
  BY DEF CalibrationRun, entry, rating, call, Base, CalSet
<1>3. cal.q \in Positions /\ SameLength /\ KeepsChances /\ KeepsFavored
  BY RunFields
<1>5. Returned'
  BY <1>1, <1>3 DEF Turns, Returned, Called, KeepsChances, Calibrating
<1>6. (DryPhase' <=> DryPhase) /\ \A q : (NotYet(q)' <=> NotYet(q)) /\ Held(q)' = Held(q)
  BY <1>1 DEF DryPhase, NotYet, Calibrating, Held
<1>7. ASSUME NEW q \in Positions PROVE ChancesOf(q)'
  <2>1. ChancesOf(q) /\ queue'[q].favored = queue[q].favored /\ queue'[q].calFailed = queue[q].calFailed
        /\ queue'[q].late = queue[q].late
    BY <1>3 DEF Turns, Chances, KeepsFavored, KeepsChances
  <2> QED BY <1>1, <1>6, <2>1 DEF ChancesOf
<1>8. Turn'
  <2>1. FuzzedWasTried'
    BY <1>3 DEF Turns, Turn, FuzzedWasTried, SameLength, KeepsChances
  <2>2. InStages' => InStages
    BY <1>1 DEF InStages, Saving, SavingEntry, Calibrating
  <2>3. InStages => queue'[cur].tried
    <3>1. InStages => cur \in Positions
      BY <1>1 DEF Base, Positions, Over
    <3> QED BY <1>3, <3>1 DEF Turns, Turn, KeepsChances
  <2> QED BY <1>1, <2>1, <2>2, <2>3 DEF Turn
<1> QED BY <1>3, <1>5, <1>7, <1>8 DEF Turns, Chances, SameLength

(* The slots an entry wins are its own; no other entry gains one.          *)
LEMMA RatedHeld ==
    ASSUME Base, NEW q, NEW t, Rated(q, t), NEW o, o # q
    PROVE  Held(o)' \subseteq Held(o)
BY DEF Rated, ScoredBy, TopAfter, Held

LEMMA RatesTurns ==
    ASSUME Base, Turns, CalibrationRates
    PROVE  Turns'
<1>1. /\ pc = "calibrate" /\ pc' = "calibrated" /\ UNCHANGED <<config, cur, stopSoon, after>> /\ calibrated'
      /\ cal'.q = cal.q /\ cal'.return = cal.return /\ cal'.res \in {"nobits", config.crashMode}
  BY DEF CalibrationRates, entry, rating, call, Base, CalSet
<1>3. /\ cal.q \in Positions /\ SameLength /\ KeepsFavored
      /\ \A i \in Positions :
           /\ queue'[i].calFailed = IF i = cal.q THEN 0 ELSE queue[i].calFailed
           /\ queue'[i].late = queue[i].late /\ queue'[i].tried = queue[i].tried
           /\ queue'[i].wasFuzzed = queue[i].wasFuzzed
  BY RatesFields
<1>4. (Calibrating /\ cal.return = "recalibrated") => queue[cal.q].late
  BY <1>1 DEF Turns, Returned
<1>5. Returned'
  BY <1>1, <1>3, <1>4 DEF Returned, Passed, Called, Calibrating
<1>6. (DryPhase' <=> DryPhase) /\ \A q : (NotYet(q)' <=> NotYet(q))
  BY <1>1 DEF DryPhase, NotYet, Calibrating
<1>7. ASSUME NEW q \in Positions PROVE ChancesOf(q)'
  <2>1. ChancesOf(q) /\ queue'[q].favored = queue[q].favored
    BY <1>3 DEF Turns, Chances, KeepsFavored
  <2>2. CASE q = cal.q
    <3>1. ~ NotYet(q)
      <4>1. NotYet(q) => queue[q].calFailed = 0
        BY <2>1 DEF ChancesOf
      <4>2. queue[q].calFailed # 0
        BY <1>1, <2>2 DEF Turns, Returned
      <4> QED BY <4>1, <4>2
    <3> QED BY <1>1, <1>3, <1>6, <2>1, <2>2, <3>1 DEF ChancesOf
  <2>3. CASE q # cal.q
    <3>1. Held(q)' \subseteq Held(q)
      BY <2>3, RatesQueue, RatedHeld
    <3>2. queue'[q].calFailed = queue[q].calFailed /\ queue'[q].late = queue[q].late
      BY <1>3, <2>3
    <3> QED BY <1>1, <1>6, <2>1, <2>3, <3>1, <3>2 DEF ChancesOf
  <2> QED BY <2>2, <2>3
<1>8. Turn'
  <2>1. FuzzedWasTried'
    BY <1>3 DEF Turns, Turn, FuzzedWasTried, SameLength
  <2>2. InStages' => InStages
    BY <1>1 DEF InStages, Saving, SavingEntry, Calibrating
  <2>3. InStages => queue'[cur].tried
    <3>1. InStages => cur \in Positions
      BY <1>1 DEF Base, Positions, Over
    <3> QED BY <1>3, <3>1 DEF Turns, Turn
  <2> QED BY <1>1, <2>1, <2>2, <2>3 DEF Turn
<1> QED BY <1>3, <1>5, <1>7, <1>8 DEF Turns, Chances, SameLength

LEMMA ReturnsTurns ==
    ASSUME Base, Turns, CalibrationReturns
    PROVE  Turns'
<1>1. /\ pc = "calibrated" /\ pc' \in {cal.return, "pfatal"}
      /\ UNCHANGED <<config, cal, cur, top, calibrated, stopSoon, after>>
  BY DEF CalibrationReturns, CreateThen, entry, rating, call
<1>2. /\ cal.return \in {"dryRan", "recalibrated", "saved"} /\ cal.q \in Positions
      /\ cal.return # "saved" => cal.q = cur
  BY <1>1 DEF Base, CalSet, Returns, Calibrating
<1>3. SameLength /\ KeepsChances /\ KeepsFavored
  BY ReturnsFields
<1>4. Passed \/ NotPassed
  BY <1>1 DEF Turns, Returned, Called
<1>5. Returned'
  <2>1. (Passed \/ NotPassed)'
    BY <1>1, <1>2, <1>3, <1>4 DEF Passed, NotPassed, KeepsChances
  <2>2. cal.return = "recalibrated" => queue'[cal.q].late
    BY <1>1, <1>2, <1>3 DEF Turns, Returned, Calibrating, KeepsChances
  <2>3. pc' # "calibrate" /\ pc' # "calibrated"
    BY <1>1, <1>2
  <2> QED BY <1>1, <1>2, <1>3, <2>1, <2>2, <2>3 DEF Returned, Calibrating, SameLength
<1>6. ASSUME NEW q PROVE (DryPhase' => DryPhase) /\ (NotYet(q)' => NotYet(q)) /\ Held(q)' = Held(q)
                         /\ (NotYet(q) => NotYet(q)' \/ pc' \in Over)
  BY <1>1, <1>2 DEF DryPhase, NotYet, Calibrating, Held, Over
<1>7. ASSUME NEW q \in Positions PROVE ChancesOf(q)'
  <2>1. ChancesOf(q) /\ queue'[q].favored = queue[q].favored /\ queue'[q].calFailed = queue[q].calFailed
        /\ queue'[q].late = queue[q].late
    BY <1>3 DEF Turns, Chances, KeepsFavored, KeepsChances
  <2>2. pc' # "ready" /\ pc' # "calibrate" /\ pc \notin Over
    BY <1>1, <1>2 DEF Over
  <2> QED BY <1>1, <1>6, <2>1, <2>2 DEF ChancesOf
<1>8. Turn'
  <2>1. FuzzedWasTried'
    BY <1>3 DEF Turns, Turn, FuzzedWasTried, SameLength, KeepsChances
  <2>2. InStages' => InStages
    BY <1>1, <1>2 DEF InStages, Saving, SavingEntry, Calibrating
  <2>3. InStages => queue'[cur].tried
    <3>1. InStages => cur \in Positions
      BY <1>1 DEF Base, Positions, Over
    <3> QED BY <1>3, <3>1 DEF Turns, Turn, KeepsChances
  <2>4. pc' \notin {"abandon", "trim", "trimmed", "score", "sigfpe"}
    BY <1>1, <1>2
  <2> QED BY <1>1, <2>1, <2>2, <2>3, <2>4 DEF Turn
<1> QED BY <1>3, <1>5, <1>7, <1>8 DEF Turns, Chances, SameLength

LEMMA DryRunTurns ==
    ASSUME Base, Turns, DryRun
    PROVE  Turns'
<1>1. /\ pc = "dry" /\ pc' = "calibrate" /\ UNCHANGED <<config, cur, top, calibrated, stopSoon, after>>
      /\ cal'.q = cur /\ cal'.return = "dryRan" /\ cal'.res = "run" /\ cur \in Nat
  <2>1. cur \in Nat /\ trace \in Traces /\ StartCalibration(queue, cur, "dryRan") /\ "dryRan" \in Returns
    BY DEF DryRun, Base, Returns
  <2> QED BY <2>1, StartsType DEF DryRun, entry, rating, call
<1>3. /\ cur \in Positions /\ SameLength /\ KeepsFavored
      /\ \A i \in Positions :
           /\ queue'[i].calFailed = IF i = cur THEN queue[i].calFailed + 1 ELSE queue[i].calFailed
           /\ queue'[i].late = queue[i].late /\ queue'[i].tried = queue[i].tried
           /\ queue'[i].wasFuzzed = queue[i].wasFuzzed
  BY DryRunFields
<1>4. queue[cur].calFailed \in Nat
  BY <1>3, QueueFacts DEF Base, EntrySet
<1>5. Returned'
  BY <1>1, <1>3, <1>4 DEF Returned, Called, Calibrating
<1>6. ASSUME NEW q PROVE /\ DryPhase /\ DryPhase' /\ Held(q)' = Held(q)
                         /\ NotYet(q)' => NotYet(q) /\ q # cur
                         /\ NotYet(q) => NotYet(q)' \/ q = cur
  BY <1>1 DEF DryPhase, NotYet, Calibrating, Held
<1>7. ASSUME NEW q \in Positions PROVE ChancesOf(q)'
  <2>1. ChancesOf(q) /\ queue'[q].favored = queue[q].favored
    BY <1>3 DEF Turns, Chances, KeepsFavored
  <2>2. CASE q = cur
    <3>1. NotYet(cur) /\ queue'[cur].calFailed # 0
      BY <1>1, <1>3, <1>4 DEF NotYet, DryPhase
    <3> QED BY <1>1, <1>3, <1>6, <2>1, <2>2, <3>1 DEF ChancesOf
  <2>3. CASE q # cur
    <3>1. queue'[q].calFailed = queue[q].calFailed /\ queue'[q].late = queue[q].late
      BY <1>3, <2>3
    <3> QED BY <1>1, <1>6, <2>1, <2>3, <3>1 DEF ChancesOf, Over
  <2> QED BY <2>2, <2>3
<1>8. Turn'
  <2>1. FuzzedWasTried'
    BY <1>3 DEF Turns, Turn, FuzzedWasTried, SameLength
  <2>2. ~ InStages'
    BY <1>1 DEF InStages, Saving, SavingEntry, Calibrating
  <2> QED BY <1>1, <2>1, <2>2 DEF Turn
<1> QED BY <1>3, <1>5, <1>7, <1>8 DEF Turns, Chances, SameLength

LEMMA DryRunGoesOnTurns ==
    ASSUME Base, Turns, DryRunGoesOn
    PROVE  Turns'
<1>1. /\ pc = "dryRan" /\ ~ stopSoon /\ (DryRunSkips \/ DryRunPasses)
      /\ \/ pc' = "dry" /\ cur' = cur + 1 /\ cur < Len(queue)
         \/ pc' \in {"ready", "fatal"} /\ cur >= Len(queue)
      /\ UNCHANGED <<config, top, calibrated, stopSoon, after>>
  BY QueueFacts DEF DryRunGoesOn, rating, call, Base
<1>2. cal.q = cur /\ (Passed \/ NotPassed)
  BY <1>1 DEF Turns, Returned, Called
<1>3. /\ cur \in Positions /\ SameLength /\ KeepsFavored
      /\ \A i \in Positions :
           /\ queue'[i].calFailed = IF i = cur /\ DryRunSkips THEN CalChances ELSE queue[i].calFailed
           /\ queue'[i].late = queue[i].late /\ queue'[i].tried = queue[i].tried
           /\ queue'[i].wasFuzzed = queue[i].wasFuzzed
  BY DryRunGoesOnFields
<1>4. CalChances # 0
  BY LimitsTyped
<1>5. Returned'
  BY <1>1 DEF Returned, Called, Calibrating
<1>6. ASSUME NEW q \in Positions
      PROVE  /\ DryPhase /\ Held(q)' = Held(q) /\ (NotYet(q)' => NotYet(q))
             /\ NotYet(q) => NotYet(q)' \/ pc' = "fatal"
  BY <1>1, <1>3, QueueFacts DEF DryPhase, NotYet, Calibrating, Held, Positions, Base
<1>9. queue[cur].calFailed = 0 => calibrated
  <2>1. ChancesOf(cur)
    BY <1>3 DEF Turns, Chances
  <2> QED BY <1>1, <1>2, <1>3, <2>1 DEF ChancesOf, NotYet, Passed, NotPassed, Over
<1>10. ~ NotYet(cur)
  BY <1>1, <1>3, QueueFacts DEF NotYet, Base, Positions
<1>11. DryRunSkips => queue[cur].late /\ Held(cur) = {}
  <2>1. ChancesOf(cur)
    BY <1>3 DEF Turns, Chances
  <2>2. DryRunSkips => ~ Passed
    BY ConfigTypes DEF DryRunSkips, Passed, Base
  <2> QED BY <1>2, <2>1, <2>2 DEF NotPassed, ChancesOf
<1>7. ASSUME NEW q \in Positions PROVE ChancesOf(q)'
  <2>1. ChancesOf(q) /\ queue'[q].favored = queue[q].favored /\ queue'[q].late = queue[q].late
    BY <1>3 DEF Turns, Chances, KeepsFavored
  <2>2. CASE q = cur /\ DryRunSkips
    <3>1. queue'[q].calFailed # 0
      BY <1>3, <1>4, <2>2
    <3>2. ~ NotYet(q)' /\ ~ queue[q].favored
      BY <1>6, <1>10, <2>1, <2>2 DEF ChancesOf
    <3> QED BY <1>6, <1>11, <2>1, <2>2, <3>1, <3>2 DEF ChancesOf
  <2>3. CASE ~ (q = cur /\ DryRunSkips)
    <3>1. queue'[q].calFailed = queue[q].calFailed
      BY <1>3, <2>3
    <3>2. pc # "calibrate" /\ pc' # "calibrate" /\ pc \notin Over /\ pc # "ready"
      BY <1>1 DEF Over
    <3>3. queue[q].calFailed = 0 => calibrated \/ NotYet(q)
      BY <2>1, <3>2 DEF ChancesOf
    <3> QED BY <1>1, <1>6, <2>1, <3>1, <3>2, <3>3 DEF ChancesOf, Over
  <2> QED BY <2>2, <2>3
<1>8. Turn'
  <2>1. FuzzedWasTried'
    BY <1>3 DEF Turns, Turn, FuzzedWasTried, SameLength
  <2>2. ~ InStages'
    BY <1>1 DEF InStages, Saving, SavingEntry, Calibrating
  <2> QED BY <1>1, <2>1, <2>2 DEF Turn
<1> QED BY <1>3, <1>5, <1>7, <1>8 DEF Turns, Chances, SameLength

(* What cull_queue favours has passed its calibration.                     *)
LEMMA CullTurns ==
    ASSUME Base, Turns, StartFuzzing \/ PickEntry
    PROVE  Turns'
<1>1. /\ pc \in {"ready", "first", "main"} /\ UNCHANGED <<config, top, calibrated, stopSoon, after>>
      /\ \E next \in {"end", "first", "import", "entry"} :
           CullQueue(next) /\ (pc = "ready" => next = IF stopSoon THEN "end" ELSE "first")
  BY DEF StartFuzzing, PickEntry, call
<1>2. pc' \in {"end", "first", "import", "entry", "pfatal"} /\ (pc = "ready" /\ stopSoon => pc' \in {"end", "pfatal"})
  BY <1>1, CullQueueQueue
<1>3. /\ SameLength /\ KeepsChances
      /\ \A i \in Positions : queue'[i].favored => queue[i].favored \/ Held(i) # {}
  <2>1. CASE config.dumb \/ ~ scoreChanged
    BY <1>1, <2>1, StillFields DEF CullQueue, KeepsFavored
  <2>2. CASE ~ (config.dumb \/ ~ scoreChanged)
    BY <1>1, <2>2, CullFields, CulledGood
  <2> QED BY <2>1, <2>2
<1>5. Returned'
  BY <1>2 DEF Returned, Called, Calibrating
<1>7. ASSUME NEW q \in Positions PROVE ChancesOf(q)'
  <2>1. ChancesOf(q) /\ queue'[q].calFailed = queue[q].calFailed /\ queue'[q].late = queue[q].late
        /\ (queue'[q].favored => queue[q].favored \/ Held(q) # {}) /\ Held(q)' = Held(q)
    BY <1>1, <1>3 DEF Turns, Chances, KeepsChances, Held
  <2>2. ~ DryPhase /\ ~ DryPhase' /\ pc' # "ready" /\ pc # "calibrate"
    BY <1>1, <1>2 DEF DryPhase, Calibrating
  <2>3. ~ NotYet(q) /\ ~ NotYet(q)'
    BY <2>2 DEF NotYet
  <2>4. queue[q].calFailed = 0 => calibrated \/ pc' \in Over
    BY <1>1, <1>2, <2>1, <2>3 DEF ChancesOf, Over
  <2> QED BY <1>1, <2>1, <2>2, <2>3, <2>4 DEF ChancesOf
<1>8. Turn'
  <2>1. FuzzedWasTried'
    BY <1>3 DEF Turns, Turn, FuzzedWasTried, SameLength, KeepsChances
  <2>2. ~ InStages'
    BY <1>2 DEF InStages, Saving, SavingEntry, Calibrating
  <2> QED BY <1>2, <2>1, <2>2 DEF Turn
<1> QED BY <1>3, <1>5, <1>7, <1>8 DEF Turns, Chances, SameLength

LEMMA TakeTurns ==
    ASSUME Base, Turns, TakeEntry
    PROVE  Turns'
<1>1. /\ pc = "entry" /\ UNCHANGED <<config, cur, top, calibrated, stopSoon, after>>
      /\ \/ /\ HasChance /\ pc' = "calibrate" /\ cal'.q = cur /\ cal'.return = "recalibrated"
            /\ cal'.res = "run"
         \/ ~ HasChance /\ pc' = IF queue[cur].calFailed = 0 THEN "trim" ELSE "abandon"
  <2>1. cur \in Nat /\ trace \in Traces /\ "recalibrated" \in Returns
    BY QueueFacts DEF Base, Returns
  <2>2. HasChance => StartCalibration([queue EXCEPT ![cur].cksum = Unknown], cur, "recalibrated")
    BY DEF TakeEntry
  <2>3. ~ HasChance => pc' = IF queue[cur].calFailed = 0 THEN "trim" ELSE "abandon"
    BY DEF TakeEntry
  <2>4. pc = "entry" /\ UNCHANGED <<config, cur, top, calibrated, stopSoon, after>>
    BY DEF TakeEntry, entry, rating, call
  <2> QED BY <2>1, <2>2, <2>3, <2>4, StartsType
<1>3. /\ cur \in Positions /\ SameLength /\ KeepsFavored
      /\ \A i \in Positions :
           /\ queue'[i].calFailed = IF i = cur /\ HasChance THEN queue[i].calFailed + 1 ELSE queue[i].calFailed
           /\ queue'[i].late = queue[i].late /\ queue'[i].tried = queue[i].tried
           /\ queue'[i].wasFuzzed = queue[i].wasFuzzed
  BY TakeFields
<1>4. queue[cur].calFailed \in Nat /\ (HasChance => queue[cur].calFailed # 0)
  BY SMTT(30), <1>3, QueueFacts DEF Base, EntrySet, HasChance
<1>2. queue[cur].calFailed # 0 => queue[cur].late
  BY <1>1, <1>3 DEF Turns, Chances, ChancesOf
<1>5. Returned'
  BY <1>1, <1>2, <1>3, <1>4 DEF Returned, Called, Calibrating
<1>6. ASSUME NEW q PROVE ~ DryPhase' /\ ~ NotYet(q) /\ ~ NotYet(q)' /\ Held(q)' = Held(q)
  BY <1>1 DEF DryPhase, NotYet, Calibrating, Held
<1>7. ASSUME NEW q \in Positions PROVE ChancesOf(q)'
  <2>1. ChancesOf(q) /\ queue'[q].favored = queue[q].favored /\ queue'[q].late = queue[q].late
    BY <1>3 DEF Turns, Chances, KeepsFavored
  <2>2. queue'[q].calFailed = 0 <=> queue[q].calFailed = 0
    BY <1>3, <1>4
  <2>3. pc' # "ready" /\ pc # "calibrate" /\ pc # "ready" /\ pc \notin Over
    BY <1>1 DEF Over
  <2> QED BY <1>1, <1>6, <2>1, <2>2, <2>3 DEF ChancesOf
<1>8. Turn'
  <2>1. FuzzedWasTried'
    BY <1>3 DEF Turns, Turn, FuzzedWasTried, SameLength
  <2>2. ~ InStages'
    BY <1>1 DEF InStages, Saving, SavingEntry, Calibrating
  <2>3. pc' = "trim" => calibrated /\ queue'[cur].calFailed = 0
    <3>1. ChancesOf(cur)
      BY <1>3 DEF Turns, Chances
    <3>2. queue[cur].calFailed = 0 => calibrated
      BY <1>1, <1>6, <3>1 DEF ChancesOf, Over
    <3> QED BY <1>1, <1>3, <3>2
  <2>4. pc' = "abandon" => queue'[cur].calFailed # 0
    BY <1>1, <1>3
  <2>5. pc' \in {"calibrate", "trim", "abandon"}
    BY <1>1
  <2> QED BY <1>1, <2>1, <2>2, <2>3, <2>4, <2>5 DEF Turn
<1> QED BY <1>3, <1>5, <1>7, <1>8 DEF Turns, Chances, SameLength

(* A step between picking an entry and leaving it, that keeps cal_failed.  *)
LEMMA KeptChances ==
    ASSUME Base, Chances, SameLength, KeepsFavored, calibrated => calibrated', UNCHANGED stopSoon,
           \A i \in Positions : queue'[i].calFailed = queue[i].calFailed /\ queue'[i].late = queue[i].late,
           \A i \in Positions : Held(i)' # {} => Held(i) # {} \/ queue[i].calFailed = 0,
           pc \notin {"dry", "dryRan", "calibrate", "calibrated", "ready"} \cup Over,
           pc' \notin {"dry", "dryRan", "calibrate", "calibrated", "ready"}
    PROVE  Chances'
<1>1. ~ DryPhase /\ ~ DryPhase' /\ pc' # "ready" /\ pc # "calibrate" /\ pc' # "calibrate" /\ pc # "ready" /\ pc \notin Over
  BY DEF DryPhase, Calibrating
<1>2. ASSUME NEW q \in Positions PROVE ChancesOf(q)'
  <2>1. ChancesOf(q) /\ queue'[q].favored = queue[q].favored /\ ~ NotYet(q) /\ ~ NotYet(q)'
    BY <1>1 DEF Chances, KeepsFavored, NotYet
  <2>2. queue'[q].calFailed = queue[q].calFailed /\ queue'[q].late = queue[q].late
        /\ (Held(q)' # {} => queue[q].calFailed = 0)
    BY <2>1 DEF ChancesOf
  <2> QED BY <1>1, <2>1, <2>2 DEF ChancesOf
<1> QED BY <1>2 DEF Chances, SameLength

LEMMA TrimTurns ==
    ASSUME Base, Turns, TrimAborts \/ TrimFails \/ TrimShortens \/ Trimmed
    PROVE  Turns'
<1>1. /\ pc \in {"trim", "trimmed"} /\ UNCHANGED <<config, cur, calibrated, stopSoon, after>>
      /\ pc' \in {"abandon", "fatal", "trimmed", "score"}
      /\ pc' = "abandon" => stopSoon
  BY DEF TrimAborts, TrimFails, TrimShortens, Trimmed, Trims, entry, rating, call
<1>2. cur \in Positions
  BY <1>1, QueueFacts DEF Base, Positions, Over
<1>3. SameLength /\ KeepsChances /\ KeepsFavored
  BY TrimFields, ShortensFields
<1>4. calibrated /\ queue[cur].calFailed = 0
  BY <1>1 DEF Turns, Turn
<1>5. Returned'
  BY <1>1 DEF Returned, Called, Calibrating
<1>6. \A i \in Positions : Held(i)' # {} => Held(i) # {} \/ queue[i].calFailed = 0
  <2>1. CASE TrimShortens
    BY <1>4, <2>1, ShortensQueue, RatedHeld
  <2>2. CASE ~ TrimShortens
    BY <2>2 DEF TrimAborts, TrimFails, Trimmed, rating, Held
  <2> QED BY <2>1, <2>2
<1>7. Chances'
  BY <1>1, <1>3, <1>6, KeptChances DEF Turns, KeepsChances, Over
<1>8. Turn'
  <2>1. FuzzedWasTried'
    BY <1>3 DEF Turns, Turn, FuzzedWasTried, SameLength, KeepsChances
  <2>2. ~ InStages'
    BY <1>1 DEF InStages, Saving, SavingEntry, Calibrating
  <2> QED BY <1>1, <1>2, <1>3, <1>4, <2>1, <2>2 DEF Turn, KeepsChances
<1> QED BY <1>5, <1>7, <1>8 DEF Turns

LEMMA ScoreTurns ==
    ASSUME Base, Turns, ScoreEntry
    PROVE  Turns'
<1>1. /\ pc = "score" /\ pc' = (IF calibrated THEN "stage" ELSE "sigfpe")
      /\ UNCHANGED <<config, cur, top, calibrated, stopSoon, after>>
  BY DEF ScoreEntry, rating, call
<1>2. pc' = "stage"
  BY <1>1 DEF Turns, Turn
<1>3. /\ cur \in Positions /\ SameLength /\ KeepsFavored
      /\ \A i \in Positions :
           /\ queue'[i].tried <=> queue[i].tried \/ i = cur
           /\ queue'[i].calFailed = queue[i].calFailed /\ queue'[i].late = queue[i].late
           /\ queue'[i].wasFuzzed = queue[i].wasFuzzed
  BY ScoreFields
<1>5. Returned'
  BY <1>2 DEF Returned, Called, Calibrating
<1>7. Chances'
  BY <1>1, <1>2, <1>3, KeptChances DEF Turns, Held, Over
<1>8. Turn'
  <2>1. FuzzedWasTried'
    BY <1>3 DEF Turns, Turn, FuzzedWasTried, SameLength
  <2> QED BY <1>1, <1>2, <1>3, <2>1 DEF Turn
<1> QED BY <1>5, <1>7, <1>8 DEF Turns

LEMMA DeterministicTurns ==
    ASSUME Base, Turns, FinishDeterministic
    PROVE  Turns'
<1>1. /\ pc = "stage" /\ pc' \in {"stage", "pfatal"}
      /\ UNCHANGED <<config, cur, top, calibrated, stopSoon, after>>
  BY DEF FinishDeterministic, CreateThen, rating, call
<1>3. cur \in Positions /\ SameLength /\ KeepsFavored /\ KeepsChances
  BY DeterministicFields
<1>5. Returned'
  BY <1>1 DEF Returned, Called, Calibrating
<1>7. Chances'
  BY <1>1, <1>3, KeptChances DEF Turns, Held, Over, KeepsChances
<1>8. Turn'
  <2>1. FuzzedWasTried'
    BY <1>3 DEF Turns, Turn, FuzzedWasTried, SameLength, KeepsChances
  <2>2. queue[cur].tried
    BY <1>1 DEF Turns, Turn, InStages
  <2> QED BY <1>1, <1>3, <2>1, <2>2 DEF Turn, KeepsChances
<1> QED BY <1>5, <1>7, <1>8 DEF Turns

(* An entry that is counted now was tried, or failed a calibration once.   *)
LEMMA LeaveTurns ==
    ASSUME Base, Turns, LeaveEntry
    PROVE  Turns'
<1>1. /\ pc \in {"abandon", "finish"} /\ pc' \in {"advance", "sync"}
      /\ UNCHANGED <<config, cur, top, calibrated, stopSoon, after>>
  BY DEF LeaveEntry, rating, call
<1>3. /\ cur \in Positions /\ SameLength /\ KeepsFavored
      /\ \A i \in Positions :
           /\ queue'[i].wasFuzzed <=> queue[i].wasFuzzed \/ (i = cur /\ CountsAsFuzzed)
           /\ queue'[i].calFailed = queue[i].calFailed /\ queue'[i].late = queue[i].late
           /\ queue'[i].tried = queue[i].tried
  BY LeaveFields
<1>5. Returned'
  BY <1>1 DEF Returned, Called, Calibrating
<1>7. Chances'
  BY <1>1, <1>3, KeptChances DEF Turns, Held, Over
<1>8. Turn'
  <2>1. CountsAsFuzzed => queue[cur].tried \/ queue[cur].late
    <3>1. pc = "finish" => queue[cur].tried
      BY DEF Turns, Turn, InStages
    <3>2. pc = "abandon" => queue[cur].calFailed # 0 \/ queue[cur].tried \/ queue[cur].late \/ stopSoon
      BY DEF Turns, Turn
    <3> QED BY <1>1, <3>1, <3>2 DEF CountsAsFuzzed
  <2>2. FuzzedWasTried'
    BY <1>3, <2>1 DEF Turns, Turn, FuzzedWasTried, SameLength
  <2>3. ~ InStages'
    BY <1>1 DEF InStages, Saving, SavingEntry, Calibrating
  <2> QED BY <1>1, <2>2, <2>3 DEF Turn
<1> QED BY <1>5, <1>7, <1>8 DEF Turns

LEMMA SaveEntryTurns ==
    ASSUME Base, Turns, SaveEntry
    PROVE  Turns'
<1> DEFINE k == Len(queue) + 1
<1>1. /\ pc = "save" /\ pc' = "calibrate" /\ UNCHANGED <<config, cur, top, calibrated, stopSoon, after>>
      /\ cal'.q = k /\ cal'.return = "saved" /\ cal'.res = "run"
  <2>1. k \in Nat /\ trace \in Traces /\ "saved" \in Returns
    BY QueueFacts DEF Base, Returns
  <2>2. StartCalibration(Append(queue, NewEntry(FALSE, trace)), k, "saved")
    BY DEF SaveEntry
  <2>3. pc = "save" /\ UNCHANGED <<config, cur, top, calibrated, stopSoon, after>>
    BY DEF SaveEntry, entry, rating, call
  <2> HIDE DEF k
  <2> QED BY <2>1, <2>2, <2>3, StartsType
<1>3. /\ Positions' = Positions \cup {k} /\ k \notin Positions /\ KeepsChances /\ KeepsFavored
      /\ queue'[k].calFailed = 1 /\ ~ queue'[k].wasFuzzed /\ ~ queue'[k].favored
  BY SaveFields
<1>4. Held(k) = {} /\ \A q : Held(q)' = Held(q)
  BY <1>1, QueueFacts DEF Base, Held
<1> HIDE DEF k
<1>5. Returned'
  BY <1>1, <1>3 DEF Returned, Called, Calibrating
<1>6. ~ DryPhase /\ ~ DryPhase'
  BY <1>1 DEF DryPhase, Calibrating
<1>7. ASSUME NEW q \in Positions' PROVE ChancesOf(q)'
  <2>1. CASE q = k
    BY <1>1, <1>3, <1>4, <1>6, <2>1 DEF ChancesOf, NotYet
  <2>2. CASE q # k
    <3>1. q \in Positions
      BY <1>3, <2>2
    <3>2. ChancesOf(q) /\ queue'[q].favored = queue[q].favored /\ queue'[q].calFailed = queue[q].calFailed
          /\ queue'[q].late = queue[q].late
      BY <1>3, <3>1 DEF Turns, Chances, KeepsFavored, KeepsChances
    <3> QED BY <1>1, <1>4, <1>6, <3>2 DEF ChancesOf, NotYet, Over
  <2> QED BY <2>1, <2>2
<1>8. Turn'
  <2>1. FuzzedWasTried'
    BY <1>3 DEF Turns, Turn, FuzzedWasTried, KeepsChances
  <2>2. InStages' => InStages
    BY <1>1 DEF InStages, Saving, SavingEntry, Calibrating
  <2>3. InStages => queue'[cur].tried
    <3>1. cur \in Positions
      BY <1>1, QueueFacts DEF Base, Positions, Over
    <3> QED BY <1>3, <3>1 DEF Turns, Turn, KeepsChances
  <2> QED BY <1>1, <2>1, <2>2, <2>3 DEF Turn
<1> QED BY <1>5, <1>7, <1>8 DEF Turns, Chances

LEMMA StopTurns ==
    ASSUME Base, Turns, Stop \/ UNCHANGED vars
    PROVE  Turns'
<1>1. UNCHANGED <<pc, cur, queue, top, calibrated, cal, config, after>> /\ (stopSoon => stopSoon')
  BY DEF Stop, vars, entry, rating, call
<1>2. Returned'
  BY <1>1 DEF Turns, Returned, Called, Passed, NotPassed, Calibrating, Positions
<1>3. Positions' = Positions /\ (DryPhase' <=> DryPhase) /\ \A q : (NotYet(q)' <=> NotYet(q)) /\ Held(q)' = Held(q)
  BY <1>1 DEF DryPhase, NotYet, Calibrating, Held, Positions
<1>4. ASSUME NEW q \in Positions PROVE ChancesOf(q)'
  <2>1. ChancesOf(q)
    BY DEF Turns, Chances
  <2> QED BY <1>1, <1>3, <2>1 DEF ChancesOf
<1>5. Turn'
  <2>1. FuzzedWasTried'
    BY <1>1, <1>3 DEF Turns, Turn, FuzzedWasTried
  <2>2. InStages' <=> InStages
    BY <1>1 DEF InStages, Saving, SavingEntry, Calibrating
  <2> QED BY <1>1, <2>1, <2>2 DEF Turns, Turn
<1> QED BY <1>2, <1>3, <1>4, <1>5 DEF Turns, Chances

LEMMA TurnsNext == Base /\ Turns /\ [Next]_vars => Turns'
<1> SUFFICES ASSUME Base, Turns, [Next]_vars PROVE Turns'
  OBVIOUS
<1>1. CASE Calibrate
  BY <1>1, AbortsTurns, RunTurns, RatesTurns, ReturnsTurns DEF Calibrate
<1>2. CASE Start
  BY <1>2, DryRunTurns, StillTurns, DryRunGoesOnTurns, CullTurns DEF Start
<1>3. CASE Trim
  BY <1>3, StillTurns, TrimTurns DEF Trim
<1>4. CASE Fuzz
  BY <1>4, CullTurns, StillTurns, TakeTurns, ScoreTurns, DeterministicTurns, LeaveTurns DEF Fuzz
<1>5. CASE Save
  BY <1>5, SaveEntryTurns, SaveTurns DEF SavesNoEntry
<1>6. CASE StopSignal \/ ShowStats \/ UNCHANGED vars
  BY <1>6, StopTurns DEF StopSignal, ShowStats
<1> QED BY <1>1, <1>2, <1>3, <1>4, <1>5, <1>6 DEF Next

LEMMA TurnsAlways == Spec => []Turns
BY TurnsInit, TurnsNext, BaseAlways, PTL DEF Spec

(* Whatever the order of failed calibrations, stop signals and new entries: *)
(* an entry counted as fuzzed went through the stages or failed a           *)
(* calibration once.                                                       *)
THEOREM FuzzedOnceTried == Spec => []FuzzedWasTried
<1>1. Turns => FuzzedWasTried
  BY DEF Turns, Turn
<1> QED BY <1>1, TurnsAlways, PTL

-----------------------------------------------------------------------------
(* On whose evidence a finding is filed.                                   *)
Evidence ==
    config.crashMode = "none" =>
        /\ FiledOnOwnRun
        /\ pc = "save" => ranAs = fault
        /\ pc = "genuine" => ranAs = "tmout"
        /\ pc = "keepCrash" => ranAs = "crash"
        /\ SavingEntry \/ pc = "switch" => fault = "none"

(* The steps that neither keep a finding nor go on with one.               *)
OwnFiles(F) == \A f \in F : (f.dir = "crashes" => f.of = "crash") /\ (f.dir = "hangs" => f.of = "tmout")

LEMMA ConfigKept == [Next]_vars => UNCHANGED config
<1>1. Calibrate => UNCHANGED config
  BY DEF Calibrate, CalibrationAborts, CalibrationRun, CalibrationRates, CalibrationReturns
<1>2. Start \/ Trim => UNCHANGED config
  BY DEF Start, DryRun, DryRunStops, DryRunGoesOn, StartFuzzing,
         Trim, TrimSkipped, TrimAborts, TrimFails, TrimShortens, Trimmed
<1>3. Fuzz => UNCHANGED config
  BY DEF Fuzz, PickEntry, SkipEntry, TakeEntry, Recalibrated, ScoreEntry, RunMutant, FinishDeterministic,
         FinishStages, LeaveEntry, Advance, Import, ImportEnds
<1>4. Save => UNCHANGED config
  BY SaveStill DEF SavesNoEntry, Still, SaveEntry
<1>5. StopSignal \/ ShowStats \/ UNCHANGED vars => UNCHANGED config
  BY DEF StopSignal, ShowStats, Stop, vars
<1> QED BY <1>1, <1>2, <1>3, <1>4, <1>5 DEF Next

(* cull_queue sets and removes the marks of redundant entries.             *)
LEMMA CullFiles ==
    ASSUME NEW next, CullQueue(next)
    PROVE  \A f \in files' : f \in files \/ f.dir = "redundant_edges"
<1>1. CASE config.dumb \/ ~ scoreChanged
  BY <1>1 DEF CullQueue
<1>2. CASE ~ (config.dumb \/ ~ scoreChanged)
  <2>1. \E A, B : files' = (files \ A) \cup Marks("redundant_edges", B)
    BY <1>2 DEF CullQueue
  <2> QED BY <2>1 DEF Marks, File
<1> QED BY <1>1, <1>2

LEMMA EvidenceInit == Init => Evidence
BY DEF Init, Evidence, FiledOnOwnRun, File, SavingEntry, Calibrating

LEMMA OwnFilesAdded ==
    ASSUME NEW F, NEW G, OwnFiles(F), NEW f, f.dir = "crashes" => f.of = "crash", f.dir = "hangs" => f.of = "tmout",
           G \subseteq F \cup {f}
    PROVE  OwnFiles(G)
BY DEF OwnFiles

LEMMA EvidenceNext == Base /\ Evidence /\ [Next]_vars => Evidence'
<1> SUFFICES ASSUME Base, Evidence, [Next]_vars PROVE Evidence'
  OBVIOUS
<1>a. UNCHANGED config
  BY ConfigKept
<1> SUFFICES ASSUME config.crashMode = "none" PROVE Evidence'
  BY <1>a DEF Evidence
<1>0. /\ OwnFiles(files)
      /\ pc = "save" => ranAs = fault
      /\ pc = "genuine" => ranAs = "tmout"
      /\ pc = "keepCrash" => ranAs = "crash"
      /\ SavingEntry \/ pc = "switch" => fault = "none"
  BY DEF Evidence, FiledOnOwnRun, OwnFiles
<1> SUFFICES /\ OwnFiles(files')
             /\ pc' = "save" => ranAs' = fault'
             /\ pc' = "genuine" => ranAs' = "tmout"
             /\ pc' = "keepCrash" => ranAs' = "crash"
             /\ SavingEntry' \/ pc' = "switch" => fault' = "none"
  BY DEF Evidence, FiledOnOwnRun, OwnFiles
<1>1. CASE CalibrationAborts \/ CalibrationRun \/ CalibrationRates
  <2>1. UNCHANGED <<files, fault>> /\ pc = "calibrate" /\ pc' \in {"calibrate", "calibrated"} /\ cal'.return = cal.return
    BY <1>1 DEF CalibrationAborts, CalibrationRun, CalibrationRates, call, Base, CalSet
  <2> QED BY <1>0, <2>1 DEF SavingEntry, Calibrating
<1>2. CASE CalibrationReturns
  <2>1. UNCHANGED <<fault, cal>> /\ pc = "calibrated" /\ pc' \in {cal.return, "pfatal"}
    BY <1>2 DEF CalibrationReturns, CreateThen, call
  <2>2. cal.return \in {"dryRan", "recalibrated", "saved"}
    BY <2>1 DEF Base, CalSet, Returns, Calibrating
  <2>3. OwnFiles(files')
    <3>1. files' \subseteq files \cup {File("variable_behavior", cal.q)}
      BY <1>2 DEF CalibrationReturns, CreateThen
    <3> QED BY <1>0, <3>1, OwnFilesAdded DEF File
  <2> QED BY <1>0, <2>1, <2>2, <2>3 DEF SavingEntry, Calibrating
<1>3. CASE DryRun \/ TakeEntry
  <2>1. UNCHANGED <<files, fault>> /\ (pc' \in {"trim", "abandon"} \/ (pc' = "calibrate" /\ cal'.return # "saved"))
    BY <1>3 DEF DryRun, TakeEntry, StartCalibration, Idle, call
  <2> QED BY <1>0, <2>1 DEF SavingEntry, Calibrating
<1>4. CASE \/ DryRunStops \/ DryRunGoesOn \/ Trim \/ SkipEntry \/ Recalibrated \/ ScoreEntry \/ FinishStages
           \/ LeaveEntry \/ Advance \/ ImportEnds
  <2>1. UNCHANGED files /\ pc' \notin {"save", "genuine", "keepCrash", "switch", "saved", "calibrate", "calibrated"}
    BY <1>4 DEF DryRunStops, DryRunGoesOn, Trim, TrimSkipped, TrimAborts, TrimFails, TrimShortens, Trimmed, SkipEntry,
       Recalibrated, ScoreEntry, FinishStages, LeaveEntry, Advance, ImportEnds, Imported
  <2> QED BY <1>0, <2>1 DEF SavingEntry, Calibrating
<1>5. CASE StartFuzzing \/ PickEntry
  <2>1. \E next \in {"end", "first", "import", "entry"} : CullQueue(next)
    BY <1>5 DEF StartFuzzing, PickEntry
  <2>2. pc' \in {"end", "first", "import", "entry", "pfatal"} /\ \A f \in files' : f \in files \/ f.dir = "redundant_edges"
    BY <2>1, CullFiles DEF CullQueue
  <2>3. OwnFiles(files')
    BY <1>0, <2>2 DEF OwnFiles
  <2> QED BY <2>2, <2>3 DEF SavingEntry, Calibrating
<1>6. CASE FinishDeterministic
  <2>1. pc' \in {"stage", "pfatal"} /\ files' \subseteq files \cup {File("deterministic_done", cur)}
    BY <1>6 DEF FinishDeterministic, CreateThen
  <2>2. OwnFiles(files')
    BY <1>0, <2>1, OwnFilesAdded DEF File
  <2> QED BY <2>1, <2>2 DEF SavingEntry, Calibrating
<1>7. CASE RunMutant \/ Import
  <2>1. UNCHANGED files /\ (pc' \in {"abandon", "advance", "entry"} \/ (pc' = "save" /\ ranAs' = fault'))
    BY <1>7 DEF RunMutant, Import, Imported, RunTarget
  <2> QED BY <1>0, <2>1 DEF SavingEntry, Calibrating
<1>8. CASE SaveEntry
  <2>1. UNCHANGED <<files, fault>> /\ fault = "none" /\ pc' = "calibrate"
    BY <1>8 DEF SaveEntry, StartCalibration, call
  <2> QED BY <1>0, <2>1
<1>9. CASE SavedEntry
  <2>1. pc = "saved" /\ UNCHANGED fault /\ pc' \in {"fatal", "pfatal", "switch"}
        /\ files' \subseteq files \cup {File("queue", cal.q)}
    BY <1>9 DEF SavedEntry, CreateThen, call
  <2>2. OwnFiles(files')
    BY <1>0, <2>1, OwnFilesAdded DEF File
  <2> QED BY <1>0, <2>1, <2>2 DEF SavingEntry, Calibrating
<1>10. CASE SaveNothing \/ KeepNothing \/ HangDropped \/ CrashDropped \/ NonTermDropped
  <2>1. UNCHANGED files /\ pc' = after /\ Saving
    BY <1>10 DEF SaveNothing, KeepNothing, HangDropped, CrashDropped, NonTermDropped, Return, Switch, Saving
  <2> QED BY <1>0, <2>1 DEF SavingEntry, Calibrating, Base
<1>11. CASE HangUnique
  <2>1. UNCHANGED <<files, ranAs>> /\ pc' \in {"rerun", "genuine"} /\ fault = "tmout" /\ pc \in {"save", "switch"}
    BY <1>11 DEF HangUnique, Switch
  <2> QED BY <1>0, <2>1 DEF SavingEntry, Calibrating
<1>12. CASE RerunHang
  <2>1. /\ UNCHANGED files /\ pc = "rerun"
        /\ \/ pc' = "genuine" /\ ranAs' = "tmout"
           \/ pc' = "keepCrash" /\ ranAs' = "crash"
           \/ pc' = after
    BY <1>12 DEF RerunHang, RunTarget, AfterRerun, Return
  <2>2. after \in {"stage", "sync", "import"}
    BY <2>1 DEF Base, Saving
  <2> QED BY <1>0, <2>1, <2>2 DEF SavingEntry, Calibrating
<1>13. CASE KeepHang
  <2>1. pc = "genuine" /\ pc' \in {after, "pfatal"} /\ files' \subseteq files \cup {Kept("hangs", hangs)}
    BY <1>13 DEF KeepHang, FileAndReturn, Return
  <2>2. OwnFiles(files')
    BY <1>0, <2>1, OwnFilesAdded DEF Kept
  <2> QED BY <2>1, <2>2 DEF SavingEntry, Calibrating, Base, Saving
<1>14. CASE KeepCrash
  <2>1. /\ pc' \in {after, "pfatal"} /\ files' \subseteq files \cup {Kept("crashes", crashes)}
        /\ pc = "keepCrash" \/ (pc \in {"save", "switch"} /\ fault = "crash")
    BY <1>14 DEF KeepCrash, FileAndReturn, Return, Switch
  <2>2. OwnFiles(files')
    BY <1>0, <2>1, OwnFilesAdded DEF Kept
  <2> QED BY <2>1, <2>2 DEF SavingEntry, Calibrating, Base, Saving
<1>15. CASE KeepNonTerm \/ KeepError
  <2>1. UNCHANGED files /\ pc' = "fatal"
    BY <1>15 DEF KeepNonTerm, KeepError
  <2> QED BY <1>0, <2>1 DEF SavingEntry, Calibrating
<1>16. CASE StopSignal \/ ShowStats \/ UNCHANGED vars
  <2>1. UNCHANGED <<files, pc, ranAs, fault, cal>>
    BY <1>16 DEF StopSignal, ShowStats, Stop, vars, run, call
  <2> QED BY <1>0, <2>1 DEF SavingEntry, Calibrating
<1> QED BY <1>1, <1>2, <1>3, <1>4, <1>5, <1>6, <1>7, <1>8, <1>9, <1>10, <1>11, <1>12, <1>13, <1>14,
           <1>15, <1>16
        DEF Next, Calibrate, Start, Fuzz, Save

(* Outside the crash exploration mode whatever is filed as a crash or as a  *)
(* hang was found by a run that crashed or hung.                           *)
THEOREM FindingsOnOwnRun == Spec => []FiledOnOwnRun
<1>1. Evidence => FiledOnOwnRun
  BY DEF Evidence, FiledOnOwnRun
<1> QED BY <1>1, EvidenceInit, EvidenceNext, BaseAlways, PTL DEF Spec

-----------------------------------------------------------------------------
(* The files: what is there was numbered or marked once.                   *)
FileRight(f) ==
    /\ f.dir = "queue" => f.id \in Positions /\ (SavingEntry => f.id # Len(queue))
    /\ f.dir = "hangs" => f.id \in 0 .. hangs - 1
    /\ f.dir = "crashes" => f.id \in 0 .. crashes - 1
    /\ f.dir = "variable_behavior" => f.id \in Positions /\ queue[f.id].variable
    /\ f.dir = "deterministic_done" => f.id \in Positions /\ queue[f.id].passedDet
    /\ f.dir = "redundant_edges" =>
          f = File("redundant_edges", f.id) /\ f.id \in Positions /\ queue[f.id].redundant

FilesNumbered ==
    /\ pc # "pfatal"
    /\ hangs \in Nat /\ crashes \in Nat
    /\ \A f \in files : FileRight(f)
    /\ \A q \in Positions : queue[q].redundant => Exists(File("redundant_edges", q))
    /\ SavingEntry => cal.q = Len(queue)

LEMMA FilesInit == Init => FilesNumbered
<1> SUFFICES ASSUME Init PROVE FilesNumbered
  OBVIOUS
<1>1. Positions = 1 .. config.seeds /\ pc = "dry" /\ hangs = 0 /\ crashes = 0
  BY InitEntries DEF Init
<1>2. ASSUME NEW f \in files PROVE FileRight(f)
  <2>1. \E q \in 1 .. config.seeds :
          f = File("queue", q) \/ (f = File("deterministic_done", q) /\ queue[q].passedDet)
    BY DEF Init
  <2> QED BY <1>1, <2>1 DEF FileRight, File, SavingEntry, Calibrating
<1> QED BY <1>1, <1>2, InitQueue DEF FilesNumbered, SavingEntry, Calibrating

(* A step that creates or removes no file.                                 *)
LEMMA FilesStay ==
    ASSUME Base, FilesNumbered, UNCHANGED files, hangs' \in Nat, crashes' \in Nat,
           hangs <= hangs', crashes <= crashes', pc' # "pfatal", SameLength,
           \A i \in Positions : /\ queue[i].variable => queue'[i].variable
                                /\ queue[i].passedDet => queue'[i].passedDet
                                /\ queue'[i].redundant = queue[i].redundant,
           SavingEntry' => SavingEntry /\ cal'.q = cal.q
    PROVE  FilesNumbered'
<1>1. ASSUME NEW f \in files PROVE FileRight(f)'
  <2>1. FileRight(f)
    BY DEF FilesNumbered
  <2>2. f.dir = "hangs" => f.id \in 0 .. hangs' - 1
    BY <2>1 DEF FileRight, FilesNumbered
  <2>3. f.dir = "crashes" => f.id \in 0 .. crashes' - 1
    BY <2>1 DEF FileRight, FilesNumbered
  <2> QED BY <2>1, <2>2, <2>3 DEF FileRight, SameLength
<1> QED BY <1>1 DEF FilesNumbered, SameLength, Exists

(* A step that creates one file, whose number or mark is new.              *)
LEMMA FileAdded ==
    ASSUME Base, FilesNumbered, NEW g, files' = files \cup {g}, FileRight(g)', g.dir # "redundant_edges",
           hangs' \in Nat, crashes' \in Nat, hangs <= hangs', crashes <= crashes', pc' # "pfatal", SameLength,
           \A i \in Positions : /\ queue[i].variable => queue'[i].variable
                                /\ queue[i].passedDet => queue'[i].passedDet
                                /\ queue'[i].redundant = queue[i].redundant,
           SavingEntry' => SavingEntry /\ cal'.q = cal.q
    PROVE  FilesNumbered'
<1>1. ASSUME NEW f \in files PROVE FileRight(f)'
  <2>1. FileRight(f)
    BY DEF FilesNumbered
  <2>2. f.dir = "hangs" => f.id \in 0 .. hangs' - 1
    BY <2>1 DEF FileRight, FilesNumbered
  <2>3. f.dir = "crashes" => f.id \in 0 .. crashes' - 1
    BY <2>1 DEF FileRight, FilesNumbered
  <2> QED BY <2>1, <2>2, <2>3 DEF FileRight, SameLength
<1>2. \A f : Exists(f) => Exists(f)'
  BY DEF Exists
<1> QED BY <1>1, <1>2 DEF FilesNumbered, SameLength, File

(* The steps of a run, a calibration or a stage that touch no file.        *)
LEMMA QuietFiles ==
    ASSUME Base, FilesNumbered, Turns,
           \/ CalibrationAborts \/ CalibrationRun \/ CalibrationRates
           \/ DryRun \/ DryRunStops \/ DryRunGoesOn \/ Trim
           \/ SkipEntry \/ TakeEntry \/ Recalibrated \/ ScoreEntry \/ RunMutant \/ FinishStages
           \/ LeaveEntry \/ Advance \/ Import \/ ImportEnds
    PROVE  FilesNumbered'
<1>1. UNCHANGED <<files, hangs, crashes>> /\ hangs \in Nat /\ crashes \in Nat
  BY DEF CalibrationAborts, CalibrationRun, CalibrationRates, DryRun, DryRunStops, DryRunGoesOn,
     Trim, TrimSkipped, TrimAborts, TrimFails, TrimShortens, Trimmed, SkipEntry, TakeEntry, Recalibrated, ScoreEntry,
     RunMutant, FinishStages, LeaveEntry, Advance, Import, ImportEnds, findings, FilesNumbered
<1>2. SameLength /\ KeepsMarks
  <2>1. CASE \/ DryRunStops \/ SkipEntry \/ Recalibrated \/ RunMutant \/ FinishStages \/ Advance
             \/ Import \/ ImportEnds
    <3>1. UNCHANGED queue
      BY <2>1 DEF DryRunStops, SkipEntry, Recalibrated, RunMutant, FinishStages, Advance, Import, ImportEnds
    <3> QED BY <3>1, StillFields
  <2>2. CASE CalibrationAborts \/ CalibrationRun \/ CalibrationRates
    BY <2>2, AbortsFields, RunFields, RatesFields
  <2>3. CASE DryRun \/ DryRunGoesOn \/ TakeEntry \/ ScoreEntry \/ LeaveEntry
    BY <2>3, DryRunFields, DryRunGoesOnFields, TakeFields, ScoreFields, LeaveFields
  <2>4. CASE Trim
    BY <2>4, TrimFields, ShortensFields DEF Trim
  <2> QED BY <2>1, <2>2, <2>3, <2>4
<1>3. pc' # "pfatal" /\ (SavingEntry' => SavingEntry /\ cal'.q = cal.q)
  <2>1. CASE CalibrationAborts \/ CalibrationRun \/ CalibrationRates
    <3>1. /\ pc = "calibrate" /\ pc' \in {"calibrate", "calibrated"}
          /\ cal'.q = cal.q /\ cal'.return = cal.return
      <4>1. cal \in CalSet
        BY DEF Base
      <4>2. CASE CalibrationAborts
        BY <4>1, <4>2 DEF CalibrationAborts, CalSet
      <4>3. CASE CalibrationRun
        BY <4>1, <4>3 DEF CalibrationRun, CalSet
      <4>4. CASE CalibrationRates
        BY <4>1, <4>4 DEF CalibrationRates, CalSet
      <4> QED BY <2>1, <4>2, <4>3, <4>4
    <3> QED BY <3>1 DEF SavingEntry, Calibrating
  <2>2. CASE DryRun \/ TakeEntry
    <3>1. pc' \in {"trim", "abandon"} \/ (pc' = "calibrate" /\ cal'.return # "saved")
      BY <2>2 DEF DryRun, TakeEntry, StartCalibration, Idle
    <3> QED BY <3>1 DEF SavingEntry, Calibrating
  <2>3. CASE ~ (\/ CalibrationAborts \/ CalibrationRun \/ CalibrationRates \/ DryRun \/ TakeEntry)
    <3>1. pc' \in {"ready", "fatal", "dry", "score", "abandon", "advance", "trim", "trimmed", "stage", "sigfpe",
                   "save", "finish", "sync", "entry", "end", "main"}
      BY <2>3 DEF DryRunStops, DryRunGoesOn, Trim, TrimSkipped, TrimAborts, TrimFails, TrimShortens, Trimmed, SkipEntry,
         Recalibrated, ScoreEntry, RunMutant, FinishStages, LeaveEntry, Advance, Import, ImportEnds, Imported
    <3> QED BY <3>1 DEF SavingEntry, Calibrating
  <2> QED BY <2>1, <2>2, <2>3
<1> QED BY <1>1, <1>2, <1>3, FilesStay DEF KeepsMarks

LEMMA ReturnsFiles ==
    ASSUME Base, FilesNumbered, CalibrationReturns
    PROVE  FilesNumbered'
<1>0. PICK g : g = File("variable_behavior", cal.q)
  OBVIOUS
<1>1. /\ pc = "calibrated" /\ UNCHANGED <<cal, hangs, crashes>> /\ hangs \in Nat /\ crashes \in Nat
      /\ IF BecomesVariable THEN CreateThen(g, cal.return) ELSE pc' = cal.return /\ UNCHANGED files
  BY <1>0 DEF CalibrationReturns, findings, FilesNumbered
<1>2. cal.return \in {"dryRan", "recalibrated", "saved"}
  BY <1>1 DEF Base, CalSet, Returns, Calibrating
<1>3. /\ cal.q \in Positions /\ SameLength
      /\ \A i \in Positions :
           /\ queue'[i].variable <=> queue[i].variable \/ (i = cal.q /\ BecomesVariable)
           /\ queue'[i].passedDet = queue[i].passedDet /\ queue'[i].redundant = queue[i].redundant
  BY ReturnsFields
<1>4. SavingEntry' => SavingEntry /\ cal'.q = cal.q
  BY <1>1, <1>2 DEF SavingEntry, Calibrating, CreateThen
<1>5. CASE BecomesVariable
  <2>1. ~ Exists(g)
    BY <1>0, <1>5 DEF Exists, FilesNumbered, FileRight, File, BecomesVariable
  <2>2. pc' = cal.return /\ files' = files \cup {g}
    BY <1>1, <1>5, <2>1 DEF CreateThen
  <2>3. FileRight(g)'
    <3>1. g.dir = "variable_behavior" /\ g.id = cal.q
      BY <1>0 DEF File
    <3> QED BY <1>3, <1>5, <3>1 DEF FileRight, SameLength, BecomesVariable
  <2>4. g.dir # "redundant_edges"
    BY <1>0 DEF File
  <2> QED BY <1>1, <1>2, <1>3, <1>4, <2>2, <2>3, <2>4, FileAdded
<1>6. CASE ~ BecomesVariable
  BY <1>1, <1>2, <1>3, <1>4, <1>6, FilesStay
<1> QED BY <1>5, <1>6

LEMMA DeterministicFiles ==
    ASSUME Base, FilesNumbered, FinishDeterministic
    PROVE  FilesNumbered'
<1>0. PICK g : g = File("deterministic_done", cur)
  OBVIOUS
<1>1. /\ pc = "stage" /\ UNCHANGED <<cal, hangs, crashes>> /\ hangs \in Nat /\ crashes \in Nat
      /\ IF queue[cur].passedDet THEN UNCHANGED <<pc, files>> ELSE CreateThen(g, "stage")
  BY <1>0 DEF FinishDeterministic, findings, FilesNumbered
<1>3. /\ cur \in Positions /\ SameLength
      /\ \A i \in Positions :
           /\ queue'[i].passedDet <=> queue[i].passedDet \/ (i = cur /\ ~ queue[cur].passedDet)
           /\ queue'[i].variable = queue[i].variable /\ queue'[i].redundant = queue[i].redundant
  BY DeterministicFields
<1>5. CASE ~ queue[cur].passedDet
  <2>1. ~ Exists(g)
    BY <1>0, <1>5 DEF Exists, FilesNumbered, FileRight, File
  <2>2. pc' = "stage" /\ files' = files \cup {g}
    BY <1>1, <1>5, <2>1 DEF CreateThen
  <2>3. FileRight(g)'
    <3>1. g.dir = "deterministic_done" /\ g.id = cur
      BY <1>0 DEF File
    <3> QED BY <1>3, <1>5, <3>1 DEF FileRight, SameLength, BecomesVariable
  <2>4. g.dir # "redundant_edges" /\ ~ SavingEntry'
    BY <1>0, <2>2 DEF File, SavingEntry, Calibrating
  <2> QED BY <1>1, <1>3, <2>2, <2>3, <2>4, FileAdded
<1>6. CASE queue[cur].passedDet
  <2>1. ~ SavingEntry'
    BY <1>1, <1>6 DEF SavingEntry, Calibrating
  <2> QED BY <1>1, <1>3, <1>6, <2>1, FilesStay
<1> QED BY <1>5, <1>6

(* cull_queue marks what has no mark and unmarks what has one.             *)
LEMMA CullMarks ==
    ASSUME Base, FilesNumbered, NEW next, next # "pfatal", CullQueue(next), ~ (config.dumb \/ ~ scoreChanged)
    PROVE  /\ pc' = next /\ SameLength
           /\ \A f \in files' : \/ f \in files /\ f.dir # "redundant_edges"
                                \/ f \in files /\ queue'[f.id].redundant
                                \/ \E q \in Positions : f = File("redundant_edges", q) /\ queue'[q].redundant
           /\ \A f \in files : f.dir # "redundant_edges" => f \in files'
           /\ \A q \in Positions : queue'[q].redundant => Exists(File("redundant_edges", q))'
<1> DEFINE w == Culled.winners
           marked == {q \in Positions : q \notin w /\ ~queue[q].redundant}
           unmarked == {q \in Positions : q \in w /\ queue[q].redundant}
<1>1. /\ pc' = IF \/ \E f \in Marks("redundant_edges", marked) : Exists(f)
                  \/ \E f \in Marks("redundant_edges", unmarked) : ~Exists(f)
               THEN "pfatal" ELSE next
      /\ files' = (files \ Marks("redundant_edges", unmarked)) \cup Marks("redundant_edges", marked)
  BY DEF CullQueue
<1>2. SameLength /\ \A i \in Positions : queue'[i].redundant = ~ (i \in w)
  BY CullFields
<1> HIDE DEF w
<1>3. \A f \in Marks("redundant_edges", marked) : ~ Exists(f)
  <2> SUFFICES ASSUME NEW q \in Positions, ~ queue[q].redundant, Exists(File("redundant_edges", q)) PROVE FALSE
    BY DEF Marks
  <2> QED BY DEF Exists, FilesNumbered, FileRight, File
<1>4. \A f \in Marks("redundant_edges", unmarked) : Exists(f)
  BY DEF Marks, FilesNumbered
<1>5. pc' = next
  BY <1>1, <1>3, <1>4
<1>6. ASSUME NEW f \in files'
      PROVE  \/ f \in files /\ f.dir # "redundant_edges"
             \/ f \in files /\ queue'[f.id].redundant
             \/ \E q \in Positions : f = File("redundant_edges", q) /\ queue'[q].redundant
  <2>1. CASE f \in Marks("redundant_edges", marked)
    BY <1>2, <2>1 DEF Marks
  <2>2. CASE f \in files \ Marks("redundant_edges", unmarked) /\ f.dir = "redundant_edges"
    <3>1. f.id \in Positions /\ queue[f.id].redundant /\ f = File("redundant_edges", f.id)
      BY <2>2 DEF FilesNumbered, FileRight
    <3> QED BY <1>2, <2>2, <3>1 DEF Marks
  <2> QED BY <1>1, <2>1, <2>2
<1>7. \A f \in files : f.dir # "redundant_edges" => f \in files'
  BY <1>1 DEF Marks, File
<1>8. ASSUME NEW q \in Positions, queue'[q].redundant PROVE Exists(File("redundant_edges", q))'
  <2>0. PICK g : g = File("redundant_edges", q)
    OBVIOUS
  <2>1. CASE ~ queue[q].redundant
    <3>1. g \in files'
      BY <1>1, <1>2, <1>8, <2>0, <2>1 DEF Marks
    <3> QED BY <2>0, <3>1 DEF Exists
  <2>2. CASE queue[q].redundant
    <3>1. PICK f \in files : f.dir = "redundant_edges" /\ f.id = q
      BY <2>2 DEF FilesNumbered, Exists, File
    <3>2. f \in files'
      <4>1. q \notin w
        BY <1>2, <1>8
      <4>2. f \notin Marks("redundant_edges", unmarked)
        BY <3>1, <4>1 DEF Marks, File
      <4> QED BY <1>1, <4>2
    <3> QED BY <3>1, <3>2 DEF Exists, File
  <2> QED BY <2>1, <2>2
<1> QED BY <1>2, <1>5, <1>6, <1>7, <1>8

LEMMA CullNumbers ==
    ASSUME Base, FilesNumbered, StartFuzzing \/ PickEntry
    PROVE  FilesNumbered'
<1>1. /\ pc \in {"ready", "first", "main"} /\ UNCHANGED <<hangs, crashes>> /\ hangs \in Nat /\ crashes \in Nat
      /\ \E next \in {"end", "first", "import", "entry"} : CullQueue(next)
  BY DEF StartFuzzing, PickEntry, findings, FilesNumbered
<1>2. CASE config.dumb \/ ~ scoreChanged
  <2>1. pc' \in {"end", "first", "import", "entry"} /\ UNCHANGED <<queue, files>>
    BY <1>1, <1>2 DEF CullQueue
  <2>2. ~ SavingEntry' /\ pc' # "pfatal"
    BY <2>1 DEF SavingEntry, Calibrating
  <2>3. SameLength /\ KeepsMarks
    BY <2>1, StillFields
  <2> QED BY <1>1, <2>1, <2>2, <2>3, FilesStay DEF KeepsMarks
<1>3. CASE ~ (config.dumb \/ ~ scoreChanged)
  <2>1. PICK next \in {"end", "first", "import", "entry"} : CullQueue(next)
    BY <1>1
  <2>2. /\ pc' = next /\ SameLength
        /\ \A f \in files' : \/ f \in files /\ f.dir # "redundant_edges"
                             \/ f \in files /\ queue'[f.id].redundant
                             \/ \E q \in Positions : f = File("redundant_edges", q) /\ queue'[q].redundant
        /\ \A q \in Positions : queue'[q].redundant => Exists(File("redundant_edges", q))'
    BY <1>3, <2>1, CullMarks
  <2>3. \A i \in Positions : queue'[i].passedDet = queue[i].passedDet /\ queue'[i].variable = queue[i].variable
    BY <1>3, <2>1, CullFields
  <2>4. ~ SavingEntry /\ ~ SavingEntry' /\ pc' # "pfatal"
    BY <1>1, <2>1, <2>2 DEF SavingEntry, Calibrating
  <2>5. ASSUME NEW f \in files' PROVE FileRight(f)'
    <3>1. CASE f \in files /\ (f.dir # "redundant_edges" \/ queue'[f.id].redundant)
      <4>1. FileRight(f)
        BY <3>1 DEF FilesNumbered
      <4> QED BY <1>1, <2>2, <2>3, <2>4, <3>1, <4>1 DEF FileRight, SameLength
    <3>2. CASE \E q \in Positions : f = File("redundant_edges", q) /\ queue'[q].redundant
      BY <2>2, <3>2 DEF FileRight, File, SameLength
    <3> QED BY <2>2, <3>1, <3>2
  <2> QED BY <1>1, <2>2, <2>4, <2>5 DEF FilesNumbered, SameLength
<1> QED BY <1>2, <1>3

(* save_if_interesting.                                                    *)
LEMMA SaveEntryFiles ==
    ASSUME Base, FilesNumbered, SaveEntry
    PROVE  FilesNumbered'
<1> DEFINE k == Len(queue) + 1
<1>1. /\ pc = "save" /\ pc' = "calibrate" /\ UNCHANGED <<files, hangs, crashes>>
      /\ cal'.q = k
  BY DEF SaveEntry, StartCalibration, Idle, findings
<1>2. /\ Len(queue') = k /\ Positions' = Positions \cup {k} /\ k \notin Positions /\ KeepsMarks
      /\ ~ queue'[k].redundant
  BY SaveFields
<1> HIDE DEF k
<1>3. ~ SavingEntry
  BY <1>1 DEF SavingEntry, Calibrating
<1>4. ASSUME NEW f \in files PROVE FileRight(f)'
  <2>1. FileRight(f)
    BY DEF FilesNumbered
  <2> QED BY <1>1, <1>2, <2>1 DEF FileRight, KeepsMarks
<1> QED BY <1>1, <1>2, <1>4 DEF FilesNumbered, Exists, KeepsMarks

LEMMA SavedFiles ==
    ASSUME Base, FilesNumbered, Turns, SavedEntry
    PROVE  FilesNumbered'
<1>0. PICK g : g = File("queue", cal.q)
  OBVIOUS
<1>1. /\ pc = "saved" /\ UNCHANGED <<queue, hangs, crashes>> /\ hangs \in Nat /\ crashes \in Nat
      /\ \/ pc' = "fatal" /\ UNCHANGED files
         \/ CreateThen(g, "switch")
  BY <1>0 DEF SavedEntry, findings, FilesNumbered
<1>2. SavingEntry /\ cal.q = Len(queue) /\ cal.q \in Positions
  BY <1>1 DEF SavingEntry, FilesNumbered, Turns, Returned
<1>3. ~ Exists(g)
  BY <1>0, <1>2 DEF Exists, FilesNumbered, FileRight, File
<1>4. \/ pc' = "fatal" /\ UNCHANGED files
      \/ pc' = "switch" /\ files' = files \cup {g}
  BY <1>1, <1>3 DEF CreateThen
<1>5. ~ SavingEntry' /\ pc' # "pfatal"
  BY <1>4 DEF SavingEntry, Calibrating
<1>6. SameLength /\ KeepsMarks
  BY <1>1, StillFields
<1>7. FileRight(g)' /\ g.dir # "redundant_edges"
  <2>1. g.dir = "queue" /\ g.id = cal.q
    BY <1>0 DEF File
  <2> QED BY <1>2, <1>5, <1>6, <2>1 DEF FileRight, SameLength
<1>8. CASE UNCHANGED files
  BY <1>1, <1>5, <1>6, <1>8, FilesStay DEF KeepsMarks
<1>9. CASE files' = files \cup {g}
  BY <1>1, <1>5, <1>6, <1>7, <1>9, FileAdded DEF KeepsMarks
<1> QED BY <1>4, <1>8, <1>9

LEMMA KeepFiles ==
    ASSUME Base, FilesNumbered, KeepHang \/ KeepCrash
    PROVE  FilesNumbered'
<1>1. UNCHANGED queue /\ Saving /\ hangs \in Nat /\ crashes \in Nat
  BY DEF KeepHang, KeepCrash, Switch, Saving, FilesNumbered
<1>2. SameLength /\ KeepsMarks
  BY <1>1, StillFields
<1>3. after \in {"stage", "sync", "import"}
  BY <1>1 DEF Base
<1>4. CASE KeepHang
  <2>0. PICK g : g = Kept("hangs", hangs)
    OBVIOUS
  <2>1. FileAndReturn(g) /\ hangs' = hangs + 1 /\ UNCHANGED crashes
    BY <1>4, <2>0 DEF KeepHang
  <2>2. ~ Exists(g)
    BY <1>1, <2>0 DEF Exists, FilesNumbered, FileRight, Kept
  <2>3. pc' = after /\ files' = files \cup {g}
    BY <2>1, <2>2 DEF FileAndReturn, Return
  <2>4. pc' # "pfatal" /\ ~ SavingEntry'
    BY <1>3, <2>3 DEF SavingEntry, Calibrating
  <2>5. g.dir = "hangs" /\ g.id = hangs
    BY <2>0 DEF Kept
  <2>6. FileRight(g)'
    BY <1>1, <2>1, <2>5 DEF FileRight
  <2> QED BY <1>1, <1>2, <2>1, <2>3, <2>4, <2>5, <2>6, FileAdded DEF KeepsMarks
<1>5. CASE KeepCrash
  <2>0. PICK g : g = Kept("crashes", crashes)
    OBVIOUS
  <2>1. FileAndReturn(g) /\ crashes' = crashes + 1 /\ UNCHANGED hangs
    BY <1>5, <2>0 DEF KeepCrash
  <2>2. ~ Exists(g)
    BY <1>1, <2>0 DEF Exists, FilesNumbered, FileRight, Kept
  <2>3. pc' = after /\ files' = files \cup {g}
    BY <2>1, <2>2 DEF FileAndReturn, Return
  <2>4. pc' # "pfatal" /\ ~ SavingEntry'
    BY <1>3, <2>3 DEF SavingEntry, Calibrating
  <2>5. g.dir = "crashes" /\ g.id = crashes
    BY <2>0 DEF Kept
  <2>6. FileRight(g)'
    BY <1>1, <2>1, <2>5 DEF FileRight
  <2> QED BY <1>1, <1>2, <2>1, <2>3, <2>4, <2>5, <2>6, FileAdded DEF KeepsMarks
<1> QED BY <1>4, <1>5

LEMMA DropFiles ==
    ASSUME Base, FilesNumbered,
           \/ SaveNothing \/ KeepNothing \/ HangDropped \/ HangUnique \/ RerunHang \/ CrashDropped
           \/ NonTermDropped \/ KeepNonTerm \/ KeepError
    PROVE  FilesNumbered'
<1>1. /\ UNCHANGED <<queue, files, hangs>> /\ crashes' \in {crashes, crashes + 1}
      /\ hangs \in Nat /\ crashes \in Nat
  BY DEF SaveNothing, KeepNothing, HangDropped, HangUnique, RerunHang, CrashDropped, NonTermDropped,
     KeepNonTerm, KeepError, findings, FilesNumbered
<1>2. pc' \in {after, "rerun", "genuine", "keepCrash", "fatal"} /\ Saving
  BY DEF SaveNothing, KeepNothing, HangDropped, HangUnique, RerunHang, CrashDropped, NonTermDropped,
     KeepNonTerm, KeepError, Return, AfterRerun, Saving, Switch
<1>3. pc' # "pfatal" /\ ~ SavingEntry'
  BY <1>2 DEF SavingEntry, Calibrating, Base
<1>4. SameLength /\ KeepsMarks
  BY <1>1, StillFields
<1> QED BY <1>1, <1>3, <1>4, FilesStay DEF KeepsMarks

LEMMA FilesNext == Base /\ Turns /\ FilesNumbered /\ [Next]_vars => FilesNumbered'
<1> SUFFICES ASSUME Base, Turns, FilesNumbered, [Next]_vars PROVE FilesNumbered'
  OBVIOUS
<1>1. CASE Calibrate
  BY <1>1, QuietFiles, ReturnsFiles DEF Calibrate
<1>2. CASE Start \/ Trim \/ Fuzz
  BY <1>2, QuietFiles, CullNumbers, DeterministicFiles DEF Start, Fuzz
<1>3. CASE Save
  BY <1>3, SaveEntryFiles, SavedFiles, KeepFiles, DropFiles DEF Save
<1>4. CASE StopSignal \/ ShowStats \/ UNCHANGED vars
  <2>1. UNCHANGED <<pc, queue, files, hangs, crashes, cal>>
    BY <1>4 DEF StopSignal, ShowStats, Stop, vars, findings
  <2>2. SavingEntry' <=> SavingEntry
    BY <2>1 DEF SavingEntry, Calibrating
  <2>3. SameLength /\ KeepsMarks
    BY <2>1, StillFields
  <2> QED BY <2>1, <2>2, <2>3, FilesStay DEF KeepsMarks, FilesNumbered
<1> QED BY <1>1, <1>2, <1>3, <1>4 DEF Next

(* However long the campaign and however it is stopped: no exclusive create *)
(* fails, no mark is missing when it is removed, and the score of an entry *)
(* is never divided by a total of zero calibration cycles.                 *)
THEOREM NeverDies == Spec => []NeverDiesOfItself
<1>1. FilesNumbered /\ Turns => NeverDiesOfItself
  BY DEF FilesNumbered, Turns, Turn, NeverDiesOfItself
<1> QED BY <1>1, FilesInit, FilesNext, TurnsAlways, BaseAlways, PTL DEF Spec

-----------------------------------------------------------------------------
(* trace_mini of an entry is the trace it was calibrated with, unless its   *)
(* map changed from run to run; and it contains the slots the entry holds. *)
Varies(q) == queue[q].variable \/ (Calibrating /\ cal.q = q /\ cal.variable)
TraceOf(q) == queue[q].mini = Hit(queue[q].cksum) /\ Held(q) \subseteq queue[q].mini

Traced ==
    /\ \A q \in Positions : Varies(q) \/ Held(q) = {} \/ TraceOf(q)
    /\ pc = "calibrate" /\ cal.res = "done" => cal.variable \/ trace = queue[cal.q].cksum

LEMMA TracedInit == Init => Traced
<1> SUFFICES ASSUME Init PROVE Traced
  OBVIOUS
<1>1. pc = "dry" /\ \A q \in Positions : Held(q) = {}
  BY DEF Init, Held, Positions
<1> QED BY <1>1 DEF Traced

(* A step that changes neither the traces nor the slots of an entry.       *)
LEMMA TracedStays ==
    ASSUME Base, Traced, SameLength, KeepsMinis, UNCHANGED top,
           \A i \in Positions : queue'[i].cksum = queue[i].cksum \/ Held(i) = {},
           \A i \in Positions : Varies(i) => Varies(i)',
           pc' = "calibrate" /\ cal'.res = "done" => cal'.variable \/ trace' = queue'[cal'.q].cksum
    PROVE  Traced'
<1>1. ASSUME NEW q \in Positions PROVE (Varies(q) \/ Held(q) = {} \/ TraceOf(q))'
  <2>1. (Varies(q) \/ Held(q) = {} \/ TraceOf(q)) /\ Held(q)' = Held(q) /\ queue'[q].mini = queue[q].mini
    BY DEF Traced, Held, KeepsMinis
  <2> QED BY <2>1 DEF TraceOf
<1> QED BY <1>1 DEF Traced, SameLength

(* The step that rates entry q by its trace.                               *)
LEMMA RatedTraced ==
    ASSUME Base, WinnersReferenced, Traced, NEW q, NEW t, Rated(q, t),
           Varies(q)' \/ t = queue[q].cksum,
           \A i \in Positions : Varies(i) => Varies(i)', pc' # "calibrate"
    PROVE  Traced'
<1>1. /\ q \in Positions /\ Len(queue') = Len(queue)
      /\ \A o \in Positions : queue'[o].cksum = queue[o].cksum
  BY DEF Rated
<1>2. PICK won \in SUBSET Edge : ScoredBy(q, t, won)
  BY DEF Rated
<1>3. won \subseteq Hit(t) /\ top' = TopAfter(q, won)
  BY <1>2 DEF ScoredBy
<1>4. top \in [Edge -> 0 .. Len(queue)]
  BY DEF Base
<1>5. Held(q)' = Held(q) \cup won /\ \A o \in Positions \ {q} : Held(o)' = Held(o) \ won
  BY <1>3, <1>4 DEF Held, TopAfter
<1>6. WinnersReferenced'
  BY RatedReferences
<1>7. ASSUME ~ Varies(q)' PROVE (Held(q) = {} \/ TraceOf(q))'
  <2>1. t = queue[q].cksum /\ (Held(q) = {} \/ TraceOf(q))
    BY <1>1, <1>7 DEF Traced
  <2>2. CASE won = {}
    <3>1. queue'[q].mini = queue[q].mini /\ Held(q)' = Held(q)
      BY <1>2, <1>5, <2>2 DEF ScoredBy, Refreshed
    <3> QED BY <1>1, <2>1, <3>1 DEF TraceOf
  <2>3. CASE won # {} /\ Held(q) = {}
    <3>1. queue[q].refs = 0
      BY <1>1, <2>3, FS_EmptySet DEF WinnersReferenced
    <3>2. queue'[q].mini = Hit(t)
      BY <1>2, <2>3, <3>1 DEF ScoredBy, Refreshed
    <3> QED BY <1>1, <1>3, <1>5, <2>1, <2>3, <3>2 DEF TraceOf
  <2>4. CASE TraceOf(q)
    <3>1. queue'[q].mini = Hit(t)
      BY <1>2, <2>1, <2>4 DEF ScoredBy, TraceOf
    <3> QED BY <1>1, <1>3, <1>5, <2>1, <2>4, <3>1 DEF TraceOf
  <2> QED BY <2>1, <2>2, <2>3, <2>4
<1>8. ASSUME NEW o \in Positions, o # q, ~ Varies(o)' PROVE (Held(o) = {} \/ TraceOf(o))'
  <2>1. Held(o) = {} \/ TraceOf(o)
    BY <1>8 DEF Traced
  <2>2. queue'[o].mini \in {{}, queue[o].mini}
    BY <1>2, <1>8 DEF ScoredBy
  <2>3. queue'[o].mini = {} <=> Held(o)' = {}
    BY <1>1, <1>6 DEF WinnersReferenced, Positions
  <2> QED BY <1>1, <1>5, <1>8, <2>1, <2>2, <2>3 DEF TraceOf
<1> QED BY <1>1, <1>7, <1>8 DEF Traced, Positions

-----------------------------------------------------------------------------
(* The steps that neither calibrate, rate nor cull, and add no entry.      *)
BitMaps == [Edge -> SUBSET Classes]
VirginMaps == [bits : BitMaps, tmout : BitMaps, crash : BitMaps]

LEMMA ClearedType == \A map \in BitMaps : \A t : Cleared(map, t) \in BitMaps
BY DEF BitMaps, Cleared

LEMMA UniquelyType == \A map \in BitMaps : Uniquely(map) \in BitMaps
BY ClearedType DEF Uniquely

Ordinary == [Next]_vars /\ ~ (Calibrate \/ TrimShortens \/ StartFuzzing \/ PickEntry \/ SaveEntry)

LEMMA OrdinarySteps ==
    Ordinary => \/ DryRun \/ DryRunGoesOn \/ TakeEntry \/ TrimSkipped \/ TrimAborts \/ TrimFails \/ Trimmed
                \/ ScoreEntry \/ FinishDeterministic \/ LeaveEntry
                \/ DryRunStops \/ SkipEntry \/ FinishStages \/ ImportEnds \/ Recalibrated \/ RunMutant
                \/ Import \/ Advance \/ StopSignal \/ ShowStats \/ UNCHANGED vars \/ SavesNoEntry
BY DEF Ordinary, Next, Start, Trim, Fuzz, SavesNoEntry

LEMMA OrdinaryEntries ==
    ASSUME Base, Turns, Ordinary
    PROVE  /\ UNCHANGED <<config, top, scoreChanged>>
           /\ SameLength /\ KeepsMinis /\ KeepsFavored
           /\ \A i \in Positions : queue'[i].variable = queue[i].variable /\ queue'[i].late = queue[i].late
           /\ \A i \in Positions : queue'[i].cksum = queue[i].cksum \/ Held(i) = {}
<1>1. UNCHANGED <<config, top, scoreChanged>>
  <2>1. CASE \/ DryRun \/ DryRunGoesOn \/ TakeEntry \/ TrimSkipped \/ TrimAborts \/ TrimFails \/ Trimmed
             \/ ScoreEntry \/ FinishDeterministic \/ LeaveEntry
    BY <2>1 DEF DryRun, DryRunGoesOn, TakeEntry, TrimSkipped, TrimAborts, TrimFails, Trimmed, ScoreEntry,
         FinishDeterministic, LeaveEntry, rating
  <2>2. CASE \/ DryRunStops \/ SkipEntry \/ FinishStages \/ ImportEnds \/ Recalibrated \/ RunMutant
             \/ Import \/ Advance \/ StopSignal \/ ShowStats \/ UNCHANGED vars
    BY <2>2 DEF DryRunStops, SkipEntry, FinishStages, ImportEnds, Recalibrated, RunMutant,
         Import, Advance, StopSignal, ShowStats, Stop, vars, rating
  <2>3. CASE SavesNoEntry
    BY <2>3 DEF SavesNoEntry, Save, SaveNothing, SavedEntry, KeepNothing, HangDropped, HangUnique, RerunHang,
       KeepHang, CrashDropped, KeepCrash, NonTermDropped, KeepNonTerm, KeepError, rating
  <2> QED BY <2>1, <2>2, <2>3, OrdinarySteps
<1>2. CASE \/ DryRunStops \/ SkipEntry \/ FinishStages \/ ImportEnds \/ Recalibrated \/ RunMutant
           \/ Import \/ Advance \/ StopSignal \/ ShowStats \/ UNCHANGED vars \/ SavesNoEntry
  <2>1. UNCHANGED queue
    BY <1>2, SaveStill DEF DryRunStops, SkipEntry, FinishStages, ImportEnds, Recalibrated, RunMutant,
       Import, Advance, StopSignal, ShowStats, Stop, Still, vars
  <2> QED BY <1>1, <2>1, StillFields DEF KeepsCksum, KeepsMarks, KeepsChances
<1>3. CASE TrimSkipped \/ TrimAborts \/ TrimFails \/ Trimmed
  BY <1>1, <1>3, TrimFields DEF KeepsCksum, KeepsMarks, KeepsChances
<1>4. CASE DryRun \/ DryRunGoesOn
  BY <1>1, <1>4, DryRunFields, DryRunGoesOnFields DEF KeepsCksum, KeepsMarks, KeepsChances
<1>5. CASE ScoreEntry \/ FinishDeterministic \/ LeaveEntry
  BY <1>1, <1>5, ScoreFields, DeterministicFields, LeaveFields DEF KeepsCksum, KeepsMarks, KeepsChances
<1>6. CASE TakeEntry
  <2>1. HasChance => Held(cur) = {}
    <3>1. cur \in Positions /\ ChancesOf(cur)
      BY <1>6, TakeFields DEF Turns, Chances
    <3> QED BY <3>1 DEF HasChance, ChancesOf
  <2>2. /\ SameLength /\ KeepsMarks /\ KeepsFavored /\ KeepsMinis
        /\ \A i \in Positions :
             /\ queue'[i].cksum = IF i = cur /\ HasChance THEN Unknown ELSE queue[i].cksum
             /\ queue'[i].late = queue[i].late
    BY <1>6, TakeFields
  <2> QED BY <1>1, <2>1, <2>2 DEF KeepsMarks
<1> QED BY <1>2, <1>3, <1>4, <1>5, <1>6, OrdinarySteps

LEMMA OrdinaryPlaces ==
    ASSUME Base, Ordinary
    PROVE  \/ UNCHANGED <<pc, cal, trace, queue>>
           \/ /\ ~ Calibrating /\ pc' # "calibrated"
              /\ pc' = "calibrate" => cal'.res = "run" /\ ~ cal'.variable
<1>1. CASE DryRun \/ TakeEntry
  <2>1. pc \in {"dry", "entry"}
        /\ (pc' \in {"trim", "abandon"} \/ (pc' = "calibrate" /\ cal'.res = "run" /\ ~ cal'.variable))
    BY <1>1 DEF DryRun, TakeEntry, StartCalibration, Idle
  <2> QED BY <2>1 DEF Calibrating
<1>2. CASE \/ DryRunGoesOn \/ TrimSkipped \/ TrimAborts \/ TrimFails \/ Trimmed
           \/ ScoreEntry \/ FinishDeterministic \/ LeaveEntry
           \/ DryRunStops \/ SkipEntry \/ FinishStages \/ ImportEnds \/ Recalibrated \/ RunMutant
           \/ Import \/ Advance
  <2>1. pc \notin {"calibrate", "calibrated"} /\ pc' \notin {"calibrate", "calibrated"}
    BY <1>2 DEF DryRunGoesOn, TrimSkipped, TrimAborts, TrimFails, Trimmed, Trims, ScoreEntry, FinishDeterministic, CreateThen,
         LeaveEntry, DryRunStops, SkipEntry, FinishStages, ImportEnds, Recalibrated, RunMutant, Import, Importing,
         Imported, Advance
  <2> QED BY <2>1 DEF Calibrating
<1>3. CASE SavesNoEntry
  BY <1>3, SaveSteps DEF Saving, Calibrating
<1>4. CASE StopSignal \/ ShowStats \/ UNCHANGED vars
  BY <1>4 DEF StopSignal, ShowStats, Stop, vars, run
<1> QED BY <1>1, <1>2, <1>3, <1>4, OrdinarySteps

LEMMA OrdinaryVirgin ==
    ASSUME Ordinary, virgin \in VirginMaps
    PROVE  virgin' \in VirginMaps /\ virgin'.bits = virgin.bits
<1>1. CASE SavesNoEntry
  <2>1. \/ UNCHANGED virgin
        \/ virgin' = [virgin EXCEPT !.tmout = Uniquely(virgin.tmout)]
        \/ virgin' = [virgin EXCEPT !.crash = Uniquely(virgin.crash)]
    BY <1>1 DEF SavesNoEntry, Save, SaveNothing, SavedEntry, KeepNothing, HangDropped, HangUnique, RerunHang,
       KeepHang, CrashDropped, KeepCrash, NonTermDropped, KeepNonTerm, KeepError, Dropped, seen
  <2>2. Uniquely(virgin.tmout) \in BitMaps /\ Uniquely(virgin.crash) \in BitMaps
    BY UniquelyType DEF VirginMaps
  <2> QED BY <2>1, <2>2 DEF VirginMaps
<1>2. CASE ~ SavesNoEntry
  <2>1. UNCHANGED virgin
    BY <1>2, OrdinarySteps DEF DryRun, DryRunGoesOn, TakeEntry, TrimSkipped, TrimAborts, TrimFails, Trimmed, ScoreEntry,
         FinishDeterministic, LeaveEntry, DryRunStops, SkipEntry, FinishStages, ImportEnds, Recalibrated, RunMutant,
         Import, Advance, StopSignal, ShowStats, Stop, vars, seen
  <2> QED BY <2>1
<1> QED BY <1>1, <1>2

-----------------------------------------------------------------------------
(* The traces.                                                             *)
LEMMA TracedNext == Base /\ Turns /\ WinnersReferenced /\ Traced /\ [Next]_vars => Traced'
<1> SUFFICES ASSUME Base, Turns, WinnersReferenced, Traced, [Next]_vars PROVE Traced'
  OBVIOUS
<1>1. CASE CalibrationAborts
  <2>1. pc = "calibrate" /\ pc' = "calibrated" /\ UNCHANGED top /\ cal'.q = cal.q /\ cal'.variable = cal.variable
    BY <1>1 DEF CalibrationAborts, rating, Base, CalSet
  <2>2. SameLength /\ KeepsMarks /\ KeepsMinis /\ KeepsCksum
    BY <1>1, AbortsFields
  <2>3. \A i \in Positions : Varies(i) => Varies(i)'
    BY <2>1, <2>2 DEF Varies, Calibrating, KeepsMarks
  <2> QED BY <2>1, <2>2, <2>3, TracedStays DEF KeepsCksum
<1>2. CASE CalibrationRun
  <2>1. /\ pc = "calibrate" /\ pc' = "calibrate" /\ UNCHANGED top
        /\ cal'.q = cal.q /\ (cal.variable => cal'.variable)
        /\ cal'.variable <=> cal.variable \/ (queue[cal.q].cksum # trace' /\ queue[cal.q].cksum # Unknown)
    BY <1>2 DEF CalibrationRun, rating, Base, CalSet
  <2>2. /\ cal.q \in Positions /\ SameLength /\ KeepsMarks /\ KeepsMinis
        /\ \A i \in Positions :
             queue'[i].cksum = IF i = cal.q /\ queue[cal.q].cksum = Unknown THEN trace' ELSE queue[i].cksum
    BY <1>2, RunFields
  <2>3. \A i \in Positions : Varies(i) => Varies(i)'
    BY <2>1, <2>2 DEF Varies, Calibrating, KeepsMarks
  <2>4. Held(cal.q) = {}
    <3>1. queue[cal.q].calFailed # 0 /\ ChancesOf(cal.q)
      BY <2>1, <2>2 DEF Turns, Returned, Chances
    <3> QED BY <3>1 DEF ChancesOf
  <2>5. cal'.variable \/ trace' = queue'[cal'.q].cksum
    BY <2>1, <2>2
  <2> QED BY <2>1, <2>2, <2>3, <2>4, <2>5, TracedStays
<1>3. CASE CalibrationRates
  <2>0. PICK q, t : q = cal.q /\ t = trace
    OBVIOUS
  <2>1. /\ pc = "calibrate" /\ cal.res = "done" /\ pc' = "calibrated"
        /\ cal'.q = q /\ cal'.variable = cal.variable
    BY <1>3, <2>0 DEF CalibrationRates, rating, Base, CalSet
  <2>2. q \in Positions /\ KeepsMarks
    BY <1>3, <2>0, RatesFields
  <2>3. \A i \in Positions : Varies(i) => Varies(i)'
    BY <2>0, <2>1, <2>2 DEF Varies, Calibrating, KeepsMarks
  <2>4. Varies(q)' \/ t = queue[q].cksum
    BY <2>0, <2>1 DEF Varies, Calibrating, Traced
  <2>5. Rated(q, t)
    BY <1>3, <2>0, RatesQueue
  <2>7. pc' # "calibrate"
    BY <2>1
  <2> HIDE DEF Varies
  <2> QED BY <2>3, <2>4, <2>5, <2>7, RatedTraced
<1>4. CASE CalibrationReturns
  <2>1. pc = "calibrated" /\ pc' # "calibrate" /\ pc' # "calibrated" /\ UNCHANGED <<top, cal>>
    <3>1. pc = "calibrated" /\ pc' \in {cal.return, "pfatal"} /\ UNCHANGED <<top, cal>>
      BY <1>4 DEF CalibrationReturns, CreateThen, rating
    <3> QED BY <3>1 DEF Base, CalSet, Returns
  <2>2. /\ SameLength /\ KeepsMinis /\ KeepsCksum
        /\ \A i \in Positions : queue'[i].variable <=> queue[i].variable \/ (i = cal.q /\ BecomesVariable)
    BY <1>4, ReturnsFields
  <2>3. \A i \in Positions : Varies(i) => Varies(i)'
    BY <2>2 DEF Varies, BecomesVariable
  <2> QED BY <2>1, <2>2, <2>3, TracedStays DEF KeepsCksum
<1>5. CASE TrimShortens
  <2>0. PICK q, t : q = cur /\ t = queue[cur].cksum
    OBVIOUS
  <2>1. pc = "trim" /\ pc' = "trimmed"
    BY <1>5 DEF TrimShortens, Trims
  <2>2. SameLength /\ KeepsMarks
    BY <1>5, ShortensFields
  <2>3. \A i \in Positions : Varies(i) => Varies(i)'
    BY <2>1, <2>2 DEF Varies, Calibrating, KeepsMarks
  <2>5. Rated(q, t)
    BY <1>5, <2>0, ShortensQueue
  <2> QED BY <2>0, <2>1, <2>3, <2>5, RatedTraced
<1>6. CASE StartFuzzing \/ PickEntry
  <2>1. pc \in {"ready", "first", "main"} /\ UNCHANGED top /\ \E next \in {"end", "first", "import", "entry"} : CullQueue(next)
    BY <1>6 DEF StartFuzzing, PickEntry
  <2>2. pc' \in {"end", "first", "import", "entry", "pfatal"}
    BY <2>1, CullQueueQueue
  <2>3. SameLength /\ KeepsMinis /\ KeepsCksum /\ \A i \in Positions : queue'[i].variable = queue[i].variable
    <3>1. CASE config.dumb \/ ~ scoreChanged
      BY <2>1, <3>1, StillFields DEF CullQueue, KeepsMarks
    <3> QED BY <2>1, <3>1, CullFields
  <2>4. \A i \in Positions : Varies(i) => Varies(i)'
    BY <2>1, <2>3 DEF Varies, Calibrating
  <2> QED BY <2>1, <2>2, <2>3, <2>4, TracedStays DEF KeepsCksum
<1>7. CASE SaveEntry
  <2> DEFINE k == Len(queue) + 1
  <2>1. /\ pc = "save" /\ pc' = "calibrate" /\ UNCHANGED top /\ cal'.res = "run"
    BY <1>7 DEF SaveEntry, StartCalibration, Idle, rating
  <2>2. Positions' = Positions \cup {k} /\ KeepsMarks /\ KeepsMinis /\ KeepsCksum
    BY <1>7, SaveFields
  <2>3. Held(k) = {} /\ \A q : Held(q)' = Held(q)
    BY <2>1, QueueFacts DEF Base, Held
  <2> HIDE DEF k
  <2>4. ASSUME NEW q \in Positions PROVE (Varies(q) \/ Held(q) = {} \/ TraceOf(q))'
    <3>1. Varies(q) \/ Held(q) = {} \/ TraceOf(q)
      BY DEF Traced
    <3> QED BY <2>1, <2>2, <2>3, <3>1 DEF Varies, TraceOf, Calibrating, KeepsMarks, KeepsMinis, KeepsCksum
  <2>6. ASSUME NEW q \in Positions' PROVE (Varies(q) \/ Held(q) = {} \/ TraceOf(q))'
    BY <2>2, <2>3, <2>4, <2>6
  <2> QED BY <2>1, <2>6 DEF Traced
<1>8. CASE Ordinary
  <2>1. /\ UNCHANGED top /\ SameLength /\ KeepsMinis
        /\ \A i \in Positions : queue'[i].variable = queue[i].variable
        /\ \A i \in Positions : queue'[i].cksum = queue[i].cksum \/ Held(i) = {}
    BY <1>8, OrdinaryEntries
  <2>2. \/ UNCHANGED <<pc, cal, trace, queue>>
        \/ ~ Calibrating /\ (pc' = "calibrate" => cal'.res = "run")
    BY <1>8, OrdinaryPlaces
  <2>3. \A i \in Positions : Varies(i) => Varies(i)'
    BY <2>1, <2>2 DEF Varies, Calibrating
  <2>4. pc' = "calibrate" /\ cal'.res = "done" => cal'.variable \/ trace' = queue'[cal'.q].cksum
    BY <2>2 DEF Traced
  <2> QED BY <2>1, <2>3, <2>4, TracedStays
<1> QED BY <1>1, <1>2, <1>3, <1>4, <1>5, <1>6, <1>7, <1>8 DEF Ordinary, Calibrate

-----------------------------------------------------------------------------
(* What left virgin_bits has a winner, or is in the trace of the entry that *)
(* is being calibrated.                                                    *)
HasWinner(e) ==
    \/ top[e] # 0
    \/ pc = "calibrate" /\ queue[cal.q].cksum # Unknown /\ e \in Hit(queue[cal.q].cksum)

Misbehaved == (\E q \in Positions : queue[q].late \/ queue[q].variable) \/ (Calibrating /\ cal.variable)

Seen ==
    /\ virgin \in VirginMaps
    /\ Misbehaved \/ \A e \in Edge : virgin.bits[e] # Classes => HasWinner(e)

LEMMA ClearedLeaves ==
    ASSUME NEW map \in BitMaps, NEW t, NEW e \in Edge, Cleared(map, t)[e] # Classes, t[e] = 0
    PROVE  map[e] # Classes
BY DEF Cleared, BitMaps, Classes

LEMMA SeenInit == Init => Seen
<1> SUFFICES ASSUME Init PROVE Seen
  OBVIOUS
<1>1. virgin = [bits |-> Fresh, tmout |-> Fresh, crash |-> Fresh] /\ Fresh \in BitMaps
  BY DEF Init, Fresh, BitMaps
<1>2. \A e \in Edge : Fresh[e] = Classes
  BY DEF Fresh
<1> QED BY <1>1, <1>2 DEF Seen, VirginMaps

LEMMA SeenNext == Base /\ Turns /\ Traced /\ Seen /\ [Next]_vars => Seen'
<1> SUFFICES ASSUME Base, Turns, Traced, Seen, [Next]_vars PROVE Seen'
  OBVIOUS
<1>1. CASE CalibrationAborts
  <2>1. UNCHANGED virgin
    BY <1>1 DEF CalibrationAborts, seen
  <2>2. cal.q \in Positions' /\ queue'[cal.q].late
    BY <1>1, AbortsFields DEF SameLength
  <2> QED BY <2>1, <2>2 DEF Seen, Misbehaved
<1>2. CASE CalibrationRun
  <2>1. /\ pc = "calibrate" /\ pc' = "calibrate" /\ UNCHANGED top
        /\ cal'.q = cal.q
        /\ cal'.variable <=> cal.variable \/ (queue[cal.q].cksum # trace' /\ queue[cal.q].cksum # Unknown)
        /\ virgin' = IF queue[cal.q].cksum # trace' THEN [virgin EXCEPT !.bits = Cleared(virgin.bits, trace')]
                     ELSE virgin
    BY <1>2 DEF CalibrationRun, rating, Base, CalSet
  <2>2. /\ cal.q \in Positions /\ SameLength /\ KeepsMarks /\ KeepsChances
        /\ \A i \in Positions :
             queue'[i].cksum = IF i = cal.q /\ queue[cal.q].cksum = Unknown THEN trace' ELSE queue[i].cksum
    BY <1>2, RunFields
  <2>3. trace' \in Traces
    BY <1>2, RunTargetType DEF CalibrationRun, Base
  <2>4. virgin' \in VirginMaps
        /\ virgin'.bits = IF queue[cal.q].cksum # trace' THEN Cleared(virgin.bits, trace') ELSE virgin.bits
    BY <2>1, ClearedType DEF Seen, VirginMaps
  <2>5. Misbehaved => Misbehaved'
    BY <2>1, <2>2 DEF Misbehaved, SameLength, KeepsMarks, KeepsChances, Calibrating
  <2>6. CASE Misbehaved \/ cal'.variable
    BY <2>1, <2>4, <2>5, <2>6 DEF Seen, Misbehaved, Calibrating
  <2>7. CASE ~ Misbehaved /\ ~ cal'.variable
    <3>1. \A e \in Edge : virgin.bits[e] # Classes => HasWinner(e)
      BY <2>7 DEF Seen
    <3>2. queue'[cal.q].cksum = trace' /\ trace' # Unknown
      BY <2>1, <2>2, <2>3, <2>7, MapTypes
    <3>3. ASSUME NEW e \in Edge, virgin'.bits[e] # Classes PROVE HasWinner(e)'
      <4>1. CASE trace'[e] # 0
        BY <2>1, <3>2, <4>1 DEF HasWinner, Hit
      <4>2. CASE trace'[e] = 0
        <5>1. virgin.bits[e] # Classes
          BY <2>4, <3>3, <4>2, ClearedLeaves DEF Seen, VirginMaps
        <5>2. top[e] # 0 \/ (queue[cal.q].cksum # Unknown /\ e \in Hit(queue[cal.q].cksum))
          BY <3>1, <5>1 DEF HasWinner
        <5> QED BY <2>1, <2>2, <3>2, <5>2 DEF HasWinner
      <4> QED BY <4>1, <4>2
    <3> QED BY <2>4, <3>3 DEF Seen
  <2> QED BY <2>6, <2>7
<1>3. CASE CalibrationRates
  <2>1. /\ pc = "calibrate" /\ cal.res = "done" /\ pc' = "calibrated" /\ UNCHANGED virgin
        /\ cal'.q = cal.q /\ cal'.variable = cal.variable
    BY <1>3 DEF CalibrationRates, seen, Base, CalSet
  <2>2. cal.q \in Positions /\ KeepsMarks /\ SameLength
        /\ \A i \in Positions : queue'[i].late = queue[i].late
    BY <1>3, RatesFields
  <2>3. Misbehaved => Misbehaved'
    BY <2>1, <2>2 DEF Misbehaved, SameLength, KeepsMarks, Calibrating
  <2>4. CASE Misbehaved
    BY <2>1, <2>3, <2>4 DEF Seen
  <2>5. CASE ~ Misbehaved
    <3>1. \A e \in Edge : virgin.bits[e] # Classes => HasWinner(e)
      BY <2>5 DEF Seen
    <3>2. trace = queue[cal.q].cksum
      BY <2>1, <2>5 DEF Traced, Misbehaved, Calibrating
    <3>3. PICK won \in SUBSET Edge : ScoredBy(cal.q, trace, won)
      BY <1>3, RatesQueue DEF Rated
    <3>4. ASSUME NEW e \in Edge, top[e] # 0 \/ e \in Hit(trace) PROVE top'[e] # 0
      <4>1. cal.q # 0
        BY <2>2 DEF Positions
      <4> QED BY <3>3, <3>4, <4>1 DEF ScoredBy, TopAfter
    <3> QED BY <2>1, <3>1, <3>2, <3>4 DEF Seen, HasWinner
  <2> QED BY <2>4, <2>5
<1>4. CASE CalibrationReturns
  <2>1. pc = "calibrated" /\ UNCHANGED <<top, cal, virgin>>
    BY <1>4 DEF CalibrationReturns, rating, seen
  <2>2. /\ SameLength /\ KeepsChances /\ cal.q \in Positions
        /\ \A i \in Positions : queue'[i].variable <=> queue[i].variable \/ (i = cal.q /\ BecomesVariable)
    BY <1>4, ReturnsFields
  <2>3. Misbehaved => Misbehaved'
    BY <2>1, <2>2 DEF Misbehaved, SameLength, KeepsChances, Calibrating, BecomesVariable
  <2>4. \A e : HasWinner(e) => HasWinner(e)'
    BY <2>1 DEF HasWinner
  <2> QED BY <2>1, <2>3, <2>4 DEF Seen
<1>5. CASE TrimShortens
  <2>1. pc = "trim" /\ UNCHANGED virgin
    BY <1>5 DEF TrimShortens, Trims, seen
  <2>2. cur \in Positions /\ SameLength /\ KeepsMarks /\ KeepsChances
    BY <1>5, ShortensFields
  <2>3. Misbehaved => Misbehaved'
    BY <2>1, <2>2 DEF Misbehaved, SameLength, KeepsChances, KeepsMarks, Calibrating
  <2>4. ASSUME NEW e \in Edge, HasWinner(e) PROVE HasWinner(e)'
    <3>1. PICK won \in SUBSET Edge : top' = TopAfter(cur, won)
      BY <1>5, ShortensQueue DEF Rated, ScoredBy
    <3>2. top[e] # 0 /\ cur # 0
      BY <2>1, <2>2, <2>4 DEF HasWinner, Positions
    <3> QED BY <3>1, <3>2 DEF HasWinner, TopAfter
  <2> QED BY <2>1, <2>3, <2>4 DEF Seen
<1>6. CASE StartFuzzing \/ PickEntry
  <2>1. pc \in {"ready", "first", "main"} /\ UNCHANGED <<top, virgin>>
        /\ \E next \in {"end", "first", "import", "entry"} : CullQueue(next)
    BY <1>6 DEF StartFuzzing, PickEntry, seen
  <2>3. SameLength /\ KeepsChances /\ \A i \in Positions : queue'[i].variable = queue[i].variable
    <3>1. CASE config.dumb \/ ~ scoreChanged
      BY <2>1, <3>1, StillFields DEF CullQueue, KeepsMarks
    <3> QED BY <2>1, <3>1, CullFields
  <2>4. Misbehaved => Misbehaved'
    BY <2>1, <2>3 DEF Misbehaved, SameLength, KeepsChances, Calibrating
  <2>5. \A e : HasWinner(e) => HasWinner(e)'
    BY <2>1 DEF HasWinner
  <2> QED BY <2>1, <2>4, <2>5 DEF Seen
<1>7. CASE SaveEntry
  <2> DEFINE k == Len(queue) + 1
  <2>1. /\ pc = "save" /\ pc' = "calibrate" /\ UNCHANGED top /\ cal'.q = k
        /\ virgin' = [virgin EXCEPT !.bits = Cleared(virgin.bits, trace)]
    BY <1>7 DEF SaveEntry, StartCalibration, Idle, rating
  <2>2. Positions' = Positions \cup {k} /\ KeepsMarks /\ KeepsChances /\ queue'[k].cksum = trace
    BY <1>7, SaveFields
  <2> HIDE DEF k
  <2>3. virgin' \in VirginMaps /\ virgin'.bits = Cleared(virgin.bits, trace)
    BY <2>1, ClearedType DEF Seen, VirginMaps
  <2>4. Misbehaved => Misbehaved'
    BY <2>1, <2>2 DEF Misbehaved, KeepsMarks, KeepsChances, Calibrating
  <2>5. trace # Unknown
    BY MapTypes DEF Base
  <2>6. ASSUME NEW e \in Edge, virgin'.bits[e] # Classes, ~ Misbehaved PROVE HasWinner(e)'
    <3>1. CASE trace[e] # 0
      BY <2>1, <2>2, <2>5, <3>1 DEF HasWinner, Hit
    <3>2. CASE trace[e] = 0
      <4>1. virgin.bits[e] # Classes
        BY <2>3, <2>6, <3>2, ClearedLeaves DEF Seen, VirginMaps
      <4> QED BY <2>1, <2>6, <4>1 DEF Seen, HasWinner
    <3> QED BY <3>1, <3>2
  <2> QED BY <2>3, <2>4, <2>6 DEF Seen
<1>8. CASE Ordinary
  <2>1. /\ UNCHANGED top /\ SameLength
        /\ \A i \in Positions : queue'[i].variable = queue[i].variable /\ queue'[i].late = queue[i].late
    BY <1>8, OrdinaryEntries
  <2>2. UNCHANGED <<pc, cal, queue>> \/ ~ Calibrating
    BY <1>8, OrdinaryPlaces
  <2>3. virgin' \in VirginMaps /\ virgin'.bits = virgin.bits
    BY <1>8, OrdinaryVirgin DEF Seen
  <2>4. Misbehaved => Misbehaved'
    BY <2>1, <2>2 DEF Misbehaved, SameLength, Calibrating
  <2>5. \A e : HasWinner(e) => HasWinner(e)'
    BY <2>1, <2>2 DEF HasWinner, Calibrating
  <2> QED BY <2>3, <2>4, <2>5 DEF Seen
<1> QED BY <1>1, <1>2, <1>3, <1>4, <1>5, <1>6, <1>7, <1>8 DEF Ordinary, Calibrate

-----------------------------------------------------------------------------
(* Since the last culling nothing was won that is not covered.             *)
Covered(e) == \E q \in Positions : queue[q].favored /\ (q = top[e] \/ e \in queue[q].mini)
Swept == ~ scoreChanged /\ ~ config.dumb => \A e \in Edge : top[e] # 0 => Covered(e)

LEMMA SweptInit == Init => Swept
BY DEF Init, Swept

LEMMA SweptStays ==
    ASSUME Base, Swept, UNCHANGED <<config, top>>, scoreChanged => scoreChanged', KeepsMinis, KeepsFavored,
           Positions \subseteq Positions'
    PROVE  Swept'
<1>1. \A e : Covered(e) => Covered(e)'
  BY DEF Covered, KeepsMinis, KeepsFavored
<1> QED BY <1>1 DEF Swept

(* A rating that wins nothing changes nothing; any other is noticed.       *)
LEMMA RatedSwept ==
    ASSUME Base, Swept, NEW q, NEW t, Rated(q, t), UNCHANGED config
    PROVE  Swept'
<1>1. PICK won \in SUBSET Edge : ScoredBy(q, t, won)
  BY DEF Rated
<1>2. CASE won # {}
  BY <1>1, <1>2 DEF ScoredBy, Swept
<1>3. CASE won = {}
  <2>1. top' = top /\ (scoreChanged' <=> scoreChanged)
    BY <1>1, <1>3 DEF ScoredBy, TopAfter, Base, Swept
  <2>2. \A o \in Positions : queue'[o].mini = queue[o].mini /\ queue'[o].favored = queue[o].favored
    BY <1>1, <1>3 DEF ScoredBy, Refreshed, Lost, Rated
  <2>3. Positions' = Positions
    BY DEF Rated, Positions
  <2>4. \A e : Covered(e) => Covered(e)'
    BY <2>1, <2>2, <2>3 DEF Covered
  <2> QED BY <2>1, <2>4 DEF Swept
<1> QED BY <1>2, <1>3

LEMMA CullSwept ==
    ASSUME Base, Swept, StartFuzzing \/ PickEntry
    PROVE  Swept'
<1>1. UNCHANGED <<config, top>> /\ \E next \in {"end", "first", "import", "entry"} : CullQueue(next)
  BY DEF StartFuzzing, PickEntry
<1>2. CASE config.dumb \/ ~ scoreChanged
  <2>1. UNCHANGED <<queue, scoreChanged>>
    BY <1>1, <1>2 DEF CullQueue
  <2>2. KeepsMinis /\ KeepsFavored /\ SameLength
    BY <2>1, StillFields
  <2> QED BY <1>1, <2>1, <2>2, SweptStays DEF SameLength
<1>3. CASE ~ (config.dumb \/ ~ scoreChanged)
  <2>1. SameLength /\ KeepsMinis /\ \A i \in Positions : queue'[i].favored = (i \in Culled.winners)
    BY <1>1, <1>3, CullFields
  <2>2. ASSUME NEW e \in Edge, top[e] # 0 PROVE Covered(e)'
    <3>1. /\ Culled.winners \subseteq Positions
          /\ top[e] \in Culled.winners \/ \E v \in Culled.winners : e \in queue[v].mini
      BY <2>2, CulledGood
    <3>2. PICK v \in Culled.winners : v = top[e] \/ e \in queue[v].mini
      BY <3>1
    <3> QED BY <1>1, <2>1, <3>1, <3>2 DEF Covered, SameLength, KeepsMinis
  <2> QED BY <1>1, <2>2 DEF Swept
<1> QED BY <1>2, <1>3

(* What calibration and the addition of an entry leave alone.              *)
LEMMA CalibrationKeeps ==
    ASSUME Base, CalibrationAborts \/ CalibrationRun \/ CalibrationReturns
    PROVE  /\ UNCHANGED <<config, top, scoreChanged, pendingFavored, pendingNotFuzzed>>
           /\ KeepsMinis /\ KeepsFavored /\ SameLength
           /\ \A i \in Positions : /\ queue'[i].wasFuzzed = queue[i].wasFuzzed
                                   /\ queue[i].variable => queue'[i].variable
<1>1. UNCHANGED <<config, top, scoreChanged, pendingFavored, pendingNotFuzzed>>
  BY DEF CalibrationAborts, CalibrationRun, CalibrationReturns, rating, counters
<1> QED BY <1>1, AbortsFields, RunFields, ReturnsFields DEF KeepsMarks, KeepsChances

LEMMA SweptNext == Base /\ Turns /\ Swept /\ [Next]_vars => Swept'
<1> SUFFICES ASSUME Base, Turns, Swept, [Next]_vars PROVE Swept'
  OBVIOUS
<1>0. UNCHANGED config
  BY ConfigKept
<1>1. CASE CalibrationAborts \/ CalibrationRun \/ CalibrationReturns
  BY <1>1, CalibrationKeeps, SweptStays DEF SameLength
<1>2. CASE CalibrationRates
  BY <1>0, <1>2, RatesQueue, RatedSwept
<1>3. CASE TrimShortens
  BY <1>0, <1>3, ShortensQueue, RatedSwept
<1>4. CASE StartFuzzing \/ PickEntry
  BY <1>4, CullSwept
<1>5. CASE SaveEntry
  <2>1. UNCHANGED <<config, top, scoreChanged>>
    BY <1>5 DEF SaveEntry, rating
  <2>2. KeepsMinis /\ KeepsFavored /\ Positions \subseteq Positions'
    BY <1>5, SaveFields
  <2> QED BY <2>1, <2>2, SweptStays
<1>6. CASE Ordinary
  BY <1>6, OrdinaryEntries, SweptStays DEF SameLength
<1> QED BY <1>1, <1>2, <1>3, <1>4, <1>5, <1>6 DEF Ordinary, Calibrate

(* Once the queue is culled, the favoured entries cover every slot that has *)
(* a winner; and, unless an entry misbehaved, every edge seen at all.      *)
THEOREM FavoredCoverAll == Spec => []FavoredCover
<1>1. Base /\ Turns /\ Traced /\ Seen /\ Swept => FavoredCover
  <2> SUFFICES ASSUME Base, Traced, Seen, Swept, ~ scoreChanged, ~ config.dumb,
                      pc \in {"first", "main", "entry", "stage", "advance"}
               PROVE  /\ \A e \in Edge : top[e] # 0 => Covered(e)
                      /\ (\A q \in Positions : ~ queue[q].variable /\ ~ queue[q].late) =>
                           \A e \in Edge : virgin.bits[e] # Classes =>
                              \E q \in Positions : queue[q].favored /\ e \in queue[q].mini
    BY DEF FavoredCover, Covered
  <2>1. \A e \in Edge : top[e] # 0 => Covered(e)
    BY DEF Swept
  <2>2. ASSUME \A q \in Positions : ~ queue[q].variable /\ ~ queue[q].late,
               NEW e \in Edge, virgin.bits[e] # Classes
        PROVE  \E q \in Positions : queue[q].favored /\ e \in queue[q].mini
    <3>1. ~ Calibrating
      BY DEF Calibrating
    <3>2. top[e] # 0
      BY <2>2, <3>1 DEF Seen, Misbehaved, HasWinner, Calibrating
    <3>3. PICK q \in Positions : queue[q].favored /\ (q = top[e] \/ e \in queue[q].mini)
      BY <2>1, <3>2 DEF Covered
    <3>4. q = top[e] => e \in queue[q].mini
      <4>1. Held(q) = {} \/ TraceOf(q)
        BY <2>2, <3>1 DEF Traced, Varies
      <4> QED BY <4>1 DEF Held, TraceOf
    <3> QED BY <3>3, <3>4
  <2> QED BY <2>1, <2>2
<1>2. Init => Traced /\ Seen /\ Swept
  BY TracedInit, SeenInit, SweptInit
<1>3. Base /\ Turns /\ WinnersReferenced /\ Traced /\ Seen /\ Swept /\ [Next]_vars => (Traced /\ Seen /\ Swept)'
  BY TracedNext, SeenNext, SweptNext
<1> QED BY <1>1, <1>2, <1>3, BaseAlways, TurnsAlways, ReferencesCounted, PTL DEF Spec

-----------------------------------------------------------------------------
(* The counters.                                                           *)
Counts == NotFuzzedCounted /\ FavoredCounted /\ pendingFavored \in Int

LEMMA PositionsFinite ==
    ASSUME Base, NEW S \in SUBSET Positions
    PROVE  IsFiniteSet(S) /\ Cardinality(S) \in Nat
<1>1. IsFiniteSet(Positions)
  BY QueueFacts, FS_Interval DEF Base, Positions
<1> QED BY <1>1, FS_Subset, FS_CardinalityType

LEMMA CountsInit == Init => Counts
<1> SUFFICES ASSUME Init PROVE Counts
  OBVIOUS
<1>1. Positions = 1 .. config.seeds /\ config.seeds \in Nat
  BY InitEntries, ConfigTypes DEF Init
<1>2. Pending = Positions /\ PendingFavorites = {}
  BY InitQueue DEF Pending, PendingFavorites
<1>3. Cardinality(Positions) = config.seeds /\ Cardinality({}) = 0
  BY <1>1, FS_Interval, FS_EmptySet
<1>4. pendingNotFuzzed = config.seeds /\ pendingFavored = 0
  BY DEF Init
<1> QED BY <1>2, <1>3, <1>4 DEF Counts, NotFuzzedCounted, FavoredCounted

LEMMA CountsStay ==
    ASSUME Base, Counts, UNCHANGED <<config, pendingFavored, pendingNotFuzzed>>, KeepsFavored, SameLength,
           \A i \in Positions : /\ queue'[i].wasFuzzed = queue[i].wasFuzzed
                                /\ queue[i].variable => queue'[i].variable
    PROVE  Counts'
<1>1. Pending' = Pending /\ PendingFavorites' = PendingFavorites
  BY DEF Pending, PendingFavorites, KeepsFavored, SameLength
<1> QED BY <1>1 DEF Counts, NotFuzzedCounted, FavoredCounted, SameLength

LEMMA CullCounts ==
    ASSUME Base, Traced, Counts, StartFuzzing \/ PickEntry
    PROVE  Counts'
<1>1. /\ pc \in {"ready", "first", "main"} /\ UNCHANGED <<config, top, pendingNotFuzzed>>
      /\ \E next \in {"end", "first", "import", "entry"} : CullQueue(next)
  BY DEF StartFuzzing, PickEntry
<1>2. CASE config.dumb \/ ~ scoreChanged
  <2>1. UNCHANGED <<queue, pendingFavored>>
    BY <1>1, <1>2 DEF CullQueue
  <2>2. KeepsMarks /\ KeepsFavored /\ SameLength /\ KeepsChances
    BY <2>1, StillFields
  <2> QED BY <1>1, <2>1, <2>2, CountsStay DEF KeepsMarks, KeepsChances
<1>3. CASE ~ (config.dumb \/ ~ scoreChanged)
  <2> DEFINE w == Culled.winners
  <2>1. pendingFavored' = Culled.pending
    BY <1>1, <1>3 DEF CullQueue
  <2>2. /\ SameLength /\ KeepsChances
        /\ \A i \in Positions : /\ queue'[i].favored = (i \in w)
                                /\ queue'[i].variable = queue[i].variable
    BY <1>1, <1>3, CullFields
  <2>3. /\ w \subseteq Positions /\ Culled.pending \in Nat
        /\ Culled.pending >= Cardinality(Fresh0(w))
        /\ (\A d \in Edge : top[d] # 0 => d \in queue[top[d]].mini) => Culled.pending = Cardinality(Fresh0(w))
    BY CulledGood
  <2> HIDE DEF w
  <2>4. Pending' = Pending /\ PendingFavorites' = Fresh0(w)
    BY <2>2, <2>3 DEF Pending, PendingFavorites, Fresh0, SameLength, KeepsChances
  <2>5. (\A q \in Positions : ~ queue[q].variable) => \A d \in Edge : top[d] # 0 => d \in queue[top[d]].mini
    <3> SUFFICES ASSUME \A q \in Positions : ~ queue[q].variable, NEW d \in Edge, top[d] # 0
                 PROVE  d \in queue[top[d]].mini
      OBVIOUS
    <3>1. top[d] \in Positions /\ d \in Held(top[d])
      BY QueueFacts DEF Base, Positions, Held
    <3>2. TraceOf(top[d])
      BY <1>1, <3>1 DEF Traced, Varies, Calibrating
    <3> QED BY <3>1, <3>2 DEF TraceOf
  <2> QED BY <1>1, <2>1, <2>2, <2>3, <2>4, <2>5 DEF Counts, NotFuzzedCounted, FavoredCounted, SameLength
<1> QED BY <1>2, <1>3

LEMMA LeaveCounts ==
    ASSUME Base, Counts, LeaveEntry
    PROVE  Counts'
<1>1. /\ UNCHANGED config
      /\ IF CountsAsFuzzed
           THEN /\ pendingNotFuzzed' = pendingNotFuzzed - 1
                /\ pendingFavored' = IF queue[cur].favored THEN pendingFavored - 1 ELSE pendingFavored
           ELSE UNCHANGED counters
  BY DEF LeaveEntry
<1>2. /\ cur \in Positions /\ SameLength /\ KeepsMarks /\ KeepsFavored
      /\ \A i \in Positions : queue'[i].wasFuzzed <=> queue[i].wasFuzzed \/ (i = cur /\ CountsAsFuzzed)
  BY LeaveFields
<1>3. CASE CountsAsFuzzed
  <2>1. cur \in Pending /\ Pending' = Pending \ {cur}
    BY <1>2, <1>3 DEF Pending, CountsAsFuzzed, SameLength
  <2>2. PendingFavorites' = PendingFavorites \ {cur} /\ (cur \in PendingFavorites <=> queue[cur].favored)
    BY <1>2, <2>1 DEF Pending, PendingFavorites, KeepsFavored
  <2>3. /\ IsFiniteSet(Pending) /\ Cardinality(Pending) \in Nat
        /\ IsFiniteSet(PendingFavorites) /\ Cardinality(PendingFavorites) \in Nat
    <3>1. Pending \in SUBSET Positions /\ PendingFavorites \in SUBSET Positions
      BY DEF Pending, PendingFavorites
    <3> QED BY <3>1, PositionsFinite
  <2>4. Cardinality(Pending') = Cardinality(Pending) - 1
    BY <2>1, <2>3, FS_RemoveElement
  <2>5. Cardinality(PendingFavorites') =
          IF queue[cur].favored THEN Cardinality(PendingFavorites) - 1 ELSE Cardinality(PendingFavorites)
    BY <2>2, <2>3, FS_RemoveElement
  <2>6. pendingNotFuzzed' = Cardinality(Pending')
    BY <1>1, <1>3, <2>4 DEF Counts, NotFuzzedCounted
  <2>7. /\ ~ config.dumb => /\ pendingFavored' >= Cardinality(PendingFavorites')
                            /\ (\A q \in Positions : ~ queue[q].variable) =>
                                  pendingFavored' = Cardinality(PendingFavorites')
        /\ pendingFavored' \in Int
    BY <1>1, <1>3, <2>3, <2>5 DEF Counts, FavoredCounted
  <2>8. \A q \in Positions : queue'[q].variable = queue[q].variable
    BY <1>2 DEF KeepsMarks
  <2> QED BY <1>1, <1>2, <2>6, <2>7, <2>8 DEF Counts, NotFuzzedCounted, FavoredCounted, SameLength
<1>4. CASE ~ CountsAsFuzzed
  <2>1. UNCHANGED <<config, pendingFavored, pendingNotFuzzed, queue>>
    BY <1>1, <1>4, LeaveQueue DEF counters
  <2>2. KeepsMarks /\ KeepsFavored /\ SameLength /\ KeepsChances
    BY <2>1, StillFields
  <2> QED BY <2>1, <2>2, CountsStay DEF KeepsMarks, KeepsChances
<1> QED BY <1>3, <1>4

LEMMA SaveCounts ==
    ASSUME Base, Counts, SaveEntry
    PROVE  Counts'
<1> DEFINE k == Len(queue) + 1
<1>1. UNCHANGED <<config, pendingFavored>> /\ pendingNotFuzzed' = pendingNotFuzzed + 1
  BY DEF SaveEntry
<1>2. /\ Positions' = Positions \cup {k} /\ k \notin Positions
      /\ KeepsMarks /\ KeepsFavored /\ KeepsChances
      /\ ~ queue'[k].wasFuzzed /\ ~ queue'[k].favored
  BY SaveFields
<1> HIDE DEF k
<1>3. Pending' = Pending \cup {k} /\ k \notin Pending
  BY <1>2 DEF Pending, KeepsChances
<1>4. PendingFavorites' = PendingFavorites
  BY <1>2, <1>3 DEF PendingFavorites, Pending, KeepsFavored
<1>5. IsFiniteSet(Pending) /\ Cardinality(Pending) \in Nat
  <2>1. Pending \in SUBSET Positions
    BY DEF Pending
  <2> QED BY <2>1, PositionsFinite
<1>6. Cardinality(Pending') = Cardinality(Pending) + 1
  BY <1>3, <1>5, FS_AddElement
<1>7. (\A q \in Positions' : ~ queue'[q].variable) => \A q \in Positions : ~ queue[q].variable
  BY <1>2 DEF KeepsMarks
<1> QED BY <1>1, <1>4, <1>6, <1>7 DEF Counts, NotFuzzedCounted, FavoredCounted

LEMMA OrdinaryCounts ==
    ASSUME Base, Turns, Counts, Ordinary, ~ LeaveEntry
    PROVE  Counts'
<1>1. UNCHANGED <<config, pendingFavored, pendingNotFuzzed>>
  <2>1. CASE SavesNoEntry
    BY <2>1 DEF SavesNoEntry, Save, SaveNothing, SavedEntry, KeepNothing, HangDropped, HangUnique, RerunHang,
       KeepHang, CrashDropped, KeepCrash, NonTermDropped, KeepNonTerm, KeepError, counters
  <2>2. CASE ~ SavesNoEntry
    BY <2>2, OrdinarySteps DEF DryRun, DryRunGoesOn, TakeEntry, TrimSkipped, TrimAborts, TrimFails, Trimmed, ScoreEntry,
         FinishDeterministic, DryRunStops, SkipEntry, FinishStages, ImportEnds, Recalibrated, RunMutant,
         Import, Advance, StopSignal, ShowStats, Stop, vars, counters
  <2> QED BY <2>1, <2>2
<1>2. \A i \in Positions : queue'[i].wasFuzzed = queue[i].wasFuzzed
  <2>1. CASE \/ DryRunStops \/ SkipEntry \/ FinishStages \/ ImportEnds \/ Recalibrated \/ RunMutant
             \/ Import \/ Advance \/ StopSignal \/ ShowStats \/ UNCHANGED vars \/ SavesNoEntry
    BY <2>1, SaveStill DEF DryRunStops, SkipEntry, FinishStages, ImportEnds, Recalibrated, RunMutant,
       Import, Advance, StopSignal, ShowStats, Stop, Still, vars
  <2>2. CASE TrimSkipped \/ TrimAborts \/ TrimFails \/ Trimmed
    BY <2>2, TrimFields DEF KeepsChances
  <2>3. CASE DryRun \/ DryRunGoesOn \/ TakeEntry \/ ScoreEntry \/ FinishDeterministic
    BY <2>3, DryRunFields, DryRunGoesOnFields, TakeFields, ScoreFields, DeterministicFields DEF KeepsChances
  <2> QED BY <2>1, <2>2, <2>3, OrdinarySteps
<1> QED BY <1>1, <1>2, OrdinaryEntries, CountsStay

LEMMA CountsNext == Base /\ Turns /\ Traced /\ Counts /\ [Next]_vars => Counts'
<1> SUFFICES ASSUME Base, Turns, Traced, Counts, [Next]_vars PROVE Counts'
  OBVIOUS
<1>1. CASE CalibrationAborts \/ CalibrationRun \/ CalibrationReturns
  BY <1>1, CalibrationKeeps, CountsStay
<1>2. CASE CalibrationRates
  <2>1. UNCHANGED <<config, pendingFavored, pendingNotFuzzed>>
    BY <1>2 DEF CalibrationRates, counters
  <2> QED BY <1>2, <2>1, RatesFields, CountsStay DEF KeepsMarks
<1>3. CASE TrimShortens
  <2>1. UNCHANGED <<config, pendingFavored, pendingNotFuzzed>>
    BY <1>3 DEF TrimShortens, counters
  <2> QED BY <1>3, <2>1, ShortensFields, CountsStay DEF KeepsMarks, KeepsChances
<1>4. CASE StartFuzzing \/ PickEntry
  BY <1>4, CullCounts
<1>5. CASE SaveEntry
  BY <1>5, SaveCounts
<1>6. CASE Ordinary
  BY <1>6, LeaveCounts, OrdinaryCounts
<1> QED BY <1>1, <1>2, <1>3, <1>4, <1>5, <1>6 DEF Ordinary, Calibrate

(* pending_not_fuzzed is exact; pending_favored never falls below what it   *)
(* counts, and is exact as long as no entry is variable; what is favoured  *)
(* passed its calibration, so that its turn brings the counter down.       *)
THEOREM PendingCounted == Spec => []PendingCounts
<1>1. Counts /\ Turns => PendingCounts
  BY DEF Counts, PendingCounts, Turns, Chances, ChancesOf, FavoredCalibrated
<1>2. Base /\ Turns /\ WinnersReferenced /\ Traced /\ Counts /\ [Next]_vars => (Traced /\ Counts)'
  BY TracedNext, CountsNext
<1> QED BY <1>1, <1>2, TracedInit, CountsInit, BaseAlways, TurnsAlways, ReferencesCounted, PTL DEF Spec
====
