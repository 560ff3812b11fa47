-------------------------------- MODULE FuzzOne --------------------------------
(***************************************************************************)
(* All of fuzz_one's work on an entry: the deterministic stages, havoc, and  *)
(* splicing with other entries, which sends it back to havoc.  Here buffers  *)
(* are their lengths; every access to them and every random draw is checked. *)
(*                                                                         *)
(* A draw of a position is its smallest or its largest value, which bounds   *)
(* every access; the length of a block, which changes what follows, is any.  *)
(***************************************************************************)
EXTENDS DeterministicStages

CONSTANTS
    HavocCycles, HavocCyclesInit, SpliceHavoc, HavocMin,
    HavocStackPow2, SpliceCycles,
    HavocBlkSmall, HavocBlkMedium, HavocBlkLarge, HavocBlkXl
    \* Entries have, besides: havoc (whether the model goes beyond the deterministic
    \* stages), havocDiv, cycle (queue_cycle), over10m (run_over10m), splicing
    \* (use_splicing), others (the lengths of the other entries), finds (how many
    \* entries may be found)

ASSUME HavocTyped ==
    /\ HavocBlkSmall \in Nat \ {0} /\ HavocBlkMedium \in Nat /\ HavocBlkLarge \in Nat /\ HavocBlkXl \in Nat
    /\ HavocBlkSmall <= HavocBlkMedium /\ HavocBlkMedium <= HavocBlkLarge /\ HavocBlkLarge <= HavocBlkXl
    /\ \A c \in Entries : c.others \in Seq(1 .. MaxFile)

VARIABLES
    bufLen,             \* len
    inLen,              \* the length of in_buf, which is orig_in unless spliced
    spliced,
    tempLen,            \* temp_len
    alloc,              \* how much out_buf has room for
    stack,              \* tweaks still to be stacked on the mutant
    origPerf,           \* orig_perf
    spliceCycle,        \* splice_cycle
    queue,              \* the lengths of all entries, this one being the first
    found,              \* queued_paths # havoc_queued
    fault               \* "overrun" or "zero draw" if an access or a draw was wrong

havocVars == <<bufLen, inLen, spliced, tempLen, alloc, stack, origPerf, spliceCycle, queue, found, fault>>
fuzzVars == <<detVars, havocVars>>
detRest == <<case, extras, exTmp, auto, handicap, buffers, pos, cand, effects, collecting, tried, missing>>

Init ==
    /\ DetInit
    /\ bufLen = len /\ inLen = len /\ spliced = FALSE /\ tempLen = len /\ alloc = len
    /\ stack = 0 /\ origPerf = 0 /\ spliceCycle = 0 /\ queue = <<len>> \o case.others
    /\ found = FALSE /\ fault = "none"

-----------------------------------------------------------------------------
(* Draws and accesses.  An access is where it ends and how large the buffer is. *)

Drawn(n) == {0, n - 1}
End(at, size) == [at |-> at, size |-> size]

Checked(limits, ends) ==
    fault' = IF \E n \in limits : n <= 0 THEN "zero draw"
             ELSE IF \E e \in ends : e.at > e.size THEN "overrun"
             ELSE fault

(* choose_block_len: the lengths it may draw.  It never draws from nothing if  *)
(* the limit is not 0.                                                      *)
BlockBounds ==
    LET rlim == IF case.over10m THEN Smaller(case.cycle, 3) ELSE 1
    IN  {<<1, HavocBlkSmall>>}
        \cup (IF rlim >= 2 THEN {<<HavocBlkSmall, HavocBlkMedium>>} ELSE {})
        \cup (IF rlim >= 3 THEN {<<HavocBlkMedium, HavocBlkLarge>>, <<HavocBlkLarge, HavocBlkXl>>} ELSE {})
BlockLengths(limit) ==
    UNION {(IF b[1] >= limit THEN 1 ELSE b[1]) .. Smaller(b[2], limit) : b \in BlockBounds}

-----------------------------------------------------------------------------
(* The havoc stage. *)

HavocStage ==
    /\ stage = "havoc" /\ case.havoc
    /\ LET startPerf == IF spliceCycle = 0 THEN perf ELSE origPerf
           cycles == IF spliceCycle > 0 THEN SpliceHavoc
                     ELSE IF case.skipDet THEN HavocCycles ELSE HavocCyclesInit
           mutants == ((cycles * startPerf) \div case.havocDiv) \div 100
       IN  /\ perf' = startPerf
           /\ origPerf' = startPerf
           /\ stageMax' = IF mutants < HavocMin THEN HavocMin ELSE mutants
    /\ stage' = "mutant"
    /\ stageCur' = 0
    /\ tempLen' = bufLen
    /\ found' = FALSE
    /\ tried' = {}
    /\ UNCHANGED <<case, extras, exTmp, auto, handicap, buffers, pos, cand, effects, collecting, missing>>
    /\ UNCHANGED <<bufLen, inLen, spliced, alloc, stack, spliceCycle, queue, fault>>

NewMutant ==
    /\ stage = "mutant"
    /\ stageCur < stageMax
    /\ stack' \in {2 ^ (1 + u) : u \in 0 .. HavocStackPow2 - 1}
    /\ stage' = "tweaks"
    /\ UNCHANGED <<detRest, perf, counts>>
    /\ UNCHANGED <<bufLen, inLen, spliced, tempLen, alloc, origPerf, spliceCycle, queue, found, fault>>

Tweaks ==
    /\ stage = "tweaks"
    /\ stack > 0
    /\ stack' = stack - 1
    /\ UNCHANGED <<detRest, perf, stage, counts>>
    /\ UNCHANGED <<bufLen, inLen, spliced, origPerf, spliceCycle, queue, found>>

Resized(n, room) == tempLen' = n /\ alloc' = room
SameSize == UNCHANGED <<tempLen, alloc>>
Nothing == SameSize /\ UNCHANGED fault

(* cases 0 to 10: flips, values and sums in one, two or four bytes *)
\* fault: no look at the length
PokesAnyhow(width) == Checked({tempLen - width + 1}, {End(tempLen, alloc)}) /\ SameSize
Pokes(width) ==
    IF tempLen < width THEN Nothing
    ELSE Checked({tempLen - width + 1}, {End(tempLen, alloc)}) /\ SameSize

Poke == Tweaks /\ \E width \in {1, 2, 4} : Pokes(width)

(* cases 11 and 12 *)
DeleteBytes ==
    /\ Tweaks
    /\ tempLen >= 2
    /\ \E n \in BlockLengths(tempLen - 1) :
         /\ Checked({tempLen - 1, tempLen - n + 1}, {End(tempLen, alloc)})
         /\ Resized(tempLen - n, alloc)

(* case 13: a piece of the buffer, or one byte many times *)
CloneBytes ==
    /\ Tweaks
    /\ tempLen + HavocBlkXl < MaxFile
    /\ \E n \in BlockLengths(tempLen) : \E from \in Drawn(tempLen - n + 1), to \in Drawn(tempLen) :
         /\ Checked({tempLen, tempLen - n + 1},
                    {End(from + n, alloc), End(to, alloc), End(to + n + (tempLen - to), tempLen + n)})
         /\ Resized(tempLen + n, tempLen + n)

InsertBytes ==
    /\ Tweaks
    /\ tempLen + HavocBlkXl < MaxFile
    /\ \E n \in BlockLengths(HavocBlkXl) : \E to \in Drawn(tempLen) :
         /\ Checked({HavocBlkXl, tempLen},
                    {End(to, alloc), End(to + n + (tempLen - to), tempLen + n)})
         /\ Resized(tempLen + n, tempLen + n)

(* case 14 *)
OverwriteBytes ==
    /\ Tweaks
    /\ tempLen >= 2
    /\ \E n \in BlockLengths(tempLen - 1) : \E from, to \in Drawn(tempLen - n + 1) :
         Checked({tempLen - 1, tempLen - n + 1}, {End(from + n, alloc), End(to + n, alloc)})
    /\ SameSize

(* cases 15 and 16, if there is a dictionary: a token of either.  An automatic *)
(* one is drawn from all of a_extras.                                       *)
Drawable ==
    {Len(extras[i]) : i \in DOMAIN extras} \cup {Len(auto[i].data) : i \in DOMAIN auto}

OverwriteWithExtra ==
    /\ Tweaks
    /\ \E n \in Drawable :
         IF n > tempLen THEN Nothing
         ELSE /\ Checked({tempLen - n + 1}, {End(at + n, alloc) : at \in Drawn(tempLen - n + 1)})
              /\ SameSize

InsertExtra ==
    /\ Tweaks
    /\ \E n \in Drawable :
         IF tempLen + n >= MaxFile THEN Nothing
         ELSE /\ Checked({tempLen + 1},
                         {End(at, alloc) : at \in Drawn(tempLen + 1)} \cup {End(tempLen + n, tempLen + n)})
              /\ Resized(tempLen + n, tempLen + n)

(* cases 11 to 14 when they do not apply *)
TweakNothing ==
    /\ Tweaks
    /\ tempLen < 2 \/ tempLen + HavocBlkXl >= MaxFile
    /\ Nothing

(* The mutant is run and the buffer restored.  Finds make havoc go on longer.  *)
MayFind == Len(queue) < 1 + Len(case.others) + case.finds

RoomRestored == IF tempLen < bufLen THEN bufLen ELSE alloc

RunMutant ==
    /\ stage = "tweaks"
    /\ stack = 0
    /\ \E finds \in IF MayFind THEN BOOLEAN ELSE {FALSE} :
         /\ queue' = IF finds THEN Append(queue, tempLen) ELSE queue
         /\ found' = FALSE
         /\ LET longer == finds /\ perf <= HavocMaxMult * 100 IN
            /\ stageMax' = IF longer THEN stageMax * 2 ELSE stageMax
            /\ perf' = IF longer THEN perf * 2 ELSE perf
    /\ alloc' = RoomRestored
    /\ tempLen' = bufLen
    /\ Checked({}, {End(bufLen, alloc'), End(bufLen, inLen)})
    /\ stage' = "mutant"
    /\ stageCur' = stageCur + 1
    /\ UNCHANGED <<detRest, bufLen, inLen, spliced, stack, origPerf, spliceCycle>>

AbandonHavoc ==
    /\ stage = "tweaks"
    /\ stack = 0
    /\ stage' = "abandoned"
    /\ UNCHANGED <<detRest, perf, counts, havocVars>>

EndHavoc ==
    /\ stage = "mutant"
    /\ stageCur >= stageMax
    /\ stage' = "splice"
    /\ UNCHANGED <<detRest, perf, counts, havocVars>>

-----------------------------------------------------------------------------
(* Splicing. *)

MaySplice == case.splicing /\ spliceCycle < SpliceCycles /\ Len(queue) > 1 /\ queue[1] > 1

(* a drawn entry other than this one, or the next after it that is long enough *)
Targets ==
    {k \in DOMAIN queue :
        \E drawn \in DOMAIN queue \ {1} :
            /\ k >= drawn /\ k # 1 /\ queue[k] >= 2
            /\ \A j \in drawn .. k - 1 : queue[j] < 2}
NoTarget == \E drawn \in DOMAIN queue \ {1} : \A j \in drawn .. Len(queue) : queue[j] < 2

(* what locate_diffs may return for two buffers of n bytes *)
Located(n) == {<<-1, -1>>} \cup {d \in (0 .. n - 1) \X (0 .. n - 1) : d[1] <= d[2]}
NoSplit(f, l) == f < 0 \/ l < 2 \/ f = l

(* back to orig_in, in any case *)
CleanUp == spliceCycle' = spliceCycle + 1

SpliceRetry ==
    /\ stage = "splice"
    /\ MaySplice
    /\ CleanUp
    /\ spliced' = FALSE /\ bufLen' = queue[1] /\ inLen' = queue[1]
    /\ \/ NoTarget
       \/ \E t \in Targets : \E d \in Located(Smaller(queue[1], queue[t])) : NoSplit(d[1], d[2])
    /\ UNCHANGED <<detRest, perf, stage, counts>>
    /\ UNCHANGED <<tempLen, alloc, stack, origPerf, queue, found, fault>>

Splice ==
    /\ stage = "splice"
    /\ MaySplice
    /\ CleanUp
    /\ \E t \in Targets : \E d \in Located(Smaller(queue[1], queue[t])) :
         /\ ~NoSplit(d[1], d[2])
         /\ \E splitAt \in {d[1] + u : u \in Drawn(d[2] - d[1])} :
              Checked({d[2] - d[1]}, {End(splitAt, queue[t]), End(splitAt, queue[1])})
         /\ bufLen' = queue[t] /\ inLen' = queue[t] /\ alloc' = queue[t]
    /\ spliced' = TRUE
    /\ stage' = "havoc"
    /\ UNCHANGED <<detRest, perf, counts>>
    /\ UNCHANGED <<tempLen, stack, origPerf, queue, found>>

Finish ==
    /\ stage = "splice"
    /\ ~MaySplice
    /\ stage' = "done"
    /\ UNCHANGED <<detRest, perf, counts, havocVars>>

Next ==
    \/ DetNext /\ UNCHANGED havocVars
    \/ HavocStage \/ NewMutant \/ Poke \/ DeleteBytes \/ CloneBytes \/ InsertBytes \/ OverwriteBytes
    \/ OverwriteWithExtra \/ InsertExtra \/ TweakNothing \/ RunMutant \/ AbandonHavoc \/ EndHavoc
    \/ SpliceRetry \/ Splice \/ Finish

Spec == Init /\ [][Next]_fuzzVars

-----------------------------------------------------------------------------
(* Properties. *)

(* However tweaks are stacked and entries spliced, no access leaves its buffer, *)
(* nothing is drawn from an empty range (a division by zero in UR), and a    *)
(* mutant has at least one byte and at most MAX_FILE.                        *)
InBounds ==
    /\ fault = "none"
    /\ stage \in {"mutant", "tweaks"} => tempLen \in 1 .. MaxFile /\ tempLen <= alloc

TypeOK ==
    /\ stage \in {"mutant", "tweaks", "splice", "done"} \/ DetTypeOK
    /\ spliceCycle \in 0 .. SpliceCycles
    /\ stage \in {"mutant", "tweaks"} => stageCur \in 0 .. stageMax
    /\ perf <= 2 * HavocMaxMult * 100
    /\ stage \in {"mutant", "tweaks"} => inLen = bufLen /\ (spliced \/ bufLen = queue[1])

=============================================================================
