--------------------------- MODULE RecursionMonitor ---------------------------
(***************************************************************************)
(* The run-time oracle (llvm_mode/hash-code.o.c) as runOnModule plants it  *)
(* in one pivot function f: _hashCombine and _entryCheck at f's entry,     *)
(* _checkReturn at the first insertion point of each return block.  The    *)
(* instrumented program is the environment: it calls f, returns from it,   *)
(* and may leave frames of f without returning.                            *)
(*                                                                         *)
(* Abstracted: the values hashed at an entry are one state of States, its  *)
(* SHA-256 one digest; a pointer to a digest buffer is the digest, Null    *)
(* before the slot of the zero-initialized array is written, Freed after   *)
(* the buffer was freed.  Comparing with a freed buffer, or beyond the     *)
(* array, is undefined: it may match, differ or fault.                     *)
(***************************************************************************)
EXTENDS Integers, Sequences, FiniteSets

CONSTANTS
    States,             \* what f's state values can be at an entry
    Digests,
    Digest,             \* the digest of each state
    Cap,                \* the length of the record array: recordNum, 1000
    Tiers,              \* the depth ranges and the sampling period of each
    MaxDepth,           \* bound: frames of f the program's stack can hold
    MaxTimes,           \* bound: entries that are not undone by a return
    MaxStarts,          \* bound: calls of f that find the counter at 0
    CallsInReturnBlock, \* f calls on from the block that also returns
    Unwinds,            \* longjmp or an exception may discard frames of f
    Null, Freed

ASSUME DigestTotal == Digest \in [States -> Digests]
ASSUME PointerValues == Null \notin Digests /\ Freed \notin Digests /\ Null # Freed
ASSUME TiersSound ==
    Tiers \subseteq [above : Nat, upto : Nat, every : Nat \ {0, 1}]
ASSUME Bounds == Cap \in Nat \ {0} /\ MaxDepth \in Nat /\ MaxTimes \in Nat /\ MaxStarts \in Nat
ASSUME Options == CallsInReturnBlock \in BOOLEAN /\ Unwinds \in BOOLEAN

VARIABLES
    frames,             \* the frames of f, outermost first
    times,              \* _counter_f
    num,                \* _sIter_f, the number of records
    slots,              \* _recordArray_f
    starts,             \* calls of f so far that found the counter at 0
    status              \* of the instrumented process

vars == <<frames, times, num, slots, starts, status>>

-----------------------------------------------------------------------------
Slots == 0 .. Cap - 1

(* The depths at which _entryCheck records a call.                          *)
Sampled(t) == \E r \in Tiers : r.above < t /\ t <= r.upto /\ t % r.every = 0

Init ==
    /\ frames = << >>
    /\ times = 0
    /\ num = 0
    /\ slots = [i \in Slots |-> Null]
    /\ starts = 0
    /\ status = "running"

(* f's body runs, or its return block does after _checkReturn.             *)
Frame(s) == [state |-> s, phase |-> "body"]
Innermost == frames[Len(frames)]

(* The program enters f with state s: from outside, or from f's innermost  *)
(* frame.                                                                  *)
Enters(s) ==
    /\ status = "running"
    /\ Len(frames) < MaxDepth
    /\ times < MaxTimes
    /\ frames # << >> => Innermost.phase = "body" \/ CallsInReturnBlock
    /\ frames' = Append(frames, Frame(s))
    /\ times' = times + 1
    /\ IF times = 0 THEN starts < MaxStarts /\ starts' = starts + 1
                    ELSE UNCHANGED starts

FirstRecord == times' = 1 \/ num = 0

(* The outcomes of memcmp of record i with the digest d. *)
Record(i) == IF i < Cap THEN slots[i] ELSE Freed
Differs(i, d) == Record(i) \notin {Null, d}
Matches(i, d) == Record(i) \in {d, Freed}
Faults(i) == Record(i) \in {Null, Freed}

(* _entryCheck of the outermost call: slot 0 is overwritten, whatever it   *)
(* holds, and num grows, whatever it is.                                   *)
EnterFirst(s) ==
    /\ Enters(s)
    /\ FirstRecord
    /\ slots' = [slots EXCEPT ![0] = Digest[s]]
    /\ num' = num + 1
    /\ UNCHANGED status

(* The scan reaches record i, and all before it differ from d.             *)
ScanSkipsFirst(i, d) == \A j \in 1 .. i - 1 : Differs(j, d)    \* fault: from slot 1
ScanReaches(i, d) == \A j \in 0 .. i - 1 : Differs(j, d)

(* exit(88): "Find an infinite Recursion". *)
EnterReport(s) ==
    /\ Enters(s)
    /\ ~ FirstRecord
    /\ \E i \in 0 .. num - 1 : ScanReaches(i, Digest[s]) /\ Matches(i, Digest[s])
    /\ status' = "reported"
    /\ UNCHANGED <<num, slots>>

EnterFault(s) ==
    /\ Enters(s)
    /\ ~ FirstRecord
    /\ \E i \in 0 .. num - 1 : ScanReaches(i, Digest[s]) /\ Faults(i)
    /\ status' = "crashed"
    /\ UNCHANGED <<num, slots>>

(* The new digest is pushed at the sampled depths while there is room.     *)
PushesNever == FALSE                                    \* fault: only slot 0 is kept
Pushes == num < Cap /\ Sampled(times')

(* No record matches. *)
EnterNew(s) ==
    /\ Enters(s)
    /\ ~ FirstRecord
    /\ ScanReaches(num, Digest[s])
    /\ IF Pushes
         THEN /\ slots' = [slots EXCEPT ![num] = Digest[s]]
              /\ num' = num + 1
         ELSE UNCHANGED <<slots, num>>
    /\ UNCHANGED status

Enter(s) == EnterFirst(s) \/ EnterReport(s) \/ EnterFault(s) \/ EnterNew(s)

(* The depths at which a return pops: _checkReturn writes the ranges out a  *)
(* second time.                                                            *)
PopsBefore(t) == \E r \in Tiers : r.above < t /\ t < r.upto /\ t % r.every = 0  \* fault: ends too soon
PopsAt(t) == \E r \in Tiers : r.above < t /\ t <= r.upto /\ t % r.every = 0

(* _checkReturn: pop at those depths, unless the array is full.             *)
PopsAlways == num >= 1                                  \* fault: at every depth
PopsNever == FALSE                                      \* fault: records outlive calls
PopsAfterCount == num < Cap /\ PopsAt(times - 1) /\ num >= 1   \* fault: order swapped
Pops == num < Cap /\ PopsAt(times) /\ num >= 1

FreedButCounted == num                                  \* fault: num-- is missing
OneRecordLess == num - 1

CheckReturn ==
    /\ status = "running"
    /\ frames # << >>
    /\ Innermost.phase = "body"
    /\ times' = times - 1
    /\ frames' = [frames EXCEPT ![Len(frames)].phase = "return"]
    /\ IF Pops
         THEN /\ num' = OneRecordLess
              /\ slots' = [slots EXCEPT ![num - 1] = IF @ = Null THEN Null ELSE Freed]
              /\ status' = IF slots[num - 1] = Freed THEN "crashed" ELSE "running"
         ELSE UNCHANGED <<num, slots, status>>
    /\ UNCHANGED starts

(* fault: the return is counted twice. *)
ReturnCountsAgain ==
    /\ status = "running"
    /\ frames # << >>
    /\ Innermost.phase = "return"
    /\ frames' = SubSeq(frames, 1, Len(frames) - 1)
    /\ times' = times - 1
    /\ UNCHANGED <<num, slots, starts, status>>

(* f returns to its caller. *)
Return ==
    /\ status = "running"
    /\ frames # << >>
    /\ Innermost.phase = "return"
    /\ frames' = SubSeq(frames, 1, Len(frames) - 1)
    /\ UNCHANGED <<times, num, slots, starts, status>>

(* Control leaves the frames above the k-th at once: no return block runs. *)
Unwind(k) ==
    /\ Unwinds
    /\ status = "running"
    /\ k < Len(frames)
    /\ frames' = SubSeq(frames, 1, k)
    /\ UNCHANGED <<times, num, slots, starts, status>>

(* The program ends by itself, at any depth. *)
Exit ==
    /\ status = "running"
    /\ status' = "exited"
    /\ UNCHANGED <<frames, times, num, slots, starts>>

Stopped == status # "running" /\ UNCHANGED vars

Next ==
    \/ \E s \in States : Enter(s)
    \/ CheckReturn
    \/ Return
    \/ \E k \in 0 .. MaxDepth : Unwind(k)
    \/ Exit
    \/ Stopped

Spec == Init /\ [][Next]_vars

-----------------------------------------------------------------------------
FrameSet == [state : States, phase : {"body", "return"}]

TypeOK ==
    /\ frames \in Seq(FrameSet)
    /\ Len(frames) <= MaxDepth
    /\ times \in Nat
    /\ num \in Nat
    /\ slots \in [Slots -> Digests \cup {Null, Freed}]
    /\ starts \in 0 .. MaxStarts
    /\ status \in {"running", "reported", "crashed", "exited"}

(* The frames whose entry was counted and whose return check has not run.  *)
Active == {i \in 1 .. Len(frames) : frames[i].phase = "body"}

(* The counter that decides what is recorded and dropped is the depth of   *)
(* the recursion, although entries and returns update it separately.       *)
TimesIsDepth == times = Cardinality(Active)

(* Frames left without returning stay counted; none is uncounted twice.    *)
TimesCoversDepth == times >= Cardinality(Active)

SampledDepths(t) == {d \in 1 .. t : Sampled(d)}

(* One record per start and one per sampled active depth: each pop undoes  *)
(* the push of the same frame, and no other.                               *)
RecordCount ==
    status = "running" => num = starts + Cardinality(SampledDepths(times))

(* The slot a frame at depth d is recorded in, if it is recorded.          *)
SlotOf(d) == Cardinality(SampledDepths(d))
Recorded(d) == d = 1 \/ Sampled(d)
DigestAt(d) == Digest[frames[d].state]

(* The array holds the digests of the recorded active frames.              *)
RecordsAreActive ==
    status = "running" =>
        \A d \in 1 .. times : Recorded(d) => slots[SlotOf(d)] = DigestAt(d)

(* The oracle never reads a slot nobody wrote, a freed record or memory    *)
(* beyond the array, and frees no record twice.                            *)
NeverFaults == status # "crashed"

(* A pop frees a record that was pushed and not freed since: the counter   *)
(* cannot reach a sampled depth from above unless it passed it from below. *)
PopFreesRecord ==
    status = "running" /\ frames # << >> =>
        (Innermost.phase = "body" /\ Pops => slots[num - 1] \in Digests)

(* No false report: whoever is reported has the digest of a call that is   *)
(* still active, one that was recorded.                                    *)
ReportIsRevisit ==
    status = "reported" =>
        \E d \in 1 .. Len(frames) - 1 :
            Recorded(d) /\ DigestAt(d) = DigestAt(Len(frames))

(* No missed report: as long as the program runs, no active call repeats   *)
(* the digest of a recorded call further out.                              *)
RevisitIsReported ==
    status = "running" =>
        \A d \in 1 .. times : Recorded(d) =>
            \A e \in d + 1 .. times : DigestAt(e) # DigestAt(d)
=============================================================================
