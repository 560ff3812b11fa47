------------------------ MODULE RecursionMonitor_proofs ------------------------
(***************************************************************************)
(* What TLAPS proves about RecursionMonitor.  For every program: types, and*)
(* that the counter never falls below the active depth.  For a program     *)
(* whose frames of f all end in a return it is the active depth.  For one  *)
(* recursion of f, without calls in return blocks and with room in the     *)
(* array, the oracle is exact: it reads only records of active calls, it   *)
(* reports only revisits, and no revisit of a recorded call goes on.       *)
(***************************************************************************)
EXTENDS RecursionMonitor, FiniteSetTheorems, SequenceTheorems, TLAPS

USE DEF Slots, Frame, Innermost, Active

-----------------------------------------------------------------------------
(* The active frames are finitely many.                                    *)
LEMMA ActiveCount ==
    ASSUME TypeOK
    PROVE  IsFiniteSet(Active) /\ Cardinality(Active) \in Nat
<1>1. Active \subseteq 1 .. Len(frames) /\ Len(frames) \in Nat
  BY DEF TypeOK
<1>2. IsFiniteSet(1 .. Len(frames))
  BY <1>1, FS_Interval
<1>3. IsFiniteSet(Active)
  BY <1>1, <1>2, FS_Subset
<1> QED BY <1>3, FS_CardinalityType

LEMMA FrameType ==
    ASSUME TypeOK, NEW i \in 1 .. Len(frames)
    PROVE  frames[i] \in FrameSet
BY ElementOfSeq DEF TypeOK

(* An entry adds a frame to them.                                          *)
LEMMA EntersActive ==
    ASSUME TypeOK, NEW s \in States, Enters(s)
    PROVE  /\ frames' \in Seq(FrameSet)
           /\ Len(frames') = Len(frames) + 1
           /\ \A i \in 1 .. Len(frames) : frames'[i] = frames[i]
           /\ frames'[Len(frames) + 1] = [state |-> s, phase |-> "body"]
           /\ Cardinality(Active') = Cardinality(Active) + 1
<1>1. frames' = Append(frames, [state |-> s, phase |-> "body"])
  BY DEF Enters
<1>0. [state |-> s, phase |-> "body"] \in FrameSet
  BY DEF FrameSet
<1>2. /\ frames' \in Seq(FrameSet)
      /\ Len(frames') = Len(frames) + 1 /\ Len(frames) \in Nat
      /\ \A i \in 1 .. Len(frames) : frames'[i] = frames[i]
      /\ frames'[Len(frames) + 1] = [state |-> s, phase |-> "body"]
  BY <1>0, <1>1 DEF TypeOK
<1>3. Active' = Active \cup {Len(frames) + 1} /\ Len(frames) + 1 \notin Active
  BY <1>2
<1>4. Cardinality(Active') = Cardinality(Active) + 1
  BY <1>3, ActiveCount, FS_AddElement
<1> QED BY <1>2, <1>4

(* A return check removes the innermost frame from them.                   *)
LEMMA CheckReturnActive ==
    ASSUME TypeOK, CheckReturn
    PROVE  /\ frames' \in Seq(FrameSet)
           /\ Len(frames) \in Nat \ {0}
           /\ Len(frames') = Len(frames)
           /\ \A i \in 1 .. Len(frames) - 1 : frames'[i] = frames[i]
           /\ \A i \in 1 .. Len(frames) : frames'[i].state = frames[i].state
           /\ frames'[Len(frames)].phase = "return"
           /\ Cardinality(Active') = Cardinality(Active) - 1
           /\ Cardinality(Active) >= 1
<1>1. /\ Len(frames) \in Nat \ {0} /\ frames[Len(frames)].phase = "body"
      /\ frames' = [frames EXCEPT ![Len(frames)].phase = "return"]
  BY DEF CheckReturn, OneRecordLess, TypeOK
<1>2. /\ frames' \in Seq(FrameSet)
      /\ Len(frames') = Len(frames)
      /\ \A i \in 1 .. Len(frames) - 1 : frames'[i] = frames[i]
      /\ \A i \in 1 .. Len(frames) : frames'[i].state = frames[i].state
      /\ frames'[Len(frames)].phase = "return"
  <2> DEFINE f == frames[Len(frames)]
             r == [f EXCEPT !.phase = "return"]
  <2>1. f \in FrameSet
    <3>1. Len(frames) \in 1 .. Len(frames)
      BY <1>1
    <3> QED BY <3>1, FrameType
  <2>2. r \in FrameSet /\ r.phase = "return" /\ r.state = f.state
    BY <2>1 DEF FrameSet
  <2>3. frames' = [frames EXCEPT ![Len(frames)] = r]
    BY <1>1
  <2> HIDE DEF r
  <2> QED BY SMTT(30), <1>1, <2>2, <2>3 DEF TypeOK
<1>3. Active' = Active \ {Len(frames)} /\ Len(frames) \in Active
  BY <1>1, <1>2
<1>4. Cardinality(Active') = Cardinality(Active) - 1
  <2>1. Cardinality(Active \ {Len(frames)}) = IF Len(frames) \in Active THEN Cardinality(Active) - 1
                                                                       ELSE Cardinality(Active)
    BY ActiveCount, FS_RemoveElement
  <2> HIDE DEF Active
  <2> QED BY <1>3, <2>1
<1>5. Cardinality(Active) # 0
  BY <1>3, ActiveCount, FS_EmptySet
<1> QED BY <1>1, <1>2, <1>4, <1>5, ActiveCount

LEMMA ReturnActive ==
    ASSUME TypeOK, Return
    PROVE  /\ frames' \in Seq(FrameSet)
           /\ Len(frames) \in Nat \ {0}
           /\ Len(frames') = Len(frames) - 1
           /\ \A i \in 1 .. Len(frames) - 1 : frames'[i] = frames[i]
           /\ Active' = Active
<1>1. /\ Len(frames) \in Nat \ {0} /\ frames[Len(frames)].phase = "return"
      /\ frames' = SubSeq(frames, 1, Len(frames) - 1)
  BY DEF Return, TypeOK
<1>2. /\ frames' \in Seq(FrameSet)
      /\ Len(frames') = Len(frames) - 1
      /\ \A i \in 1 .. Len(frames) - 1 : frames'[i] = frames[i]
  <2> DEFINE m == Len(frames) - 1
  <2>1. \A i \in 1 .. m : frames[i] \in FrameSet
    BY <1>1, FrameType
  <2> DEFINE t == SubSeq(frames, 1, m)
  <2>2. /\ t \in Seq(FrameSet)
        /\ Len(t) = IF 1 <= m THEN m - 1 + 1 ELSE 0
        /\ \A i \in 1 .. m - 1 + 1 : t[i] = frames[1 + i - 1]
    BY <1>1, <2>1, SubSeqProperties
  <2>3. frames' = t /\ m \in Nat /\ m = Len(frames) - 1
    BY <1>1
  <2> HIDE DEF t, m
  <2>4. ASSUME NEW i \in 1 .. m PROVE t[i] = frames[i]
    <3>1. i \in 1 .. m - 1 + 1 /\ 1 + i - 1 = i
      BY <2>3
    <3> QED BY <2>2, <3>1
  <2>5. Len(t) = m
    BY <2>2, <2>3
  <2> QED BY <1>1, <2>2, <2>3, <2>4, <2>5
<1>3. Active' = Active
  BY <1>1, <1>2
<1> QED BY <1>1, <1>2, <1>3

LEMMA UnwindActive ==
    ASSUME TypeOK, NEW k \in 0 .. MaxDepth, Unwind(k)
    PROVE  /\ frames' \in Seq(FrameSet)
           /\ Len(frames') <= Len(frames)
           /\ Active' \subseteq Active
<1>1. k < Len(frames) /\ Len(frames) \in Nat /\ frames' = SubSeq(frames, 1, k) /\ k \in Nat
  BY Bounds DEF Unwind, TypeOK
<1>2. /\ frames' \in Seq(FrameSet)
      /\ Len(frames') = k
      /\ \A i \in 1 .. k : frames'[i] = frames[i]
  <2>1. \A i \in 1 .. k : frames[i] \in FrameSet
    BY <1>1, FrameType
  <2> QED BY <1>1, <2>1, SubSeqProperties
<1>3. Active' \subseteq Active
  BY <1>1, <1>2
<1> QED BY <1>1, <1>2, <1>3

-----------------------------------------------------------------------------
(* Whatever the program does with f.                                       *)
Base == TypeOK /\ TimesCoversDepth

LEMMA BaseInit == Init => Base
<1> SUFFICES ASSUME Init PROVE Base
  OBVIOUS
<1>1. TypeOK
  BY Bounds DEF Init, TypeOK
<1>2. Active = {}
  BY DEF Init
<1> QED BY <1>1, <1>2, FS_EmptySet DEF Base, TimesCoversDepth, Init

LEMMA BaseEnter == ASSUME Base, NEW s \in States, Enter(s) PROVE Base'
<1> USE Bounds, DigestTotal DEF Base
<1>1. Enters(s)
  BY DEF Enter, EnterFirst, EnterReport, EnterFault, EnterNew, Pushes
<1>2. times' = times + 1 /\ times' \in Nat /\ Len(frames') <= MaxDepth /\ starts' \in 0 .. MaxStarts
  BY <1>1, EntersActive DEF Enters, TypeOK
<1>3. num' \in Nat /\ slots' \in [Slots -> Digests \cup {Null, Freed}]
  <2>1. Digest[s] \in Digests
    OBVIOUS
  <2>2. CASE EnterFirst(s)
    BY <2>1, <2>2 DEF EnterFirst, TypeOK
  <2>3. CASE EnterReport(s) \/ EnterFault(s)
    BY <2>3 DEF EnterReport, EnterFault, TypeOK
  <2>4. CASE EnterNew(s)
    BY <2>1, <2>4 DEF EnterNew, Pushes, TypeOK
  <2> QED BY <2>2, <2>3, <2>4 DEF Enter
<1>4. status' \in {"running", "reported", "crashed", "exited"}
  BY DEF Enter, EnterFirst, EnterReport, EnterFault, EnterNew, Pushes, TypeOK
<1>5. TypeOK'
  BY <1>1, <1>2, <1>3, <1>4, EntersActive DEF TypeOK
<1>6. TimesCoversDepth'
  <2>1. Cardinality(Active') = Cardinality(Active) + 1
    BY <1>1, EntersActive
  <2> QED BY <1>2, <2>1, ActiveCount DEF TimesCoversDepth, TypeOK
<1> QED BY <1>5, <1>6

LEMMA BaseCheckReturn == ASSUME Base, CheckReturn PROVE Base'
<1> USE Bounds DEF Base
<1>1. times' = times - 1 /\ starts' = starts
  BY DEF CheckReturn, OneRecordLess
<1>2. times >= 1 /\ times' >= Cardinality(Active')
  BY <1>1, CheckReturnActive, ActiveCount DEF TimesCoversDepth, TypeOK
<1>3. /\ num' \in Nat /\ slots' \in [Slots -> Digests \cup {Null, Freed}]
      /\ status' \in {"running", "crashed"}
  <2>1. CASE Pops
    <3>1. num - 1 \in Slots /\ num' = num - 1
      BY <2>1 DEF Pops, CheckReturn, OneRecordLess, TypeOK
    <3>2. slots' = [slots EXCEPT ![num - 1] = IF @ = Null THEN Null ELSE Freed]
      BY <2>1 DEF CheckReturn, OneRecordLess
    <3>3. status' \in {"running", "crashed"}
      BY <2>1 DEF CheckReturn, OneRecordLess
    <3> QED BY <3>1, <3>2, <3>3 DEF TypeOK
  <2>2. CASE ~ Pops
    BY <2>2 DEF CheckReturn, OneRecordLess, TypeOK
  <2> QED BY <2>1, <2>2
<1> QED BY <1>1, <1>2, <1>3, CheckReturnActive DEF TypeOK, TimesCoversDepth

LEMMA BaseNext == Base /\ [Next]_vars => Base'
<1> SUFFICES ASSUME Base, [Next]_vars PROVE Base'
  OBVIOUS
<1> USE DEF Base
<1>1. ASSUME NEW s \in States, Enter(s) PROVE Base'
  BY <1>1, BaseEnter
<1>2. CASE CheckReturn
  BY <1>2, BaseCheckReturn
<1>3. CASE Return
  <2>1. UNCHANGED <<times, num, slots, starts, status>>
    BY <1>3 DEF Return
  <2>2. /\ frames' \in Seq(FrameSet)
        /\ Len(frames') <= MaxDepth /\ Active' = Active
    BY <1>3, ReturnActive, Bounds DEF TypeOK
  <2> QED BY <2>1, <2>2 DEF TypeOK, TimesCoversDepth
<1>4. ASSUME NEW k \in 0 .. MaxDepth, Unwind(k) PROVE Base'
  <2>1. UNCHANGED <<times, num, slots, starts, status>>
    BY <1>4 DEF Unwind
  <2>2. Cardinality(Active') <= Cardinality(Active) /\ Cardinality(Active') \in Nat
    BY <1>4, UnwindActive, ActiveCount, FS_Subset, FS_CardinalityType
  <2>3. Len(frames') \in Nat /\ Len(frames) \in Nat
    BY <1>4, UnwindActive DEF TypeOK
  <2> QED BY <1>4, <2>1, <2>2, <2>3, UnwindActive, ActiveCount, Bounds DEF TypeOK, TimesCoversDepth
<1>5. CASE Exit
  BY <1>5 DEF Exit, TypeOK, TimesCoversDepth
<1>6. CASE UNCHANGED vars
  BY <1>6 DEF vars, TypeOK, TimesCoversDepth
<1> QED BY <1>1, <1>2, <1>3, <1>4, <1>5, <1>6 DEF Next, Stopped

(* Types, for every program and every value of the constants.              *)
THEOREM TypeCorrect == Spec => []TypeOK
<1>1. Base => TypeOK
  BY DEF Base
<1> QED BY <1>1, BaseInit, BaseNext, PTL DEF Spec

(* The 32-bit counter never falls below the number of calls in progress:   *)
(* in particular no return check brings it below zero.                     *)
THEOREM CounterCoversDepth == Spec => []TimesCoversDepth
<1>1. Base => TimesCoversDepth
  BY DEF Base
<1> QED BY <1>1, BaseInit, BaseNext, PTL DEF Spec

(* Where control leaves f only by returning, the counter is the depth.     *)
THEOREM CounterIsDepth == ~ Unwinds => (Spec => []TimesIsDepth)
<1> SUFFICES ASSUME ~ Unwinds PROVE Spec => []TimesIsDepth
  OBVIOUS
<1>1. Init => TimesIsDepth
  <2>1. Init => Active = {} /\ times = 0
    BY DEF Init
  <2> QED BY <2>1, FS_EmptySet DEF TimesIsDepth
<1>2. Base /\ TimesIsDepth /\ [Next]_vars => TimesIsDepth'
  <2> SUFFICES ASSUME Base, TimesIsDepth, [Next]_vars PROVE TimesIsDepth'
    OBVIOUS
  <2> USE DEF Base, TimesIsDepth
  <2>1. ASSUME NEW s \in States, Enter(s) PROVE TimesIsDepth'
    <3>1. Enters(s)
      BY <2>1 DEF Enter, EnterFirst, EnterReport, EnterFault, EnterNew, Pushes
    <3> QED BY <3>1, EntersActive DEF Enters
  <2>2. CASE CheckReturn
    BY <2>2, CheckReturnActive DEF CheckReturn, OneRecordLess
  <2>3. CASE Return
    BY <2>3, ReturnActive DEF Return
  <2>4. CASE Exit \/ UNCHANGED vars
    BY <2>4 DEF Exit, vars
  <2> QED BY <2>1, <2>2, <2>3, <2>4 DEF Next, Stopped, Unwind
<1> QED BY <1>1, <1>2, BaseInit, BaseNext, PTL DEF Spec

-----------------------------------------------------------------------------
(* The records, while the array does not fill up.                          *)
Roomy == MaxStarts + Cardinality(SampledDepths(MaxTimes)) < Cap

LEMMA SampledFinite ==
    ASSUME NEW t \in Nat
    PROVE  IsFiniteSet(SampledDepths(t)) /\ Cardinality(SampledDepths(t)) \in Nat
<1>1. SampledDepths(t) \in SUBSET (1 .. t)
  BY DEF SampledDepths
<1>2. IsFiniteSet(SampledDepths(t))
  BY <1>1, FS_Interval, FS_Subset
<1> QED BY <1>2, FS_CardinalityType

(* One depth further, at most one more record.                             *)
LEMMA SampledStep ==
    ASSUME NEW t \in Nat
    PROVE  Cardinality(SampledDepths(t + 1)) =
             Cardinality(SampledDepths(t)) + (IF Sampled(t + 1) THEN 1 ELSE 0)
<1>1. CASE Sampled(t + 1)
  <2>1. SampledDepths(t + 1) = SampledDepths(t) \cup {t + 1} /\ t + 1 \notin SampledDepths(t)
    BY <1>1 DEF SampledDepths
  <2> QED BY <1>1, <2>1, SampledFinite, FS_AddElement
<1>2. CASE ~ Sampled(t + 1)
  <2>1. SampledDepths(t + 1) = SampledDepths(t)
    BY <1>2 DEF SampledDepths
  <2> QED BY <1>2, <2>1, SampledFinite
<1> QED BY <1>1, <1>2

LEMMA SampledMonotone ==
    ASSUME NEW t \in Nat, NEW u \in Nat, t <= u
    PROVE  Cardinality(SampledDepths(t)) <= Cardinality(SampledDepths(u))
<1>1. SampledDepths(t) \in SUBSET SampledDepths(u)
  BY DEF SampledDepths
<1> QED BY <1>1, SampledFinite, FS_Subset

(* The ranges of _entryCheck and of _checkReturn name the same depths.      *)
LEMMA PopsWhereSampled == \A t : PopsAt(t) <=> Sampled(t)
BY DEF PopsAt, Sampled

(* The outermost call is at no sampled depth.                              *)
LEMMA FirstNotSampled ==
    /\ ~ Sampled(1)
    /\ Cardinality(SampledDepths(0)) = 0
    /\ Cardinality(SampledDepths(1)) = 0
<1>1. ~ Sampled(1)
  <2>1. \A k \in Nat \ {0, 1} : 1 % k = 1
    OBVIOUS
  <2> QED BY <2>1, TiersSound DEF Sampled
<1>2. SampledDepths(0) = {} /\ SampledDepths(1) = {}
  BY <1>1 DEF SampledDepths
<1> QED BY <1>1, <1>2, FS_EmptySet

Counted ==
    /\ Base
    /\ times <= MaxTimes
    /\ times > 0 => starts >= 1
    /\ RecordCount

(* With room in the array a running process has fewer than Cap records,    *)
(* and the oracle takes a call for an outermost one iff the counter is 0.  *)
LEMMA CountedFacts ==
    ASSUME Roomy, Counted, status = "running"
    PROVE  /\ num < Cap
           /\ times > 0 => num >= 1
           /\ times \in Nat /\ num \in Nat /\ starts \in Nat
<1>1. times \in Nat /\ num \in Nat /\ starts \in Nat /\ starts <= MaxStarts /\ times <= MaxTimes
  BY Bounds DEF Counted, Base, TypeOK
<1>2. /\ Cardinality(SampledDepths(times)) \in Nat
      /\ Cardinality(SampledDepths(MaxTimes)) \in Nat
      /\ Cardinality(SampledDepths(times)) <= Cardinality(SampledDepths(MaxTimes))
  BY <1>1, Bounds, SampledFinite, SampledMonotone
<1> QED BY <1>1, <1>2, Bounds DEF Roomy, Counted, RecordCount

LEMMA CountedEnter ==
    ASSUME Roomy, Counted, NEW s \in States, Enter(s)
    PROVE  Counted'
<1>1. Enters(s) /\ status = "running"
  BY DEF Enter, EnterFirst, EnterReport, EnterFault, EnterNew, Pushes, Enters
<1>2. /\ times' = times + 1 /\ times < MaxTimes
      /\ times = 0 => starts' = starts + 1
      /\ times # 0 => starts' = starts
  BY <1>1 DEF Enters
<1>3. /\ num < Cap /\ times \in Nat /\ num \in Nat /\ starts \in Nat
      /\ times > 0 => num >= 1 /\ starts >= 1
      /\ num = starts + Cardinality(SampledDepths(times))
  BY <1>1, CountedFacts DEF Counted, RecordCount
<1>4. Base'
  BY BaseEnter DEF Counted
<1>5. times' <= MaxTimes /\ starts' >= 1
  BY <1>2, <1>3, Bounds
<1>6. RecordCount'
  <2>1. CASE EnterFirst(s)
    <3>1. times = 0
      BY <1>2, <1>3, <2>1 DEF EnterFirst, FirstRecord
    <3>2. num' = num + 1 /\ starts' = starts + 1 /\ times' = 1
      BY <1>2, <2>1, <3>1 DEF EnterFirst
    <3> QED BY <1>3, <3>1, <3>2, FirstNotSampled DEF RecordCount
  <2>2. CASE EnterReport(s) \/ EnterFault(s)
    BY <2>2 DEF EnterReport, EnterFault, RecordCount
  <2>3. CASE EnterNew(s)
    <3>1. times # 0 /\ starts' = starts
      BY <1>2, <2>3 DEF EnterNew, Pushes, FirstRecord
    <3>2. num' = num + (IF Sampled(times + 1) THEN 1 ELSE 0)
      BY <1>2, <1>3, <2>3 DEF EnterNew, Pushes
    <3> QED BY <1>2, <1>3, <3>1, <3>2, SampledStep, SampledFinite DEF RecordCount
  <2> QED BY <2>1, <2>2, <2>3 DEF Enter
<1> QED BY <1>4, <1>5, <1>6 DEF Counted

LEMMA CountedCheckReturn ==
    ASSUME Roomy, Counted, CheckReturn
    PROVE  Counted'
<1>1. status = "running" /\ times' = times - 1 /\ starts' = starts
  BY DEF CheckReturn, OneRecordLess
<1>2. times >= 1
  <2>1. Cardinality(Active) >= 1 /\ Cardinality(Active) \in Nat
    BY CheckReturnActive, ActiveCount DEF Counted, Base
  <2> QED BY <2>1 DEF Counted, Base, TimesCoversDepth, TypeOK
<1>3. /\ num < Cap /\ times \in Nat /\ num \in Nat /\ starts \in Nat /\ num >= 1
      /\ num = starts + Cardinality(SampledDepths(times))
  BY <1>1, <1>2, CountedFacts DEF Counted, RecordCount
<1>4. num' = num - (IF Sampled(times) THEN 1 ELSE 0)
  BY <1>3, PopsWhereSampled DEF CheckReturn, OneRecordLess, Pops
<1>5. times - 1 \in Nat /\ times - 1 + 1 = times
  BY <1>2, <1>3
<1>6. Cardinality(SampledDepths(times)) =
        Cardinality(SampledDepths(times - 1)) + (IF Sampled(times) THEN 1 ELSE 0)
  BY <1>5, SampledStep
<1>7. RecordCount'
  BY <1>1, <1>3, <1>4, <1>5, <1>6, SampledFinite DEF RecordCount
<1> QED BY <1>1, <1>2, <1>3, <1>7, BaseCheckReturn, Bounds DEF Counted

LEMMA CountedNext == Roomy /\ Counted /\ [Next]_vars => Counted'
<1> SUFFICES ASSUME Roomy, Counted, [Next]_vars PROVE Counted'
  OBVIOUS
<1>1. ASSUME NEW s \in States, Enter(s) PROVE Counted'
  BY <1>1, CountedEnter
<1>2. CASE CheckReturn
  BY <1>2, CountedCheckReturn
<1>3. ASSUME Return \/ (\E k \in 0 .. MaxDepth : Unwind(k)) \/ Exit \/ UNCHANGED vars
      PROVE  Counted'
  <2>1. UNCHANGED <<times, num, starts>> /\ (status' = "running" => status = "running")
    BY <1>3 DEF Return, Unwind, Exit, vars
  <2>2. Base'
    BY BaseNext DEF Counted
  <2> QED BY <2>1, <2>2 DEF Counted, RecordCount
<1> QED BY <1>1, <1>2, <1>3 DEF Next, Stopped

LEMMA CountedInit == Init => Counted
<1> SUFFICES ASSUME Init PROVE Counted
  OBVIOUS
<1>1. RecordCount /\ times <= MaxTimes /\ ~ times > 0
  BY FirstNotSampled, Bounds DEF Init, RecordCount
<1> QED BY <1>1, BaseInit DEF Counted

(* Records and starts balance, for every program, as long as the array     *)
(* does not fill up.                                                       *)
THEOREM RecordsBalance == Roomy => (Spec => []RecordCount)
<1> SUFFICES ASSUME Roomy PROVE Spec => []RecordCount
  OBVIOUS
<1>1. Counted => RecordCount
  BY DEF Counted
<1>2. Counted /\ [Next]_vars => Counted'
  BY CountedNext
<1> QED BY <1>1, <1>2, CountedInit, PTL DEF Spec

-----------------------------------------------------------------------------
(* One recursion of f, with all its calls between the two checks.          *)
OneRecursion == MaxStarts = 1 /\ ~ CallsInReturnBlock /\ ~ Unwinds

(* Only the innermost frame can be past its return check.                  *)
Shape ==
    /\ \A i \in 1 .. Len(frames) - 1 : frames[i].phase = "body"
    /\ times = IF frames # << >> /\ Innermost.phase = "return" THEN Len(frames) - 1
                                                              ELSE Len(frames)

(* Every record belongs to an active call.                                 *)
Owned ==
    status = "running" /\ times > 0 =>
        \A i \in 0 .. num - 1 : \E d \in 1 .. times : Recorded(d) /\ SlotOf(d) = i

(* The digest of the frame at depth d after the step.                      *)
NextDigest(d) == Digest[frames'[d].state]

Exact ==
    /\ Counted
    /\ Shape
    /\ RecordsAreActive
    /\ Owned
    /\ NeverFaults
    /\ ReportIsRevisit
    /\ RevisitIsReported

LEMMA ExactInit == Init => Exact
<1> SUFFICES ASSUME Init PROVE Exact
  OBVIOUS
<1>1. Shape /\ RecordsAreActive /\ Owned /\ NeverFaults /\ ReportIsRevisit /\ RevisitIsReported
  BY DEF Init, Shape, RecordsAreActive, Owned, NeverFaults, ReportIsRevisit, RevisitIsReported
<1> QED BY <1>1, CountedInit DEF Exact

(* A recorded call that is active has a slot among the first num, and the  *)
(* slot holds its digest.                                                  *)
LEMMA RecordFacts ==
    ASSUME OneRecursion, Roomy, Exact, status = "running", times > 0
    PROVE  /\ times \in Nat /\ num \in Nat \ {0} /\ num < Cap /\ starts = 1
           /\ num = 1 + Cardinality(SampledDepths(times))
           /\ times <= Len(frames)
           /\ \A d \in 1 .. times : DigestAt(d) \in Digests
           /\ \A d \in 1 .. times : SlotOf(d) \in 0 .. num - 1
           /\ \A d \in 1 .. times : Recorded(d) => slots[SlotOf(d)] = DigestAt(d)
           /\ \A i \in 0 .. num - 1 : \E d \in 1 .. times : Recorded(d) /\ slots[i] = DigestAt(d)
<1>1. /\ times \in Nat /\ num \in Nat /\ num < Cap /\ starts = 1
      /\ num = 1 + Cardinality(SampledDepths(times)) /\ num >= 1
  BY CountedFacts DEF Exact, Counted, RecordCount, OneRecursion, Base, TypeOK
<1>2. times <= Len(frames) /\ Len(frames) \in Nat
  BY DEF Exact, Shape, Counted, Base, TypeOK
<1>3. ASSUME NEW d \in 1 .. times PROVE DigestAt(d) \in Digests
  <2>1. frames[d] \in FrameSet
    BY <1>1, <1>2, FrameType DEF Exact, Counted, Base
  <2> QED BY <2>1, DigestTotal DEF FrameSet, DigestAt
<1>4. ASSUME NEW d \in 1 .. times PROVE SlotOf(d) \in 0 .. num - 1
  BY <1>1, SampledMonotone, SampledFinite DEF SlotOf
<1>5. \A d \in 1 .. times : Recorded(d) => slots[SlotOf(d)] = DigestAt(d)
  BY DEF Exact, RecordsAreActive
<1>6. \A i \in 0 .. num - 1 : \E d \in 1 .. times : Recorded(d) /\ slots[i] = DigestAt(d)
  BY <1>5 DEF Exact, Owned
<1> QED BY <1>1, <1>2, <1>3, <1>4, <1>5, <1>6

(* What an entry does to the stack.                                        *)
LEMMA EnterShape ==
    ASSUME OneRecursion, Exact, NEW s \in States, Enter(s)
    PROVE  /\ status = "running" /\ times = Len(frames) /\ times \in Nat /\ times' = times + 1
           /\ Len(frames') = times' /\ Shape'
           /\ \A d \in 1 .. times : NextDigest(d) = DigestAt(d)
           /\ NextDigest(times + 1) = Digest[s]
<1>1. Enters(s) /\ TypeOK
  BY DEF Enter, EnterFirst, EnterReport, EnterFault, EnterNew, Pushes, Exact, Counted, Base
<1>2. status = "running" /\ times' = times + 1 /\ times \in Nat /\ Len(frames) \in Nat
  BY <1>1 DEF Enters, TypeOK
<1>3. frames # << >> => Innermost.phase = "body"
  BY <1>1 DEF Enters, OneRecursion
<1>4. times = Len(frames) /\ \A i \in 1 .. Len(frames) : frames[i].phase = "body"
  <2>1. times = Len(frames)
    BY <1>3 DEF Exact, Shape
  <2>2. ASSUME NEW i \in 1 .. Len(frames) PROVE frames[i].phase = "body"
    <3>1. frames # << >>
      BY <2>2
    <3>2. i = Len(frames) \/ i \in 1 .. Len(frames) - 1
      BY <1>2
    <3> QED BY <1>3, <3>1, <3>2 DEF Exact, Shape
  <2> QED BY <2>1, <2>2
<1>5. /\ Len(frames') = Len(frames) + 1
      /\ \A i \in 1 .. Len(frames) : frames'[i] = frames[i]
      /\ frames'[Len(frames) + 1] = [state |-> s, phase |-> "body"]
  BY <1>1, EntersActive
<1>6. Shape'
  BY <1>2, <1>4, <1>5 DEF Shape
<1>7. /\ \A d \in 1 .. times : NextDigest(d) = DigestAt(d)
      /\ NextDigest(times + 1) = Digest[s]
  BY <1>2, <1>4, <1>5 DEF DigestAt, NextDigest
<1> QED BY <1>2, <1>4, <1>5, <1>6, <1>7

LEMMA ExactEnterFirst ==
    ASSUME OneRecursion, Roomy, Exact, NEW s \in States, EnterFirst(s)
    PROVE  Exact'
<1>1. Enter(s)
  BY DEF Enter
<1>2. Counted' /\ Shape'
  BY <1>1, CountedEnter, EnterShape DEF Exact
<1>3. status = "running" /\ status' = "running" /\ times \in Nat /\ times' = times + 1
      /\ NextDigest(times + 1) = Digest[s]
  BY <1>1, EnterShape DEF EnterFirst
<1>4. times = 0
  BY <1>3, CountedFacts DEF EnterFirst, FirstRecord, Exact
<1>5. starts = 0 /\ num = 0
  BY <1>3, <1>4, FirstNotSampled DEF EnterFirst, Enters, OneRecursion, Exact, Counted, RecordCount, Base, TypeOK
<1>6. num' = 1 /\ times' = 1 /\ slots'[0] = Digest[s] /\ SlotOf(1) = 0
  <2>1. 0 \in Slots /\ slots' = [slots EXCEPT ![0] = Digest[s]] /\ num' = num + 1
    BY Bounds DEF EnterFirst
  <2> QED BY <1>3, <1>4, <1>5, <2>1, FirstNotSampled DEF SlotOf, Exact, Counted, Base, TypeOK
<1>7. SlotOf(1)' = 0
  BY FirstNotSampled DEF SlotOf, SampledDepths
<1>8. RecordsAreActive' /\ Owned' /\ RevisitIsReported'
  <2>1. RecordsAreActive'
    <3>1. \A d \in 1 .. 1 : slots'[SlotOf(d)] = NextDigest(d)
      BY <1>3, <1>4, <1>6
    <3> QED BY <1>6, <3>1 DEF RecordsAreActive, DigestAt, NextDigest, SlotOf, SampledDepths
  <2>2. Owned'
    BY <1>6, <1>7 DEF Owned, Recorded
  <2>3. RevisitIsReported'
    BY <1>6 DEF RevisitIsReported
  <2> QED BY <2>1, <2>2, <2>3
<1> QED BY <1>2, <1>3, <1>8 DEF Exact, NeverFaults, ReportIsRevisit

LEMMA ExactEnterNew ==
    ASSUME OneRecursion, Roomy, Exact, NEW s \in States, EnterNew(s)
    PROVE  Exact'
<1>1. Enter(s)
  BY DEF Enter
<1>2. Counted' /\ Shape'
  BY <1>1, CountedEnter, EnterShape DEF Exact
<1>3. /\ status = "running" /\ status' = "running" /\ times \in Nat /\ times' = times + 1
      /\ NextDigest(times + 1) = Digest[s]
      /\ \A d \in 1 .. times : NextDigest(d) = DigestAt(d)
  BY <1>1, EnterShape DEF EnterNew, Pushes
<1>4. times > 0
  BY <1>3 DEF EnterNew, Pushes, FirstRecord
<1>5. /\ num \in Nat \ {0} /\ num < Cap /\ num = 1 + Cardinality(SampledDepths(times))
      /\ \A d \in 1 .. times : SlotOf(d) \in 0 .. num - 1
      /\ \A d \in 1 .. times : Recorded(d) => slots[SlotOf(d)] = DigestAt(d)
  BY <1>3, <1>4, RecordFacts
<1>6. \A i \in 0 .. num - 1 : slots[i] # Digest[s]
  BY <1>5, Bounds DEF EnterNew, Pushes, ScanReaches, Differs, Record
<1>7. CASE Sampled(times + 1)
  <2>1. slots' = [slots EXCEPT ![num] = Digest[s]] /\ num' = num + 1 /\ num \in Slots
        /\ slots \in [Slots -> Digests \cup {Null, Freed}]
    BY <1>3, <1>5, <1>7, Bounds DEF EnterNew, Pushes, Exact, Counted, Base, TypeOK
  <2>2. slots'[num] = Digest[s] /\ \A i \in 0 .. num - 1 : slots'[i] = slots[i]
    BY <1>5, <2>1, Bounds
  <2>3. SlotOf(times + 1) = num
    BY <1>3, <1>5, <1>7, SampledStep, SampledFinite DEF SlotOf
  <2>4. RecordsAreActive'
    <3>1. ASSUME NEW d \in 1 .. times + 1, Recorded(d) PROVE slots'[SlotOf(d)] = NextDigest(d)
      <4>1. d = times + 1 \/ d \in 1 .. times
        BY <1>3
      <4> QED BY <1>3, <1>5, <2>2, <2>3, <3>1, <4>1
    <3> QED BY <1>3, <3>1 DEF RecordsAreActive, DigestAt, NextDigest, SlotOf, SampledDepths
  <2>5. Owned'
    <3>1. ASSUME NEW i \in 0 .. num
          PROVE  \E d \in 1 .. times + 1 : Recorded(d) /\ SlotOf(d) = i
      <4>1. CASE i = num
        <5>1. times + 1 \in 1 .. times + 1 /\ Recorded(times + 1)
          BY <1>3, <1>7 DEF Recorded
        <5> QED BY <2>3, <4>1, <5>1
      <4>2. CASE i # num
        <5>1. i \in 0 .. num - 1
          BY <1>5, <4>2
        <5>2. PICK d \in 1 .. times : Recorded(d) /\ SlotOf(d) = i
          BY <1>3, <1>4, <5>1 DEF Exact, Owned
        <5> QED BY <1>3, <5>2
      <4> QED BY <4>1, <4>2
    <3> QED BY <1>3, <1>5, <2>1, <3>1 DEF Owned
  <2>6. RevisitIsReported'
    <3>1. ASSUME NEW d \in 1 .. times + 1, Recorded(d), NEW e \in d + 1 .. times + 1
          PROVE  NextDigest(e) # NextDigest(d)
      <4>1. d \in 1 .. times
        BY <1>3
      <4>2. DigestAt(d) # Digest[s]
        BY <1>5, <1>6, <3>1, <4>1
      <4>3. CASE e = times + 1
        BY <1>3, <4>1, <4>2, <4>3
      <4>4. CASE e \in d + 1 .. times
        <5>1. e \in 1 .. times
          BY <1>3, <4>1, <4>4
        <5> QED BY <1>3, <3>1, <4>1, <4>4, <5>1 DEF Exact, RevisitIsReported
      <4> QED BY <1>3, <4>1, <4>3, <4>4
    <3> QED BY <1>3, <3>1 DEF RevisitIsReported, DigestAt, NextDigest
  <2> QED BY <1>2, <1>3, <2>4, <2>5, <2>6 DEF Exact, NeverFaults, ReportIsRevisit
<1>8. CASE ~ Sampled(times + 1)
  <2>1. slots' = slots /\ num' = num /\ ~ Recorded(times + 1)
    BY <1>3, <1>4, <1>8 DEF EnterNew, Pushes, Recorded
  <2>2. RecordsAreActive'
    <3>1. ASSUME NEW d \in 1 .. times + 1, Recorded(d) PROVE slots'[SlotOf(d)] = NextDigest(d)
      <4>1. d \in 1 .. times
        BY <1>3, <2>1, <3>1
      <4> QED BY <1>3, <1>5, <2>1, <3>1, <4>1
    <3> QED BY <1>3, <3>1 DEF RecordsAreActive, DigestAt, NextDigest, SlotOf, SampledDepths
  <2>3. Owned'
    <3>1. ASSUME NEW i \in 0 .. num - 1
          PROVE  \E d \in 1 .. times + 1 : Recorded(d) /\ SlotOf(d) = i
      <4>1. PICK d \in 1 .. times : Recorded(d) /\ SlotOf(d) = i
        BY <1>3, <1>4, <3>1 DEF Exact, Owned
      <4> QED BY <1>3, <4>1
    <3> QED BY <1>3, <2>1, <3>1 DEF Owned
  <2>4. RevisitIsReported'
    <3>1. ASSUME NEW d \in 1 .. times + 1, Recorded(d), NEW e \in d + 1 .. times + 1
          PROVE  NextDigest(e) # NextDigest(d)
      <4>1. d \in 1 .. times
        BY <1>3
      <4>2. DigestAt(d) # Digest[s]
        BY <1>5, <1>6, <3>1, <4>1
      <4>3. CASE e = times + 1
        BY <1>3, <4>1, <4>2, <4>3
      <4>4. CASE e \in d + 1 .. times
        <5>1. e \in 1 .. times
          BY <1>3, <4>1, <4>4
        <5> QED BY <1>3, <3>1, <4>1, <4>4, <5>1 DEF Exact, RevisitIsReported
      <4> QED BY <1>3, <4>1, <4>3, <4>4
    <3> QED BY <1>3, <3>1 DEF RevisitIsReported, DigestAt, NextDigest
  <2> QED BY <1>2, <1>3, <2>2, <2>3, <2>4 DEF Exact, NeverFaults, ReportIsRevisit
<1> QED BY <1>7, <1>8

(* The record the scan stops at is the digest of an active call, so it is  *)
(* neither null nor freed, and a match is a revisit.                       *)
LEMMA ExactEnterStops ==
    ASSUME OneRecursion, Roomy, Exact, NEW s \in States, EnterReport(s) \/ EnterFault(s)
    PROVE  Exact'
<1>1. Enter(s)
  BY DEF Enter
<1>2. Counted' /\ Shape'
  BY <1>1, CountedEnter, EnterShape DEF Exact
<1>3. /\ status = "running" /\ times \in Nat /\ times' = times + 1 /\ Len(frames') = times'
      /\ NextDigest(times + 1) = Digest[s]
      /\ \A d \in 1 .. times : NextDigest(d) = DigestAt(d)
  BY <1>1, EnterShape
<1>4. times > 0
  BY <1>3 DEF EnterReport, EnterFault, FirstRecord
<1>5. /\ num \in Nat /\ num < Cap
      /\ \A d \in 1 .. times : DigestAt(d) \in Digests
      /\ \A i \in 0 .. num - 1 : \E d \in 1 .. times : Recorded(d) /\ slots[i] = DigestAt(d)
  BY <1>3, <1>4, RecordFacts
<1>6. \A i \in 0 .. num - 1 : Record(i) = slots[i] /\ slots[i] \in Digests
  BY <1>5, Bounds DEF Record
<1>7. ~ EnterFault(s)
  BY <1>6, PointerValues DEF EnterFault, Faults
<1>8. status' = "reported" /\ \E i \in 0 .. num - 1 : slots[i] = Digest[s]
  BY <1>6, <1>7, PointerValues DEF EnterReport, Matches
<1>9. PICK d \in 1 .. times : Recorded(d) /\ DigestAt(d) = Digest[s]
  BY <1>5, <1>8
<1>10. ReportIsRevisit'
  <2>1. d \in 1 .. Len(frames') - 1 /\ NextDigest(d) = NextDigest(Len(frames'))
    BY <1>3, <1>9
  <2> QED BY <1>9, <2>1 DEF ReportIsRevisit, Recorded, DigestAt, NextDigest
<1> QED BY <1>2, <1>8, <1>10 DEF Exact, RecordsAreActive, Owned, NeverFaults, RevisitIsReported

LEMMA ExactCheckReturn ==
    ASSUME OneRecursion, Roomy, Exact, CheckReturn
    PROVE  Exact'
<1>1. Counted' /\ TypeOK
  BY CountedCheckReturn DEF Exact, Counted, Base
<1>2. status = "running" /\ times' = times - 1 /\ frames # << >> /\ Innermost.phase = "body"
  BY DEF CheckReturn, OneRecordLess
<1>3. /\ Len(frames) \in Nat \ {0} /\ Len(frames') = Len(frames)
      /\ \A i \in 1 .. Len(frames) - 1 : frames'[i] = frames[i]
      /\ \A i \in 1 .. Len(frames) : frames'[i].state = frames[i].state
      /\ frames'[Len(frames)].phase = "return"
  BY <1>1, CheckReturnActive
<1>4. times = Len(frames) /\ times > 0
  BY <1>2, <1>3 DEF Exact, Shape
<1>5. Shape'
  <2>1. frames' # << >>
    BY <1>3
  <2> QED BY <1>2, <1>3, <1>4, <2>1 DEF Exact, Shape
<1>6. \A d \in 1 .. times : NextDigest(d) = DigestAt(d)
  BY <1>3, <1>4 DEF DigestAt, NextDigest
<1>7. /\ times \in Nat /\ num \in Nat \ {0} /\ num < Cap
      /\ num = 1 + Cardinality(SampledDepths(times))
      /\ \A d \in 1 .. times : DigestAt(d) \in Digests
      /\ \A d \in 1 .. times : Recorded(d) => slots[SlotOf(d)] = DigestAt(d)
  BY <1>2, <1>4, RecordFacts
<1>8. times - 1 \in Nat /\ times - 1 + 1 = times
  BY <1>4, <1>7
<1>9. /\ Cardinality(SampledDepths(times - 1)) \in Nat
      /\ num = 1 + Cardinality(SampledDepths(times - 1)) + (IF Sampled(times) THEN 1 ELSE 0)
  BY <1>7, <1>8, SampledStep, SampledFinite
<1>10. /\ num' = num - (IF Sampled(times) THEN 1 ELSE 0)
       /\ \A i \in 0 .. num' - 1 : slots'[i] = slots[i]
       /\ status' = "running"
  <2>1. CASE Sampled(times)
    <3>1. num' = num - 1 /\ num - 1 \in Slots /\ Pops
          /\ slots' = [slots EXCEPT ![num - 1] = IF @ = Null THEN Null ELSE Freed]
      BY <1>7, <2>1, Bounds, PopsWhereSampled DEF CheckReturn, OneRecordLess, Pops
    <3>2. SlotOf(times) = num - 1 /\ Recorded(times) /\ times \in 1 .. times
      <4>1. Cardinality(SampledDepths(times)) \in Nat
        BY <1>7, SampledFinite
      <4>2. SlotOf(times) = num - 1
        BY <1>7, <4>1 DEF SlotOf
      <4>3. Recorded(times)
        BY <2>1 DEF Recorded
      <4> QED BY <1>4, <1>7, <4>2, <4>3
    <3>3. slots[num - 1] # Freed
      BY <1>7, <3>2, PointerValues
    <3>4. \A i \in 0 .. num - 2 : slots'[i] = slots[i]
      BY <1>1, <1>7, <3>1, Bounds DEF TypeOK
    <3> QED BY <1>7, <2>1, <3>1, <3>3, <3>4 DEF CheckReturn, OneRecordLess
  <2>2. CASE ~ Sampled(times)
    BY <1>2, <1>7, <2>2, PopsWhereSampled DEF CheckReturn, OneRecordLess, Pops
  <2> QED BY <2>1, <2>2
<1>11. RecordsAreActive'
  <2>1. ASSUME NEW d \in 1 .. times - 1, Recorded(d) PROVE slots'[SlotOf(d)] = NextDigest(d)
    <3>1. d \in Nat /\ d <= times - 1 /\ d \in 1 .. times
      BY <1>8
    <3>2. SlotOf(d) \in Nat /\ SlotOf(d) <= Cardinality(SampledDepths(times - 1))
      BY <1>8, <3>1, SampledMonotone, SampledFinite DEF SlotOf
    <3>3. SlotOf(d) \in 0 .. num' - 1
      BY <1>9, <1>10, <3>2
    <3> QED BY <1>6, <1>7, <1>10, <2>1, <3>1, <3>3
  <2> QED BY <1>2, <2>1 DEF RecordsAreActive, DigestAt, NextDigest, SlotOf, SampledDepths
<1>12. Owned'
  <2>1. ASSUME times - 1 > 0, NEW i \in 0 .. num' - 1
        PROVE  \E d \in 1 .. times - 1 : Recorded(d) /\ SlotOf(d) = i
    <3>1. i \in 0 .. num - 1
      BY <1>7, <1>10
    <3>2. PICK d \in 1 .. times : Recorded(d) /\ SlotOf(d) = i
      BY <1>2, <1>4, <3>1 DEF Exact, Owned
    <3>3. d # times
      <4>1. CASE Sampled(times)
        <5>1. SlotOf(times) = num - 1
          <6>1. Cardinality(SampledDepths(times)) \in Nat
            BY <1>7, SampledFinite
          <6> QED BY <1>7, <6>1 DEF SlotOf
        <5> QED BY <1>7, <1>10, <3>2, <4>1, <5>1
      <4>2. CASE ~ Sampled(times)
        BY <1>8, <2>1, <3>2, <4>2 DEF Recorded
      <4> QED BY <4>1, <4>2
    <3>4. d \in 1 .. times - 1
      BY <1>8, <3>3
    <3> QED BY <3>2, <3>4
  <2> QED BY <1>2, <2>1 DEF Owned
<1>13. RevisitIsReported'
  <2>1. ASSUME NEW d \in 1 .. times - 1, Recorded(d), NEW e \in d + 1 .. times - 1
        PROVE  NextDigest(e) # NextDigest(d)
    <3>1. d \in 1 .. times /\ e \in 1 .. times /\ e \in d + 1 .. times
      BY <1>8
    <3> QED BY <1>2, <1>6, <2>1, <3>1 DEF Exact, RevisitIsReported
  <2> QED BY <1>2, <2>1 DEF RevisitIsReported, DigestAt, NextDigest
<1> QED BY <1>1, <1>5, <1>10, <1>11, <1>12, <1>13 DEF Exact, NeverFaults, ReportIsRevisit

LEMMA ExactReturn ==
    ASSUME OneRecursion, Roomy, Exact, Return
    PROVE  Exact'
<1>1. UNCHANGED <<times, num, slots, starts, status>> /\ status = "running"
      /\ frames # << >> /\ Innermost.phase = "return"
  BY DEF Return
<1>2. /\ Len(frames) \in Nat \ {0} /\ Len(frames') = Len(frames) - 1
      /\ \A i \in 1 .. Len(frames) - 1 : frames'[i] = frames[i]
  BY ReturnActive DEF Exact, Counted, Base
<1>3. times = Len(frames) - 1
  BY <1>1 DEF Exact, Shape
<1>4. \A d \in 1 .. times : NextDigest(d) = DigestAt(d)
  BY <1>2, <1>3 DEF DigestAt, NextDigest
<1>5. Shape'
  <2>1. \A i \in 1 .. Len(frames') : frames'[i].phase = "body"
    BY <1>2 DEF Exact, Shape
  <2>2. frames' # << >> => Len(frames') \in 1 .. Len(frames')
    <3>1. frames' \in Seq(FrameSet)
      BY ReturnActive DEF Exact, Counted, Base
    <3> QED BY <1>2, <3>1
  <2> QED BY <1>1, <1>2, <1>3, <2>1, <2>2 DEF Shape
<1>6. Counted'
  BY CountedNext DEF Exact, Next
<1>7. RecordsAreActive' /\ RevisitIsReported'
  <2>1. \A d \in 1 .. times : Recorded(d) => slots[SlotOf(d)] = NextDigest(d)
    BY <1>1, <1>4 DEF Exact, RecordsAreActive
  <2>2. ASSUME NEW d \in 1 .. times, Recorded(d), NEW e \in d + 1 .. times
        PROVE  NextDigest(e) # NextDigest(d)
    <3>1. e \in 1 .. times
      BY <1>2, <1>3
    <3> QED BY <1>1, <1>4, <2>2, <3>1 DEF Exact, RevisitIsReported
  <2> QED BY <1>1, <2>1, <2>2 DEF RecordsAreActive, RevisitIsReported, DigestAt, NextDigest, SlotOf, SampledDepths
<1>8. Owned'
  BY <1>1 DEF Exact, Owned
<1> QED BY <1>1, <1>5, <1>6, <1>7, <1>8 DEF Exact, NeverFaults, ReportIsRevisit

LEMMA ExactNext == OneRecursion /\ Roomy /\ Exact /\ [Next]_vars => Exact'
<1> SUFFICES ASSUME OneRecursion, Roomy, Exact, [Next]_vars PROVE Exact'
  OBVIOUS
<1>1. ASSUME NEW s \in States, Enter(s) PROVE Exact'
  BY <1>1, ExactEnterFirst, ExactEnterNew, ExactEnterStops DEF Enter
<1>2. CASE CheckReturn
  BY <1>2, ExactCheckReturn
<1>3. CASE Return
  BY <1>3, ExactReturn
<1>4. CASE Exit
  <2>1. Counted'
    BY CountedNext DEF Exact
  <2>2. Shape'
    BY <1>4 DEF Exit, Exact, Shape
  <2> QED BY <1>4, <2>1, <2>2 DEF Exit, Exact, RecordsAreActive, Owned, NeverFaults,
                                 ReportIsRevisit, RevisitIsReported, DigestAt
<1>5. CASE UNCHANGED vars
  <2>1. Counted'
    BY CountedNext DEF Exact
  <2>2. frames' = frames
    BY <1>5 DEF vars
  <2> QED BY SMTT(30), <1>5, <2>1, <2>2 DEF vars, Exact, Shape, RecordsAreActive, Owned, NeverFaults,
                                 ReportIsRevisit, RevisitIsReported, DigestAt
<1> QED BY <1>1, <1>2, <1>3, <1>4, <1>5 DEF Next, Stopped, Unwind, OneRecursion

LEMMA ExactAlways == OneRecursion /\ Roomy => (Spec => []Exact)
<1> SUFFICES ASSUME OneRecursion, Roomy PROVE Spec => []Exact
  OBVIOUS
<1>1. Exact /\ [Next]_vars => Exact'
  BY ExactNext
<1> QED BY <1>1, ExactInit, PTL DEF Spec

(* The array holds the digests of the active recorded calls.               *)
THEOREM RecordsAlwaysActive == OneRecursion /\ Roomy => (Spec => []RecordsAreActive)
<1> SUFFICES ASSUME OneRecursion, Roomy PROVE Spec => []RecordsAreActive
  OBVIOUS
<1>1. Exact => RecordsAreActive
  BY DEF Exact
<1> QED BY <1>1, ExactAlways, PTL

(* The oracle reads nothing but records and frees none twice.              *)
THEOREM OracleNeverFaults == OneRecursion /\ Roomy => (Spec => []NeverFaults)
<1> SUFFICES ASSUME OneRecursion, Roomy PROVE Spec => []NeverFaults
  OBVIOUS
<1>1. Exact => NeverFaults
  BY DEF Exact
<1> QED BY <1>1, ExactAlways, PTL

(* No false report.                                                        *)
THEOREM ReportsAreRevisits == OneRecursion /\ Roomy => (Spec => []ReportIsRevisit)
<1> SUFFICES ASSUME OneRecursion, Roomy PROVE Spec => []ReportIsRevisit
  OBVIOUS
<1>1. Exact => ReportIsRevisit
  BY DEF Exact
<1> QED BY <1>1, ExactAlways, PTL

(* No revisit of a recorded call goes unreported.                          *)
THEOREM RevisitsAreReported == OneRecursion /\ Roomy => (Spec => []RevisitIsReported)
<1> SUFFICES ASSUME OneRecursion, Roomy PROVE Spec => []RevisitIsReported
  OBVIOUS
<1>1. Exact => RevisitIsReported
  BY DEF Exact
<1> QED BY <1>1, ExactAlways, PTL

-----------------------------------------------------------------------------
(* Whatever the program does, and however full the array is.  As long as   *)
(* there is room, records and starts balance, and the slots from the       *)
(* starts on hold digests: a pop frees one of those.  Once the array is    *)
(* full nothing is pushed or popped any more.                              *)
Owed(t) == Cardinality(SampledDepths(t))

Poppable ==
    /\ Base
    /\ times > 0 => starts >= 1
    /\ status = "running" /\ num < Cap =>
          /\ num = starts + Owed(times)
          /\ \A i \in Slots : starts <= i /\ i < num => slots[i] \in Digests

LEMMA OwedStep ==
    ASSUME NEW t \in Nat
    PROVE  /\ Owed(t) \in Nat
           /\ Owed(t + 1) = Owed(t) + (IF Sampled(t + 1) THEN 1 ELSE 0)
           /\ Owed(0) = 0 /\ Owed(1) = 0
BY SampledFinite, SampledStep, FirstNotSampled DEF Owed

LEMMA PoppableInit == Init => Poppable
<1> SUFFICES ASSUME Init PROVE Poppable
  OBVIOUS
<1>1. times = 0 /\ num = 0 /\ starts = 0
  BY DEF Init
<1> QED BY <1>1, BaseInit, OwedStep DEF Poppable, Slots

LEMMA PoppableEnter ==
    ASSUME Poppable, NEW s \in States, Enter(s)
    PROVE  Poppable'
<1>1. Enters(s) /\ status = "running"
  BY DEF Enter, EnterFirst, EnterReport, EnterFault, EnterNew, Pushes, Enters
<1>2. /\ times' = times + 1
      /\ times = 0 => starts' = starts + 1
      /\ times # 0 => starts' = starts
  BY <1>1 DEF Enters
<1>3. /\ times \in Nat /\ num \in Nat /\ starts \in Nat /\ Cap \in Nat
      /\ slots \in [Slots -> Digests \cup {Null, Freed}]
      /\ Digest[s] \in Digests
  BY Bounds, DigestTotal DEF Poppable, Base, TypeOK
<1>4. Base' /\ (times' > 0 => starts' >= 1)
  BY <1>2, <1>3, BaseEnter DEF Poppable
<1>5. ASSUME status' = "running", num' < Cap
      PROVE  /\ num' = starts' + Owed(times')
             /\ \A i \in Slots : starts' <= i /\ i < num' => slots'[i] \in Digests
  <2>1. CASE EnterFirst(s)
    <3>1. num' = num + 1 /\ num < Cap
      BY <1>3, <1>5, <2>1 DEF EnterFirst
    <3>2. num = starts + Owed(times)
      BY <1>1, <3>1 DEF Poppable
    <3>3. times = 0
      BY <1>2, <1>3, <2>1, <3>2, OwedStep DEF EnterFirst, FirstRecord, Poppable
    <3>4. num = starts /\ starts' = starts + 1 /\ times' = 1
      BY <1>2, <1>3, <3>2, <3>3, OwedStep
    <3> QED BY <1>3, <3>1, <3>4, OwedStep DEF Slots
  <2>2. CASE EnterReport(s) \/ EnterFault(s)
    BY <1>5, <2>2 DEF EnterReport, EnterFault
  <2>3. CASE EnterNew(s)
    <3>1. times # 0 /\ starts' = starts
      BY <1>2, <2>3 DEF EnterNew, Pushes, FirstRecord
    <3>2. num < Cap
      BY <1>3, <1>5, <2>3 DEF EnterNew, Pushes
    <3>3. /\ num = starts + Owed(times)
          /\ \A i \in Slots : starts <= i /\ i < num => slots[i] \in Digests
      BY <1>1, <3>2 DEF Poppable
    <3>4. CASE Sampled(times + 1)
      <4>1. num' = num + 1 /\ slots' = [slots EXCEPT ![num] = Digest[s]]
        BY <1>2, <2>3, <3>2, <3>4 DEF EnterNew, Pushes
      <4>2. num' = starts' + Owed(times')
        <5>1. times' = times + 1 /\ Owed(times + 1) = Owed(times) + 1 /\ Owed(times) \in Nat
          BY <1>2, <1>3, <3>4, OwedStep
        <5> QED BY <1>3, <3>1, <3>3, <4>1, <5>1
      <4> QED BY <1>3, <3>1, <3>3, <4>1, <4>2 DEF Slots
    <3>5. CASE ~ Sampled(times + 1)
      <4>1. num' = num /\ slots' = slots
        BY <1>2, <2>3, <3>5 DEF EnterNew, Pushes
      <4> QED BY <1>2, <1>3, <3>1, <3>3, <3>5, <4>1, OwedStep
    <3> QED BY <3>4, <3>5
  <2> QED BY <2>1, <2>2, <2>3 DEF Enter
<1> QED BY <1>4, <1>5 DEF Poppable

(* A pop finds a digest: the sampled depth it leaves is counted.           *)
LEMMA PopFindsDigest ==
    ASSUME Poppable, status = "running", times >= 1, Pops
    PROVE  num - 1 \in Slots /\ starts <= num - 1 /\ slots[num - 1] \in Digests
<1>1. num < Cap /\ Sampled(times) /\ num >= 1
  BY PopsWhereSampled DEF Pops
<1>2. times \in Nat /\ num \in Nat /\ starts \in Nat /\ Cap \in Nat /\ times - 1 \in Nat
  BY Bounds DEF Poppable, Base, TypeOK
<1>3. num = starts + Owed(times)
  BY <1>1 DEF Poppable
<1>4. Owed(times) = Owed(times - 1) + 1 /\ Owed(times - 1) \in Nat
  <2>1. times - 1 + 1 = times
    BY <1>2
  <2> QED BY <1>1, <1>2, <2>1, OwedStep
<1>5. num - 1 \in Slots /\ starts <= num - 1 /\ num - 1 < num
  BY <1>1, <1>2, <1>3, <1>4 DEF Slots
<1> QED BY <1>1, <1>5 DEF Poppable

LEMMA BodyIsCounted ==
    ASSUME Base, frames # << >>, Innermost.phase = "body"
    PROVE  times >= 1
<1>1. Len(frames) \in Active
  BY DEF Base, TypeOK, Active, Innermost
<1>2. Cardinality(Active) \in Nat /\ Cardinality(Active) >= 1
  <2>1. IsFiniteSet(Active) /\ Cardinality(Active) \in Nat
    BY ActiveCount DEF Base
  <2>2. Cardinality(Active) # 0
    BY <1>1, <2>1, FS_EmptySet
  <2> QED BY <2>1, <2>2
<1> QED BY <1>2 DEF Base, TypeOK, TimesCoversDepth

LEMMA PoppableCheckReturn ==
    ASSUME Poppable, CheckReturn
    PROVE  Poppable'
<1>1. status = "running" /\ times' = times - 1 /\ starts' = starts
  BY DEF CheckReturn, OneRecordLess
<1>2. times >= 1
  BY BodyIsCounted DEF Poppable, CheckReturn, OneRecordLess
<1>3. /\ times \in Nat /\ num \in Nat /\ starts \in Nat /\ Cap \in Nat /\ times - 1 \in Nat
      /\ slots \in [Slots -> Digests \cup {Null, Freed}]
  BY <1>2, Bounds DEF Poppable, Base, TypeOK
<1>4. Base'
  BY BaseCheckReturn DEF Poppable
<1>5. Owed(times) = Owed(times - 1) + (IF Sampled(times) THEN 1 ELSE 0)
      /\ Owed(times - 1) \in Nat
  <2>1. times - 1 + 1 = times
    BY <1>3
  <2> QED BY <1>3, <2>1, OwedStep
<1>6. ASSUME num' < Cap
      PROVE  /\ num' = starts' + Owed(times')
             /\ \A i \in Slots : starts' <= i /\ i < num' => slots'[i] \in Digests
  <2>1. CASE Pops
    <3>1. num' = num - 1 /\ Sampled(times) /\ num < Cap
      BY <2>1, PopsWhereSampled DEF CheckReturn, OneRecordLess, Pops
    <3>2. \A i \in Slots : i # num - 1 => slots'[i] = slots[i]
      BY <1>3, <2>1 DEF CheckReturn, OneRecordLess
    <3> QED BY SMTT(30), <1>1, <1>3, <1>5, <3>1, <3>2 DEF Poppable, Slots
  <2>2. CASE ~ Pops
    <3>1. num' = num /\ slots' = slots
      BY <2>2 DEF CheckReturn, OneRecordLess
    <3>2. num = starts + Owed(times)
      BY <1>1, <1>6, <3>1 DEF Poppable
    <3>3. ~ Sampled(times)
      BY <1>3, <1>5, <1>6, <2>2, <3>1, <3>2, PopsWhereSampled DEF Pops
    <3> QED BY <1>1, <1>5, <1>6, <3>1, <3>2, <3>3 DEF Poppable
  <2> QED BY <2>1, <2>2
<1>7. times' > 0 => starts' >= 1
  BY <1>1, <1>3 DEF Poppable
<1> QED BY <1>4, <1>6, <1>7 DEF Poppable

LEMMA PoppableNext == Poppable /\ [Next]_vars => Poppable'
<1> SUFFICES ASSUME Poppable, [Next]_vars PROVE Poppable'
  OBVIOUS
<1>1. ASSUME NEW s \in States, Enter(s) PROVE Poppable'
  BY <1>1, PoppableEnter
<1>2. CASE CheckReturn
  BY <1>2, PoppableCheckReturn
<1>3. ASSUME Return \/ (\E k \in 0 .. MaxDepth : Unwind(k)) \/ Exit \/ UNCHANGED vars
      PROVE  Poppable'
  <2>1. UNCHANGED <<times, num, starts, slots>> /\ (status' = "running" => status = "running")
    BY <1>3 DEF Return, Unwind, Exit, vars
  <2>2. Base'
    BY BaseNext DEF Poppable
  <2>3. Owed(times)' = Owed(times)
    BY <2>1 DEF Owed, SampledDepths
  <2> QED BY <2>1, <2>2, <2>3 DEF Poppable
<1> QED BY <1>1, <1>2, <1>3 DEF Next, Stopped

LEMMA PoppableAlways == Spec => []Poppable
BY PoppableInit, PoppableNext, PTL DEF Spec

(* Every pop frees a record that was pushed and not freed since, in every  *)
(* program, with longjmp and calls from return blocks, and also after the  *)
(* array has filled up.                                                    *)
THEOREM PopsFreeRecords == Spec => []PopFreesRecord
<1>1. Poppable => PopFreesRecord
  BY BodyIsCounted, PopFindsDigest DEF Poppable, PopFreesRecord
<1> QED BY <1>1, PoppableAlways, PTL

ReturnNeverFaults == [][CheckReturn => status' = "running"]_vars

(* The return check therefore never frees a record twice: where the oracle *)
(* makes the process fault, it is _entryCheck that does.                   *)
THEOREM ReturnsNeverFault == Spec => ReturnNeverFaults
<1>1. Poppable /\ [Next]_vars => [CheckReturn => status' = "running"]_vars
  <2> SUFFICES ASSUME Poppable, CheckReturn PROVE status' = "running"
    OBVIOUS
  <2>1. status = "running" /\ times >= 1
    BY BodyIsCounted DEF Poppable, CheckReturn, OneRecordLess
  <2>2. CASE Pops
    <3>1. slots[num - 1] # Freed
      BY <2>1, <2>2, PopFindsDigest, PointerValues
    <3> QED BY <2>2, <3>1 DEF CheckReturn, OneRecordLess
  <2> QED BY <2>1, <2>2 DEF CheckReturn, OneRecordLess
<1> QED BY <1>1, PoppableAlways, PTL DEF Spec, ReturnNeverFaults
=============================================================================
