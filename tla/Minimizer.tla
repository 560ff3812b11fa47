------------------------------- MODULE Minimizer -------------------------------
(***************************************************************************)
(* afl-tmin: minimize() shortens and simplifies a test case as long as the  *)
(* target behaves as it did in the first run.  What the target does with an *)
(* input is decided when it is first run; if it is flaky, at every run.     *)
(*                                                                         *)
(* The phases share one shape: at a position they propose a mutant, leave   *)
(* it out as pointless or run it, and take it over if it is good.           *)
(***************************************************************************)
EXTENDS Integers, SequencesExt

CONSTANTS
    Cases,              \* the test cases: data and whether the target is flaky
    SetSteps, SetMinSize,   \* TMIN_SET_STEPS, TMIN_SET_MIN_SIZE
    StartSteps          \* TRIM_START_STEPS

ASSUME CasesTyped ==
    /\ \A c \in Cases : c.data \in Seq(0 .. 255)
    /\ SetSteps \in Nat \ {0} /\ SetMinSize \in Nat \ {0} /\ StartSteps \in Nat \ {0}

VARIABLES
    data,               \* in_data and in_len
    flaky,
    exact,              \* AFL_TMIN_EXACT
    crashMode,          \* crash_mode
    phase,
    at,                 \* set_pos, del_pos, i
    blockLen,           \* set_len, del_len
    prevDel,            \* prev_del
    symbols,            \* what is left of alpha_map
    changed,            \* changed_any
    pass,               \* cur_pass is 1, or more
    known,              \* history: the mutants run, and whether they were good
    outFile             \* the file out_file

minVars == <<data, flaky, exact, crashMode, phase, at, blockLen, prevDel, symbols, changed, pass, known, outFile>>

Zero == 48              \* '0'
NoFile == <<-1>>           \* no data

(* doubled as often as needed, which is n times at most *)
NextP2(n) ==
    LET ret[k \in 0 .. n] == IF k = 0 THEN 1 ELSE IF n > ret[k - 1] THEN 2 * ret[k - 1] ELSE ret[k - 1]
    IN  ret[n]
BlockLenFor(n) == NextP2(n \div StartSteps)

MinInit ==
    /\ \E c \in Cases : data = c.data /\ flaky = c.flaky
    /\ exact \in BOOLEAN
    /\ crashMode = FALSE
    /\ phase = "dry" /\ at = 0 /\ blockLen = 0 /\ prevDel = FALSE /\ symbols = {}
    /\ changed = FALSE /\ pass = 1
    /\ known = [d \in {data} |-> TRUE]
    /\ outFile = NoFile

-----------------------------------------------------------------------------
(* A run: how it ended, and whether its trace is that of the first run. *)

Outcomes == [status : {"exit", "crash", "hang"}, ownPath : BOOLEAN]

Good(o) ==
    CASE o.status = "hang" -> FALSE
      [] o.status = "crash" -> crashMode /\ (~exact \/ o.ownPath)
      [] o.status = "exit" -> ~crashMode /\ o.ownPath

(* The first run; a timeout, or a trace without a single hit, ends the tool. *)
DryRun ==
    /\ phase = "dry"
    /\ \E o \in Outcomes : \E anySet \in BOOLEAN :
         /\ crashMode' = (o.status = "crash")
         /\ IF o.status = "hang" \/ (o.status = "exit" /\ ~anySet)
            THEN phase' = "fatal" /\ UNCHANGED blockLen
            ELSE /\ phase' = "normalize"
                 /\ blockLen' = LET n == NextP2(Len(data) \div SetSteps)
                                IN  IF n < SetMinSize THEN SetMinSize ELSE n
    /\ UNCHANGED <<data, flaky, exact, at, prevDel, symbols, changed, pass, known, outFile>>

-----------------------------------------------------------------------------
(* What the phases propose. *)

Symbol == CHOOSE s \in symbols : \A t \in symbols : s <= t

Limit == IF phase = "symbols" THEN Cardinality(symbols) ELSE Len(data) - at
AtCandidate == phase \in {"normalize", "delete", "symbols", "characters"} /\ Limit > 0

Proposal ==
    CASE phase = "normalize" -> [k \in DOMAIN data |-> IF k \in at + 1 .. at + blockLen THEN Zero ELSE data[k]]
      [] phase = "delete" -> SubSeq(data, 1, at) \o SubSeq(data, at + blockLen + 1, Len(data))
      [] phase = "symbols" -> [k \in DOMAIN data |-> IF data[k] = Symbol THEN Zero ELSE data[k]]
      [] phase = "characters" -> [data EXCEPT ![at + 1] = Zero]

(* The block equals the one before it, which could not be deleted. *)
SameAsLast ==
    /\ ~prevDel
    /\ Len(data) - at - blockLen > 0
    /\ SubSeq(data, at - blockLen + 1, at) = SubSeq(data, at + 1, at + blockLen)

Pointless ==
    CASE phase \in {"normalize", "characters"} -> Proposal = data
      [] phase = "delete" -> SameAsLast
      [] phase = "symbols" -> FALSE

Advance ==
    /\ at' = CASE phase \in {"normalize", "delete"} -> at + blockLen
               [] phase = "characters" -> at + 1
               [] phase = "symbols" -> at
    /\ symbols' = IF phase = "symbols" THEN symbols \ {Symbol} ELSE symbols

Verdicts ==
    IF ~flaky /\ Proposal \in DOMAIN known THEN {known[Proposal]} ELSE {Good(o) : o \in Outcomes}
Learn(good) ==
    known' = IF flaky THEN known ELSE [d \in DOMAIN known \cup {Proposal} |-> IF d = Proposal THEN good ELSE known[d]]

Skip ==
    /\ AtCandidate
    /\ Pointless
    /\ Advance
    /\ UNCHANGED <<data, flaky, exact, crashMode, phase, blockLen, prevDel, changed, pass, known, outFile>>

Keep ==
    /\ AtCandidate
    /\ ~Pointless
    /\ TRUE \in Verdicts
    /\ Learn(TRUE)
    /\ data' = Proposal
    /\ changed' = TRUE
    /\ IF phase = "delete" THEN prevDel' = TRUE /\ UNCHANGED <<at, symbols>> ELSE Advance /\ UNCHANGED prevDel
    /\ UNCHANGED <<flaky, exact, crashMode, phase, blockLen, pass, outFile>>

Discard ==
    /\ AtCandidate
    /\ ~Pointless
    /\ FALSE \in Verdicts
    /\ Learn(FALSE)
    /\ Advance
    /\ prevDel' = FALSE
    /\ UNCHANGED <<data, flaky, exact, crashMode, phase, blockLen, changed, pass, outFile>>

(* Ctrl-C, seen after a run: what is there so far is written. *)
Interrupted ==
    /\ phase = "dry" \/ (AtCandidate /\ ~Pointless)
    /\ outFile' = data
    /\ phase' = "aborted"
    /\ UNCHANGED <<data, flaky, exact, crashMode, at, blockLen, prevDel, symbols, changed, pass, known>>

-----------------------------------------------------------------------------
(* From phase to phase. *)

\* fault: changed_any is not reset
BeginChanged(n) ==
    /\ phase' = "delete" /\ at' = 0 /\ blockLen' = BlockLenFor(n) /\ prevDel' = TRUE
    /\ UNCHANGED changed
BeginDeletion(n) ==
    /\ phase' = "delete" /\ at' = 0 /\ blockLen' = BlockLenFor(n) /\ prevDel' = TRUE
    /\ changed' = FALSE

EndNormalization ==
    /\ phase = "normalize"
    /\ ~AtCandidate
    /\ BeginDeletion(Len(data))
    /\ UNCHANGED <<data, flaky, exact, crashMode, symbols, pass, known, outFile>>

NextBlockLen ==
    /\ phase = "delete"
    /\ ~AtCandidate
    /\ blockLen > 1 /\ data # << >>
    /\ blockLen' = blockLen \div 2
    /\ at' = 0 /\ prevDel' = TRUE
    /\ UNCHANGED <<data, flaky, exact, crashMode, phase, symbols, changed, pass, known, outFile>>

\* fault: the last deletions are not looked at
FinishesAtOnce == TRUE
Finishes == pass > 1 /\ ~changed

EndDeletion ==
    /\ phase = "delete"
    /\ ~AtCandidate
    /\ blockLen = 1 \/ data = << >>
    /\ IF Finishes THEN phase' = "write" /\ UNCHANGED symbols
       ELSE phase' = "symbols" /\ symbols' = Range(data) \ {Zero}
    /\ UNCHANGED <<data, flaky, exact, crashMode, at, blockLen, prevDel, changed, pass, known, outFile>>

EndSymbols ==
    /\ phase = "symbols"
    /\ ~AtCandidate
    /\ phase' = "characters" /\ at' = 0
    /\ UNCHANGED <<data, flaky, exact, crashMode, blockLen, prevDel, symbols, changed, pass, known, outFile>>

EndCharacters ==
    /\ phase = "characters"
    /\ ~AtCandidate
    /\ IF changed THEN BeginDeletion(Len(data)) /\ pass' = 2
       ELSE phase' = "write" /\ UNCHANGED <<at, blockLen, prevDel, changed, pass>>
    /\ UNCHANGED <<data, flaky, exact, crashMode, symbols, known, outFile>>

Write ==
    /\ phase = "write"
    /\ outFile' = data
    /\ phase' = "done"
    /\ UNCHANGED <<data, flaky, exact, crashMode, at, blockLen, prevDel, symbols, changed, pass, known>>

MinNext ==
    \/ DryRun \/ Skip \/ Keep \/ Discard \/ Interrupted
    \/ EndNormalization \/ NextBlockLen \/ EndDeletion \/ EndSymbols \/ EndCharacters \/ Write

(* a sequential program whose runs end, by its timer if need be *)
MinSpec == MinInit /\ [][MinNext]_minVars /\ WF_minVars(MinNext)

-----------------------------------------------------------------------------
(* Properties. *)

(* Whatever afl-tmin writes, also when it is interrupted, behaves as the       *)
(* original did; and no byte of a finished result can be deleted, although   *)
(* blocks equal to their neighbour are passed over and the last pass ends    *)
(* before the other phases.                                                 *)
ResultIsMinimal ==
    outFile # NoFile /\ ~flaky =>
        /\ known[outFile]
        /\ phase = "done" =>
            \A k \in DOMAIN outFile :
                RemoveAt(outFile, k) \in DOMAIN known /\ ~known[RemoveAt(outFile, k)]

(* minimize() ends, however the target answers: every pass but the first goes  *)
(* on only if it has deleted something.                                     *)
MinimizeEnds == <>(phase \in {"done", "aborted", "fatal"})

MinTypeOK ==
    /\ at \in Nat /\ pass \in {1, 2} /\ outFile \in {NoFile, data}
    /\ phase = "delete" /\ ~prevDel => at >= blockLen
    /\ phase = "delete" => blockLen >= 1
    /\ symbols \subseteq Range(data)
=============================================================================
