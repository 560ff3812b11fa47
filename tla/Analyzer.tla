-------------------------------- MODULE Analyzer --------------------------------
(***************************************************************************)
(* afl-analyze: every byte of a test case is changed in four ways; from the  *)
(* answers of the target analyze() decides what the byte is and where fields *)
(* end, and dump_hex puts runs of bytes together and names them.            *)
(*                                                                         *)
(* A reply of the target is how the run ended and which trace it left; the     *)
(* answer run_target makes of it is a number.                               *)
(***************************************************************************)
EXTENDS Integers, SequencesExt, FiniteSetsExt

CONSTANTS
    Samples,            \* test cases: data, the reply to it, and those to the four changes of each byte
    LongRun             \* MAX_AUTO_EXTRA

ASSUME SamplesTyped ==
    \A s \in Samples :
        /\ s.data \in Seq(0 .. 255) /\ Len(s.data) >= 1
        /\ \A j \in 1 .. Len(s.data), c \in 1 .. 4 :
              s.replies[j][c].end \in {"hang", "failed", "ok"} /\ s.replies[j][c].trace \in Int

VARIABLES
    sample,
    origCksum,          \* orig_cksum
    inData,             \* in_data
    inPhase,            \* "first", "adjust", "dump", "done", "aborted", "fatal"
    anAt,               \* i
    answers,            \* xor_ff, xor_01, sub_10, add_10, as far as they are known
    prev,               \* prev_xff, ...
    seqBit,             \* seq_byte
    bData,              \* b_data: kind and sequence bit of each byte
    runs                \* the runs printed: at (from 0), length, kind

anVars == <<sample, origCksum, inData, inPhase, anAt, answers, prev, seqBit, bData, runs>>

NoEffect == 0
Minor == 1
Variable == 2
Fixed == 3
LengthField == 4
Checksum == 5
Suspect == 6

AnInit ==
    /\ sample \in Samples
    /\ inData = sample.data /\ origCksum = 0
    /\ inPhase = "first"
    /\ anAt = 0 /\ answers = << >> /\ prev = <<0, 0, 0, 0>> /\ seqBit = FALSE
    /\ bData = << >> /\ runs = << >>

-----------------------------------------------------------------------------
(* run_target: 0 for a hang, else the checksum of the trace, inverted when the  *)
(* run crashed or failed.                                                    *)
Answer(reply) ==
    CASE reply.end = "hang" -> 0
      [] reply.end = "failed" -> -reply.trace
      [] reply.end = "ok" -> reply.trace

(* A hang in the first run, or a trace without a hit, ends the tool. *)
FirstRun ==
    /\ inPhase = "first"
    /\ IF sample.first.end = "hang" \/ sample.first.trace = 0
       THEN inPhase' = "fatal" /\ UNCHANGED origCksum
       ELSE inPhase' = "adjust" /\ origCksum' = Answer(sample.first)
    /\ UNCHANGED <<sample, inData, anAt, answers, prev, seqBit, bData, runs>>

(* The changes are made one on top of the other: ^ 0xff, then ^ 0xfe, then     *)
(* ^ 0x01 and - 0x10, then + 0x20, which the end takes back.                 *)
Not8(x) == 255 - x
FlipLow(x) == IF x % 2 = 0 THEN x + 1 ELSE x - 1
Altered(x, step) ==
    CASE step = 1 -> Not8(x)
      [] step = 2 -> FlipLow(Not8(x))
      [] step = 3 -> (FlipLow(x) - 16) % 256
      [] step = 4 -> (x + 32) % 256

Adjust ==
    /\ inPhase = "adjust"
    /\ anAt < Len(inData)
    /\ Len(answers) < 4
    /\ inData' = [inData EXCEPT ![anAt + 1] =
                    LET to == Altered(@, Len(answers) + 1) IN IF Len(answers) = 3 THEN (to - 16) % 256 ELSE to]
    /\ answers' = Append(answers, Answer(sample.replies[anAt + 1][Len(answers) + 1]))
    /\ UNCHANGED <<sample, origCksum, inPhase, anAt, prev, seqBit, bData, runs>>

(* Ctrl-C, seen after a run; or a run that could not be started *)
Aborted ==
    /\ inPhase \in {"first", "adjust"}
    /\ inPhase' \in {"aborted", "fatal"}
    /\ UNCHANGED <<sample, origCksum, inData, anAt, answers, prev, seqBit, bData, runs>>

KindOf(a) ==
    CASE \A k \in 1 .. 4 : a[k] = origCksum -> NoEffect
      [] (\E k \in 1 .. 4 : a[k] = origCksum) /\ ~(\A k \in 1 .. 4 : a[k] = origCksum) -> Minor
      [] (\A k \in 1 .. 4 : a[k] # origCksum) /\ a[2] = a[1] /\ a[3] = a[1] /\ a[4] = a[1] -> Fixed
      [] OTHER -> Variable

\* fault: one change that is answered anew ends the field
NewFieldOnAny(a, before) == \E k \in 1 .. 4 : a[k] # before[k]
NewField(a, before) == \A k \in 1 .. 4 : a[k] # before[k]

ClassifyByte ==
    /\ inPhase = "adjust"
    /\ Len(answers) = 4
    /\ LET bit == IF NewField(answers, prev) THEN ~seqBit ELSE seqBit IN
       /\ seqBit' = bit
       /\ bData' = Append(bData, [kind |-> KindOf(answers), bit |-> bit])
    /\ prev' = answers
    /\ answers' = << >>
    /\ anAt' = anAt + 1
    /\ UNCHANGED <<sample, origCksum, inData, inPhase, runs>>

BeginDump ==
    /\ inPhase = "adjust"
    /\ anAt = Len(inData)
    /\ inPhase' = "dump"
    /\ anAt' = 0
    /\ UNCHANGED <<sample, origCksum, inData, answers, prev, seqBit, bData, runs>>

-----------------------------------------------------------------------------
(* dump_hex *)

RunLength(i) ==
    Max({n \in 1 .. Len(bData) - i : \A j \in i + 1 .. i + n : bData[j].bit = bData[i + 1].bit})

LittleEndian(bytes) == FoldRight(LAMBDA b, w : w * 256 + b, bytes, 0)       \* little endian
Field(i, n) == SubSeq(inData, i + 1, i + n)
IsLength(i, n) ==
    /\ LittleEndian(Field(i, n)) # 0
    /\ LittleEndian(Field(i, n)) <= Len(inData) \/ LittleEndian(Reverse(Field(i, n))) <= Len(inData)

Apart(i, n) ==
    IF n = 2 THEN inData[i + 1] - inData[i + 2] \notin -32 .. 32
    ELSE \E j \in 2 .. 4 : inData[i + 1] \div 128 # inData[i + j] \div 128

FixedKind(i, n) ==
    CASE n \in {2, 4} /\ IsLength(i, n) -> LengthField
      [] n \in {2, 4} /\ ~IsLength(i, n) -> IF LittleEndian(Field(i, n)) # 0 /\ Apart(i, n) THEN Checksum ELSE Fixed
      [] n \in {1, 3} \cup 5 .. LongRun - 1 -> Fixed
      [] OTHER -> Suspect

DumpRun ==
    /\ inPhase = "dump"
    /\ anAt < Len(bData)
    /\ LET n == RunLength(anAt)
           kind == Max({bData[j].kind : j \in anAt + 1 .. anAt + n})
       IN  /\ runs' = Append(runs, [at |-> anAt, len |-> n,
                                    kind |-> IF kind = Fixed THEN FixedKind(anAt, n) ELSE kind])
           /\ anAt' = anAt + n
    /\ UNCHANGED <<sample, origCksum, inData, inPhase, answers, prev, seqBit, bData>>

EndDump ==
    /\ inPhase = "dump"
    /\ anAt = Len(bData)
    /\ inPhase' = "done"
    /\ UNCHANGED <<sample, origCksum, inData, anAt, answers, prev, seqBit, bData, runs>>

AnNext == FirstRun \/ Adjust \/ Aborted \/ ClassifyByte \/ BeginDump \/ DumpRun \/ EndDump

(* a sequential program whose runs end, by its timer if need be *)
AnSpec == AnInit /\ [][AnNext]_anVars /\ WF_anVars(AnNext)

-----------------------------------------------------------------------------
(* Properties. *)

AnswersTo(j) == [c \in 1 .. 4 |-> Answer(sample.replies[j][c])]

(* RunsAreFields: what afl-analyze prints is about the input it was given, each *)
(* byte of it in one run; a run ends exactly where no change of the two bytes   *)
(* beside the border is answered alike; and a run is called a magic value, a    *)
(* length, a checksum or a suspect block only if it has a byte all of whose     *)
(* changes are answered alike, and not like the input.                         *)
RunsAreFields ==
    inPhase = "done" =>
        /\ inData = sample.data
        /\ \A k \in DOMAIN runs : runs[k].at = IF k = 1 THEN 0 ELSE runs[k - 1].at + runs[k - 1].len
        /\ Last(runs).at + Last(runs).len = Len(inData)
        /\ \A j \in 2 .. Len(inData) :
              (\E k \in DOMAIN runs : runs[k].at = j - 1)
                <=> \A c \in 1 .. 4 : AnswersTo(j)[c] # AnswersTo(j - 1)[c]
        /\ \A k \in DOMAIN runs : runs[k].kind >= Fixed =>
              \E j \in runs[k].at + 1 .. runs[k].at + runs[k].len :
                  Cardinality(Range(AnswersTo(j))) = 1 /\ origCksum \notin Range(AnswersTo(j))

(* analyze() ends: every adjustment is one run, and every run has its timer. *)
AnalysisEnds == <>(inPhase \in {"done", "aborted", "fatal"})

(* The changes of a byte are taken back, whatever the four answers were. *)
AnTypeOK ==
    /\ Len(bData) <= Len(inData) /\ anAt \in 0 .. Len(inData)
    /\ (answers = << >> /\ inPhase \notin {"aborted", "fatal"}) => inData = sample.data
    /\ \A k \in DOMAIN inData : inData[k] \in 0 .. 255
=============================================================================
