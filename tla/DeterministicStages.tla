-------------------------- MODULE DeterministicStages --------------------------
(***************************************************************************)
(* The deterministic stages of fuzz_one on one queue entry: walking flips,  *)
(* the effector map and the tokens collected meanwhile, additions, values   *)
(* of interest, dictionary words.                                           *)
(*                                                                         *)
(* Every stage goes through positions and, at each, through candidates; a   *)
(* candidate is run or left out, and out_buf is put right by the code of    *)
(* the stage.  Abstracted: what a run adds to the queue; its checksum is a  *)
(* reply the scenario fixes for the flips that look at it.                  *)
(***************************************************************************)
EXTENDS AutoDictionary, PerformanceScore

CONSTANTS
    EffMapScale2, EffMinLen, EffMaxPerc,    \* EFF_MAP_SCALE2, EFF_MIN_LEN, EFF_MAX_PERC
    MaxDetExtras,                           \* MAX_DET_EXTRAS
    MaxFile,                                \* MAX_FILE
    Entries         \* the entries fuzzed: data, dict (-x), saved (auto_extras on disk),
                    \* reply (to the flip of the last bit of each byte; "own" is
                    \* exec_cksum), sensitive (bytes whose flip shows), noArith, dumb;
                    \* q (what calculate_score looks at), avgExecUs, avgBitmapSize;
                    \* skipDet: -d, was_fuzzed, passed_det, or another master's share

IsASequence(s) == Len(s) \in Nat /\ DOMAIN s = 1 .. Len(s)

ASSUME EntriesTyped ==
    /\ MaxFile \in Nat
    /\ \A c \in Entries :
          /\ c.data \in Seq(0 .. 255) /\ Len(c.data) \in 1 .. MaxFile
          /\ c.saved \in Seq(Seq(0 .. 255))
          /\ c.dict.kind \in {"none", "file", "directory"}
          /\ c.dict.kind = "file" =>
                /\ IsASequence(c.dict.lines)
                /\ \A k \in DOMAIN c.dict.lines : IsASequence(c.dict.lines[k].pieces)
          /\ c.dict.kind = "directory" => c.dict.contents \in Seq(Seq(0 .. 255))

VARIABLES
    case,               \* the entry
    extras, auto,       \* extras, a_extras
    perf, handicap,     \* perf_score, and the entry's handicap
    out,                \* out_buf
    stage, pos, cand,   \* where fuzz_one is; cand = 0 before the position is looked at
    orig,               \* the bytes to put back
    exTmp,              \* the head of ex_tmp, which InsertToken's mutants are made in
    stageCur, stageMax,
    effMap, effCnt,     \* eff_map as the set of its cells that are 1, eff_cnt
    collect, aLen,      \* a_collect, a_len
    prevReply,          \* prev_cksum
    tried,              \* history: the mutants run
    missing             \* history: mutants this stage left out as repetitions, and not run so far

buffers == <<out, orig>>
score == <<perf, handicap>>
place == <<stage, pos, cand>>
counts == <<stageCur, stageMax>>
effects == <<effMap, effCnt>>
collecting == <<collect, aLen, prevReply>>
detVars == <<case, extras, auto, score, buffers, exTmp, place, counts, effects, collecting, tried, missing>>

entry == case.data
len == Len(entry)

-----------------------------------------------------------------------------
(* The stages. *)

Stages == <<"flip1", "flip2", "flip4", "flip8", "flip16", "flip32", "arith8", "arith16", "arith32",
            "int8", "int16", "int32", "extUO", "extUI", "extAO">>

BitStages == {"flip1", "flip2", "flip4"}
FlipStages == {"flip8", "flip16", "flip32"}
ArithStages == {"arith8", "arith16", "arith32"}
IntStages == {"int8", "int16", "int32"}
OverStages == {"extUO", "extAO"}

Width(s) ==
    CASE s \in {"flip1", "flip8", "arith8", "int8"} -> 1
      [] s \in {"flip2", "flip16", "arith16", "int16"} -> 2
      [] s \in {"flip4", "flip32", "arith32", "int32"} -> 4

Interesting(s) ==
    CASE s = "int8" -> Interesting8 [] s = "int16" -> Interesting16 [] s = "int32" -> Interesting32

Tokens(s) ==
    IF s = "extAO" THEN [k \in 1 .. Smaller(UseAutoExtras, Len(auto)) |-> auto[k].data] ELSE extras

Positions(s) ==
    CASE s \in BitStages -> 8 * len - Width(s) + 1
      [] s \in OverStages -> len
      [] s = "extUI" -> len + 1
      [] OTHER -> len - Width(s) + 1

Orders(s) == IF Width(s) = 1 THEN 1 ELSE 2
Candidates(s) ==
    CASE s \in BitStages \cup FlipStages -> 1
      [] s \in ArithStages -> 2 * Orders(s) * ArithMax
      [] s \in IntStages -> Orders(s) * Len(Interesting(s))
      [] OTHER -> Len(Tokens(s))

(* The jumps between the stages: over those that need a longer entry, over    *)
(* arithmetics if it is disabled, over absent dictionaries.                  *)
Omitted(s) ==
    \/ s \notin BitStages \cup OverStages \cup {"extUI"} /\ len < Width(s)
    \/ case.noArith /\ s \in ArithStages \cup {"int16", "int32"}
    \/ s \in {"extUO", "extUI", "extAO"} /\ Len(Tokens(s)) = 0
After(s) ==
    LET number == CHOOSE k \in DOMAIN Stages : Stages[k] = s
        next == {k \in number + 1 .. Len(Stages) : ~Omitted(Stages[k])}
    IN  IF next = {} THEN "havoc" ELSE Stages[Lowest(next)]

-----------------------------------------------------------------------------
(* The effector map. *)

EffApos(p) == p \div (2 ^ EffMapScale2)
EffAlen == EffApos(len) + IF len % (2 ^ EffMapScale2) # 0 THEN 1 ELSE 0
EffSpan(p, n) == EffApos(p) .. EffApos(p + n - 1)
Effective(p, n) == EffSpan(p, n) \cap effMap # {}

(* after the walking byte: a dense map is filled *)
Filled(map, cnt) ==
    IF cnt # EffAlen /\ (cnt * 100) \div EffAlen > EffMaxPerc THEN 0 .. EffAlen - 1 ELSE map

-----------------------------------------------------------------------------
(* The candidates: what they write at the position, and whether a filter      *)
(* takes them for a repetition.                                             *)

Candidate(to, repeats) == [to |-> to, repeats |-> repeats]

Arith(s, c) ==
    LET number == (c - 1) \div (2 * Orders(s)) + 1
        variant == (c - 1) % (2 * Orders(s))
        d == IF variant % 2 = 0 THEN number ELSE -number
        bigEndian == variant >= 2
        word == IF bigEndian THEN Reverse(orig) ELSE orig
        to == IF bigEndian THEN Reverse(Plus(word, d)) ELSE Plus(word, d)
    IN  Candidate(to, (Width(s) > 1 /\ ~LeavesLowerHalf(word, d)) \/ CouldBeBitflip(Xor(orig, to)))

Insertion(s, c) ==
    LET number == (c - 1) \div Orders(s) + 1
        bigEndian == (c - 1) % Orders(s) = 1
        word == Word(Interesting(s)[number], Width(s))
        to == IF bigEndian THEN Reverse(word) ELSE word
    IN  Candidate(to, \/ bigEndian /\ to = word
                      \/ CouldBeBitflip(Xor(orig, to))
                      \/ CouldBeArith(orig, to)
                      \/ Width(s) > 1 /\ CouldBeInterest(orig, to, bigEndian))

Proposed == IF stage \in ArithStages THEN Arith(stage, cand) ELSE Insertion(stage, cand)

-----------------------------------------------------------------------------
(* Beginning, and running a mutant. *)

(* Which a_extras load_auto leaves is drawn here. *)
DetInit ==
    /\ case \in Entries
    /\ extras \in LoadedExtras(case.dict)
    /\ auto \in LoadedAuto(case.saved)
    /\ perf = 100 /\ handicap = case.q.handicap
    /\ out = entry /\ orig = << >> /\ exTmp = << >>
    /\ stage = "score" /\ pos = 0 /\ cand = 0
    /\ stageCur = 0 /\ stageMax = 0
    /\ effMap = {} /\ effCnt = 1
    /\ collect = << >> /\ aLen = 0 /\ prevReply = "own"
    /\ tried = {} /\ missing = {}

ScoreEntry ==
    /\ stage = "score"
    /\ perf' = CalculateScore(case.q, case.avgExecUs, case.avgBitmapSize)
    /\ handicap' = HandicapLeft(handicap)
    /\ IF case.skipDet THEN stage' = "havoc" /\ UNCHANGED stageMax
       ELSE stage' = "flip1" /\ stageMax' = Positions("flip1")
    /\ UNCHANGED <<case, extras, exTmp, auto, buffers, pos, cand, stageCur, effects, collecting, tried, missing>>

Working == stage \in Range(Stages)
AtPosition == Working /\ pos < Positions(stage)
Trying == AtPosition /\ cand \in 1 .. Candidates(stage)

Runs(mutant) ==
    /\ tried' = tried \cup {mutant}
    /\ missing' = missing \ {mutant}
    /\ stageCur' = stageCur + 1
    /\ UNCHANGED stageMax

LeavesOut(mutants) ==
    /\ missing' = missing \cup (mutants \ (tried \cup {entry}))
    /\ stageMax' = stageMax - 1
    /\ UNCHANGED <<stageCur, tried>>

Advances == pos' = pos + 1 /\ cand' = 0 /\ UNCHANGED stage

(* common_fuzz_stuff says to give up: a stop, a request to skip the entry, too *)
(* many timeouts in a row.                                                  *)
Abandon ==
    /\ Trying
    /\ stage' = "abandoned"
    /\ out' = << >> /\ orig' = << >> /\ exTmp' = << >> /\ pos' = 0 /\ cand' = 0 /\ stageCur' = 0 /\ stageMax' = 0
    /\ effMap' = {} /\ effCnt' = 0 /\ collect' = << >> /\ aLen' = 0 /\ prevReply' = "own"
    /\ tried' = {} /\ missing' = {} /\ auto' = << >>
    /\ UNCHANGED <<case, score, extras>>

(* A position is looked at: without effect, it costs all its candidates. *)
LookAt ==
    /\ AtPosition
    /\ cand = 0
    /\ IF stage \in {"flip16", "flip32"} \cup ArithStages \cup IntStages /\ ~Effective(pos, Width(stage))
       THEN /\ Advances
            /\ stageMax' = stageMax - Candidates(stage)
            /\ UNCHANGED orig
       ELSE /\ cand' = 1
            /\ orig' = IF stage \in ArithStages \cup IntStages THEN Slice(out, pos, Width(stage)) ELSE << >>
            /\ UNCHANGED <<stage, pos, stageMax>>
    /\ UNCHANGED <<case, score, extras, exTmp, auto, out, stageCur, effects, collecting, tried, missing>>

-----------------------------------------------------------------------------
(* Flips. *)

FlipHere(buf) ==
    IF stage \in BitStages THEN FlipBits(buf, pos, Width(stage)) ELSE FlipBytes(buf, pos, Width(stage))

Flip ==
    /\ Trying
    /\ stage \in BitStages \cup FlipStages
    /\ out' = FlipHere(out)
    /\ Runs(out')
    /\ cand' = 2
    /\ UNCHANGED <<case, score, extras, exTmp, auto, orig, stage, pos, effects, collecting>>

(* Collecting a token of flip1 at the byte that was just flipped *)
Gathered(byte) == IF aLen < MaxAutoExtra THEN Append(SubSeq(collect, 1, aLen), byte) ELSE collect
IsToken(n) == n \in MinAutoExtra .. MaxAutoExtra

CollectToken ==
    LET k == pos \div 8 + 1
        byte == FlipHere(out)[k]
        reply == case.reply[k]
        atEnd == pos = Positions("flip1") - 1 /\ reply = prevReply
        with == IF atEnd THEN Gathered(byte) ELSE collect
        n == IF atEnd THEN aLen + 1 ELSE aLen
        complete == (atEnd \/ reply # prevReply) /\ IsToken(n)
        kept == IF ~atEnd /\ reply # prevReply THEN 0 ELSE n
    IN  /\ auto' \in IF complete THEN MaybeAddAuto(auto, extras, SubSeq(with, 1, n)) ELSE {auto}
        /\ prevReply' = IF atEnd THEN prevReply ELSE reply
        /\ aLen' = IF reply # "own" THEN kept + 1 ELSE kept
        /\ collect' = IF reply # "own" /\ kept < MaxAutoExtra THEN Append(SubSeq(with, 1, kept), byte) ELSE with

(* The effect of flip8, judged while the byte is flipped *)
FirstEffects ==
    /\ effMap' = {0, EffApos(len - 1)}
    /\ effCnt' = IF EffApos(len - 1) # 0 THEN effCnt + 1 ELSE effCnt

JudgeEffect ==
    LET shows == case.dumb \/ len < EffMinLen \/ pos + 1 \in case.sensitive
        new == EffApos(pos) \notin effMap /\ shows
    IN  /\ effCnt' = IF new THEN effCnt + 1 ELSE effCnt
        /\ effMap' = IF new THEN effMap \cup {EffApos(pos)} ELSE effMap

FlipBack ==
    /\ AtPosition
    /\ stage \in BitStages \cup FlipStages
    /\ cand = 2
    /\ out' = FlipHere(out)
    /\ IF stage = "flip1" /\ pos % 8 = 7 /\ ~case.dumb
       THEN CollectToken ELSE UNCHANGED <<auto, collecting>>
    /\ IF stage = "flip8" THEN JudgeEffect ELSE UNCHANGED effects
    /\ Advances
    /\ UNCHANGED <<case, score, extras, exTmp, orig, counts, tried, missing>>

-----------------------------------------------------------------------------
(* Additions and values of interest. *)

TryWord ==
    /\ Trying
    /\ stage \in ArithStages \cup IntStages
    /\ ~Proposed.repeats
    /\ out' = Overlay(out, pos, Proposed.to)
    /\ Runs(out')
    /\ cand' = cand + 1
    /\ UNCHANGED <<case, score, extras, exTmp, auto, orig, stage, pos, effects, collecting>>

SkipWord ==
    /\ Trying
    /\ stage \in ArithStages \cup IntStages
    /\ Proposed.repeats
    /\ LeavesOut({Overlay(out, pos, Proposed.to)})
    /\ cand' = cand + 1
    /\ UNCHANGED <<case, score, extras, exTmp, auto, buffers, stage, pos, effects, collecting>>

RestoreWord ==
    /\ AtPosition
    /\ stage \in ArithStages \cup IntStages
    /\ cand = Candidates(stage) + 1
    /\ out' = Overlay(out, pos, orig)
    /\ Advances
    /\ UNCHANGED <<case, score, extras, exTmp, auto, orig, counts, effects, collecting, tried, missing>>

-----------------------------------------------------------------------------
(* Dictionary words.  orig holds the bytes of the entry the last word written *)
(* at this position covers (last_len of them).                               *)

Token == Tokens(stage)[cand]
NoRoom == Len(Token) > len - pos
Present == ~NoRoom /\ Slice(out, pos, Len(Token)) = Token
DrawnOut == stage = "extUO" /\ Len(extras) > MaxDetExtras       \* may be, at random

OverwriteToken ==
    /\ Trying
    /\ stage \in OverStages
    /\ ~NoRoom /\ ~Present /\ Effective(pos, Len(Token))
    /\ out' = Overlay(out, pos, Token)
    /\ orig' = Slice(entry, pos, Len(Token))
    /\ Runs(out')
    /\ cand' = cand + 1
    /\ UNCHANGED <<case, score, extras, exTmp, auto, stage, pos, effects, collecting>>

SkipToken ==
    /\ Trying
    /\ stage \in OverStages
    /\ \/ DrawnOut /\ LeavesOut({})
       \/ (NoRoom \/ (~Present /\ ~Effective(pos, Len(Token)))) /\ LeavesOut({})
       \/ Present /\ LeavesOut({out})
    /\ cand' = cand + 1
    /\ UNCHANGED <<case, score, extras, exTmp, auto, buffers, stage, pos, effects, collecting>>

RestoreToken ==
    /\ AtPosition
    /\ stage \in OverStages
    /\ cand = Candidates(stage) + 1
    /\ out' = Overlay(out, pos, orig)
    /\ Advances
    /\ UNCHANGED <<case, score, extras, exTmp, auto, orig, counts, effects, collecting, tried, missing>>

(* In a buffer of its own, whose head is copied byte by byte as the position    *)
(* moves on.  The last copy reads a byte past the entry.                     *)
PastTheEntry == -1      \* whatever is there
InsertToken ==
    /\ Trying
    /\ stage = "extUI"
    /\ IF len + Len(Token) > MaxFile THEN LeavesOut({})
       ELSE Runs(exTmp \o Token \o SubSeq(out, pos + 1, len))
    /\ cand' = cand + 1
    /\ UNCHANGED <<case, score, extras, exTmp, auto, buffers, stage, pos, effects, collecting>>

InsertionsDone ==
    /\ AtPosition
    /\ stage = "extUI"
    /\ cand = Candidates(stage) + 1
    /\ exTmp' = Append(exTmp, IF pos < len THEN out[pos + 1] ELSE PastTheEntry)
    /\ Advances
    /\ UNCHANGED <<case, score, extras, auto, buffers, counts, effects, collecting, tried, missing>>

-----------------------------------------------------------------------------
EndStage ==
    /\ Working
    /\ pos = Positions(stage)
    /\ LET next == After(stage) IN
       /\ stage' = next
       /\ stageMax' = IF next = "havoc" THEN 0 ELSE Positions(next) * Candidates(next)
    /\ stageCur' = 0 /\ pos' = 0 /\ cand' = 0 /\ orig' = << >> /\ exTmp' = << >>
    /\ CASE stage = "flip4" -> FirstEffects
         [] stage = "flip8" -> effMap' = Filled(effMap, effCnt) /\ UNCHANGED effCnt
         [] OTHER -> UNCHANGED effects
    /\ missing' = {}
    /\ UNCHANGED <<case, score, extras, auto, out, collecting, tried>>

DetNext ==
    \/ ScoreEntry \/ Abandon \/ LookAt \/ Flip \/ FlipBack
    \/ TryWord \/ SkipWord \/ RestoreWord
    \/ OverwriteToken \/ SkipToken \/ RestoreToken \/ InsertToken \/ InsertionsDone
    \/ EndStage

-----------------------------------------------------------------------------
(* Properties. *)

(* A mutant that a filter leaves out as a repetition has been run when the     *)
(* stage ends, or is the entry itself; except that                           *)
(*  - two or four neighbouring bits across two bytes pass for a flip although *)
(*    flips count the bits of a byte from the other end;                     *)
(*  - bytes without effect were not treated by the stage that would have run  *)
(*    it;                                                                   *)
(*  - with AFL_NO_ARITH nothing was added, but int8 leaves out sums.          *)
AcrossBytes(bits) ==
    /\ Cardinality(bits) \in {2, 4}
    /\ \E b, c \in bits : b \div 8 # c \div 8
Ineffective(mutant) == \A k \in DiffersAt(entry, mutant) : ~Effective(k - 1, 1)

SkipsAreRepeats ==
    Working /\ pos = Positions(stage) => \A mutant \in missing :
        \/ AcrossBytes(Xor(entry, mutant))
        \/ Ineffective(mutant)
        \/ case.noArith /\ stage = "int8"

(* Each mutant differs from the entry at the current position only: whatever a *)
(* stage writes is put right before it moves on, also by the dictionary      *)
(* stages, which put back only as much as the last word covered; what is     *)
(* read past the entry gets into none of them; and at the end of a stage      *)
(* stage_max is the number of mutants it has run.                            *)
Touched ==
    IF stage \in BitStages THEN (pos \div 8) + 1 .. ((pos + Width(stage) - 1) \div 8) + 1
    ELSE IF stage \in OverStages THEN pos + 1 .. pos + Len(orig)
    ELSE pos + 1 .. pos + Width(stage)

OneChangeAtATime ==
    /\ (Working /\ stage # "extUI") => DiffersAt(entry, out) \subseteq (IF cand = 0 THEN {} ELSE Touched)
    /\ stage \in {"extUI", "havoc"} => out = entry
    /\ stage = "extUI" /\ pos <= len => exTmp = Slice(entry, 0, pos)
    /\ Working /\ pos = Positions(stage) => stageCur = stageMax

DetTypeOK ==
    /\ stage \in Range(Stages) \cup {"score", "havoc", "abandoned"}
    /\ (Working => /\ pos \in 0 .. Positions(stage) /\ cand \in 0 .. Candidates(stage) + 1
                   /\ 0 <= stageCur /\ stageCur <= stageMax
                   /\ Len(out) = len /\ \A k \in 1 .. len : out[k] \in 0 .. 255)
    /\ effMap \subseteq 0 .. EffAlen - 1
    /\ stage = "flip8" => effCnt = Cardinality(effMap)
    /\ \A i \in DOMAIN extras : Len(extras[i]) \in 1 .. MaxDictFile
    /\ \A i \in DOMAIN auto : IsToken(Len(auto[i].data))

=============================================================================
