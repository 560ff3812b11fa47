------------------------------- MODULE Assembler -------------------------------
(***************************************************************************)
(* afl-as: add_instrumentation() copies an assembly file line by line and    *)
(* puts a trampoline at function entries, at the destinations of branches    *)
(* and after conditional branches.  A line is its kind; the draw of R(100)    *)
(* against the ratio is a choice.                                           *)
(***************************************************************************)
EXTENDS Integers, SequencesExt, FiniteSetsExt

CONSTANTS
    Sources             \* files: lines, and the options bits64, clangMode, passThru and ratio

Instructions == {"jump if", "jump", "instruction"}
GccLabel == "gcc branch label"                  \* .L0:
ClangLabel == "clang branch label"              \* .LBB0_0:
Tabbed ==                                       \* lines that begin with a tab
    Instructions \cup
    {"text", "section", "p2align", "directive", ".code32", ".code64", ".intel_syntax", ".att_syntax"}
LineKinds ==
    Tabbed \cup {GccLabel, ClangLabel, "other label", "function label", "#APP", "#NO_APP", "comment", "other"}

ASSUME SourcesTyped ==
    \A s \in Sources :
        /\ s.lines \in Seq(LineKinds)
        /\ {s.bits64, s.clangMode, s.passThru} \subseteq BOOLEAN
        /\ s.ratio \in {"none", "some", "all"}

Trampoline == "trampoline"
Payload == "payload"

VARIABLES
    source,
    lineNo,             \* lines read
    output,             \* the modified file
    insLines,           \* ins_lines
    instrOk,            \* instr_ok
    skipCsect, skipNextLabel, skipIntel, skipApp,
    instrumentNext,     \* instrument_next
    drawn,              \* history: the lines for which R(100) was below the ratio
    finished

asVars == <<source, lineNo, output, insLines, instrOk, skipCsect, skipNextLabel, skipIntel, skipApp,
            instrumentNext, drawn, finished>>

AsInit ==
    /\ source \in Sources
    /\ lineNo = 0 /\ output = << >> /\ insLines = 0
    /\ instrOk = FALSE /\ skipCsect = FALSE /\ skipNextLabel = FALSE
    /\ skipIntel = FALSE /\ skipApp = FALSE /\ instrumentNext = FALSE
    /\ drawn = {} /\ finished = FALSE

-----------------------------------------------------------------------------
ThisLine == source.lines[lineNo + 1]
Reading(kinds) == lineNo < Len(source.lines) /\ ThisLine \in kinds

Skipping == skipIntel \/ skipApp \/ skipCsect \/ ~instrOk

(* The trampoline of a label comes before the next instruction. *)
\* fault: what an ad-hoc block holds is taken for the label's instruction
DueAnywhere == ~source.passThru /\ instrOk /\ instrumentNext /\ ThisLine \in Instructions
Due == ~source.passThru /\ ~Skipping /\ instrumentNext /\ ThisLine \in Instructions

(* Every line is copied, behind the trampoline that is due and in front of     *)
(* one of its own.                                                          *)
Copy(own) ==
    /\ output' = output \o ((IF Due THEN <<Trampoline>> ELSE << >>) \o <<ThisLine>> \o own)
    /\ insLines' = insLines + (IF Due THEN 1 ELSE 0) + Len(own)
    /\ lineNo' = lineNo + 1
    /\ UNCHANGED <<source, finished>>

(* R(100) < inst_ratio *)
BelowRatio == source.ratio # "none"
AboveRatio == source.ratio # "all"

PassLine ==
    /\ source.passThru
    /\ Reading(LineKinds)
    /\ Copy(<< >>)
    /\ UNCHANGED <<instrOk, skipCsect, skipNextLabel, skipIntel, skipApp, instrumentNext, drawn>>

ChangeSection ==
    /\ ~source.passThru
    /\ Reading({"text", "section"})
    /\ Copy(<< >>)
    /\ instrOk' = (ThisLine = "text")
    /\ UNCHANGED <<skipCsect, skipNextLabel, skipIntel, skipApp, instrumentNext, drawn>>

(* A jump table in the code, as OpenBSD has it, is announced by its alignment. *)
AlignTable ==
    /\ ~source.passThru
    /\ Reading({"p2align"})
    /\ Copy(<< >>)
    /\ skipNextLabel' = (skipNextLabel \/ (~source.clangMode /\ instrOk))
    /\ UNCHANGED <<instrOk, skipCsect, skipIntel, skipApp, instrumentNext, drawn>>

(* Code of the other width, and other syntaxes, are left alone. *)
ChangeFlavor ==
    /\ ~source.passThru
    /\ Reading({".code32", ".code64", ".intel_syntax", ".att_syntax", "#APP", "#NO_APP"})
    /\ Copy(<< >>)
    /\ skipCsect' = CASE ThisLine = ".code32" -> source.bits64
                      [] ThisLine = ".code64" -> ~source.bits64
                      [] OTHER -> skipCsect
    /\ skipIntel' = ((skipIntel \/ ThisLine = ".intel_syntax") /\ ThisLine # ".att_syntax")
    /\ skipApp' = ((skipApp \/ ThisLine = "#APP") /\ ThisLine # "#NO_APP")
    /\ UNCHANGED <<instrOk, skipNextLabel, instrumentNext, drawn>>

(* The path that does not branch is marked right behind a conditional branch. *)
Branch ==
    /\ ~source.passThru
    /\ Reading({"jump if"})
    /\ \/ /\ ~Skipping /\ BelowRatio
          /\ Copy(<<Trampoline>>)
          /\ drawn' = drawn \cup {lineNo + 1}
       \/ /\ Skipping \/ AboveRatio
          /\ Copy(<< >>)
          /\ UNCHANGED drawn
    /\ instrumentNext' = (instrumentNext /\ ~Due)
    /\ UNCHANGED <<instrOk, skipCsect, skipNextLabel, skipIntel, skipApp>>

(* A label that branches go to waits for its instruction, unless it is that of *)
(* a jump table.                                                            *)
BranchLabels == {GccLabel} \cup (IF source.clangMode THEN {ClangLabel} ELSE {})

BranchLabel ==
    /\ ~source.passThru
    /\ Reading(BranchLabels)
    /\ Copy(<< >>)
    /\ \/ /\ ~Skipping /\ BelowRatio
          /\ instrumentNext' = (instrumentNext \/ ~skipNextLabel)
          /\ skipNextLabel' = FALSE
          /\ drawn' = drawn \cup {lineNo + 1}
       \/ /\ Skipping \/ AboveRatio
          /\ UNCHANGED <<instrumentNext, skipNextLabel, drawn>>
    /\ UNCHANGED <<instrOk, skipCsect, skipIntel, skipApp>>

FunctionLabel ==
    /\ ~source.passThru
    /\ Reading({"function label"})
    /\ Copy(<< >>)
    /\ instrumentNext' = (instrumentNext \/ ~Skipping)
    /\ UNCHANGED <<instrOk, skipCsect, skipNextLabel, skipIntel, skipApp, drawn>>

OtherLine ==
    /\ ~source.passThru
    /\ Reading({"jump", "instruction", "directive", "other label", "comment", "other", ClangLabel} \ BranchLabels)
    /\ Copy(<< >>)
    /\ instrumentNext' = (instrumentNext /\ ~Due)
    /\ UNCHANGED <<instrOk, skipCsect, skipNextLabel, skipIntel, skipApp, drawn>>

EndOfFile ==
    /\ ~finished
    /\ lineNo = Len(source.lines)
    /\ output' = output \o (IF insLines > 0 THEN <<Payload>> ELSE << >>)
    /\ finished' = TRUE
    /\ UNCHANGED <<source, lineNo, insLines, instrOk, skipCsect, skipNextLabel, skipIntel, skipApp,
                   instrumentNext, drawn>>

AsNext ==
    \/ PassLine \/ ChangeSection \/ AlignTable \/ ChangeFlavor \/ Branch \/ BranchLabel
    \/ FunctionLabel \/ OtherLine \/ EndOfFile

AsSpec == AsInit /\ [][AsNext]_asVars

-----------------------------------------------------------------------------
(* Properties.  What should stand where is said of the file as a whole.      *)

code == source.lines

(* the last line of S among the first k, 0 if there is none *)
LastOf(k, S) == Max({0} \cup {j \in 1 .. k : code[j] \in S})
LastIs(k, S, kind) == LastOf(k, S) > 0 /\ code[LastOf(k, S)] = kind

InText(k) == LastIs(k, {"text", "section"}, "text")
Foreign == IF source.bits64 THEN ".code32" ELSE ".code64"

(* After k lines: code of this width in AT&T syntax that the compiler wrote *)
InCode(k) ==
    /\ ~source.passThru
    /\ InText(k)
    /\ ~LastIs(k, {".intel_syntax", ".att_syntax"}, ".intel_syntax")
    /\ ~LastIs(k, {"#APP", "#NO_APP"}, "#APP")
    /\ ~LastIs(k, {".code32", ".code64"}, Foreign)

Executed(k) == code[k] \in Instructions /\ InCode(k - 1)

(* The first branch label drawn after the alignment is that of a jump table. *)
OfJumpTable(k) ==
    \E a \in 1 .. k - 1 :
        /\ code[a] = "p2align" /\ InText(a) /\ ~source.clangMode
        /\ \A j \in a + 1 .. k - 1 : code[j] \in BranchLabels => j \notin drawn

Entry(k) ==
    /\ InCode(k)
    /\ \/ code[k] = "function label"
       \/ code[k] \in BranchLabels /\ k \in drawn /\ ~OfJumpTable(k)

(* an instruction is entered if a marked label precedes it immediately *)
Entered(k) == Executed(k) /\ \E j \in 1 .. k - 1 : Entry(j) /\ \A i \in j + 1 .. k - 1 : ~Executed(i)
NotTaken(k) == code[k] = "jump if" /\ InCode(k) /\ k \in drawn

Marked ==
    FlattenSeq([k \in DOMAIN code |->
        (IF Entered(k) THEN <<Trampoline>> ELSE << >>) \o <<code[k]>>
        \o (IF NotTaken(k) THEN <<Trampoline>> ELSE << >>)])

(* TrampolinesRight: in the file that is assembled every function entry, and   *)
(* every branch label and fall-through that was drawn, has one trampoline       *)
(* before the first instruction reached from it, whatever sections, foreign     *)
(* code and ad-hoc blocks lie between, and there is no other trampoline and no   *)
(* other change; the routine they call is there if one of them is.            *)
TrampolinesRight ==
    finished =>
        output = Marked \o (IF Trampoline \in Range(Marked) THEN <<Payload>> ELSE << >>)
=============================================================================
