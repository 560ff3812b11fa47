------------------------------- MODULE MCTools -------------------------------
(* One instance for the sequential programs around the target: fuzz_one of    *)
(* afl-fuzz, afl-tmin and afl-analyze, which edit a test case in place, afl-as, *)
(* and the allocator libdislocator.  A behaviour is one of one of them; the    *)
(* variables of the others rest.                                            *)
(*                                                                         *)
(* fuzz_one: the real bound of the additions and the real values of interest, *)
(* on entries of up to five bytes; dictionaries, blocks and stacks of tweaks  *)
(* in small.  afl-tmin: every answer of the target to test cases of up to     *)
(* four bytes.  afl-analyze: replies that are alike or not between the four   *)
(* changes of a byte, and between neighbours.  afl-as: every section of code    *)
(* of four lines.  libdislocator: three mappings and two threads.           *)
EXTENDS FuzzOne, Minimizer, Analyzer, Assembler, Dislocator

VARIABLE tool

I8 == <<-128, -1, 0, 1, 16, 32, 64, 100, 127>>
I16 == <<-32768, -129, 128, 255, 256, 512, 1000, 1024, 4096, 32767>>
I32 == <<-2147483647 - 1, -100663046, -32769, 32768, 65535, 65536, 100663045, 2147483647>>

NoDict == [kind |-> "none"]
Files(contents) == [kind |-> "directory", level |-> 0, contents |-> contents]
Plain(bytes) == [k \in DOMAIN bytes |-> [as |-> "plain", byte |-> bytes[k]]]
Pair(level, pieces) == [shape |-> "pair", level |-> level, pieces |-> pieces]
Line(shape) == [shape |-> shape, level |-> 0, pieces |-> << >>]
Text(lines) == [kind |-> "file", level |-> 1, lines |-> lines]

Usual ==
    [data |-> <<0>>, dict |-> NoDict, saved |-> << >>, reply |-> [k \in 1 .. 5 |-> "own"],
     sensitive |-> 1 .. 5, noArith |-> FALSE, dumb |-> FALSE,
     q |-> [execUs |-> 10, bitmapSize |-> 10, handicap |-> 0, depth |-> 1],
     avgExecUs |-> 10, avgBitmapSize |-> 10, skipDet |-> FALSE,
     havoc |-> FALSE, havocDiv |-> 1, cycle |-> 1, over10m |-> FALSE, splicing |-> FALSE,
     others |-> << >>, finds |-> 0]

Words ==
    {[Usual EXCEPT !.data = d] :
        d \in {<<0>>, <<200>>} \cup [1 .. 2 -> {0, 100, 127, 255}] \cup [1 .. 3 -> {128, 250}]
              \cup [1 .. 4 -> {0, 255}]}
    \cup {[Usual EXCEPT !.data = d, !.sensitive = s] :
            d \in {<<127, 128>>, <<1, 100, 250>>, <<0, 128, 255, 127>>, <<100, 0, 0, 200>>},
            s \in {{}, {2}, {2, 3}}}
    \cup {[Usual EXCEPT !.data = <<0, 1, 128>>, !.noArith = TRUE],
          [Usual EXCEPT !.data = <<65, 32>>, !.dumb = TRUE, !.sensitive = {}]}

(* Lines to be used, with one value twice, and lines to be passed over.  What   *)
(* is malformed keeps the program from starting.                           *)
SomeLines ==
    <<Pair(0, <<[as |-> "hex", high |-> 4, low |-> 2]>>), Line("comment"),
      Pair(1, <<[as |-> "plain", byte |-> 67], [as |-> "escaped", byte |-> 92]>>), Line("blank"),
      Pair(2, Plain(<<1, 2>>)), Pair(2, <<[as |-> "bad"]>>), Pair(0, Plain(<<49, 50, 51>>)), Pair(0, Plain(<<66>>))>>
BadLines == {<<Line("unclosed")>>, <<Line("unopened")>>, <<Pair(1, << >>)>>, <<Pair(0, <<[as |-> "bad"]>>)>>,
             <<Pair(0, Plain([k \in 1 .. 13 |-> k]))>>, <<Line("comment")>>}

(* A reply of the program for every byte makes tokens of neighbours with one. *)
Dictionaries ==
    {[Usual EXCEPT !.data = <<66, 67, 67>>, !.dict = Text(SomeLines)],
     [Usual EXCEPT !.data = <<66>>, !.dict = [Files(<<<<1>>>>) EXCEPT !.level = 1]],
     [Usual EXCEPT !.data = <<66, 67, 68, 69>>, !.reply = <<"x", "x", "y", "y">>,
                   !.saved = <<<<7, 8>>, <<7, 8, 9>>, <<67, 66>>>>, !.noArith = TRUE],
     [Usual EXCEPT !.data = <<66, 67, 68, 69, 70>>, !.reply = <<"x", "x", "own", "z", "z">>,
                   !.saved = <<<<1, 2, 3>>, <<7, 8>>>>, !.noArith = TRUE, !.sensitive = {}],
     [Usual EXCEPT !.data = <<0, 9>>, !.dict = Files(<<[k \in 1 .. 9 |-> k], << >>>>)],
     [Usual EXCEPT !.data = <<70, 71, 72>>, !.reply = <<"y", "y", "y">>, !.dict = Files(<<<<103, 70>>>>),
                   !.noArith = TRUE]}

Havoc ==
    {[Usual EXCEPT !.data = [k \in 1 .. n |-> 0], !.skipDet = TRUE, !.havoc = TRUE,
                   !.over10m = o, !.cycle = 3, !.dict = Files(<<<<1, 2, 3>>>>)] : n \in {1, 5}, o \in BOOLEAN}
    \cup {[Usual EXCEPT !.data = <<0, 0, 0>>, !.skipDet = TRUE, !.havoc = TRUE, !.splicing = TRUE,
                        !.others = <<1, 5>>, !.finds = 1,
                        !.q = [execUs |-> 1, bitmapSize |-> 40, handicap |-> 1, depth |-> 9]],
          [Usual EXCEPT !.data = <<9>>, !.havoc = TRUE, !.noArith = TRUE, !.havocDiv = 2]}

MCEntries ==
    Words \cup Dictionaries \cup Havoc
    \cup {[Usual EXCEPT !.dict = Text(lines)] : lines \in BadLines}
-----------------------------------------------------------------------------
MCCases ==
    [data : {<<48, 97, 97>>, <<97, 98, 97>>, <<97, 97, 97, 97>>}, flaky : {FALSE}]
    \cup {[data |-> <<98, 97, 98, 98>>, flaky |-> TRUE]}

(* Replies by number: 0 a hang, 1 as for the input, 2 and 3 other traces, -1     *)
(* the trace of the input and a crash.                                      *)
Reply(n) ==
    [end |-> CASE n = 0 -> "hang" [] n < 0 -> "failed" [] n > 0 -> "ok",
     trace |-> CASE n = 0 -> 0 [] n < 0 -> -n [] n > 0 -> n]
Vectors ==
    {<<1, 1, 1, 1>>, <<1, 2, 1, 2>>, <<2, 2, 2, 2>>, <<-1, -1, -1, -1>>, <<0, 0, 0, 0>>, <<2, 3, 2, 3>>, <<2, 0, 3, 0>>}
Sample(bytes, vectors) ==
    [data |-> bytes, first |-> Reply(1),
     replies |-> [j \in DOMAIN bytes |-> [c \in 1 .. 4 |-> Reply(vectors[j][c])]]]
MCSamples ==
    {Sample(<<65, 66>>, v) : v \in [1 .. 2 -> Vectors]}
    \cup {Sample(<<65, 66, 67>>, v) : v \in [1 .. 3 -> {<<1, 2, 1, 2>>, <<2, 2, 2, 2>>, <<2, 3, 2, 3>>}]}
    \cup {Sample(d, [j \in DOMAIN d |-> v]) :
            v \in {<<2, 2, 2, 2>>, <<2, 2, 3, 2>>, <<1, 2, 2, 2>>},
            d \in {<<2, 0>>, <<0, 1>>, <<0, 0>>, <<10, 43>>, <<10, 42>>, <<0, 0, 0, 4>>, <<4, 0, 1, 0>>,
                   <<65, 66, 67, 68>>, <<65, 66, 200, 68>>, <<0, 0, 0, 0>>, [j \in 1 .. 5 |-> 7], [j \in 1 .. 6 |-> 7]}}
    \cup {[Sample(<<1, 200>>, <<<<1, 2, 1, 2>>, <<2, 2, 2, 2>>>>) EXCEPT !.first = Reply(f)] : f \in {-1, 0, 2}}
    \cup {[Sample(<<9>>, <<<<1, 1, 1, 1>>>>) EXCEPT !.first.trace = 0]}

Code(lns) == [lines |-> <<"text">> \o lns, bits64 |-> TRUE, clangMode |-> FALSE, passThru |-> FALSE, ratio |-> "all"]
Mixture ==
    <<".code32", "function label", "instruction", ".code64", "instruction", ".intel_syntax", "jump if", GccLabel,
      ".att_syntax", ClangLabel, "directive", "comment", "jump", "other label", "other", "jump if", "instruction">>
MCSources ==
    {Code(l) : l \in [1 .. 4 -> {"section", "text", "p2align", "jump if", "instruction", GccLabel,
                                 "function label", "#APP", "#NO_APP"}]}
    \cup {[Code(l) EXCEPT !.clangMode = c, !.ratio = "some"] :
            l \in [1 .. 3 -> {"p2align", "jump if", "instruction", GccLabel, ClangLabel}], c \in BOOLEAN}
    \cup {[Code(Mixture) EXCEPT !.clangMode = c, !.bits64 = b, !.passThru = p, !.ratio = r] :
            c \in BOOLEAN, b \in BOOLEAN, p \in BOOLEAN, r \in {"none", "all"}}
-----------------------------------------------------------------------------
Tools ==
    [fuzz |-> "afl-fuzz", min |-> "afl-tmin", analyze |-> "afl-analyze", as |-> "afl-as", disl |-> "libdislocator"]

FuzzStarts == (tool = Tools.fuzz \/ case = Usual) /\ Init
MinStarts == (tool = Tools.min \/ (data = <<97, 98, 97>> /\ exact = FALSE)) /\ MinInit
AnStarts == (tool = Tools.analyze \/ sample = Sample(<<65, 66>>, [j \in 1 .. 2 |-> <<1, 1, 1, 1>>])) /\ AnInit
AsStarts == (tool = Tools.as \/ source = Code([k \in 1 .. 4 |-> "section"])) /\ AsInit
DislStarts == (tool = Tools.disl \/ ~options.hardFail) /\ options.hardFail = options.noCallocOver

ToolsInit ==
    tool \in Range(Tools) /\ FuzzStarts /\ MinStarts /\ AnStarts /\ AsStarts /\ DislInit /\ DislStarts

Minimizing == tool = Tools.min /\ MinNext /\ UNCHANGED <<fuzzVars, anVars, asVars, dislVars, tool>>
Analyzing == tool = Tools.analyze /\ AnNext /\ UNCHANGED <<fuzzVars, minVars, asVars, dislVars, tool>>

ToolsNext ==
    \/ tool = Tools.fuzz /\ Next /\ UNCHANGED <<minVars, anVars, asVars, dislVars, tool>>
    \/ Minimizing
    \/ Analyzing
    \/ tool = Tools.as /\ AsNext /\ UNCHANGED <<fuzzVars, minVars, anVars, dislVars, tool>>
    \/ tool = Tools.disl /\ DislNext /\ UNCHANGED <<fuzzVars, minVars, anVars, asVars, tool>>

toolsVars == <<fuzzVars, minVars, anVars, asVars, dislVars, tool>>
ToolsSpec ==
    ToolsInit /\ [][ToolsNext]_toolsVars /\ WF_toolsVars(Minimizing) /\ WF_toolsVars(Analyzing)

(* ToolsEnd: minimize() ends, however the target answers: every pass but the   *)
(* first goes on only if it has deleted something; and analyze() ends.        *)
ToolsEnd ==
    /\ tool = Tools.min => MinimizeEnds
    /\ tool = Tools.analyze => AnalysisEnds
=============================================================================
