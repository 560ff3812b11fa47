---------------------------- MODULE AutoDictionary ----------------------------
(***************************************************************************)
(* The dictionary afl-fuzz collects by itself, a_extras, and the one it is  *)
(* given, extras.  Both are arrays of tokens; those of a_extras count how   *)
(* often they were seen.  qsort promises no order of equals.                *)
(***************************************************************************)
EXTENDS Mutations

CONSTANTS
    MaxAutoExtras,      \* MAX_AUTO_EXTRAS
    UseAutoExtras,      \* USE_AUTO_EXTRAS
    MinAutoExtra, MaxAutoExtra,     \* MIN_AUTO_EXTRA, MAX_AUTO_EXTRA
    MaxDictFile         \* MAX_DICT_FILE

ASSUME AutoTyped ==
    /\ MaxAutoExtras \in Nat /\ UseAutoExtras \in Nat /\ UseAutoExtras <= MaxAutoExtras
    /\ MinAutoExtra \in Nat \ {0} /\ MaxAutoExtra \in Nat /\ MinAutoExtra <= MaxAutoExtra

Smaller(a, b) == IF a < b THEN a ELSE b

ToLower(byte) == IF byte \in 65 .. 90 THEN byte + 32 ELSE byte
SameToken(s, t) ==      \* memcmp_nocase
    Len(s) = Len(t) /\ \A k \in DOMAIN s : ToLower(s[k]) = ToLower(t[k])

Uniform(token) == \A k \in DOMAIN token : token[k] = token[1]

(* In either order of its bytes; but two bytes in the order of the machine are *)
(* a u16 compared with an s16, which no negative value equals.               *)
BuiltIn(token) ==
    LET Matches(value) ==
            LET w == Word(value, Len(token))
            IN  token = Reverse(w) \/ (token = w /\ (Len(token) = 2 => value >= 0))
        Among(values) == \E j \in DOMAIN values : Matches(values[j])
    IN  \/ Len(token) = 2 /\ Among(Interesting16)
        \/ Len(token) = 4 /\ Among(Interesting32)

(* The user's tokens are compared from the first that is long enough on, as  *)
(* long as they have this length.                                           *)
InDictionary(extras, token) ==
    \E i \in DOMAIN extras :
        /\ SameToken(extras[i], token)
        /\ \A h \in 1 .. i : Len(extras[h]) < Len(token) \/ \A g \in h .. i : Len(extras[g]) = Len(token)

(* by use, and then the first of them by length *)
ByUse(auto) ==
    {p \in SetToSeqs(Range(auto)) : \A i, j \in DOMAIN p : i < j => p[i].hits >= p[j].hits}
TopByLength(auto) ==
    LET top == 1 .. Smaller(UseAutoExtras, Len(auto))
    IN  {p \in SetToSeqs(Range(auto)) :
            /\ \A i \in DOMAIN p \ top : p[i] = auto[i]
            /\ \A i, j \in top : i < j => Len(p[i].data) <= Len(p[j].data)}
\* fault: the tokens stay sorted by use
SortedByUseOnly(auto) == ByUse(auto)
Sorted(auto) == UNION {TopByLength(byUse) : byUse \in ByUse(auto)}

(* maybe_add_auto: the arrays it may leave; the victim of a full one is drawn *)
(* from the lower half.                                                     *)
Added(auto, token) ==
    LET known == {i \in DOMAIN auto : SameToken(auto[i].data, token)}
        new == [data |-> token, hits |-> 0]
        lowerHalf == (MaxAutoExtras \div 2) .. (MaxAutoExtras - 1)
    IN  IF known # {} THEN {[auto EXCEPT ![Lowest(known)].hits = @ + 1]}
        ELSE IF Len(auto) < MaxAutoExtras THEN {Append(auto, new)}
        ELSE {[auto EXCEPT ![i + 1] = new] : i \in lowerHalf}

MaybeAddAuto(auto, extras, token) ==
    IF MaxAutoExtras = 0 \/ UseAutoExtras = 0 \/ Uniform(token) \/ BuiltIn(token) \/ InDictionary(extras, token)
    THEN {auto}
    ELSE UNION {Sorted(a) : a \in Added(auto, token)}

(* save_auto, and load_auto of what it saved: a file that is too short or too *)
(* long is passed over.  The user's dictionary is read after it.            *)
SavedAuto(auto) == [k \in 1 .. Smaller(UseAutoExtras, Len(auto)) |-> auto[k].data]
LoadedAuto(saved) ==
    LET files == Smaller(UseAutoExtras, Len(saved))
        loaded[k \in 0 .. files] ==
            IF k = 0 THEN {<< >>}
            ELSE IF Len(saved[k]) \in MinAutoExtra .. MaxAutoExtra
                 THEN UNION {MaybeAddAuto(a, << >>, saved[k]) : a \in loaded[k - 1]} ELSE loaded[k - 1]
    IN  loaded[files]

-----------------------------------------------------------------------------
(* The user's dictionary.  A line of a file is what is left of it without the *)
(* spaces around it: its shape, the level behind the name (0 if there is none) *)
(* and the pieces of its value, each of which stands for a byte.  What is read *)
(* of a dictionary is a set of the one collection of tokens, by the lines or   *)
(* files they come from, or an empty one if afl-fuzz ends with a FATAL.       *)

Decoded(piece) ==
    CASE piece.as \in {"plain", "escaped"} -> piece.byte           \* also \\ and \"
      [] piece.as = "hex" -> 16 * piece.high + piece.low            \* \xNN
      [] piece.as = "bad" -> -1             \* not printable, or another escape
Value(line) == [k \in DOMAIN line.pieces |-> Decoded(line.pieces[k])]

IsPair(line) == line.shape \notin {"blank", "comment"}
Usable(line, level) == IsPair(line) /\ line.shape # "unclosed" /\ line.level <= level
Malformed(line, level) ==
    \/ line.shape = "unclosed"               \* no " at the end, whatever the level
    \/ /\ Usable(line, level)
       /\ \/ line.shape = "unopened"
          \/ line.pieces = << >>
          \/ -1 \in Range(Value(line))
          \/ Len(Value(line)) > MaxDictFile

(* load_extras_file *)
FileTokens(lines, level) ==
    IF \E k \in DOMAIN lines : Malformed(lines[k], level) THEN {}
    ELSE {[k \in {j \in DOMAIN lines : Usable(lines[j], level)} |-> Value(lines[k])]}

(* a directory: every file that has a length is a token, and there is no level *)
DirectoryTokens(contents, level) ==
    IF level # 0 \/ \E k \in DOMAIN contents : Len(contents[k]) > MaxDictFile THEN {}
    ELSE {[k \in {j \in DOMAIN contents : contents[j] # << >>} |-> contents[k]]}

(* load_extras: at least one token, sorted by length *)
ByLength(tokens) ==
    {[k \in DOMAIN p |-> tokens[p[k]]] :
        p \in {q \in SetToSeqs(DOMAIN tokens) :
                \A i, j \in DOMAIN q : i < j => Len(tokens[q[i]]) <= Len(tokens[q[j]])}}
LoadedExtras(dict) ==
    CASE dict.kind = "none" -> {<< >>}
      [] dict.kind = "file" -> UNION {ByLength(t) : t \in FileTokens(dict.lines, dict.level) \ {<< >>}}
      [] dict.kind = "directory" -> UNION {ByLength(t) : t \in DirectoryTokens(dict.contents, dict.level) \ {<< >>}}

=============================================================================
