------------------------------ MODULE Tools_proofs ------------------------------
(***************************************************************************)
(* The programs that edit a test case in place, and the one that edits the    *)
(* program, for every input, every answer of the target and every draw.      *)
(*                                                                         *)
(* FuzzOne: no tweak, clone, insertion or splice reads or writes outside the  *)
(* buffer it works on, however they are stacked; and the deterministic stages *)
(* leave no change of theirs behind.                                        *)
(*                                                                         *)
(* Minimizer: what afl-tmin writes is minimal: no byte of it can be left out. *)
(*                                                                         *)
(* Analyzer: the runs afl-analyze prints are the fields of its input.        *)
(*                                                                         *)
(* Assembler: afl-as puts its trampolines where they belong, and nowhere else. *)
(*                                                                         *)
(* Dislocator: every buffer libdislocator gives out ends at a page without     *)
(* access and is protected in full once it is freed, and the limit of memory   *)
(* is kept, for any word, page and limit and any number of threads.            *)
(***************************************************************************)
EXTENDS FuzzOne, Minimizer, Analyzer, Assembler, Dislocator, NaturalSets, FiniteSetTheorems

Byte == 0 .. 255
Bytes == Seq(Byte)

-----------------------------------------------------------------------------
(* fuzz_one: the havoc stages stay inside their buffers. *)

(* An array of automatic tokens from X, and what the sorting of a_extras is for:  *)
(* the first of them, which the stage of its own uses, are in order of length. *)
Autos(X) == Seq([data : X, hits : Nat])
TopOrdered(a) ==
    \A i, j \in 1 .. Smaller(UseAutoExtras, Len(a)) : i < j => Len(a[i].data) <= Len(a[j].data)

(* A sequence stays one over the same set when an entry is replaced in *)
(* it.                                                                 *)
LEMMA ChangedTyped ==
    ASSUME NEW T, NEW s \in Seq(T), NEW j, NEW v, j \in DOMAIN s => v \in T
    PROVE  [s EXCEPT ![j] = v] \in Seq(T)
<1>1. s \in [1 .. Len(s) -> T] /\ Len(s) \in Nat /\ DOMAIN s = 1 .. Len(s)
  OBVIOUS
<1>2. CASE j \in DOMAIN s
  BY <1>2
<1>3. CASE j \notin DOMAIN s
  <2>1. [s EXCEPT ![j] = v] = s
    BY <1>1, <1>3
  <2> QED BY <2>1
<1> QED BY <1>2, <1>3

(* What SetToSeqs makes of the entries of a sequence is such a sequence. *)
LEMMA PermutationsTyped ==
    ASSUME NEW T, NEW s \in Seq(T), NEW p \in SetToSeqs(Range(s))
    PROVE  p \in Seq(T) /\ Len(p) \in Nat
<1>1. IsFiniteSet(DOMAIN s)
  <2>1. DOMAIN s = 1 .. Len(s) /\ Len(s) \in Nat
    OBVIOUS
  <2> QED BY <2>1, FS_Interval
<1>2. s \in Surjection(DOMAIN s, Range(s))
  BY DEF Surjection, Range
<1>3. Cardinality(Range(s)) \in Nat
  <2>1. IsFiniteSet(Range(s))
    BY <1>1, <1>2, FS_Surjection
  <2> QED BY <2>1, FS_CardinalityType
<1>4. Range(s) \subseteq T
  BY DEF Range
<1>5. p \in [1 .. Cardinality(Range(s)) -> Range(s)]
  BY DEF SetToSeqs
<1> QED BY <1>3, <1>4, <1>5

(* The positions of a sequence. *)
LEMMA SequenceDomain ==
    ASSUME NEW T, NEW s \in Seq(T)
    PROVE  Len(s) \in Nat /\ DOMAIN s = 1 .. Len(s)
OBVIOUS

(* A part of a finite set is finite. *)
LEMMA PartIsFinite ==
    ASSUME NEW S, IsFiniteSet(S), NEW R, R \subseteq S
    PROVE  IsFiniteSet(R)
BY FS_Subset

(* A permutation has as many entries as what it permutes. *)
LEMMA PermutationsLong ==
    ASSUME NEW T, NEW s \in Seq(T), NEW r \in SetToSeqs(Range(s)), NEW p \in SetToSeqs(Range(r))
    PROVE  Len(p) = Len(r)
<1>1. Len(r) \in Nat /\ Len(p) \in Nat /\ r \in Seq(T)
  BY PermutationsTyped
<1>2. DOMAIN r = 1 .. Len(r) /\ IsFiniteSet(1 .. Len(r)) /\ Cardinality(1 .. Len(r)) = Len(r)
  <2>1. PICK n \in Nat : n = Len(r) /\ DOMAIN r = 1 .. n
    BY <1>1, SequenceDomain
  <2>2. IsFiniteSet(1 .. n)
    BY <2>1, FS_Interval
  <2>3. Cardinality(1 .. n) = n
    <3>1. 1 \in Int /\ n \in Int
      BY <2>1
    <3>2. Cardinality(1 .. n) = IF 1 > n THEN 0 ELSE n - 1 + 1
      BY <3>1, FS_Interval
    <3> QED BY <2>1, <3>2
  <2> QED BY <2>1, <2>2, <2>3
<1>3. r \in Bijection(1 .. Len(r), Range(r))
  <2>1. r \in [1 .. Len(r) -> Range(r)] /\ \A t \in Range(r) : \E k \in 1 .. Len(r) : r[k] = t
    BY <1>1, <1>2 DEF Range
  <2>2. \A i, j \in 1 .. Len(r) : i # j => r[i] # r[j]
    BY <1>2 DEF SetToSeqs
  <2> QED BY <2>1, <2>2 DEF Bijection, Injection, Surjection, IsInjective
<1>4. Cardinality(Range(r)) = Len(r)
  <2>1. ExistsBijection(1 .. Len(r), Range(r))
    BY <1>3 DEF ExistsBijection
  <2> QED BY <1>2, <2>1, FS_Bijection
<1>5. DOMAIN p = 1 .. Cardinality(Range(r)) /\ DOMAIN p = 1 .. Len(p)
  BY <1>1, PermutationsTyped DEF SetToSeqs
<1> QED BY <1>1, <1>4, <1>5

(* Sorting the automatic tokens makes no new ones, and orders the first. *)
LEMMA SortedTyped ==
    ASSUME NEW T, NEW s \in Seq(T), NEW p \in Sorted(s)
    PROVE  p \in Seq(T) /\ TopOrdered(p)
<1>1. PICK r \in ByUse(s) : p \in TopByLength(r)
  BY DEF Sorted
<1>2. r \in Seq(T) /\ r \in SetToSeqs(Range(s))
  BY PermutationsTyped DEF ByUse
<1>3. p \in SetToSeqs(Range(r))
  BY <1>1 DEF TopByLength
<1>4. Len(p) = Len(r)
  BY <1>2, <1>3, PermutationsLong
<1>5. TopOrdered(p)
  BY <1>1, <1>4 DEF TopByLength, TopOrdered
<1> QED BY <1>2, <1>3, <1>5, PermutationsTyped

(* maybe_add_auto adds the token it is given and no other, and keeps the order. *)
LEMMA AutoTokens ==
    ASSUME NEW X, NEW s \in Autos(X), TopOrdered(s), NEW token \in X, NEW dict, NEW p \in MaybeAddAuto(s, dict, token)
    PROVE  p \in Autos(X) /\ TopOrdered(p)
<1> DEFINE T == [data : X, hits : Nat]
           new == [data |-> token, hits |-> 0]
<1>1. ASSUME NEW a \in Added(s, token) PROVE a \in Seq(T)
  <2>1. new \in T /\ s \in Seq(T)
    BY DEF Autos
  <2> DEFINE held == {i \in DOMAIN s : SameToken(s[i].data, token)}
             lowerHalf == (MaxAutoExtras \div 2) .. (MaxAutoExtras - 1)
  <2>2. \/ held # {} /\ a = [s EXCEPT ![Lowest(held)].hits = @ + 1]
        \/ a = Append(s, new)
        \/ \E i \in lowerHalf : a = [s EXCEPT ![i + 1] = new]
    BY <1>1 DEF Added
  <2>3. CASE held # {} /\ a = [s EXCEPT ![Lowest(held)].hits = @ + 1]
    <3> DEFINE i == Lowest(held)
               more == [s[i] EXCEPT !.hits = @ + 1]
    <3>1. a = [s EXCEPT ![i] = more]
      BY <2>3
    <3>2. ASSUME i \in DOMAIN s PROVE more \in T
      <4>1. s[i] \in T
        <5> HIDE DEF i, T
        <5> QED BY <2>1, <3>2
      <4>2. PICK r \in T : r = s[i]
        BY <4>1
      <4>3. [r EXCEPT !.hits = @ + 1] \in T
        OBVIOUS
      <4> HIDE DEF i, T
      <4> QED BY <4>2, <4>3
    <3> HIDE DEF i, more, T
    <3> QED BY <2>1, <3>1, <3>2, ChangedTyped
  <2>4. CASE a = Append(s, new)
    <3> HIDE DEF T, new
    <3> QED BY <2>1, <2>4
  <2>5. CASE \E i \in lowerHalf : a = [s EXCEPT ![i + 1] = new]
    <3>1. PICK i \in lowerHalf : a = [s EXCEPT ![i + 1] = new]
      BY <2>5
    <3>2. PICK j : j = i + 1
      OBVIOUS
    <3> HIDE DEF T, new
    <3> QED BY <2>1, <3>1, <3>2, ChangedTyped
  <2> QED BY <2>2, <2>3, <2>4, <2>5
<1>2. ASSUME NEW a \in Added(s, token), p \in Sorted(a) PROVE p \in Seq(T) /\ TopOrdered(p)
  <2>1. a \in Seq(T)
    BY <1>1, <1>2
  <2> HIDE DEF T
  <2> QED BY <1>2, <2>1, SortedTyped
<1> HIDE DEF T
<1>3. s \in Seq(T) /\ Autos(X) = Seq(T)
  BY DEF T, Autos
<1> QED BY <1>2, <1>3 DEF MaybeAddAuto

(* load_auto takes its tokens from the files saved before, and leaves them in *)
(* order.                                                                    *)
LEMMA LoadedAutoTyped ==
    ASSUME NEW saved \in Seq(Bytes)
    PROVE  LoadedAuto(saved) \subseteq {a \in Autos(Bytes) : TopOrdered(a)}
<1> DEFINE n == Smaller(UseAutoExtras, Len(saved))
           T == SUBSET {a \in Autos(Bytes) : TopOrdered(a)}
           With(k, A) == IF Len(saved[k]) \in MinAutoExtra .. MaxAutoExtra
                         THEN UNION {MaybeAddAuto(a, << >>, saved[k]) : a \in A} ELSE A
           step == [k \in 1 .. n |-> [A \in T |-> With(k, A)]]
           start == {<< >>}
           Unfolds(f) == f = [k \in 0 .. n |-> IF k = 0 THEN start ELSE With(k, f[k - 1])]
           loaded == CHOOSE f : Unfolds(f)
<1>1. LoadedAuto(saved) = loaded[n]
  BY DEF LoadedAuto
<1>2. n \in Nat /\ n <= Len(saved)
  BY AutoTyped DEF Smaller
<1>3. start \in T
  <2>1. << >> \in Autos(Bytes)
    BY DEF Autos
  <2>2. Len(<< >>) = 0 /\ Smaller(UseAutoExtras, 0) = 0
    BY AutoTyped DEF Smaller
  <2>3. TopOrdered(<< >>)
    BY <2>2 DEF TopOrdered
  <2> QED BY <2>1, <2>3
<1>4. ASSUME NEW k \in 1 .. n, NEW A \in T PROVE With(k, A) \in T
  <2>1. saved[k] \in Bytes
    <3>1. k \in 1 .. Len(saved)
      BY <1>2
    <3> HIDE DEF n, T, step
    <3> QED BY <3>1
  <2>2. ASSUME NEW a \in A, NEW p \in MaybeAddAuto(a, << >>, saved[k]) PROVE p \in Autos(Bytes) /\ TopOrdered(p)
    <3>1. a \in Autos(Bytes) /\ TopOrdered(a)
      OBVIOUS
    <3> QED BY <2>1, <3>1, AutoTokens
  <2> QED BY <2>2
<1>5. step \in [1 .. n -> [T -> T]]
  <2> HIDE DEF With, n, T
  <2> QED BY <1>4
<1>6. PICK f : f \in [0 .. n -> T] /\ f[0] = start /\ \A k \in 1 .. n : f[k] = With(k, f[k - 1])
  <2> HIDE DEF With, n, T, start
  <2>1. PICK f : Recurs(f, n, T, start, step)
    <3> HIDE DEF step
    <3> QED BY <1>2, <1>3, <1>5, RecursionExists
  <2>2. \A k \in 1 .. n : f[k - 1] \in T
    BY <1>2, <2>1 DEF Recurs
  <2> QED BY <2>1, <2>2 DEF Recurs
<1>7. Unfolds(f)
  <2> HIDE DEF With, n, T, start
  <2>1. f = [k \in 0 .. n |-> f[k]]
    BY <1>6
  <2>2. \A k \in 0 .. n : f[k] = IF k = 0 THEN start ELSE With(k, f[k - 1])
    BY <1>2, <1>6
  <2> QED BY <2>1, <2>2
<1>8. Unfolds(loaded)
  <2> HIDE DEF Unfolds
  <2> QED BY <1>7
<1>9. loaded[n] \in T
  <2> DEFINE S == {k \in 0 .. n : loaded[k] \in T}
  <2> HIDE DEF With, T, start, n, loaded
  <2>1. 0 \in S
    BY <1>2, <1>3, <1>8
  <2>2. ASSUME NEW k \in 1 .. n, k - 1 \in S PROVE k \in S
    <3>1. loaded[k - 1] \in T /\ k \in 0 .. n /\ k # 0
      BY <1>2, <2>2
    <3>2. loaded[k] = With(k, loaded[k - 1])
      BY <1>8, <3>1
    <3> QED BY <1>4, <3>1, <3>2
  <2>3. 0 .. n \subseteq S
    <3> HIDE DEF S
    <3> QED BY <1>2, <2>1, <2>2, IntervalInduction
  <2> QED BY <1>2, <2>3
<1> QED BY <1>1, <1>9

(* Every word of the dictionary is a sequence, and they are in order of length. *)
LEMMA LoadedExtrasTyped ==
    ASSUME NEW c \in Entries, NEW words \in LoadedExtras(c.dict)
    PROVE  /\ IsASequence(words) /\ \A i \in DOMAIN words : IsASequence(words[i])
           /\ \A i, j \in DOMAIN words : i < j => Len(words[i]) <= Len(words[j])
<1> DEFINE Goal == /\ IsASequence(words) /\ \A i \in DOMAIN words : IsASequence(words[i])
                   /\ \A i, j \in DOMAIN words : i < j => Len(words[i]) <= Len(words[j])
<1>1. ASSUME NEW tokens, IsFiniteSet(DOMAIN tokens), \A k \in DOMAIN tokens : IsASequence(tokens[k]),
             words \in ByLength(tokens)
      PROVE  Goal
  <2>1. PICK p \in SetToSeqs(DOMAIN tokens) :
           /\ words = [k \in DOMAIN p |-> tokens[p[k]]]
           /\ \A i, j \in DOMAIN p : i < j => Len(tokens[p[i]]) <= Len(tokens[p[j]])
    BY <1>1 DEF ByLength
  <2>2. PICK n \in Nat : n = Cardinality(DOMAIN tokens)
    BY <1>1, FS_CardinalityType
  <2>3. p \in [1 .. n -> DOMAIN tokens]
    BY <2>1, <2>2 DEF SetToSeqs
  <2>4. words \in [1 .. n -> {tokens[k] : k \in DOMAIN tokens}] /\ \A i \in 1 .. n : words[i] = tokens[p[i]]
    BY <2>1, <2>3
  <2>5. IsASequence(words)
    BY <2>4 DEF IsASequence
  <2>6. \A i \in DOMAIN words : IsASequence(words[i])
    BY <1>1, <2>3, <2>4
  <2>7. \A i, j \in DOMAIN words : i < j => Len(words[i]) <= Len(words[j])
    BY <2>1, <2>3, <2>4
  <2> QED BY <2>5, <2>6, <2>7
<1> SUFFICES Goal
  OBVIOUS
<1> HIDE DEF Goal
<1>2. CASE c.dict.kind = "none"
  <2>1. words = << >>
    BY <1>2 DEF LoadedExtras
  <2> QED BY <2>1 DEF Goal, IsASequence
<1>3. CASE c.dict.kind = "file"
  <2>1. PICK tokens \in FileTokens(c.dict.lines, c.dict.level) : words \in ByLength(tokens)
    BY <1>3 DEF LoadedExtras
  <2>2. tokens = [k \in {j \in DOMAIN c.dict.lines : Usable(c.dict.lines[j], c.dict.level)} |-> Value(c.dict.lines[k])]
    BY <2>1 DEF FileTokens
  <2>3. ASSUME NEW k \in DOMAIN tokens PROVE IsASequence(tokens[k])
    <3>1. k \in DOMAIN c.dict.lines /\ tokens[k] = Value(c.dict.lines[k])
      BY <2>2
    <3>2. PICK n \in Nat : DOMAIN c.dict.lines[k].pieces = 1 .. n
      BY <1>3, <3>1, EntriesTyped DEF IsASequence
    <3>3. PICK v : v = tokens[k]
      OBVIOUS
    <3>4. v = [h \in 1 .. n |-> v[h]]
      BY <3>1, <3>2, <3>3 DEF Value
    <3>5. v \in Seq({v[h] : h \in 1 .. n})
      BY <3>4
    <3> QED BY <3>3, <3>5 DEF IsASequence
  <2>4. IsFiniteSet(DOMAIN tokens)
    <3>1. IsFiniteSet(DOMAIN c.dict.lines)
      BY <1>3, EntriesTyped, FS_Interval DEF IsASequence
    <3>2. DOMAIN tokens \subseteq DOMAIN c.dict.lines
      BY <2>2
    <3> QED BY <3>1, <3>2, PartIsFinite
  <2> QED BY <1>1, <2>1, <2>3, <2>4
<1>4. CASE c.dict.kind = "directory"
  <2>1. PICK tokens \in DirectoryTokens(c.dict.contents, c.dict.level) : words \in ByLength(tokens)
    BY <1>4 DEF LoadedExtras
  <2>2. tokens = [k \in {j \in DOMAIN c.dict.contents : c.dict.contents[j] # << >>} |-> c.dict.contents[k]]
    BY <2>1 DEF DirectoryTokens
  <2>3. ASSUME NEW k \in DOMAIN tokens PROVE IsASequence(tokens[k])
    <3>1. k \in DOMAIN c.dict.contents /\ tokens[k] = c.dict.contents[k]
      BY <2>2
    <3>2. c.dict.contents[k] \in Seq(0 .. 255)
      BY <1>4, <3>1, EntriesTyped
    <3> QED BY <3>1, <3>2 DEF IsASequence
  <2>4. IsFiniteSet(DOMAIN tokens)
    <3>1. PICK s \in Seq(Seq(0 .. 255)) : s = c.dict.contents
      BY <1>4, EntriesTyped
    <3>2. DOMAIN s = 1 .. Len(s) /\ Len(s) \in Nat
      OBVIOUS
    <3>3. IsFiniteSet(DOMAIN s)
      BY <3>2, FS_Interval
    <3>4. DOMAIN tokens \subseteq DOMAIN s
      BY <2>2, <3>1
    <3> QED BY <3>3, <3>4, PartIsFinite
  <2> QED BY <1>1, <2>1, <2>3, <2>4
<1> QED BY <1>2, <1>3, <1>4, EntriesTyped

(* The first n entries, also of a function that has fewer. *)
LEMMA FirstOfTyped ==
    ASSUME NEW s, NEW n \in Nat
    PROVE  SubSeq(s, 1, n) = [i \in 1 .. n |-> s[i]]
OBVIOUS

(* Tokens from a set are tokens from a larger one. *)
LEMMA MoreTokens ==
    ASSUME NEW X, NEW Y, X \subseteq Y, NEW s \in Autos(X)
    PROVE  s \in Autos(Y)
<1> DEFINE T == [data : X, hits : Nat]
           U == [data : Y, hits : Nat]
<1>1. T \subseteq U
  OBVIOUS
<1>2. s \in Seq(T) /\ Autos(Y) = Seq(U)
  BY DEF Autos
<1> HIDE DEF T, U
<1> QED BY <1>1, <1>2

(* Every word that may be used is a sequence, and those that stages of their own *)
(* use are in order of length.                                                 *)
WordsTyped ==
    /\ IsASequence(extras) /\ \A i \in DOMAIN extras : IsASequence(extras[i])
    /\ \A i, j \in DOMAIN extras : i < j => Len(extras[i]) <= Len(extras[j])
    /\ \E X : (\A t \in X : IsASequence(t)) /\ auto \in Autos(X)
    /\ TopOrdered(auto)

(* The room in the buffers *)
Room ==
    /\ bufLen \in 1 .. MaxFile /\ inLen = bufLen
    /\ queue \in Seq(1 .. MaxFile) /\ Len(queue) >= 1
    /\ tempLen \in Nat /\ alloc \in Nat
    /\ stage \notin {"tweaks", "abandoned", "splice", "done"} => bufLen <= alloc
    /\ stage \notin {"havoc", "abandoned", "splice", "done"} => tempLen \in 1 .. MaxFile /\ tempLen <= alloc

FuzzInv == case \in Entries /\ WordsTyped /\ Room /\ fault = "none"

(* The invariant holds when fuzz_one has read the entry and its *)
(* dictionaries.                                                *)
LEMMA FuzzInvInit == Init => FuzzInv
<1> SUFFICES ASSUME Init PROVE FuzzInv
  OBVIOUS
<1>1. case \in Entries /\ len \in 1 .. MaxFile /\ MaxFile \in Nat /\ case.others \in Seq(1 .. MaxFile)
  <2>1. case \in Entries
    BY DEF Init, DetInit
  <2>2. MaxFile \in Nat /\ Len(case.data) \in 1 .. MaxFile
    BY <2>1, EntriesTyped
  <2> QED BY <2>1, <2>2, HavocTyped DEF entry, len
<1>2. WordsTyped
  <2>1. /\ IsASequence(extras) /\ \A i \in DOMAIN extras : IsASequence(extras[i])
        /\ \A i, j \in DOMAIN extras : i < j => Len(extras[i]) <= Len(extras[j])
    BY <1>1, LoadedExtrasTyped DEF Init, DetInit
  <2>2. auto \in Autos(Bytes) /\ TopOrdered(auto)
    <3>1. case.saved \in Seq(Bytes)
      BY <1>1, EntriesTyped DEF Bytes, Byte
    <3> QED BY <3>1, LoadedAutoTyped DEF Init, DetInit
  <2>3. \A t \in Bytes : IsASequence(t)
    BY DEF Bytes, Byte, IsASequence
  <2> QED BY <2>1, <2>2, <2>3 DEF WordsTyped
<1>3. Room
  <2>1. queue = <<len>> \o case.others
    BY DEF Init
  <2>2. queue \in Seq(1 .. MaxFile) /\ Len(queue) >= 1
    <3>1. PICK others \in Seq(1 .. MaxFile) : others = case.others
      BY <1>1
    <3>2. <<len>> \in Seq(1 .. MaxFile) /\ Len(<<len>>) = 1
      BY <1>1
    <3> QED BY <2>1, <3>1, <3>2
  <2> QED BY <1>1, <2>2 DEF Init, Room
<1> QED BY <1>1, <1>2, <1>3 DEF Init, FuzzInv

(* The deterministic stages work on the entry as it is. *)
LEMMA WorkingIsNotHavoc ==
    ASSUME stage = "score" \/ Working
    PROVE  stage \notin {"havoc", "mutant", "tweaks", "abandoned", "splice", "done"}
BY DEF Working, Range, Stages

(* The deterministic stages collect tokens that have a length. *)
LEMMA DetKeepsWords ==
    ASSUME WordsTyped, DetNext
    PROVE  WordsTyped'
<1>1. CASE UNCHANGED <<extras, auto>>
  BY <1>1 DEF WordsTyped
<1>2. CASE extras' = extras /\ auto' = << >>
  <2>1. auto' \in Autos({})
    BY <1>2 DEF Autos
  <2>2. Len(<< >>) = 0 /\ Smaller(UseAutoExtras, 0) = 0
    BY AutoTyped DEF Smaller
  <2>3. TopOrdered(auto')
    BY <1>2, <2>2 DEF TopOrdered
  <2> QED BY <1>2, <2>1, <2>3 DEF WordsTyped
<1>3. CASE extras' = extras /\ CollectToken
  <2>1. PICK X : (\A t \in X : IsASequence(t)) /\ auto \in Autos(X) /\ TopOrdered(auto)
    BY DEF WordsTyped
  <2>2. PICK with, n, complete :
            /\ complete => n \in MinAutoExtra .. MaxAutoExtra
            /\ auto' \in IF complete THEN MaybeAddAuto(auto, extras, SubSeq(with, 1, n)) ELSE {auto}
    BY <1>3 DEF CollectToken, IsToken
  <2>3. CASE complete
    <3> DEFINE token == SubSeq(with, 1, n)
               Y == X \cup {token}
    <3>1. n \in Nat
      BY <2>2, <2>3, AutoTyped
    <3>2. IsASequence(token)
      <4>1. token = [i \in 1 .. n |-> with[i]]
        BY <3>1, FirstOfTyped
      <4>2. token \in Seq({with[i] : i \in 1 .. n})
        BY <3>1, <4>1
      <4> HIDE DEF token
      <4> QED BY <4>2 DEF IsASequence
    <3>3. auto \in Autos(Y) /\ token \in Y
      BY <2>1, MoreTokens
    <3>4. auto' \in Autos(Y) /\ TopOrdered(auto')
      <4>1. auto' \in MaybeAddAuto(auto, extras, token)
        BY <2>2, <2>3
      <4> HIDE DEF token, Y
      <4> QED BY <2>1, <3>3, <4>1, AutoTokens
    <3>5. \A t \in Y : IsASequence(t)
      BY <2>1, <3>2
    <3> HIDE DEF Y
    <3> QED BY <1>3, <3>4, <3>5 DEF WordsTyped
  <2>4. CASE ~complete
    BY <1>3, <2>2, <2>4 DEF WordsTyped
  <2> QED BY <2>3, <2>4
<1>4. CASE ScoreEntry \/ LookAt \/ Flip \/ TryWord \/ SkipWord \/ RestoreWord \/ OverwriteToken \/ SkipToken
           \/ RestoreToken \/ InsertToken \/ InsertionsDone \/ EndStage
  BY <1>1, <1>4 DEF ScoreEntry, LookAt, Flip, TryWord, SkipWord, RestoreWord, OverwriteToken, SkipToken,
     RestoreToken, InsertToken, InsertionsDone, EndStage
<1>5. CASE Abandon
  BY <1>2, <1>5 DEF Abandon
<1>6. CASE FlipBack
  BY <1>1, <1>3, <1>6 DEF FlipBack
<1> QED BY <1>4, <1>5, <1>6 DEF DetNext

(* The deterministic stages leave the buffers of the havoc stages alone. *)
LEMMA DetKeepsRoom ==
    ASSUME FuzzInv, DetNext, UNCHANGED havocVars
    PROVE  FuzzInv'
<1>1. WordsTyped'
  BY DetKeepsWords DEF FuzzInv
<1>2. case' = case
  BY DEF DetNext, ScoreEntry, LookAt, Abandon, Flip, FlipBack, TryWord, SkipWord, RestoreWord, OverwriteToken,
     SkipToken, RestoreToken, InsertToken, InsertionsDone, EndStage
<1>3. stage = "score" \/ Working
  BY DEF DetNext, ScoreEntry, LookAt, Abandon, Flip, FlipBack, TryWord, SkipWord, RestoreWord, OverwriteToken,
     SkipToken, RestoreToken, InsertToken, InsertionsDone, EndStage, Trying, AtPosition
<1>4. Room'
  <2>1. stage \notin {"havoc", "mutant", "tweaks", "abandoned", "splice", "done"}
    BY <1>3, WorkingIsNotHavoc
  <2> QED BY <2>1 DEF FuzzInv, Room, havocVars
<1> QED BY <1>1, <1>2, <1>4 DEF FuzzInv, havocVars

(* choose_block_len: a block that fits, and never one longer than the largest. *)
LEMMA BlocksFit ==
    ASSUME NEW limit \in Nat \ {0}, NEW n \in BlockLengths(limit)
    PROVE  n \in 1 .. limit /\ n <= HavocBlkXl
<1>1. PICK b \in BlockBounds : n \in (IF b[1] >= limit THEN 1 ELSE b[1]) .. Smaller(b[2], limit)
  BY DEF BlockLengths
<1>2. b[1] \in Nat \ {0} /\ b[2] \in Nat /\ b[2] <= HavocBlkXl
  BY HavocTyped DEF BlockBounds
<1> QED BY <1>1, <1>2, HavocTyped DEF Smaller

(* Nothing is wrong if no draw is from nothing and no access ends too far. *)
LEMMA NoFault ==
    ASSUME NEW limits, NEW ends, fault = "none", Checked(limits, ends),
           \A n \in limits : ~(n <= 0), \A e \in ends : ~(e.at > e.size)
    PROVE  fault' = "none"
BY DEF Checked

(* A tweak changes the length of the mutant and the room for it at most. *)
LEMMA TweakKeeps ==
    ASSUME FuzzInv, Tweaks, fault' = "none",
           tempLen' \in 1 .. MaxFile, alloc' \in Nat, tempLen' <= alloc'
    PROVE  FuzzInv'
<1>1. UNCHANGED <<case, extras, auto, stage, bufLen, inLen, queue>>
  BY DEF Tweaks, detRest
<1>2. WordsTyped'
  BY <1>1 DEF FuzzInv, WordsTyped
<1>3. Room'
  <2>1. stage = "tweaks" /\ stage' = "tweaks"
    BY <1>1 DEF Tweaks
  <2> QED BY <1>1, <2>1 DEF FuzzInv, Room
<1> QED BY <1>1, <1>2, <1>3 DEF FuzzInv

(* What a tweak finds. *)
LEMMA TweakFacts ==
    ASSUME FuzzInv, Tweaks
    PROVE  /\ tempLen \in 1 .. MaxFile /\ alloc \in Nat /\ tempLen <= alloc /\ fault = "none"
           /\ bufLen \in Nat /\ MaxFile \in Nat
BY EntriesTyped DEF FuzzInv, Room, Tweaks

(* A tweak of 1, 2 or 4 bytes is inside the buffer it was drawn for. *)
LEMMA PokeKeeps == ASSUME FuzzInv, Poke PROVE FuzzInv'
<1>1. PICK width \in {1, 2, 4} : Pokes(width)
  BY DEF Poke
<1>2. Tweaks
  BY DEF Poke
<1>3. /\ tempLen \in 1 .. MaxFile /\ alloc \in Nat /\ tempLen <= alloc /\ fault = "none"
  BY <1>2, TweakFacts
<1>4. UNCHANGED <<tempLen, alloc>>
  BY <1>1 DEF Pokes, Nothing, SameSize
<1>5. fault' = "none"
  <2>1. CASE tempLen < width
    BY <1>1, <1>3, <2>1 DEF Pokes, Nothing
  <2>2. CASE ~(tempLen < width)
    <3>1. Checked({tempLen - width + 1}, {End(tempLen, alloc)})
      BY <1>1, <2>2 DEF Pokes
    <3>2. ~(tempLen - width + 1 <= 0) /\ ~(tempLen > alloc)
      BY <1>3, <2>2
    <3>3. \A e \in {End(tempLen, alloc)} : ~(e.at > e.size)
      BY <3>2 DEF End
    <3> QED BY <1>3, <3>1, <3>2, <3>3, NoFault
  <2> QED BY <2>1, <2>2
<1> QED BY <1>2, <1>3, <1>4, <1>5, TweakKeeps

(* A deletion moves the rest of the buffer down, and leaves a byte. *)
LEMMA DeleteKeeps == ASSUME FuzzInv, DeleteBytes PROVE FuzzInv'
<1>1. Tweaks /\ tempLen >= 2
  BY DEF DeleteBytes
<1>2. /\ tempLen \in 1 .. MaxFile /\ alloc \in Nat /\ tempLen <= alloc /\ fault = "none"
      /\ MaxFile \in Nat
  BY <1>1, TweakFacts
<1>3. PICK n \in BlockLengths(tempLen - 1) :
         /\ Checked({tempLen - 1, tempLen - n + 1}, {End(tempLen, alloc)})
         /\ Resized(tempLen - n, alloc)
  BY DEF DeleteBytes
<1>4. n \in 1 .. tempLen - 1
  <2>1. tempLen - 1 \in Nat \ {0}
    BY <1>1, <1>2
  <2> QED BY <2>1, BlocksFit
<1>5. fault' = "none"
  <2>1. \A m \in {tempLen - 1, tempLen - n + 1} : ~(m <= 0)
    BY <1>1, <1>2, <1>4
  <2>2. \A e \in {End(tempLen, alloc)} : ~(e.at > e.size)
    BY <1>2 DEF End
  <2> QED BY <1>2, <1>3, <2>1, <2>2, NoFault
<1>6. tempLen' \in 1 .. MaxFile /\ alloc' = alloc /\ tempLen' <= alloc
  BY <1>2, <1>3, <1>4 DEF Resized
<1> QED BY <1>1, <1>2, <1>5, <1>6, TweakKeeps

(* A block is cloned into a new buffer with room for it and for the rest. *)
LEMMA CloneKeeps == ASSUME FuzzInv, CloneBytes PROVE FuzzInv'
<1>1. Tweaks /\ tempLen + HavocBlkXl < MaxFile
  BY DEF CloneBytes
<1>2. tempLen \in 1 .. MaxFile /\ alloc \in Nat /\ tempLen <= alloc /\ fault = "none" /\ MaxFile \in Nat
  BY <1>1, TweakFacts
<1>3. PICK n \in BlockLengths(tempLen) : \E from \in Drawn(tempLen - n + 1), to \in Drawn(tempLen) :
         /\ Checked({tempLen, tempLen - n + 1},
                    {End(from + n, alloc), End(to, alloc), End(to + n + (tempLen - to), tempLen + n)})
         /\ Resized(tempLen + n, tempLen + n)
  BY DEF CloneBytes
<1>4. n \in 1 .. tempLen /\ n <= HavocBlkXl
  BY <1>2, BlocksFit
<1>5. PICK from \in Drawn(tempLen - n + 1), to \in Drawn(tempLen) :
         Checked({tempLen, tempLen - n + 1},
                 {End(from + n, alloc), End(to, alloc), End(to + n + (tempLen - to), tempLen + n)})
  BY <1>3
<1>6. tempLen' = tempLen + n /\ alloc' = tempLen + n
  BY <1>3 DEF Resized
<1>7. from \in 0 .. tempLen - n /\ to \in 0 .. tempLen - 1
  BY <1>2, <1>4, <1>5 DEF Drawn
<1>8. fault' = "none"
  <2>1. \A m \in {tempLen, tempLen - n + 1} : ~(m <= 0)
    BY <1>2, <1>4
  <2>2. ~(from + n > alloc) /\ ~(to > alloc) /\ ~(to + n + (tempLen - to) > tempLen + n)
    BY <1>2, <1>4, <1>7
  <2>3. \A e \in {End(from + n, alloc), End(to, alloc), End(to + n + (tempLen - to), tempLen + n)} : ~(e.at > e.size)
    BY <2>2 DEF End
  <2> QED BY <1>2, <1>5, <2>1, <2>3, NoFault
<1>9. tempLen' \in 1 .. MaxFile /\ alloc' = tempLen' /\ alloc' \in Nat
  BY <1>1, <1>2, <1>4, <1>6, HavocTyped
<1> QED BY <1>1, <1>2, <1>8, <1>9, TweakKeeps

(* So is a block of one byte. *)
LEMMA InsertKeeps == ASSUME FuzzInv, InsertBytes PROVE FuzzInv'
<1>1. Tweaks /\ tempLen + HavocBlkXl < MaxFile
  BY DEF InsertBytes
<1>2. tempLen \in 1 .. MaxFile /\ alloc \in Nat /\ tempLen <= alloc /\ fault = "none" /\ MaxFile \in Nat
  BY <1>1, TweakFacts
<1>3. PICK n \in BlockLengths(HavocBlkXl), to \in Drawn(tempLen) :
         /\ Checked({HavocBlkXl, tempLen}, {End(to, alloc), End(to + n + (tempLen - to), tempLen + n)})
         /\ Resized(tempLen + n, tempLen + n)
  BY DEF InsertBytes
<1>4. HavocBlkXl \in Nat \ {0}
  BY HavocTyped
<1>5. n \in 1 .. HavocBlkXl /\ to \in 0 .. tempLen - 1
  BY <1>2, <1>3, <1>4, BlocksFit DEF Drawn
<1>6. fault' = "none"
  <2>1. \A m \in {HavocBlkXl, tempLen} : ~(m <= 0)
    BY <1>2, <1>4
  <2>2. ~(to > alloc) /\ ~(to + n + (tempLen - to) > tempLen + n)
    BY <1>2, <1>5
  <2>3. \A e \in {End(to, alloc), End(to + n + (tempLen - to), tempLen + n)} : ~(e.at > e.size)
    BY <2>2 DEF End
  <2> QED BY <1>2, <1>3, <2>1, <2>3, NoFault
<1>7. tempLen' \in 1 .. MaxFile /\ alloc' = tempLen' /\ alloc' \in Nat
  BY <1>1, <1>2, <1>3, <1>4, <1>5 DEF Resized
<1> QED BY <1>1, <1>2, <1>6, <1>7, TweakKeeps

(* A block copied over another stays inside, at both ends. *)
LEMMA OverwriteKeeps == ASSUME FuzzInv, OverwriteBytes PROVE FuzzInv'
<1>1. Tweaks /\ tempLen >= 2 /\ UNCHANGED <<tempLen, alloc>>
  BY DEF OverwriteBytes, SameSize
<1>2. tempLen \in 1 .. MaxFile /\ alloc \in Nat /\ tempLen <= alloc /\ fault = "none" /\ MaxFile \in Nat
  BY <1>1, TweakFacts
<1>3. PICK n \in BlockLengths(tempLen - 1) : \E from, to \in Drawn(tempLen - n + 1) :
         Checked({tempLen - 1, tempLen - n + 1}, {End(from + n, alloc), End(to + n, alloc)})
  BY DEF OverwriteBytes
<1>4. n \in 1 .. tempLen - 1
  <2>1. tempLen - 1 \in Nat \ {0}
    BY <1>1, <1>2
  <2> QED BY <2>1, BlocksFit
<1>5. PICK from \in Drawn(tempLen - n + 1), to \in Drawn(tempLen - n + 1) :
         Checked({tempLen - 1, tempLen - n + 1}, {End(from + n, alloc), End(to + n, alloc)})
  BY <1>3
<1>6. from \in 0 .. tempLen - n /\ to \in 0 .. tempLen - n
  BY <1>2, <1>4, <1>5 DEF Drawn
<1>7. fault' = "none"
  <2>1. \A m \in {tempLen - 1, tempLen - n + 1} : ~(m <= 0)
    BY <1>1, <1>2, <1>4
  <2>2. ~(from + n > alloc) /\ ~(to + n > alloc)
    BY <1>2, <1>4, <1>6
  <2>3. \A e \in {End(from + n, alloc), End(to + n, alloc)} : ~(e.at > e.size)
    BY <2>2 DEF End
  <2> QED BY <1>2, <1>5, <2>1, <2>3, NoFault
<1> QED BY <1>1, <1>2, <1>7, TweakKeeps

(* What is drawn from the dictionaries has a length. *)
LEMMA DrawableTyped ==
    ASSUME WordsTyped, NEW n \in Drawable
    PROVE  n \in Nat
<1>1. PICK X : (\A t \in X : Len(t) \in Nat) /\ auto \in Autos(X)
  BY DEF WordsTyped, IsASequence
<1>2. \A i \in DOMAIN auto : auto[i].data \in X
  <2> SUFFICES ASSUME NEW i \in DOMAIN auto PROVE auto[i].data \in X
    OBVIOUS
  <2> DEFINE T == [data : X, hits : Nat]
  <2>1. auto \in Seq(T)
    BY <1>1 DEF Autos
  <2>2. auto[i] \in T
    <3> HIDE DEF T
    <3> QED BY <2>1
  <2> QED BY <2>2
<1> QED BY <1>1, <1>2 DEF Drawable, WordsTyped, IsASequence

(* A token is written over bytes only where there are enough of them. *)
LEMMA OverwriteExtraKeeps == ASSUME FuzzInv, OverwriteWithExtra PROVE FuzzInv'
<1>1. Tweaks
  BY DEF OverwriteWithExtra
<1>2. tempLen \in 1 .. MaxFile /\ alloc \in Nat /\ tempLen <= alloc /\ fault = "none" /\ MaxFile \in Nat
  BY <1>1, TweakFacts
<1>3. PICK n \in Drawable :
         IF n > tempLen THEN Nothing
         ELSE /\ Checked({tempLen - n + 1}, {End(x + n, alloc) : x \in Drawn(tempLen - n + 1)})
              /\ SameSize
  BY DEF OverwriteWithExtra
<1>4. n \in Nat
  BY DrawableTyped DEF FuzzInv
<1>5. UNCHANGED <<tempLen, alloc>>
  BY <1>3 DEF Nothing, SameSize
<1>6. fault' = "none"
  <2>1. CASE n > tempLen
    BY <1>2, <1>3, <2>1 DEF Nothing
  <2>2. CASE ~(n > tempLen)
    <3>1. Checked({tempLen - n + 1}, {End(x + n, alloc) : x \in Drawn(tempLen - n + 1)})
      BY <1>3, <2>2
    <3>2. ~(tempLen - n + 1 <= 0)
      BY <1>2, <1>4, <2>2
    <3>3. \A e \in {End(x + n, alloc) : x \in Drawn(tempLen - n + 1)} : ~(e.at > e.size)
      BY <1>2, <1>4, <2>2 DEF Drawn, End
    <3> QED BY <1>2, <3>1, <3>2, <3>3, NoFault
  <2> QED BY <2>1, <2>2
<1> QED BY <1>1, <1>2, <1>5, <1>6, TweakKeeps

(* A token is inserted into a new buffer with room for it and for the *)
(* rest.                                                              *)
LEMMA InsertExtraKeeps == ASSUME FuzzInv, InsertExtra PROVE FuzzInv'
<1>1. Tweaks
  BY DEF InsertExtra
<1>2. tempLen \in 1 .. MaxFile /\ alloc \in Nat /\ tempLen <= alloc /\ fault = "none" /\ MaxFile \in Nat
  BY <1>1, TweakFacts
<1>3. PICK n \in Drawable :
         IF tempLen + n >= MaxFile THEN Nothing
         ELSE /\ Checked({tempLen + 1},
                         {End(x, alloc) : x \in Drawn(tempLen + 1)} \cup {End(tempLen + n, tempLen + n)})
              /\ Resized(tempLen + n, tempLen + n)
  BY DEF InsertExtra
<1>4. n \in Nat
  BY DrawableTyped DEF FuzzInv
<1>5. CASE tempLen + n >= MaxFile
  BY <1>1, <1>2, <1>3, <1>5, TweakKeeps DEF Nothing, SameSize
<1>6. CASE ~(tempLen + n >= MaxFile)
  <2>1. fault' = "none"
    <3>1. Checked({tempLen + 1}, {End(x, alloc) : x \in Drawn(tempLen + 1)} \cup {End(tempLen + n, tempLen + n)})
      BY <1>3, <1>6
    <3>2. ~(tempLen + 1 <= 0)
      BY <1>2
    <3>3. \A e \in {End(x, alloc) : x \in Drawn(tempLen + 1)} \cup {End(tempLen + n, tempLen + n)} : ~(e.at > e.size)
      BY <1>2, <1>4 DEF Drawn, End
    <3> QED BY <1>2, <3>1, <3>2, <3>3, NoFault
  <2>2. tempLen' \in 1 .. MaxFile /\ alloc' = tempLen' /\ alloc' \in Nat
    BY <1>2, <1>3, <1>4, <1>6 DEF Resized
  <2> QED BY <1>1, <1>2, <2>1, <2>2, TweakKeeps
<1> QED BY <1>5, <1>6

(* After a run the buffer has the size of the entry again, and room for *)
(* it.                                                                  *)
LEMMA RunKeeps == ASSUME FuzzInv, RunMutant PROVE FuzzInv'
<1>1. /\ tempLen \in 1 .. MaxFile /\ alloc \in Nat /\ tempLen <= alloc /\ fault = "none" /\ MaxFile \in Nat
      /\ bufLen \in 1 .. MaxFile /\ inLen = bufLen /\ queue \in Seq(1 .. MaxFile) /\ Len(queue) >= 1
  BY EntriesTyped DEF RunMutant, FuzzInv, Room
<1>2. /\ UNCHANGED <<case, extras, auto, bufLen, inLen>> /\ stage' = "mutant"
      /\ tempLen' = bufLen /\ alloc' = IF tempLen < bufLen THEN bufLen ELSE alloc
      /\ Checked({}, {End(bufLen, alloc'), End(bufLen, inLen)})
      /\ queue' = Append(queue, tempLen) \/ queue' = queue
  BY DEF RunMutant, RoomRestored, detRest
<1>3. alloc' \in Nat /\ bufLen <= alloc'
  BY <1>1, <1>2
<1>4. fault' = "none"
  <2>1. \A e \in {End(bufLen, alloc'), End(bufLen, inLen)} : ~(e.at > e.size)
    BY <1>1, <1>3 DEF End
  <2>2. \A m \in {} : ~(m <= 0)
    OBVIOUS
  <2> QED BY <1>1, <1>2, <2>1, <2>2, NoFault
<1>5. queue' \in Seq(1 .. MaxFile) /\ Len(queue') >= 1
  BY <1>1, <1>2
<1>6. WordsTyped'
  BY <1>2 DEF FuzzInv, WordsTyped
<1>7. Room'
  BY <1>1, <1>2, <1>3, <1>5 DEF Room
<1> QED BY <1>2, <1>4, <1>6, <1>7 DEF FuzzInv

(* Beginning, ending and abandoning a stage draws nothing from the *)
(* buffers.                                                        *)
LEMMA StageKeeps ==
    ASSUME FuzzInv, HavocStage \/ NewMutant \/ TweakNothing \/ AbandonHavoc \/ EndHavoc \/ Finish
    PROVE  FuzzInv'
<1>1. UNCHANGED <<case, extras, auto>>
  BY DEF HavocStage, NewMutant, TweakNothing, Tweaks, AbandonHavoc, EndHavoc, Finish, detRest
<1>2. WordsTyped'
  BY <1>1 DEF FuzzInv, WordsTyped
<1>3. Room' /\ fault' = "none"
  <2>1. CASE HavocStage
    BY <2>1 DEF FuzzInv, Room, HavocStage
  <2>2. CASE NewMutant
    BY <2>2 DEF FuzzInv, Room, NewMutant
  <2>3. CASE TweakNothing
    BY <2>3 DEF FuzzInv, Room, TweakNothing, Tweaks, Nothing, SameSize
  <2>4. CASE AbandonHavoc
    BY <2>4 DEF FuzzInv, Room, AbandonHavoc, havocVars
  <2>5. CASE EndHavoc
    BY <2>5 DEF FuzzInv, Room, EndHavoc, havocVars
  <2>6. CASE Finish
    BY <2>6 DEF FuzzInv, Room, Finish, havocVars
  <2> QED BY <2>1, <2>2, <2>3, <2>4, <2>5, <2>6
<1> QED BY <1>1, <1>2, <1>3 DEF FuzzInv

(* To splice again, the entry itself is taken first. *)
LEMMA RetryKeeps == ASSUME FuzzInv, SpliceRetry PROVE FuzzInv'
<1>1. /\ UNCHANGED <<case, extras, auto, stage, queue, alloc, tempLen, fault>> /\ stage = "splice"
      /\ bufLen' = queue[1] /\ inLen' = queue[1]
  BY DEF SpliceRetry, detRest
<1>2. queue[1] \in 1 .. MaxFile
  <2>1. queue \in Seq(1 .. MaxFile) /\ 1 \in DOMAIN queue /\ MaxFile \in Nat
    BY EntriesTyped DEF FuzzInv, Room
  <2> QED BY <2>1
<1>3. WordsTyped'
  BY <1>1 DEF FuzzInv, WordsTyped
<1>4. Room'
  BY <1>1, <1>2 DEF FuzzInv, Room
<1> QED BY <1>1, <1>3, <1>4 DEF FuzzInv

(* A splice takes over the length of the partner, and a buffer for it. *)
LEMMA SpliceKeeps == ASSUME FuzzInv, Splice PROVE FuzzInv'
<1>1. PICK t \in Targets : \E d \in Located(Smaller(queue[1], queue[t])) :
         /\ ~NoSplit(d[1], d[2])
         /\ \E splitAt \in {d[1] + u : u \in Drawn(d[2] - d[1])} :
              Checked({d[2] - d[1]}, {End(splitAt, queue[t]), End(splitAt, queue[1])})
         /\ bufLen' = queue[t] /\ inLen' = queue[t] /\ alloc' = queue[t]
  BY DEF Splice
<1>2. UNCHANGED <<case, extras, auto, queue, tempLen>> /\ stage' = "havoc"
  BY DEF Splice, detRest
<1>3. queue \in Seq(1 .. MaxFile) /\ 1 \in DOMAIN queue /\ t \in DOMAIN queue /\ fault = "none" /\ tempLen \in Nat
      /\ MaxFile \in Nat
  BY EntriesTyped DEF FuzzInv, Room, Targets
<1>4. queue[1] \in 1 .. MaxFile /\ queue[t] \in 1 .. MaxFile
  BY <1>3
<1>5. PICK d \in Located(Smaller(queue[1], queue[t])) :
         /\ ~NoSplit(d[1], d[2])
         /\ \E splitAt \in {d[1] + u : u \in Drawn(d[2] - d[1])} :
              Checked({d[2] - d[1]}, {End(splitAt, queue[t]), End(splitAt, queue[1])})
         /\ bufLen' = queue[t] /\ inLen' = queue[t] /\ alloc' = queue[t]
  BY <1>1
<1>6. PICK n \in Nat : n = Smaller(queue[1], queue[t]) /\ n <= queue[1] /\ n <= queue[t]
  BY <1>4 DEF Smaller
<1>7. d[1] \in 0 .. n - 1 /\ d[2] \in 0 .. n - 1 /\ d[1] < d[2]
  <2>1. d = <<-1, -1>> \/ (d \in (0 .. n - 1) \X (0 .. n - 1) /\ d[1] <= d[2])
    BY <1>5, <1>6 DEF Located
  <2>2. d[1] >= 0 /\ d[1] # d[2]
    <3>1. d[1] \in Int
      BY <2>1
    <3> QED BY <1>5, <3>1 DEF NoSplit
  <2> QED BY <2>1, <2>2
<1>8. PICK splitAt \in {d[1] + u : u \in Drawn(d[2] - d[1])} :
         Checked({d[2] - d[1]}, {End(splitAt, queue[t]), End(splitAt, queue[1])})
  BY <1>5
<1>9. splitAt \in 0 .. n - 1
  BY <1>7, <1>8 DEF Drawn
<1>10. fault' = "none"
  <2>1. \A e \in {End(splitAt, queue[t]), End(splitAt, queue[1])} : ~(e.at > e.size)
    BY <1>4, <1>6, <1>9 DEF End
  <2>2. \A m \in {d[2] - d[1]} : ~(m <= 0)
    BY <1>7
  <2> QED BY <1>3, <1>8, <2>1, <2>2, NoFault
<1>11. Room'
  BY <1>2, <1>3, <1>4, <1>5 DEF FuzzInv, Room
<1>12. WordsTyped'
  BY <1>2 DEF FuzzInv, WordsTyped
<1> QED BY <1>2, <1>10, <1>11, <1>12 DEF FuzzInv

(* Every step of fuzz_one keeps the invariant. *)
LEMMA FuzzInvStep == FuzzInv /\ [Next]_fuzzVars => FuzzInv'
<1> SUFFICES ASSUME FuzzInv, [Next]_fuzzVars PROVE FuzzInv'
  OBVIOUS
<1>1. CASE UNCHANGED fuzzVars
  BY <1>1 DEF fuzzVars, detVars, havocVars, place, FuzzInv, WordsTyped, Room
<1>2. CASE DetNext /\ UNCHANGED havocVars
  BY <1>2, DetKeepsRoom
<1>3. CASE Poke
  BY <1>3, PokeKeeps
<1>4. CASE DeleteBytes
  BY <1>4, DeleteKeeps
<1>5. CASE CloneBytes
  BY <1>5, CloneKeeps
<1>6. CASE InsertBytes
  BY <1>6, InsertKeeps
<1>7. CASE OverwriteBytes
  BY <1>7, OverwriteKeeps
<1>8. CASE OverwriteWithExtra
  BY <1>8, OverwriteExtraKeeps
<1>9. CASE InsertExtra
  BY <1>9, InsertExtraKeeps
<1>10. CASE RunMutant
  BY <1>10, RunKeeps
<1>11. CASE HavocStage \/ NewMutant \/ TweakNothing \/ AbandonHavoc \/ EndHavoc \/ Finish
  BY <1>11, StageKeeps
<1>12. CASE SpliceRetry
  BY <1>12, RetryKeeps
<1>13. CASE Splice
  BY <1>13, SpliceKeeps
<1> QED BY <1>1, <1>2, <1>3, <1>4, <1>5, <1>6, <1>7, <1>8, <1>9, <1>10, <1>11, <1>12, <1>13 DEF Next

(* fuzz_one never reads or writes outside its buffers, and never draws  *)
(* from nothing, in any sequence of stages, stacked tweaks and splices. *)
THEOREM BuffersAlwaysInBounds == Spec => []InBounds
<1>1. Init => FuzzInv
  BY FuzzInvInit
<1>2. FuzzInv /\ [Next]_fuzzVars => FuzzInv'
  BY FuzzInvStep
<1>3. FuzzInv => InBounds
  BY DEF FuzzInv, Room, InBounds
<1> QED BY <1>1, <1>2, <1>3, PTL DEF Spec

-----------------------------------------------------------------------------
(* fuzz_one: the deterministic stages put the buffer right. *)

(* A byte by its bits, the first being the most significant *)
EightBits == [1 .. 8 -> {0, 1}]
Value8(c) == 128 * c[1] + 64 * c[2] + 32 * c[3] + 16 * c[4] + 8 * c[5] + 4 * c[6] + 2 * c[7] + c[8]
Not(c, k) == [c EXCEPT ![k] = 1 - c[k]]

(* Every byte has its bits. *)
LEMMA BytesAreBits == ASSUME NEW x \in Byte PROVE \E c \in EightBits : x = Value8(c)
<1> DEFINE c == <<x \div 128, (x \div 64) % 2, (x \div 32) % 2, (x \div 16) % 2, (x \div 8) % 2, (x \div 4) % 2,
                  (x \div 2) % 2, x % 2>>
<1>1. c \in EightBits
  BY DEF EightBits, Byte
<1>2. x = Value8(c)
  BY DEF Value8, Byte
<1> QED BY <1>1, <1>2

(* To flip a bit is to change what it says. *)
LEMMA FlippedSays ==
    ASSUME NEW c \in EightBits, NEW k \in 1 .. 8
    PROVE  Value8(c) \in Byte /\ Not(c, k) \in EightBits /\ FlippedByte(Value8(c), Masks[k]) = Value8(Not(c, k))
<1>1. Not(c, k) \in EightBits
  BY DEF Not, EightBits
<1>2. PICK a1 \in {0, 1}, a2 \in {0, 1}, a3 \in {0, 1}, a4 \in {0, 1}, a5 \in {0, 1}, a6 \in {0, 1}, a7 \in {0, 1},
           a8 \in {0, 1} :
             /\ c[1] = a1 /\ c[2] = a2 /\ c[3] = a3 /\ c[4] = a4 /\ c[5] = a5 /\ c[6] = a6 /\ c[7] = a7 /\ c[8] = a8
  BY DEF EightBits
<1>3. PICK v \in 0 .. 255 : v = Value8(c) /\ v = 128 * a1 + 64 * a2 + 32 * a3 + 16 * a4 + 8 * a5 + 4 * a6 + 2 * a7 + a8
  BY <1>2 DEF Value8
<1>4. DOMAIN c = 1 .. 8
  BY DEF EightBits
<1>5. \A j \in 1 .. 8 : Not(c, k)[j] = IF j = k THEN 1 - c[k] ELSE c[j]
  BY <1>4 DEF Not
<1>6. Value8(c) \in Byte
  BY <1>3 DEF Byte
<1>7. CASE k = 1
  <2>1. (v \div 128) % 2 = a1 /\ Masks[1] = 128
    BY <1>3 DEF Masks
  <2>2. Not(c, k)[1] = 1 - a1 /\ Not(c, k)[2] = a2 /\ Not(c, k)[3] = a3 /\ Not(c, k)[4] = a4
        /\ Not(c, k)[5] = a5 /\ Not(c, k)[6] = a6 /\ Not(c, k)[7] = a7 /\ Not(c, k)[8] = a8
    BY <1>2, <1>5, <1>7
  <2>3. Value8(Not(c, k)) = v + (1 - 2 * a1) * 128
    BY <1>3, <2>2 DEF Value8
  <2>4. FlippedByte(v, 128) = v + (1 - 2 * a1) * 128
    BY <1>2, <1>3, <2>1 DEF FlippedByte
  <2> QED BY <1>1, <1>3, <1>6, <1>7, <2>1, <2>3, <2>4
<1>8. CASE k = 2
  <2>1. (v \div 64) % 2 = a2 /\ Masks[2] = 64
    BY <1>3 DEF Masks
  <2>2. Not(c, k)[1] = a1 /\ Not(c, k)[2] = 1 - a2 /\ Not(c, k)[3] = a3 /\ Not(c, k)[4] = a4
        /\ Not(c, k)[5] = a5 /\ Not(c, k)[6] = a6 /\ Not(c, k)[7] = a7 /\ Not(c, k)[8] = a8
    BY <1>2, <1>5, <1>8
  <2>3. Value8(Not(c, k)) = v + (1 - 2 * a2) * 64
    BY <1>3, <2>2 DEF Value8
  <2>4. FlippedByte(v, 64) = v + (1 - 2 * a2) * 64
    BY <1>2, <1>3, <2>1 DEF FlippedByte
  <2> QED BY <1>1, <1>3, <1>6, <1>8, <2>1, <2>3, <2>4
<1>9. CASE k = 3
  <2>1. (v \div 32) % 2 = a3 /\ Masks[3] = 32
    BY <1>3 DEF Masks
  <2>2. Not(c, k)[1] = a1 /\ Not(c, k)[2] = a2 /\ Not(c, k)[3] = 1 - a3 /\ Not(c, k)[4] = a4
        /\ Not(c, k)[5] = a5 /\ Not(c, k)[6] = a6 /\ Not(c, k)[7] = a7 /\ Not(c, k)[8] = a8
    BY <1>2, <1>5, <1>9
  <2>3. Value8(Not(c, k)) = v + (1 - 2 * a3) * 32
    BY <1>3, <2>2 DEF Value8
  <2>4. FlippedByte(v, 32) = v + (1 - 2 * a3) * 32
    BY <1>2, <1>3, <2>1 DEF FlippedByte
  <2> QED BY <1>1, <1>3, <1>6, <1>9, <2>1, <2>3, <2>4
<1>10. CASE k = 4
  <2>1. (v \div 16) % 2 = a4 /\ Masks[4] = 16
    BY <1>3 DEF Masks
  <2>2. Not(c, k)[1] = a1 /\ Not(c, k)[2] = a2 /\ Not(c, k)[3] = a3 /\ Not(c, k)[4] = 1 - a4
        /\ Not(c, k)[5] = a5 /\ Not(c, k)[6] = a6 /\ Not(c, k)[7] = a7 /\ Not(c, k)[8] = a8
    BY <1>2, <1>5, <1>10
  <2>3. Value8(Not(c, k)) = v + (1 - 2 * a4) * 16
    BY <1>3, <2>2 DEF Value8
  <2>4. FlippedByte(v, 16) = v + (1 - 2 * a4) * 16
    BY <1>2, <1>3, <2>1 DEF FlippedByte
  <2> QED BY <1>1, <1>3, <1>6, <1>10, <2>1, <2>3, <2>4
<1>11. CASE k = 5
  <2>1. (v \div 8) % 2 = a5 /\ Masks[5] = 8
    BY <1>3 DEF Masks
  <2>2. Not(c, k)[1] = a1 /\ Not(c, k)[2] = a2 /\ Not(c, k)[3] = a3 /\ Not(c, k)[4] = a4
        /\ Not(c, k)[5] = 1 - a5 /\ Not(c, k)[6] = a6 /\ Not(c, k)[7] = a7 /\ Not(c, k)[8] = a8
    BY <1>2, <1>5, <1>11
  <2>3. Value8(Not(c, k)) = v + (1 - 2 * a5) * 8
    BY <1>3, <2>2 DEF Value8
  <2>4. FlippedByte(v, 8) = v + (1 - 2 * a5) * 8
    BY <1>2, <1>3, <2>1 DEF FlippedByte
  <2> QED BY <1>1, <1>3, <1>6, <1>11, <2>1, <2>3, <2>4
<1>12. CASE k = 6
  <2>1. (v \div 4) % 2 = a6 /\ Masks[6] = 4
    BY <1>3 DEF Masks
  <2>2. Not(c, k)[1] = a1 /\ Not(c, k)[2] = a2 /\ Not(c, k)[3] = a3 /\ Not(c, k)[4] = a4
        /\ Not(c, k)[5] = a5 /\ Not(c, k)[6] = 1 - a6 /\ Not(c, k)[7] = a7 /\ Not(c, k)[8] = a8
    BY <1>2, <1>5, <1>12
  <2>3. Value8(Not(c, k)) = v + (1 - 2 * a6) * 4
    BY <1>3, <2>2 DEF Value8
  <2>4. FlippedByte(v, 4) = v + (1 - 2 * a6) * 4
    BY <1>2, <1>3, <2>1 DEF FlippedByte
  <2> QED BY <1>1, <1>3, <1>6, <1>12, <2>1, <2>3, <2>4
<1>13. CASE k = 7
  <2>1. (v \div 2) % 2 = a7 /\ Masks[7] = 2
    BY <1>3 DEF Masks
  <2>2. Not(c, k)[1] = a1 /\ Not(c, k)[2] = a2 /\ Not(c, k)[3] = a3 /\ Not(c, k)[4] = a4
        /\ Not(c, k)[5] = a5 /\ Not(c, k)[6] = a6 /\ Not(c, k)[7] = 1 - a7 /\ Not(c, k)[8] = a8
    BY <1>2, <1>5, <1>13
  <2>3. Value8(Not(c, k)) = v + (1 - 2 * a7) * 2
    BY <1>3, <2>2 DEF Value8
  <2>4. FlippedByte(v, 2) = v + (1 - 2 * a7) * 2
    BY <1>2, <1>3, <2>1 DEF FlippedByte
  <2> QED BY <1>1, <1>3, <1>6, <1>13, <2>1, <2>3, <2>4
<1>14. CASE k = 8
  <2>1. (v \div 1) % 2 = a8 /\ Masks[8] = 1
    BY <1>3 DEF Masks
  <2>2. Not(c, k)[1] = a1 /\ Not(c, k)[2] = a2 /\ Not(c, k)[3] = a3 /\ Not(c, k)[4] = a4
        /\ Not(c, k)[5] = a5 /\ Not(c, k)[6] = a6 /\ Not(c, k)[7] = a7 /\ Not(c, k)[8] = 1 - a8
    BY <1>2, <1>5, <1>14
  <2>3. Value8(Not(c, k)) = v + (1 - 2 * a8) * 1
    BY <1>3, <2>2 DEF Value8
  <2>4. FlippedByte(v, 1) = v + (1 - 2 * a8) * 1
    BY <1>2, <1>3, <2>1 DEF FlippedByte
  <2> QED BY <1>1, <1>3, <1>6, <1>14, <2>1, <2>3, <2>4
<1>15. k = 1 \/ k = 2 \/ k = 3 \/ k = 4 \/ k = 5 \/ k = 6 \/ k = 7 \/ k = 8
  OBVIOUS
<1> QED BY <1>1, <1>7, <1>8, <1>9, <1>10, <1>11, <1>12, <1>13, <1>14, <1>15

(* A bit that is flipped twice is as it was, whatever is flipped in between. *)
LEMMA FlippedAgain ==
    ASSUME NEW x \in Byte, NEW k \in 1 .. 8, NEW l \in 1 .. 8
    PROVE  /\ FlippedByte(x, Masks[k]) \in Byte
           /\ FlippedByte(FlippedByte(x, Masks[k]), Masks[k]) = x
           /\ FlippedByte(FlippedByte(x, Masks[k]), Masks[l]) = FlippedByte(FlippedByte(x, Masks[l]), Masks[k])
<1>1. PICK c \in EightBits : x = Value8(c)
  BY BytesAreBits
<1>2. \A b \in EightBits : \A j \in 1 .. 8 :
         Value8(b) \in Byte /\ Not(b, j) \in EightBits /\ FlippedByte(Value8(b), Masks[j]) = Value8(Not(b, j))
  BY FlippedSays
<1>3. Not(Not(c, k), k) = c /\ Not(Not(c, k), l) = Not(Not(c, l), k)
  <2>1. \A b \in EightBits : \A i, j \in 1 .. 8 : Not(b, i)[j] = IF j = i THEN 1 - b[i] ELSE b[j]
    BY DEF Not, EightBits
  <2>2. Not(c, k) \in EightBits /\ Not(c, l) \in EightBits /\ Not(Not(c, k), k) \in EightBits
        /\ Not(Not(c, k), l) \in EightBits /\ Not(Not(c, l), k) \in EightBits
    BY <1>2
  <2>3. \A j \in 1 .. 8 : Not(Not(c, k), k)[j] = c[j]
    BY <2>1, <2>2 DEF EightBits
  <2>4. \A j \in 1 .. 8 : Not(Not(c, k), l)[j] = Not(Not(c, l), k)[j]
    BY <2>1, <2>2 DEF EightBits
  <2>5. \A b, d \in EightBits : (\A j \in 1 .. 8 : b[j] = d[j]) => b = d
    BY DEF EightBits
  <2> QED BY <2>2, <2>3, <2>4, <2>5
<1>4. Not(c, k) \in EightBits /\ Not(c, l) \in EightBits
  BY <1>2
<1>5. FlippedByte(x, Masks[k]) = Value8(Not(c, k)) /\ FlippedByte(x, Masks[l]) = Value8(Not(c, l))
  BY <1>1, <1>2
<1>6. FlippedByte(Value8(Not(c, k)), Masks[k]) = Value8(Not(Not(c, k), k))
      /\ FlippedByte(Value8(Not(c, k)), Masks[l]) = Value8(Not(Not(c, k), l))
      /\ FlippedByte(Value8(Not(c, l)), Masks[k]) = Value8(Not(Not(c, l), k))
  BY <1>2, <1>4
<1>7. Value8(Not(c, k)) \in Byte
  BY <1>2, <1>4
<1> QED BY <1>1, <1>3, <1>5, <1>6, <1>7

Buffers(m) == [1 .. m -> Byte]

ByteFlipped(y, i, k) == [y EXCEPT ![i] = FlippedByte(y[i], Masks[k])]

(* A byte of a buffer changes, *)
LEMMA HereFlipped ==
    ASSUME NEW m \in Nat, NEW y \in Buffers(m), NEW i \in 1 .. m, NEW k \in 1 .. 8
    PROVE  ByteFlipped(y, i, k) \in Buffers(m) /\ ByteFlipped(y, i, k)[i] = FlippedByte(y[i], Masks[k])
  BY FlippedAgain DEF Buffers, ByteFlipped

(* and the others do not. *)
LEMMA ElsewhereKept ==
    ASSUME NEW m \in Nat, NEW y \in Buffers(m), NEW i \in 1 .. m, NEW k \in 1 .. 8, NEW j \in 1 .. m, j # i
    PROVE  ByteFlipped(y, i, k)[j] = y[j]
  BY DEF Buffers, ByteFlipped

(* FLIP_BIT changes the byte the bit is in, and undoes itself. *)
LEMMA BitFlips ==
    ASSUME NEW m \in Nat, NEW x \in Buffers(m), NEW b \in 0 .. 8 * m - 1, NEW c \in 0 .. 8 * m - 1
    PROVE  /\ FlipBit(x, b) \in Buffers(m) /\ FlipBit(FlipBit(x, b), b) = x
           /\ FlipBit(FlipBit(x, b), c) = FlipBit(FlipBit(x, c), b)
           /\ \A j \in 1 .. m : j # (b \div 8) + 1 => FlipBit(x, b)[j] = x[j]
<1>1. PICK i \in 1 .. m, k \in 1 .. 8 : i = (b \div 8) + 1 /\ k = (b % 8) + 1
  OBVIOUS
<1>2. PICK h \in 1 .. m, l \in 1 .. 8 : h = (c \div 8) + 1 /\ l = (c % 8) + 1
  OBVIOUS
<1>3. \A y : FlipBit(y, b) = ByteFlipped(y, i, k) /\ FlipBit(y, c) = ByteFlipped(y, h, l)
  BY <1>1, <1>2 DEF FlipBit, ByteFlipped
<1>4. \A v \in Byte : \A d, e \in 1 .. 8 :
         /\ FlippedByte(v, Masks[d]) \in Byte
         /\ FlippedByte(FlippedByte(v, Masks[d]), Masks[d]) = v
         /\ FlippedByte(FlippedByte(v, Masks[d]), Masks[e]) = FlippedByte(FlippedByte(v, Masks[e]), Masks[d])
  BY FlippedAgain
<1>6. x[i] \in Byte /\ x[h] \in Byte
  BY DEF Buffers
<1>7. PICK u \in Buffers(m) :
         /\ u = ByteFlipped(x, i, k) /\ u[i] = FlippedByte(x[i], Masks[k])
         /\ \A j \in 1 .. m : j # i => u[j] = x[j]
  <2>1. x \in Buffers(m) /\ i \in 1 .. m /\ k \in 1 .. 8
    BY <1>1
  <2>2. ByteFlipped(x, i, k) \in Buffers(m) /\ ByteFlipped(x, i, k)[i] = FlippedByte(x[i], Masks[k])
    BY <2>1, HereFlipped
  <2>3. \A j \in 1 .. m : j # i => ByteFlipped(x, i, k)[j] = x[j]
    BY <2>1, ElsewhereKept
  <2> QED BY <2>2, <2>3
<1>8. PICK v \in Buffers(m) :
         /\ v = ByteFlipped(x, h, l) /\ v[h] = FlippedByte(x[h], Masks[l])
         /\ \A j \in 1 .. m : j # h => v[j] = x[j]
  <2>1. x \in Buffers(m) /\ h \in 1 .. m /\ l \in 1 .. 8
    BY <1>2
  <2>2. ByteFlipped(x, h, l) \in Buffers(m) /\ ByteFlipped(x, h, l)[h] = FlippedByte(x[h], Masks[l])
    BY <2>1, HereFlipped
  <2>3. \A j \in 1 .. m : j # h => ByteFlipped(x, h, l)[j] = x[j]
    BY <2>1, ElsewhereKept
  <2> QED BY <2>2, <2>3
<1>9. PICK twice \in Buffers(m) :
         /\ twice = ByteFlipped(u, i, k) /\ twice[i] = FlippedByte(u[i], Masks[k])
         /\ \A j \in 1 .. m : j # i => twice[j] = u[j]
  <2>1. u \in Buffers(m) /\ i \in 1 .. m /\ k \in 1 .. 8
    BY <1>1, <1>7
  <2>2. ByteFlipped(u, i, k) \in Buffers(m) /\ ByteFlipped(u, i, k)[i] = FlippedByte(u[i], Masks[k])
    BY <2>1, HereFlipped
  <2>3. \A j \in 1 .. m : j # i => ByteFlipped(u, i, k)[j] = u[j]
    BY <2>1, ElsewhereKept
  <2> QED BY <2>2, <2>3
<1>10. PICK uv \in Buffers(m) :
         /\ uv = ByteFlipped(u, h, l) /\ uv[h] = FlippedByte(u[h], Masks[l])
         /\ \A j \in 1 .. m : j # h => uv[j] = u[j]
  <2>1. u \in Buffers(m) /\ h \in 1 .. m /\ l \in 1 .. 8
    BY <1>2, <1>7
  <2>2. ByteFlipped(u, h, l) \in Buffers(m) /\ ByteFlipped(u, h, l)[h] = FlippedByte(u[h], Masks[l])
    BY <2>1, HereFlipped
  <2>3. \A j \in 1 .. m : j # h => ByteFlipped(u, h, l)[j] = u[j]
    BY <2>1, ElsewhereKept
  <2> QED BY <2>2, <2>3
<1>11. PICK vu \in Buffers(m) :
         /\ vu = ByteFlipped(v, i, k) /\ vu[i] = FlippedByte(v[i], Masks[k])
         /\ \A j \in 1 .. m : j # i => vu[j] = v[j]
  <2>1. v \in Buffers(m) /\ i \in 1 .. m /\ k \in 1 .. 8
    BY <1>1, <1>8
  <2>2. ByteFlipped(v, i, k) \in Buffers(m) /\ ByteFlipped(v, i, k)[i] = FlippedByte(v[i], Masks[k])
    BY <2>1, HereFlipped
  <2>3. \A j \in 1 .. m : j # i => ByteFlipped(v, i, k)[j] = v[j]
    BY <2>1, ElsewhereKept
  <2> QED BY <2>2, <2>3
<1>12. \A y, z \in Buffers(m) : (\A j \in 1 .. m : y[j] = z[j]) => y = z
  BY DEF Buffers
<1>13. twice = x
  <2> SUFFICES ASSUME NEW j \in 1 .. m PROVE twice[j] = x[j]
    BY <1>12
  <2> QED BY <1>4, <1>6, <1>7, <1>9
<1>14. uv = vu
  <2> SUFFICES ASSUME NEW j \in 1 .. m PROVE uv[j] = vu[j]
    BY <1>12
  <2>1. CASE j = i /\ j = h
    BY <1>4, <1>6, <1>7, <1>8, <1>10, <1>11, <2>1
  <2>2. CASE j # i \/ j # h
    BY <1>7, <1>8, <1>10, <1>11, <2>2
  <2> QED BY <2>1, <2>2
<1>15. FlipBit(x, b) = u /\ FlipBit(u, b) = x /\ FlipBit(u, c) = uv /\ FlipBit(x, c) = v /\ FlipBit(v, b) = uv
  BY <1>3, <1>7, <1>8, <1>9, <1>10, <1>11, <1>13, <1>14
<1> QED BY <1>1, <1>7, <1>15

(* The flips of n bits from b on, one after the other. *)
Flippings(m, b, n, r) ==
    /\ r \in [0 .. n -> [Buffers(m) -> Buffers(m)]]
    /\ \A x \in Buffers(m) : r[0][x] = x
    /\ \A k \in 1 .. n : \A x \in Buffers(m) : r[k][x] = FlipBit(r[k - 1][x], b + k - 1)

(* There is such a recursion, and FlipBits is its value. *)
LEMMA FlippingsExist ==
    ASSUME NEW m \in Nat, NEW n \in Nat, NEW b \in Nat, b + n <= 8 * m
    PROVE  \E r : Flippings(m, b, n, r) /\ \A x \in Buffers(m) : FlipBits(x, b, n) = r[n][x]
<1> DEFINE T == [Buffers(m) -> Buffers(m)]
           same == [x \in Buffers(m) |-> x]
           step == [k \in 1 .. n |-> [g \in T |-> [x \in Buffers(m) |-> FlipBit(g[x], b + k - 1)]]]
<1>1. ASSUME NEW k \in 1 .. n, NEW x \in Buffers(m) PROVE FlipBit(x, b + k - 1) \in Buffers(m)
  <2>1. b + k - 1 \in 0 .. 8 * m - 1
    OBVIOUS
  <2> QED BY <2>1, BitFlips
<1>2. same \in T
  OBVIOUS
<1>3. ASSUME NEW k \in 1 .. n, NEW g \in T PROVE [x \in Buffers(m) |-> FlipBit(g[x], b + k - 1)] \in T
  <2>1. \A x \in Buffers(m) : g[x] \in Buffers(m)
    OBVIOUS
  <2>2. \A x \in Buffers(m) : FlipBit(g[x], b + k - 1) \in Buffers(m)
    BY <1>1, <2>1
  <2> QED BY <2>2
<1>4. step \in [1 .. n -> [T -> T]]
  <2> HIDE DEF T
  <2> QED BY <1>3
<1>5. PICK r : Recurs(r, n, T, same, step)
  <2> HIDE DEF T, same, step
  <2> QED BY <1>2, <1>4, RecursionExists
<1>6. Flippings(m, b, n, r)
  <2>1. r \in [0 .. n -> T] /\ r[0] = same /\ \A k \in 1 .. n : r[k] = step[k][r[k - 1]]
    BY <1>5 DEF Recurs
  <2>2. \A x \in Buffers(m) : r[0][x] = x
    BY <2>1
  <2>3. ASSUME NEW k \in 1 .. n, NEW x \in Buffers(m) PROVE r[k][x] = FlipBit(r[k - 1][x], b + k - 1)
    <3>1. r[k - 1] \in T
      <4>1. k - 1 \in 0 .. n
        OBVIOUS
      <4> HIDE DEF T
      <4> QED BY <2>1, <4>1
    <3>2. r[k] = step[k][r[k - 1]]
      BY <2>1
    <3>3. step[k][r[k - 1]] = [y \in Buffers(m) |-> FlipBit(r[k - 1][y], b + k - 1)]
      <4> HIDE DEF T
      <4> QED BY <3>1
    <3> QED BY <3>2, <3>3
  <2> QED BY <2>1, <2>2, <2>3 DEF Flippings
<1>7. ASSUME NEW x \in Buffers(m) PROVE FlipBits(x, b, n) = r[n][x]
  <2> DEFINE Unfolds(f) == f = [k \in 0 .. n |-> IF k = 0 THEN x ELSE FlipBit(f[k - 1], b + k - 1)]
             flipped == CHOOSE f : Unfolds(f)
             g == [k \in 0 .. n |-> r[k][x]]
  <2>1. FlipBits(x, b, n) = flipped[n]
    BY DEF FlipBits
  <2>2. Unfolds(g)
    <3>1. ASSUME NEW k \in 0 .. n PROVE r[k][x] = IF k = 0 THEN x ELSE FlipBit(g[k - 1], b + k - 1)
      <4>1. CASE k = 0
        BY <1>6, <4>1 DEF Flippings
      <4>2. CASE k # 0
        <5>1. k \in 1 .. n /\ k - 1 \in 0 .. n
          BY <4>2
        <5>2. g[k - 1] = r[k - 1][x]
          BY <5>1
        <5> QED BY <1>6, <4>2, <5>1, <5>2 DEF Flippings
      <4> QED BY <4>1, <4>2
    <3> QED BY <3>1
  <2>3. Unfolds(flipped)
    <3> HIDE DEF Unfolds, g
    <3> QED BY <2>2
  <2> DEFINE S == {k \in 0 .. n : flipped[k] = r[k][x]}
  <2> HIDE DEF flipped
  <2>4. 0 \in S
    BY <1>6, <2>3 DEF Flippings
  <2>5. ASSUME NEW k \in 1 .. n, k - 1 \in S PROVE k \in S
    <3>1. flipped[k] = FlipBit(flipped[k - 1], b + k - 1)
      BY <2>3
    <3> QED BY <1>6, <2>5, <3>1 DEF Flippings
  <2>6. 0 .. n \subseteq S
    <3> HIDE DEF S
    <3> QED BY <2>4, <2>5, IntervalInduction
  <2> QED BY <2>1, <2>6
<1> QED BY <1>6, <1>7

(* The second time they put the buffer right. *)
LEMMA FlipsBack ==
    ASSUME NEW m \in Nat, NEW n \in Nat, NEW b \in Nat, b + n <= 8 * m, NEW x \in Buffers(m)
    PROVE  /\ FlipBits(x, b, n) \in Buffers(m) /\ FlipBits(FlipBits(x, b, n), b, n) = x
           /\ \A j \in 1 .. m : (j - 1 < b \div 8 \/ j - 1 > (b + n - 1) \div 8) => FlipBits(x, b, n)[j] = x[j]
<1>1. PICK r : Flippings(m, b, n, r) /\ \A y \in Buffers(m) : FlipBits(y, b, n) = r[n][y]
  BY FlippingsExist
<1>2. \A k \in 0 .. n : \A y \in Buffers(m) : r[k][y] \in Buffers(m)
  BY <1>1 DEF Flippings
<1>3. \A k \in 1 .. n : b + k - 1 \in 0 .. 8 * m - 1
  OBVIOUS
<1>4. ASSUME NEW c \in 0 .. 8 * m - 1, NEW y \in Buffers(m)
      PROVE  \A k \in 0 .. n : FlipBit(r[k][y], c) = r[k][FlipBit(y, c)]
  <2> DEFINE S == {k \in 0 .. n : FlipBit(r[k][y], c) = r[k][FlipBit(y, c)]}
  <2>1. FlipBit(y, c) \in Buffers(m)
    BY BitFlips
  <2>2. 0 \in S
    BY <1>1, <2>1 DEF Flippings
  <2>3. ASSUME NEW k \in 1 .. n, k - 1 \in S PROVE k \in S
    <3>1. k - 1 \in 0 .. n
      OBVIOUS
    <3>2. PICK z \in Buffers(m) : z = r[k - 1][y]
      BY <1>2, <3>1
    <3>3. PICK d \in 0 .. 8 * m - 1 : d = b + k - 1
      BY <1>3
    <3>4. r[k][y] = FlipBit(z, d) /\ r[k][FlipBit(y, c)] = FlipBit(FlipBit(z, c), d)
      BY <1>1, <2>1, <2>3, <3>2, <3>3 DEF Flippings
    <3>5. FlipBit(FlipBit(z, d), c) = FlipBit(FlipBit(z, c), d)
      BY BitFlips
    <3> QED BY <3>4, <3>5
  <2>4. 0 .. n \subseteq S
    <3> HIDE DEF S
    <3> QED BY <2>2, <2>3, IntervalInduction
  <2> QED BY <2>4
<1>5. \A k \in 0 .. n : \A y \in Buffers(m) : r[k][r[k][y]] = y
  <2> DEFINE S == {k \in 0 .. n : \A y \in Buffers(m) : r[k][r[k][y]] = y}
  <2>1. 0 \in S
    BY <1>1 DEF Flippings
  <2>2. ASSUME NEW k \in 1 .. n, k - 1 \in S PROVE k \in S
    <3> SUFFICES ASSUME NEW y \in Buffers(m) PROVE r[k][r[k][y]] = y
      OBVIOUS
    <3>1. PICK d \in 0 .. 8 * m - 1 : d = b + k - 1
      BY <1>3
    <3>2. PICK h \in 0 .. n : h = k - 1
      OBVIOUS
    <3>3. PICK z \in Buffers(m) : z = r[h][y]
      BY <1>2
    <3>4. \A w \in Buffers(m) : r[k][w] = FlipBit(r[h][w], d)
      BY <1>1, <3>1, <3>2 DEF Flippings
    <3>5. FlipBit(z, d) \in Buffers(m) /\ FlipBit(FlipBit(z, d), d) = z
      BY BitFlips
    <3>6. r[k][r[k][y]] = FlipBit(r[h][FlipBit(z, d)], d)
      BY <3>3, <3>4, <3>5
    <3>7. r[h][FlipBit(z, d)] = FlipBit(r[h][z], d)
      BY <1>4
    <3>8. r[h][z] = y
      BY <2>2, <3>2, <3>3
    <3>9. FlipBit(FlipBit(y, d), d) = y
      BY BitFlips
    <3> QED BY <3>6, <3>7, <3>8, <3>9
  <2>3. 0 .. n \subseteq S
    <3> HIDE DEF S
    <3> QED BY <2>1, <2>2, IntervalInduction
  <2> QED BY <2>3
<1>6. ASSUME NEW j \in 1 .. m, j - 1 < b \div 8 \/ j - 1 > (b + n - 1) \div 8
      PROVE  \A k \in 0 .. n : r[k][x][j] = x[j]
  <2> DEFINE S == {k \in 0 .. n : r[k][x][j] = x[j]}
  <2>1. 0 \in S
    BY <1>1 DEF Flippings
  <2>2. ASSUME NEW k \in 1 .. n, k - 1 \in S PROVE k \in S
    <3>1. PICK d \in 0 .. 8 * m - 1 : d = b + k - 1
      BY <1>3
    <3>2. PICK z \in Buffers(m) : z = r[k - 1][x]
      BY <1>2
    <3>3. j # (d \div 8) + 1
      BY <1>6, <3>1
    <3>4. FlipBit(z, d)[j] = z[j]
      BY <3>3, BitFlips
    <3>5. r[k][x] = FlipBit(z, d)
      BY <1>1, <3>1, <3>2 DEF Flippings
    <3> QED BY <2>2, <3>2, <3>4, <3>5
  <2>3. 0 .. n \subseteq S
    <3> HIDE DEF S
    <3> QED BY <2>1, <2>2, IntervalInduction
  <2> QED BY <2>3
<1> QED BY <1>1, <1>2, <1>5, <1>6

(* A piece of a buffer, as the stages copy it *)
PieceOf(y, p, n) == [i \in 1 .. n |-> y[p + i]]

(* Slice copies it. *)
LEMMA SliceIs ==
    ASSUME NEW buf, NEW p \in Nat, NEW n \in Nat
    PROVE  Slice(buf, p, n) = PieceOf(buf, p, n)
BY DEF Slice, PieceOf

(* The length of a function on 1 .. n. *)
LEMMA LengthIs ==
    ASSUME NEW n \in Nat, NEW w, w = [i \in 1 .. n |-> w[i]]
    PROVE  Len(w) = n /\ DOMAIN w = 1 .. n
<1>1. w \in Seq({w[i] : i \in 1 .. n})
  OBVIOUS
<1> QED BY <1>1

(* x differs from the n bytes of y behind p at most. *)
NearlyIs(m, x, y, p, n) ==
    x = [k \in 1 .. m |-> x[k]] /\ \A k \in 1 .. m : x[k] # y[k] => k \in p + 1 .. p + n

(* What was there before is put back. *)
LEMMA PutBack ==
    ASSUME NEW m \in Nat, NEW p \in Nat, NEW n \in Nat, NEW y \in Buffers(m), NEW x, NearlyIs(m, x, y, p, n),
           NEW w, w = PieceOf(y, p, n)
    PROVE  Overlay(x, p, w) = y
<1> USE DEF PieceOf
<1>1. DOMAIN x = 1 .. m /\ DOMAIN w = 1 .. n /\ y = [k \in 1 .. m |-> y[k]]
  BY DEF NearlyIs, Buffers
<1>2. ASSUME NEW k \in 1 .. m PROVE (IF k - p \in DOMAIN w THEN w[k - p] ELSE x[k]) = y[k]
  <2>1. CASE k - p \in 1 .. n
    <3>1. w[k - p] = y[p + (k - p)] /\ p + (k - p) = k
      BY <2>1
    <3> QED BY <1>1, <2>1, <3>1
  <2>2. CASE k - p \notin 1 .. n
    <3>1. k \notin p + 1 .. p + n
      BY <2>2
    <3> QED BY <1>1, <2>2, <3>1 DEF NearlyIs
  <2> QED BY <2>1, <2>2
<1>3. Overlay(x, p, w) = [k \in 1 .. m |-> IF k - p \in DOMAIN w THEN w[k - p] ELSE x[k]]
  BY <1>1 DEF Overlay
<1> QED BY <1>1, <1>2, <1>3

(* What is written over it covers what was written before. *)
LEMMA WriteOver ==
    ASSUME NEW m \in Nat, NEW p \in Nat, NEW n \in Nat, NEW h \in Nat, n <= h,
           NEW y \in Buffers(m), NEW x, NearlyIs(m, x, y, p, n), NEW w, DOMAIN w = 1 .. h
    PROVE  NearlyIs(m, Overlay(x, p, w), y, p, h)
<1>1. DOMAIN x = 1 .. m
  BY DEF NearlyIs
<1>2. PICK r : r = Overlay(x, p, w)
  OBVIOUS
<1>3. r = [k \in 1 .. m |-> IF k - p \in 1 .. h THEN w[k - p] ELSE x[k]]
  BY <1>1, <1>2 DEF Overlay
<1>4. ASSUME NEW k \in 1 .. m, r[k] # y[k] PROVE k \in p + 1 .. p + h
  <2>1. CASE k - p \in 1 .. h
    BY <2>1
  <2>2. CASE k - p \notin 1 .. h
    <3>1. x[k] # y[k]
      BY <1>3, <1>4, <2>2
    <3> QED BY <3>1 DEF NearlyIs
  <2> QED BY <2>1, <2>2
<1>5. r = [k \in 1 .. m |-> r[k]]
  BY <1>3
<1> QED BY <1>2, <1>4, <1>5 DEF NearlyIs

(* Whole bytes are flipped, and flipped back. *)
LEMMA BytesFlipBack ==
    ASSUME NEW m \in Nat, NEW p \in Nat, NEW n \in Nat, NEW y \in Buffers(m)
    PROVE  FlipBytes(FlipBytes(y, p, n), p, n) = y /\ NearlyIs(m, FlipBytes(y, p, n), y, p, n)
<1> DEFINE w == [k \in 1 .. n |-> 255 - y[p + k]]
<1>1. PICK r : r = FlipBytes(y, p, n)
  OBVIOUS
<1>2. NearlyIs(m, y, y, p, n)
  BY DEF NearlyIs, Buffers
<1>3. NearlyIs(m, r, y, p, n)
  <2>1. DOMAIN w = 1 .. n /\ r = Overlay(y, p, w) /\ n <= n
    BY <1>1 DEF FlipBytes
  <2> HIDE DEF w
  <2> QED BY <1>2, <2>1, WriteOver
<1>4. DOMAIN y = 1 .. m /\ y = [k \in 1 .. m |-> y[k]] /\ \A k \in 1 .. m : y[k] \in 0 .. 255
  BY DEF Buffers, Byte
<1>5. r = [k \in 1 .. m |-> IF k - p \in 1 .. n THEN 255 - y[p + (k - p)] ELSE y[k]]
  BY <1>1, <1>4 DEF FlipBytes, Overlay
<1>6. ASSUME NEW k \in 1 .. m PROVE r[k] = IF k - p \in 1 .. n THEN 255 - y[k] ELSE y[k]
  <2>1. p + (k - p) = k
    OBVIOUS
  <2> QED BY <1>5, <2>1
<1>7. FlipBytes(r, p, n) = [k \in 1 .. m |-> IF k - p \in 1 .. n THEN 255 - r[p + (k - p)] ELSE r[k]]
  <2>1. DOMAIN r = 1 .. m
    BY <1>5
  <2> QED BY <2>1 DEF FlipBytes, Overlay
<1>8. ASSUME NEW k \in 1 .. m PROVE (IF k - p \in 1 .. n THEN 255 - r[p + (k - p)] ELSE r[k]) = y[k]
  <2>1. p + (k - p) = k
    OBVIOUS
  <2>2. y[k] \in 0 .. 255 /\ r[k] = IF k - p \in 1 .. n THEN 255 - y[k] ELSE y[k]
    BY <1>4, <1>6
  <2> QED BY <2>1, <2>2
<1> QED BY <1>1, <1>3, <1>4, <1>7, <1>8

(* A sum is as long as what is added to. *)
LEMMA PlusLong ==
    ASSUME NEW n \in Nat, NEW w, DOMAIN w = 1 .. n, NEW d
    PROVE  Len(Plus(w, d)) = n /\ DOMAIN Plus(w, d) = 1 .. n
<1>1. PICK r : r = Plus(w, d)
  OBVIOUS
<1>2. r = [k \in 1 .. n |-> r[k]]
  BY <1>1 DEF Plus
<1> QED BY <1>1, <1>2, LengthIs

(* So is what is turned around. *)
LEMMA ReverseLong ==
    ASSUME NEW n \in Nat, NEW w, Len(w) = n
    PROVE  DOMAIN Reverse(w) = 1 .. n
BY DEF Reverse

FlippingStages == BitStages \cup FlipStages
WordStages == ArithStages \cup IntStages

(* The stages are of these kinds. *)
LEMMA StageKinds ==
    ASSUME NEW s
    PROVE  /\ s \in Range(Stages) <=> s \in FlippingStages \/ s \in WordStages \/ s \in OverStages \/ s = "extUI"
           /\ s \in FlippingStages => s \notin WordStages /\ s \notin OverStages /\ s # "extUI" /\ Width(s) \in {1, 2, 4}
           /\ s \in WordStages => s \notin FlippingStages /\ s \notin OverStages /\ s # "extUI" /\ Width(s) \in {1, 2, 4}
           /\ s \in OverStages => s # "extUI"
           /\ s \in Range(Stages) => s \notin {"score", "havoc", "mutant", "tweaks", "splice", "done", "abandoned"}
<1>1. s \in Range(Stages) <=> s \in {"flip1", "flip2", "flip4", "flip8", "flip16", "flip32", "arith8", "arith16", "arith32",
            "int8", "int16", "int32", "extUO", "extUI", "extAO"}
  <2>1. DOMAIN Stages = {1, 2, 3, 4, 5, 6, 7, 8, 9, 10, 11, 12, 13, 14, 15}
    BY DEF Stages
  <2>2. /\ Stages[1] = "flip1" /\ Stages[2] = "flip2" /\ Stages[3] = "flip4" /\ Stages[4] = "flip8"
        /\ Stages[5] = "flip16" /\ Stages[6] = "flip32" /\ Stages[7] = "arith8" /\ Stages[8] = "arith16"
        /\ Stages[9] = "arith32" /\ Stages[10] = "int8" /\ Stages[11] = "int16" /\ Stages[12] = "int32"
        /\ Stages[13] = "extUO" /\ Stages[14] = "extUI" /\ Stages[15] = "extAO"
    BY DEF Stages
  <2> QED BY <2>1, <2>2 DEF Range
<1>2. s \in FlippingStages <=> s \in {"flip1", "flip2", "flip4", "flip8", "flip16", "flip32"}
  BY DEF FlippingStages, BitStages, FlipStages
<1>3. s \in WordStages <=> s \in {"arith8", "arith16", "arith32", "int8", "int16", "int32"}
  BY DEF WordStages, ArithStages, IntStages
<1>4. s \in FlippingStages \/ s \in WordStages => Width(s) \in {1, 2, 4}
  BY <1>2, <1>3 DEF Width
<1> QED BY <1>1, <1>2, <1>3, <1>4 DEF OverStages

(* After a stage comes another, or havoc. *)
LEMMA AfterTyped ==
    ASSUME NEW s \in Range(Stages)
    PROVE  After(s) \in Range(Stages) \cup {"havoc"}
<1> DEFINE number == CHOOSE k \in DOMAIN Stages : Stages[k] = s
           next == {k \in number + 1 .. Len(Stages) : ~Omitted(Stages[k])}
<1>1. After(s) = IF next = {} THEN "havoc" ELSE Stages[Lowest(next)]
  BY DEF After
<1>2. DOMAIN Stages = 1 .. 15 /\ Len(Stages) = 15
  BY DEF Stages
<1>3. number \in 1 .. 15
  <2>1. \E k \in DOMAIN Stages : Stages[k] = s
    BY DEF Range
  <2>2. number \in DOMAIN Stages
    BY <2>1
  <2> QED BY <1>2, <2>2
<1>4. next \in SUBSET (1 .. 15)
  <2> HIDE DEF number
  <2> QED BY <1>2, <1>3
<1>5. CASE next # {}
  <2>1. next \in SUBSET Nat
    BY <1>4
  <2>2. Lowest(next) \in next
    <3> HIDE DEF next
    <3>1. \E b \in next : \A c \in next : b <= c
      BY <1>5, <2>1, LeastElement
    <3> QED BY <3>1 DEF Lowest
  <2>3. Stages[Lowest(next)] \in Range(Stages)
    <3> HIDE DEF next
    <3> QED BY <1>2, <1>4, <2>2 DEF Range
  <2> QED BY <1>1, <1>5, <2>3
<1> QED BY <1>1, <1>5

(* The entry is a buffer. *)
LEMMA EntryTyped ==
    ASSUME FuzzInv
    PROVE  len \in Nat \ {0} /\ entry \in Buffers(len)
<1>1. case.data \in Seq(0 .. 255) /\ Len(case.data) \in 1 .. MaxFile /\ MaxFile \in Nat
  BY EntriesTyped DEF FuzzInv
<1>2. PICK d \in Bytes : d = case.data
  BY <1>1 DEF Bytes, Byte
<1>3. d \in [1 .. Len(d) -> Byte]
  BY DEF Bytes
<1>4. entry = d /\ len = Len(d)
  BY <1>2 DEF len, entry
<1>5. Len(d) \in Nat \ {0}
  BY <1>1, <1>2
<1> QED BY <1>3, <1>4, <1>5 DEF Buffers

(* The words of a dictionary stage are sequences in order of length. *)
LEMMA TokensTyped ==
    ASSUME FuzzInv, NEW s \in OverStages \cup {"extUI"}
    PROVE  /\ Len(Tokens(s)) \in Nat
           /\ \A k \in 1 .. Len(Tokens(s)) : IsASequence(Tokens(s)[k])
           /\ \A j, k \in 1 .. Len(Tokens(s)) : j < k => Len(Tokens(s)[j]) <= Len(Tokens(s)[k])
<1>1. PICK X : (\A t \in X : IsASequence(t)) /\ auto \in Autos(X) /\ TopOrdered(auto)
  BY DEF FuzzInv, WordsTyped
<1>2. CASE s = "extAO"
  <2> DEFINE T == [data : X, hits : Nat]
             n == Smaller(UseAutoExtras, Len(auto))
  <2>1. auto \in Seq(T)
    <3>1. auto \in Autos(X)
      BY <1>1
    <3> QED BY <3>1 DEF Autos
  <2>2. Len(auto) \in Nat /\ \A k \in 1 .. Len(auto) : auto[k] \in T
    <3> HIDE DEF T
    <3> QED BY <2>1
  <2>3. n \in Nat /\ n <= Len(auto)
    BY <2>2, AutoTyped DEF Smaller
  <2>4. Tokens(s) = [k \in 1 .. n |-> auto[k].data]
    BY <1>2 DEF Tokens
  <2>5. Len(Tokens(s)) = n
    <3> HIDE DEF n
    <3> QED BY <2>3, <2>4
  <2>6. \A k \in 1 .. n : Tokens(s)[k] = auto[k].data /\ auto[k].data \in X
    BY <2>2, <2>3, <2>4
  <2>7. \A j, k \in 1 .. n : j < k => Len(auto[j].data) <= Len(auto[k].data)
    BY <1>1 DEF TopOrdered
  <2> HIDE DEF n
  <2> QED BY <1>1, <2>3, <2>5, <2>6, <2>7
<1>3. CASE s # "extAO"
  <2>1. Tokens(s) = extras
    BY <1>3 DEF Tokens
  <2> QED BY <2>1 DEF FuzzInv, WordsTyped, IsASequence
<1> QED BY <1>2, <1>3

(* Positions and candidates are numbers. *)
LEMMA StageTyped ==
    ASSUME FuzzInv, NEW s \in Range(Stages)
    PROVE  /\ Positions(s) \in Int /\ Candidates(s) \in Nat
           /\ s \in FlippingStages => Candidates(s) = 1
           /\ s \in OverStages \cup {"extUI"} => Candidates(s) = Len(Tokens(s))
<1>1. len \in Nat
  BY EntryTyped
<1>2. CASE s \in FlippingStages
  <2>1. Width(s) \in {1, 2, 4} /\ s \notin OverStages \cup {"extUI"}
    BY <1>2, StageKinds
  <2>2. Candidates(s) = 1
    <3>1. s \notin ArithStages /\ s \notin IntStages
      BY <1>2, StageKinds DEF WordStages
    <3> QED BY <1>2, <3>1 DEF Candidates, FlippingStages
  <2>3. Positions(s) \in Int
    BY <1>1, <2>1 DEF Positions
  <2> QED BY <2>1, <2>2, <2>3
<1>3. CASE s \in WordStages
  <2>1. Width(s) \in {1, 2, 4} /\ s \notin OverStages \cup {"extUI"} /\ s \notin FlippingStages
    BY <1>3, StageKinds
  <2>2. Positions(s) \in Int
    BY <1>1, <2>1 DEF Positions
  <2>3. Orders(s) \in {1, 2}
    BY DEF Orders
  <2>4. CASE s \in ArithStages
    <3>1. Candidates(s) = 2 * Orders(s) * ArithMax
      <4>1. s \notin IntStages
        BY <2>4 DEF ArithStages, IntStages
      <4> QED BY <2>1, <2>4, <4>1 DEF Candidates, FlippingStages
    <3>2. ArithMax \in Nat
      BY ArithMaxTyped
    <3> QED BY <2>1, <2>2, <2>3, <3>1, <3>2
  <2>5. CASE s \in IntStages /\ s \notin ArithStages
    <3>1. Candidates(s) = Orders(s) * Len(Interesting(s))
      BY <2>1, <2>5 DEF Candidates, FlippingStages
    <3>2. Interesting(s) \in Seq(Int)
      BY <2>5, InterestingTyped DEF Interesting, IntStages
    <3>3. Len(Interesting(s)) \in Nat
      BY <3>2
    <3> QED BY <2>1, <2>2, <2>3, <3>1, <3>3
  <2> QED BY <1>3, <2>4, <2>5 DEF WordStages
<1>4. CASE s \in OverStages \cup {"extUI"}
  <2>1. s \notin FlippingStages /\ s \notin WordStages /\ s \notin BitStages
    BY <1>4, StageKinds DEF FlippingStages
  <2>2. Candidates(s) = Len(Tokens(s))
    BY <2>1 DEF Candidates, FlippingStages, WordStages
  <2>3. Positions(s) \in Int
    BY <1>1, <1>4, <2>1 DEF Positions
  <2> QED BY <1>4, <2>1, <2>2, <2>3, TokensTyped
<1> QED BY <1>2, <1>3, <1>4, StageKinds

(* What a candidate of these stages writes is as wide as the stage. *)
LEMMA ProposedLong ==
    ASSUME stage \in WordStages, NEW n \in Nat, n = Width(stage), DOMAIN orig = 1 .. n, Len(orig) = n
    PROVE  DOMAIN Proposed.to = 1 .. n
<1>1. Len(Reverse(orig)) = n /\ DOMAIN Reverse(orig) = 1 .. n
  <2>1. PICK r : r = Reverse(orig)
    OBVIOUS
  <2>2. r = [k \in 1 .. n |-> r[k]]
    BY <2>1 DEF Reverse
  <2> QED BY <2>1, <2>2, LengthIs
<1>2. CASE stage \in ArithStages
  <2>1. PICK w, d : DOMAIN w = 1 .. n /\ (Proposed.to = Reverse(Plus(w, d)) \/ Proposed.to = Plus(w, d))
    <3> DEFINE number == (cand - 1) \div (2 * Orders(stage)) + 1
               variant == (cand - 1) % (2 * Orders(stage))
               d == IF variant % 2 = 0 THEN number ELSE -number
               bigEndian == variant >= 2
               w == IF bigEndian THEN Reverse(orig) ELSE orig
    <3>1. Proposed.to = IF bigEndian THEN Reverse(Plus(w, d)) ELSE Plus(w, d)
      BY <1>2 DEF Proposed, Arith, Candidate
    <3>2. DOMAIN w = 1 .. n
      BY <1>1
    <3> HIDE DEF w, d, bigEndian
    <3> QED BY <3>1, <3>2
  <2>2. Len(Plus(w, d)) = n /\ DOMAIN Plus(w, d) = 1 .. n
    BY <2>1, PlusLong
  <2> QED BY <2>1, <2>2, ReverseLong
<1>3. CASE stage \in IntStages /\ stage \notin ArithStages
  <2>1. PICK v : Proposed.to = Reverse(Word(v, n)) \/ Proposed.to = Word(v, n)
    <3> DEFINE number == (cand - 1) \div Orders(stage) + 1
               bigEndian == (cand - 1) % Orders(stage) = 1
               v == Interesting(stage)[number]
    <3>1. Proposed.to = IF bigEndian THEN Reverse(Word(v, n)) ELSE Word(v, n)
      BY <1>3 DEF Proposed, Insertion, Candidate
    <3> HIDE DEF v, bigEndian
    <3> QED BY <3>1
  <2>2. Len(Word(v, n)) = n /\ DOMAIN Word(v, n) = 1 .. n
    <3>1. PICK z : z = [k \in 1 .. n |-> 0]
      OBVIOUS
    <3> QED BY <3>1, PlusLong DEF Word
  <2> QED BY <2>1, <2>2, ReverseLong
<1> QED BY <1>2, <1>3 DEF WordStages

(* The mutants that are left of a stage with P positions of C candidates *)
Left(P, C, p, c) == (P - p) * C - (IF c = 0 THEN 0 ELSE c - 1)

(* Where the stage is, and what stage_cur and stage_max say of it *)
Placed ==
    /\ stage = "score" => pos = 0 /\ cand = 0 /\ stageCur = 0
    /\ Working => /\ pos \in Nat /\ cand \in Nat /\ stageCur \in Int /\ stageMax \in Int
                  /\ cand # 0 => pos < Positions(stage)
                  /\ stageMax - stageCur = Left(Positions(stage), Candidates(stage), pos, cand)

(* n bytes of the entry are kept in orig, and others may be in the buffer *)
Patched(n) == orig = PieceOf(entry, pos, n) /\ NearlyIs(len, out, entry, pos, n)

(* The buffer is the entry with what the current candidate does to it, and what  *)
(* is needed to undo that is at hand.  The words of a dictionary are ordered by *)
(* length, so each covers what the one before it left.                         *)
Intact ==
    /\ stage \in {"score", "havoc", "mutant", "tweaks", "splice", "done", "extUI"} => out = entry
    /\ Working /\ cand = 0 => out = entry
    /\ stage \in FlippingStages => cand \in 0 .. 2 /\ (cand = 1 => out = entry) /\ (cand = 2 => out = FlipHere(entry))
    /\ stage \in WordStages /\ cand # 0 => Patched(Width(stage))
    /\ stage \in OverStages /\ cand # 0 =>
          \E n \in Nat : Patched(n) /\ \A j \in cand .. Candidates(stage) : n <= Len(Tokens(stage)[j])

BufferInv == FuzzInv /\ Placed /\ Intact

(* At the beginning all are left, and none after the last position. *)
LEMMA LeftEnds ==
    ASSUME NEW P \in Int, NEW C \in Nat
    PROVE  Left(P, C, 0, 0) = P * C /\ Left(P, C, P, 0) = 0
<1>1. (P - P) * C = 0 /\ (P - 0) * C = P * C
  OBVIOUS
<1> QED BY <1>1 DEF Left

(* One mutant less. *)
LEMMA LeftSteps ==
    ASSUME NEW P \in Int, NEW C \in Nat, NEW p \in Int, NEW c \in Nat
    PROVE  /\ Left(P, C, p, c) \in Int /\ (c # 0 => Left(P, C, p, c + 1) = Left(P, C, p, c) - 1)
           /\ Left(P, C, p, 1) = Left(P, C, p, 0) /\ Left(P, C, p + 1, 0) = Left(P, C, p, C + 1)
           /\ Left(P, C, p + 1, 0) = Left(P, C, p, 0) - C
<1>1. (P - (p + 1)) * C = (P - p) * C - C
  OBVIOUS
<1>2. PICK a \in Int, b \in Int : a = (P - p) * C /\ b = (P - (p + 1)) * C /\ b = a - C
  BY <1>1
<1>3. Left(P, C, p, c) = a - (IF c = 0 THEN 0 ELSE c - 1) /\ Left(P, C, p, c + 1) = a - (IF c + 1 = 0 THEN 0 ELSE (c + 1) - 1)
      /\ Left(P, C, p, 1) = a /\ Left(P, C, p, 0) = a /\ Left(P, C, p + 1, 0) = b
      /\ Left(P, C, p, C + 1) = a - C
  BY <1>2 DEF Left
<1> QED BY <1>2, <1>3

(* Stages are measured by what does not change during them. *)
LEMMA StagesPrimed ==
    ASSUME UNCHANGED <<case, extras>>, NEW s, stage' = s, s \in Range(Stages), auto' = auto \/ s \in FlippingStages
    PROVE  /\ entry' = entry /\ len' = len
           /\ Positions(stage)' = Positions(s) /\ Candidates(stage)' = Candidates(s) /\ Width(stage)' = Width(s)
           /\ auto' = auto => Tokens(stage)' = Tokens(s)
<1>1. entry' = entry
  BY DEF entry
<1>2. len' = len
  BY <1>1 DEF len
<1>3. Width(stage)' = Width(s)
  BY DEF Width
<1>4. Positions(stage)' = Positions(s)
  BY <1>2 DEF Positions, Width
<1>5. auto' = auto => Tokens(stage)' = Tokens(s)
  BY DEF Tokens
<1>6. Candidates(stage)' = Candidates(s)
  <2>1. CASE s \in FlippingStages
    <3>1. s \notin ArithStages /\ s \notin IntStages
      BY <2>1, StageKinds DEF WordStages
    <3>2. Candidates(s) = 1
      BY <2>1, <3>1 DEF Candidates, FlippingStages
    <3>3. Candidates(stage)' = 1
      BY <2>1, <3>1 DEF Candidates, FlippingStages
    <3> QED BY <3>2, <3>3
  <2>2. CASE auto' = auto
    BY <1>5, <2>2 DEF Candidates, Orders, Width, Interesting
  <2> QED BY <2>1, <2>2
<1> QED BY <1>1, <1>2, <1>3, <1>4, <1>5, <1>6

(* What a stage still has to do and what it says it has agree, step by step. *)
LEMMA PlacedStep ==
    ASSUME FuzzInv, Placed, AtPosition, UNCHANGED <<case, extras, stage>>, auto' = auto \/ stage \in FlippingStages,
           \/ /\ cand # 0 /\ cand' = cand + 1 /\ pos' = pos
              /\ \/ stageCur' = stageCur + 1 /\ stageMax' = stageMax
                 \/ stageCur' = stageCur /\ stageMax' = stageMax - 1
           \/ cand = 0 /\ cand' = 1 /\ pos' = pos /\ UNCHANGED counts
           \/ cand = Candidates(stage) + 1 /\ cand' = 0 /\ pos' = pos + 1 /\ UNCHANGED counts
           \/ cand = 0 /\ cand' = 0 /\ pos' = pos + 1 /\ stageCur' = stageCur /\ stageMax' = stageMax - Candidates(stage)
    PROVE  Placed'
<1>1. PICK s : s = stage
  OBVIOUS
<1>2. s \in Range(Stages) /\ Working /\ pos < Positions(s) /\ stage' = s
  BY <1>1 DEF AtPosition, Working
<1>3. PICK P \in Int, C \in Nat : P = Positions(s) /\ C = Candidates(s)
  BY <1>2, StageTyped
<1>4. Positions(stage)' = P /\ Candidates(stage)' = C /\ Positions(stage) = P /\ Candidates(stage) = C
  BY <1>1, <1>2, <1>3, StagesPrimed
<1>5. /\ pos \in Nat /\ cand \in Nat /\ stageCur \in Int /\ stageMax \in Int /\ pos < P
      /\ stageMax - stageCur = Left(P, C, pos, cand)
  BY <1>2, <1>3, <1>4 DEF Placed
<1>6. PICK p \in Nat, c \in Nat : p = pos /\ c = cand
  BY <1>5
<1>7. /\ Left(P, C, p, c) \in Int /\ (c # 0 => Left(P, C, p, c + 1) = Left(P, C, p, c) - 1)
      /\ Left(P, C, p, 1) = Left(P, C, p, 0) /\ Left(P, C, p + 1, 0) = Left(P, C, p, C + 1)
      /\ Left(P, C, p + 1, 0) = Left(P, C, p, 0) - C
  <2>1. p \in Int
    OBVIOUS
  <2> QED BY <2>1, LeftSteps
<1>8. /\ pos' \in Nat /\ cand' \in Nat /\ stageCur' \in Int /\ stageMax' \in Int /\ (cand' # 0 => pos' < P)
      /\ stageMax' - stageCur' = Left(P, C, pos', cand')
  <2>1. CASE /\ cand # 0 /\ cand' = cand + 1 /\ pos' = pos
             /\ \/ stageCur' = stageCur + 1 /\ stageMax' = stageMax
                \/ stageCur' = stageCur /\ stageMax' = stageMax - 1
    <3>1. Left(P, C, pos', cand') = Left(P, C, p, c) - 1
      BY <1>6, <1>7, <2>1
    <3>2. stageMax' - stageCur' = stageMax - stageCur - 1
      BY <1>5, <2>1
    <3> QED BY <1>5, <1>6, <2>1, <3>1, <3>2
  <2>2. CASE cand = 0 /\ cand' = 1 /\ pos' = pos /\ UNCHANGED counts
    BY <1>5, <1>6, <1>7, <2>2 DEF counts
  <2>3. CASE cand = C + 1 /\ cand' = 0 /\ pos' = pos + 1 /\ UNCHANGED counts
    BY <1>5, <1>6, <1>7, <2>3 DEF counts
  <2>4. CASE cand = 0 /\ cand' = 0 /\ pos' = pos + 1 /\ stageCur' = stageCur /\ stageMax' = stageMax - C
    <3>1. Left(P, C, pos', cand') = Left(P, C, p, c) - C
      BY <1>6, <1>7, <2>4
    <3>2. stageMax' - stageCur' = stageMax - stageCur - C
      BY <1>5, <2>4
    <3> QED BY <1>5, <1>6, <2>4, <3>1, <3>2
  <2> QED BY <1>4, <2>1, <2>2, <2>3, <2>4
<1>9. stage' # "score"
  <2>1. s # "score"
    BY <1>2, StageKinds
  <2> QED BY <1>2, <2>1
<1> QED BY <1>4, <1>8, <1>9 DEF Placed

(* A flip is where Touched says, and is undone by another. *)
LEMMA FlipHereBack ==
    ASSUME FuzzInv, stage \in FlippingStages, pos \in Nat, pos < Positions(stage)
    PROVE  /\ FlipHere(FlipHere(entry)) = entry
           /\ \A k \in 1 .. len : FlipHere(entry)[k] # entry[k] => k \in Touched
<1>1. len \in Nat /\ entry \in Buffers(len)
  BY EntryTyped
<1>2. PICK w \in {1, 2, 4} : w = Width(stage)
  BY StageKinds
<1>3. stage \notin OverStages /\ stage # "extUI"
  BY StageKinds
<1>4. CASE stage \in BitStages
  <2>1. pos + w <= 8 * len
    <3>1. Positions(stage) = 8 * len - w + 1
      BY <1>2, <1>3, <1>4 DEF Positions
    <3> QED BY <1>1, <3>1
  <2>2. /\ FlipBits(entry, pos, w) \in Buffers(len) /\ FlipBits(FlipBits(entry, pos, w), pos, w) = entry
        /\ \A j \in 1 .. len : (j - 1 < pos \div 8 \/ j - 1 > (pos + w - 1) \div 8) => FlipBits(entry, pos, w)[j] = entry[j]
    BY <1>1, <2>1, FlipsBack
  <2>3. FlipHere(entry) = FlipBits(entry, pos, w) /\ FlipHere(FlipHere(entry)) = FlipBits(FlipBits(entry, pos, w), pos, w)
    BY <1>2, <1>4 DEF FlipHere
  <2>4. Touched = (pos \div 8) + 1 .. ((pos + w - 1) \div 8) + 1
    BY <1>2, <1>4 DEF Touched
  <2>5. ASSUME NEW k \in 1 .. len, FlipBits(entry, pos, w)[k] # entry[k]
        PROVE  k \in (pos \div 8) + 1 .. ((pos + w - 1) \div 8) + 1
    <3>1. PICK a \in Int, b \in Int : a = pos \div 8 /\ b = (pos + w - 1) \div 8
      OBVIOUS
    <3>2. ~(k - 1 < a \/ k - 1 > b)
      BY <2>2, <2>5, <3>1
    <3> QED BY <3>1, <3>2
  <2> QED BY <2>2, <2>3, <2>4, <2>5
<1>5. CASE stage \notin BitStages
  <2>1. FlipHere(entry) = FlipBytes(entry, pos, w) /\ FlipHere(FlipHere(entry)) = FlipBytes(FlipBytes(entry, pos, w), pos, w)
    BY <1>2, <1>5 DEF FlipHere
  <2>2. Touched = pos + 1 .. pos + w
    BY <1>2, <1>3, <1>5 DEF Touched
  <2>3. FlipBytes(FlipBytes(entry, pos, w), pos, w) = entry /\ NearlyIs(len, FlipBytes(entry, pos, w), entry, pos, w)
    BY <1>1, BytesFlipBack
  <2> QED BY <2>1, <2>2, <2>3 DEF NearlyIs
<1> QED BY <1>4, <1>5

(* What every step on a candidate or a position finds. *)
LEMMA PositionFacts ==
    ASSUME BufferInv, AtPosition
    PROVE  /\ stage \in Range(Stages) /\ Working /\ pos \in Nat /\ pos < Positions(stage) /\ cand \in Nat
           /\ len \in Nat /\ entry \in Buffers(len) /\ Candidates(stage) \in Nat
<1>1. stage \in Range(Stages) /\ Working /\ pos < Positions(stage)
  BY DEF AtPosition, Working
<1>2. pos \in Nat /\ cand \in Nat
  BY <1>1 DEF BufferInv, Placed
<1>3. PICK s : s = stage
  OBVIOUS
<1>4. Candidates(s) \in Nat
  BY <1>1, <1>3, StageTyped DEF BufferInv
<1> QED BY <1>1, <1>2, <1>3, <1>4, EntryTyped DEF BufferInv

(* Nothing is written: a position or a candidate is over. *)
LEMMA IntactMoved ==
    ASSUME BufferInv, AtPosition, UNCHANGED <<case, extras, stage>>, out' = entry, cand' = 0
    PROVE  Intact'
<1>1. entry' = entry /\ stage' = stage /\ out' = entry'
  BY DEF entry
<1>2. (stage \in FlippingStages)' /\ cand' = 0 => (cand \in 0 .. 2)'
  OBVIOUS
<1> QED BY <1>1, <1>2 DEF Intact

(* A word replaces the bytes at the position, and they are put back. *)
LEMMA WordsAndBack ==
    ASSUME BufferInv, TryWord \/ SkipWord \/ RestoreWord, FuzzInv'
    PROVE  BufferInv'
<1>1. /\ AtPosition /\ stage \in WordStages /\ UNCHANGED <<case, extras, auto, stage, orig>> /\ cand # 0
      /\ stage \in Range(Stages) /\ pos \in Nat /\ pos < Positions(stage) /\ cand \in Nat
      /\ len \in Nat /\ entry \in Buffers(len) /\ Candidates(stage) \in Nat
  <2>1. AtPosition /\ stage \in WordStages /\ UNCHANGED <<case, extras, auto, stage, orig>>
    BY DEF TryWord, SkipWord, RestoreWord, Trying, WordStages, buffers, Advances
  <2>2. Candidates(stage) \in Nat
    BY <2>1, PositionFacts
  <2>3. cand # 0
    BY <2>2 DEF TryWord, SkipWord, RestoreWord, Trying
  <2> QED BY <2>1, <2>3, PositionFacts
<1>2. PICK s : s = stage
  OBVIOUS
<1>3. PICK w \in Nat : w = Width(s)
  BY <1>1, <1>2, StageKinds
<1>4. orig = PieceOf(entry, pos, w) /\ NearlyIs(len, out, entry, pos, w)
  BY <1>1, <1>2, <1>3 DEF BufferInv, Intact, Patched
<1>5. entry' = entry /\ len' = len /\ Width(stage)' = w
  BY <1>1, <1>2, <1>3, StagesPrimed
<1>6. Placed'
  BY <1>1, PlacedStep DEF BufferInv, TryWord, SkipWord, RestoreWord, Runs, LeavesOut, Advances, Trying
<1>7. Intact'
  <2>1. stage \notin FlippingStages /\ stage \notin OverStages /\ stage # "extUI"
        /\ stage \notin {"score", "havoc", "mutant", "tweaks", "splice", "done"}
    BY <1>1, StageKinds
  <2>2. CASE RestoreWord
    <3>1. out' = Overlay(out, pos, orig) /\ cand' = 0
      BY <2>2 DEF RestoreWord, Advances
    <3>2. Overlay(out, pos, orig) = entry
      BY <1>1, <1>4, PutBack
    <3> QED BY <1>1, <3>1, <3>2, IntactMoved
  <2>3. CASE TryWord \/ SkipWord
    <3>1. cand' = cand + 1 /\ pos' = pos
      BY <2>3 DEF TryWord, SkipWord
    <3>2. NearlyIs(len, out', entry, pos, w)
      <4>1. CASE TryWord
        <5>1. Len(orig) = w /\ DOMAIN orig = 1 .. w
          <6>1. orig = [i \in 1 .. w |-> orig[i]]
            BY <1>4 DEF PieceOf
          <6> QED BY <6>1, LengthIs
        <5>2. DOMAIN Proposed.to = 1 .. w
          BY <1>1, <1>2, <1>3, <5>1, ProposedLong
        <5>3. PICK t : t = Proposed.to
          OBVIOUS
        <5>4. NearlyIs(len, Overlay(out, pos, t), entry, pos, w)
          BY <1>1, <1>4, <5>2, <5>3, WriteOver
        <5> QED BY <4>1, <5>3, <5>4 DEF TryWord
      <4>2. CASE SkipWord
        BY <1>4, <4>2 DEF SkipWord, buffers
      <4> QED BY <2>3, <4>1, <4>2
    <3>3. Patched(Width(stage))'
      BY <1>1, <1>4, <1>5, <3>1, <3>2 DEF Patched
    <3>4. cand' # 0
      BY <1>1, <3>1
    <3> QED BY <1>1, <2>1, <3>3, <3>4 DEF Intact
  <2> QED BY <2>2, <2>3
<1> QED BY <1>6, <1>7 DEF BufferInv

(* A flip and its undoing. *)
LEMMA FlipsAndBack ==
    ASSUME BufferInv, Flip \/ FlipBack, FuzzInv'
    PROVE  BufferInv'
<1>1. AtPosition /\ stage \in FlippingStages /\ UNCHANGED <<case, extras, stage>>
  BY DEF Flip, FlipBack, Trying, FlippingStages, Advances
<1>2. /\ stage \in Range(Stages) /\ Working /\ pos \in Nat /\ pos < Positions(stage) /\ cand \in Nat
      /\ len \in Nat /\ entry \in Buffers(len)
  BY <1>1, PositionFacts
<1>3. Candidates(stage) = 1
  <2>1. PICK s : s = stage
    OBVIOUS
  <2> QED BY <1>1, <1>2, <2>1, StageTyped DEF BufferInv
<1>4. FlipHere(FlipHere(entry)) = entry
  BY <1>1, <1>2, FlipHereBack DEF BufferInv
<1>5. /\ cand \in 0 .. 2 /\ (cand = 1 => out = entry) /\ (cand = 2 => out = FlipHere(entry))
  BY <1>1 DEF BufferInv, Intact
<1>6. CASE Flip
  <2>1. cand = 1 /\ cand' = 2 /\ pos' = pos /\ out' = FlipHere(out) /\ stageCur' = stageCur + 1 /\ stageMax' = stageMax
    BY <1>2, <1>3, <1>6 DEF Flip, Trying, Runs
  <2>2. Placed'
    BY <1>1, <2>1, PlacedStep DEF BufferInv
  <2>3. Intact'
    <3>1. stage \notin WordStages /\ stage \notin OverStages /\ stage # "extUI"
          /\ stage \notin {"score", "havoc", "mutant", "tweaks", "splice", "done"}
      BY <1>1, <1>2, StageKinds
    <3>2. entry' = entry
      BY <1>1 DEF entry
    <3>3. out' = FlipHere(entry) /\ FlipHere(entry)' = FlipHere(entry)
      BY <1>1, <1>5, <2>1, <3>2 DEF FlipHere
    <3> QED BY <1>1, <2>1, <3>1, <3>3 DEF Intact
  <2> QED BY <2>2, <2>3 DEF BufferInv
<1>7. CASE FlipBack
  <2>1. cand = 2 /\ cand' = 0 /\ pos' = pos + 1 /\ out' = FlipHere(out) /\ UNCHANGED counts
    BY <1>7 DEF FlipBack, Advances
  <2>2. Placed'
    <3>1. cand = Candidates(stage) + 1
      BY <1>3, <2>1
    <3> QED BY <1>1, <2>1, <3>1, PlacedStep DEF BufferInv
  <2>3. Intact'
    <3>1. out' = entry
      BY <1>4, <1>5, <2>1
    <3> QED BY <1>1, <2>1, <3>1, IntactMoved
  <2> QED BY <2>2, <2>3 DEF BufferInv
<1> QED BY <1>6, <1>7

(* A position is looked at. *)
LEMMA LooksAt ==
    ASSUME BufferInv, LookAt, FuzzInv'
    PROVE  BufferInv'
<1>1. AtPosition /\ cand = 0 /\ UNCHANGED <<case, extras, auto, stage, out>> /\ stageCur' = stageCur
  BY DEF LookAt, Advances
<1>2. /\ stage \in Range(Stages) /\ Working /\ pos \in Nat /\ pos < Positions(stage) /\ cand \in Nat
      /\ len \in Nat /\ entry \in Buffers(len)
  BY <1>1, PositionFacts
<1>3. out = entry /\ entry' = entry /\ len' = len
  <2>1. PICK s : s = stage
    OBVIOUS
  <2> QED BY <1>1, <1>2, <2>1, StagesPrimed DEF BufferInv, Intact
<1>4. CASE pos' = pos + 1 /\ cand' = 0 /\ stageMax' = stageMax - Candidates(stage)
  <2>1. Placed'
    BY <1>1, <1>4, PlacedStep DEF BufferInv
  <2>2. Intact'
    BY <1>1, <1>3, <1>4, IntactMoved
  <2> QED BY <2>1, <2>2 DEF BufferInv
<1>5. CASE /\ cand' = 1 /\ pos' = pos /\ stageMax' = stageMax
           /\ orig' = IF stage \in ArithStages \cup IntStages THEN Slice(out, pos, Width(stage)) ELSE << >>
  <2>1. Placed'
    BY <1>1, <1>5, PlacedStep DEF BufferInv, counts
  <2>2. stage \notin {"score", "havoc", "mutant", "tweaks", "splice", "done"}
    BY <1>2, StageKinds
  <2>3. \A n \in Nat : NearlyIs(len, entry, entry, pos, n)
    BY <1>2 DEF NearlyIs, Buffers
  <2>4. CASE stage \in FlippingStages \/ stage = "extUI"
    <3>1. stage \notin WordStages /\ stage \notin OverStages
      BY <2>4, StageKinds
    <3> QED BY <1>1, <1>3, <1>5, <2>1, <2>2, <3>1 DEF Intact, BufferInv
  <2>5. CASE stage \in WordStages
    <3>1. stage \notin FlippingStages /\ stage \notin OverStages /\ stage # "extUI"
      BY <2>5, StageKinds
    <3>2. PICK w \in Nat : w = Width(stage)
      BY <2>5, StageKinds
    <3>3. orig' = PieceOf(entry, pos, w)
      <4>1. Slice(out, pos, w) = PieceOf(out, pos, w)
        BY <1>2, SliceIs
      <4> QED BY <1>3, <1>5, <2>5, <3>2, <4>1 DEF WordStages
    <3>4. Patched(Width(stage))'
      <4>1. Width(stage)' = w
        BY <1>1, <3>2
      <4> QED BY <1>1, <1>3, <1>5, <2>3, <3>3, <4>1 DEF Patched
    <3> QED BY <1>1, <1>5, <2>1, <2>2, <3>1, <3>4 DEF Intact, BufferInv
  <2>6. CASE stage \in OverStages
    <3>1. stage \notin FlippingStages /\ stage \notin WordStages /\ stage # "extUI"
      BY <2>6, StageKinds
    <3>2. orig' = PieceOf(entry, pos, 0)
      BY <1>5, <3>1 DEF WordStages, PieceOf
    <3>3. (Patched(0))'
      BY <1>1, <1>3, <1>5, <2>3, <3>2 DEF Patched
    <3>4. (\A j \in cand .. Candidates(stage) : 0 <= Len(Tokens(stage)[j]))'
      <4>1. PICK s : s = stage
        OBVIOUS
      <4>2. Candidates(stage)' = Candidates(s) /\ Tokens(stage)' = Tokens(s)
        BY <1>1, <1>2, <4>1, StagesPrimed
      <4>3. Candidates(s) = Len(Tokens(s)) /\ Len(Tokens(s)) \in Nat /\ \A j \in 1 .. Len(Tokens(s)) : IsASequence(Tokens(s)[j])
        BY <1>2, <2>6, <4>1, StageTyped, TokensTyped DEF BufferInv
      <4> QED BY <1>5, <4>2, <4>3 DEF IsASequence
    <3> QED BY <1>1, <1>5, <2>1, <2>2, <3>1, <3>3, <3>4 DEF Intact, BufferInv
  <2> QED BY <1>2, <2>4, <2>5, <2>6, StageKinds
<1> QED BY <1>1, <1>4, <1>5 DEF LookAt, Advances

(* Words of the dictionary are written over each other, and the last is undone. *)
LEMMA TokensAndBack ==
    ASSUME BufferInv, OverwriteToken \/ SkipToken \/ RestoreToken, FuzzInv'
    PROVE  BufferInv'
<1>1. AtPosition /\ stage \in OverStages /\ UNCHANGED <<case, extras, auto, stage>>
  BY DEF OverwriteToken, SkipToken, RestoreToken, Trying, Advances
<1>2. /\ stage \in Range(Stages) /\ Working /\ pos \in Nat /\ pos < Positions(stage) /\ cand \in Nat
      /\ len \in Nat /\ entry \in Buffers(len) /\ Candidates(stage) \in Nat
  BY <1>1, PositionFacts
<1>3. cand # 0
  BY <1>2 DEF OverwriteToken, SkipToken, RestoreToken, Trying
<1>4. PICK n \in Nat : Patched(n) /\ \A j \in cand .. Candidates(stage) : n <= Len(Tokens(stage)[j])
  BY <1>1, <1>3 DEF BufferInv, Intact
<1>5. PICK s : s = stage
  OBVIOUS
<1>6. /\ entry' = entry /\ len' = len /\ Candidates(stage)' = Candidates(s) /\ Tokens(stage)' = Tokens(s)
  BY <1>1, <1>2, <1>5, StagesPrimed
<1>7. /\ Candidates(s) = Len(Tokens(s)) /\ \A j \in 1 .. Len(Tokens(s)) : IsASequence(Tokens(s)[j])
      /\ \A i, j \in 1 .. Len(Tokens(s)) : i < j => Len(Tokens(s)[i]) <= Len(Tokens(s)[j])
  BY <1>1, <1>2, <1>5, StageTyped, TokensTyped DEF BufferInv
<1>8. Placed'
  BY <1>1, <1>3, PlacedStep DEF BufferInv, OverwriteToken, SkipToken, RestoreToken, Runs, LeavesOut, Advances
<1>9. Intact'
  <2>1. stage \notin FlippingStages /\ stage \notin WordStages /\ stage # "extUI"
        /\ stage \notin {"score", "havoc", "mutant", "tweaks", "splice", "done"}
    BY <1>1, <1>2, StageKinds
  <2>2. CASE RestoreToken
    <3>1. out' = Overlay(out, pos, orig) /\ cand' = 0
      BY <2>2 DEF RestoreToken, Advances
    <3>2. Overlay(out, pos, orig) = entry
      BY <1>2, <1>4, PutBack DEF Patched
    <3> QED BY <1>1, <3>1, <3>2, IntactMoved
  <2>3. CASE SkipToken
    <3>1. cand' = cand + 1 /\ UNCHANGED <<out, orig, pos>>
      BY <2>3 DEF SkipToken, buffers
    <3>2. Patched(n)'
      BY <1>4, <1>6, <3>1 DEF Patched
    <3>3. (\A j \in cand .. Candidates(stage) : n <= Len(Tokens(stage)[j]))'
      BY <1>2, <1>4, <1>5, <1>6, <3>1
    <3> QED BY <1>1, <1>2, <2>1, <3>1, <3>2, <3>3 DEF Intact
  <2>4. CASE OverwriteToken
    <3>1. cand' = cand + 1 /\ pos' = pos /\ out' = Overlay(out, pos, Token) /\ orig' = Slice(entry, pos, Len(Token))
          /\ cand \in 1 .. Candidates(stage)
      BY <2>4 DEF OverwriteToken, Trying
    <3>2. PICK t : t = Token /\ t = Tokens(s)[cand] /\ IsASequence(t)
      BY <1>5, <1>7, <3>1 DEF Token
    <3>3. PICK h \in Nat : h = Len(t) /\ DOMAIN t = 1 .. h
      BY <3>2 DEF IsASequence
    <3>4. n <= h
      BY <1>2, <1>4, <1>5, <3>1, <3>2, <3>3
    <3>5. Patched(h)'
      <4>1. NearlyIs(len, Overlay(out, pos, t), entry, pos, h)
        BY <1>2, <1>4, <3>3, <3>4, WriteOver DEF Patched
      <4>2. Slice(entry, pos, h) = PieceOf(entry, pos, h)
        BY <1>2, SliceIs
      <4> QED BY <1>6, <3>1, <3>2, <3>3, <4>1, <4>2 DEF Patched
    <3>6. (\A j \in cand .. Candidates(stage) : h <= Len(Tokens(stage)[j]))'
      BY <1>2, <1>5, <1>6, <1>7, <3>1, <3>2, <3>3
    <3> QED BY <1>1, <1>2, <2>1, <3>1, <3>5, <3>6 DEF Intact
  <2> QED BY <2>2, <2>3, <2>4
<1> QED BY <1>8, <1>9 DEF BufferInv

(* Insertions are made in another buffer. *)
LEMMA InsertionsAside ==
    ASSUME BufferInv, InsertToken \/ InsertionsDone, FuzzInv'
    PROVE  BufferInv'
<1>1. AtPosition /\ stage = "extUI" /\ UNCHANGED <<case, extras, auto, stage, out>>
  BY DEF InsertToken, InsertionsDone, Trying, Advances, buffers
<1>2. Candidates(stage) \in Nat /\ stage \in Range(Stages)
  BY <1>1, PositionFacts
<1>3. Placed'
  <2>1. CASE InsertToken
    BY <1>1, <1>2, <2>1, PlacedStep DEF BufferInv, InsertToken, Runs, LeavesOut, Trying
  <2>2. CASE InsertionsDone
    BY <1>1, <2>2, PlacedStep DEF BufferInv, InsertionsDone, Advances
  <2> QED BY <2>1, <2>2
<1>4. Intact'
  <2>1. stage \notin FlippingStages /\ stage \notin WordStages /\ stage \notin OverStages
    BY <1>1, StageKinds
  <2>2. entry' = entry /\ out = entry
    BY <1>1 DEF entry, BufferInv, Intact
  <2> QED BY <1>1, <2>1, <2>2 DEF Intact
<1> QED BY <1>3, <1>4 DEF BufferInv

(* A stage begins with the entry as it is and all its mutants to run. *)
LEMMA StageBegins ==
    ASSUME BufferInv, ScoreEntry \/ EndStage \/ Abandon, FuzzInv'
    PROVE  BufferInv'
<1>1. UNCHANGED <<case, extras>> /\ entry' = entry
  BY DEF ScoreEntry, EndStage, Abandon, entry
<1>2. CASE Abandon
  <2>1. stage' = "abandoned"
    BY <1>2 DEF Abandon
  <2>2. stage' \notin Range(Stages) /\ stage' \notin FlippingStages /\ stage' \notin WordStages /\ stage' \notin OverStages
    <3>1. PICK s : s = stage' /\ s = "abandoned"
      BY <2>1
    <3>2. s \notin Range(Stages) /\ s \notin FlippingStages /\ s \notin WordStages /\ s \notin OverStages
      BY <3>1, StageKinds
    <3> QED BY <3>1, <3>2
  <2>3. ~Working'
    BY <2>2 DEF Working
  <2> QED BY <2>1, <2>2, <2>3 DEF BufferInv, Placed, Intact
<1>3. CASE ScoreEntry \/ EndStage
  <2>1. out' = entry /\ auto' = auto
    <3>1. CASE ScoreEntry
      BY <3>1 DEF ScoreEntry, buffers, BufferInv, Intact
    <3>2. CASE EndStage
      <4>1. Working /\ pos = Positions(stage) /\ out' = out /\ auto' = auto
        BY <3>2 DEF EndStage
      <4>2. cand = 0
        <5>1. PICK s : s = stage /\ s \in Range(Stages)
          BY <4>1 DEF Working
        <5>2. Positions(s) \in Int
          BY <5>1, StageTyped DEF BufferInv
        <5>3. cand # 0 => pos < Positions(s)
          BY <4>1, <5>1 DEF BufferInv, Placed
        <5> QED BY <4>1, <5>1, <5>2, <5>3
      <4> QED BY <4>1, <4>2 DEF BufferInv, Intact
    <3> QED BY <1>3, <3>1, <3>2
  <2>2. pos' = 0 /\ cand' = 0 /\ stageCur' = 0
    BY <1>3 DEF ScoreEntry, EndStage, BufferInv, Placed
  <2>3. PICK s : s = stage' /\ s \in Range(Stages) \cup {"havoc"} /\ (s # "havoc" => stageMax' = Positions(s) * Candidates(s))
    <3>1. CASE ScoreEntry
      <4>1. stage' = "havoc" \/ (stage' = "flip1" /\ stageMax' = Positions("flip1"))
        BY <3>1 DEF ScoreEntry
      <4>2. "flip1" \in FlippingStages
        BY DEF FlippingStages, BitStages
      <4>3. "flip1" \in Range(Stages)
        BY <4>2, StageKinds
      <4>4. Positions("flip1") \in Int /\ Candidates("flip1") = 1
        BY <4>2, <4>3, StageTyped DEF BufferInv
      <4>5. Positions("flip1") * Candidates("flip1") = Positions("flip1")
        BY <4>4
      <4> QED BY <4>1, <4>3, <4>5
    <3>2. CASE EndStage
      <4>1. PICK t : t = stage /\ t \in Range(Stages)
        BY <3>2 DEF EndStage, Working
      <4>2. After(t) \in Range(Stages) \cup {"havoc"}
        BY <4>1, AfterTyped
      <4>3. stage' = After(t) /\ stageMax' = IF After(t) = "havoc" THEN 0 ELSE Positions(After(t)) * Candidates(After(t))
        BY <3>2, <4>1 DEF EndStage
      <4> QED BY <4>2, <4>3
    <3> QED BY <1>3, <3>1, <3>2
  <2>4. stage' # "score" /\ stage' = s
    BY <2>3, StageKinds
  <2>5. Placed'
    <3>1. CASE s \in Range(Stages)
      <4>1. PICK P \in Int, C \in Nat : P = Positions(s) /\ C = Candidates(s)
        BY <3>1, StageTyped DEF BufferInv
      <4>2. Positions(stage)' = P /\ Candidates(stage)' = C
        BY <1>1, <2>1, <2>4, <3>1, <4>1, StagesPrimed
      <4>3. Left(P, C, 0, 0) = P * C
        BY LeftEnds
      <4>4. s # "havoc"
        BY <3>1, StageKinds
      <4>5. stageMax' = P * C /\ P * C \in Int /\ P * C - 0 = P * C
        BY <2>3, <4>1, <4>4
      <4> QED BY <2>2, <2>4, <4>2, <4>3, <4>5 DEF Placed
    <3>2. CASE s \notin Range(Stages)
      BY <2>4, <3>2 DEF Placed, Working
    <3> QED BY <3>1, <3>2
  <2>6. Intact'
    BY <1>1, <2>1, <2>2 DEF Intact
  <2> QED BY <2>5, <2>6 DEF BufferInv
<1> QED BY <1>2, <1>3

(* The deterministic stages. *)
LEMMA DetIntact ==
    ASSUME BufferInv, DetNext, FuzzInv'
    PROVE  BufferInv'
BY StageBegins, LooksAt, FlipsAndBack, WordsAndBack, TokensAndBack, InsertionsAside DEF DetNext

(* Havoc and splicing have the buffer restored in their own way, and this model  *)
(* leaves its contents alone there.                                            *)
LEMMA HavocIntact ==
    ASSUME BufferInv, FuzzInv',
           \/ HavocStage \/ NewMutant \/ Poke \/ DeleteBytes \/ CloneBytes \/ InsertBytes \/ OverwriteBytes
           \/ OverwriteWithExtra \/ InsertExtra \/ TweakNothing \/ RunMutant \/ AbandonHavoc \/ EndHavoc
           \/ SpliceRetry \/ Splice \/ Finish
    PROVE  BufferInv'
<1> DEFINE Beyond == {"havoc", "mutant", "tweaks", "splice"}
           Later == {"mutant", "tweaks", "havoc", "splice", "done", "abandoned"}
<1>1. UNCHANGED <<case, out, cand>>
  BY DEF HavocStage, NewMutant, Poke, DeleteBytes, CloneBytes, InsertBytes, OverwriteBytes,
     OverwriteWithExtra, InsertExtra, TweakNothing, RunMutant, AbandonHavoc, EndHavoc, SpliceRetry, Splice, Finish,
     Tweaks, detRest, buffers
<1>2. stage \in Beyond /\ stage' \in Later
  BY DEF HavocStage, NewMutant, Poke, DeleteBytes, CloneBytes, InsertBytes, OverwriteBytes,
     OverwriteWithExtra, InsertExtra, TweakNothing, RunMutant, AbandonHavoc, EndHavoc, SpliceRetry, Splice, Finish, Tweaks
<1>3. out' = entry /\ entry' = entry
  BY <1>1, <1>2 DEF BufferInv, Intact, entry
<1>4. /\ stage' \notin Range(Stages) /\ stage' \notin FlippingStages /\ stage' \notin WordStages /\ stage' \notin OverStages
      /\ stage' # "score"
  <2>1. PICK s : s = stage' /\ s \in Later
    BY <1>2
  <2>2. s \notin Range(Stages) /\ s # "score"
    BY <2>1, StageKinds
  <2>3. s \notin FlippingStages /\ s \notin WordStages /\ s \notin OverStages
    BY <2>2, StageKinds
  <2> QED BY <2>1, <2>2, <2>3
<1>5. ~Working'
  BY <1>4 DEF Working
<1> QED BY <1>3, <1>4, <1>5 DEF BufferInv, Placed, Intact

(* It holds when fuzz_one has read the entry. *)
LEMMA BufferInvInit == Init => BufferInv
<1> SUFFICES ASSUME Init PROVE BufferInv
  OBVIOUS
<1>1. FuzzInv
  BY FuzzInvInit
<1>2. stage = "score" /\ out = entry /\ pos = 0 /\ cand = 0 /\ stageCur = 0
  BY DEF Init, DetInit
<1>3. stage \notin FlippingStages /\ stage \notin WordStages /\ stage \notin OverStages /\ ~Working
  BY <1>2, StageKinds DEF Working
<1> QED BY <1>1, <1>2, <1>3 DEF BufferInv, Placed, Intact

(* Every step keeps it. *)
LEMMA BufferInvStep == BufferInv /\ [Next]_fuzzVars => BufferInv'
<1> SUFFICES ASSUME BufferInv, [Next]_fuzzVars PROVE BufferInv'
  OBVIOUS
<1>1. FuzzInv'
  BY FuzzInvStep DEF BufferInv
<1>2. CASE UNCHANGED fuzzVars
  <2>1. UNCHANGED <<case, extras, auto, stage, pos, cand, out, orig, stageCur, stageMax>>
    BY <1>2 DEF fuzzVars, detVars, buffers, place, counts
  <2>2. /\ entry' = entry /\ len' = len /\ Positions(stage)' = Positions(stage) /\ Candidates(stage)' = Candidates(stage)
        /\ Tokens(stage)' = Tokens(stage) /\ Width(stage)' = Width(stage)
    BY <2>1 DEF entry, len, Positions, Candidates, Tokens, Width, Orders, Interesting
  <2>3. Working' = Working /\ FlipHere(entry)' = FlipHere(entry)
    BY <2>1, <2>2 DEF Working, FlipHere
  <2>4. Placed'
    BY <2>1, <2>2, <2>3 DEF BufferInv, Placed
  <2>5. \A n \in Nat : Patched(n)' = Patched(n)
    BY <2>1, <2>2 DEF Patched
  <2>6. Intact'
    BY <2>1, <2>2, <2>3, <2>5 DEF BufferInv, Intact, Patched
  <2> QED BY <1>1, <2>4, <2>6 DEF BufferInv
<1>3. CASE DetNext
  BY <1>1, <1>3, DetIntact
<1> QED BY <1>1, <1>2, <1>3, HavocIntact DEF Next

(* The head of ex_tmp is that of the entry: a byte is copied whenever the       *)
(* position moves on, and the byte past the entry only after the last one.     *)
HeadCopied == stage = "extUI" => pos \in Nat /\ (pos <= len => exTmp = Slice(entry, 0, pos))

LEMMA CopiedStep ==
    ASSUME BufferInv, HeadCopied, [Next]_fuzzVars
    PROVE  HeadCopied'
<1>1. entry \in Buffers(len) /\ len \in Nat
  BY EntryTyped DEF BufferInv
<1>2. entry' = entry /\ len' = len
  BY DEF Next, DetNext, fuzzVars, detVars, HavocStage, NewMutant, Poke, DeleteBytes, CloneBytes, InsertBytes,
     OverwriteBytes, OverwriteWithExtra, InsertExtra, TweakNothing, RunMutant, AbandonHavoc, EndHavoc, SpliceRetry,
     Splice, Finish, Tweaks, detRest, ScoreEntry, Abandon, LookAt, Flip, FlipBack, TryWord, SkipWord, RestoreWord,
     OverwriteToken, SkipToken, RestoreToken, InsertToken, InsertionsDone, EndStage, entry, len
<1>3. CASE stage' = stage /\ pos' = pos /\ exTmp' = exTmp
  BY <1>2, <1>3 DEF HeadCopied, Slice
<1>4. CASE stage' # "extUI"
  BY <1>4 DEF HeadCopied
<1>5. CASE EndStage
  <2>1. pos' = 0 /\ exTmp' = << >>
    BY <1>5 DEF EndStage
  <2>2. Slice(entry, 0, 0) = << >>
    BY DEF Slice
  <2> QED BY <1>2, <2>1, <2>2 DEF HeadCopied, Slice
<1>6. CASE InsertionsDone
  <2>1. stage = "extUI" /\ pos' = pos + 1 /\ Working
        /\ exTmp' = Append(exTmp, IF pos < len THEN out[pos + 1] ELSE PastTheEntry)
    BY <1>6 DEF InsertionsDone, Advances, AtPosition
  <2>2. pos \in Nat /\ (pos <= len => exTmp = Slice(entry, 0, pos)) /\ out = entry
    BY <2>1 DEF HeadCopied, BufferInv, Intact
  <2>3. ASSUME pos + 1 <= len PROVE exTmp' = Slice(entry, 0, pos + 1)
    <3>1. exTmp' = Append(SubSeq(entry, 1, pos), entry[pos + 1])
      BY <1>1, <2>1, <2>2, <2>3 DEF Slice
    <3>2. entry \in Seq(Byte) /\ Len(entry) = len
      BY <1>1, LengthIs DEF Buffers
    <3>3. Append(SubSeq(entry, 1, pos), entry[pos + 1]) = SubSeq(entry, 1, pos + 1)
      BY <1>1, <2>2, <2>3, <3>2
    <3> QED BY <2>2, <3>1, <3>3 DEF Slice
  <2> QED BY <1>1, <1>2, <2>1, <2>2, <2>3 DEF HeadCopied, Slice
<1>7. CASE UNCHANGED fuzzVars
  BY <1>3, <1>7 DEF fuzzVars, detVars, place
<1>8. CASE DetNext
  <2>1. CASE ScoreEntry \/ Abandon
    BY <1>4, <2>1 DEF ScoreEntry, Abandon
  <2>2. CASE InsertToken
    BY <1>3, <2>2 DEF InsertToken
  <2>3. ASSUME LookAt \/ Flip \/ FlipBack \/ TryWord \/ SkipWord \/ RestoreWord \/ OverwriteToken \/ SkipToken \/ RestoreToken
        PROVE  stage' = stage /\ exTmp' = exTmp /\ (stage = "extUI" => pos' = pos)
    <3>1. stage = "extUI" => /\ stage \notin BitStages \cup FlipStages /\ stage \notin ArithStages \cup IntStages
                             /\ stage \notin OverStages /\ stage \notin {"flip16", "flip32"}
      BY DEF BitStages, FlipStages, ArithStages, IntStages, OverStages
    <3> QED BY <2>3, <3>1 DEF LookAt, Flip, FlipBack, TryWord, SkipWord, RestoreWord, OverwriteToken, SkipToken,
              RestoreToken, Advances
  <2>4. ASSUME LookAt \/ Flip \/ FlipBack \/ TryWord \/ SkipWord \/ RestoreWord \/ OverwriteToken \/ SkipToken \/ RestoreToken
        PROVE  HeadCopied'
    BY <1>2, <2>3, <2>4 DEF HeadCopied, Slice
  <2> QED BY <1>5, <1>6, <1>8, <2>1, <2>2, <2>4 DEF DetNext
<1>9. ASSUME \/ HavocStage \/ NewMutant \/ Poke \/ DeleteBytes \/ CloneBytes \/ InsertBytes \/ OverwriteBytes
             \/ OverwriteWithExtra \/ InsertExtra \/ TweakNothing \/ RunMutant \/ AbandonHavoc \/ EndHavoc
             \/ SpliceRetry \/ Splice \/ Finish
      PROVE  HeadCopied'
  <2>1. stage' # "extUI"
    BY <1>9 DEF HavocStage, NewMutant, Poke, DeleteBytes, CloneBytes, InsertBytes, OverwriteBytes,
       OverwriteWithExtra, InsertExtra, TweakNothing, RunMutant, AbandonHavoc, EndHavoc, SpliceRetry, Splice, Finish, Tweaks
  <2> QED BY <1>4, <2>1
<1> QED BY <1>7, <1>8, <1>9 DEF Next

(* What they say of a buffer: no change is left behind, and stage_max is right. *)
LEMMA BufferInvImplies == BufferInv /\ HeadCopied => OneChangeAtATime
<1> SUFFICES ASSUME BufferInv, HeadCopied PROVE OneChangeAtATime
  OBVIOUS
<1>1. entry \in Buffers(len) /\ len \in Nat
  BY EntryTyped DEF BufferInv
<1>2. DiffersAt(entry, out) = {k \in 1 .. len : entry[k] # out[k]}
  BY <1>1 DEF DiffersAt, Buffers
<1>3. ASSUME Working, stage # "extUI"
      PROVE  DiffersAt(entry, out) \subseteq (IF cand = 0 THEN {} ELSE Touched)
  <2>1. CASE out = entry
    BY <1>2, <2>1
  <2>2. CASE cand # 0 /\ stage \in FlippingStages /\ out # entry
    <3>1. out = FlipHere(entry)
      BY <2>2 DEF BufferInv, Intact
    <3>2. pos \in Nat /\ pos < Positions(stage)
      BY <1>3, <2>2 DEF BufferInv, Placed
    <3>3. \A k \in 1 .. len : out[k] # entry[k] => k \in Touched
      BY <2>2, <3>1, <3>2, FlipHereBack DEF BufferInv
    <3> QED BY <1>2, <2>2, <3>3
  <2>3. CASE cand # 0 /\ stage \in WordStages
    <3>1. stage \notin FlippingStages /\ stage \notin OverStages
      BY <2>3, StageKinds
    <3>2. Touched = pos + 1 .. pos + Width(stage)
      BY <3>1 DEF Touched, FlippingStages
    <3>3. \A k \in 1 .. len : out[k] # entry[k] => k \in Touched
      BY <2>3, <3>2 DEF BufferInv, Intact, Patched, NearlyIs
    <3> QED BY <1>2, <2>3, <3>3
  <2>4. CASE cand # 0 /\ stage \in OverStages
    <3>1. stage \notin FlippingStages
      BY <2>4, StageKinds
    <3>2. PICK n \in Nat : Patched(n)
      BY <2>4 DEF BufferInv, Intact
    <3>3. Len(orig) = n
      <4>1. orig = [i \in 1 .. n |-> orig[i]]
        BY <3>2 DEF Patched, PieceOf
      <4> QED BY <4>1, LengthIs
    <3>4. Touched = pos + 1 .. pos + n
      BY <2>4, <3>1, <3>3 DEF Touched, FlippingStages
    <3>5. \A k \in 1 .. len : out[k] # entry[k] => k \in Touched
      BY <3>2, <3>4 DEF Patched, NearlyIs
    <3> QED BY <1>2, <2>4, <3>5
  <2>5. stage \in FlippingStages \/ stage \in WordStages \/ stage \in OverStages
    BY <1>3, StageKinds DEF Working
  <2>6. cand = 0 => out = entry
    BY <1>3 DEF BufferInv, Intact
  <2> QED BY <2>1, <2>2, <2>3, <2>4, <2>5, <2>6
<1>4. stage \in {"extUI", "havoc"} => out = entry
  BY DEF BufferInv, Intact
<1>5. ASSUME Working, pos = Positions(stage) PROVE stageCur = stageMax
  <2>1. PICK s : s = stage /\ s \in Range(Stages)
    BY <1>5 DEF Working
  <2>2. PICK P \in Int, C \in Nat : P = Positions(s) /\ C = Candidates(s)
    BY <2>1, StageTyped DEF BufferInv
  <2>3. cand = 0 /\ stageCur \in Int /\ stageMax \in Int /\ stageMax - stageCur = Left(P, C, P, 0)
    BY <1>5, <2>1, <2>2 DEF BufferInv, Placed
  <2>4. Left(P, C, P, 0) = 0
    BY LeftEnds
  <2> QED BY <2>3, <2>4
<1>6. stage = "extUI" /\ pos <= len => exTmp = Slice(entry, 0, pos)
  BY DEF HeadCopied
<1> QED BY <1>3, <1>4, <1>5, <1>6 DEF OneChangeAtATime

(* Whatever a deterministic stage writes into out_buf is put right before it   *)
(* moves on: a mutant differs from the entry only where its stage is, in every *)
(* stage and with every dictionary, the stages that insert and havoc begin with *)
(* the entry itself, what is inserted is put between the head and the tail of   *)
(* the entry, and at the end of a stage stage_max is what it has run.          *)
THEOREM EntryAlwaysPutRight == Spec => []OneChangeAtATime
<1>1. Init => BufferInv /\ HeadCopied
  BY BufferInvInit DEF Init, DetInit, HeadCopied
<1>2. BufferInv /\ HeadCopied /\ [Next]_fuzzVars => (BufferInv /\ HeadCopied)'
  BY BufferInvStep, CopiedStep
<1>3. BufferInv /\ HeadCopied => OneChangeAtATime
  BY BufferInvImplies
<1> QED BY <1>1, <1>2, <1>3, PTL DEF Spec

-----------------------------------------------------------------------------
(* afl-tmin: nothing can be left out of the result. *)

(* next_p2 gives a positive number for every one. *)
LEMMA NextP2Typed ==
    ASSUME NEW n \in Nat
    PROVE  NextP2(n) \in Nat \ {0}
<1> DEFINE T == Nat \ {0}
           step == [k \in 1 .. n |-> [r \in T |-> IF n > r THEN 2 * r ELSE r]]
           Unfolds(f) == f = [k \in 0 .. n |-> IF k = 0 THEN 1 ELSE IF n > f[k - 1] THEN 2 * f[k - 1] ELSE f[k - 1]]
           ret == CHOOSE f : Unfolds(f)
<1>1. NextP2(n) = ret[n]
  BY DEF NextP2
<1>2. step \in [1 .. n -> [T -> T]] /\ 1 \in T
  OBVIOUS
<1>3. PICK f : f \in [0 .. n -> T] /\ f[0] = 1 /\ \A k \in 1 .. n : f[k] = IF n > f[k - 1] THEN 2 * f[k - 1] ELSE f[k - 1]
  <2>1. PICK f : Recurs(f, n, T, 1, step)
    <3> HIDE DEF step
    <3> QED BY <1>2, RecursionExists
  <2>2. \A k \in 1 .. n : f[k - 1] \in T
    BY <2>1 DEF Recurs
  <2>3. \A k \in 1 .. n : f[k] = IF n > f[k - 1] THEN 2 * f[k - 1] ELSE f[k - 1]
    BY <2>1, <2>2 DEF Recurs
  <2> QED BY <2>1, <2>3 DEF Recurs
<1>4. Unfolds(f)
  <2>1. f = [k \in 0 .. n |-> f[k]]
    BY <1>3
  <2>2. \A k \in 0 .. n : f[k] = IF k = 0 THEN 1 ELSE IF n > f[k - 1] THEN 2 * f[k - 1] ELSE f[k - 1]
    BY <1>3
  <2> QED BY <2>1, <2>2
<1>5. Unfolds(ret)
  <2> HIDE DEF Unfolds
  <2> QED BY <1>4
<1>6. ret[n] \in T
  <2> DEFINE S == {k \in 0 .. n : ret[k] \in T}
  <2> HIDE DEF ret
  <2>1. 0 \in S
    BY <1>5
  <2>2. ASSUME NEW k \in 1 .. n, k - 1 \in S PROVE k \in S
    <3>1. ret[k - 1] \in T /\ k \in 0 .. n /\ k # 0
      BY <2>2
    <3>2. ret[k] = IF n > ret[k - 1] THEN 2 * ret[k - 1] ELSE ret[k - 1]
      BY <1>5, <3>1
    <3> QED BY <3>1, <3>2
  <2>3. 0 .. n \subseteq S
    <3> HIDE DEF S
    <3> QED BY <2>1, <2>2, IntervalInduction
  <2> QED BY <2>3
<1> QED BY <1>1, <1>6

(* A part of a sequence is a sequence over the same set. *)
LEMMA SubSeqOf ==
    ASSUME NEW S, NEW s \in Seq(S), NEW a \in Nat \ {0}, NEW b \in Int, b <= Len(s)
    PROVE  SubSeq(s, a, b) \in Seq(S)
OBVIOUS

(* A sequence without its k-th entry. *)
LEMMA Without ==
    ASSUME NEW S, NEW s \in Seq(S), NEW k \in 1 .. Len(s)
    PROVE  /\ RemoveAt(s, k) \in Seq(S) /\ Len(RemoveAt(s, k)) = Len(s) - 1
           /\ \A i \in 1 .. Len(s) - 1 : RemoveAt(s, k)[i] = IF i < k THEN s[i] ELSE s[i + 1]
<1>1. PICK u : u = SubSeq(s, 1, k - 1)
  OBVIOUS
<1>2. PICK v : v = SubSeq(s, k + 1, Len(s))
  OBVIOUS
<1>3. u \in Seq(S) /\ Len(u) = k - 1 /\ \A i \in 1 .. k - 1 : u[i] = s[i]
  BY <1>1
<1>4. v \in Seq(S) /\ Len(v) = Len(s) - k /\ \A i \in 1 .. Len(s) - k : v[i] = s[i + k]
  BY <1>2
<1>5. RemoveAt(s, k) = u \o v
  BY <1>1, <1>2 DEF RemoveAt
<1>6. u \o v \in Seq(S) /\ Len(u \o v) = Len(s) - 1
  BY <1>3, <1>4
<1>7. ASSUME NEW i \in 1 .. Len(s) - 1 PROVE (u \o v)[i] = IF i < k THEN s[i] ELSE s[i + 1]
  <2>1. CASE i < k
    BY <1>3, <1>4, <2>1
  <2>2. CASE ~(i < k)
    <3>1. i - Len(u) \in 1 .. Len(s) - k /\ (u \o v)[i] = v[i - Len(u)]
      BY <1>3, <1>4, <2>2
    <3>2. v[i - Len(u)] = s[i - Len(u) + k] /\ i - Len(u) + k = i + 1
      BY <1>3, <1>4, <3>1
    <3> QED BY <2>2, <3>1, <3>2
  <2> QED BY <2>1, <2>2
<1>8. PICK w : w = u \o v
  OBVIOUS
<1>9. w \in Seq(S) /\ Len(w) = Len(s) - 1 /\ \A i \in 1 .. Len(s) - 1 : w[i] = IF i < k THEN s[i] ELSE s[i + 1]
  BY <1>6, <1>7, <1>8
<1> QED BY <1>5, <1>8, <1>9

(* Of two equal neighbours it is the same which is taken out. *)
LEMMA EqualNeighbours ==
    ASSUME NEW S, NEW s \in Seq(S), NEW k \in 1 .. Len(s) - 1, s[k] = s[k + 1]
    PROVE  RemoveAt(s, k + 1) = RemoveAt(s, k)
<1>1. k \in 1 .. Len(s) /\ k + 1 \in 1 .. Len(s)
  OBVIOUS
<1>2. \A i \in 1 .. Len(s) - 1 : (IF i < k THEN s[i] ELSE s[i + 1]) = (IF i < k + 1 THEN s[i] ELSE s[i + 1])
  OBVIOUS
<1>3. PICK u : u = RemoveAt(s, k)
  OBVIOUS
<1>4. PICK v : v = RemoveAt(s, k + 1)
  OBVIOUS
<1>5. /\ u \in Seq(S) /\ Len(u) = Len(s) - 1
      /\ \A i \in 1 .. Len(s) - 1 : u[i] = IF i < k THEN s[i] ELSE s[i + 1]
  BY <1>1, <1>3, Without
<1>6. /\ v \in Seq(S) /\ Len(v) = Len(s) - 1
      /\ \A i \in 1 .. Len(s) - 1 : v[i] = IF i < k + 1 THEN s[i] ELSE s[i + 1]
  BY <1>1, <1>4, Without
<1>7. \A i \in 1 .. Len(s) - 1 : u[i] = v[i]
  BY <1>2, <1>5, <1>6
<1>8. u = v
  <2>1. u = [i \in 1 .. Len(s) - 1 |-> u[i]] /\ v = [i \in 1 .. Len(s) - 1 |-> v[i]]
    BY <1>5, <1>6
  <2> QED BY <1>7, <2>1
<1> QED BY <1>3, <1>4, <1>8

(* What is left without byte k is known to behave otherwise. *)
Needed(k) == RemoveAt(data, k) \in DOMAIN known /\ known[RemoveAt(data, k)] = FALSE

MinTyped ==
    /\ data \in Bytes /\ at \in Nat /\ blockLen \in Nat /\ changed \in BOOLEAN
    /\ phase \in {"normalize", "delete"} => blockLen >= 1

(* Whatever has been taken over behaved like the original. *)
Faithful == ~flaky => data \in DOMAIN known /\ known[data] = TRUE

(* outFile is written once, at the end. *)
Written ==
    /\ outFile # NoFile => outFile = data /\ phase \in {"done", "aborted"}
    /\ phase \in {"write", "done"} => ~changed

(* While nothing has changed since the deletions began, every byte passed is needed. *)
Passed ==
    /\ phase = "delete" /\ blockLen = 1 /\ ~prevDel => at >= 1
    /\ ~flaky /\ ~changed =>
        /\ phase = "delete" /\ blockLen = 1 => \A k \in 1 .. at : k <= Len(data) => Needed(k)
        /\ phase \in {"symbols", "characters", "write", "done"} => \A k \in 1 .. Len(data) : Needed(k)

MinInv == MinTyped /\ Faithful /\ Written /\ Passed

(* The invariant holds when the test case has been read and run. *)
LEMMA MinInvInit == MinInit => MinInv
<1> SUFFICES ASSUME MinInit PROVE MinInv
  OBVIOUS
<1>1. data \in Bytes
  BY CasesTyped DEF MinInit, Bytes, Byte
<1>2. /\ phase = "dry" /\ at = 0 /\ blockLen = 0 /\ changed = FALSE /\ known = [d \in {data} |-> TRUE]
      /\ outFile = NoFile
  BY DEF MinInit
<1> QED BY <1>1, <1>2 DEF MinInv, MinTyped, Faithful, Written, Passed

(* What is proposed is a test case, too. *)
LEMMA ProposalTyped ==
    ASSUME MinInv, AtCandidate
    PROVE  Proposal \in Bytes
<1>1. data \in Seq(Byte) /\ at \in Nat /\ blockLen \in Nat /\ Zero \in Byte
  BY DEF MinInv, MinTyped, Bytes, Zero, Byte
<1>2. phase \in {"normalize", "delete", "symbols", "characters"}
  BY DEF AtCandidate
<1>3. CASE phase = "normalize"
  <2>1. Proposal = [k \in DOMAIN data |-> IF k \in at + 1 .. at + blockLen THEN Zero ELSE data[k]]
    BY <1>3 DEF Proposal
  <2> QED BY <1>1, <2>1 DEF Bytes
<1>4. CASE phase = "delete"
  <2>1. Proposal = SubSeq(data, 1, at) \o SubSeq(data, at + blockLen + 1, Len(data))
    BY <1>4 DEF Proposal
  <2>2. at <= Len(data)
    BY <1>1, <1>4 DEF AtCandidate, Limit
  <2>3. SubSeq(data, 1, at) \in Seq(Byte) /\ SubSeq(data, at + blockLen + 1, Len(data)) \in Seq(Byte)
    BY <1>1, <2>2, SubSeqOf
  <2> QED BY <2>1, <2>3 DEF Bytes
<1>5. CASE phase = "symbols"
  <2>1. Proposal = [k \in DOMAIN data |-> IF data[k] = Symbol THEN Zero ELSE data[k]]
    BY <1>5 DEF Proposal
  <2> QED BY <1>1, <2>1 DEF Bytes
<1>6. CASE phase = "characters"
  <2>1. PICK j \in Nat : j = at + 1
    BY <1>1
  <2>2. Proposal = [data EXCEPT ![j] = Zero]
    BY <1>6, <2>1 DEF Proposal
  <2> QED BY <1>1, <2>2, ChangedTyped DEF Bytes
<1> QED BY <1>2, <1>3, <1>4, <1>5, <1>6

(* A deletion of one byte. *)
LEMMA OneDeleted ==
    ASSUME MinInv, AtCandidate, phase = "delete", blockLen = 1
    PROVE  at + 1 \in 1 .. Len(data) /\ Proposal = RemoveAt(data, at + 1)
<1>1. data \in Bytes /\ at \in Nat
  BY DEF MinInv, MinTyped
<1>2. at + 1 \in 1 .. Len(data)
  BY <1>1 DEF AtCandidate, Limit, Bytes
<1>3. Proposal = SubSeq(data, 1, at) \o SubSeq(data, at + 1 + 1, Len(data))
  BY DEF Proposal
<1>4. PICK k : k = at + 1 /\ k - 1 = at
  BY <1>1
<1>5. Proposal = SubSeq(data, 1, k - 1) \o SubSeq(data, k + 1, Len(data))
  BY <1>3, <1>4
<1>6. Proposal = RemoveAt(data, k)
  BY <1>5 DEF RemoveAt
<1> QED BY <1>2, <1>4, <1>6

(* A block left out, because there is nothing to change or its left *)
(* neighbour is equal and was needed, is needed too.                *)
LEMMA SkipKeeps == ASSUME MinInv, Skip PROVE MinInv'
<1>1. /\ AtCandidate /\ Pointless /\ Advance
      /\ UNCHANGED <<data, flaky, exact, crashMode, phase, blockLen, prevDel, changed, pass, known, outFile>>
  BY DEF Skip
<1>2. phase \in {"normalize", "delete", "symbols", "characters"}
  BY DEF Skip, AtCandidate
<1>3. MinTyped /\ Faithful /\ Written /\ Passed
  BY DEF MinInv
<1>4. at' \in Nat /\ at' >= at /\ (phase = "delete" => at' = at + blockLen)
  BY <1>1, <1>2, <1>3 DEF Advance, MinTyped
<1>5. MinTyped' /\ Faithful' /\ Written'
  BY <1>1, <1>3, <1>4 DEF MinTyped, Faithful, Written
<1>6. \A k : Needed(k)' = Needed(k)
  BY <1>1 DEF Needed
<1>7. ASSUME ~flaky, ~changed, phase = "delete", blockLen = 1, NEW k \in 1 .. at', k <= Len(data) PROVE Needed(k)
  <2>1. data \in Bytes /\ at \in Nat
    BY <1>3 DEF MinTyped
  <2>2. at' = at + 1
    BY <1>4, <1>7
  <2>3. CASE k # at + 1
    BY <1>3, <1>7, <2>1, <2>2, <2>3 DEF Passed
  <2>4. CASE k = at + 1
    <3>1. SameAsLast
      BY <1>1, <1>7 DEF Pointless
    <3>2. at >= 1 /\ SubSeq(data, at - 1 + 1, at) = SubSeq(data, at + 1, at + 1)
      BY <1>3, <1>7, <3>1 DEF SameAsLast, Passed
    <3>3. at \in 1 .. Len(data) - 1
      BY <1>7, <2>1, <2>4, <3>2 DEF Bytes
    <3>4. data[at] = data[at + 1]
      <4>1. data \in Seq(Byte)
        BY <2>1 DEF Bytes
      <4>2. \A j \in 1 .. Len(data) : SubSeq(data, j, j)[1] = data[j]
        BY <4>1
      <4>3. at - 1 + 1 = at /\ at \in 1 .. Len(data) /\ at + 1 \in 1 .. Len(data)
        BY <3>3, <4>1
      <4>4. SubSeq(data, at, at) = SubSeq(data, at + 1, at + 1)
        BY <3>2, <4>3
      <4> QED BY <4>2, <4>3, <4>4
    <3>5. RemoveAt(data, at + 1) = RemoveAt(data, at)
      BY <2>1, <3>3, <3>4, EqualNeighbours DEF Bytes
    <3>6. Needed(at)
      BY <1>3, <1>7, <3>3 DEF Passed
    <3> QED BY <2>4, <3>5, <3>6 DEF Needed
  <2> QED BY <2>3, <2>4
<1>8. Passed'
  BY <1>1, <1>3, <1>4, <1>6, <1>7 DEF Passed, MinTyped
<1> QED BY <1>5, <1>8 DEF MinInv

(* What is learnt does not change what was known. *)
LEMMA Learnt ==
    ASSUME Faithful, NEW good \in BOOLEAN, good \in Verdicts, Learn(good), ~flaky, UNCHANGED flaky
    PROVE  /\ DOMAIN known' = DOMAIN known \cup {Proposal} /\ known'[Proposal] = good
           /\ \A d \in DOMAIN known : known'[d] = known[d]
           /\ Proposal = data => good
<1>1. known' = [d \in DOMAIN known \cup {Proposal} |-> IF d = Proposal THEN good ELSE known[d]]
  BY DEF Learn
<1>2. Proposal \in DOMAIN known => known[Proposal] = good
  BY DEF Verdicts
<1> QED BY <1>1, <1>2 DEF Faithful

(* A change the target does not answer is taken over, and then nothing is *)
(* known to be needed.                                                    *)
LEMMA KeepKeeps == ASSUME MinInv, Keep PROVE MinInv'
<1>1. /\ AtCandidate /\ TRUE \in Verdicts /\ Learn(TRUE) /\ data' = Proposal /\ changed' = TRUE
      /\ UNCHANGED <<flaky, phase, blockLen, outFile>>
      /\ at' = at \/ (Advance /\ phase # "delete")
  <2>1. AtCandidate /\ TRUE \in Verdicts /\ Learn(TRUE) /\ data' = Proposal /\ changed' = TRUE
    BY DEF Keep
  <2>2. UNCHANGED <<flaky, phase, blockLen, outFile>>
    BY DEF Keep
  <2>3. CASE phase = "delete"
    BY <2>1, <2>2, <2>3 DEF Keep
  <2>4. CASE phase # "delete"
    BY <2>1, <2>2, <2>4 DEF Keep
  <2> QED BY <2>3, <2>4
<1>2. phase \in {"normalize", "delete", "symbols", "characters"}
  BY <1>1 DEF AtCandidate
<1>3. MinTyped /\ Faithful /\ Written /\ Passed
  BY DEF MinInv
<1>4. at' \in Nat
  BY <1>1, <1>2, <1>3 DEF Advance, MinTyped
<1>5. data' \in Bytes
  BY <1>1, ProposalTyped
<1>6. Faithful'
  BY <1>1, <1>3, Learnt DEF Faithful
<1>7. MinTyped' /\ Written'
  BY <1>1, <1>2, <1>3, <1>4, <1>5 DEF MinTyped, Written
<1>8. Passed'
  <2>1. phase = "delete" => prevDel'
    BY DEF Keep
  <2> QED BY <1>1, <2>1 DEF Passed
<1> QED BY <1>6, <1>7, <1>8 DEF MinInv

(* A change the target answers is dropped, and its byte is known to be *)
(* needed.                                                             *)
LEMMA DiscardKeeps == ASSUME MinInv, Discard PROVE MinInv'
<1>1. /\ AtCandidate /\ FALSE \in Verdicts /\ Learn(FALSE) /\ Advance /\ prevDel' = FALSE
      /\ UNCHANGED <<data, flaky, phase, blockLen, changed, outFile>>
  BY DEF Discard
<1>2. phase \in {"normalize", "delete", "symbols", "characters"}
  BY <1>1 DEF AtCandidate
<1>3. MinTyped /\ Faithful /\ Written /\ Passed
  BY DEF MinInv
<1>4. at' \in Nat /\ at' >= at /\ (phase = "delete" => at' = at + blockLen)
  BY <1>1, <1>2, <1>3 DEF Advance, MinTyped
<1>5. Faithful' /\ (~flaky => \A k : Needed(k) => Needed(k)')
  <2>1. CASE flaky
    BY <1>1, <2>1 DEF Faithful
  <2>2. CASE ~flaky
    <3>1. /\ DOMAIN known' = DOMAIN known \cup {Proposal} /\ \A d \in DOMAIN known : known'[d] = known[d]
      BY <1>1, <1>3, <2>2, Learnt
    <3> QED BY <1>1, <1>3, <2>2, <3>1 DEF Faithful, Needed
  <2> QED BY <2>1, <2>2
<1>6. MinTyped' /\ Written'
  BY <1>1, <1>2, <1>3, <1>4 DEF MinTyped, Written
<1>7. ASSUME ~flaky, ~changed, phase = "delete", blockLen = 1, NEW k \in 1 .. at', k <= Len(data) PROVE Needed(k)'
  <2>1. at \in Nat /\ at' = at + 1
    BY <1>3, <1>4, <1>7 DEF MinTyped
  <2>2. CASE k # at + 1
    BY <1>3, <1>5, <1>7, <2>1, <2>2 DEF Passed
  <2>3. CASE k = at + 1
    <3>1. Proposal = RemoveAt(data, k)
      BY <1>1, <1>7, <2>3, OneDeleted
    <3>2. Proposal \in DOMAIN known' /\ known'[Proposal] = FALSE
      BY <1>1, <1>3, <1>7, Learnt
    <3> QED BY <1>1, <3>1, <3>2 DEF Needed
  <2> QED BY <2>2, <2>3
<1>8. Passed'
  BY <1>1, <1>3, <1>4, <1>5, <1>7 DEF Passed, MinTyped
<1> QED BY <1>5, <1>6, <1>8 DEF MinInv

(* The blocks to begin with have a byte. *)
LEMMA BlockLenTyped ==
    ASSUME NEW n \in Nat
    PROVE  BlockLenFor(n) \in Nat \ {0} /\ NextP2(n \div SetSteps) \in Nat \ {0}
<1>1. n \div StartSteps \in Nat /\ n \div SetSteps \in Nat
  BY CasesTyped
<1> QED BY <1>1, NextP2Typed DEF BlockLenFor

(* When the deletions begin, nothing has been passed. *)
LEMMA Begun ==
    ASSUME MinTyped, Written, Faithful', UNCHANGED <<data, outFile>>, NEW n \in Nat \ {0},
           phase \in {"normalize", "characters"},
           phase' = "delete", at' = 0, blockLen' = n, prevDel' = TRUE, changed' = FALSE
    PROVE  MinInv'
<1>1. MinTyped'
  <2>1. data' \in Bytes /\ changed' \in BOOLEAN
    BY DEF MinTyped
  <2>2. at' \in Nat /\ blockLen' \in Nat /\ blockLen' >= 1
    OBVIOUS
  <2> QED BY <2>1, <2>2 DEF MinTyped
<1>3. Written'
  BY DEF Written
<1>2. Passed'
  BY DEF Passed
<1> QED BY <1>1, <1>2, <1>3 DEF MinInv

(* From phase to phase, the test case and what is known stay. *)
LEMMA PhaseKeeps ==
    ASSUME MinInv, DryRun \/ Interrupted \/ EndNormalization \/ NextBlockLen \/ EndDeletion \/ EndSymbols
                   \/ EndCharacters \/ Write
    PROVE  MinInv'
<1>1. UNCHANGED <<data, flaky, known>>
  BY DEF DryRun, Interrupted, EndNormalization, NextBlockLen, EndDeletion, EndSymbols, EndCharacters, Write
<1>2. MinTyped /\ Faithful /\ Written /\ Passed
  BY DEF MinInv
<1>3. Faithful' /\ \A k : Needed(k)' = Needed(k)
  BY <1>1, <1>2 DEF Faithful, Needed
<1>4. data \in Bytes /\ Len(data) \in Nat /\ at \in Nat /\ blockLen \in Nat
  BY <1>2 DEF MinTyped, Bytes
<1>5. BlockLenFor(Len(data)) \in Nat \ {0} /\ NextP2(Len(data) \div SetSteps) \in Nat \ {0}
  BY <1>4, BlockLenTyped
<1>6. CASE DryRun
  <2>1. /\ UNCHANGED <<at, changed, outFile>>
        /\ \/ phase' = "fatal" /\ blockLen' = blockLen
           \/ phase' = "normalize" /\ blockLen' = LET n == NextP2(Len(data) \div SetSteps)
                                                  IN  IF n < SetMinSize THEN SetMinSize ELSE n
        /\ phase = "dry"
    BY <1>6 DEF DryRun
  <2>2. blockLen' \in Nat /\ (phase' = "normalize" => blockLen' >= 1) /\ phase' \in {"fatal", "normalize"}
    BY <1>4, <1>5, <2>1, CasesTyped
  <2> QED BY <1>1, <1>2, <1>3, <2>1, <2>2 DEF MinInv, MinTyped, Written, Passed
<1>7. CASE Interrupted
  BY <1>1, <1>2, <1>3, <1>7 DEF Interrupted, MinInv, MinTyped, Written, Passed
<1>8. CASE EndNormalization
  <2>1. /\ phase' = "delete" /\ at' = 0 /\ blockLen' = BlockLenFor(Len(data)) /\ prevDel' = TRUE /\ changed' = FALSE
        /\ phase = "normalize" /\ outFile' = outFile
    BY <1>8 DEF EndNormalization, BeginDeletion
  <2> QED BY <1>1, <1>2, <1>3, <1>5, <2>1, Begun
<1>9. CASE NextBlockLen
  <2>1. blockLen \div 2 \in Nat /\ blockLen \div 2 >= 1
    BY <1>4, <1>9 DEF NextBlockLen
  <2> QED BY <1>1, <1>2, <1>3, <1>9, <2>1 DEF NextBlockLen, MinInv, MinTyped, Written, Passed
<1>10. CASE EndDeletion
  <2>1. /\ phase = "delete" /\ ~AtCandidate /\ (blockLen = 1 \/ data = << >>)
        /\ (phase' = "write" /\ ~changed) \/ phase' = "symbols"
        /\ UNCHANGED <<at, blockLen, changed, outFile>>
    BY <1>10 DEF EndDeletion, Finishes
  <2>2. ASSUME ~flaky, ~changed, NEW k \in 1 .. Len(data) PROVE Needed(k)
    <3>1. Len(data) <= at /\ blockLen = 1
      BY <1>4, <2>1, <2>2 DEF AtCandidate, Limit
    <3> QED BY <1>2, <1>4, <2>1, <2>2, <3>1 DEF Passed
  <2> QED BY <1>1, <1>2, <1>3, <2>1, <2>2 DEF MinInv, MinTyped, Written, Passed
<1>11. CASE EndSymbols
  BY <1>1, <1>2, <1>3, <1>11 DEF EndSymbols, MinInv, MinTyped, Written, Passed
<1>12. CASE EndCharacters
  <2>1. CASE changed
    <3>1. /\ phase' = "delete" /\ at' = 0 /\ blockLen' = BlockLenFor(Len(data)) /\ prevDel' = TRUE /\ changed' = FALSE
          /\ phase = "characters" /\ outFile' = outFile
      BY <1>12, <2>1 DEF EndCharacters, BeginDeletion
    <3> QED BY <1>1, <1>2, <1>3, <1>5, <3>1, Begun
  <2>2. CASE ~changed
    BY <1>1, <1>2, <1>3, <1>12, <2>2 DEF EndCharacters, MinInv, MinTyped, Written, Passed
  <2> QED BY <2>1, <2>2
<1>13. CASE Write
  BY <1>1, <1>2, <1>3, <1>13 DEF Write, MinInv, MinTyped, Written, Passed
<1> QED BY <1>6, <1>7, <1>8, <1>9, <1>10, <1>11, <1>12, <1>13

(* Every step of minimize keeps the invariant. *)
LEMMA MinInvStep == MinInv /\ [MinNext]_minVars => MinInv'
<1> SUFFICES ASSUME MinInv, [MinNext]_minVars PROVE MinInv'
  OBVIOUS
<1>1. CASE UNCHANGED minVars
  BY <1>1 DEF minVars, MinInv, MinTyped, Faithful, Written, Passed, Needed
<1>2. CASE MinNext
  BY <1>2, SkipKeeps, KeepKeeps, DiscardKeeps, PhaseKeeps DEF MinNext
<1> QED BY <1>1, <1>2

(* When afl-tmin has written its result, that result behaves like the    *)
(* original, and none of its bytes can be left out, if the target is not *)
(* flaky.                                                                *)
THEOREM ResultsAreMinimal == MinSpec => []ResultIsMinimal
<1>1. MinInv => ResultIsMinimal
  <2> SUFFICES ASSUME MinInv, outFile # NoFile, ~flaky
               PROVE  /\ known[outFile]
                      /\ phase = "done" => \A k \in DOMAIN outFile :
                            RemoveAt(outFile, k) \in DOMAIN known /\ ~known[RemoveAt(outFile, k)]
    BY DEF ResultIsMinimal
  <2>1. outFile = data /\ known[data] = TRUE
    BY DEF MinInv, Written, Faithful
  <2>2. ASSUME phase = "done", NEW k \in DOMAIN data PROVE Needed(k)
    <3>1. ~changed /\ k \in 1 .. Len(data)
      BY <2>2 DEF MinInv, Written, MinTyped, Bytes
    <3> QED BY <2>2, <3>1 DEF MinInv, Passed
  <2> QED BY <2>1, <2>2 DEF Needed
<1> QED BY <1>1, MinInvInit, MinInvStep, PTL DEF MinSpec

-----------------------------------------------------------------------------
(* afl-analyze: the runs printed are fields. *)

Kinds == {NoEffect, Minor, Variable, Fixed}
Class == [kind : Kinds, bit : BOOLEAN]

(* A set of numbers with a limit has a greatest element. *)
LEMMA GreatestElement ==
    ASSUME NEW n \in Nat, NEW B \in SUBSET (0 .. n), B # {}
    PROVE  Max(B) \in B /\ \A k \in B : k <= Max(B)
<1> DEFINE C == {n - k : k \in B}
<1>1. C \in SUBSET Nat /\ C # {}
  OBVIOUS
<1>2. PICK m \in C : \A k \in C : m <= k
  BY <1>1, LeastElement
<1>3. n - m \in B /\ \A k \in B : n - m >= k
  <2>1. PICK b \in B : m = n - b
    BY <1>2
  <2>2. ASSUME NEW k \in B PROVE n - m >= k
    <3>1. m <= n - k
      BY <1>2
    <3> QED BY <2>1, <3>1
  <2> QED BY <2>1, <2>2
<1>4. \E x \in B : \A y \in B : x >= y
  BY <1>3
<1>5. Max(B) \in B /\ \A y \in B : Max(B) >= y
  BY <1>4 DEF Max
<1> QED BY <1>5

(* A byte after so many changes; the last is taken back at once. *)
AfterChanges(x, n) ==
    CASE n = 0 -> x
      [] n = 1 -> 255 - x
      [] n = 2 -> FlipLow(x)
      [] n = 3 -> (x - 16) % 256
      [] n = 4 -> x

(* Altered is what the source does from each change to the next. *)
LEMMA ChangesTakenBack ==
    ASSUME NEW x \in Byte, NEW n \in 0 .. 3
    PROVE  LET to == Altered(AfterChanges(x, n), n + 1)
           IN  AfterChanges(x, n + 1) = IF n = 3 THEN (to - 16) % 256 ELSE to
<1>1. CASE n = 0
  BY <1>1 DEF AfterChanges, Altered, Not8
<1>2. CASE n = 1
  <2>1. 255 - (255 - x) = x
    BY DEF Byte
  <2> QED BY <1>2, <2>1 DEF AfterChanges, Altered, Not8
<1>3. CASE n = 2
  <2>1. FlipLow(FlipLow(x)) = x
    BY DEF FlipLow, Byte
  <2>2. AfterChanges(x, 2) = FlipLow(x) /\ AfterChanges(x, 3) = (x - 16) % 256
    BY DEF AfterChanges
  <2>3. Altered(FlipLow(x), 3) = (FlipLow(FlipLow(x)) - 16) % 256
    BY DEF Altered
  <2> QED BY <1>3, <2>1, <2>2, <2>3
<1>4. CASE n = 3
  <2>1. AfterChanges(x, 3) = (x - 16) % 256 /\ AfterChanges(x, 4) = x
    BY DEF AfterChanges
  <2>2. Altered((x - 16) % 256, 4) = (((x - 16) % 256) + 32) % 256
    BY DEF Altered
  <2>3. (((((x - 16) % 256) + 32) % 256) - 16) % 256 = x
    BY DEF Byte
  <2> QED BY <1>4, <2>1, <2>2, <2>3
<1> QED BY <1>1, <1>2, <1>3, <1>4

(* A changed byte is a byte. *)
LEMMA ChangedIsByte ==
    ASSUME NEW x \in Byte, NEW n \in 0 .. 4
    PROVE  AfterChanges(x, n) \in Byte
<1>1. CASE n = 0
  BY <1>1 DEF AfterChanges
<1>2. CASE n = 1
  <2>1. 255 - x \in Byte
    BY DEF Byte
  <2> QED BY <1>2, <2>1 DEF AfterChanges
<1>3. CASE n = 2
  <2>1. FlipLow(x) \in Byte
    BY DEF Byte, FlipLow
  <2> QED BY <1>3, <2>1 DEF AfterChanges
<1>4. CASE n = 3
  <2>1. (x - 16) % 256 \in Byte
    BY DEF Byte
  <2> QED BY <1>4, <2>1 DEF AfterChanges
<1>5. CASE n = 4
  BY <1>5 DEF AfterChanges
<1> QED BY <1>1, <1>2, <1>3, <1>4, <1>5

(* Of the kinds of a byte, a fixed one says most. *)
LEMMA KindFacts ==
    ASSUME NEW a
    PROVE  /\ KindOf(a) \in Kinds
           /\ KindOf(a) = Fixed => (\A k \in 1 .. 4 : a[k] # origCksum) /\ a[2] = a[1] /\ a[3] = a[1] /\ a[4] = a[1]
<1> DEFINE C1 == \A k \in 1 .. 4 : a[k] = origCksum
           C2 == \E k \in 1 .. 4 : a[k] = origCksum
           C3 == (\A k \in 1 .. 4 : a[k] # origCksum) /\ a[2] = a[1] /\ a[3] = a[1] /\ a[4] = a[1]
<1>1. KindOf(a) = CASE C1 -> NoEffect [] C2 /\ ~C1 -> Minor [] C3 -> Fixed [] OTHER -> Variable
  BY DEF KindOf
<1>2. C1 => ~C3
  OBVIOUS
<1>3. C2 => ~C3
  OBVIOUS
<1> HIDE DEF C1, C2, C3
<1>4. KindOf(a) \in Kinds /\ (KindOf(a) = Fixed => C3)
  BY <1>1, <1>2, <1>3 DEF Kinds, NoEffect, Minor, Variable, Fixed
<1> QED BY <1>4 DEF C3

(* The first n bytes have been judged by what the target answered. *)
Judged(n) ==
    /\ bData \in Seq(Class) /\ Len(bData) = n
    /\ \A j \in 1 .. n : bData[j].kind = KindOf(AnswersTo(j))
    /\ \A j \in 2 .. n : bData[j].bit # bData[j - 1].bit <=> NewField(AnswersTo(j), AnswersTo(j - 1))

Adjusting ==
    /\ anAt \in 0 .. Len(sample.data)
    /\ answers \in Seq(Int) /\ Len(answers) <= 4
    /\ \A c \in 1 .. Len(answers) : answers[c] = AnswersTo(anAt + 1)[c]
    /\ anAt = Len(sample.data) => answers = << >>
    /\ inData \in Seq(Byte) /\ Len(inData) = Len(sample.data)
    /\ \A k \in 1 .. Len(inData) :
          inData[k] = IF k = anAt + 1 THEN AfterChanges(sample.data[k], Len(answers)) ELSE sample.data[k]
    /\ Judged(anAt)
    /\ anAt >= 1 => prev = AnswersTo(anAt) /\ seqBit = bData[anAt].bit
    /\ seqBit \in BOOLEAN
    /\ runs = << >>

(* The runs printed so far cover the bytes passed, and end where a field ends. *)
Run == [at : Nat, len : Nat \ {0}, kind : Int]

Printed ==
    /\ Judged(Len(sample.data)) /\ inData = sample.data
    /\ anAt \in 0 .. Len(sample.data)
    /\ runs \in Seq(Run)
    /\ \A k \in 1 .. Len(runs) : runs[k].at + runs[k].len <= anAt
    /\ \A k \in 1 .. Len(runs) : runs[k].at = IF k = 1 THEN 0 ELSE runs[k - 1].at + runs[k - 1].len
    /\ anAt = IF Len(runs) = 0 THEN 0 ELSE runs[Len(runs)].at + runs[Len(runs)].len
    /\ \A j \in 2 .. anAt : (\E k \in 1 .. Len(runs) : runs[k].at = j - 1) <=> bData[j].bit # bData[j - 1].bit
    /\ anAt \in 1 .. Len(sample.data) - 1 => bData[anAt + 1].bit # bData[anAt].bit
    /\ \A k \in 1 .. Len(runs) : runs[k].kind >= Fixed =>
          \E j \in runs[k].at + 1 .. runs[k].at + runs[k].len : bData[j].kind = Fixed

AnInv ==
    /\ sample \in Samples
    /\ inPhase = "first" => /\ inData = sample.data /\ anAt = 0 /\ answers = << >> /\ seqBit = FALSE
                            /\ bData = << >> /\ runs = << >>
    /\ inPhase = "adjust" => Adjusting
    /\ inPhase = "dump" => Printed
    /\ inPhase = "done" => Printed /\ anAt = Len(sample.data)

(* The invariant holds when the input has been read. *)
LEMMA AnInvInit == AnInit => AnInv
BY DEF AnInit, AnInv

(* The input is made of bytes, and the answers to their changes are *)
(* numbers.                                                         *)
LEMMA SampleFacts ==
    ASSUME sample \in Samples
    PROVE  /\ sample.data \in Seq(Byte) /\ Len(sample.data) \in Nat \ {0}
           /\ \A j \in 1 .. Len(sample.data), c \in 1 .. 4 :
                 Answer(sample.replies[j][c]) \in Int /\ AnswersTo(j)[c] = Answer(sample.replies[j][c])
<1>1. sample.data \in Seq(Byte) /\ Len(sample.data) \in Nat \ {0}
  <2>1. sample.data \in Seq(Byte) /\ Len(sample.data) >= 1
    BY SamplesTyped DEF Byte
  <2> QED BY <2>1
<1>2. ASSUME NEW j \in 1 .. Len(sample.data), NEW c \in 1 .. 4
      PROVE  Answer(sample.replies[j][c]) \in Int /\ AnswersTo(j)[c] = Answer(sample.replies[j][c])
  <2>1. PICK reply : reply = sample.replies[j][c]
    OBVIOUS
  <2>2. reply.end \in {"hang", "failed", "ok"} /\ reply.trace \in Int
    BY <2>1, SamplesTyped
  <2>3. Answer(reply) \in Int
    BY <2>2 DEF Answer
  <2> QED BY <2>1, <2>3 DEF AnswersTo
<1> QED BY <1>1, <1>2

(* After the first run no byte has been judged. *)
LEMMA FirstKeeps == ASSUME AnInv, FirstRun PROVE AnInv'
<1>1. /\ inPhase = "first" /\ (inPhase' = "fatal" \/ inPhase' = "adjust")
      /\ UNCHANGED <<sample, inData, anAt, answers, prev, seqBit, bData, runs>>
  BY DEF FirstRun
<1>2. /\ inData = sample.data /\ anAt = 0 /\ answers = << >> /\ seqBit = FALSE /\ bData = << >> /\ runs = << >>
      /\ sample \in Samples /\ inPhase = "first"
  BY DEF AnInv, FirstRun
<1>3. sample.data \in Seq(Byte) /\ Len(sample.data) \in Nat \ {0}
  BY <1>2, SampleFacts
<1>4. Judged(0)'
  BY <1>1, <1>2 DEF Judged
<1>5. Adjusting'
  <2>1. \A k \in 1 .. Len(inData) :
          inData[k] = IF k = anAt + 1 THEN AfterChanges(sample.data[k], 0) ELSE sample.data[k]
    BY <1>2 DEF AfterChanges
  <2>2. Len(answers) = 0 /\ answers \in Seq(Int)
    BY <1>2
  <2>3. \A k \in 1 .. Len(inData)' :
          inData'[k] = IF k = anAt' + 1 THEN AfterChanges(sample'.data[k], Len(answers')) ELSE sample'.data[k]
    BY <1>1, <2>1, <2>2
  <2>4. /\ anAt' \in 0 .. Len(sample'.data) /\ answers' \in Seq(Int) /\ Len(answers') = 0
        /\ answers' = << >> /\ inData' \in Seq(Byte) /\ Len(inData') = Len(sample'.data)
        /\ ~(anAt' >= 1) /\ seqBit' \in BOOLEAN /\ runs' = << >>
    <3>1. UNCHANGED <<sample, inData, anAt, answers, seqBit, runs>>
      BY <1>1
    <3>2. 0 \in 0 .. Len(sample.data) /\ ~(0 >= 1)
      BY <1>3
    <3> QED BY <1>2, <1>3, <2>2, <3>1, <3>2
  <2>5. Judged(anAt)'
    BY <1>1, <1>2, <1>4 DEF Judged
  <2>6. \A c \in 1 .. Len(answers)' : answers'[c] = AnswersTo(anAt + 1)'[c]
    BY <2>4
  <2>7. Len(answers)' <= 4
    BY <2>4
  <2> QED BY <2>3, <2>4, <2>5, <2>6, <2>7 DEF Adjusting
<1>6. inPhase' \in {"fatal", "adjust"}
  BY DEF FirstRun
<1> QED BY <1>1, <1>2, <1>5, <1>6 DEF AnInv

(* A change is on top of the one before it, and the last is taken back. *)
LEMMA AdjustKeeps == ASSUME AnInv, Adjust PROVE AnInv'
<1>1. /\ inPhase = "adjust" /\ inPhase' = "adjust" /\ anAt < Len(inData) /\ Len(answers) < 4
      /\ UNCHANGED <<sample, origCksum, anAt, prev, seqBit, bData, runs>>
      /\ answers' = Append(answers, Answer(sample.replies[anAt + 1][Len(answers) + 1]))
  BY DEF Adjust
<1>2. sample \in Samples /\ Adjusting
  BY <1>1 DEF AnInv
<1>3. /\ anAt \in Nat /\ anAt + 1 \in 1 .. Len(sample.data) /\ Len(inData) = Len(sample.data) /\ inData \in Seq(Byte)
      /\ answers \in Seq(Int) /\ Len(answers) \in 0 .. 3
  <2>1. Len(sample.data) \in Nat
    BY <1>2, SampleFacts
  <2>2. /\ anAt \in 0 .. Len(sample.data) /\ Len(inData) = Len(sample.data) /\ inData \in Seq(Byte)
        /\ answers \in Seq(Int) /\ Len(answers) <= 4
    BY <1>2 DEF Adjusting
  <2>3. Len(answers) \in Nat
    BY <2>2
  <2>4. anAt \in Nat /\ anAt + 1 \in 1 .. Len(sample.data)
    BY <1>1, <2>1, <2>2
  <2>5. Len(answers) \in 0 .. 3
    <3>1. Len(answers) < 4
      BY DEF Adjust
    <3>2. \A m \in Nat : m < 4 => m \in 0 .. 3
      OBVIOUS
    <3> QED BY <2>3, <3>1, <3>2
  <2> QED BY <2>2, <2>4, <2>5
<1>4. PICK n \in 0 .. 3 : n = Len(answers)
  BY <1>3
<1>5. PICK k0 \in 1 .. Len(inData) : k0 = anAt + 1
  BY <1>3
<1>6. PICK x \in Byte : x = sample.data[k0] /\ inData[k0] = AfterChanges(x, n)
  <2>1. sample.data[k0] \in Byte
    BY <1>2, <1>3, <1>5, SampleFacts
  <2>2. inData[k0] = AfterChanges(sample.data[k0], n)
    BY <1>2, <1>4, <1>5 DEF Adjusting
  <2> QED BY <2>1, <2>2
<1>7. inData' = [inData EXCEPT ![k0] = AfterChanges(x, n + 1)]
  <2>1. inData' = [inData EXCEPT ![k0] = LET to == Altered(inData[k0], n + 1) IN IF n = 3 THEN (to - 16) % 256 ELSE to]
    BY <1>4, <1>5 DEF Adjust
  <2>2. AfterChanges(x, n + 1) = LET to == Altered(inData[k0], n + 1) IN IF n = 3 THEN (to - 16) % 256 ELSE to
    BY <1>6, ChangesTakenBack
  <2> QED BY <2>1, <2>2
<1>8. AfterChanges(x, n + 1) \in Byte
  <2>1. n + 1 \in 0 .. 4 /\ x \in Byte
    OBVIOUS
  <2> QED BY <2>1, ChangedIsByte
<1>9. PICK y \in Byte : y = AfterChanges(x, n + 1)
  BY <1>8
<1>10. /\ inData' \in Seq(Byte) /\ Len(inData') = Len(inData) /\ inData'[k0] = y
       /\ \A k \in 1 .. Len(inData) : k # k0 => inData'[k] = inData[k]
  BY <1>3, <1>7, <1>9
<1>11. PICK a \in Int : a = Answer(sample.replies[k0][n + 1]) /\ a = AnswersTo(k0)[n + 1]
  <2>1. n + 1 \in 1 .. 4 /\ k0 \in 1 .. Len(sample.data)
    BY <1>3
  <2> QED BY <1>2, <2>1, SampleFacts
<1>12. answers' = Append(answers, a) /\ Len(answers') = n + 1 /\ answers' \in Seq(Int)
  BY <1>1, <1>3, <1>4, <1>5, <1>11
<1>13. \A c \in 1 .. n + 1 : answers'[c] = AnswersTo(k0)[c]
  <2> SUFFICES ASSUME NEW c \in 1 .. n + 1 PROVE answers'[c] = AnswersTo(k0)[c]
    OBVIOUS
  <2>1. CASE c = n + 1
    BY <1>3, <1>4, <1>11, <1>12, <2>1
  <2>2. CASE c # n + 1
    <3>1. c \in 1 .. n /\ answers'[c] = answers[c]
      BY <1>3, <1>4, <1>12, <2>2
    <3> QED BY <1>2, <1>4, <1>5, <3>1 DEF Adjusting
  <2> QED BY <2>1, <2>2
<1>14. \A j : AnswersTo(j)' = AnswersTo(j)
  BY <1>1 DEF AnswersTo
<1>15. Judged(anAt)' /\ (anAt >= 1 => prev' = AnswersTo(anAt)' /\ seqBit' = bData'[anAt].bit) /\ seqBit' \in BOOLEAN /\ runs' = << >>
  <2>1. \A b : KindOf(b)' = KindOf(b)
    BY <1>1 DEF KindOf
  <2> QED BY <1>1, <1>2, <1>14, <2>1 DEF Adjusting, Judged
<1>16. Adjusting'
  <2>1. \A k \in 1 .. Len(inData') :
          inData'[k] = IF k = anAt + 1 THEN AfterChanges(sample.data[k], Len(answers')) ELSE sample.data[k]
    BY <1>2, <1>3, <1>5, <1>6, <1>9, <1>10, <1>12 DEF Adjusting
  <2>2. \A c \in 1 .. Len(answers') : answers'[c] = AnswersTo(anAt + 1)'[c]
    <3>1. AnswersTo(anAt + 1)' = AnswersTo(k0)
      BY <1>1, <1>5 DEF AnswersTo
    <3> QED BY <1>12, <1>13, <3>1
  <2>3. anAt # Len(sample.data) /\ anAt \in 0 .. Len(sample.data)
    BY <1>3
  <2>4. answers' \in Seq(Int) /\ Len(answers') \in 0 .. 4 /\ (anAt = Len(sample.data) => answers' = << >>)
    BY <1>12, <2>3
  <2>5. inData' \in Seq(Byte) /\ Len(inData') = Len(sample.data)
    BY <1>3, <1>10
  <2> QED BY <1>1, <1>15, <2>1, <2>2, <2>3, <2>4, <2>5 DEF Adjusting
<1> QED BY <1>1, <1>2, <1>16 DEF AnInv

(* The bytes judged stay so while nothing they are judged by changes. *)
LEMMA JudgedStays ==
    ASSUME NEW n, Judged(n), sample' = sample, origCksum' = origCksum, bData' = bData
    PROVE  Judged(n)'
<1>1. \A j : AnswersTo(j)' = AnswersTo(j)
  BY DEF AnswersTo
<1>2. \A a : KindOf(a)' = KindOf(a)
  BY DEF KindOf
<1>3. \A j : KindOf(AnswersTo(j))' = KindOf(AnswersTo(j))
  <2> TAKE j
  <2>1. PICK y : y = AnswersTo(j) /\ y = AnswersTo(j)'
    BY <1>1
  <2>2. KindOf(y)' = KindOf(AnswersTo(j))'
    BY <2>1 DEF KindOf
  <2> QED BY <1>2, <2>1, <2>2
<1>4. bData' \in Seq(Class) /\ Len(bData)' = n
  BY DEF Judged
<1>5. \A j \in 1 .. n : bData'[j].kind = KindOf(AnswersTo(j))'
  BY <1>3 DEF Judged
<1>6. \A j \in 2 .. n : bData'[j].bit # bData'[j - 1].bit <=> NewField(AnswersTo(j)', AnswersTo(j - 1)')
  <2> SUFFICES ASSUME NEW j \in 2 .. n
               PROVE  bData'[j].bit # bData'[j - 1].bit <=> NewField(AnswersTo(j)', AnswersTo(j - 1)')
    OBVIOUS
  <2>1. bData[j].bit # bData[j - 1].bit <=> NewField(AnswersTo(j), AnswersTo(j - 1))
    BY DEF Judged
  <2>2. AnswersTo(j)' = AnswersTo(j) /\ AnswersTo(j - 1)' = AnswersTo(j - 1)
    BY <1>1
  <2> QED BY <2>1, <2>2
<1> QED BY <1>4, <1>5, <1>6 DEF Judged

(* In particular all of them. *)
LEMMA AllJudgedStays ==
    ASSUME Judged(Len(sample.data)), sample' = sample, origCksum' = origCksum, bData' = bData
    PROVE  Judged(Len(sample.data))'
<1>1. PICK d : d = Len(sample.data) /\ d = Len(sample'.data)
  OBVIOUS
<1>2. Judged(d)
  BY <1>1
<1>3. Judged(d)'
  BY <1>2, JudgedStays
<1>4. Judged(d)' <=> Judged(Len(sample.data))'
  BY <1>1 DEF Judged
<1> QED BY <1>3, <1>4

(* A byte is judged by its four answers, and against the byte before it. *)
LEMMA ClassifyKeeps == ASSUME AnInv, ClassifyByte PROVE AnInv'
<1>1. /\ inPhase = "adjust" /\ inPhase' = "adjust" /\ Len(answers) = 4
      /\ UNCHANGED <<sample, origCksum, inData, runs>>
      /\ prev' = answers /\ answers' = << >> /\ anAt' = anAt + 1
  BY DEF ClassifyByte
<1>2. sample \in Samples /\ Adjusting
  BY <1>1 DEF AnInv
<1>3. Len(sample.data) \in Nat
  BY <1>2, SampleFacts
<1>4. PICK i \in 0 .. Len(sample.data) : i = anAt
  BY <1>2 DEF Adjusting
<1>5. i \in Nat /\ i + 1 \in 1 .. Len(sample.data)
  <2>1. i # Len(sample.data)
    <3>1. answers # << >>
      BY <1>1
    <3> QED BY <1>2, <1>4, <3>1 DEF Adjusting
  <2> QED BY <1>3, <1>4, <2>1
<1>6. PICK a : a = AnswersTo(i + 1)
  OBVIOUS
<1>7. answers = a
  <2>1. answers \in Seq(Int)
    BY <1>2 DEF Adjusting
  <2>2. answers = [c \in 1 .. 4 |-> answers[c]]
    BY <1>1, <2>1
  <2>3. a = [c \in 1 .. 4 |-> a[c]]
    BY <1>6 DEF AnswersTo
  <2>4. \A c \in 1 .. 4 : answers[c] = a[c]
    BY <1>1, <1>2, <1>4, <1>6 DEF Adjusting
  <2> QED BY <2>2, <2>3, <2>4
<1>8. PICK b \in BOOLEAN :
         /\ b = IF NewField(a, prev) THEN ~seqBit ELSE seqBit
         /\ seqBit' = b /\ bData' = Append(bData, [kind |-> KindOf(a), bit |-> b])
  <2>1. (IF NewField(a, prev) THEN ~seqBit ELSE seqBit) \in BOOLEAN
    BY <1>2 DEF Adjusting
  <2> QED BY <1>7, <2>1 DEF ClassifyByte
<1>9. PICK e \in Class : e = [kind |-> KindOf(a), bit |-> b]
  BY <1>8, KindFacts DEF Class
<1>10. bData \in Seq(Class) /\ Len(bData) = i
  BY <1>2, <1>4 DEF Adjusting, Judged
<1>11. /\ bData' \in Seq(Class) /\ Len(bData') = i + 1 /\ bData'[i + 1] = e
       /\ \A j \in 1 .. i : bData'[j] = bData[j]
  BY <1>5, <1>8, <1>9, <1>10
<1>12. \A j \in 2 .. i + 1 : bData'[j].bit # bData'[j - 1].bit <=> NewField(AnswersTo(j), AnswersTo(j - 1))
  <2> SUFFICES ASSUME NEW j \in 2 .. i + 1
               PROVE  bData'[j].bit # bData'[j - 1].bit <=> NewField(AnswersTo(j), AnswersTo(j - 1))
    OBVIOUS
  <2>1. CASE j = i + 1
    <3>1. i >= 1 /\ j - 1 = i
      BY <1>5, <2>1
    <3>2. prev = AnswersTo(i) /\ seqBit = bData[i].bit /\ seqBit \in BOOLEAN
      BY <1>2, <1>4, <3>1 DEF Adjusting
    <3>3. bData'[j].bit = b
      BY <1>9, <1>11, <2>1
    <3>4. bData'[j - 1].bit = seqBit
      BY <1>5, <1>11, <3>1, <3>2
    <3>5. b # seqBit <=> NewField(a, prev)
      BY <1>8, <3>2
    <3> QED BY <1>6, <2>1, <3>1, <3>2, <3>3, <3>4, <3>5
  <2>2. CASE j # i + 1
    <3>1. j \in 2 .. i /\ j \in 1 .. i /\ j - 1 \in 1 .. i
      BY <1>5, <2>2
    <3>2. bData'[j] = bData[j] /\ bData'[j - 1] = bData[j - 1]
      BY <1>11, <3>1
    <3> QED BY <1>2, <1>4, <3>1, <3>2 DEF Adjusting, Judged
  <2> QED BY <2>1, <2>2
<1>13. \A j \in 1 .. i + 1 : bData'[j].kind = KindOf(AnswersTo(j))
  <2> SUFFICES ASSUME NEW j \in 1 .. i + 1 PROVE bData'[j].kind = KindOf(AnswersTo(j))
    OBVIOUS
  <2>1. CASE j = i + 1
    BY <1>6, <1>9, <1>11, <2>1
  <2>2. CASE j # i + 1
    <3>1. j \in 1 .. i
      BY <1>5, <2>2
    <3> QED BY <1>2, <1>4, <1>11, <3>1 DEF Adjusting, Judged
  <2> QED BY <2>1, <2>2
<1>14. Judged(anAt)'
  <2>1. \A j : AnswersTo(j)' = AnswersTo(j)
    BY <1>1 DEF AnswersTo
  <2>2. \A x : KindOf(x)' = KindOf(x)
    BY <1>1 DEF KindOf
  <2>3. anAt' = i + 1
    BY <1>1, <1>4
  <2>4. bData' \in Seq(Class) /\ Len(bData') = anAt'
    BY <1>11, <2>3
  <2>5. \A j \in 1 .. anAt' : bData'[j].kind = KindOf(AnswersTo(j))'
    <3> SUFFICES ASSUME NEW j \in 1 .. i + 1 PROVE bData'[j].kind = KindOf(AnswersTo(j))'
      BY <2>3
    <3>1. PICK y : y = AnswersTo(j) /\ y = AnswersTo(j)'
      BY <2>1
    <3>2. KindOf(y)' = KindOf(AnswersTo(j))'
      BY <3>1 DEF KindOf
    <3> QED BY <1>13, <2>2, <3>1, <3>2
  <2>6. \A j \in 2 .. anAt' :
           bData'[j].bit # bData'[j - 1].bit <=> NewField(AnswersTo(j)', AnswersTo(j - 1)')
    <3> SUFFICES ASSUME NEW j \in 2 .. i + 1
                 PROVE  bData'[j].bit # bData'[j - 1].bit <=> NewField(AnswersTo(j)', AnswersTo(j - 1)')
      BY <2>3
    <3>1. AnswersTo(j)' = AnswersTo(j) /\ AnswersTo(j - 1)' = AnswersTo(j - 1)
      BY <2>1
    <3> QED BY <1>12, <3>1
  <2> QED BY <2>4, <2>5, <2>6 DEF Judged
<1>15. /\ anAt' \in 0 .. Len(sample.data) /\ answers' \in Seq(Int) /\ Len(answers') = 0
       /\ \A c \in 1 .. Len(answers') : answers'[c] = AnswersTo(anAt + 1)'[c]
  <2>1. Len(<< >>) = 0 /\ << >> \in Seq(Int)
    OBVIOUS
  <2>2. anAt' \in 0 .. Len(sample.data)
    BY <1>1, <1>3, <1>4, <1>5
  <2> QED BY <1>1, <2>1, <2>2
<1>16. /\ inData' \in Seq(Byte) /\ Len(inData') = Len(sample.data)
       /\ \A k \in 1 .. Len(inData') :
             inData'[k] = IF k = anAt' + 1 THEN AfterChanges(sample.data[k], Len(answers')) ELSE sample.data[k]
  <2>1. \A x : AfterChanges(x, 0) = x /\ AfterChanges(x, 4) = x
    BY DEF AfterChanges
  <2>2. \A k \in 1 .. Len(inData) : inData[k] = sample.data[k]
    <3>1. \A k \in 1 .. Len(inData) :
              inData[k] = IF k = anAt + 1 THEN AfterChanges(sample.data[k], Len(answers)) ELSE sample.data[k]
      BY <1>2 DEF Adjusting
    <3> QED BY <1>1, <2>1, <3>1
  <2>3. inData \in Seq(Byte) /\ Len(inData) = Len(sample.data)
    BY <1>2 DEF Adjusting
  <2>4. inData' = inData
    BY <1>1
  <2>5. \A k \in 1 .. Len(inData') :
             inData'[k] = IF k = anAt' + 1 THEN AfterChanges(sample.data[k], Len(answers')) ELSE sample.data[k]
    BY <1>15, <2>1, <2>2, <2>4
  <2> QED BY <2>3, <2>4, <2>5
<1>17. anAt' >= 1 => prev' = AnswersTo(anAt)' /\ seqBit' = bData'[anAt'].bit
  <2>1. AnswersTo(anAt)' = a
    BY <1>1, <1>4, <1>6 DEF AnswersTo
  <2> QED BY <1>1, <1>4, <1>7, <1>8, <1>9, <1>11, <2>1
<1>18. Adjusting'
  <2>1. seqBit' \in BOOLEAN /\ runs' = << >> /\ Len(answers)' <= 4
    BY <1>1, <1>2, <1>8, <1>15 DEF Adjusting
  <2> QED BY <1>1, <1>14, <1>15, <1>16, <1>17, <2>1 DEF Adjusting
<1> QED BY <1>1, <1>2, <1>18 DEF AnInv

(* When all bytes have been judged, the input is as it was. *)
LEMMA BeginDumpKeeps == ASSUME AnInv, BeginDump PROVE AnInv'
<1>1. /\ inPhase = "adjust" /\ inPhase' = "dump" /\ anAt = Len(inData) /\ anAt' = 0
      /\ UNCHANGED <<sample, origCksum, inData, answers, prev, seqBit, bData, runs>>
  BY DEF BeginDump
<1>2. sample \in Samples /\ Adjusting
  BY <1>1 DEF AnInv
<1>3. sample.data \in Seq(Byte) /\ Len(sample.data) \in Nat \ {0}
  BY <1>2, SampleFacts
<1>4. inData \in Seq(Byte) /\ Len(inData) = Len(sample.data) /\ anAt = Len(sample.data)
  BY <1>1, <1>2 DEF Adjusting
<1>5. inData = sample.data
  <2>1. \A k \in 1 .. Len(inData) : inData[k] = sample.data[k]
    <3>1. \A k \in 1 .. Len(inData) : k # anAt + 1
      BY <1>3, <1>4
    <3> QED BY <1>2, <3>1 DEF Adjusting
  <2> QED BY <1>3, <1>4, <2>1
<1>6. Judged(Len(sample.data))'
  <2>1. Judged(Len(sample.data))
    BY <1>2, <1>4 DEF Adjusting
  <2> QED BY <1>1, <2>1, AllJudgedStays
<1>7. runs' = << >> /\ Len(runs') = 0 /\ runs' \in Seq(Run)
  BY <1>1, <1>2 DEF Adjusting
<1>8. Printed'
  <2>1. inData' = sample'.data /\ anAt' \in 0 .. Len(sample'.data)
    BY <1>1, <1>3, <1>5
  <2>2. \A k \in 1 .. Len(runs') : FALSE
    BY <1>7
  <2>3. (\A j \in 2 .. anAt' : FALSE) /\ anAt' \notin 1 .. Len(sample.data)' - 1
    BY <1>1
  <2> QED BY <1>1, <1>6, <1>7, <2>1, <2>2, <2>3 DEF Printed
<1> QED BY <1>1, <1>2, <1>8 DEF AnInv

(* The output ends where the input does. *)
LEMMA EndDumpKeeps == ASSUME AnInv, EndDump PROVE AnInv'
<1>1. /\ inPhase = "dump" /\ inPhase' = "done" /\ anAt = Len(bData)
      /\ UNCHANGED <<sample, origCksum, inData, anAt, answers, prev, seqBit, bData, runs>>
  BY DEF EndDump
<1>2. sample \in Samples /\ Printed
  BY <1>1 DEF AnInv
<1>3. anAt = Len(sample.data)
  BY <1>1, <1>2 DEF Printed, Judged
<1>4. Printed'
  <2>1. Judged(Len(sample.data))'
    <3>1. Judged(Len(sample.data))
      BY <1>2 DEF Printed
    <3> QED BY <1>1, <3>1, AllJudgedStays
  <2> QED BY <1>1, <1>2, <2>1 DEF Printed
<1> QED BY <1>1, <1>2, <1>3, <1>4 DEF AnInv

(* The run that begins at i ends at the end of the input or where a field ends, *)
(* and nowhere before.                                                       *)
LEMMA RunFacts ==
    ASSUME NEW L \in Nat, bData \in Seq(Class), Len(bData) = L, NEW i \in 0 .. L - 1
    PROVE  /\ RunLength(i) \in 1 .. L - i
           /\ \A j \in i + 1 .. i + RunLength(i) : bData[j].bit = bData[i + 1].bit
           /\ i + RunLength(i) < L => bData[i + RunLength(i) + 1].bit # bData[i + RunLength(i)].bit
<1> DEFINE Alike(m) == \A j \in i + 1 .. i + m : bData[j].bit = bData[i + 1].bit
           N == {m \in 1 .. L - i : Alike(m)}
<1>1. Alike(1)
  <2>1. \A j \in i + 1 .. i + 1 : j = i + 1
    OBVIOUS
  <2> QED BY <2>1
<1> HIDE DEF Alike
<1>2. N \in SUBSET (0 .. L) /\ 1 \in N
  BY <1>1
<1>3. RunLength(i) = Max(N)
  BY DEF RunLength, Alike
<1>4. Max(N) \in N /\ \A k \in N : k <= Max(N)
  <2>1. N # {}
    BY <1>2
  <2> HIDE DEF N
  <2> QED BY <1>2, <2>1, GreatestElement
<1>5. PICK n \in 1 .. L - i : n = RunLength(i) /\ Alike(n) /\ \A k \in N : k <= n
  BY <1>3, <1>4
<1>6. ASSUME i + n < L PROVE bData[i + n + 1].bit # bData[i + n].bit
  <2>1. ~Alike(n + 1)
    <3>1. n + 1 \in 1 .. L - i /\ ~(n + 1 <= n)
      BY <1>6
    <3>2. n + 1 \notin N
      BY <1>5, <3>1
    <3> QED BY <3>1, <3>2
  <2>2. PICK j \in i + 1 .. i + (n + 1) : bData[j].bit # bData[i + 1].bit
    BY <2>1 DEF Alike
  <2>3. j = i + n + 1
    <3>1. j \notin i + 1 .. i + n
      BY <1>5, <2>2 DEF Alike
    <3> QED BY <3>1
  <2>4. bData[i + n].bit = bData[i + 1].bit
    <3>1. i + n \in i + 1 .. i + n
      OBVIOUS
    <3> QED BY <1>5, <3>1 DEF Alike
  <2> QED BY <2>2, <2>3, <2>4
<1> QED BY <1>5, <1>6 DEF Alike

(* A block of fixed bytes is given a kind from the fixed one up. *)
LEMMA FixedKindIsOne == ASSUME NEW i, NEW n PROVE FixedKind(i, n) \in 3 .. 6
BY DEF FixedKind, LengthField, Checksum, Fixed, Suspect

(* A run says no more of its bytes than one of them does. *)
LEMMA KindOfRun ==
    ASSUME NEW L \in Nat, bData \in Seq(Class), Len(bData) = L,
           NEW i \in 0 .. L - 1, NEW n \in 1 .. L - i
    PROVE  LET kind == Max({bData[j].kind : j \in i + 1 .. i + n})
           IN  kind \in 0 .. 3 /\ \E j \in i + 1 .. i + n : bData[j].kind = kind
<1> DEFINE K == {bData[j].kind : j \in i + 1 .. i + n}
<1>1. K \in SUBSET (0 .. 3)
  <2> SUFFICES ASSUME NEW j \in i + 1 .. i + n PROVE bData[j].kind \in 0 .. 3
    OBVIOUS
  <2>1. bData[j] \in Class
    <3>1. j \in 1 .. Len(bData)
      OBVIOUS
    <3> QED BY <3>1
  <2>2. bData[j].kind \in Kinds
    BY <2>1 DEF Class
  <2> QED BY <2>2 DEF Kinds, NoEffect, Minor, Variable, Fixed
<1>2. K # {}
  <2>1. i + 1 \in i + 1 .. i + n
    OBVIOUS
  <2> QED BY <2>1
<1>3. Max(K) \in K
  <2> HIDE DEF K
  <2>1. 3 \in Nat
    OBVIOUS
  <2> QED BY <1>1, <1>2, <2>1, GreatestElement
<1> QED BY <1>1, <1>3

(* A run that is printed begins where the last one ended, and ends where *)
(* the next field begins.                                                *)
LEMMA DumpKeeps == ASSUME AnInv, DumpRun PROVE AnInv'
<1>1. /\ inPhase = "dump" /\ inPhase' = "dump" /\ anAt < Len(bData)
      /\ UNCHANGED <<sample, origCksum, inData, answers, prev, seqBit, bData>>
  BY DEF DumpRun
<1>2. sample \in Samples /\ Printed
  BY <1>1 DEF AnInv
<1>3. PICK L \in Nat \ {0} : L = Len(sample.data)
  BY <1>2, SampleFacts
<1>4. bData \in Seq(Class) /\ Len(bData) = L
  BY <1>2, <1>3 DEF Printed, Judged
<1>5. PICK i \in 0 .. L - 1 : i = anAt
  <2>1. anAt \in 0 .. L
    BY <1>2, <1>3 DEF Printed
  <2>2. anAt < L
    BY <1>1, <1>4
  <2> QED BY <2>1, <2>2
<1>6. PICK n \in 1 .. L - i :
         /\ n = RunLength(i)
         /\ \A j \in i + 1 .. i + n : bData[j].bit = bData[i + 1].bit
         /\ i + n < L => bData[i + n + 1].bit # bData[i + n].bit
  BY <1>4, RunFacts
<1>7. PICK kind \in 0 .. 3 :
         kind = Max({bData[j].kind : j \in i + 1 .. i + n}) /\ \E j \in i + 1 .. i + n : bData[j].kind = kind
  BY <1>4, KindOfRun
<1>8. PICK r \in Run : /\ r.at = i /\ r.len = n
                       /\ r.kind >= 3 => kind = 3
                       /\ runs' = Append(runs, r) /\ anAt' = i + n
  <2> DEFINE s == [at |-> i, len |-> n, kind |-> IF kind = Fixed THEN FixedKind(i, n) ELSE kind]
  <2>1. s.kind \in Int /\ (s.kind >= 3 => kind = 3)
    <3>1. CASE kind = Fixed
      <4>1. FixedKind(i, n) \in Int
        BY FixedKindIsOne
      <4> QED BY <3>1, <4>1 DEF Fixed
    <3>2. CASE kind # Fixed
      BY <3>2 DEF Fixed
    <3> QED BY <3>1, <3>2
  <2>2. s \in Run /\ s.at = i /\ s.len = n
    BY <2>1 DEF Run
  <2>3. runs' = Append(runs, s) /\ anAt' = i + n
    BY <1>5, <1>6, <1>7 DEF DumpRun
  <2> HIDE DEF s
  <2> QED BY <2>1, <2>2, <2>3
<1>9. PICK m \in Nat : m = Len(runs)
  BY <1>2 DEF Printed
<1>10. /\ runs' \in Seq(Run) /\ Len(runs') = m + 1 /\ runs'[m + 1] = r
       /\ \A k \in 1 .. m : runs'[k] = runs[k]
  BY <1>2, <1>8, <1>9 DEF Printed
<1>11. \A k \in 1 .. m : runs[k].at \in Nat /\ runs[k].len \in Nat \ {0} /\ runs[k].at + runs[k].len <= i
  <2> SUFFICES ASSUME NEW k \in 1 .. m
               PROVE  runs[k].at \in Nat /\ runs[k].len \in Nat \ {0} /\ runs[k].at + runs[k].len <= i
    OBVIOUS
  <2>1. runs[k] \in Run
    BY <1>2, <1>9 DEF Printed
  <2>2. runs[k].at + runs[k].len <= i
    BY <1>2, <1>5, <1>9 DEF Printed
  <2> QED BY <2>1, <2>2 DEF Run
<1>12. \A k \in 1 .. m + 1 : runs'[k].at + runs'[k].len <= i + n
  <2> SUFFICES ASSUME NEW k \in 1 .. m + 1 PROVE runs'[k].at + runs'[k].len <= i + n
    OBVIOUS
  <2>1. CASE k = m + 1
    BY <1>8, <1>10, <2>1
  <2>2. CASE k # m + 1
    <3>1. k \in 1 .. m
      BY <2>2
    <3> QED BY <1>10, <1>11, <3>1
  <2> QED BY <2>1, <2>2
<1>13. \A k \in 1 .. m + 1 : runs'[k].at = IF k = 1 THEN 0 ELSE runs'[k - 1].at + runs'[k - 1].len
  <2> SUFFICES ASSUME NEW k \in 1 .. m + 1
               PROVE  runs'[k].at = IF k = 1 THEN 0 ELSE runs'[k - 1].at + runs'[k - 1].len
    OBVIOUS
  <2>1. CASE k = m + 1
    <3>1. runs'[k].at = i
      BY <1>8, <1>10, <2>1
    <3>2. i = IF m = 0 THEN 0 ELSE runs[m].at + runs[m].len
      BY <1>2, <1>5, <1>9 DEF Printed
    <3>3. CASE m = 0
      BY <2>1, <3>1, <3>2, <3>3
    <3>4. CASE m # 0
      <4>1. runs'[k - 1] = runs[m] /\ k # 1
        BY <1>10, <2>1, <3>4
      <4> QED BY <3>1, <3>2, <3>4, <4>1
    <3> QED BY <3>3, <3>4
  <2>2. CASE k # m + 1
    <3>1. k \in 1 .. m
      BY <2>2
    <3>2. k # 1 => k - 1 \in 1 .. m
      BY <3>1
    <3>3. runs[k].at = IF k = 1 THEN 0 ELSE runs[k - 1].at + runs[k - 1].len
      BY <1>2, <1>9, <3>1 DEF Printed
    <3>4. runs'[k] = runs[k] /\ (k # 1 => runs'[k - 1] = runs[k - 1])
      BY <1>10, <3>1, <3>2
    <3> QED BY <3>3, <3>4
  <2> QED BY <2>1, <2>2
<1>14. \A j \in 2 .. i + n : (\E k \in 1 .. m + 1 : runs'[k].at = j - 1) <=> bData[j].bit # bData[j - 1].bit
  <2> SUFFICES ASSUME NEW j \in 2 .. i + n
               PROVE  (\E k \in 1 .. m + 1 : runs'[k].at = j - 1) <=> bData[j].bit # bData[j - 1].bit
    OBVIOUS
  <2>1. CASE j \in 2 .. i
    <3>1. (\E k \in 1 .. m : runs[k].at = j - 1) <=> bData[j].bit # bData[j - 1].bit
      BY <1>2, <1>5, <1>9, <2>1 DEF Printed
    <3>2. \A k \in 1 .. m + 1 : runs'[k].at = j - 1 => k \in 1 .. m
      <4> SUFFICES ASSUME NEW k \in 1 .. m + 1, k = m + 1 PROVE runs'[k].at # j - 1
        OBVIOUS
      <4> QED BY <1>8, <1>10, <2>1
    <3>3. (\E k \in 1 .. m + 1 : runs'[k].at = j - 1) <=> (\E k \in 1 .. m : runs[k].at = j - 1)
      BY <1>10, <3>2
    <3> QED BY <3>1, <3>3
  <2>2. CASE j = i + 1
    <3>1. m + 1 \in 1 .. m + 1 /\ runs'[m + 1].at = j - 1
      BY <1>8, <1>10, <2>2
    <3>2. i \in 1 .. L - 1
      BY <2>2
    <3>3. bData[i + 1].bit # bData[i].bit
      BY <1>2, <1>3, <1>5, <3>2 DEF Printed
    <3>4. j - 1 = i
      BY <2>2
    <3> QED BY <2>2, <3>1, <3>3, <3>4
  <2>3. CASE j \in i + 2 .. i + n
    <3>1. j \in i + 1 .. i + n /\ j - 1 \in i + 1 .. i + n
      BY <2>3
    <3>2. bData[j].bit = bData[j - 1].bit
      BY <1>6, <3>1
    <3>3. ASSUME NEW k \in 1 .. m + 1 PROVE runs'[k].at # j - 1
      <4>1. CASE k = m + 1
        BY <1>8, <1>10, <2>3, <4>1
      <4>2. CASE k # m + 1
        <5>1. k \in 1 .. m
          BY <4>2
        <5>2. runs'[k].at < i
          <6>1. PICK q : q = runs[k] /\ q = runs'[k]
            BY <1>10, <5>1
          <6>2. q.at \in Nat /\ q.len \in Nat \ {0} /\ q.at + q.len <= i
            BY <1>11, <5>1, <6>1
          <6> QED BY <6>1, <6>2
        <5> QED BY <2>3, <5>2
      <4> QED BY <4>1, <4>2
    <3> QED BY <3>2, <3>3
  <2>4. j \in 2 .. i \/ j = i + 1 \/ j \in i + 2 .. i + n
    OBVIOUS
  <2> QED BY <2>1, <2>2, <2>3, <2>4
<1>15. \A k \in 1 .. m + 1 : runs'[k].kind >= Fixed =>
          \E j \in runs'[k].at + 1 .. runs'[k].at + runs'[k].len : bData[j].kind = Fixed
  <2> SUFFICES ASSUME NEW k \in 1 .. m + 1, runs'[k].kind >= Fixed
               PROVE  \E j \in runs'[k].at + 1 .. runs'[k].at + runs'[k].len : bData[j].kind = Fixed
    OBVIOUS
  <2>1. CASE k = m + 1
    <3>1. kind = Fixed
      BY <1>8, <1>10, <2>1 DEF Fixed
    <3>2. runs'[k].at = i /\ runs'[k].len = n
      BY <1>8, <1>10, <2>1
    <3> QED BY <1>7, <3>1, <3>2
  <2>2. CASE k # m + 1
    <3>1. k \in 1 .. m
      BY <2>2
    <3>2. runs'[k] = runs[k]
      BY <1>10, <3>1
    <3> QED BY <1>2, <1>9, <3>1, <3>2 DEF Printed
  <2> QED BY <2>1, <2>2
<1>16. Printed'
  <2>1. Judged(Len(sample.data))'
    <3>1. Judged(Len(sample.data))
      BY <1>2 DEF Printed
    <3> QED BY <1>1, <3>1, AllJudgedStays
  <2>2. inData' = sample'.data /\ Len(sample'.data) = L /\ anAt' = i + n /\ anAt' \in 0 .. L /\ bData' = bData
    BY <1>1, <1>2, <1>3, <1>8 DEF Printed
  <2>3. anAt' = IF Len(runs') = 0 THEN 0 ELSE runs'[Len(runs')].at + runs'[Len(runs')].len
    <3>1. Len(runs') # 0 /\ runs'[Len(runs')] = r
      BY <1>10
    <3> QED BY <1>8, <3>1
  <2>4. anAt' \in 1 .. L - 1 => bData'[anAt' + 1].bit # bData'[anAt'].bit
    BY <1>6, <2>2
  <2> QED BY <1>10, <1>12, <1>13, <1>14, <1>15, <2>1, <2>2, <2>3, <2>4 DEF Printed
<1> QED BY <1>1, <1>2, <1>16 DEF AnInv

(* Nothing is claimed of an analysis that was broken off. *)
LEMMA AbortedKeeps == ASSUME AnInv, Aborted PROVE AnInv'
<1>1. inPhase' \in {"aborted", "fatal"} /\ sample' = sample
  BY DEF Aborted
<1> QED BY <1>1 DEF AnInv

(* Every step of analyze and dump_hex keeps the invariant. *)
LEMMA AnInvStep == AnInv /\ [AnNext]_anVars => AnInv'
<1> SUFFICES ASSUME AnInv, [AnNext]_anVars PROVE AnInv'
  OBVIOUS
<1>1. CASE FirstRun
  BY <1>1, FirstKeeps
<1>2. CASE Adjust
  BY <1>2, AdjustKeeps
<1>3. CASE Aborted
  BY <1>3, AbortedKeeps
<1>4. CASE ClassifyByte
  BY <1>4, ClassifyKeeps
<1>5. CASE BeginDump
  BY <1>5, BeginDumpKeeps
<1>6. CASE DumpRun
  BY <1>6, DumpKeeps
<1>7. CASE EndDump
  BY <1>7, EndDumpKeeps
<1>8. CASE UNCHANGED anVars
  <2>1. UNCHANGED <<sample, origCksum, inData, inPhase, anAt, answers, prev, seqBit, bData, runs>>
    BY <1>8 DEF anVars
  <2>2. Adjusting' <=> Adjusting
    BY <2>1 DEF Adjusting, Judged, AnswersTo, KindOf
  <2>3. Printed' <=> Printed
    BY <2>1 DEF Printed, Judged, AnswersTo, KindOf
  <2> QED BY <2>1, <2>2, <2>3 DEF AnInv
<1> QED BY <1>1, <1>2, <1>3, <1>4, <1>5, <1>6, <1>7, <1>8 DEF AnNext

(* A byte called fixed has one answer to all its changes, and not the input's. *)
LEMMA FixedMeansOneAnswer ==
    ASSUME NEW j, KindOf(AnswersTo(j)) = Fixed
    PROVE  Cardinality(Range(AnswersTo(j))) = 1 /\ origCksum \notin Range(AnswersTo(j))
<1>1. PICK a : a = AnswersTo(j)
  OBVIOUS
<1>2. (\A k \in 1 .. 4 : a[k] # origCksum) /\ a[2] = a[1] /\ a[3] = a[1] /\ a[4] = a[1]
  BY <1>1, KindFacts
<1>3. DOMAIN a = 1 .. 4
  BY <1>1 DEF AnswersTo
<1>4. Range(a) = {a[1]}
  <2>1. \A k \in 1 .. 4 : a[k] = a[1]
    BY <1>2
  <2> QED BY <1>3, <2>1 DEF Range
<1>5. a[1] # origCksum
  BY <1>2
<1> QED BY <1>1, <1>4, <1>5, FS_Singleton

(* The invariant implies the property, once the tool is done. *)
LEMMA AnInvImplies == AnInv => RunsAreFields
<1> SUFFICES ASSUME AnInv, inPhase = "done" PROVE RunsAreFields
  BY DEF RunsAreFields
<1>1. sample \in Samples /\ Printed /\ anAt = Len(sample.data)
  BY DEF AnInv
<1>2. PICK L \in Nat \ {0} : L = Len(sample.data) /\ L = anAt
  BY <1>1, SampleFacts
<1>3. inData = sample.data /\ runs \in Seq(Run)
  BY <1>1 DEF Printed
<1>4. DOMAIN runs = 1 .. Len(runs)
  BY <1>3
<1>5. \A k \in DOMAIN runs : runs[k].at = IF k = 1 THEN 0 ELSE runs[k - 1].at + runs[k - 1].len
  BY <1>1, <1>4 DEF Printed
<1>6. Last(runs).at + Last(runs).len = Len(inData)
  <2>1. L = IF Len(runs) = 0 THEN 0 ELSE runs[Len(runs)].at + runs[Len(runs)].len
    BY <1>1, <1>2 DEF Printed
  <2>2. L = runs[Len(runs)].at + runs[Len(runs)].len
    BY <2>1
  <2> QED BY <1>2, <1>3, <2>2 DEF Last
<1>7. ASSUME NEW j \in 2 .. Len(inData)
      PROVE  (\E k \in DOMAIN runs : runs[k].at = j - 1)
               <=> \A c \in 1 .. 4 : AnswersTo(j)[c] # AnswersTo(j - 1)[c]
  <2>1. j \in 2 .. L
    BY <1>2, <1>3
  <2>2. (\E k \in 1 .. Len(runs) : runs[k].at = j - 1) <=> bData[j].bit # bData[j - 1].bit
    BY <1>1, <1>2, <2>1 DEF Printed
  <2>3. bData[j].bit # bData[j - 1].bit <=> NewField(AnswersTo(j), AnswersTo(j - 1))
    BY <1>1, <1>2, <2>1 DEF Printed, Judged
  <2> QED BY <1>4, <2>2, <2>3 DEF NewField
<1>8. ASSUME NEW k \in DOMAIN runs, runs[k].kind >= Fixed
      PROVE  \E j \in runs[k].at + 1 .. runs[k].at + runs[k].len :
                Cardinality(Range(AnswersTo(j))) = 1 /\ origCksum \notin Range(AnswersTo(j))
  <2>1. PICK j \in runs[k].at + 1 .. runs[k].at + runs[k].len : bData[j].kind = Fixed
    BY <1>1, <1>4, <1>8 DEF Printed
  <2>2. j \in 1 .. L
    <3>1. runs[k] \in Run /\ runs[k].at + runs[k].len <= L
      BY <1>1, <1>2, <1>3, <1>4 DEF Printed
    <3>2. runs[k].at \in Nat /\ runs[k].len \in Nat
      BY <3>1 DEF Run
    <3> QED BY <3>1, <3>2
  <2>3. bData[j].kind = KindOf(AnswersTo(j))
    BY <1>1, <1>2, <2>2 DEF Printed, Judged
  <2> QED BY <2>1, <2>3, FixedMeansOneAnswer
<1> QED BY <1>3, <1>5, <1>6, <1>7, <1>8 DEF RunsAreFields

(* The runs afl-analyze prints cover the input, each byte once; they end  *)
(* exactly where fields end; and a run is called fixed only if one of its *)
(* bytes is.                                                              *)
THEOREM RunsPrintedAreFields == AnSpec => []RunsAreFields
<1>1. AnInit => AnInv
  BY AnInvInit
<1>2. AnInv /\ [AnNext]_anVars => AnInv'
  BY AnInvStep
<1>3. AnInv => RunsAreFields
  BY AnInvImplies
<1> QED BY <1>1, <1>2, <1>3, PTL DEF AnSpec

-----------------------------------------------------------------------------
(* afl-as: flags that are set line by line say what the whole file does. *)

(* The last line of some kinds is the line just read, or the one before. *)
LEMMA LastOfNext ==
    ASSUME NEW k \in Nat, NEW S
    PROVE  /\ LastOf(k, S) \in 0 .. k
           /\ LastOf(k + 1, S) = IF code[k + 1] \in S THEN k + 1 ELSE LastOf(k, S)
<1> DEFINE B(m) == {0} \cup {j \in 1 .. m : code[j] \in S}
<1>1. ASSUME NEW m \in Nat PROVE LastOf(m, S) \in B(m) /\ \A b \in B(m) : b <= LastOf(m, S)
  <2>1. B(m) \in SUBSET (0 .. m) /\ B(m) # {} /\ LastOf(m, S) = Max(B(m))
    BY DEF LastOf
  <2> HIDE DEF B
  <2> QED BY <2>1, GreatestElement
<1>2. LastOf(k, S) \in 0 .. k /\ LastOf(k + 1, S) \in 0 .. k + 1
  BY <1>1
<1>3. CASE code[k + 1] \in S
  <2>1. k + 1 \in B(k + 1)
    BY <1>3
  <2>2. k + 1 <= LastOf(k + 1, S)
    BY <1>1, <2>1
  <2> QED BY <1>2, <1>3, <2>2
<1>4. CASE code[k + 1] \notin S
  <2>1. B(k + 1) = B(k)
    BY <1>4
  <2> QED BY <1>2, <1>4, <2>1 DEF LastOf
<1> QED BY <1>2, <1>3, <1>4

(* What the last of those lines is, one line further. *)
LEMMA LastIsNext ==
    ASSUME NEW k \in Nat, NEW S, NEW kind
    PROVE  /\ ~LastIs(0, S, kind)
           /\ LastIs(k + 1, S, kind) <=> IF code[k + 1] \in S THEN code[k + 1] = kind ELSE LastIs(k, S, kind)
<1>1. LastOf(0, S) = 0
  <2>1. LastOf(0, S) \in 0 .. 0
    BY LastOfNext
  <2> QED BY <2>1
<1>2. PICK l \in 0 .. k : l = LastOf(k, S)
  BY LastOfNext
<1>3. LastOf(k + 1, S) = IF code[k + 1] \in S THEN k + 1 ELSE l
  BY <1>2, LastOfNext
<1> QED BY <1>1, <1>2, <1>3 DEF LastIs

(* What FlattenSeq computes, piece by piece. *)
LEMMA FlattenedTo ==
    ASSUME NEW n \in Nat, NEW T, NEW ps \in [1 .. n -> Seq(T)], NEW f \in [0 .. n -> Seq(T)],
           f[0] = << >>, \A k \in 1 .. n : f[k] = f[k - 1] \o ps[k]
    PROVE  FlattenSeq(ps) = f[n]
<1>1. Len(ps) = n
  OBVIOUS
<1>4. n # 0 => f[1] = ps[1]
  <2> SUFFICES ASSUME n # 0 PROVE f[1] = ps[1]
    OBVIOUS
  <2>1. 1 \in 1 .. n /\ 1 - 1 = 0
    OBVIOUS
  <2>2. f[1] = f[0] \o ps[1]
    BY <2>1
  <2>3. \A s \in Seq(T) : << >> \o s = s
    OBVIOUS
  <2> QED BY <2>1, <2>2, <2>3
<1>2. CASE n = 0
  <2>1. ps = << >>
    BY <1>2
  <2> QED BY <1>1, <1>2, <2>1 DEF FlattenSeq
<1>3. CASE n # 0
  <2> DEFINE Unfolds(g) == g = [i \in 1 .. n |-> IF i = 1 THEN ps[i] ELSE g[i - 1] \o ps[i]]
             flat == CHOOSE g : Unfolds(g)
  <2>1. FlattenSeq(ps) = flat[n]
    BY <1>1, <1>3 DEF FlattenSeq
  <2>2. \E g : Unfolds(g)
    <3> DEFINE g == [i \in 1 .. n |-> f[i]]
    <3>1. \A i \in 1 .. n : f[i] = IF i = 1 THEN ps[i] ELSE g[i - 1] \o ps[i]
      <4> SUFFICES ASSUME NEW i \in 1 .. n PROVE f[i] = IF i = 1 THEN ps[i] ELSE g[i - 1] \o ps[i]
        OBVIOUS
      <4>1. CASE i = 1
        BY <1>3, <1>4, <4>1
      <4>2. CASE i # 1
        <5>1. i - 1 \in 1 .. n
          BY <4>2
        <5> QED BY <4>2, <5>1
      <4> QED BY <4>1, <4>2
    <3>2. Unfolds(g)
      BY <3>1
    <3> QED BY <3>2
  <2>3. Unfolds(flat)
    <3> HIDE DEF Unfolds
    <3> QED BY <2>2
  <2> DEFINE S == {k \in 0 .. n : k # 0 => flat[k] = f[k]}
  <2> HIDE DEF flat
  <2>4. 0 \in S
    OBVIOUS
  <2>5. ASSUME NEW k \in 1 .. n, k - 1 \in S PROVE k \in S
    <3>1. flat[k] = IF k = 1 THEN ps[k] ELSE flat[k - 1] \o ps[k]
      BY <2>3
    <3>2. CASE k = 1
      BY <1>3, <1>4, <3>1, <3>2
    <3>3. CASE k # 1
      <4>1. flat[k - 1] = f[k - 1]
        BY <2>5, <3>3
      <4>2. f[k] = f[k - 1] \o ps[k]
        OBVIOUS
      <4>3. flat[k] = f[k]
        BY <3>1, <3>3, <4>1, <4>2
      <4> QED BY <4>3
    <3> QED BY <3>2, <3>3
  <2>6. 0 .. n \subseteq S
    <3> HIDE DEF S
    <3> QED BY <2>4, <2>5, IntervalInduction
  <2> QED BY <1>3, <2>1, <2>6
<1> QED BY <1>2, <1>3

(* After k lines: the next branch label is that of a jump table. *)
Tabled(k) ==
    \E a \in 1 .. k :
        /\ code[a] = "p2align" /\ InText(a) /\ ~source.clangMode
        /\ \A j \in a + 1 .. k : code[j] \in BranchLabels => j \notin drawn

(* After k lines: a marked label has not met its instruction. *)
Waiting(k) == \E j \in 1 .. k : Entry(j) /\ \A i \in j + 1 .. k : ~Executed(i)

(* What should stand for line k. *)
Piece(k) ==
    (IF Entered(k) THEN <<Trampoline>> ELSE << >>) \o <<code[k]>>
    \o (IF NotTaken(k) THEN <<Trampoline>> ELSE << >>)

(* The flags say of the lines read what the file as a whole does. *)
Flags ==
    /\ {instrOk, skipIntel, skipApp, skipCsect, skipNextLabel, instrumentNext} \subseteq BOOLEAN
    /\ ~source.passThru =>
        /\ instrOk <=> InText(lineNo)
        /\ skipIntel <=> LastIs(lineNo, {".intel_syntax", ".att_syntax"}, ".intel_syntax")
        /\ skipApp <=> LastIs(lineNo, {"#APP", "#NO_APP"}, "#APP")
        /\ skipCsect <=> LastIs(lineNo, {".code32", ".code64"}, Foreign)
        /\ skipNextLabel <=> Tabled(lineNo)
        /\ instrumentNext <=> Waiting(lineNo)

(* The output is put together from the pieces of the lines read. *)
Output == LineKinds \cup {Trampoline, Payload}
Pieces(n, f) ==
    /\ f \in [0 .. n -> Seq(Output)] /\ f[0] = << >>
    /\ \A k \in 1 .. n : f[k] = f[k - 1] \o Piece(k)
Copied ==
    /\ \E f : Pieces(lineNo, f) /\ output = f[lineNo]
    /\ insLines \in Nat /\ (insLines > 0 <=> Trampoline \in Range(output))

(* The inductive invariant of afl-as. *)
AsInv ==
    /\ source \in Sources /\ lineNo \in 0 .. Len(code) /\ drawn \subseteq 1 .. lineNo
    /\ Flags
    /\ ~finished => Copied
    /\ finished => lineNo = Len(code) /\ TrampolinesRight

(* What is assumed of the files. *)
LEMMA SourceFacts ==
    ASSUME source \in Sources
    PROVE  code \in Seq(LineKinds) /\ Len(code) \in Nat /\ source.passThru \in BOOLEAN /\ source.clangMode \in BOOLEAN
<1>1. source.lines \in Seq(LineKinds) /\ {source.bits64, source.clangMode, source.passThru} \subseteq BOOLEAN
  BY SourcesTyped
<1> QED BY <1>1 DEF code

(* It holds before the first line. *)
LEMMA AsInvInit == AsInit => AsInv
<1> SUFFICES ASSUME AsInit PROVE AsInv
  OBVIOUS
<1>1. source \in Sources /\ lineNo = 0 /\ drawn = {} /\ finished = FALSE /\ output = << >> /\ insLines = 0
  BY DEF AsInit
<1>2. 0 \in 0 .. Len(code)
  BY <1>1, SourceFacts
<1>3. Flags
  <2>1. ~Tabled(0) /\ ~Waiting(0)
    BY DEF Tabled, Waiting
  <2>2. ~InText(0)
    BY LastIsNext DEF InText
  <2>3. ~LastIs(0, {".intel_syntax", ".att_syntax"}, ".intel_syntax") /\ ~LastIs(0, {"#APP", "#NO_APP"}, "#APP")
        /\ ~LastIs(0, {".code32", ".code64"}, Foreign)
    BY LastIsNext
  <2> QED BY <1>1, <2>1, <2>2, <2>3 DEF Flags, AsInit
<1>4. Copied
  <2> DEFINE f == [k \in 0 .. 0 |-> << >>]
  <2>1. Pieces(0, f) /\ output = f[0]
    BY <1>1 DEF Pieces
  <2>2. Trampoline \notin Range(output)
    BY <1>1 DEF Range
  <2> HIDE DEF f
  <2> QED BY <1>1, <2>1, <2>2 DEF Copied
<1> QED BY <1>1, <1>2, <1>3, <1>4 DEF AsInv

(* What is said of the lines before does not change with a draw for the next. *)
LEMMA DrawnStays ==
    ASSUME source' = source, NEW n \in Nat, \A j \in 1 .. n : j \in drawn' <=> j \in drawn, NEW k \in 0 .. n
    PROVE  /\ InText(k)' = InText(k) /\ InCode(k)' = InCode(k) /\ Executed(k)' = Executed(k)
           /\ Tabled(k)' <=> Tabled(k)
           /\ Waiting(k)' <=> Waiting(k)
           /\ k # 0 => (Entered(k)' <=> Entered(k)) /\ (NotTaken(k)' <=> NotTaken(k)) /\ Piece(k)' = Piece(k)
<1>1. \A m : InText(m)' = InText(m) /\ InCode(m)' = InCode(m) /\ Executed(m)' = Executed(m)
  BY DEF InText, InCode, Executed, LastIs, LastOf, code, Foreign
<1>2. code' = code /\ BranchLabels' = BranchLabels /\ source'.clangMode = source.clangMode
  BY DEF code, BranchLabels
<1>3. ASSUME NEW m \in 0 .. n PROVE Tabled(m)' <=> Tabled(m)
  <2>1. ASSUME NEW a \in 1 .. m
        PROVE  (\A j \in a + 1 .. m : code[j] \in BranchLabels => j \notin drawn')
                 <=> (\A j \in a + 1 .. m : code[j] \in BranchLabels => j \notin drawn)
    <3>1. \A j \in a + 1 .. m : j \in 1 .. n
      OBVIOUS
    <3> QED BY <3>1
  <2> QED BY <1>1, <1>2, <2>1 DEF Tabled
<1>4. ASSUME NEW m \in 1 .. n PROVE Entry(m)' <=> Entry(m)
  <2>1. m - 1 \in 0 .. n
    OBVIOUS
  <2>2. (OfJumpTable(m)' <=> Tabled(m - 1)') /\ (OfJumpTable(m) <=> Tabled(m - 1))
    BY DEF OfJumpTable, Tabled
  <2> QED BY <1>1, <1>2, <1>3, <2>1, <2>2 DEF Entry
<1>5. ASSUME NEW m \in 0 .. n PROVE Waiting(m)' <=> Waiting(m)
  <2>1. \A j \in 1 .. m : j \in 1 .. n
    OBVIOUS
  <2> QED BY <1>1, <1>4, <2>1 DEF Waiting
<1>6. ASSUME k # 0
      PROVE  (Entered(k)' <=> Entered(k)) /\ (NotTaken(k)' <=> NotTaken(k)) /\ Piece(k)' = Piece(k)
  <2>1. k \in 1 .. n /\ \A j \in 1 .. k - 1 : j \in 1 .. n
    BY <1>6
  <2>2. Entered(k)' <=> Entered(k)
    BY <1>1, <1>4, <2>1 DEF Entered
  <2>3. NotTaken(k)' <=> NotTaken(k)
    BY <1>1, <1>2, <2>1 DEF NotTaken
  <2> QED BY <1>2, <2>2, <2>3 DEF Piece
<1> QED BY <1>1, <1>3, <1>5, <1>6

(* What the next line adds to what the file says so far. *)
LEMMA NextLine ==
    ASSUME AsInv, lineNo < Len(code), source' = source,
           NEW k, k = lineNo + 1, drawn' \in {drawn, drawn \cup {k}}
    PROVE  /\ k \in 1 .. Len(code) /\ k \notin drawn /\ code[k] = ThisLine /\ code[k] \in LineKinds
           /\ InText(k) <=> IF code[k] \in {"text", "section"} THEN code[k] = "text" ELSE InText(lineNo)
           /\ Executed(k) <=> code[k] \in Instructions /\ InCode(lineNo)
           /\ Tabled(k)' <=> \/ code[k] = "p2align" /\ InText(k) /\ ~source.clangMode
                             \/ Tabled(lineNo) /\ ~(code[k] \in BranchLabels /\ k \in drawn')
           /\ Waiting(k)' <=> \/ InCode(k) /\ \/ code[k] = "function label"
                                              \/ code[k] \in BranchLabels /\ k \in drawn' /\ ~Tabled(lineNo)
                              \/ Waiting(lineNo) /\ ~Executed(k)
           /\ Entered(k)' <=> Executed(k) /\ Waiting(lineNo)
           /\ NotTaken(k)' <=> code[k] = "jump if" /\ InCode(k) /\ k \in drawn'
<1>1. code \in Seq(LineKinds) /\ Len(code) \in Nat /\ lineNo \in 0 .. Len(code) /\ drawn \subseteq 1 .. lineNo
  BY SourceFacts DEF AsInv
<1>2. PICK n \in Nat : n = lineNo /\ k = n + 1 /\ k - 1 = n
  BY <1>1
<1>3. k \in 1 .. Len(code) /\ k \notin drawn /\ code[k] = ThisLine /\ code[k] \in LineKinds
  BY <1>1, <1>2 DEF ThisLine, code
<1>4. InText(k) <=> IF code[k] \in {"text", "section"} THEN code[k] = "text" ELSE InText(lineNo)
  BY <1>2, LastIsNext DEF InText
<1>5. Executed(k) <=> code[k] \in Instructions /\ InCode(lineNo)
  BY <1>2 DEF Executed
<1>6. \A j \in 1 .. n : j \in drawn' <=> j \in drawn
  BY <1>2
<1>7. /\ \A m \in 0 .. n : (Tabled(m)' <=> Tabled(m)) /\ (Waiting(m)' <=> Waiting(m))
      /\ \A m \in 0 .. n : InText(m)' = InText(m) /\ InCode(m)' = InCode(m) /\ Executed(m)' = Executed(m)
  BY <1>6, DrawnStays
<1>8. InText(k)' = InText(k) /\ InCode(k)' = InCode(k) /\ Executed(k)' = Executed(k)
  BY DEF InText, InCode, Executed, LastIs, LastOf, code, Foreign
<1>9. code' = code /\ BranchLabels' = BranchLabels /\ source'.clangMode = source.clangMode
  BY DEF code, BranchLabels
<1>10. Tabled(k)' <=> \/ code[k] = "p2align" /\ InText(k) /\ ~source.clangMode
                      \/ Tabled(lineNo) /\ ~(code[k] \in BranchLabels /\ k \in drawn')
  <2>1. ASSUME Tabled(k)'
        PROVE  \/ code[k] = "p2align" /\ InText(k) /\ ~source.clangMode
               \/ Tabled(n)' /\ ~(code[k] \in BranchLabels /\ k \in drawn')
    <3>1. PICK a \in 1 .. k : /\ code[a] = "p2align" /\ InText(a)' /\ ~source.clangMode
                              /\ \A j \in a + 1 .. k : code[j] \in BranchLabels => j \notin drawn'
      BY <1>9, <2>1 DEF Tabled
    <3>2. CASE a = k
      BY <1>8, <3>1, <3>2
    <3>3. CASE a # k
      <4>1. a \in 1 .. n /\ k \in a + 1 .. k /\ \A j \in a + 1 .. n : j \in a + 1 .. k
        BY <1>2, <3>3
      <4>2. Tabled(n)'
        BY <1>9, <3>1, <4>1 DEF Tabled
      <4> QED BY <3>1, <4>1, <4>2
    <3> QED BY <3>2, <3>3
  <2>2. ASSUME code[k] = "p2align" /\ InText(k) /\ ~source.clangMode PROVE Tabled(k)'
    <3>1. k \in 1 .. k /\ \A j \in k + 1 .. k : FALSE
      BY <1>2
    <3> QED BY <1>8, <1>9, <2>2, <3>1 DEF Tabled
  <2>3. ASSUME Tabled(n)', ~(code[k] \in BranchLabels /\ k \in drawn') PROVE Tabled(k)'
    <3>1. PICK a \in 1 .. n : /\ code[a] = "p2align" /\ InText(a)' /\ ~source.clangMode
                              /\ \A j \in a + 1 .. n : code[j] \in BranchLabels => j \notin drawn'
      BY <1>9, <2>3 DEF Tabled
    <3>2. a \in 1 .. k /\ \A j \in a + 1 .. k : j \in a + 1 .. n \/ j = k
      BY <1>2
    <3>3. \A j \in a + 1 .. k : code[j] \in BranchLabels => j \notin drawn'
      BY <2>3, <3>1, <3>2
    <3> QED BY <1>9, <3>1, <3>2, <3>3 DEF Tabled
  <2>4. Tabled(n)' <=> Tabled(lineNo)
    <3>1. Tabled(n)' <=> Tabled(n)
      BY <1>7
    <3> QED BY <1>2, <3>1
  <2> QED BY <2>1, <2>2, <2>3, <2>4
<1>11. Entry(k)' <=> InCode(k) /\ \/ code[k] = "function label"
                                  \/ code[k] \in BranchLabels /\ k \in drawn' /\ ~Tabled(lineNo)
  <2>1. OfJumpTable(k)' <=> Tabled(n)'
    BY <1>2 DEF OfJumpTable, Tabled
  <2>2. Tabled(n)' <=> Tabled(n)
    BY <1>7
  <2>3. OfJumpTable(k)' <=> Tabled(lineNo)
    BY <1>2, <2>1, <2>2
  <2> QED BY <1>8, <1>9, <2>3 DEF Entry
<1>12. Waiting(n)' <=> Waiting(lineNo)
  <2>1. Waiting(n)' <=> Waiting(n)
    BY <1>7
  <2> QED BY <1>2, <2>1
<1>13. Waiting(k)' <=> Entry(k)' \/ (Waiting(lineNo) /\ ~Executed(k))
  <2>1. ASSUME Waiting(k)' PROVE Entry(k)' \/ (Waiting(n)' /\ ~Executed(k)')
    <3>1. PICK j \in 1 .. k : Entry(j)' /\ \A i \in j + 1 .. k : ~Executed(i)'
      BY <2>1 DEF Waiting
    <3>2. CASE j # k
      <4>1. j \in 1 .. n /\ k \in j + 1 .. k /\ \A i \in j + 1 .. n : i \in j + 1 .. k
        BY <1>2, <3>2
      <4> QED BY <3>1, <4>1 DEF Waiting
    <3> QED BY <3>1, <3>2
  <2>2. ASSUME Entry(k)' PROVE Waiting(k)'
    <3>1. k \in 1 .. k /\ \A j \in k + 1 .. k : FALSE
      BY <1>2
    <3> QED BY <2>2, <3>1 DEF Waiting
  <2>3. ASSUME Waiting(n)', ~Executed(k)' PROVE Waiting(k)'
    <3>1. PICK j \in 1 .. n : Entry(j)' /\ \A i \in j + 1 .. n : ~Executed(i)'
      BY <2>3 DEF Waiting
    <3>2. j \in 1 .. k /\ \A i \in j + 1 .. k : i \in j + 1 .. n \/ i = k
      BY <1>2
    <3> QED BY <2>3, <3>1, <3>2 DEF Waiting
  <2> QED BY <1>8, <1>12, <2>1, <2>2, <2>3
<1>14. Entered(k)' <=> Executed(k) /\ Waiting(lineNo)
  <2>1. Entered(k)' <=> Executed(k)' /\ Waiting(n)'
    BY <1>2 DEF Entered, Waiting
  <2> QED BY <1>8, <1>12, <2>1
<1>15. NotTaken(k)' <=> code[k] = "jump if" /\ InCode(k) /\ k \in drawn'
  BY <1>8, <1>9 DEF NotTaken
<1> QED BY <1>3, <1>4, <1>5, <1>10, <1>11, <1>13, <1>14, <1>15

(* What stands in two sequences put together stands in one of them. *)
LEMMA RangeOfBoth ==
    ASSUME NEW T, NEW s \in Seq(T), NEW t \in Seq(T), NEW x
    PROVE  x \in Range(s \o t) <=> x \in Range(s) \/ x \in Range(t)
<1>1. s \o t \in Seq(T) /\ Len(s \o t) = Len(s) + Len(t)
  OBVIOUS
<1>2. ASSUME NEW i \in DOMAIN (s \o t) PROVE (s \o t)[i] \in Range(s) \cup Range(t)
  <2>1. i \in 1 .. Len(s) + Len(t)
    BY <1>1
  <2>2. CASE i \in 1 .. Len(s)
    <3>1. (s \o t)[i] = s[i] /\ i \in DOMAIN s
      BY <2>2
    <3> QED BY <3>1 DEF Range
  <2>3. CASE i \notin 1 .. Len(s)
    <3>1. (s \o t)[i] = t[i - Len(s)] /\ i - Len(s) \in DOMAIN t
      BY <2>1, <2>3
    <3> QED BY <3>1 DEF Range
  <2> QED BY <2>2, <2>3
<1>3. ASSUME NEW i \in DOMAIN s PROVE s[i] \in Range(s \o t)
  <2>1. i \in DOMAIN (s \o t) /\ (s \o t)[i] = s[i]
    BY <1>1
  <2> QED BY <2>1 DEF Range
<1>4. ASSUME NEW i \in DOMAIN t PROVE t[i] \in Range(s \o t)
  <2>1. Len(s) + i \in DOMAIN (s \o t) /\ (s \o t)[Len(s) + i] = t[i]
    BY <1>1
  <2> QED BY <2>1 DEF Range
<1> QED BY <1>2, <1>3, <1>4 DEF Range

(* No line of the file is taken for what afl-as adds. *)
LEMMA TextIsNoTrampoline == LineKinds \subseteq Output /\ Trampoline \notin LineKinds /\ Payload # Trampoline
BY DEF Output, LineKinds, Tabbed, Instructions, GccLabel, ClangLabel, Trampoline, Payload

(* A line is copied as it should be, if the flags are right after it and what *)
(* is put before and behind it is.                                         *)
LEMMA CopyKeeps ==
    ASSUME AsInv, NEW own, Copy(own), lineNo < Len(code),
           NEW k, k = lineNo + 1, drawn' \in {drawn, drawn \cup {k}}, Flags',
           Due <=> Entered(k)', own = IF NotTaken(k)' THEN <<Trampoline>> ELSE << >>
    PROVE  AsInv'
<1>1. source' = source /\ finished' = finished /\ lineNo' = k
  BY DEF Copy
<1>2. code \in Seq(LineKinds) /\ Len(code) \in Nat /\ lineNo \in 0 .. Len(code) /\ drawn \subseteq 1 .. lineNo
  BY SourceFacts DEF AsInv
<1>3. PICK n \in Nat : n = lineNo /\ k = n + 1
  BY <1>2
<1>4. k \in 1 .. Len(code) /\ code[k] = ThisLine /\ code[k] \in LineKinds
  BY <1>1, NextLine
<1>5. ~finished /\ Copied
  BY <1>2 DEF AsInv
<1>6. PICK f : Pieces(lineNo, f) /\ output = f[lineNo]
  BY <1>5 DEF Copied
<1> DEFINE front == IF Due THEN <<Trampoline>> ELSE << >>
           line == <<ThisLine>>
           piece == front \o line \o own
<1>7. piece = Piece(k)'
  <2>1. code' = code
    BY <1>1 DEF code
  <2> QED BY <1>4, <2>1 DEF Piece
<1>8. front \in Seq(Output) /\ line \in Seq(Output) /\ own \in Seq(Output)
  <2>1. ThisLine \in Output /\ Trampoline \in Output
    BY <1>4, TextIsNoTrampoline DEF Output
  <2>2. \A x \in Output : <<x>> \in Seq(Output)
    OBVIOUS
  <2>3. << >> \in Seq(Output)
    OBVIOUS
  <2> QED BY <2>1, <2>2, <2>3
<1>9. output \in Seq(Output) /\ f \in [0 .. n -> Seq(Output)] /\ f[0] = << >> /\ output = f[n]
  BY <1>3, <1>6 DEF Pieces
<1>10. output' = output \o piece /\ piece \in Seq(Output)
  <2>1. output' = output \o piece
    BY DEF Copy
  <2> HIDE DEF front, line
  <2>2. piece \in Seq(Output)
    BY <1>8
  <2> QED BY <2>1, <2>2
<1>11. Copied'
  <2>8. PICK g : g = [i \in 0 .. k |-> IF i = k THEN output \o piece ELSE f[i]]
    OBVIOUS
  <2>1. \A i \in 1 .. n : f[i] = f[i - 1] \o Piece(i)'
    <3>1. \A j \in 1 .. n : j \in drawn' <=> j \in drawn
      BY <1>3
    <3> SUFFICES ASSUME NEW i \in 1 .. n PROVE f[i] = f[i - 1] \o Piece(i)'
      OBVIOUS
    <3>2. Piece(i)' = Piece(i)
      <4>1. i \in 0 .. n /\ i # 0
        OBVIOUS
      <4> QED BY <1>1, <3>1, <4>1, DrawnStays
    <3>3. f[i] = f[i - 1] \o Piece(i)
      BY <1>3, <1>6 DEF Pieces
    <3> QED BY <3>2, <3>3
  <2> HIDE DEF piece
  <2>2. g \in [0 .. k -> Seq(Output)] /\ g[0] = << >> /\ g[k] = output \o piece
    <3>1. output \o piece \in Seq(Output)
      BY <1>9, <1>10
    <3>2. \A i \in 0 .. k : i # k => f[i] \in Seq(Output)
      BY <1>3, <1>9
    <3>3. 0 \in 0 .. k /\ 0 # k /\ k \in 0 .. k
      BY <1>3
    <3> QED BY <1>9, <2>8, <3>1, <3>2, <3>3
  <2>3. \A i \in 1 .. k : g[i] = g[i - 1] \o Piece(i)'
    <3> SUFFICES ASSUME NEW i \in 1 .. k PROVE g[i] = g[i - 1] \o Piece(i)'
      OBVIOUS
    <3>1. CASE i = k
      <4>1. g[i] = output \o piece /\ g[i - 1] = output
        BY <1>3, <1>9, <2>8, <3>1
      <4> QED BY <1>7, <3>1, <4>1
    <3>2. CASE i # k
      <4>1. i \in 1 .. n /\ g[i] = f[i] /\ g[i - 1] = f[i - 1]
        BY <1>3, <2>8, <3>2
      <4> QED BY <2>1, <4>1
    <3> QED BY <3>1, <3>2
  <2>4. Pieces(lineNo, g)' /\ output' = g[lineNo']
    <3> QED BY <1>1, <1>10, <2>2, <2>3 DEF Pieces
  <2>5. Trampoline \in Range(output') <=> Trampoline \in Range(output) \/ Due \/ own # << >>
    <3>1. Trampoline \in Range(output') <=> Trampoline \in Range(output) \/ Trampoline \in Range(piece)
      BY <1>9, <1>10, RangeOfBoth
    <3>2. Trampoline \in Range(piece) <=> Trampoline \in Range(front \o line) \/ Trampoline \in Range(own)
      <4>1. front \o line \in Seq(Output)
        BY <1>8
      <4> HIDE DEF front, line
      <4> QED BY <1>8, <4>1, RangeOfBoth DEF piece
    <3>3. Trampoline \in Range(front \o line) <=> Trampoline \in Range(front) \/ Trampoline \in Range(line)
      <4> HIDE DEF front, line
      <4> QED BY <1>8, RangeOfBoth
    <3>4. Trampoline \notin Range(line)
      BY <1>4, TextIsNoTrampoline DEF Range
    <3>5. Trampoline \in Range(front) <=> Due
      BY DEF Range
    <3>6. Trampoline \in Range(own) <=> own # << >>
      BY DEF Range
    <3> QED BY <3>1, <3>2, <3>3, <3>4, <3>5, <3>6
  <2>6. insLines' \in Nat /\ (insLines' > 0 <=> insLines > 0 \/ Due \/ own # << >>)
    <3>1. insLines' = insLines + (IF Due THEN 1 ELSE 0) + Len(own)
      BY DEF Copy
    <3>2. Len(own) \in {0, 1} /\ (Len(own) = 0 <=> own = << >>)
      OBVIOUS
    <3>3. insLines \in Nat
      BY <1>5 DEF Copied
    <3> QED BY <3>1, <3>2, <3>3
  <2>7. insLines > 0 <=> Trampoline \in Range(output)
    BY <1>5 DEF Copied
  <2> QED BY <2>4, <2>5, <2>6, <2>7 DEF Copied
<1>12. lineNo' \in 0 .. Len(code') /\ drawn' \subseteq 1 .. lineNo' /\ source' \in Sources
  <2>1. code' = code
    BY <1>1 DEF code
  <2>2. 1 .. lineNo \subseteq 1 .. k /\ k \in 1 .. k
    BY <1>3
  <2> QED BY <1>1, <1>2, <1>4, <2>1, <2>2 DEF AsInv
<1> QED BY <1>1, <1>5, <1>11, <1>12 DEF AsInv

(* The lines are counted. *)
LEMMA LinesRead == AsInv => lineNo \in Nat
<1>1. AsInv => lineNo \in 0 .. Len(code) /\ Len(code) \in Nat
  BY SourceFacts DEF AsInv
<1> QED BY <1>1

(* What the flags have to become with the next line. *)
LEMMA LineKeeps ==
    ASSUME AsInv, NEW own, Copy(own), lineNo < Len(code),
           NEW k, k = lineNo + 1, drawn' \in {drawn, drawn \cup {k}},
           {instrOk', skipIntel', skipApp', skipCsect', skipNextLabel', instrumentNext'} \subseteq BOOLEAN,
           ~source.passThru =>
               /\ instrOk' <=> IF ThisLine \in {"text", "section"} THEN ThisLine = "text" ELSE instrOk
               /\ skipIntel' <=> IF ThisLine \in {".intel_syntax", ".att_syntax"} THEN ThisLine = ".intel_syntax"
                                 ELSE skipIntel
               /\ skipApp' <=> IF ThisLine \in {"#APP", "#NO_APP"} THEN ThisLine = "#APP" ELSE skipApp
               /\ skipCsect' <=> IF ThisLine \in {".code32", ".code64"} THEN ThisLine = Foreign ELSE skipCsect
               /\ skipNextLabel' <=> \/ ThisLine = "p2align" /\ instrOk' /\ ~source.clangMode
                                     \/ skipNextLabel /\ ~(ThisLine \in BranchLabels /\ k \in drawn')
               /\ instrumentNext' <=>
                     \/ ~Skipping' /\ \/ ThisLine = "function label"
                                      \/ ThisLine \in BranchLabels /\ k \in drawn' /\ ~skipNextLabel
                     \/ instrumentNext /\ ~(ThisLine \in Instructions /\ ~Skipping),
           own = IF ~source.passThru /\ ThisLine = "jump if" /\ ~Skipping' /\ k \in drawn'
                 THEN <<Trampoline>> ELSE << >>
    PROVE  AsInv'
<1>1. source' = source /\ lineNo' = k
  BY DEF Copy
<1>2. /\ k \in 1 .. Len(code) /\ k \notin drawn /\ code[k] = ThisLine /\ code[k] \in LineKinds
      /\ InText(k) <=> IF code[k] \in {"text", "section"} THEN code[k] = "text" ELSE InText(lineNo)
      /\ Executed(k) <=> code[k] \in Instructions /\ InCode(lineNo)
      /\ Tabled(k)' <=> \/ code[k] = "p2align" /\ InText(k) /\ ~source.clangMode
                        \/ Tabled(lineNo) /\ ~(code[k] \in BranchLabels /\ k \in drawn')
      /\ Waiting(k)' <=> \/ InCode(k) /\ \/ code[k] = "function label"
                                         \/ code[k] \in BranchLabels /\ k \in drawn' /\ ~Tabled(lineNo)
                         \/ Waiting(lineNo) /\ ~Executed(k)
      /\ Entered(k)' <=> Executed(k) /\ Waiting(lineNo)
      /\ NotTaken(k)' <=> code[k] = "jump if" /\ InCode(k) /\ k \in drawn'
  BY <1>1, NextLine
<1>3. lineNo \in Nat
  BY LinesRead
<1>4. /\ LastIs(k, {".intel_syntax", ".att_syntax"}, ".intel_syntax") <=>
            IF code[k] \in {".intel_syntax", ".att_syntax"} THEN code[k] = ".intel_syntax"
            ELSE LastIs(lineNo, {".intel_syntax", ".att_syntax"}, ".intel_syntax")
      /\ LastIs(k, {"#APP", "#NO_APP"}, "#APP") <=>
            IF code[k] \in {"#APP", "#NO_APP"} THEN code[k] = "#APP"
            ELSE LastIs(lineNo, {"#APP", "#NO_APP"}, "#APP")
      /\ LastIs(k, {".code32", ".code64"}, Foreign) <=>
            IF code[k] \in {".code32", ".code64"} THEN code[k] = Foreign
            ELSE LastIs(lineNo, {".code32", ".code64"}, Foreign)
  BY <1>3, LastIsNext
<1>5. Flags
  BY DEF AsInv
<1>6. ASSUME ~source.passThru
      PROVE  /\ instrOk' <=> InText(k)
             /\ skipIntel' <=> LastIs(k, {".intel_syntax", ".att_syntax"}, ".intel_syntax")
             /\ skipApp' <=> LastIs(k, {"#APP", "#NO_APP"}, "#APP")
             /\ skipCsect' <=> LastIs(k, {".code32", ".code64"}, Foreign)
             /\ InCode(lineNo) <=> ~Skipping
             /\ InCode(k) <=> ~Skipping'
  <2>1. /\ instrOk' <=> InText(k)
        /\ skipIntel' <=> LastIs(k, {".intel_syntax", ".att_syntax"}, ".intel_syntax")
        /\ skipApp' <=> LastIs(k, {"#APP", "#NO_APP"}, "#APP")
        /\ skipCsect' <=> LastIs(k, {".code32", ".code64"}, Foreign)
    BY <1>2, <1>4, <1>5, <1>6 DEF Flags
  <2>2. InCode(lineNo) <=> ~Skipping
    BY <1>5, <1>6 DEF Flags, InCode, Skipping
  <2>3. InCode(k) <=> ~Skipping'
    BY <1>6, <2>1 DEF InCode, Skipping
  <2> QED BY <2>1, <2>2, <2>3
<1>7. /\ InText(k)' = InText(k)
      /\ \A S, kind : LastIs(k, S, kind)' = LastIs(k, S, kind)
      /\ Foreign' = Foreign
  BY <1>1 DEF InText, LastIs, LastOf, code, Foreign
<1>8. Flags'
  <2> SUFFICES ASSUME ~source.passThru
               PROVE  /\ instrOk' <=> InText(k)'
                      /\ skipIntel' <=> LastIs(k, {".intel_syntax", ".att_syntax"}, ".intel_syntax")'
                      /\ skipApp' <=> LastIs(k, {"#APP", "#NO_APP"}, "#APP")'
                      /\ skipCsect' <=> LastIs(k, {".code32", ".code64"}, Foreign)'
                      /\ skipNextLabel' <=> Tabled(k)'
                      /\ instrumentNext' <=> Waiting(k)'
    BY <1>1 DEF Flags
  <2>1. (skipNextLabel <=> Tabled(lineNo)) /\ (instrumentNext <=> Waiting(lineNo))
    BY <1>5 DEF Flags
  <2>2. skipNextLabel' <=> Tabled(k)'
    BY <1>2, <1>6, <2>1
  <2>3. instrumentNext' <=> Waiting(k)'
    BY <1>2, <1>6, <2>1
  <2> QED BY <1>6, <1>7, <2>2, <2>3
<1>9. Due <=> Entered(k)'
  <2>1. CASE source.passThru
    BY <1>2, <2>1 DEF Due, InCode
  <2>2. CASE ~source.passThru
    BY <1>2, <1>5, <1>6, <2>2 DEF Due, Flags
  <2> QED BY <2>1, <2>2
<1>10. own = IF NotTaken(k)' THEN <<Trampoline>> ELSE << >>
  <2>1. CASE source.passThru
    BY <1>2, <2>1 DEF InCode
  <2>2. CASE ~source.passThru
    BY <1>2, <1>6, <2>2
  <2> QED BY <2>1, <2>2
<1> QED BY <1>8, <1>9, <1>10, CopyKeeps

(* What holds of the line that is read. *)
LEMMA ReadingFacts ==
    ASSUME AsInv, NEW kinds, Reading(kinds)
    PROVE  /\ lineNo < Len(code) /\ ThisLine \in kinds
           /\ {instrOk, skipIntel, skipApp, skipCsect, skipNextLabel, instrumentNext} \subseteq BOOLEAN
           /\ source.passThru \in BOOLEAN /\ source.clangMode \in BOOLEAN /\ source.bits64 \in BOOLEAN
BY SourcesTyped DEF AsInv, Flags, Reading, code

(* A file that no compiler wrote (pass_thru) is only copied. *)
LEMMA PassKeeps == ASSUME AsInv, PassLine PROVE AsInv'
<1>1. source.passThru /\ Reading(LineKinds) /\ Copy(<< >>)
      /\ UNCHANGED <<instrOk, skipCsect, skipNextLabel, skipIntel, skipApp, instrumentNext, drawn>>
  BY DEF PassLine
<1> QED BY <1>1, ReadingFacts, LineKeeps

(* A section directive sets instr_ok and nothing else. *)
LEMMA SectionKeeps == ASSUME AsInv, ChangeSection PROVE AsInv'
<1>1. ~source.passThru /\ Reading({"text", "section"}) /\ Copy(<< >>) /\ instrOk' = (ThisLine = "text")
      /\ UNCHANGED <<skipCsect, skipNextLabel, skipIntel, skipApp, instrumentNext, drawn>>
  BY DEF ChangeSection
<1>2. lineNo < Len(code) /\ ThisLine \in {"text", "section"}
      /\ {instrOk, skipIntel, skipApp, skipCsect, skipNextLabel, instrumentNext} \subseteq BOOLEAN
  BY <1>1, ReadingFacts
<1>3. ThisLine \notin Instructions \cup BranchLabels
  BY <1>2 DEF Instructions, BranchLabels, GccLabel, ClangLabel
<1>4. instrOk' \in BOOLEAN
  BY <1>1
<1> QED BY <1>1, <1>2, <1>3, <1>4, LineKeeps

(* An alignment in the code announces a jump table. *)
LEMMA AlignKeeps == ASSUME AsInv, AlignTable PROVE AsInv'
<1>1. ~source.passThru /\ Reading({"p2align"}) /\ Copy(<< >>)
      /\ skipNextLabel' = (skipNextLabel \/ (~source.clangMode /\ instrOk))
      /\ UNCHANGED <<instrOk, skipCsect, skipIntel, skipApp, instrumentNext, drawn>>
  BY DEF AlignTable
<1>2. lineNo < Len(code) /\ ThisLine = "p2align"
      /\ {instrOk, skipIntel, skipApp, skipCsect, skipNextLabel, instrumentNext} \subseteq BOOLEAN
      /\ source.clangMode \in BOOLEAN
  BY <1>1, ReadingFacts
<1>3. ThisLine \notin Instructions \cup BranchLabels
  BY <1>2 DEF Instructions, BranchLabels, GccLabel, ClangLabel
<1>4. skipNextLabel' \in BOOLEAN
  BY <1>1
<1> QED BY <1>1, <1>2, <1>3, <1>4, LineKeeps

(* The marks of foreign code and of ad-hoc blocks set their flags. *)
LEMMA FlavorKeeps == ASSUME AsInv, ChangeFlavor PROVE AsInv'
<1>1. /\ ~source.passThru /\ Reading({".code32", ".code64", ".intel_syntax", ".att_syntax", "#APP", "#NO_APP"})
      /\ Copy(<< >>)
      /\ skipCsect' = CASE ThisLine = ".code32" -> source.bits64
                        [] ThisLine = ".code64" -> ~source.bits64
                        [] OTHER -> skipCsect
      /\ skipIntel' = ((skipIntel \/ ThisLine = ".intel_syntax") /\ ThisLine # ".att_syntax")
      /\ skipApp' = ((skipApp \/ ThisLine = "#APP") /\ ThisLine # "#NO_APP")
      /\ UNCHANGED <<instrOk, skipNextLabel, instrumentNext, drawn>>
  BY DEF ChangeFlavor
<1>2. /\ lineNo < Len(code) /\ ThisLine \in {".code32", ".code64", ".intel_syntax", ".att_syntax", "#APP", "#NO_APP"}
      /\ {instrOk, skipIntel, skipApp, skipCsect, skipNextLabel, instrumentNext} \subseteq BOOLEAN
      /\ source.bits64 \in BOOLEAN
  BY <1>1, ReadingFacts
<1>3. ThisLine \notin Instructions \cup BranchLabels
  BY <1>2 DEF Instructions, BranchLabels, GccLabel, ClangLabel
<1>4. skipCsect' \in BOOLEAN /\ skipIntel' \in BOOLEAN /\ skipApp' \in BOOLEAN
  BY <1>1, <1>2
<1>5. skipCsect' <=> IF ThisLine \in {".code32", ".code64"} THEN ThisLine = Foreign ELSE skipCsect
  BY <1>1, <1>2 DEF Foreign
<1> QED BY <1>1, <1>2, <1>3, <1>4, <1>5, LineKeeps

(* A conditional branch gets its trampoline behind it, if it is drawn. *)
LEMMA BranchKeeps == ASSUME AsInv, Branch PROVE AsInv'
<1>1. PICK k : k = lineNo + 1
  OBVIOUS
<1>2. PICK own :
         /\ ~source.passThru /\ Reading({"jump if"}) /\ Copy(own)
         /\ \/ ~Skipping /\ own = <<Trampoline>> /\ drawn' = drawn \cup {k}
            \/ own = << >> /\ drawn' = drawn
         /\ instrumentNext' = (instrumentNext /\ ~Due)
         /\ UNCHANGED <<instrOk, skipCsect, skipNextLabel, skipIntel, skipApp>>
  BY <1>1 DEF Branch
<1>3. /\ lineNo < Len(code) /\ ThisLine = "jump if"
      /\ {instrOk, skipIntel, skipApp, skipCsect, skipNextLabel, instrumentNext} \subseteq BOOLEAN
  <2>1. Reading({"jump if"})
    BY <1>2
  <2>2. ThisLine \in {"jump if"}
    BY <2>1, ReadingFacts
  <2> QED BY <2>1, <2>2, ReadingFacts
<1>4. ThisLine \in Instructions /\ ThisLine \notin BranchLabels
  BY <1>3 DEF Instructions, BranchLabels, GccLabel, ClangLabel
<1>5. instrumentNext' \in BOOLEAN /\ (instrumentNext' <=> instrumentNext /\ Skipping)
  BY <1>2, <1>3, <1>4 DEF Due
<1>6. Skipping' = Skipping
  BY <1>2 DEF Skipping
<1>7. k \notin drawn
  <2>1. drawn \subseteq 1 .. lineNo /\ lineNo \in 0 .. Len(code) /\ Len(code) \in Nat
    BY SourceFacts DEF AsInv
  <2> QED BY <1>1, <2>1
<1>8. own = IF ~source.passThru /\ ThisLine = "jump if" /\ ~Skipping' /\ k \in drawn' THEN <<Trampoline>> ELSE << >>
  BY <1>2, <1>3, <1>6, <1>7
<1>9. drawn' \in {drawn, drawn \cup {k}}
  BY <1>2
<1> QED BY <1>1, <1>2, <1>3, <1>4, <1>5, <1>6, <1>8, <1>9, LineKeeps

(* A branch label that is drawn waits for its instruction or takes the table. *)
LEMMA BranchLabelKeeps == ASSUME AsInv, BranchLabel PROVE AsInv'
<1>1. PICK k : k = lineNo + 1
  OBVIOUS
<1>2. /\ ~source.passThru /\ Reading(BranchLabels) /\ Copy(<< >>)
      /\ \/ ~Skipping /\ instrumentNext' = (instrumentNext \/ ~skipNextLabel) /\ skipNextLabel' = FALSE
            /\ drawn' = drawn \cup {k}
         \/ UNCHANGED <<instrumentNext, skipNextLabel, drawn>>
      /\ UNCHANGED <<instrOk, skipCsect, skipIntel, skipApp>>
  BY <1>1 DEF BranchLabel
<1>3. /\ lineNo < Len(code) /\ ThisLine \in BranchLabels
      /\ {instrOk, skipIntel, skipApp, skipCsect, skipNextLabel, instrumentNext} \subseteq BOOLEAN
  BY <1>2, ReadingFacts
<1>4. /\ ThisLine \notin Instructions
      /\ ThisLine \notin {"text", "section", ".intel_syntax", ".att_syntax", "#APP", "#NO_APP", ".code32", ".code64",
                          "p2align", "function label", "jump if"}
  BY <1>3 DEF Instructions, BranchLabels, GccLabel, ClangLabel
<1>5. instrumentNext' \in BOOLEAN /\ skipNextLabel' \in BOOLEAN
  BY <1>2, <1>3
<1>6. Skipping' = Skipping
  BY <1>2 DEF Skipping
<1>7. k \notin drawn
  <2>1. drawn \subseteq 1 .. lineNo /\ lineNo \in 0 .. Len(code) /\ Len(code) \in Nat
    BY SourceFacts DEF AsInv
  <2> QED BY <1>1, <2>1
<1>8. drawn' \in {drawn, drawn \cup {k}}
  BY <1>2
<1>9. skipNextLabel' <=> skipNextLabel /\ k \notin drawn'
  BY <1>2, <1>3, <1>7
<1>10. instrumentNext' <=> (~Skipping' /\ k \in drawn' /\ ~skipNextLabel) \/ instrumentNext
  <2>1. CASE ~Skipping /\ instrumentNext' = (instrumentNext \/ ~skipNextLabel) /\ drawn' = drawn \cup {k}
    <3>1. k \in drawn' /\ ~Skipping'
      BY <1>6, <2>1
    <3>2. instrumentNext \in BOOLEAN /\ skipNextLabel \in BOOLEAN
      BY <1>3
    <3> QED BY <2>1, <3>1, <3>2
  <2>2. CASE UNCHANGED <<instrumentNext, drawn>>
    <3>1. k \notin drawn' /\ instrumentNext' = instrumentNext
      BY <1>7, <2>2
    <3> QED BY <3>1
  <2> QED BY <1>2, <2>1, <2>2
<1> QED BY <1>1, <1>2, <1>3, <1>4, <1>5, <1>8, <1>9, <1>10, LineKeeps

(* A function label waits for its instruction. *)
LEMMA FunctionKeeps == ASSUME AsInv, FunctionLabel PROVE AsInv'
<1>1. /\ ~source.passThru /\ Reading({"function label"}) /\ Copy(<< >>)
      /\ instrumentNext' = (instrumentNext \/ ~Skipping)
      /\ UNCHANGED <<instrOk, skipCsect, skipNextLabel, skipIntel, skipApp, drawn>>
  BY DEF FunctionLabel
<1>2. /\ lineNo < Len(code) /\ ThisLine = "function label"
      /\ {instrOk, skipIntel, skipApp, skipCsect, skipNextLabel, instrumentNext} \subseteq BOOLEAN
  <2>1. Reading({"function label"})
    BY <1>1
  <2>2. ThisLine \in {"function label"}
    BY <2>1, ReadingFacts
  <2> QED BY <2>1, <2>2, ReadingFacts
<1>3. ThisLine \notin Instructions \cup BranchLabels
  BY <1>2 DEF Instructions, BranchLabels, GccLabel, ClangLabel
<1>4. instrumentNext' \in BOOLEAN /\ Skipping' = Skipping
  BY <1>1 DEF Skipping
<1>5. instrumentNext' <=> ~Skipping' \/ instrumentNext
  BY <1>1, <1>2, <1>4
<1> QED BY <1>1, <1>2, <1>3, <1>4, <1>5, LineKeeps

(* Any other line is copied, behind the trampoline that is due. *)
LEMMA OtherKeeps == ASSUME AsInv, OtherLine PROVE AsInv'
<1> DEFINE rest == {"jump", "instruction", "directive", "other label", "comment", "other", ClangLabel} \ BranchLabels
<1>1. /\ ~source.passThru /\ Reading(rest) /\ Copy(<< >>)
      /\ instrumentNext' = (instrumentNext /\ ~Due)
      /\ UNCHANGED <<instrOk, skipCsect, skipNextLabel, skipIntel, skipApp, drawn>>
  BY DEF OtherLine
<1>2. /\ lineNo < Len(code) /\ ThisLine \in rest
      /\ {instrOk, skipIntel, skipApp, skipCsect, skipNextLabel, instrumentNext} \subseteq BOOLEAN
  <2> HIDE DEF rest
  <2> QED BY <1>1, ReadingFacts
<1>3. /\ ThisLine \notin BranchLabels
      /\ ThisLine \notin {"text", "section", ".intel_syntax", ".att_syntax", "#APP", "#NO_APP", ".code32", ".code64",
                          "p2align", "function label", "jump if"}
  BY <1>2 DEF ClangLabel
<1>4. instrumentNext' \in BOOLEAN /\ (instrumentNext' <=> instrumentNext /\ ~(ThisLine \in Instructions /\ ~Skipping))
  BY <1>1, <1>2 DEF Due
<1> HIDE DEF rest
<1> QED BY <1>1, <1>2, <1>3, <1>4, LineKeeps

(* The pieces are made of lines and trampolines. *)
LEMMA PieceTyped ==
    ASSUME AsInv, NEW k \in 1 .. Len(code)
    PROVE  Piece(k) \in Seq(Output)
<1>1. code[k] \in Output /\ Trampoline \in Output
  BY SourceFacts, TextIsNoTrampoline DEF AsInv, Output
<1>2. <<code[k]>> \in Seq(Output) /\ <<Trampoline>> \in Seq(Output) /\ << >> \in Seq(Output)
  BY <1>1
<1> QED BY <1>2 DEF Piece

(* At the end the pieces put together are the file that should stand there. *)
LEMMA EndKeeps == ASSUME AsInv, EndOfFile PROVE AsInv'
<1>1. /\ ~finished /\ lineNo = Len(source.lines) /\ finished' = TRUE
      /\ output' = output \o (IF insLines > 0 THEN <<Payload>> ELSE << >>)
      /\ UNCHANGED <<source, lineNo, insLines, instrOk, skipCsect, skipNextLabel, skipIntel, skipApp,
                     instrumentNext, drawn>>
  BY DEF EndOfFile
<1>2. Copied /\ source \in Sources
  BY <1>1 DEF AsInv
<1>3. PICK n \in Nat : n = lineNo /\ n = Len(code) /\ DOMAIN code = 1 .. n
  BY <1>1, <1>2, SourceFacts DEF code
<1>4. PICK f : Pieces(n, f) /\ output = f[n]
  BY <1>2, <1>3 DEF Copied
<1> DEFINE ps == [k \in 1 .. n |-> Piece(k)]
<1>5. ps \in [1 .. n -> Seq(Output)]
  BY <1>3, PieceTyped
<1>6. FlattenSeq(ps) = output
  <2>1. f \in [0 .. n -> Seq(Output)] /\ f[0] = << >> /\ \A k \in 1 .. n : f[k] = f[k - 1] \o ps[k]
    BY <1>4 DEF Pieces
  <2> HIDE DEF ps
  <2> QED BY <1>4, <1>5, <2>1, FlattenedTo
<1>7. Marked = output
  <2>1. Marked = FlattenSeq([k \in DOMAIN code |-> Piece(k)])
    BY DEF Marked, Piece
  <2>2. [k \in DOMAIN code |-> Piece(k)] = ps
    BY <1>3
  <2> QED BY <1>6, <2>1, <2>2
<1>8. Marked' = Marked
  BY <1>1 DEF Marked, Entered, NotTaken, Entry, OfJumpTable, Executed, InCode, InText, LastIs, LastOf, code,
              Foreign, BranchLabels
<1>9. insLines > 0 <=> Trampoline \in Range(output)
  BY <1>2 DEF Copied
<1>10. TrampolinesRight'
  <2>1. output' = Marked \o (IF Trampoline \in Range(Marked) THEN <<Payload>> ELSE << >>)
    BY <1>1, <1>7, <1>9
  <2> QED BY <1>8, <2>1 DEF TrampolinesRight
<1>11. Flags'
  <2>1. Flags
    BY DEF AsInv
  <2>2. Flags' <=> Flags
    BY <1>1 DEF Flags, Tabled, Waiting, Entry, OfJumpTable, Executed, InCode, InText, LastIs, LastOf, code,
              Foreign, BranchLabels
  <2> QED BY <2>1, <2>2
<1>12. lineNo' = Len(code)' /\ lineNo' \in 0 .. Len(code)' /\ drawn' \subseteq 1 .. lineNo'
  BY <1>1 DEF AsInv, code
<1> QED BY <1>1, <1>2, <1>10, <1>11, <1>12 DEF AsInv

(* Every step keeps the invariant. *)
LEMMA AsInvStep == AsInv /\ [AsNext]_asVars => AsInv'
<1> SUFFICES ASSUME AsInv, [AsNext]_asVars PROVE AsInv'
  OBVIOUS
<1>1. CASE UNCHANGED asVars
  <2>1. UNCHANGED <<source, lineNo, output, insLines, instrOk, skipCsect, skipNextLabel, skipIntel, skipApp,
                    instrumentNext, drawn, finished>>
    BY <1>1 DEF asVars
  <2>2. Flags' <=> Flags
    BY <2>1 DEF Flags, Tabled, Waiting, Entry, OfJumpTable, Executed, InCode, InText, LastIs, LastOf, code,
                Foreign, BranchLabels
  <2>3. Copied' <=> Copied
    BY <2>1 DEF Copied, Pieces, Piece, Entered, NotTaken, Entry, OfJumpTable, Executed, InCode, InText, LastIs, LastOf,
                code, Foreign, BranchLabels
  <2>4. TrampolinesRight' <=> TrampolinesRight
    BY <2>1 DEF TrampolinesRight, Marked, Entered, NotTaken, Entry, OfJumpTable, Executed, InCode, InText, LastIs,
                LastOf, code, Foreign, BranchLabels
  <2>5. code' = code
    BY <2>1 DEF code
  <2> QED BY <2>1, <2>2, <2>3, <2>4, <2>5 DEF AsInv
<1> QED BY <1>1, PassKeeps, SectionKeeps, AlignKeeps, FlavorKeeps, BranchKeeps, BranchLabelKeeps, FunctionKeeps,
           OtherKeeps, EndKeeps DEF AsNext

(* TrampolinesAlwaysRight: for every file, with every option and every draw,    *)
(* the file that is assembled has a trampoline before the first instruction     *)
(* reached from a function entry or a drawn label and behind a drawn branch,    *)
(* no other, and every line of the source unchanged and in its place.           *)
THEOREM TrampolinesAlwaysRight == AsSpec => []TrampolinesRight
<1>1. AsInit => AsInv
  BY AsInvInit
<1>2. AsInv /\ [AsNext]_asVars => AsInv'
  BY AsInvStep
<1>3. AsInv => TrampolinesRight
  BY DEF AsInv, TrampolinesRight
<1> QED BY <1>1, <1>2, <1>3, PTL DEF AsSpec

-----------------------------------------------------------------------------
(* Sums over finite sets.  SumFunctionOnSet takes the elements in an order   *)
(* CHOOSE fixes; the sum does not depend on it.                            *)
Some(S) == CHOOSE x \in S : TRUE
SumLoop(f, S) == CHOOSE c : c = [s \in SUBSET S |-> IF s = {} THEN 0 ELSE f[Some(s)] + c[s \ {Some(s)}]]

LEMMA SomeElement ==
    ASSUME NEW S, S # {}
    PROVE  Some(S) \in S
BY DEF Some

(* One element less.                                                       *)
LEMMA OneLess ==
    ASSUME NEW S, IsFiniteSet(S), NEW x \in S
    PROVE  /\ IsFiniteSet(S \ {x}) /\ Cardinality(S) \in Nat \ {0}
           /\ Cardinality(S \ {x}) = Cardinality(S) - 1
<1>1. IsFiniteSet(S \ {x}) /\ Cardinality(S \ {x}) = Cardinality(S) - 1
  BY FS_RemoveElement
<1>2. Cardinality(S) \in Nat /\ Cardinality(S) # 0
  BY FS_CardinalityType, FS_EmptySet
<1> QED BY <1>1, <1>2

(* Two ways to count that go on alike agree on what they both count.       *)
Counts(c, f, A) == c[{}] = 0 /\ \A s \in SUBSET A : s # {} => c[s] = f[Some(s)] + c[s \ {Some(s)}]

LEMMA CountsAgree ==
    ASSUME NEW A, NEW B, NEW S, S \subseteq A, S \subseteq B, IsFiniteSet(S),
           NEW f, NEW g, \A x \in S : f[x] = g[x], NEW c, NEW d, Counts(c, f, A), Counts(d, g, B)
    PROVE  c[S] = d[S]
<1> DEFINE N == Cardinality(S)
           Same(k) == \A s \in SUBSET S : Cardinality(s) = k => c[s] = d[s]
           Z == {k \in 0 .. N : Same(k)}
<1>1. N \in Nat
  BY FS_CardinalityType
<1>2. 0 \in Z
  <2>1. ASSUME NEW s \in SUBSET S, Cardinality(s) = 0 PROVE c[s] = d[s]
    <3>1. s = {}
      BY <2>1, FS_Subset, FS_EmptySet
    <3> QED BY <3>1 DEF Counts
  <2> QED BY <1>1, <2>1
<1>3. ASSUME NEW k \in 1 .. N, k - 1 \in Z PROVE k \in Z
  <2> SUFFICES ASSUME NEW s \in SUBSET S, Cardinality(s) = k PROVE c[s] = d[s]
    BY <1>1
  <2> DEFINE r == s \ {Some(s)}
  <2>1. s # {} /\ IsFiniteSet(s) /\ k - 1 \in 0 .. N
    BY FS_Subset, FS_EmptySet, <1>1
  <2>2. Some(s) \in s
    BY <2>1, SomeElement
  <2>3. Cardinality(r) = k - 1
    BY <2>1, <2>2, OneLess
  <2>4. c[r] = d[r]
    BY <1>3, <2>3
  <2>5. c[s] = f[Some(s)] + c[r] /\ d[s] = g[Some(s)] + d[r]
    BY <2>1 DEF Counts
  <2>6. f[Some(s)] = g[Some(s)]
    BY <2>2
  <2> HIDE DEF r
  <2> QED BY <2>4, <2>5, <2>6
<1>4. N \in Z
  <2> HIDE DEF Z, N
  <2>1. 0 .. N \subseteq Z
    BY <1>1, <1>2, <1>3, IntervalInduction
  <2> QED BY <1>1, <2>1
<1> QED BY <1>4

LEMMA SumUnfolds ==
    ASSUME NEW S, IsFiniteSet(S), NEW f, \A x \in S : f[x] \in Int
    PROVE  /\ SumFunctionOnSet(f, S) = SumLoop(f, S)[S]
           /\ SumLoop(f, S) \in [SUBSET S -> Int]
           /\ Counts(SumLoop(f, S), f, S)
<1> DEFINE N == Cardinality(S)
           T == [SUBSET S -> Int]
           Next1(g) == [s \in SUBSET S |-> IF s = {} THEN 0 ELSE f[Some(s)] + g[s \ {Some(s)}]]
           step == [k \in 1 .. N + 1 |-> [g \in T |-> Next1(g)]]
           start == [s \in SUBSET S |-> 0]
           Unfolds(c) == c = [s \in SUBSET S |-> IF s = {} THEN 0 ELSE f[Some(s)] + c[s \ {Some(s)}]]
<1>1. N \in Nat
  BY FS_CardinalityType
<1>2. ASSUME NEW g \in T PROVE Next1(g) \in T
  <2>1. ASSUME NEW s \in SUBSET S, s # {} PROVE f[Some(s)] + g[s \ {Some(s)}] \in Int
    <3>1. Some(s) \in S /\ s \ {Some(s)} \in SUBSET S
      BY <2>1, SomeElement
    <3>2. f[Some(s)] \in Int /\ g[s \ {Some(s)}] \in Int
      BY <3>1
    <3> QED BY <3>2
  <2> QED BY <2>1
<1>3. PICK h : /\ h \in [0 .. N + 1 -> T] /\ h[0] = start
               /\ \A k \in 1 .. N + 1 : h[k] = Next1(h[k - 1])
  <2>1. start \in T /\ step \in [1 .. N + 1 -> [T -> T]] /\ N + 1 \in Nat
    <3>1. start \in T
      OBVIOUS
    <3>2. N + 1 \in Nat
      BY <1>1
    <3> HIDE DEF T, Next1, N
    <3>3. step \in [1 .. N + 1 -> [T -> T]]
      BY <1>2
    <3> HIDE DEF start, step
    <3> QED BY <3>1, <3>2, <3>3
  <2>2. \E h : Recurs(h, N + 1, T, start, step)
    <3> HIDE DEF step, T, start, N
    <3> QED BY <2>1, RecursionExists
  <2>3. PICK h : h \in [0 .. N + 1 -> T] /\ h[0] = start /\ \A k \in 1 .. N + 1 : h[k] = step[k][h[k - 1]]
    <3> HIDE DEF step, T, start, N
    <3> QED BY <2>2 DEF Recurs
  <2>4. ASSUME NEW k \in 1 .. N + 1 PROVE h[k] = Next1(h[k - 1])
    <3>1. k - 1 \in 0 .. N + 1
      BY <1>1
    <3>2. h[k - 1] \in T
      <4> HIDE DEF T, start, step, N
      <4> QED BY <2>3, <3>1
    <3>3. step[k] = [g \in T |-> Next1(g)]
      OBVIOUS
    <3>4. h[k] = step[k][h[k - 1]]
      <4> HIDE DEF T, start, step, N
      <4> QED BY <2>3
    <3> HIDE DEF T, step, Next1
    <3> QED BY <3>2, <3>3, <3>4
  <2> HIDE DEF T, step, Next1, start, N
  <2> QED BY <2>3, <2>4
(* On the sets that are small enough, nothing changes any more.            *)
<1> DEFINE Settled(k) == \A s \in SUBSET S : Cardinality(s) < k => h[k][s] = h[k - 1][s]
           Z == {k \in 0 .. N + 1 : k = 0 \/ Settled(k)}
<1>4. ASSUME NEW k \in 1 .. N + 1, NEW s \in SUBSET S
      PROVE  h[k][s] = IF s = {} THEN 0 ELSE f[Some(s)] + h[k - 1][s \ {Some(s)}]
  <2>1. PICK g : g = h[k - 1]
    OBVIOUS
  <2>2. h[k] = Next1(g)
    BY <1>3, <2>1
  <2>3. Next1(g)[s] = IF s = {} THEN 0 ELSE f[Some(s)] + g[s \ {Some(s)}]
    OBVIOUS
  <2> HIDE DEF Next1
  <2> QED BY <2>1, <2>2, <2>3
<1>5. ASSUME NEW k \in 1 .. N + 1, k - 1 \in Z PROVE k \in Z
  <2> SUFFICES ASSUME NEW s \in SUBSET S, Cardinality(s) < k PROVE h[k][s] = h[k - 1][s]
    BY <1>1 DEF Settled
  <2>1. IsFiniteSet(s) /\ Cardinality(s) \in Nat
    BY FS_Subset, FS_CardinalityType
  <2>2. CASE k = 1
    <3>1. s = {}
      BY <2>1, <2>2, FS_EmptySet
    <3>2. h[1][s] = 0
      BY <1>1, <1>4, <2>2, <3>1
    <3>3. h[0][s] = 0
      BY <1>3
    <3> QED BY <2>2, <3>2, <3>3
  <2>3. CASE k # 1
    <3>1. k - 1 \in 1 .. N + 1 /\ k - 1 - 1 = k - 2
      BY <1>1, <2>3
    <3>2. CASE s = {}
      BY <1>4, <3>1, <3>2
    <3>3. CASE s # {}
      <4> DEFINE r == s \ {Some(s)}
      <4>1. r \in SUBSET S /\ Cardinality(r) = Cardinality(s) - 1
        BY <2>1, <3>3, OneLess, SomeElement
      <4>2. h[k - 1][r] = h[k - 2][r]
        <5>1. Settled(k - 1)
          BY <1>5, <3>1
        <5>2. Cardinality(r) < k - 1
          BY <2>1, <4>1
        <5> HIDE DEF r
        <5> QED BY <3>1, <4>1, <5>1, <5>2 DEF Settled
      <4>3. h[k][s] = f[Some(s)] + h[k - 1][r] /\ h[k - 1][s] = f[Some(s)] + h[k - 2][r]
        BY <1>4, <3>1, <3>3
      <4> QED BY <4>2, <4>3
    <3> QED BY <3>2, <3>3
  <2> QED BY <2>2, <2>3
<1>6. Settled(N + 1)
  <2>1. 0 .. N + 1 \subseteq Z
    <3>1. N + 1 \in Nat /\ 0 \in Z
      BY <1>1
    <3> HIDE DEF Z, N
    <3> QED BY <1>5, <3>1, IntervalInduction
  <2>2. N + 1 \in 0 .. N + 1 /\ N + 1 # 0
    BY <1>1
  <2> HIDE DEF N, Settled
  <2> QED BY <2>1, <2>2
<1>7. PICK M : M \in 1 .. N + 1 /\ M = N + 1 /\ M - 1 = N
  BY <1>1
<1>8. \A q \in SUBSET S : Cardinality(q) < M => h[M][q] = h[N][q]
  <2>1. Settled(M)
    BY <1>6, <1>7
  <2>2. \A q \in SUBSET S : Cardinality(q) < M => h[M][q] = h[M - 1][q]
    BY <2>1
  <2> HIDE DEF N, Settled
  <2> QED BY <1>7, <2>2
<1>9. ASSUME NEW s \in SUBSET S, s # {} PROVE h[M][s] = f[Some(s)] + h[N][s \ {Some(s)}]
  <2>1. h[M][s] = f[Some(s)] + h[M - 1][s \ {Some(s)}]
    BY <1>4, <1>7, <1>9
  <2> HIDE DEF N
  <2> QED BY <1>7, <2>1
<1> DEFINE c == h[M]
<1>10. c \in T /\ c[{}] = 0 /\ \A s \in SUBSET S : s # {} => c[s] = f[Some(s)] + c[s \ {Some(s)}]
  <2>1. M \in 0 .. N + 1
    BY <1>1, <1>7
  <2>2. c \in T
    <3> HIDE DEF T, N
    <3> QED BY <1>3, <2>1
  <2>3. c[{}] = 0
    BY <1>4, <1>7
  <2>4. ASSUME NEW s \in SUBSET S, s # {} PROVE c[s] = f[Some(s)] + c[s \ {Some(s)}]
    <3> DEFINE r == s \ {Some(s)}
    <3>1. r \in SUBSET S /\ Cardinality(r) < M
      <4>1. IsFiniteSet(s) /\ Cardinality(s) <= N
        BY FS_Subset
      <4>2. Some(s) \in s
        BY <2>4, SomeElement
      <4>3. Cardinality(r) = Cardinality(s) - 1 /\ Cardinality(s) \in Nat \ {0}
        BY <4>1, <4>2, OneLess
      <4> QED BY <1>1, <1>7, <4>1, <4>3
    <3>2. h[M][r] = h[N][r]
      <4> HIDE DEF r, N
      <4> QED BY <1>8, <3>1
    <3>3. h[M][s] = f[Some(s)] + h[N][r]
      BY <1>9, <2>4
    <3> QED BY <3>2, <3>3
  <2> HIDE DEF c, T
  <2> QED BY <2>2, <2>3, <2>4
<1>11. Unfolds(c)
  <2>1. c = [s \in SUBSET S |-> c[s]]
    BY <1>10
  <2> HIDE DEF c
  <2> QED BY <1>10, <2>1
<1>12. PICK d : d = SumLoop(f, S) /\ Unfolds(d)
  <2>1. \E d : Unfolds(d)
    <3> HIDE DEF Unfolds
    <3> QED BY <1>11
  <2>2. SumLoop(f, S) = CHOOSE d : Unfolds(d)
    BY DEF SumLoop
  <2> HIDE DEF Unfolds
  <2> QED BY <2>1, <2>2
<1>13. SumFunctionOnSet(f, S) = SumLoop(f, S)[S]
  BY DEF SumFunctionOnSet, FoldFunctionOnSet, MapThenFoldSet, SumLoop, Some
<1>14. \A s \in SUBSET S : d[s] = IF s = {} THEN 0 ELSE f[Some(s)] + d[s \ {Some(s)}]
  BY <1>12, Zenon
<1>15. Counts(d, f, S) /\ Counts(c, f, S)
  <2> HIDE DEF c
  <2> QED BY <1>10, <1>14 DEF Counts
<1>16. ASSUME NEW s \in SUBSET S PROVE d[s] \in Int
  <2>1. IsFiniteSet(s) /\ s \subseteq S /\ \A x \in s : f[x] = f[x]
    BY FS_Subset
  <2> HIDE DEF c
  <2>2. d[s] = c[s]
    BY <1>15, <2>1, CountsAgree
  <2> QED BY <1>10, <2>2
<1>17. d \in [SUBSET S -> Int]
  <2>1. \E e : d = [s \in SUBSET S |-> e[s]]
    <3> DEFINE e == [s \in SUBSET S |-> IF s = {} THEN 0 ELSE f[Some(s)] + d[s \ {Some(s)}]]
    <3>1. d = e /\ e = [s \in SUBSET S |-> e[s]]
      BY <1>12
    <3> HIDE DEF e
    <3> QED BY <3>1
  <2> QED BY <1>16, <2>1
<1> QED BY <1>12, <1>13, <1>15, <1>17

(* The order is of no account.                                             *)
LEMMA AnyFirst ==
    ASSUME NEW S, IsFiniteSet(S), NEW f, \A x \in S : f[x] \in Int, NEW y \in S
    PROVE  SumLoop(f, S)[S] = f[y] + SumLoop(f, S)[S \ {y}]
<1> DEFINE N == Cardinality(S)
           First(s) == \A z \in s : SumLoop(f, S)[s] = f[z] + SumLoop(f, S)[s \ {z}]
           Z == {k \in 0 .. N : \A s \in SUBSET S : Cardinality(s) = k => First(s)}
<1>1. N \in Nat
  BY FS_CardinalityType
<1>2. PICK c : c = SumLoop(f, S)
  OBVIOUS
<1>3. c \in [SUBSET S -> Int] /\ Counts(c, f, S)
  BY <1>2, SumUnfolds
<1>4. 0 \in Z
  <2>1. ASSUME NEW s \in SUBSET S, Cardinality(s) = 0 PROVE First(s)
    BY <2>1, FS_Subset, FS_EmptySet
  <2> QED BY <1>1, <2>1
<1>5. ASSUME NEW k \in 1 .. N, k - 1 \in Z PROVE k \in Z
  <2> SUFFICES ASSUME NEW s \in SUBSET S, Cardinality(s) = k, NEW z \in s PROVE c[s] = f[z] + c[s \ {z}]
    BY <1>1, <1>2
  <2> DEFINE x == Some(s)
             r == s \ {x}
             q == s \ {z}
             both == r \ {z}
  <2>1. IsFiniteSet(s) /\ x \in s
    BY FS_Subset, SomeElement
  <2>2. Cardinality(r) = k - 1 /\ Cardinality(q) = k - 1 /\ r \in SUBSET S /\ q \in SUBSET S
    BY <2>1, OneLess
  <2>3. c[s] = f[x] + c[r]
    BY <1>3, <2>1 DEF Counts
  <2>4. CASE z = x
    BY <2>3, <2>4
  <2>5. CASE z # x
    <3>1. c[r] = f[z] + c[both]
      <4>1. First(r)
        BY <1>5, <2>2
      <4> QED BY <1>2, <2>5, <4>1
    <3>2. c[q] = f[x] + c[both]
      <4>1. First(q) /\ both = q \ {x}
        BY <1>5, <2>2
      <4>2. x \in q
        BY <2>1, <2>5
      <4> HIDE DEF q, both, x, r
      <4> QED BY <1>2, <4>1, <4>2
    <3>3. f[x] \in Int /\ f[z] \in Int /\ c[both] \in Int
      BY <1>3, <2>1
    <3> HIDE DEF x, r, q, both
    <3> QED BY <2>3, <3>1, <3>2, <3>3 DEF q
  <2> QED BY <2>4, <2>5
<1>6. N \in Z
  <2> HIDE DEF Z, N
  <2>1. 0 .. N \subseteq Z
    BY <1>1, <1>4, <1>5, IntervalInduction
  <2> QED BY <1>1, <2>1
<1> QED BY <1>6

LEMMA SumSame ==
    ASSUME NEW S, IsFiniteSet(S), NEW f, NEW g, \A x \in S : f[x] \in Int /\ g[x] = f[x]
    PROVE  SumFunctionOnSet(f, S) = SumFunctionOnSet(g, S) /\ SumFunctionOnSet(f, S) \in Int
<1>1. /\ SumFunctionOnSet(f, S) = SumLoop(f, S)[S] /\ Counts(SumLoop(f, S), f, S)
      /\ SumLoop(f, S) \in [SUBSET S -> Int]
  BY SumUnfolds
<1>2. SumFunctionOnSet(g, S) = SumLoop(g, S)[S] /\ Counts(SumLoop(g, S), g, S)
  BY SumUnfolds
<1>3. SumLoop(f, S)[S] = SumLoop(g, S)[S]
  BY <1>1, <1>2, CountsAgree
<1> QED BY <1>1, <1>2, <1>3

LEMMA SumEmpty ==
    ASSUME NEW f
    PROVE  SumFunctionOnSet(f, {}) = 0
BY SumUnfolds, FS_EmptySet DEF Counts

LEMMA SumAdd ==
    ASSUME NEW S, IsFiniteSet(S), NEW y \in S, NEW f, \A x \in S : f[x] \in Int
    PROVE  /\ SumFunctionOnSet(f, S) = f[y] + SumFunctionOnSet(f, S \ {y})
           /\ SumFunctionOnSet(f, S) \in Int /\ SumFunctionOnSet(f, S \ {y}) \in Int
<1> DEFINE R == S \ {y}
<1>1. IsFiniteSet(R) /\ R \subseteq S /\ \A x \in R : f[x] \in Int /\ f[x] = f[x]
  BY FS_Subset
<1>2. SumFunctionOnSet(f, S) = SumLoop(f, S)[S] /\ Counts(SumLoop(f, S), f, S)
  BY SumUnfolds
<1>3. SumLoop(f, S)[S] = f[y] + SumLoop(f, S)[R]
  BY AnyFirst
<1> HIDE DEF R
<1>4. SumFunctionOnSet(f, R) = SumLoop(f, R)[R] /\ Counts(SumLoop(f, R), f, R)
  BY <1>1, SumUnfolds
<1>5. SumLoop(f, R)[R] = SumLoop(f, S)[R]
  BY <1>1, <1>2, <1>4, CountsAgree
<1>6. SumFunctionOnSet(f, S) \in Int /\ SumFunctionOnSet(f, R) \in Int
  BY <1>1, SumSame
<1> QED BY <1>2, <1>3, <1>4, <1>5, <1>6 DEF R

(* A sum of natural numbers is at least each of them.                       *)
LEMMA SumNatural ==
    ASSUME NEW S, IsFiniteSet(S), NEW f, \A x \in S : f[x] \in Nat
    PROVE  SumFunctionOnSet(f, S) \in Nat /\ \A y \in S : f[y] <= SumFunctionOnSet(f, S)
<1> DEFINE N == Cardinality(S)
           Z == {k \in 0 .. N : \A s \in SUBSET S : Cardinality(s) = k => SumFunctionOnSet(f, s) \in Nat}
<1>1. N \in Nat
  BY FS_CardinalityType
<1>2. 0 \in Z
  <2>1. ASSUME NEW s \in SUBSET S, Cardinality(s) = 0 PROVE SumFunctionOnSet(f, s) = 0
    BY <2>1, FS_Subset, FS_EmptySet, SumEmpty
  <2> QED BY <1>1, <2>1
<1>3. ASSUME NEW k \in 1 .. N, k - 1 \in Z PROVE k \in Z
  <2> SUFFICES ASSUME NEW s \in SUBSET S, Cardinality(s) = k PROVE SumFunctionOnSet(f, s) \in Nat
    BY <1>1
  <2>1. IsFiniteSet(s) /\ s # {}
    BY FS_Subset, FS_EmptySet
  <2>2. PICK z : z \in s
    BY <2>1
  <2>3. Cardinality(s \ {z}) = k - 1 /\ s \ {z} \in SUBSET S
    BY <2>1, <2>2, OneLess
  <2>4. SumFunctionOnSet(f, s \ {z}) \in Nat
    BY <1>3, <2>3
  <2>5. SumFunctionOnSet(f, s) = f[z] + SumFunctionOnSet(f, s \ {z})
    BY <2>1, <2>2, SumAdd
  <2> QED BY <2>2, <2>4, <2>5
<1>4. \A s \in SUBSET S : SumFunctionOnSet(f, s) \in Nat
  <2> SUFFICES ASSUME NEW s \in SUBSET S PROVE SumFunctionOnSet(f, s) \in Nat
    OBVIOUS
  <2>1. Cardinality(s) \in 0 .. N
    BY <1>1, FS_Subset, FS_CardinalityType
  <2>2. 0 .. N \subseteq Z
    <3> HIDE DEF Z, N
    <3> QED BY <1>1, <1>2, <1>3, IntervalInduction
  <2> QED BY <2>1, <2>2
<1>5. ASSUME NEW y \in S PROVE f[y] <= SumFunctionOnSet(f, S)
  <2>1. SumFunctionOnSet(f, S) = f[y] + SumFunctionOnSet(f, S \ {y})
    BY SumAdd
  <2>2. SumFunctionOnSet(f, S \ {y}) \in Nat
    BY <1>4
  <2> QED BY <2>1, <2>2
<1> QED BY <1>4, <1>5

LEMMA SumZero ==
    ASSUME NEW S, IsFiniteSet(S), NEW f, \A x \in S : f[x] = 0
    PROVE  SumFunctionOnSet(f, S) = 0
<1> DEFINE N == Cardinality(S)
           Z == {k \in 0 .. N : \A s \in SUBSET S : Cardinality(s) = k => SumFunctionOnSet(f, s) = 0}
<1>1. N \in Nat
  BY FS_CardinalityType
<1>2. 0 \in Z
  <2>1. ASSUME NEW s \in SUBSET S, Cardinality(s) = 0 PROVE SumFunctionOnSet(f, s) = 0
    BY <2>1, FS_Subset, FS_EmptySet, SumEmpty
  <2> QED BY <1>1, <2>1
<1>3. ASSUME NEW k \in 1 .. N, k - 1 \in Z PROVE k \in Z
  <2> SUFFICES ASSUME NEW s \in SUBSET S, Cardinality(s) = k PROVE SumFunctionOnSet(f, s) = 0
    BY <1>1
  <2>1. IsFiniteSet(s) /\ s # {}
    BY FS_Subset, FS_EmptySet, <1>1
  <2>2. PICK z : z \in s
    BY <2>1
  <2>3. Cardinality(s \ {z}) = k - 1 /\ s \ {z} \in SUBSET S
    BY <2>1, <2>2, OneLess
  <2>4. SumFunctionOnSet(f, s \ {z}) = 0
    BY <1>3, <2>3
  <2>5. SumFunctionOnSet(f, s) = f[z] + SumFunctionOnSet(f, s \ {z})
    BY <2>1, <2>2, SumAdd
  <2> QED BY <2>2, <2>4, <2>5
<1>4. N \in Z
  <2> HIDE DEF Z, N
  <2>1. 0 .. N \subseteq Z
    BY <1>1, <1>2, <1>3, IntervalInduction
  <2> QED BY <1>1, <2>1
<1> QED BY <1>4

-----------------------------------------------------------------------------
(* Arithmetic of words.                                                    *)
(* Division by a positive number, for any modulus: the quotient and the       *)
(* remainder exist, and no others do.                                      *)
LEMMA Division ==
    ASSUME NEW x \in Int, NEW d \in Nat \ {0}
    PROVE  x = d * (x \div d) + (x % d) /\ x % d \in 0 .. d - 1 /\ x \div d \in Int
OBVIOUS

LEMMA DivisionPicked ==
    ASSUME NEW x \in Int, NEW d \in Nat \ {0}
    PROVE  \E q \in Int, r \in 0 .. d - 1 : x = d * q + r /\ r = x % d /\ q = x \div d
<1> DEFINE q == x \div d
           r == x % d
<1>1. x = d * q + r /\ r \in 0 .. d - 1 /\ q \in Int
  BY Division
<1>2. r = x % d /\ q = x \div d
  OBVIOUS
<1> HIDE DEF q, r
<1> QED BY <1>1, <1>2

LEMMA Quotient ==
    ASSUME NEW d \in Nat \ {0}, NEW q \in Int, NEW p \in Int, NEW r \in 0 .. d - 1, NEW s \in 0 .. d - 1,
           d * q + r = d * p + s
    PROVE  q = p /\ r = s
<1>1. CASE q > p
  <2>1. d * (q - p) = s - r /\ s - r < d
    OBVIOUS
  <2>2. d * (q - p) >= d * 1
    BY <1>1
  <2> QED BY <2>1, <2>2
<1>2. CASE p > q
  <2>1. d * (p - q) = r - s /\ r - s < d
    OBVIOUS
  <2>2. d * (p - q) >= d * 1
    BY <1>2
  <2> QED BY <2>1, <2>2
<1>3. CASE p = q
  BY <1>3
<1> QED BY <1>1, <1>2, <1>3

LEMMA Remainder ==
    ASSUME NEW d \in Nat \ {0}, NEW q \in Int, NEW r \in 0 .. d - 1, NEW x \in Int, x = d * q + r
    PROVE  x % d = r /\ x \div d = q
BY Division, Quotient

LEMMA SmallRemainder ==
    ASSUME NEW d \in Nat \ {0}, NEW r \in 0 .. d - 1
    PROVE  r % d = r
<1>1. r = d * 0 + r /\ r \in Int /\ 0 \in Int
  OBVIOUS
<1> QED BY <1>1, Remainder

(* Equal remainders stay equal.                                            *)
LEMMA Shifted ==
    ASSUME NEW d \in Nat \ {0}, NEW x \in Int, NEW y \in Int, NEW z \in Int, x % d = y % d
    PROVE  (x + z) % d = (y + z) % d
<1>1. PICK p \in Int, q \in Int, r \in 0 .. d - 1 : x = d * p + r /\ y = d * q + r
  <2>1. PICK p \in Int, r \in 0 .. d - 1 : x = d * p + r /\ r = x % d /\ p = x \div d
    BY DivisionPicked, Zenon
  <2>2. PICK q \in Int, s \in 0 .. d - 1 : y = d * q + s /\ s = y % d /\ q = y \div d
    BY DivisionPicked, Zenon
  <2>3. s = r
    BY <2>1, <2>2
  <2> QED BY <2>1, <2>2, <2>3, Zenon
<1>2. PICK yz \in Int : yz = y + z
  OBVIOUS
<1>3. PICK t \in Int, s \in 0 .. d - 1 : yz = d * t + s /\ s = yz % d /\ t = yz \div d
  BY DivisionPicked, Zenon
<1>4. PICK k \in Int : x + z = d * k + s
  <2>1. d * (p - q + t) = d * p - d * q + d * t
    OBVIOUS
  <2>2. x + z = d * (p - q + t) + s /\ p - q + t \in Int
    BY <1>1, <1>2, <1>3, <2>1
  <2> QED BY <2>2, Zenon
<1>5. (x + z) % d = s
  <2>1. PICK xz \in Int : xz = x + z
    OBVIOUS
  <2>2. xz = d * k + s
    BY <1>4, <2>1
  <2>3. \A u, v \in Int : \A r1 \in 0 .. d - 1 : u = d * v + r1 => u % d = r1
    BY Remainder
  <2>4. xz \in Int /\ k \in Int /\ s \in 0 .. d - 1
    BY <1>3, <1>4, <2>1
  <2>5. xz % d = s
    BY <2>2, <2>3, <2>4, Zenon
  <2> QED BY <2>1, <2>5
<1>6. yz % d = s
  BY <1>3, Remainder
<1> QED BY <1>2, <1>5, <1>6

(* The test of calloc: a product that divides back has not wrapped.          *)
LEMMA NoOverflow ==
    ASSUME NEW w \in Nat \ {0}, NEW e \in Nat, NEW c \in Nat \ {0}, ((e * c) % w) \div c = e
    PROVE  (e * c) % w = e * c
<1>1. PICK p \in Int : p = e * c /\ p >= 0
  OBVIOUS
<1>2. PICK t \in Int, q \in 0 .. w - 1 : p = w * t + q /\ q = p % w /\ t = p \div w
  BY DivisionPicked, Zenon
<1>3. q <= p
  <2>1. ASSUME t < 0 PROVE FALSE
    <3>1. w * t <= w * (-1)
      BY <2>1
    <3>2. q < w
      BY <1>2, Division
    <3> QED BY <1>1, <1>2, <3>1, <3>2
  <2>2. w * t >= 0
    BY <2>1
  <2> QED BY <1>2, <2>2
<1>4. q \div c = e
  BY <1>1, <1>2
<1>5. PICK r \in Nat : q = c * e + r
  BY <1>4, Division
<1> QED BY <1>1, <1>2, <1>3, <1>5

-----------------------------------------------------------------------------
(* The mappings.                                                           *)
BlockSet == [len : 0 .. MaxMem, at : Int, canary : BOOLEAN, hidden : SUBSET Int,
             freed : BOOLEAN, asked : Int, by : Threads]
Guarded(x) ==
    LET pages == PgCount(x.len + Header) IN
    /\ x.len = x.asked
    /\ x.at = PageSize * pages - x.len
    /\ x.hidden = IF x.freed THEN 0 .. pages ELSE {pages}

Guards ==
    /\ blocks \in Seq(BlockSet)
    /\ \A b \in DOMAIN blocks : Guarded(blocks[b])
    /\ totalMem \in [Threads -> 0 .. SizeWord - 1]

(* Pages enough, and not one more.                                         *)
LEMMA PagesEnough ==
    ASSUME NEW n \in Nat
    PROVE  PgCount(n) \in Nat /\ PageSize * PgCount(n) >= n
<1>1. PageSize \in Nat \ {0}
  BY DislocatorTyped DEF Header
<1>2. PICK m \in Int : m = n + (PageSize - 1)
  BY <1>1
<1>3. PICK q \in Int, r \in 0 .. PageSize - 1 : m = PageSize * q + r /\ r = m % PageSize /\ q = m \div PageSize
  BY <1>1, DivisionPicked, Zenon
<1>4. PgCount(n) = q
  BY <1>2, <1>3 DEF PgCount
<1>5. PageSize * q >= n
  BY <1>1, <1>2, <1>3
<1>6. q >= 0
  <2>1. ASSUME q < 0 PROVE FALSE
    <3>1. PageSize * q <= PageSize * (-1)
      BY <1>1, <1>3, <2>1
    <3> QED BY <1>1, <1>5, <3>1
  <2> QED BY <1>3, <2>1
<1> QED BY <1>3, <1>4, <1>5, <1>6

(* The counter does not wrap when a request is granted.                    *)
LEMMA GrantedFits ==
    ASSUME NEW u \in 0 .. SizeWord - 1, NEW size \in 0 .. SizeWord - 1,
           (u + size) % SizeWord <= MaxMem, ~((u + size) % SizeWord < u)
    PROVE  (u + size) % SizeWord = u + size /\ u + size <= MaxMem /\ size \in 0 .. MaxMem
<1>1. SizeWord \in Nat \ {0} /\ MaxMem \in Nat
  BY DislocatorTyped
<1>2. PICK s \in Int : s = u + size
  BY <1>1
<1>3. PICK q \in Int, r \in 0 .. SizeWord - 1 : s = SizeWord * q + r /\ r = s % SizeWord /\ q = s \div SizeWord
  BY <1>1, DivisionPicked, Zenon
<1>4. r >= u /\ r <= MaxMem
  BY <1>1, <1>2, <1>3
<1>5. ASSUME q < 0 PROVE FALSE
  <2>1. SizeWord * q <= SizeWord * (-1)
    BY <1>1, <1>3, <1>5
  <2> QED BY <1>1, <1>2, <1>3, <2>1
<1>6. ASSUME q > 0 PROVE FALSE
  <2>1. SizeWord * q >= SizeWord * 1
    BY <1>1, <1>3, <1>6
  <2> QED BY <1>1, <1>2, <1>3, <1>4, <2>1
<1>7. q = 0
  BY <1>3, <1>5, <1>6
<1>8. s = r
  <2>1. SizeWord * q = 0
    BY <1>1, <1>7
  <2> QED BY <1>1, <1>3, <2>1
<1> QED BY <1>1, <1>2, <1>3, <1>4, <1>8

LEMMA NewGuarded ==
    ASSUME NEW t \in Threads, NEW size \in 0 .. MaxMem
    PROVE  NewBlock(t, size, size) \in BlockSet /\ Guarded(NewBlock(t, size, size))
<1>1. size + Header \in Nat /\ size \in Int /\ PageSize \in Int
  BY DislocatorTyped DEF Header
<1>2. PICK pages \in Nat : pages = PgCount(size + Header)
  BY <1>1, PagesEnough
<1>3. NewBlock(t, size, size) = [len |-> size, at |-> PageSize * pages - size, canary |-> TRUE, hidden |-> {pages},
                               freed |-> FALSE, asked |-> size, by |-> t]
  BY <1>2 DEF NewBlock, Buffer
<1>4. PageSize * pages - size \in Int
  BY <1>1, <1>2
<1> QED BY <1>1, <1>2, <1>3, <1>4 DEF BlockSet, Guarded

(* A mapping that has been freed cannot be read at its header, and one that   *)
(* can is protected in full by free.                                       *)
LEMMA Offsets ==
    ASSUME NEW x \in BlockSet, Guarded(x)
    PROVE  \E pages \in Nat :
             /\ pages = PgCount(x.len + Header)
             /\ x.at = PageSize * pages - x.len /\ x.at >= Header /\ x.at <= PageSize * pages
             /\ PageOf(x.at - 4) \in 0 .. pages
<1>1. x.len \in Nat /\ PageSize \in Nat \ {0} /\ x.len + Header \in Nat /\ Header = 8 /\ x.at \in Int
  BY DislocatorTyped DEF BlockSet, Header
<1>2. PICK pages \in Nat : pages = PgCount(x.len + Header) /\ PageSize * pages >= x.len + Header
  BY <1>1, PagesEnough
<1>3. PICK area \in Int : area = PageSize * pages
  BY <1>1, <1>2
<1>4. x.at = area - x.len /\ x.at >= Header /\ x.at <= area
  <2>1. x.at = PageSize * pages - x.len
    BY <1>2, Zenon DEF Guarded
  <2>2. x.at = area - x.len /\ area >= x.len + Header
    BY <1>2, <1>3, <2>1
  <2> QED BY <1>1, <2>2
<1>5. PICK a \in Int : a = x.at - 4
  BY <1>1
<1>6. PICK q \in Int, r \in 0 .. PageSize - 1 : a = PageSize * q + r /\ r = a % PageSize /\ q = a \div PageSize
  BY <1>1, <1>5, DivisionPicked, Zenon
<1>7. q >= 0
  <2>1. ASSUME q < 0 PROVE FALSE
    <3>1. PageSize * q <= PageSize * (-1)
      BY <1>1, <1>6, <2>1
    <3> QED BY <1>1, <1>4, <1>5, <1>6, <3>1
  <2> QED BY <1>6, <2>1
<1>8. q <= pages
  <2>1. ASSUME q > pages PROVE FALSE
    <3>1. PageSize * q >= PageSize * pages
      BY <1>1, <1>2, <1>6, <2>1
    <3> QED BY <1>1, <1>3, <1>4, <1>5, <1>6, <3>1
  <2> QED BY <1>2, <1>6, <2>1
<1>9. PageOf(x.at - 4) = q
  BY <1>5, <1>6 DEF PageOf
<1> QED BY <1>2, <1>3, <1>4, <1>6, <1>7, <1>8, <1>9

LEMMA ReadableLive ==
    ASSUME Guards, NEW b \in DOMAIN blocks, Readable(b)
    PROVE  ~blocks[b].freed
<1>1. blocks[b] \in BlockSet /\ Guarded(blocks[b])
  BY DEF Guards
<1>2. PageOf(blocks[b].at - 4) \in 0 .. PgCount(blocks[b].len + Header)
  BY <1>1, Offsets
<1> QED BY <1>1, <1>2 DEF Readable, Guarded

LEMMA ProtectedGuarded ==
    ASSUME Guards, NEW b \in DOMAIN blocks, Readable(b)
    PROVE  /\ Protected(b) \in BlockSet /\ Guarded(Protected(b)) /\ Protected(b).freed
           /\ Protected(b).len = blocks[b].len /\ Protected(b).by = blocks[b].by
<1>1. PICK x \in BlockSet : x = blocks[b] /\ Guarded(x) /\ ~x.freed
  BY ReadableLive DEF Guards
<1>2. PICK pages \in Nat : /\ pages = PgCount(x.len + Header)
                           /\ x.at = PageSize * pages - x.len
  BY <1>1, Offsets
<1>3. x.len \in Nat /\ PageSize \in Nat \ {0} /\ Header = 8
  BY <1>1, DislocatorTyped DEF BlockSet, Header
<1>4. RegionStart(b) = 0
  <2>1. PICK area \in Int : area = PageSize * pages
    BY <1>2, <1>3
  <2>2. RegionStart(b) = x.at - (area - x.len - 8) - 8 /\ x.at = area - x.len
    BY <1>1, <1>2, <1>3, <2>1 DEF RegionStart
  <2> QED BY <1>3, <2>1, <2>2
<1>5. PageOf(RegionStart(b)) = 0
  <2>1. 0 = PageSize * 0 + 0 /\ 0 \in 0 .. PageSize - 1
    BY <1>3
  <2>2. 0 \div PageSize = 0
    BY <1>3, <2>1, Remainder
  <2> QED BY <1>4, <2>2 DEF PageOf
<1>6. PICK hid : hid = {pages} \cup {0 + k : k \in 0 .. pages - 1}
  OBVIOUS
<1>7. hid = 0 .. pages
  BY <1>2, <1>6
<1>8. Protected(b) = [x EXCEPT !.hidden = hid, !.freed = TRUE]
  <2>1. x.hidden = {pages}
    BY <1>1, <1>2 DEF Guarded
  <2>2. x.hidden \cup {PageOf(RegionStart(b)) + k : k \in 0 .. RegionOf(x.len) - 1} = hid
    BY <1>2, <1>5, <1>6, <2>1 DEF RegionOf
  <2>3. Protected(b) = [x EXCEPT !.hidden = x.hidden \cup {PageOf(RegionStart(b)) + k : k \in 0 .. RegionOf(x.len) - 1},
                                 !.freed = TRUE]
    BY <1>1 DEF Protected, BlockSet
  <2> QED BY <2>2, <2>3
<1>9. hid \in SUBSET Int
  BY <1>2, <1>7
<1>10. /\ Protected(b) \in BlockSet /\ Protected(b).freed /\ Protected(b).hidden = hid
       /\ Protected(b).len = x.len /\ Protected(b).by = x.by /\ Protected(b).at = x.at
       /\ Protected(b).asked = x.asked
  BY <1>8, <1>9 DEF BlockSet
<1>11. Guarded(Protected(b))
  BY <1>1, <1>2, <1>7, <1>10 DEF Guarded
<1> QED BY <1>1, <1>10, <1>11

-----------------------------------------------------------------------------
(* The memory in use, of any sequence of mappings.                         *)
LensOf(bs) == [b \in DOMAIN bs |-> bs[b].len]
LiveIn(bs) == {b \in DOMAIN bs : ~bs[b].freed}
HeldIn(bs, t) == {b \in LiveIn(bs) : bs[b].by = t}
Used(bs, S) == SumFunctionOnSet(LensOf(bs), S)

LEMMA LenNatural ==
    ASSUME NEW x \in BlockSet
    PROVE  x.len \in Nat /\ x.by \in Threads
<1>1. MaxMem \in Nat
  BY DislocatorTyped
<1> QED BY <1>1 DEF BlockSet

LEMMA UsedNatural ==
    ASSUME NEW bs \in Seq(BlockSet), NEW S \in SUBSET DOMAIN bs
    PROVE  /\ IsFiniteSet(S) /\ Used(bs, S) \in Nat
           /\ \A b \in S : bs[b].len <= Used(bs, S) /\ LensOf(bs)[b] = bs[b].len /\ bs[b].len \in Nat
<1>1. DOMAIN bs = 1 .. Len(bs) /\ Len(bs) \in Nat
  OBVIOUS
<1>2. IsFiniteSet(S)
  <2>1. IsFiniteSet(1 .. Len(bs))
    BY <1>1, FS_Interval
  <2> QED BY <1>1, <2>1, FS_Subset
<1>3. \A b \in S : LensOf(bs)[b] = bs[b].len /\ bs[b].len \in Nat
  <2>1. \A b \in S : bs[b] \in BlockSet
    OBVIOUS
  <2> QED BY <2>1, LenNatural DEF LensOf
<1>4. PICK f : f = LensOf(bs)
  OBVIOUS
<1>5. SumFunctionOnSet(f, S) \in Nat /\ \A b \in S : f[b] <= SumFunctionOnSet(f, S)
  BY <1>2, <1>3, <1>4, SumNatural
<1> QED BY <1>2, <1>3, <1>4, <1>5 DEF Used

(* A mapping that nobody counts makes no difference.                       *)
LEMMA UsedSame ==
    ASSUME NEW bs \in Seq(BlockSet), NEW cs \in Seq(BlockSet), NEW S \in SUBSET DOMAIN bs, S \subseteq DOMAIN cs,
           \A b \in S : cs[b].len = bs[b].len
    PROVE  Used(cs, S) = Used(bs, S)
<1>1. IsFiniteSet(S) /\ \A b \in S : LensOf(bs)[b] = bs[b].len /\ bs[b].len \in Nat
  BY UsedNatural
<1>2. \A b \in S : LensOf(cs)[b] = cs[b].len
  BY DEF LensOf
<1>3. PICK f, g : f = LensOf(bs) /\ g = LensOf(cs)
  OBVIOUS
<1>4. \A x \in S : f[x] \in Int /\ g[x] = f[x]
  BY <1>1, <1>2, <1>3
<1>5. SumFunctionOnSet(f, S) = SumFunctionOnSet(g, S)
  BY <1>1, <1>4, SumSame
<1> QED BY <1>3, <1>5 DEF Used

LEMMA UsedAdd ==
    ASSUME NEW bs \in Seq(BlockSet), NEW S \in SUBSET DOMAIN bs, NEW b \in S
    PROVE  Used(bs, S) = bs[b].len + Used(bs, S \ {b}) /\ Used(bs, S \ {b}) \in Nat
<1>1. IsFiniteSet(S) /\ \A x \in S : LensOf(bs)[x] = bs[x].len /\ bs[x].len \in Nat
  BY UsedNatural
<1>2. PICK f : f = LensOf(bs)
  OBVIOUS
<1>3. SumFunctionOnSet(f, S) = f[b] + SumFunctionOnSet(f, S \ {b})
  BY <1>1, <1>2, SumAdd
<1>4. Used(bs, S \ {b}) \in Nat
  BY UsedNatural
<1> QED BY <1>1, <1>2, <1>3, <1>4 DEF Used

(* A new mapping.                                                          *)
LEMMA Allocating ==
    ASSUME NEW bs \in Seq(BlockSet), NEW x \in BlockSet, ~x.freed
    PROVE  LET cs == Append(bs, x) IN
           /\ cs \in Seq(BlockSet)
           /\ Used(cs, LiveIn(cs)) = Used(bs, LiveIn(bs)) + x.len
           /\ \A t \in Threads : Used(cs, HeldIn(cs, t)) = Used(bs, HeldIn(bs, t)) + (IF t = x.by THEN x.len ELSE 0)
<1>1. PICK cs, n : cs = Append(bs, x) /\ n = Len(bs) + 1
  OBVIOUS
<1> cs \in Seq(BlockSet) /\ n \in Nat
  BY <1>1
<1>2. DOMAIN bs = 1 .. n - 1 /\ DOMAIN cs = 1 .. n /\ cs[n] = x /\ \A b \in DOMAIN bs : cs[b] = bs[b]
  BY <1>1
<1>3. n \notin DOMAIN bs /\ n \in DOMAIN cs /\ DOMAIN cs = DOMAIN bs \cup {n}
  BY <1>1, <1>2
<1>4. ASSUME NEW S \in SUBSET DOMAIN bs
      PROVE  Used(cs, S) = Used(bs, S) /\ Used(cs, S \cup {n}) = Used(bs, S) + x.len
  <2>1. Used(cs, S) = Used(bs, S)
    <3>1. S \subseteq DOMAIN cs /\ \A b \in S : cs[b].len = bs[b].len
      BY <1>2, <1>3
    <3> QED BY <3>1, UsedSame, Zenon
  <2>2. (S \cup {n}) \ {n} = S /\ S \cup {n} \in SUBSET DOMAIN cs /\ n \in S \cup {n}
    BY <1>3
  <2>3. Used(cs, S \cup {n}) = cs[n].len + Used(cs, (S \cup {n}) \ {n})
    BY <2>2, UsedAdd
  <2>4. Used(bs, S) \in Nat /\ x.len \in Nat
    BY UsedNatural, LenNatural
  <2>5. Used(cs, S \cup {n}) = x.len + Used(bs, S)
    <3>1. Used(cs, (S \cup {n}) \ {n}) = Used(bs, S)
      BY <2>1, <2>2, Zenon
    <3> QED BY <1>2, <2>3, <3>1, Zenon
  <2> QED BY <2>1, <2>4, <2>5
<1>5. LiveIn(cs) = LiveIn(bs) \cup {n} /\ LiveIn(bs) \in SUBSET DOMAIN bs
  BY <1>2, <1>3 DEF LiveIn
<1>6. ASSUME NEW t \in Threads
      PROVE  /\ HeldIn(cs, t) = IF t = x.by THEN HeldIn(bs, t) \cup {n} ELSE HeldIn(bs, t)
             /\ HeldIn(bs, t) \in SUBSET DOMAIN bs
  BY <1>2, <1>3 DEF HeldIn, LiveIn
<1>7. Used(cs, LiveIn(cs)) = Used(bs, LiveIn(bs)) + x.len
  BY <1>4, <1>5
<1>8. ASSUME NEW t \in Threads
      PROVE  Used(cs, HeldIn(cs, t)) = Used(bs, HeldIn(bs, t)) + (IF t = x.by THEN x.len ELSE 0)
  <2>1. CASE t = x.by
    BY <1>4, <1>6, <2>1
  <2>2. CASE t # x.by
    <3>1. Used(bs, HeldIn(bs, t)) \in Nat
      BY <1>6, UsedNatural
    <3>2. Used(cs, HeldIn(cs, t)) = Used(bs, HeldIn(bs, t))
      BY <1>4, <1>6, <2>2
    <3> QED BY <2>2, <3>1, <3>2
  <2> QED BY <2>1, <2>2
<1> QED BY <1>1, <1>7, <1>8

(* A mapping less.                                                         *)
LEMMA Releasing ==
    ASSUME NEW bs \in Seq(BlockSet), NEW b \in LiveIn(bs), NEW y \in BlockSet,
           y.freed, y.len = bs[b].len, y.by = bs[b].by
    PROVE  LET cs == [bs EXCEPT ![b] = y] IN
           /\ cs \in Seq(BlockSet)
           /\ Used(cs, LiveIn(cs)) = Used(bs, LiveIn(bs)) - y.len
           /\ \A t \in Threads : Used(cs, HeldIn(cs, t)) = Used(bs, HeldIn(bs, t)) - (IF t = y.by THEN y.len ELSE 0)
           /\ y.len <= Used(bs, HeldIn(bs, y.by))
<1>1. b \in DOMAIN bs
  BY DEF LiveIn
<1>2. PICK cs : cs = [bs EXCEPT ![b] = y]
  OBVIOUS
<1> cs \in Seq(BlockSet)
  BY <1>1, <1>2
<1>3. DOMAIN cs = DOMAIN bs /\ cs[b] = y /\ \A c \in DOMAIN bs : c # b => cs[c] = bs[c]
  BY <1>1, <1>2
<1>4. ASSUME NEW S \in SUBSET DOMAIN bs
      PROVE  Used(cs, S) = Used(bs, S) /\ Used(bs, S) \in Nat
  <2>1. \A c \in S : cs[c].len = bs[c].len
    BY <1>3
  <2> QED BY <1>3, <2>1, UsedSame, UsedNatural
<1>5. ASSUME NEW S \in SUBSET DOMAIN bs, b \in S
      PROVE  Used(cs, S \ {b}) = Used(bs, S) - y.len
  <2>1. Used(bs, S) = bs[b].len + Used(bs, S \ {b}) /\ Used(bs, S \ {b}) \in Nat
    BY <1>5, UsedAdd
  <2>2. Used(cs, S \ {b}) = Used(bs, S \ {b}) /\ y.len \in Nat
    <3>1. S \ {b} \in SUBSET DOMAIN bs /\ b \notin S \ {b}
      OBVIOUS
    <3>2. \A c \in S \ {b} : cs[c].len = bs[c].len
      BY <1>3
    <3> QED BY <1>3, <3>1, <3>2, UsedSame, LenNatural
  <2> QED BY <2>1, <2>2
<1>6. LiveIn(cs) = LiveIn(bs) \ {b} /\ LiveIn(bs) \in SUBSET DOMAIN bs
  BY <1>3 DEF LiveIn
<1>7. ASSUME NEW t \in Threads
      PROVE  /\ HeldIn(cs, t) = IF t = y.by THEN HeldIn(bs, t) \ {b} ELSE HeldIn(bs, t)
             /\ HeldIn(bs, t) \in SUBSET DOMAIN bs /\ (t = y.by => b \in HeldIn(bs, t))
  BY <1>3 DEF HeldIn, LiveIn
<1>8. Used(cs, LiveIn(cs)) = Used(bs, LiveIn(bs)) - y.len
  BY <1>5, <1>6
<1>9. ASSUME NEW t \in Threads
      PROVE  Used(cs, HeldIn(cs, t)) = Used(bs, HeldIn(bs, t)) - (IF t = y.by THEN y.len ELSE 0)
  <2>1. CASE t = y.by
    BY <1>5, <1>7, <2>1
  <2>2. CASE t # y.by
    BY <1>4, <1>7, <2>2
  <2> QED BY <2>1, <2>2
<1>10. y.len <= Used(bs, HeldIn(bs, y.by))
  <2>1. y.by \in Threads
    BY LenNatural
  <2>2. PICK S \in SUBSET DOMAIN bs : S = HeldIn(bs, y.by) /\ b \in S
    BY <1>7, <2>1
  <2> QED BY <2>2, UsedNatural
<1> QED BY <1>2, <1>8, <1>9, <1>10

(* One counter changes.                                                    *)
LEMMA Counting ==
    ASSUME NEW cnt \in [Threads -> Int], NEW t \in Threads, NEW v \in Int
    PROVE  /\ SumFunctionOnSet(cnt, Threads) \in Int
           /\ SumFunctionOnSet([cnt EXCEPT ![t] = v], Threads) = SumFunctionOnSet(cnt, Threads) - cnt[t] + v
<1> DEFINE R == Threads \ {t}
<1>1. IsFiniteSet(Threads) /\ IsFiniteSet(R)
  BY DislocatorTyped, FS_Subset
<1>2. PICK new \in [Threads -> Int] : new = [cnt EXCEPT ![t] = v]
  OBVIOUS
<1>3. SumFunctionOnSet(cnt, Threads) = cnt[t] + SumFunctionOnSet(cnt, R) /\ SumFunctionOnSet(cnt, R) \in Int
  BY <1>1, SumAdd
<1>4. SumFunctionOnSet(new, Threads) = new[t] + SumFunctionOnSet(new, R)
  BY <1>1, SumAdd
<1>5. SumFunctionOnSet(cnt, R) = SumFunctionOnSet(new, R)
  <2>1. \A x \in R : cnt[x] \in Int /\ new[x] = cnt[x]
    BY <1>2
  <2> QED BY <1>1, <2>1, SumSame
<1>6. new[t] = v /\ cnt[t] \in Int
  BY <1>2
<1> HIDE DEF R
<1> QED BY <1>2, <1>3, <1>4, <1>5, <1>6

-----------------------------------------------------------------------------
(* What the limit rests on: the counters and the memory in use.            *)
Together(bs, cnt) == SumFunctionOnSet(cnt, Threads) % SizeWord = Used(bs, LiveIn(bs)) % SizeWord
Exact(bs, cnt) == \A t \in Threads : cnt[t] = Used(bs, HeldIn(bs, t)) /\ cnt[t] <= MaxMem
Counters == [Threads -> 0 .. SizeWord - 1]

LEMMA CountersIntegers ==
    ASSUME NEW cnt \in Counters
    PROVE  cnt \in [Threads -> Int] /\ \A t \in Threads : cnt[t] \in 0 .. SizeWord - 1
<1>1. cnt = [t \in Threads |-> cnt[t]] /\ \A t \in Threads : cnt[t] \in 0 .. SizeWord - 1
  BY DEF Counters
<1>2. SizeWord \in Int
  BY DislocatorTyped
<1>3. \A t \in Threads : cnt[t] \in Int
  BY <1>1, <1>2
<1> QED BY <1>1, <1>3

LEMMA UsedInteger ==
    ASSUME NEW bs \in Seq(BlockSet)
    PROVE  Used(bs, LiveIn(bs)) \in Nat /\ \A t \in Threads : Used(bs, HeldIn(bs, t)) \in Nat
<1>1. LiveIn(bs) \in SUBSET DOMAIN bs /\ \A t \in Threads : HeldIn(bs, t) \in SUBSET DOMAIN bs
  BY DEF LiveIn, HeldIn
<1> QED BY <1>1, UsedNatural

(* A granted request adds to both.                                         *)
LEMMA GrantKeeps ==
    ASSUME NEW bs \in Seq(BlockSet), NEW cnt \in Counters, NEW x \in BlockSet, ~x.freed,
           cnt[x.by] + x.len <= MaxMem
    PROVE  LET cs == Append(bs, x)
               new == [cnt EXCEPT ![x.by] = cnt[x.by] + x.len]
           IN  /\ new \in Counters
               /\ Together(bs, cnt) => Together(cs, new)
               /\ Exact(bs, cnt) => Exact(cs, new)
<1>1. PICK t \in Threads, size \in Nat : t = x.by /\ size = x.len
  BY LenNatural
<1>2. PICK cs \in Seq(BlockSet) :
        /\ cs = Append(bs, x)
        /\ Used(cs, LiveIn(cs)) = Used(bs, LiveIn(bs)) + size
        /\ \A s \in Threads : Used(cs, HeldIn(cs, s)) = Used(bs, HeldIn(bs, s)) + (IF s = t THEN size ELSE 0)
  BY <1>1, Allocating, Zenon
<1>3. PICK v \in 0 .. MaxMem : v = cnt[t] + size
  BY <1>1, CountersIntegers, DislocatorTyped
<1>4. v \in 0 .. SizeWord - 1 /\ v \in Int
  BY DislocatorTyped
<1>5. PICK new \in Counters : new = [cnt EXCEPT ![t] = v]
  <2>1. [cnt EXCEPT ![t] = v] \in Counters
    BY <1>4 DEF Counters
  <2> QED BY <2>1, Zenon
<1>6. \A s \in Threads : new[s] = IF s = t THEN v ELSE cnt[s]
  BY <1>5 DEF Counters
<1>7. ASSUME Together(bs, cnt) PROVE Together(cs, new)
  <2>1. PICK sum \in Int : sum = SumFunctionOnSet(cnt, Threads)
    BY CountersIntegers, Counting, <1>4
  <2>2. SumFunctionOnSet(new, Threads) = sum - cnt[t] + v
    <3>1. SumFunctionOnSet([cnt EXCEPT ![t] = v], Threads) = SumFunctionOnSet(cnt, Threads) - cnt[t] + v
      BY <1>4, CountersIntegers, Counting, Zenon
    <3> QED BY <1>5, <2>1, <3>1, Zenon
  <2>3. SumFunctionOnSet(new, Threads) = sum + size
    BY <1>3, <2>2, CountersIntegers
  <2>4. PICK use \in Int : use = Used(bs, LiveIn(bs))
    BY UsedInteger
  <2>5. sum % SizeWord = use % SizeWord
    BY <1>7, <2>1, <2>4 DEF Together
  <2>6. (sum + size) % SizeWord = (use + size) % SizeWord
    <3>1. SizeWord \in Nat \ {0} /\ size \in Int
      BY DislocatorTyped
    <3> QED BY <2>5, <3>1, Shifted, Zenon
  <2>7. Used(cs, LiveIn(cs)) = use + size
    BY <1>2, <2>4
  <2> QED BY <2>3, <2>6, <2>7, Zenon DEF Together
<1>8. ASSUME Exact(bs, cnt) PROVE Exact(cs, new)
  <2> SUFFICES ASSUME NEW s \in Threads PROVE new[s] = Used(cs, HeldIn(cs, s)) /\ new[s] <= MaxMem
    BY DEF Exact
  <2>1. cnt[s] = Used(bs, HeldIn(bs, s)) /\ cnt[s] <= MaxMem
    BY <1>8 DEF Exact
  <2>2. CASE s = t
    <3>1. new[s] = cnt[s] + size /\ Used(cs, HeldIn(cs, s)) = Used(bs, HeldIn(bs, s)) + size /\ new[s] = v
      BY <1>2, <1>3, <1>6, <2>2
    <3>2. v <= MaxMem
      BY DislocatorTyped
    <3> QED BY <2>1, <3>1, <3>2
  <2>3. CASE s # t
    <3>1. new[s] = cnt[s] /\ Used(cs, HeldIn(cs, s)) = Used(bs, HeldIn(bs, s)) + 0
      BY <1>2, <1>6, <2>3
    <3>2. Used(bs, HeldIn(bs, s)) \in Nat
      BY UsedInteger
    <3> QED BY <2>1, <3>1, <3>2
  <2> QED BY <2>2, <2>3
<1> QED BY <1>1, <1>2, <1>3, <1>5, <1>7, <1>8

LEMMA WholeWords ==
    ASSUME NEW d \in Nat \ {0}, NEW x \in Int, NEW q \in Int
    PROVE  (x - d * q) % d = x % d
<1>1. PICK p \in Int, r \in 0 .. d - 1 : x = d * p + r /\ r = x % d /\ p = x \div d
  BY DivisionPicked, Zenon
<1>2. PICK y \in Int, k \in Int : y = x - d * q /\ k = p - q
  OBVIOUS
<1>3. y = d * k + r
  <2>1. d * (p - q) = d * p - d * q
    OBVIOUS
  <2>2. PICK dp, dq, dk \in Int : dp = d * p /\ dq = d * q /\ dk = d * (p - q)
    OBVIOUS
  <2>3. dk = dp - dq /\ x = dp + r /\ y = x - dq
    BY <1>1, <1>2, <2>1, <2>2, Zenon
  <2>4. y = dk + r
    BY <2>3
  <2> QED BY <1>2, <2>2, <2>4, Zenon
<1>4. y % d = r
  <2>1. \A u, v \in Int : \A s \in 0 .. d - 1 : u = d * v + s => u % d = s
    BY Remainder
  <2> QED BY <1>1, <1>2, <1>3, <2>1, Zenon
<1> QED BY <1>1, <1>2, <1>4

LEMMA ShiftedWord ==
    ASSUME NEW x \in Int, NEW y \in Int, NEW n \in Nat, x % SizeWord = y % SizeWord
    PROVE  (x - n) % SizeWord = (y - n) % SizeWord
<1>1. PICK z \in Int : z = 0 - n
  OBVIOUS
<1>2. x + z = x - n /\ y + z = y - n
  BY <1>1
<1>3. SizeWord \in Nat \ {0}
  BY DislocatorTyped
<1>4. (x + z) % SizeWord = (y + z) % SizeWord
  BY <1>3, Shifted, Zenon
<1> QED BY <1>2, <1>4

(* A release takes from both; from the counter of another thread, if the      *)
(* mapping was another's.                                                  *)
LEMMA ReleaseKeeps ==
    ASSUME NEW bs \in Seq(BlockSet), NEW cnt \in Counters, NEW t \in Threads, NEW b \in LiveIn(bs),
           NEW y \in BlockSet, y.freed, y.len = bs[b].len, y.by = bs[b].by
    PROVE  LET cs == [bs EXCEPT ![b] = y]
               new == [cnt EXCEPT ![t] = (cnt[t] - y.len) % SizeWord]
           IN  /\ new \in Counters /\ cs \in Seq(BlockSet)
               /\ Together(bs, cnt) => Together(cs, new)
               /\ Exact(bs, cnt) /\ y.by = t => Exact(cs, new)
<1>1. PICK size \in Nat : size = y.len
  BY LenNatural
<1>2. PICK cs \in Seq(BlockSet) :
        /\ cs = [bs EXCEPT ![b] = y]
        /\ Used(cs, LiveIn(cs)) = Used(bs, LiveIn(bs)) - size
        /\ \A s \in Threads : Used(cs, HeldIn(cs, s)) = Used(bs, HeldIn(bs, s)) - (IF s = y.by THEN size ELSE 0)
        /\ size <= Used(bs, HeldIn(bs, y.by))
  <2>1. PICK cs : cs = [bs EXCEPT ![b] = y]
    OBVIOUS
  <2>2. /\ cs \in Seq(BlockSet)
        /\ Used(cs, LiveIn(cs)) = Used(bs, LiveIn(bs)) - y.len
        /\ \A s \in Threads : Used(cs, HeldIn(cs, s)) = Used(bs, HeldIn(bs, s)) - (IF s = y.by THEN y.len ELSE 0)
        /\ y.len <= Used(bs, HeldIn(bs, y.by))
    BY <2>1, Releasing
  <2> QED BY <1>1, <2>1, <2>2, Zenon
<1>3. SizeWord \in Nat \ {0} /\ cnt[t] \in 0 .. SizeWord - 1 /\ cnt[t] \in Int
  BY CountersIntegers, DislocatorTyped
<1>4. PICK less \in Int : less = cnt[t] - size
  BY <1>3
<1>5. PICK q \in Int, v \in 0 .. SizeWord - 1 : less = SizeWord * q + v /\ v = less % SizeWord /\ q = less \div SizeWord
  BY <1>3, DivisionPicked, Zenon
<1>6. v \in Int
  BY <1>3
<1>7. PICK new \in Counters : new = [cnt EXCEPT ![t] = v]
  <2>1. [cnt EXCEPT ![t] = v] \in Counters
    BY DEF Counters
  <2> QED BY <2>1, Zenon
<1>8. \A s \in Threads : new[s] = IF s = t THEN v ELSE cnt[s]
  BY <1>7 DEF Counters
<1>9. ASSUME Together(bs, cnt) PROVE Together(cs, new)
  <2>1. PICK sum \in Int : sum = SumFunctionOnSet(cnt, Threads)
    BY CountersIntegers, Counting, <1>6
  <2>2. SumFunctionOnSet(new, Threads) = sum - cnt[t] + v
    <3>1. SumFunctionOnSet([cnt EXCEPT ![t] = v], Threads) = SumFunctionOnSet(cnt, Threads) - cnt[t] + v
      BY <1>6, CountersIntegers, Counting, Zenon
    <3> QED BY <1>7, <2>1, <3>1, Zenon
  <2>3. PICK x \in Int : x = sum - size
    OBVIOUS
  <2>4. SumFunctionOnSet(new, Threads) = x - SizeWord * q
    <3>1. PICK words \in Int : words = SizeWord * q
      BY <1>3
    <3>2. less = words + v
      BY <1>5, <3>1, Zenon
    <3>3. SumFunctionOnSet(new, Threads) = x - words
      BY <1>3, <1>4, <1>6, <2>2, <2>3, <3>2
    <3> QED BY <3>1, <3>3, Zenon
  <2>5. PICK use \in Int : use = Used(bs, LiveIn(bs))
    BY UsedInteger
  <2>6. sum % SizeWord = use % SizeWord
    BY <1>9, <2>1, <2>5 DEF Together
  <2>7. Used(cs, LiveIn(cs)) = use - size
    BY <1>2, <2>5
  <2>8. (sum - size) % SizeWord = (use - size) % SizeWord
    BY <2>6, ShiftedWord, Zenon
  <2>9. (x - SizeWord * q) % SizeWord = x % SizeWord
    BY <1>3, WholeWords, Zenon
  <2> QED BY <2>3, <2>4, <2>7, <2>8, <2>9, Zenon DEF Together
<1>10. ASSUME Exact(bs, cnt), y.by = t PROVE Exact(cs, new)
  <2>1. cnt[t] = Used(bs, HeldIn(bs, t)) /\ cnt[t] <= MaxMem
    BY <1>10 DEF Exact
  <2>2. v = less
    <3>1. less >= 0 /\ less < SizeWord
      BY <1>2, <1>3, <1>4, <1>10, <2>1
    <3>2. less \in 0 .. SizeWord - 1
      BY <1>3, <3>1
    <3>3. less % SizeWord = less
      BY <1>3, <3>2, SmallRemainder
    <3> QED BY <1>5, <3>3
  <2> SUFFICES ASSUME NEW s \in Threads PROVE new[s] = Used(cs, HeldIn(cs, s)) /\ new[s] <= MaxMem
    BY DEF Exact
  <2>3. cnt[s] = Used(bs, HeldIn(bs, s)) /\ cnt[s] <= MaxMem
    BY <1>10 DEF Exact
  <2>4. CASE s = t
    <3>1. new[s] = cnt[s] - size /\ Used(cs, HeldIn(cs, s)) = Used(bs, HeldIn(bs, s)) - size
      BY <1>2, <1>4, <1>8, <1>10, <2>2, <2>4
    <3>2. MaxMem \in Nat
      BY DislocatorTyped
    <3> QED BY <1>3, <2>1, <2>3, <2>4, <3>1, <3>2
  <2>5. CASE s # t
    <3>1. new[s] = cnt[s] /\ Used(cs, HeldIn(cs, s)) = Used(bs, HeldIn(bs, s)) - 0
      BY <1>2, <1>8, <1>10, <2>5
    <3>2. Used(bs, HeldIn(bs, s)) \in Nat
      BY UsedInteger
    <3> QED BY <2>3, <3>1, <3>2
  <2> QED BY <2>4, <2>5
<1> QED BY <1>1, <1>2, <1>4, <1>5, <1>7, <1>9, <1>10

-----------------------------------------------------------------------------
(* While the program runs: Guards for the mappings, and for the limit the      *)
(* counters together and, until a thread has freed for another, each alone.  *)
Limits ==
    /\ crossed \in BOOLEAN /\ refusedInVain \in BOOLEAN
    /\ Together(blocks, totalMem)
    /\ ~crossed => Exact(blocks, totalMem) /\ ~refusedInVain

DislIInv == Guards /\ Limits

LEMMA UsageHere ==
    /\ Lens = LensOf(blocks) /\ Live = LiveIn(blocks)
    /\ \A t \in Threads : UsageOf(t) = Used(blocks, HeldIn(blocks, t))
<1>1. Lens = LensOf(blocks) /\ Live = LiveIn(blocks)
  BY DEF Lens, LensOf, Live, LiveIn
<1>2. ASSUME NEW t \in Threads PROVE UsageOf(t) = Used(blocks, HeldIn(blocks, t))
  BY <1>1, Zenon DEF UsageOf, Used, HeldIn
<1> QED BY <1>1, <1>2

LEMMA GuardsBorders ==
    ASSUME Guards
    PROVE  BordersGuarded
<1> SUFFICES ASSUME NEW b \in DOMAIN blocks
             PROVE  LET pages == PgCount(blocks[b].len + Header) IN
                    /\ blocks[b].len = blocks[b].asked
                    /\ blocks[b].at >= Header /\ blocks[b].at + blocks[b].len = pages * PageSize
                    /\ blocks[b].hidden = IF blocks[b].freed THEN 0 .. pages ELSE {pages}
  BY DEF BordersGuarded
<1>1. PICK x \in BlockSet : x = blocks[b] /\ Guarded(x)
  BY DEF Guards
<1>2. PICK pages \in Nat : /\ pages = PgCount(x.len + Header)
                           /\ x.at = PageSize * pages - x.len /\ x.at >= Header
  BY <1>1, Offsets
<1>3. x.len \in Nat /\ PageSize \in Nat
  BY LenNatural, DislocatorTyped
<1>4. x.at + x.len = pages * PageSize
  <2>1. PageSize * pages = pages * PageSize /\ PageSize * pages \in Int
    BY <1>3
  <2> QED BY <1>2, <1>3, <2>1
<1>5. x.len = x.asked /\ x.hidden = IF x.freed THEN 0 .. pages ELSE {pages}
  BY <1>1, <1>2, Zenon DEF Guarded
<1> QED BY <1>1, <1>2, <1>4, <1>5, Zenon

LEMMA LimitsKept ==
    ASSUME Guards, Limits
    PROVE  LimitKept
<1>1. SumFunctionOnSet(totalMem, Threads) % SizeWord = SumFunctionOnSet(Lens, Live) % SizeWord
  BY UsageHere, Zenon DEF Limits, Together, Used
<1>2. ASSUME ~crossed PROVE (\A t \in Threads : totalMem[t] = UsageOf(t) /\ UsageOf(t) <= MaxMem) /\ ~refusedInVain
  BY <1>2, UsageHere DEF Limits, Exact
<1> QED BY <1>1, <1>2 DEF LimitKept

(* A request is refused only when it does not fit.                         *)
LEMMA RefusedTruly ==
    ASSUME NEW u \in 0 .. MaxMem, NEW size \in 0 .. SizeWord - 1,
           (u + size) % SizeWord > MaxMem \/ (u + size) % SizeWord < u
    PROVE  u + size > MaxMem
<1>1. SizeWord \in Nat \ {0} /\ MaxMem \in Nat /\ MaxMem < SizeWord
  BY DislocatorTyped
<1> SUFFICES ASSUME ~(u + size > MaxMem) PROVE FALSE
  OBVIOUS
<1>2. PICK s \in Int : s = u + size
  BY <1>1
<1>3. s \in 0 .. SizeWord - 1
  BY <1>1, <1>2
<1>4. s % SizeWord = s
  BY <1>1, <1>3, SmallRemainder
<1> QED BY <1>1, <1>2, <1>4

LEMMA NotExceeding ==
    ASSUME NEW t \in Threads, totalMem[t] \in 0 .. SizeWord - 1, NEW size \in 0 .. SizeWord - 1, ~Exceeds(t, size)
    PROVE  /\ (totalMem[t] + size) % SizeWord = totalMem[t] + size /\ totalMem[t] + size <= MaxMem
           /\ size \in 0 .. MaxMem
<1>1. PICK u \in 0 .. SizeWord - 1 : u = totalMem[t]
  OBVIOUS
<1>2. ~((u + size) % SizeWord > MaxMem) /\ ~((u + size) % SizeWord < u)
  BY <1>1 DEF Exceeds
<1>3. SizeWord \in Nat \ {0} /\ u + size \in Int /\ MaxMem \in Int
  BY DislocatorTyped
<1>4. (u + size) % SizeWord \in Int
  BY <1>3
<1>5. (u + size) % SizeWord <= MaxMem
  BY <1>2, <1>3, <1>4
<1> QED BY <1>1, <1>2, <1>5, GrantedFits

LEMMA NewPicked ==
    ASSUME NEW t \in Threads, NEW size \in 0 .. MaxMem
    PROVE  \E x \in BlockSet : x = NewBlock(t, size, size) /\ Guarded(x) /\ ~x.freed /\ x.len = size /\ x.by = t
<1>1. NewBlock(t, size, size) \in BlockSet /\ Guarded(NewBlock(t, size, size))
  BY NewGuarded
<1>2. ~NewBlock(t, size, size).freed /\ NewBlock(t, size, size).len = size /\ NewBlock(t, size, size).by = t
  BY DEF NewBlock
<1> QED BY <1>1, <1>2, Zenon

LEMMA GrantPicked ==
    ASSUME NEW bs \in Seq(BlockSet), NEW cnt \in Counters, NEW t \in Threads, NEW size, NEW x \in BlockSet,
           ~x.freed, x.len = size, x.by = t, cnt[t] + size <= MaxMem
    PROVE  \E cs \in Seq(BlockSet), new \in Counters :
             /\ cs = Append(bs, x) /\ new = [cnt EXCEPT ![t] = cnt[t] + size]
             /\ Together(bs, cnt) => Together(cs, new)
             /\ Exact(bs, cnt) => Exact(cs, new)
<1>1. cnt[x.by] + x.len <= MaxMem
  OBVIOUS
<1>2. LET fresh == [cnt EXCEPT ![x.by] = cnt[x.by] + x.len] IN
      /\ fresh \in Counters
      /\ Together(bs, cnt) => Together(Append(bs, x), fresh)
      /\ Exact(bs, cnt) => Exact(Append(bs, x), fresh)
  BY <1>1, GrantKeeps, Zenon
<1>3. PICK cs, new : cs = Append(bs, x) /\ new = [cnt EXCEPT ![t] = cnt[t] + size]
  OBVIOUS
<1>4. cs \in Seq(BlockSet)
  BY <1>3
<1>5. new = [cnt EXCEPT ![x.by] = cnt[x.by] + x.len]
  BY <1>3
<1> QED BY <1>2, <1>3, <1>4, <1>5, Zenon

LEMMA Appended ==
    ASSUME NEW bs \in Seq(BlockSet), NEW x \in BlockSet, NEW cs, cs = Append(bs, x)
    PROVE  \A b \in DOMAIN cs : cs[b] = x \/ (b \in DOMAIN bs /\ cs[b] = bs[b])
<1>1. PICK n \in Nat : n = Len(bs)
  OBVIOUS
<1>2. DOMAIN bs = 1 .. n /\ DOMAIN cs = 1 .. n + 1 /\ cs[n + 1] = x /\ \A b \in 1 .. n : cs[b] = bs[b]
  BY <1>1
<1> SUFFICES ASSUME NEW b \in 1 .. n + 1 PROVE cs[b] = x \/ (b \in 1 .. n /\ cs[b] = bs[b])
  BY <1>2, Zenon
<1>3. CASE b = n + 1
  BY <1>2, <1>3
<1>4. CASE b # n + 1
  <2>1. b \in 1 .. n
    BY <1>4
  <2> QED BY <1>2, <2>1
<1> QED BY <1>3, <1>4

LEMMA GrantedKeeps ==
    ASSUME DislIInv, NEW t \in Threads, NEW size \in 0 .. SizeWord - 1, Granted(t, size, size)
    PROVE  DislIInv'
<1>1. PICK bs \in Seq(BlockSet), cnt \in Counters : bs = blocks /\ cnt = totalMem
  BY DEF DislIInv, Guards, Counters
<1>2. cnt[t] \in 0 .. SizeWord - 1 /\ ~Exceeds(t, size)
  BY CountersIntegers DEF Granted
<1>3. /\ (cnt[t] + size) % SizeWord = cnt[t] + size /\ cnt[t] + size <= MaxMem
      /\ size \in 0 .. MaxMem
  BY <1>1, <1>2, NotExceeding
<1>4. PICK x \in BlockSet : x = NewBlock(t, size, size) /\ Guarded(x) /\ ~x.freed /\ x.len = size /\ x.by = t
  BY <1>3, NewPicked
<1>5. PICK cs \in Seq(BlockSet), new \in Counters :
        /\ cs = Append(bs, x) /\ new = [cnt EXCEPT ![t] = cnt[t] + size]
        /\ Together(bs, cnt) => Together(cs, new)
        /\ Exact(bs, cnt) => Exact(cs, new)
  BY <1>3, <1>4, GrantPicked
<1>6. blocks' = cs /\ totalMem' = new
  <2>1. totalMem' = [totalMem EXCEPT ![t] = (totalMem[t] + size) % SizeWord]
    BY DEF Granted
  <2> QED BY <1>1, <1>3, <1>4, <1>5, <2>1 DEF Granted
<1>7. \A b \in DOMAIN cs : Guarded(cs[b])
  <2>1. \A b \in DOMAIN bs : Guarded(bs[b])
    BY <1>1 DEF DislIInv, Guards
  <2>2. \A b \in DOMAIN cs : cs[b] = x \/ (b \in DOMAIN bs /\ cs[b] = bs[b])
    BY <1>5, Appended
  <2> QED BY <1>4, <2>1, <2>2
<1>8. Guards'
  BY <1>5, <1>6, <1>7 DEF Guards, Counters
<1>9. crossed' = crossed /\ refusedInVain' = refusedInVain
  BY DEF Granted
<1>10. Limits'
  BY <1>1, <1>5, <1>6, <1>9 DEF DislIInv, Limits
<1> QED BY <1>8, <1>10 DEF DislIInv

(* Nothing happens to the mappings or the counters.                        *)
LEMMA RestKeeps ==
    ASSUME DislIInv, UNCHANGED <<totalMem, blocks, crossed>>,
           refusedInVain' \in BOOLEAN, ~crossed => ~refusedInVain'
    PROVE  DislIInv'
<1>1. Guards'
  BY DEF DislIInv, Guards
<1>2. Limits'
  BY DEF DislIInv, Limits
<1> QED BY <1>1, <1>2 DEF DislIInv

LEMMA RefusedKeeps ==
    ASSUME DislIInv, NEW t \in Threads, NEW size \in 0 .. SizeWord - 1, Refused(t, size)
    PROVE  DislIInv'
<1>1. UNCHANGED <<totalMem, blocks, crossed>> /\ refusedInVain' = (refusedInVain \/ UsageOf(t) + size <= MaxMem)
  BY DEF Refused
<1>2. ASSUME ~crossed PROVE ~refusedInVain'
  <2>1. ~refusedInVain /\ totalMem[t] = UsageOf(t) /\ totalMem[t] <= MaxMem
    BY <1>2, UsageHere DEF DislIInv, Limits, Exact
  <2>2. PICK u : u = totalMem[t]
    OBVIOUS
  <2>3. u \in 0 .. MaxMem
    BY <2>1, <2>2, DislocatorTyped DEF DislIInv, Guards
  <2>4. (u + size) % SizeWord > MaxMem \/ (u + size) % SizeWord < u
    BY <2>2 DEF Refused, Exceeds
  <2>5. u + size > MaxMem
    BY <2>3, <2>4, RefusedTruly
  <2>6. ~(u + size <= MaxMem)
    BY <2>3, <2>5, DislocatorTyped
  <2> QED BY <1>1, <2>1, <2>2, <2>6
<1>3. refusedInVain' \in BOOLEAN
  BY <1>1 DEF DislIInv, Limits
<1> QED BY <1>1, <1>2, <1>3, RestKeeps

LEMMA NothingGranted ==
    ASSUME DislIInv, NEW t \in Threads, NEW size, OutOfMemory(t, size) \/ Unguarded(t, size)
    PROVE  DislIInv'
BY RestKeeps DEF OutOfMemory, Unguarded, DislIInv, Limits

LEMMA AllocKeeps ==
    ASSUME DislIInv, NEW t \in Threads, NEW size \in 0 .. SizeWord - 1, Alloc(t, size, size)
    PROVE  DislIInv'
BY GrantedKeeps, RefusedKeeps, NothingGranted DEF Alloc

(* The product calloc allocates is the product.                             *)
LEMMA CallocProduct ==
    ASSUME NEW e \in 0 .. SizeWord - 1, NEW c \in 0 .. SizeWord - 1, ~Overflows(e, c)
    PROVE  (e * c) % SizeWord = e * c /\ e * c \in 0 .. SizeWord - 1
<1>1. SizeWord \in Nat \ {0} /\ e \in Nat /\ c \in Nat
  BY DislocatorTyped
<1>2. (e * c) % SizeWord = e * c
  <2>1. CASE c = 0
    <3>1. e * c = 0
      BY <1>1, <2>1
    <3>2. PICK zero \in 0 .. SizeWord - 1 : zero = 0
      BY <1>1
    <3>3. zero % SizeWord = zero
      BY <1>1, SmallRemainder, Zenon
    <3> QED BY <3>1, <3>2, <3>3, Zenon
  <2>2. CASE c # 0
    <3>1. c \in Nat \ {0} /\ c > 0
      BY <1>1, <2>2
    <3>2. ((e * c) % SizeWord) \div c = e
      BY <3>1 DEF Overflows
    <3> QED BY <1>1, <3>1, <3>2, NoOverflow, Zenon
  <2> QED BY <2>1, <2>2
<1>3. PICK p \in Int : p = e * c
  BY <1>1
<1>4. p % SizeWord \in 0 .. SizeWord - 1
  BY <1>1, Division
<1> QED BY <1>2, <1>3, <1>4, Zenon

(* free takes the mapping from the memory in use, whoever calls it.          *)
LEMMA FreeKeeps ==
    ASSUME DislIInv, NEW t \in Threads, NEW b \in DOMAIN blocks, Free(t, b)
    PROVE  DislIInv'
<1>1. PICK bs \in Seq(BlockSet), cnt \in Counters : bs = blocks /\ cnt = totalMem
  BY DEF DislIInv, Guards, Counters
<1>2. Readable(b) /\ Guards
  BY DEF Free, DislIInv
<1>3. PICK y \in BlockSet : y = Protected(b) /\ Guarded(y) /\ y.freed /\ y.len = bs[b].len /\ y.by = bs[b].by
  BY <1>1, <1>2, ProtectedGuarded
<1>4. b \in LiveIn(bs)
  BY <1>1, <1>2, ReadableLive DEF LiveIn
<1>5. PICK cs, new : cs = [bs EXCEPT ![b] = y] /\ new = [cnt EXCEPT ![t] = (cnt[t] - y.len) % SizeWord]
  OBVIOUS
<1>6. blocks' = cs /\ totalMem' = new
  <2>1. blocks' = [blocks EXCEPT ![b] = Protected(b)]
        /\ totalMem' = [totalMem EXCEPT ![t] = (totalMem[t] - blocks[b].len) % SizeWord]
    BY DEF Free
  <2> QED BY <1>1, <1>3, <1>5, <2>1, Zenon
<1>7. /\ new \in Counters /\ cs \in Seq(BlockSet)
      /\ Together(bs, cnt) => Together(cs, new)
      /\ Exact(bs, cnt) /\ y.by = t => Exact(cs, new)
  <2>1. LET now == [bs EXCEPT ![b] = y]
            less == [cnt EXCEPT ![t] = (cnt[t] - y.len) % SizeWord]
        IN  /\ less \in Counters /\ now \in Seq(BlockSet)
            /\ Together(bs, cnt) => Together(now, less)
            /\ Exact(bs, cnt) /\ y.by = t => Exact(now, less)
    BY <1>3, <1>4, ReleaseKeeps, Zenon
  <2> QED BY <1>5, <2>1, Zenon
<1>8. \A c \in DOMAIN cs : Guarded(cs[c])
  <2>1. \A c \in DOMAIN bs : Guarded(bs[c])
    BY <1>1 DEF DislIInv, Guards
  <2>2. \A c \in DOMAIN cs : cs[c] = y \/ (c \in DOMAIN bs /\ cs[c] = bs[c])
    <3>1. DOMAIN cs = DOMAIN bs /\ b \in DOMAIN bs
      BY <1>1, <1>5
    <3> SUFFICES ASSUME NEW c \in DOMAIN bs PROVE cs[c] = y \/ cs[c] = bs[c]
      BY <3>1
    <3>2. CASE c = b
      BY <1>5, <3>1, <3>2
    <3>3. CASE c # b
      BY <1>5, <3>3
    <3> QED BY <3>2, <3>3
  <2> QED BY <1>3, <2>1, <2>2
<1>9. Guards'
  BY <1>6, <1>7, <1>8 DEF Guards, Counters
<1>10. crossed' = (crossed \/ y.by # t) /\ refusedInVain' = refusedInVain
  BY <1>1, <1>3 DEF Free
<1>11. Limits'
  BY <1>1, <1>6, <1>7, <1>10 DEF DislIInv, Limits
<1> QED BY <1>9, <1>11 DEF DislIInv

LEMMA AppendedElsewhere ==
    ASSUME NEW bs \in Seq(BlockSet), NEW b \in DOMAIN bs, NEW x \in BlockSet, NEW y \in BlockSet
    PROVE  Append([bs EXCEPT ![b] = y], x) = [Append(bs, x) EXCEPT ![b] = y]
<1>1. PICK cs, one, both, n : /\ cs = [bs EXCEPT ![b] = y] /\ one = Append(bs, x)
                              /\ both = [one EXCEPT ![b] = y] /\ n = Len(bs)
  OBVIOUS
<1>2. cs \in Seq(BlockSet) /\ one \in Seq(BlockSet) /\ n \in Nat /\ b \in 1 .. n /\ DOMAIN bs = 1 .. n
  BY <1>1
<1>3. Len(cs) = n /\ DOMAIN one = 1 .. n + 1 /\ one[n + 1] = x /\ \A c \in 1 .. n : one[c] = bs[c]
  BY <1>1, <1>2
<1>4. both \in Seq(BlockSet) /\ Len(both) = n + 1 /\ DOMAIN both = 1 .. n + 1
  BY <1>1, <1>2, <1>3
<1>5. PICK other : other = Append(cs, x)
  OBVIOUS
<1>6. /\ other \in Seq(BlockSet) /\ Len(other) = n + 1 /\ DOMAIN other = 1 .. n + 1 /\ other[n + 1] = x
      /\ \A c \in 1 .. n : other[c] = cs[c]
  BY <1>2, <1>3, <1>5
<1>7. \A c \in 1 .. n + 1 : other[c] = both[c]
  <2> SUFFICES ASSUME NEW c \in 1 .. n + 1 PROVE other[c] = both[c]
    OBVIOUS
  <2>1. CASE c = n + 1
    BY <1>1, <1>2, <1>3, <1>6, <2>1
  <2>2. CASE c = b
    BY <1>1, <1>2, <1>3, <1>6, <2>2
  <2>3. CASE c # n + 1 /\ c # b
    <3>1. c \in 1 .. n
      BY <1>2, <2>3
    <3>2. other[c] = bs[c]
      BY <1>1, <1>2, <1>6, <2>3, <3>1
    <3>3. both[c] = bs[c]
      BY <1>1, <1>3, <2>3, <3>1
    <3> QED BY <3>2, <3>3
  <2> QED BY <2>1, <2>2, <2>3
<1>8. other = both
  BY <1>4, <1>6, <1>7
<1> QED BY <1>1, <1>5, <1>8

(* realloc: a new buffer, then free of the old one.                        *)
LEMMA ReallocKeeps ==
    ASSUME DislIInv, NEW t \in Threads, NEW b \in DOMAIN blocks, Realloc(t, b)
    PROVE  DislIInv'
<1>1. PICK bs \in Seq(BlockSet), cnt \in Counters : bs = blocks /\ cnt = totalMem
  BY DEF DislIInv, Guards, Counters
<1>2. Readable(b) /\ Guards
  BY DEF Realloc, DislIInv
<1>3. PICK y \in BlockSet : y = Protected(b) /\ Guarded(y) /\ y.freed /\ y.len = bs[b].len /\ y.by = bs[b].by
  BY <1>1, <1>2, ProtectedGuarded
<1>4. PICK size \in Requests :
        /\ ~Exceeds(t, size)
        /\ blocks' = Append([blocks EXCEPT ![b] = Protected(b)], NewBlock(t, size, size))
        /\ totalMem' = [totalMem EXCEPT ![t] = (((totalMem[t] + size) % SizeWord) - blocks[b].len) % SizeWord]
  BY DEF Realloc
<1>5. size \in 0 .. SizeWord - 1 /\ cnt[t] \in 0 .. SizeWord - 1
  BY CountersIntegers, DislocatorTyped
<1>6. /\ (cnt[t] + size) % SizeWord = cnt[t] + size /\ cnt[t] + size <= MaxMem
      /\ size \in 0 .. MaxMem
  BY <1>1, <1>4, <1>5, NotExceeding
<1>7. PICK x \in BlockSet : x = NewBlock(t, size, size) /\ Guarded(x) /\ ~x.freed /\ x.len = size /\ x.by = t
  BY <1>6, NewPicked
(* After the new buffer.                                                   *)
<1>8. PICK cs \in Seq(BlockSet), new \in Counters :
        /\ cs = Append(bs, x) /\ new = [cnt EXCEPT ![t] = cnt[t] + size]
        /\ Together(bs, cnt) => Together(cs, new)
        /\ Exact(bs, cnt) => Exact(cs, new)
  <2>1. ~x.freed /\ x.len = size /\ x.by = t /\ cnt[t] + size <= MaxMem
    BY <1>6, <1>7
  <2> QED BY <2>1, GrantPicked
<1>9. b \in DOMAIN bs /\ b \in LiveIn(cs) /\ cs[b] = bs[b] /\ ~bs[b].freed
  <2>1. ~bs[b].freed /\ b \in DOMAIN bs
    BY <1>1, <1>2, ReadableLive
  <2>2. b \in DOMAIN cs /\ cs[b] = bs[b]
    BY <1>8, <2>1
  <2> QED BY <2>1, <2>2 DEF LiveIn
(* And after the release.                                                  *)
<1>10. PICK bs2, cnt2 : bs2 = [cs EXCEPT ![b] = y] /\ cnt2 = [new EXCEPT ![t] = (new[t] - y.len) % SizeWord]
  OBVIOUS
<1>11. /\ cnt2 \in Counters /\ bs2 \in Seq(BlockSet)
       /\ Together(cs, new) => Together(bs2, cnt2)
       /\ Exact(cs, new) /\ y.by = t => Exact(bs2, cnt2)
  <2>1. y.len = cs[b].len /\ y.by = cs[b].by
    BY <1>3, <1>9
  <2>2. LET now == [cs EXCEPT ![b] = y]
            less == [new EXCEPT ![t] = (new[t] - y.len) % SizeWord]
        IN  /\ less \in Counters /\ now \in Seq(BlockSet)
            /\ Together(cs, new) => Together(now, less)
            /\ Exact(cs, new) /\ y.by = t => Exact(now, less)
    BY <1>3, <1>9, <2>1, ReleaseKeeps, Zenon
  <2> QED BY <1>10, <2>2, Zenon
<1>12. blocks' = bs2
  <2>1. Append([bs EXCEPT ![b] = y], x) = [Append(bs, x) EXCEPT ![b] = y]
    BY <1>9, AppendedElsewhere
  <2> QED BY <1>1, <1>3, <1>4, <1>7, <1>8, <1>10, <2>1, Zenon
<1>13. totalMem' = cnt2
  <2>1. totalMem' = [cnt EXCEPT ![t] = ((cnt[t] + size) - y.len) % SizeWord]
    BY <1>1, <1>3, <1>4, <1>6, Zenon
  <2>2. PICK v : v = ((cnt[t] + size) - y.len) % SizeWord
    OBVIOUS
  <2>3. new[t] = cnt[t] + size
    BY <1>8 DEF Counters
  <2>4. cnt2 = [new EXCEPT ![t] = v]
    BY <1>10, <2>2, <2>3, Zenon
  <2> QED BY <1>8, <2>1, <2>2, <2>4 DEF Counters
<1>14. \A c \in DOMAIN bs2 : Guarded(bs2[c])
  <2>1. \A c \in DOMAIN bs : Guarded(bs[c])
    BY <1>1 DEF DislIInv, Guards
  <2>2. \A c \in DOMAIN cs : cs[c] = x \/ (c \in DOMAIN bs /\ cs[c] = bs[c])
    BY <1>8, Appended
  <2> SUFFICES ASSUME NEW c \in DOMAIN bs2 PROVE Guarded(bs2[c])
    OBVIOUS
  <2>3. c \in DOMAIN cs /\ (bs2[c] = y \/ bs2[c] = cs[c])
    BY <1>10
  <2> QED BY <1>3, <1>7, <2>1, <2>2, <2>3, Zenon
<1>15. Guards'
  BY <1>11, <1>12, <1>13, <1>14 DEF Guards, Counters
<1>16. crossed' = (crossed \/ y.by # t) /\ refusedInVain' = refusedInVain
  BY <1>1, <1>3 DEF Realloc
<1>17. Limits'
  BY <1>1, <1>8, <1>11, <1>12, <1>13, <1>16 DEF DislIInv, Limits
<1> QED BY <1>15, <1>17 DEF DislIInv

(* Writing below a buffer moves nothing.                                   *)
LEMMA CorruptKeeps ==
    ASSUME DislIInv, NEW b \in DOMAIN blocks, Corrupt(b)
    PROVE  DislIInv'
<1>1. PICK bs \in Seq(BlockSet), x \in BlockSet : bs = blocks /\ x = bs[b] /\ b \in DOMAIN bs
  BY DEF DislIInv, Guards
<1>2. PICK y : y = [x EXCEPT !.canary = FALSE]
  OBVIOUS
<1>3. /\ y \in BlockSet /\ y.len = x.len /\ y.freed = x.freed /\ y.by = x.by
      /\ y.at = x.at /\ y.hidden = x.hidden /\ y.asked = x.asked
  BY <1>2 DEF BlockSet
<1>4. PICK cs : cs = [bs EXCEPT ![b] = y]
  OBVIOUS
<1>5. blocks' = cs
  BY <1>1, <1>2, <1>4 DEF Corrupt
<1>6. cs \in Seq(BlockSet) /\ DOMAIN cs = DOMAIN bs /\ cs[b] = y /\ \A c \in DOMAIN bs : c # b => cs[c] = bs[c]
  BY <1>1, <1>3, <1>4
<1>7. \A c \in DOMAIN bs : cs[c].len = bs[c].len /\ cs[c].freed = bs[c].freed /\ cs[c].by = bs[c].by
  BY <1>1, <1>3, <1>6
<1>8. Guards'
  <2>1. \A c \in DOMAIN bs : Guarded(bs[c])
    BY <1>1 DEF DislIInv, Guards
  <2>2. Guarded(y)
    <3>1. Guarded(x)
      BY <1>1, <2>1
    <3> QED BY <1>3, <3>1 DEF Guarded
  <2>3. \A c \in DOMAIN cs : Guarded(cs[c])
    BY <1>6, <2>1, <2>2
  <2>4. totalMem' = totalMem
    BY DEF Corrupt
  <2> QED BY <1>5, <1>6, <2>3, <2>4 DEF DislIInv, Guards
<1>9. LiveIn(cs) = LiveIn(bs) /\ \A t \in Threads : HeldIn(cs, t) = HeldIn(bs, t)
  <2>1. LiveIn(cs) = LiveIn(bs)
    BY <1>6, <1>7 DEF LiveIn
  <2> QED BY <1>7, <2>1 DEF HeldIn, LiveIn
<1>10. /\ Used(cs, LiveIn(cs)) = Used(bs, LiveIn(bs))
       /\ \A t \in Threads : Used(cs, HeldIn(cs, t)) = Used(bs, HeldIn(bs, t))
  <2>1. ASSUME NEW S \in SUBSET DOMAIN bs PROVE Used(cs, S) = Used(bs, S)
    <3>1. S \subseteq DOMAIN cs /\ \A c \in S : cs[c].len = bs[c].len
      BY <1>6, <1>7
    <3> QED BY <1>6, <3>1, UsedSame
  <2>2. LiveIn(bs) \in SUBSET DOMAIN bs /\ \A t \in Threads : HeldIn(bs, t) \in SUBSET DOMAIN bs
    BY DEF LiveIn, HeldIn
  <2> QED BY <1>9, <2>1, <2>2
<1>11. totalMem' = totalMem /\ crossed' = crossed /\ refusedInVain' = refusedInVain
  BY DEF Corrupt
<1>12. Limits'
  BY <1>1, <1>5, <1>10, <1>11 DEF DislIInv, Limits, Together, Exact
<1> QED BY <1>8, <1>12 DEF DislIInv

LEMMA MallocKeeps ==
    ASSUME DislIInv, NEW t \in Threads, Malloc(t)
    PROVE  DislIInv'
<1>1. PICK size \in Requests : Alloc(t, size, size)
  BY DEF Malloc
<1>2. size \in 0 .. SizeWord - 1
  BY DislocatorTyped
<1> QED BY <1>1, <1>2, AllocKeeps

LEMMA CallocKeeps ==
    ASSUME DislIInv, NEW t \in Threads, Calloc(t)
    PROVE  DislIInv'
<1>1. PICK e \in Requests, c \in Requests :
        \/ Overflows(e, c) /\ UNCHANGED <<totalMem, blocks, crossed, refusedInVain>>
        \/ ~Overflows(e, c) /\ Alloc(t, (e * c) % SizeWord, e * c)
  BY DEF Calloc
<1>2. CASE Overflows(e, c)
  BY <1>1, <1>2, RestKeeps DEF DislIInv, Limits
<1>3. CASE ~Overflows(e, c)
  <2>1. e \in 0 .. SizeWord - 1 /\ c \in 0 .. SizeWord - 1
    BY DislocatorTyped
  <2>2. (e * c) % SizeWord = e * c /\ e * c \in 0 .. SizeWord - 1
    BY <1>3, <2>1, CallocProduct
  <2>3. PICK size \in 0 .. SizeWord - 1 : size = e * c /\ size = (e * c) % SizeWord
    BY <2>2, Zenon
  <2>4. Alloc(t, size, size)
    BY <1>1, <1>3, <2>3, Zenon
  <2> QED BY <2>4, AllocKeeps
<1> QED BY <1>2, <1>3

LEMMA InitLimits ==
    ASSUME DislInit
    PROVE  DislIInv
<1>1. blocks = << >> /\ DOMAIN blocks = {}
  BY DEF DislInit
<1>2. SizeWord \in Nat \ {0} /\ MaxMem \in Nat
  BY DislocatorTyped
<1>3. totalMem \in Counters /\ \A t \in Threads : totalMem[t] = 0
  BY <1>2 DEF DislInit, Counters
<1>4. Guards
  BY <1>1, <1>3 DEF Guards, Counters
<1>5. LiveIn(blocks) = {} /\ \A t \in Threads : HeldIn(blocks, t) = {}
  BY <1>1 DEF LiveIn, HeldIn
<1>6. Used(blocks, {}) = 0
  BY SumEmpty DEF Used
<1>7. SumFunctionOnSet(totalMem, Threads) = 0
  <2>1. PICK cnt : cnt = totalMem
    OBVIOUS
  <2>2. IsFiniteSet(Threads) /\ \A t \in Threads : cnt[t] = 0 /\ cnt[t] \in Nat
    BY <1>3, <2>1, DislocatorTyped
  <2>3. SumFunctionOnSet(cnt, Threads) = 0
    BY <2>2, SumZero
  <2> QED BY <2>1, <2>3
<1>8. Together(blocks, totalMem)
  BY <1>5, <1>6, <1>7 DEF Together
<1>9. Exact(blocks, totalMem)
  BY <1>2, <1>3, <1>5, <1>6 DEF Exact
<1>10. crossed = FALSE /\ refusedInVain = FALSE
  BY DEF DislInit
<1>11. Limits
  BY <1>8, <1>9, <1>10 DEF Limits
<1> QED BY <1>4, <1>11 DEF DislIInv

(* A free whose protection fails leaves the mappings as they are, and the       *)
(* counters in the range of a word.                                          *)
LEMMA LoweredTyped ==
    ASSUME totalMem \in Counters, NEW t \in Threads, NEW n \in Int,
           totalMem' = [totalMem EXCEPT ![t] = n % SizeWord]
    PROVE  totalMem' \in Counters
<1>1. SizeWord \in Nat \ {0}
  BY DislocatorTyped
<1>2. n % SizeWord \in 0 .. SizeWord - 1
  BY <1>1, Division
<1> QED BY <1>2 DEF Counters

LEMMA FreeFailsKeeps ==
    ASSUME DislIInv, NEW t \in Threads, NEW b \in DOMAIN blocks, FreeFails(t, b)
    PROVE  Guards'
<1>1. totalMem \in Counters /\ blocks \in Seq(BlockSet) /\ \A c \in DOMAIN blocks : Guarded(blocks[c])
  BY DEF DislIInv, Guards, Counters
<1>2. totalMem[t] \in Int /\ blocks[b].len \in Int
  BY <1>1, CountersIntegers, LenNatural
<1>3. totalMem' = [totalMem EXCEPT ![t] = (totalMem[t] - blocks[b].len) % SizeWord] /\ blocks' = blocks
  BY DEF FreeFails
<1>4. PICK n \in Int : n = totalMem[t] - blocks[b].len
  BY <1>2
<1>5. totalMem' = [totalMem EXCEPT ![t] = n % SizeWord]
  BY <1>3, <1>4
<1>6. totalMem' \in Counters
  BY <1>1, <1>5, LoweredTyped
<1> QED BY <1>1, <1>3, <1>6 DEF Guards, Counters

LEMMA ReallocFailsKeeps ==
    ASSUME DislIInv, NEW t \in Threads, NEW b \in DOMAIN blocks, ReallocFails(t, b)
    PROVE  Guards'
<1>1. totalMem \in Counters /\ blocks \in Seq(BlockSet) /\ \A c \in DOMAIN blocks : Guarded(blocks[c])
  BY DEF DislIInv, Guards, Counters
<1>2. PICK size \in Requests :
        /\ ~Exceeds(t, size)
        /\ blocks' = Append(blocks, NewBlock(t, size, size))
        /\ totalMem' = [totalMem EXCEPT ![t] = (((totalMem[t] + size) % SizeWord) - blocks[b].len) % SizeWord]
  BY DEF ReallocFails
<1>3. size \in 0 .. SizeWord - 1 /\ totalMem[t] \in 0 .. SizeWord - 1 /\ blocks[b].len \in Int
  BY <1>1, CountersIntegers, LenNatural, DislocatorTyped
<1>4. size \in 0 .. MaxMem /\ (totalMem[t] + size) % SizeWord = totalMem[t] + size
  BY <1>2, <1>3, NotExceeding
<1>5. PICK n \in Int : n = (totalMem[t] + size) - blocks[b].len
  BY <1>3, DislocatorTyped
<1>6. totalMem' \in Counters
  BY <1>1, <1>2, <1>4, <1>5, LoweredTyped
<1>7. PICK x \in BlockSet : x = NewBlock(t, size, size) /\ Guarded(x)
  BY <1>4, NewPicked
<1>8. PICK cs : cs = Append(blocks, x)
  OBVIOUS
<1>9. cs \in Seq(BlockSet) /\ \A c \in DOMAIN cs : cs[c] = x \/ (c \in DOMAIN blocks /\ cs[c] = blocks[c])
  BY <1>1, <1>8, Appended
<1>10. \A c \in DOMAIN cs : Guarded(cs[c])
  BY <1>1, <1>7, <1>9
<1> QED BY <1>2, <1>6, <1>7, <1>8, <1>9, <1>10 DEF Guards, Counters

(* The inductive invariant: the limit is kept until a free fails, which is the  *)
(* end of the program.                                                      *)
DislInv == Guards /\ (program # "unprotected" => Limits)

LEMMA NextKeeps ==
    ASSUME DislInv, [DislNext]_dislVars
    PROVE  DislInv'
<1>1. CASE UNCHANGED dislVars
  <2>1. UNCHANGED <<totalMem, blocks, crossed, refusedInVain, program>>
    BY <1>1 DEF dislVars
  <2> QED BY <2>1 DEF DislInv, Guards, Limits
<1>2. CASE DislNext
  <2>1. program = "runs"
    BY <1>2 DEF DislNext, Malloc, Calloc, Free, FreeFails, Realloc, ReallocFails, UseFreed, FindCorrupted, Corrupt
  <2>2. DislIInv
    BY <2>1 DEF DislInv, DislIInv
  <2>3. ASSUME DislIInv' PROVE DislInv'
    BY <2>3 DEF DislInv, DislIInv
  <2>4. ASSUME Guards', program' = "unprotected" PROVE DislInv'
    BY <2>4 DEF DislInv
  <2>5. ASSUME NEW t \in Threads, Malloc(t) \/ Calloc(t) PROVE DislInv'
    BY <2>2, <2>3, <2>5, MallocKeeps, CallocKeeps
  <2>6. ASSUME NEW t \in Threads, NEW b \in DOMAIN blocks, Free(t, b) \/ Realloc(t, b) PROVE DislInv'
    BY <2>2, <2>3, <2>6, FreeKeeps, ReallocKeeps
  <2>7. ASSUME NEW t \in Threads, NEW b \in DOMAIN blocks, FreeFails(t, b) \/ ReallocFails(t, b) PROVE DislInv'
    <3>1. Guards'
      BY <2>2, <2>7, FreeFailsKeeps, ReallocFailsKeeps
    <3>2. program' = "unprotected"
      BY <2>7 DEF FreeFails, ReallocFails
    <3> QED BY <2>4, <3>1, <3>2
  <2>8. ASSUME NEW b \in DOMAIN blocks, UseFreed(b) \/ FindCorrupted(b) PROVE DislInv'
    <3>1. UNCHANGED <<totalMem, blocks, crossed, refusedInVain>>
      BY <2>8 DEF UseFreed, FindCorrupted
    <3>2. DislIInv'
      BY <2>2, <3>1, RestKeeps DEF DislIInv, Limits
    <3> QED BY <2>3, <3>2
  <2>9. ASSUME NEW b \in DOMAIN blocks, Corrupt(b) PROVE DislInv'
    BY <2>2, <2>3, <2>9, CorruptKeeps
  <2> QED BY <1>2, <2>5, <2>6, <2>7, <2>8, <2>9 DEF DislNext
<1> QED BY <1>1, <1>2

THEOREM DislInvariant == DislSpec => []DislInv
<1>1. DislInit => DislInv
  BY InitLimits DEF DislInv, DislIInv
<1>2. DislInv /\ [DislNext]_dislVars => DislInv'
  BY NextKeeps
<1> QED BY <1>1, <1>2, PTL DEF DislSpec

-----------------------------------------------------------------------------
(* BordersAlwaysGuarded: whatever is asked for and freed, by whichever         *)
(* threads, each buffer of libdislocator has its full size, ends where a page *)
(* without access begins, and is out of reach in whole once it is freed.     *)
THEOREM BordersAlwaysGuarded == DislSpec => []BordersGuarded
<1>1. DislInv => BordersGuarded
  BY GuardsBorders DEF DislInv
<1> QED BY <1>1, DislInvariant, PTL

(* LimitAlwaysKept: the counters of libdislocator add up to the memory in use  *)
(* to the whole word, whoever frees; and while each thread frees its own, its *)
(* counter is exact, stays within max_mem, and refuses nothing that fits; until *)
(* a free that cannot protect its buffer ends the program.                    *)
THEOREM LimitAlwaysKept == DislSpec => []LimitKept
<1>1. DislInv => LimitKept
  BY LimitsKept DEF DislInv, LimitKept
<1> QED BY <1>1, DislInvariant, PTL

=============================================================================
