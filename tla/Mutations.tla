------------------------------- MODULE Mutations -------------------------------
(***************************************************************************)
(* The arithmetic of the deterministic stages, and the filters with which   *)
(* fuzz_one leaves out a mutant an earlier stage is believed to have tried. *)
(*                                                                         *)
(* A word is the sequence of its bytes in memory, so that in the machine's   *)
(* own (little-endian) order the first is the least significant, and SWAP16 *)
(* and SWAP32 are Reverse.  Words are of 1, 2 or 4 bytes.                    *)
(***************************************************************************)
EXTENDS Integers, FiniteSets, SequencesExt

CONSTANTS
    ArithMax,           \* ARITH_MAX
    Interesting8, Interesting16, Interesting32      \* as numbers, in their order

ASSUME ArithMaxTyped == ArithMax \in 1 .. 127
ASSUME InterestingTyped == {Interesting8, Interesting16, Interesting32} \subseteq Seq(Int)

(* w + d, d of either sign, in the width of w *)
Plus(w, d) ==
    LET carry[k \in 0 .. Len(w)] == IF k = 0 THEN d ELSE (w[k] + carry[k - 1]) \div 256
    IN  [k \in DOMAIN w |-> (w[k] + carry[k - 1]) % 256]

(* the addition or subtraction is felt beyond the lower half of the word *)
LeavesLowerHalf(w, d) ==
    LET carry[k \in 0 .. Len(w)] == IF k = 0 THEN d ELSE (w[k] + carry[k - 1]) \div 256
    IN  carry[Len(w) \div 2] # 0

Word(v, width) == Plus([k \in 1 .. width |-> 0], v)

Slice(buf, at, n) == SubSeq(buf, at + 1, at + n)
Overlay(buf, at, w) == [k \in DOMAIN buf |-> IF k - at \in DOMAIN w THEN w[k - at] ELSE buf[k]]
DiffersAt(a, b) == {k \in DOMAIN a : a[k] # b[k]}

(* Bit b of byte k is bit 8k + b of the word. *)
Bits(w) == {b \in 0 .. 8 * Len(w) - 1 : ((w[(b \div 8) + 1]) \div (2 ^ (b % 8))) % 2 = 1}
Xor(v, w) == (Bits(v) \ Bits(w)) \cup (Bits(w) \ Bits(v))
FlippedByte(x, mask) == IF (x \div mask) % 2 = 1 THEN x - mask ELSE x + mask

(* FLIP_BIT: bit 0 of the buffer is the most significant of its first byte. *)
Masks == <<128, 64, 32, 16, 8, 4, 2, 1>>        \* 128 >> (bit & 7)
FlipBit(buf, bit) == [buf EXCEPT ![(bit \div 8) + 1] = FlippedByte(@, Masks[(bit % 8) + 1])]
FlipBits(buf, bit, n) ==
    LET flipped[k \in 0 .. n] == IF k = 0 THEN buf ELSE FlipBit(flipped[k - 1], bit + k - 1)
    IN  flipped[n]
FlipBytes(buf, at, n) == Overlay(buf, at, [k \in 1 .. n |-> 255 - buf[at + k]])

-----------------------------------------------------------------------------
(* The filters. *)

(* The bits that differ, moved down to bit 0 *)
Lowest(bits) == CHOOSE b \in bits : \A c \in bits : b <= c
Normal(bits) == {b - Lowest(bits) : b \in bits}

CouldBeBitflip(bits) ==
    \/ bits = {}
    \/ Normal(bits) \in {0 .. 0, 0 .. 1, 0 .. 3}
    \/ Lowest(bits) % 8 = 0 /\ Normal(bits) \in {0 .. 7, 0 .. 15, 0 .. 31}

(* old and new are at most ArithMax apart, in the machine's order *)
\* fault: one more
NearByOneMore(old, new) ==
    \E d \in {(new[1] - old[1]) % 256, -((old[1] - new[1]) % 256)} :
        d \in -(ArithMax + 1) .. ArithMax + 1 /\ Plus(old, d) = new
Near(old, new) ==
    \E d \in {(new[1] - old[1]) % 256, -((old[1] - new[1]) % 256)} :
        d \in -ArithMax .. ArithMax /\ Plus(old, d) = new

(* Exactly one aligned piece of some width differs, and by little in either   *)
(* order of its bytes.                                                      *)
CouldBeArith(old, new) ==
    old = new
    \/ \E n \in {1, 2, 4} : \E at \in 0 .. Len(old) - n :
        LET o == Slice(old, at, n)
            v == Slice(new, at, n)
        IN  /\ at % n = 0
            /\ DiffersAt(old, new) \subseteq at + 1 .. at + n
            /\ Near(o, v) \/ Near(Reverse(o), Reverse(v))

(* checkLe: the little-endian insertions of this width are already done. *)
CouldBeInterest(old, new, checkLe) ==
    LET Inserted(w) == \E at \in 0 .. Len(old) - Len(w) : Overlay(old, at, w) = new
    IN  \/ old = new
        \/ \E j \in DOMAIN Interesting8 : Inserted(Word(Interesting8[j], 1))
        \/ /\ Len(old) = 4 \/ checkLe
           /\ \E j \in DOMAIN Interesting16 :
                LET w == Word(Interesting16[j], 2)
                IN  Inserted(w) \/ (Len(old) = 4 /\ Inserted(Reverse(w)))
        \/ /\ Len(old) = 4 /\ checkLe
           /\ \E j \in DOMAIN Interesting32 : Word(Interesting32[j], 4) = new

=============================================================================
