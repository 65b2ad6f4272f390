-------------------------------- MODULE Words -------------------------------
(***************************************************************************)
(* Machine words bit by bit: a word is the set of the positions of its     *)
(* ones, so that the bitwise operators are the operators on sets.          *)
(***************************************************************************)
EXTENDS Integers, Sequences, FiniteSets

CONSTANT XLEN         \* bits of a word: 32 in the code
ASSUME XlenAssumption == XLEN \in 1 .. 32

\* The word of a natural number, and of two half words: literals above 2^31 are
\* out of the range of the checker's integers.
FromNat(n) == {i \in 0 .. XLEN - 1 : i < 31 /\ (n \div 2 ^ i) % 2 = 1}
Hex(hi, lo) == FromNat(lo) \cup {i + 16 : i \in {j \in 0 .. 15 : (hi \div 2 ^ j) % 2 = 1}}

\* bits[hi:lo], moved to position 0; and a field put at lo.
Field(w, hi, lo) == {i - lo : i \in w \cap (lo .. hi)}
At(w, lo)        == {i + lo : i \in w} \cap (0 .. XLEN - 1)
\* What a field of few bits counts.
NatOf(w) == LET sum[i \in 0 .. 30] == (IF i \in w THEN 2 ^ i ELSE 0)
                                       + (IF i = 0 THEN 0 ELSE sum[i - 1])
            IN  sum[30]

Not(w)    == (0 .. XLEN - 1) \ w
Xor(a, b) == (a \ b) \cup (b \ a)

\* Ripple-carry addition.
Carry(a, b, in) ==
  LET c[i \in 0 .. XLEN] ==
        IF i = 0 THEN in
        ELSE LET x == i - 1 \in a
                 y == i - 1 \in b
             IN  (x /\ y) \/ (c[i - 1] /\ (x \/ y))
  IN  {i \in 0 .. XLEN - 1 : c[i]}
PlusC(a, b, in) == Xor(Xor(a, b), Carry(a, b, in))
Plus(a, b)  == PlusC(a, b, FALSE)
Minus(a, b) == PlusC(a, Not(b), TRUE)
Neg(a)      == Minus({}, a)
FromInt(n)  == IF n >= 0 THEN FromNat(n) ELSE Neg(FromNat(-n))

\* The highest bit in which they differ decides.
Less(a, b) == \E i \in b \ a : \A j \in 0 .. XLEN - 1 : j > i => (j \in a <=> j \in b)
\* The sign bit counts the other way.
SignedLess(a, b) == Less(Xor(a, {XLEN - 1}), Xor(b, {XLEN - 1}))

\* The lowest n bits, their sign extended.
SignExtend(w, n) == {i \in 0 .. XLEN - 1 : IF i < n THEN i \in w ELSE n - 1 \in w}

\* Byte lanes: those of strb come from new.
Lanes(strb) == {i \in 0 .. XLEN - 1 : i \div 8 \in strb}
Merge(old, new, strb) == (old \ Lanes(strb)) \cup (new \cap Lanes(strb))
=============================================================================
