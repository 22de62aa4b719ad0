------------------------------ MODULE Field64 ------------------------------
(***************************************************************************)
(* The prime field of Prio3Count as pkg/vdaf/field computes it: canonical  *)
(* representatives in a machine word, sums and products reduced with       *)
(* carries and borrows instead of divisions.                               *)
(*                                                                         *)
(* The code's word has 64 bits: E = 2^32, W = 2^64, p = 2^64 - 2^32 + 1.   *)
(* Nothing in the reductions depends on the 32, so E is a parameter, a     *)
(* half word's number of values; the code is the instance E = 2^32.        *)
(***************************************************************************)
EXTENDS Integers, Sequences

CONSTANT E      \* the values of a half word, 2^32 in the code

ASSUME EAssumption == E \in Nat /\ E > 1

W == E * E                  \* the values of a word
Modulus == W - E + 1
epsilon == E - 1            \* W - Modulus

Word == 0..(W - 1)
Elt == 0..(Modulus - 1)

-----------------------------------------------------------------------------
(* math/bits: add, subtract and multiply words, with carry, borrow and high *)
(* word.  A plain += or -= on a word drops the carry or borrow.             *)

Carry(x, y) == IF x + y >= W THEN 1 ELSE 0
Add64(x, y) == x + y - W * Carry(x, y)

Borrow(x, y) == IF x < y THEN 1 ELSE 0
Sub64(x, y) == x - y + W * Borrow(x, y)

\* The final conditional subtraction of the modulus.
Canonical(x) == IF x >= Modulus THEN x - Modulus ELSE x

New(x) == Canonical(x)

-----------------------------------------------------------------------------
Add(a, b) ==
    LET sum    == Add64(a, b)
        carry  == Carry(a, b)
        sum2   == Add64(sum, carry * epsilon)
        carry2 == Carry(sum, carry * epsilon)
    IN  Canonical(Add64(sum2, carry2 * epsilon))

Sub(a, b) == Sub64(Sub64(a, b), Borrow(a, b) * epsilon)

Neg(a) == Sub(0, a)

\* The carry of the last addition is lost.
Mul_CarryLost(a, b) ==
    LET hi   == (a * b) \div W
        lo   == (a * b) % W
        hiHi == hi \div E
        hiLo == hi % E
        t0   == Sub64(Sub64(lo, hiHi), Borrow(lo, hiHi) * epsilon)
        t1   == hiLo * epsilon
    IN  Canonical(Add64(t0, t1))

Mul(a, b) ==
    LET hi   == (a * b) \div W
        lo   == (a * b) % W
        hiHi == hi \div E
        hiLo == hi % E
        t0   == Sub64(Sub64(lo, hiHi), Borrow(lo, hiHi) * epsilon)
        t1   == hiLo * epsilon
    IN  Canonical(Add64(Add64(t0, t1), Carry(t0, t1) * epsilon))

-----------------------------------------------------------------------------
(* Powers, by square and multiply from the exponent's lowest bit up.        *)

TwoTo[n \in Nat] == IF n = 0 THEN 1 ELSE 2 * TwoTo[n - 1]

\* One round: s.bits is the exponent from the round's bit up.
PowRound(s) ==
    [result |-> IF s.bits % 2 = 1 THEN Mul(s.result, s.base) ELSE s.result,
     base |-> Mul(s.base, s.base), bits |-> s.bits \div 2]

\* The loop ends before the highest bit.
Pow_BitLost(a, e, rounds) ==
    LET state[i \in 0..rounds] ==
            IF i = 0 THEN [result |-> 1, base |-> a, bits |-> e]
            ELSE PowRound(state[i - 1])
    IN  state[rounds - 1].result

\* As many rounds as a word has bits, whatever the exponent.
Pow(a, e, rounds) ==
    LET state[i \in 0..rounds] ==
            IF i = 0 THEN [result |-> 1, base |-> a, bits |-> e]
            ELSE PowRound(state[i - 1])
    IN  state[rounds].result

\* The exponent of the group order.
Inv_GroupOrder(a, rounds) == Pow(a, Modulus - 1, rounds)

Inv(a, rounds) == Pow(a, Modulus - 2, rounds)

GenOrder == E

Generator(rounds) == Pow(7, epsilon, rounds)

\* n, not the cofactor, is taken as the exponent.
NthRoot_Swapped(n, rounds) == Pow(Generator(rounds), n, rounds)

\* The principal n-th root of unity, for n a power of two up to GenOrder.
NthRoot(n, rounds) == Pow(Generator(rounds), GenOrder \div n, rounds)

-----------------------------------------------------------------------------
(* What the constants of the code are chosen for.                           *)

\* The modulus is a prime: no product of elements but zero is zero.
PrimeModulus == \A a, b \in 1..(Modulus - 1) : (a * b) % Modulus # 0

\* The generator's order is no smaller than GenOrder.
PrimitiveGenerator(rounds) ==
    7 \in Elt /\ Pow(Generator(rounds), GenOrder \div 2, rounds) # 1

-----------------------------------------------------------------------------
(* The encoding: size little-endian bytes of radix values each, refused     *)
(* unless canonical.                                                        *)

Bytes(radix, size) == [1..size -> 0..(radix - 1)]

Encode(a, radix, size) ==
    LET rest[i \in 0..size] == IF i = 0 THEN a ELSE rest[i - 1] \div radix
    IN  [i \in 1..size |-> rest[i - 1] % radix]

\* high[i] is the value of the i highest bytes.
LittleEndian(b, radix, size) ==
    LET high[i \in 0..size] ==
            IF i = 0 THEN 0 ELSE high[i - 1] * radix + b[size + 1 - i]
    IN  high[size]

\* A value from the modulus up is reduced instead of refused.
Decodes_Any(b, radix, size) == LittleEndian(b, radix, size) \in Word

Decodes(b, radix, size) == LittleEndian(b, radix, size) < Modulus

Decode(b, radix, size) == Canonical(LittleEndian(b, radix, size))
=============================================================================
