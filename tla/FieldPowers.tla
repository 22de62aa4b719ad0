---------------------------- MODULE FieldPowers ----------------------------
(***************************************************************************)
(* Powers, inverses, roots of unity and encodings of the field's elements. *)
(* The specification counts an exponent up for a base, multiplying as it   *)
(* goes, and so meets every power of every element by repeated product;    *)
(* the code's square and multiply is compared with it at each of them.     *)
(***************************************************************************)
EXTENDS Field64

CONSTANTS
    WordBits,       \* the rounds of Pow, 64 in the code
    Radix,          \* the values of a byte
    EncodedSize     \* the bytes of an encoded element, 8 in the code

\* The bits of a word, half of them of a half word.
ASSUME WordAssumption ==
    /\ WordBits \in Nat
    /\ TwoTo[WordBits] = W
    /\ TwoTo[WordBits \div 2] = E

ASSUME ByteAssumption == Radix \in Nat \ {0} /\ EncodedSize \in Nat

\* The modulus and the generator are what the code says they are.
ASSUME FieldAssumption == PrimeModulus /\ PrimitiveGenerator(WordBits)

VARIABLES
    base, exp,  \* an element and an exponent
    power,      \* base multiplied by itself exp times
    bytes       \* an encoding on the wire

vars == <<base, exp, power, bytes>>

Init ==
    /\ bytes \in Bytes(Radix, EncodedSize)
    /\ Decodes(bytes, Radix, EncodedSize)
    /\ base = Decode(bytes, Radix, EncodedSize)
    /\ exp = 0
    /\ power = 1

\* One more factor.
Raise ==
    /\ exp < W - 1
    /\ exp' = exp + 1
    /\ power' = (power * base) % Modulus
    /\ UNCHANGED <<base, bytes>>

Next == Raise

Spec == Init /\ [][Next]_vars

\* The roots of unity the code can be asked for.
Roots == [n \in {TwoTo[k] : k \in 0..(WordBits \div 2)} |-> NthRoot(n, WordBits)]

-----------------------------------------------------------------------------
\* Square and multiply computes the power, for every element and exponent.
PowExact == Pow(base, exp, WordBits) = power

\* Inv inverts every element but zero, and maps zero to zero.
InverseExact ==
    exp = 0 =>
        IF base = 0 THEN Inv(base, WordBits) = 0
                    ELSE Mul(base, Inv(base, WordBits)) = 1

\* The n-th root of unity has order exactly n: the domain the proof system
\* evaluates its polynomials on has n distinct points.
RootOrder ==
    \A n \in DOMAIN Roots : base = Roots[n] => (power = 1 <=> exp % n = 0)

\* An element has one encoding: bytes that decode are the bytes the element
\* encodes to, so equal shares are equal byte strings.
OneEncoding == Encode(base, Radix, EncodedSize) = bytes
=============================================================================
