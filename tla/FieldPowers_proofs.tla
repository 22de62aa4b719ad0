------------------------- MODULE FieldPowers_proofs -------------------------
(***************************************************************************)
(* Powers, inverses, roots of unity and encodings, proved for every width  *)
(* of the word.  The algebra is in FieldRegister_proofs: that square and   *)
(* multiply computes powers, Fermat's little theorem, and the order of the *)
(* generator.  Here the specification's repeated product is tied to it:    *)
(* power is the exp-th power of base in every state.                       *)
(***************************************************************************)
EXTENDS FieldPowers, FieldRegister_proofs

\* The specification's state, in terms of powers and encodings.
PowInv ==
    /\ base \in Elt
    /\ exp \in Word
    /\ power = Powers(base)[exp]
    /\ bytes \in Bytes(Radix, EncodedSize)
    /\ base = LittleEndian(bytes, Radix, EncodedSize)

-----------------------------------------------------------------------------
(* Encodings.                                                               *)

HighBytes(H, b, radix, size) ==
    /\ H[0] = 0
    /\ \A i \in 0..(size - 1) : H[i + 1] = H[i] * radix + b[size - i]
    /\ H[size] = LittleEndian(b, radix, size)

\* The loop of LittleEndian.
LEMMA HighBytesAre ==
    ASSUME NEW radix \in Nat, NEW size \in Nat, NEW b \in Bytes(radix, size)
    PROVE  \E H \in [Nat -> Nat] : HighBytes(H, b, radix, size)
  <1> DEFINE D(g) == [i \in 0..size |-> IF i = 0 THEN 0
                                        ELSE g[i - 1] * radix + b[size + 1 - i]]
             f == CHOOSE g : g = D(g)
             Byte(i) == IF i =< size THEN b[size + 1 - i] ELSE 0
             G == [x \in Nat \X Nat |-> IF x[1] = 0 THEN 0 ELSE x[2] * radix + Byte(x[1])]
  <1>1. LittleEndian(b, radix, size) = f[size]
    BY DEF LittleEndian
  <1>2. ASSUME NEW i \in Nat, i # 0 PROVE Byte(i) \in Nat
    <2>1. CASE i =< size
      <3>1. size + 1 - i \in 1..size
        BY <1>2, <2>1
      <3>2. b[size + 1 - i] \in 0..(radix - 1)
        BY <3>1 DEF Bytes
      <3> QED
        BY <2>1, <3>2
    <2> QED
      BY <2>1
  <1> HIDE DEF Byte
  <1>3. ASSUME NEW i \in Nat, NEW v \in Nat, i # 0 PROVE v * radix + Byte(i) \in Nat
    <2>1. v * radix \in Nat
      OBVIOUS
    <2> QED
      BY <1>2, <1>3, <2>1
  <1>4. G \in [Nat \X Nat -> Nat]
    BY <1>3
  <1>5. \A i, v \in Nat : G[<<i + 1, v>>] = v * radix + Byte(i + 1)
    OBVIOUS
  <1> HIDE DEF G
  <1>6. PICK H \in [Nat -> Nat] : Solves(H, 0, G)
    <2>1. 0 \in Nat
      OBVIOUS
    <2> QED
      BY <1>4, <2>1, Recursion, Zenon
  <1>7. H[0] = 0 /\ \A i \in Nat : H[i + 1] = H[i] * radix + Byte(i + 1)
    BY <1>5, <1>6 DEF Solves
  <1> DEFINE g == [i \in 0..size |-> H[i]]
  <1>8. ASSUME NEW i \in 0..size
        PROVE  g[i] = IF i = 0 THEN 0 ELSE g[i - 1] * radix + b[size + 1 - i]
    <2>1. CASE i # 0
      <3>1. i - 1 \in Nat /\ (i - 1) + 1 = i /\ i - 1 \in 0..size
        BY <2>1
      <3>2. Byte(i) = b[size + 1 - i]
        BY DEF Byte
      <3>3. H[i] = H[i - 1] * radix + Byte(i)
        BY <1>7, <3>1
      <3> QED
        BY <2>1, <3>1, <3>2, <3>3
    <2> QED
      BY <1>7, <2>1
  <1>9. g = D(g)
    BY <1>8
  <1>10. f = D(f)
    BY <1>9
  <1> HIDE DEF f
  <1>11. f[0] = 0 /\ \A i \in 1..size : f[i] = f[i - 1] * radix + b[size + 1 - i]
    <2>1. \A i \in 0..size : f[i] = D(f)[i]
      BY <1>10
    <2>2. \A i \in 0..size : f[i] = IF i = 0 THEN 0 ELSE f[i - 1] * radix + b[size + 1 - i]
      BY <2>1
    <2>3. 0 \in 0..size /\ \A i \in 1..size : i \in 0..size /\ i # 0
      OBVIOUS
    <2> QED
      BY <2>2, <2>3
  <1>12. ASSUME NEW i \in 0..(size - 1) PROVE Byte(i + 1) = b[size - i]
    <2>1. size + 1 - (i + 1) = size - i /\ i + 1 =< size
      OBVIOUS
    <2> QED
      BY <2>1 DEF Byte
  <1> DEFINE T == {i \in Nat : i =< size => f[i] = H[i]}
  <1>13. 0 \in T
    BY <1>7, <1>11
  <1>14. ASSUME NEW i \in Nat, i \in T
         PROVE  i + 1 \in T
    <2> SUFFICES ASSUME i + 1 =< size PROVE f[i + 1] = H[i + 1]
      OBVIOUS
    <2>1. i + 1 \in 1..size /\ (i + 1) - 1 = i /\ f[i] = H[i] /\ i \in 0..(size - 1)
      BY <1>14
    <2>2. size + 1 - (i + 1) = size - i
      BY <2>1
    <2> QED
      BY <1>7, <1>11, <1>12, <2>1, <2>2
  <1> HIDE DEF T
  <1>15. size \in T
    BY <1>13, <1>14, InductionSet
  <1>16. f[size] = H[size]
    BY <1>15 DEF T
  <1>17. \A i \in 0..(size - 1) : H[i + 1] = H[i] * radix + b[size - i]
    BY <1>7, <1>12
  <1> QED
    BY <1>1, <1>7, <1>16, <1>17 DEF HighBytes

Digits(R, a, radix, size) ==
    /\ R[0] = a
    /\ \A i \in Nat : R[i + 1] = R[i] \div radix
    /\ \A i \in 1..size : Encode(a, radix, size)[i] = R[i - 1] % radix

\* The loop of Encode.
LEMMA DigitsAre ==
    ASSUME NEW radix \in Nat \ {0}, NEW size \in Nat, NEW a \in Nat
    PROVE  \E R \in [Nat -> Nat] : Digits(R, a, radix, size)
  <1> DEFINE D(g) == [i \in 0..size |-> IF i = 0 THEN a ELSE g[i - 1] \div radix]
             f == CHOOSE g : g = D(g)
             G == [x \in Nat \X Nat |-> x[2] \div radix]
  <1>1. Encode(a, radix, size) = [i \in 1..size |-> f[i - 1] % radix]
    BY DEF Encode
  <1>2. \A v \in Nat : v \div radix \in Nat
    OBVIOUS
  <1>3. G \in [Nat \X Nat -> Nat] /\ \A i, v \in Nat : G[<<i + 1, v>>] = v \div radix
    BY <1>2
  <1> HIDE DEF G
  <1>4. PICK R \in [Nat -> Nat] : Solves(R, a, G)
    BY <1>3, Recursion, Zenon
  <1>5. R[0] = a /\ \A i \in Nat : R[i + 1] = R[i] \div radix
    BY <1>3, <1>4 DEF Solves
  <1> DEFINE g == [i \in 0..size |-> R[i]]
  <1>6. ASSUME NEW i \in 0..size PROVE g[i] = IF i = 0 THEN a ELSE g[i - 1] \div radix
    <2>1. CASE i # 0
      <3>1. i - 1 \in Nat /\ (i - 1) + 1 = i /\ i - 1 \in 0..size
        BY <2>1
      <3> QED
        BY <1>5, <2>1, <3>1
    <2> QED
      BY <1>5, <2>1
  <1>7. g = D(g)
    BY <1>6
  <1>8. f = D(f)
    BY <1>7
  <1> HIDE DEF f
  <1>9. f[0] = a /\ \A i \in 1..size : f[i] = f[i - 1] \div radix
    <2>1. \A i \in 0..size : f[i] = D(f)[i]
      BY <1>8
    <2>2. \A i \in 0..size : f[i] = IF i = 0 THEN a ELSE f[i - 1] \div radix
      BY <2>1
    <2>3. 0 \in 0..size /\ \A i \in 1..size : i \in 0..size /\ i # 0
      OBVIOUS
    <2> QED
      BY <2>2, <2>3
  <1> DEFINE T == {i \in Nat : i =< size => f[i] = R[i]}
  <1>10. 0 \in T
    BY <1>5, <1>9
  <1>11. ASSUME NEW i \in Nat, i \in T
         PROVE  i + 1 \in T
    <2> SUFFICES ASSUME i + 1 =< size PROVE f[i + 1] = R[i + 1]
      OBVIOUS
    <2>1. i + 1 \in 1..size /\ (i + 1) - 1 = i /\ f[i] = R[i]
      BY <1>11
    <2> QED
      BY <1>5, <1>9, <2>1
  <1> HIDE DEF T
  <1>12. Nat \subseteq T
    BY <1>10, <1>11, InductionSet
  <1>13. ASSUME NEW i \in 1..size PROVE f[i - 1] = R[i - 1]
    <2>1. i - 1 \in Nat /\ i - 1 =< size
      OBVIOUS
    <2> QED
      BY <1>12, <2>1 DEF T
  <1> QED
    BY <1>1, <1>5, <1>13 DEF Digits

\* The digits of a number are the bytes it was put together from.
LEMMA EncodeInverts ==
    ASSUME NEW radix \in Nat \ {0}, NEW size \in Nat, NEW b \in Bytes(radix, size)
    PROVE  /\ LittleEndian(b, radix, size) \in Nat
           /\ Encode(LittleEndian(b, radix, size), radix, size) = b
  <1> DEFINE a == LittleEndian(b, radix, size)
  <1>1. PICK H \in [Nat -> Nat] : HighBytes(H, b, radix, size)
    BY HighBytesAre, Zenon
  <1>2. a \in Nat /\ H[size] = a
    BY <1>1 DEF HighBytes
  <1> HIDE DEF a
  <1>3. PICK R \in [Nat -> Nat] : Digits(R, a, radix, size)
    BY <1>2, DigitsAre, Zenon
  <1>4. ASSUME NEW i \in Nat, i + 1 =< size, R[i] = H[size - i]
        PROVE  R[i] % radix = b[i + 1] /\ R[i] \div radix = H[size - (i + 1)]
    <2> DEFINE j == size - (i + 1)
    <2>1. j \in 0..(size - 1) /\ j + 1 = size - i /\ size - j = i + 1 /\ i + 1 \in 1..size
      BY <1>4
    <2>2. H[j + 1] = H[j] * radix + b[i + 1] /\ H[j] \in Nat
      BY <1>1, <2>1 DEF HighBytes
    <2>3. b[i + 1] \in 0..(radix - 1)
      BY <2>1 DEF Bytes
    <2> DEFINE v == H[j]
               d == b[i + 1]
               n == R[i]
    <2>4. n = radix * v + d /\ v \in Nat /\ n \in Nat /\ d \in 0..(radix - 1)
      BY <1>4, <2>1, <2>2, <2>3
    <2> HIDE DEF v, d, n
    <2>5. n % radix = d
      BY <2>4, ModUnique
    <2>6. n = radix * (n \div radix) + (n % radix) /\ n \div radix \in Int
      BY <2>4, DivMod
    <2> DEFINE q == n \div radix
    <2>7. q \in Int /\ radix * q = radix * v
      BY <2>4, <2>5, <2>6
    <2> HIDE DEF q
    <2>8. radix * (q - v) = 0
      BY <2>4, <2>7
    <2>9. q = v
      BY <2>4, <2>7, <2>8
    <2> QED
      BY <2>5, <2>9 DEF q, v, d, n, j
  <1> DEFINE T == {i \in Nat : i =< size => R[i] = H[size - i]}
  <1>5. 0 \in T
    BY <1>2, <1>3 DEF Digits
  <1>6. ASSUME NEW i \in Nat, i \in T PROVE i + 1 \in T
    <2> SUFFICES ASSUME i + 1 =< size PROVE R[i + 1] = H[size - (i + 1)]
      OBVIOUS
    <2>1. R[i] = H[size - i]
      BY <1>6
    <2> QED
      BY <1>3, <1>4, <2>1 DEF Digits
  <1> HIDE DEF T
  <1>7. Nat \subseteq T
    BY <1>5, <1>6, InductionSet
  <1>8. ASSUME NEW i \in 1..size PROVE Encode(a, radix, size)[i] = b[i]
    <2>1. i - 1 \in Nat /\ (i - 1) + 1 = i /\ i - 1 =< size /\ i =< size
      OBVIOUS
    <2>2. R[i - 1] = H[size - (i - 1)]
      BY <1>7, <2>1 DEF T
    <2>3. R[i - 1] % radix = b[i]
      BY <1>4, <2>1, <2>2
    <2> QED
      BY <1>3, <2>3 DEF Digits
  <1>9. DOMAIN Encode(a, radix, size) = 1..size
    BY DEF Encode
  <1>10. Encode(a, radix, size) = [i \in 1..size |-> Encode(a, radix, size)[i]]
    BY DEF Encode
  <1>11. Encode(a, radix, size) = b
    BY <1>8, <1>9, <1>10 DEF Bytes
  <1> QED
    BY <1>2, <1>11 DEF a

-----------------------------------------------------------------------------
(* The specification.                                                       *)

\* The first state has the zeroth power of the element it decodes.
LEMMA PowInit == Init => PowInv
  <1> SUFFICES ASSUME Init PROVE PowInv
    OBVIOUS
  <1>1. LittleEndian(bytes, Radix, EncodedSize) \in Nat
    BY EncodeInverts, ByteAssumption DEF Init
  <1>2. base = LittleEndian(bytes, Radix, EncodedSize) /\ base \in Elt
    BY <1>1, Sizes DEF Init, Decodes, Decode, Canonical, Elt
  <1>3. exp \in Word
    BY Sizes DEF Init, Word
  <1>4. power = Powers(base)[exp]
    BY <1>2, SmallPowers DEF Init
  <1> QED
    BY <1>2, <1>3, <1>4 DEF Init, PowInv

\* One more factor makes the next power.
LEMMA PowNext == PowInv /\ [Next]_vars => PowInv'
  <1> SUFFICES ASSUME PowInv, [Next]_vars PROVE PowInv'
    OBVIOUS
  <1>1. CASE Raise
    <2>1. exp \in Nat /\ exp' = exp + 1 /\ exp' \in Word /\ base' = base
      BY <1>1, Sizes DEF PowInv, Raise, Word
    <2>2. power \in Elt /\ base \in Elt
      BY <2>1, PowersAre DEF PowInv
    <2>3. power' = Mul(power, base)
      BY <1>1, <2>2, MulExact DEF Raise
    <2>4. power' = Powers(base')[exp']
      BY <2>1, <2>2, <2>3, PowersAre DEF PowInv, IsPowers
    <2> QED
      BY <1>1, <2>1, <2>4 DEF PowInv, Raise
  <1>2. CASE UNCHANGED vars
    BY <1>2 DEF PowInv, vars
  <1> QED
    BY <1>1, <1>2 DEF Next

\* PowInv is an invariant.
LEMMA PowInvariant == Spec => []PowInv
  BY PowInit, PowNext, PTL DEF Spec

\* The rounds of Pow are the bits of a word.
LEMMA Rounds == WordRounds(WordBits)
  BY WordAssumption DEF WordRounds

\* Square and multiply computes the power: for every width of the word, every
\* element and every exponent of a word, Pow is the repeated product.
THEOREM PowIsExact == Spec => []PowExact
  <1>1. PowInv => PowExact
    BY Rounds, PowWord DEF PowInv, PowExact
  <1> QED
    BY <1>1, PowInvariant, PTL

\* Over a prime modulus Inv inverts every element but zero, which it keeps.
THEOREM InverseIsExact == Spec => []InverseExact
  <1>1. PowInv => InverseExact
    <2> SUFFICES ASSUME PowInv
                 PROVE  IF base = 0 THEN Inv(base, WordBits) = 0
                                    ELSE Mul(base, Inv(base, WordBits)) = 1
      BY DEF InverseExact
    <2> QED
      BY Rounds, InvIs, FieldAssumption DEF PowInv, Units
  <1> QED
    BY <1>1, PowInvariant, PTL

\* The roots of unity of the code have exactly the order they are asked for, for
\* every power of two up to the generator's order.
THEOREM RootsHaveOrder == Spec => []RootOrder
  <1>1. PowInv => RootOrder
    <2> SUFFICES ASSUME PowInv, NEW k \in 0..(WordBits \div 2),
                        base = NthRoot(TwoTo[k], WordBits)
                 PROVE  power = 1 <=> exp % TwoTo[k] = 0
      BY DEF RootOrder, Roots
    <2>1. exp \in Nat /\ power = Powers(base)[exp]
      BY Sizes DEF PowInv, Word
    <2> QED
      BY <2>1, Rounds, RootIs, FieldAssumption
  <1> QED
    BY <1>1, PowInvariant, PTL

\* An element has one encoding, for every radix and every number of bytes: bytes
\* that decode are the bytes the element encodes to.
THEOREM EncodingIsUnique == Spec => []OneEncoding
  <1>1. PowInv => OneEncoding
    BY EncodeInverts, ByteAssumption DEF PowInv, OneEncoding
  <1> QED
    BY <1>1, PowInvariant, PTL
=============================================================================
