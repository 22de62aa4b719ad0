---------------------------- MODULE Wire_proofs -----------------------------
(***************************************************************************)
(* The messages of module Wire, for every size of bytes, identifiers and   *)
(* seeds that the assumptions admit, every modulus and every set of values *)
(* sent: a message is read back as it was written, it has one encoding,    *)
(* and one that is cut is refused or is a shorter request.                 *)
(*                                                                         *)
(* The argument follows the construction of the messages.  Fits(o, i, T)   *)
(* says what a reader i and a writer o owe each other: what o writes i     *)
(* reads back when one of T follows it, or refuses when i would not write  *)
(* it; what i reads at all is what o writes.  Every kind of field has it,  *)
(* and every way of putting fields together keeps it: with any bytes       *)
(* behind (Delimited) where the length is written or known, and with none  *)
(* behind for what runs to the end of the message.  So it holds of all     *)
(* messages (FormatsFit).  For vectors this is an induction over the loop  *)
(* of the reader, which retraces the loop of the writer (ReadsAlong), and  *)
(* gets nothing but what a writer could have put out (ReadsOffOnly).       *)
(*                                                                         *)
(* WireInv carries that over to the message under way: its bytes are its   *)
(* sender's until one of them is changed, and what was read was read off   *)
(* the first of them.                                                      *)
(***************************************************************************)
EXTENDS Wire, SequenceTheorems, NaturalsInduction, WellFoundedInduction, TLAPS

-----------------------------------------------------------------------------
(* Division, and induction and recursion over the numbers, with sets and    *)
(* functions in place of the library's properties and operators.            *)

\* Division with remainder.
LEMMA DivMod ==
    ASSUME NEW n \in Int, NEW d \in Nat, d > 0
    PROVE  /\ n \div d \in Int
           /\ n % d \in 0..(d - 1)
           /\ n = d * (n \div d) + (n % d)
  OBVIOUS

\* A number in range that differs from n by a multiple of d is n's remainder.
LEMMA ModUnique ==
    ASSUME NEW n \in Int, NEW d \in Nat, d > 0,
           NEW k \in Int, NEW r \in 0..(d - 1), n = d * k + r
    PROVE  n % d = r
<1> DEFINE q == n \div d
           m == n % d
<1>1. q \in Int /\ m \in 0..(d - 1) /\ n = d * q + m
  BY DivMod
<1> HIDE DEF q, m
<1>2. d * (q - k) = r - m
  BY <1>1
<1>3. q - k = 0
  <2>1. ASSUME q - k >= 1 PROVE FALSE
    <3>1. d * (q - k) >= d
      BY <1>1, <2>1
    <3> QED BY <1>1, <1>2, <3>1
  <2>2. ASSUME q - k =< -1 PROVE FALSE
    <3>1. d * (q - k) =< -d
      BY <1>1, <2>2
    <3> QED BY <1>1, <1>2, <3>1
  <2> QED BY <1>1, <2>1, <2>2
<1>4. m = r
  BY <1>1, <1>2, <1>3
<1> QED BY <1>4 DEF m

-----------------------------------------------------------------------------
\* Every set of numbers but the empty one has a least element.
LEMMA LeastNumber ==
    ASSUME NEW S \in SUBSET Nat, S # {}
    PROVE  \E m \in S : \A k \in S : m =< k
  <1> DEFINE R == OpToRel(<, Nat)
  <1>1. IsWellFoundedOn(R, Nat)
    BY NatLessThanWellFounded, Zenon
  <1>2. \A x, y \in Nat : x < y => <<x, y>> \in R
    BY Zenon DEF OpToRel
  <1> HIDE DEF R
  <1>3. PICK m \in S : \A k \in S : ~(<<k, m>> \in R)
    BY <1>1, WFMin
  <1>4. ASSUME NEW k \in S PROVE m =< k
    <2>1. ~(k < m)
      BY <1>2, <1>3
    <2> QED
      BY <2>1
  <1> QED
    BY <1>4

\* Induction, for a set of numbers instead of a property.
LEMMA InductionSet ==
    ASSUME NEW S, 0 \in S, \A n \in Nat : n \in S => n + 1 \in S
    PROVE  Nat \subseteq S
  <1> SUFFICES ASSUME NEW x \in Nat \ S PROVE FALSE
    OBVIOUS
  <1>1. PICK m \in Nat \ S : \A k \in Nat \ S : m =< k
    BY LeastNumber
  <1>2. m # 0
    OBVIOUS
  <1>3. m - 1 \in Nat /\ m - 1 \in S
    BY <1>1, <1>2
  <1>4. (m - 1) + 1 \in S
    BY <1>3
  <1> QED
    BY <1>1, <1>4

\* f starts with c and goes on with G up to n.
Recurs(f, n, c, G) == f[0] = c /\ \A i \in 1..n : f[i] = G[<<i, f[i - 1]>>]

\* A recursion has a solution up to every n.
LEMMA FiniteRecursion ==
    ASSUME NEW S, NEW c \in S, NEW G \in [Nat \X S -> S], NEW n \in Nat
    PROVE  \E f \in [0..n -> S] : Recurs(f, n, c, G)
  <1> DEFINE T == {m \in Nat : \E f \in [0..m -> S] : Recurs(f, m, c, G)}
  <1>1. 0 \in T
    <2> DEFINE f == [i \in 0..0 |-> c]
    <2>1. f \in [0..0 -> S] /\ Recurs(f, 0, c, G)
      BY DEF Recurs
    <2> QED
      BY <2>1
  <1>2. ASSUME NEW m \in Nat, m \in T
        PROVE  m + 1 \in T
    <2>1. PICK f \in [0..m -> S] : Recurs(f, m, c, G)
      BY <1>2
    <2> DEFINE g == [i \in 0..m + 1 |-> IF i = m + 1 THEN G[<<m + 1, f[m]>>] ELSE f[i]]
    <2>2. f[m] \in S /\ G[<<m + 1, f[m]>>] \in S
      OBVIOUS
    <2>3. g \in [0..m + 1 -> S]
      BY <2>2
    <2>4. g[0] = c
      BY <2>1 DEF Recurs
    <2>5. ASSUME NEW i \in 1..m + 1 PROVE g[i] = G[<<i, g[i - 1]>>]
      <3>1. CASE i = m + 1
        <4>1. i - 1 = m /\ m \in 0..m + 1 /\ m # m + 1
          BY <3>1
        <4>2. g[m] = f[m]
          BY <4>1
        <4> QED
          BY <3>1, <4>1, <4>2
      <3>2. CASE i # m + 1
        <4>1. i \in 1..m /\ i - 1 \in 0..m
          BY <3>2
        <4>2. g[i] = f[i] /\ g[i - 1] = f[i - 1]
          BY <4>1
        <4> QED
          BY <2>1, <4>1, <4>2 DEF Recurs
      <3> QED
        BY <3>1, <3>2
    <2> HIDE DEF g
    <2> QED
      BY <2>3, <2>4, <2>5 DEF Recurs
  <1> HIDE DEF T
  <1>3. n \in T
    BY <1>1, <1>2, InductionSet
  <1> QED
    BY <1>3 DEF T

\* Two solutions agree as far as both go.
LEMMA RecursionUnique ==
    ASSUME NEW c, NEW G, NEW m \in Nat, NEW n \in Nat, NEW f, NEW g,
           Recurs(f, m, c, G), Recurs(g, n, c, G)
    PROVE  \A i \in 0..m : i =< n => f[i] = g[i]
  <1> DEFINE T == {i \in Nat : i =< m /\ i =< n => f[i] = g[i]}
  <1>1. 0 \in T
    BY DEF Recurs
  <1>2. ASSUME NEW i \in Nat, i \in T
        PROVE  i + 1 \in T
    <2> SUFFICES ASSUME i + 1 =< m, i + 1 =< n PROVE f[i + 1] = g[i + 1]
      OBVIOUS
    <2>1. f[i] = g[i] /\ (i + 1) - 1 = i /\ i + 1 \in 1..m /\ i + 1 \in 1..n
      BY <1>2
    <2> QED
      BY <2>1 DEF Recurs
  <1> HIDE DEF T
  <1>3. Nat \subseteq T
    BY <1>1, <1>2, InductionSet
  <1> QED
    BY <1>3 DEF T

Solves(f, c, G) == f[0] = c /\ \A n \in Nat : f[n + 1] = G[<<n + 1, f[n]>>]

\* A recursion has a solution on all numbers.
LEMMA Recursion ==
    ASSUME NEW S, NEW c \in S, NEW G \in [Nat \X S -> S]
    PROVE  \E f \in [Nat -> S] : Solves(f, c, G)
  <1> DEFINE h(n) == CHOOSE f \in [0..n -> S] : Recurs(f, n, c, G)
             F == [n \in Nat |-> h(n)[n]]
  <1>1. ASSUME NEW n \in Nat PROVE h(n) \in [0..n -> S] /\ Recurs(h(n), n, c, G)
    BY FiniteRecursion
  <1> HIDE DEF h
  <1>2. F \in [Nat -> S]
    BY <1>1
  <1>3. F[0] = c
    BY <1>1 DEF Recurs
  <1>4. ASSUME NEW n \in Nat PROVE F[n + 1] = G[<<n + 1, F[n]>>]
    <2>1. h(n + 1)[n] = h(n)[n]
      <3>1. Recurs(h(n), n, c, G) /\ Recurs(h(n + 1), n + 1, c, G)
        BY <1>1
      <3> HIDE <1>1
      <3>2. n + 1 \in Nat /\ n \in 0..n /\ n =< n + 1
        OBVIOUS
      <3> QED
        BY <3>1, <3>2, RecursionUnique
    <2>2. h(n + 1)[n + 1] = G[<<n + 1, h(n + 1)[(n + 1) - 1]>>] /\ (n + 1) - 1 = n
      BY <1>1 DEF Recurs
    <2> QED
      BY <2>1, <2>2
  <1> HIDE DEF F
  <1> QED
    BY <1>2, <1>3, <1>4 DEF Solves

-----------------------------------------------------------------------------
(* Bytes.                                                                   *)

\* A concatenation is taken apart where it was put together.
LEMMA ReadFront ==
    ASSUME NEW b \in Bytes, NEW s \in Bytes
    PROVE  ReadBytes(b \o s, Len(b)) = {<<b, s>>}
  <1>1. /\ b \o s \in Bytes /\ Len(b) \in Nat /\ Len(s) \in Nat
        /\ Len(b \o s) = Len(b) + Len(s)
        /\ \A i \in 1..Len(b) + Len(s) :
              (b \o s)[i] = IF i =< Len(b) THEN b[i] ELSE s[i - Len(b)]
    BY ConcatProperties, LenProperties DEF Bytes
  <1>2. \A i \in 1..Len(b \o s) : (b \o s)[i] \in Byte
    BY <1>1, ElementOfSeq DEF Bytes
  <1>3. SubSeq(b \o s, 1, Len(b)) = b
    <2> DEFINE t == SubSeq(b \o s, 1, Len(b))
    <2>1. /\ t \in Bytes
          /\ Len(t) = IF 1 <= Len(b) THEN Len(b) - 1 + 1 ELSE 0
          /\ \A i \in 1..Len(b) - 1 + 1 : t[i] = (b \o s)[1 + i - 1]
      <3>1. \A i \in 1..Len(b) : (b \o s)[i] \in Byte
        BY <1>1, <1>2
      <3> QED
        BY <1>1, <3>1, SubSeqProperties, 1 \in Int, Len(b) \in Int DEF Bytes
    <2>2. Len(t) = Len(b) /\ \A i \in 1..Len(t) : t[i] = b[i]
      BY <1>1, <2>1
    <2> QED
      BY <2>1, <2>2, SeqEqual DEF Bytes
  <1>4. SubSeq(b \o s, Len(b) + 1, Len(b \o s)) = s
    <2> DEFINE m == Len(b) + 1
               n == Len(b) + Len(s)
               t == SubSeq(b \o s, m, n)
    <2>1. m \in Int /\ n \in Int
      BY <1>1
    <2>2. \A i \in m..n : (b \o s)[i] \in Byte
      BY <1>1, <1>2
    <2>3. /\ t \in Bytes
          /\ Len(t) = IF m <= n THEN n - m + 1 ELSE 0
          /\ \A i \in 1..n - m + 1 : t[i] = (b \o s)[m + i - 1]
      BY <2>1, <2>2, SubSeqProperties DEF Bytes
    <2>4. Len(t) = Len(s)
      BY <1>1, <2>3
    <2>5. ASSUME NEW i \in 1..Len(t) PROVE t[i] = s[i]
      <3>1. /\ i \in 1..n - m + 1 /\ m + i - 1 = Len(b) + i /\ Len(b) + i - Len(b) = i
            /\ Len(b) + i \in 1..Len(b) + Len(s) /\ ~(Len(b) + i =< Len(b))
        BY <1>1, <2>4
      <3>2. t[i] = (b \o s)[Len(b) + i]
        BY <2>3, <3>1
      <3> QED
        BY <1>1, <3>1, <3>2
    <2>6. t = s
      BY <2>3, <2>4, <2>5, SeqEqual DEF Bytes
    <2> QED
      BY <1>1, <2>6
  <1>5. Len(b \o s) >= Len(b)
    BY <1>1
  <1> QED
    BY <1>3, <1>4, <1>5, Zenon DEF ReadBytes

\* What is read is what was there.
LEMMA ReadIsSplit ==
    ASSUME NEW s \in Bytes, NEW k \in Nat, NEW p \in ReadBytes(s, k)
    PROVE  \E b \in Bytes : \E r \in Bytes : p = <<b, r>> /\ Len(b) = k /\ s = b \o r
  <1> DEFINE b == SubSeq(s, 1, k)
             r == SubSeq(s, k + 1, Len(s))
  <1>1. k =< Len(s) /\ p = <<b, r>>
    BY DEF ReadBytes
  <1>2. Len(s) \in Nat /\ \A i \in 1..Len(s) : s[i] \in Byte
    BY LenProperties, ElementOfSeq DEF Bytes
  <1>3. b \in Bytes /\ Len(b) = k
    <2>1. \A i \in 1..k : s[i] \in Byte
      BY <1>1, <1>2
    <2>2. b \in Seq(Byte) /\ Len(b) = IF 1 <= k THEN k - 1 + 1 ELSE 0
      BY <2>1, SubSeqProperties, 1 \in Int, k \in Int
    <2> QED
      BY <2>2 DEF Bytes
  <1>4. r \in Bytes
    <2>1. \A i \in k + 1..Len(s) : s[i] \in Byte
      BY <1>1, <1>2
    <2>2. r \in Seq(Byte)
      BY <1>2, <2>1, SubSeqProperties, k + 1 \in Int, Len(s) \in Int
    <2> QED
      BY <2>2 DEF Bytes
  <1>5. s = b \o r
    <2>1. 1 \in 1..Len(s) + 1 /\ k \in 1 - 1..Len(s) /\ Len(s) \in k..Len(s)
      BY <1>1, <1>2
    <2>2. b \o r = SubSeq(s, 1, Len(s))
      BY <2>1, ConcatAdjacentSubSeq DEF Bytes
    <2>3. SubSeq(s, 1, Len(s)) = s
      BY SubSeqFull DEF Bytes
    <2> QED
      BY <2>2, <2>3
  <1> QED
    BY <1>1, <1>3, <1>4, <1>5

\* Concatenation of bytes.
LEMMA Concat ==
    ASSUME NEW a \in Bytes, NEW b \in Bytes
    PROVE  /\ a \o b \in Bytes
           /\ Len(a \o b) = Len(a) + Len(b)
           /\ Len(a) \in Nat
           /\ a \o <<>> = a
           /\ <<>> \o a = a
           /\ a \o b = <<>> => a = <<>>
  BY ConcatProperties, LenProperties, ConcatEmptySeq, ConcatEqualIffEmpty DEF Bytes

\* Concatenation in any grouping.
LEMMA ConcatAssoc ==
    ASSUME NEW a \in Bytes, NEW b \in Bytes, NEW c \in Bytes
    PROVE  (a \o b) \o c = a \o (b \o c)
  BY ConcatAssociative DEF Bytes

\* The empty string is the one of length 0.
LEMMA NoBytes == <<>> \in Bytes /\ Len(<<>>) = 0 /\ \A s \in Bytes : Len(s) = 0 => s = <<>>
  BY EmptySeq, LenProperties DEF Bytes

-----------------------------------------------------------------------------
(* Digits.                                                                  *)

\* RadixTo is the power of the radix.
LEMMA RadixPowers ==
    /\ RadixTo[0] = 1
    /\ \A n \in Nat : RadixTo[n] \in Nat /\ RadixTo[n + 1] = Radix * RadixTo[n]
  <1> DEFINE D(g) == [n \in Nat |-> IF n = 0 THEN 1 ELSE Radix * g[n - 1]]
             f == CHOOSE g : g = D(g)
             G == [x \in Nat \X Nat |-> Radix * x[2]]
  <1>1. RadixTo = f
    BY DEF RadixTo
  <1>2. G \in [Nat \X Nat -> Nat] /\ \A n, k \in Nat : G[<<n + 1, k>>] = Radix * k
    BY RadixAssumption
  <1> HIDE DEF G
  <1>3. PICK g \in [Nat -> Nat] : Solves(g, 1, G)
    <2>1. 1 \in Nat
      OBVIOUS
    <2> QED
      BY <1>2, <2>1, Recursion, Zenon
  <1>4. g[0] = 1 /\ \A n \in Nat : g[n + 1] = Radix * g[n]
    BY <1>2, <1>3 DEF Solves
  <1>5. ASSUME NEW n \in Nat PROVE g[n] = IF n = 0 THEN 1 ELSE Radix * g[n - 1]
    <2>1. CASE n # 0
      <3>1. n - 1 \in Nat /\ (n - 1) + 1 = n
        BY <2>1
      <3> QED
        BY <1>4, <2>1, <3>1
    <2> QED
      BY <1>4, <2>1
  <1>6. g = D(g)
    BY <1>5
  <1>7. f = D(f)
    BY <1>6
  <1> HIDE DEF f
  <1>8. f[0] = 1 /\ \A n \in Nat : f[n + 1] = Radix * f[n]
    BY <1>7
  <1> DEFINE T == {n \in Nat : f[n] \in Nat}
  <1>9. 0 \in T
    BY <1>8
  <1>10. ASSUME NEW n \in Nat, n \in T PROVE n + 1 \in T
    <2>1. f[n] \in Nat /\ f[n + 1] = Radix * f[n]
      BY <1>8, <1>10
    <2> QED
      BY <2>1, RadixAssumption
  <1> HIDE DEF T
  <1>11. Nat \subseteq T
    BY <1>9, <1>10, InductionSet
  <1> QED
    BY <1>1, <1>8, <1>11 DEF T

\* Powers of the radix are positive.
LEMMA RadixPositive ==
    ASSUME NEW n \in Nat
    PROVE  RadixTo[n] \in Nat /\ RadixTo[n] > 0
  <1> DEFINE T == {i \in Nat : RadixTo[i] > 0}
  <1>1. 0 \in T
    BY RadixPowers
  <1>2. ASSUME NEW i \in Nat, i \in T PROVE i + 1 \in T
    BY <1>2, RadixPowers, RadixAssumption
  <1> HIDE DEF T
  <1>3. n \in T
    BY <1>1, <1>2, InductionSet
  <1> QED
    BY <1>3, RadixPowers DEF T

NumberSum(f, s, n) == f[0] = 0 /\ \A i \in 1..n : f[i] = f[i - 1] * Radix + s[i]

\* The loop of Number.
LEMMA NumberLoop ==
    ASSUME NEW s \in Bytes
    PROVE  \E f \in [0..Len(s) -> Nat] : NumberSum(f, s, Len(s)) /\ Number(s) = f[Len(s)]
  <1> DEFINE n == Len(s)
             D(g) == [i \in 0..n |-> IF i = 0 THEN 0 ELSE g[i - 1] * Radix + s[i]]
             f == CHOOSE g : g = D(g)
             Digit(i) == IF i \in 1..n THEN s[i] ELSE 0
             G == [x \in Nat \X Nat |-> x[2] * Radix + Digit(x[1])]
  <1>1. n \in Nat /\ \A i \in 1..n : s[i] \in Nat
    BY LenProperties, ElementOfSeq, RadixAssumption DEF Bytes, Byte
  <1>2. Number(s) = f[n]
    BY DEF Number
  <1>3. \A i \in Nat : Digit(i) \in Nat
    BY <1>1
  <1> HIDE DEF Digit
  <1>4. G \in [Nat \X Nat -> Nat]
    BY <1>3, RadixAssumption
  <1>5. \A i, v \in Nat : G[<<i, v>>] = v * Radix + Digit(i)
    OBVIOUS
  <1> HIDE DEF G
  <1>6. PICK g \in [0..n -> Nat] : Recurs(g, n, 0, G)
    BY <1>1, <1>4, FiniteRecursion, 0 \in Nat, Zenon
  <1>7. ASSUME NEW i \in 0..n
        PROVE  g[i] = IF i = 0 THEN 0 ELSE g[i - 1] * Radix + s[i]
    <2>1. CASE i # 0
      <3>1. i \in 1..n /\ i - 1 \in 0..n /\ i \in Nat
        BY <1>1, <2>1
      <3>2. g[i] = G[<<i, g[i - 1]>>] /\ g[i - 1] \in Nat
        BY <1>6, <3>1 DEF Recurs
      <3>3. Digit(i) = s[i]
        BY <3>1 DEF Digit
      <3> QED
        BY <1>5, <2>1, <3>1, <3>2, <3>3
    <2> QED
      BY <1>6, <2>1 DEF Recurs
  <1>8. g = D(g)
    BY <1>7
  <1>9. f = D(f)
    BY <1>8
  <1> HIDE DEF f
  <1>10. \A i \in 0..n : f[i] = IF i = 0 THEN 0 ELSE f[i - 1] * Radix + s[i]
    BY <1>9
  <1>11. NumberSum(f, s, n)
    BY <1>1, <1>10 DEF NumberSum
  <1> DEFINE T == {i \in Nat : i =< n => f[i] \in Nat}
  <1>12. 0 \in T
    BY <1>1, <1>10
  <1>13. ASSUME NEW i \in Nat, i \in T PROVE i + 1 \in T
    <2> SUFFICES ASSUME i + 1 =< n PROVE f[i + 1] \in Nat
      OBVIOUS
    <2>1. f[i] \in Nat /\ (i + 1) - 1 = i /\ i + 1 \in 1..n
      BY <1>1, <1>13
    <2>2. f[i + 1] = f[i] * Radix + s[i + 1] /\ s[i + 1] \in Nat
      BY <1>1, <1>11, <2>1 DEF NumberSum
    <2>3. f[i] * Radix \in Nat
      BY <2>1, RadixAssumption
    <2> QED
      BY <2>2, <2>3
  <1> HIDE DEF T
  <1>14. \A i \in 0..n : f[i] \in Nat
    <2>1. Nat \subseteq T
      BY <1>12, <1>13, InductionSet
    <2> QED
      BY <1>1, <2>1 DEF T
  <1>15. f \in [0..n -> Nat]
    BY <1>9, <1>14
  <1> QED
    BY <1>2, <1>11, <1>15

\* One more digit multiplies what was read by the radix.
LEMMA NumberIs ==
    ASSUME NEW s \in Bytes, NEW x \in Byte
    PROVE  /\ Number(s) \in Nat
           /\ Append(s, x) \in Bytes
           /\ Number(Append(s, x)) = Number(s) * Radix + x
  <1> DEFINE t == Append(s, x)
             n == Len(s)
  <1>1. t \in Bytes /\ Len(t) = n + 1 /\ n \in Nat /\ t[n + 1] = x
        /\ \A i \in 1..n : t[i] = s[i]
    BY AppendProperties, LenProperties DEF Bytes
  <1>2. PICK f \in [0..n -> Nat] : NumberSum(f, s, n) /\ Number(s) = f[n]
    BY NumberLoop
  <1> HIDE DEF t
  <1>3. PICK g \in [0..n + 1 -> Nat] : NumberSum(g, t, n + 1) /\ Number(t) = g[n + 1]
    BY <1>1, NumberLoop
  <1> DEFINE T == {i \in Nat : i =< n => f[i] = g[i]}
  <1>4. 0 \in T
    BY <1>2, <1>3 DEF NumberSum
  <1>5. ASSUME NEW i \in Nat, i \in T PROVE i + 1 \in T
    <2> SUFFICES ASSUME i + 1 =< n PROVE f[i + 1] = g[i + 1]
      OBVIOUS
    <2>1. f[i] = g[i] /\ (i + 1) - 1 = i /\ i + 1 \in 1..n /\ i + 1 \in 1..n + 1
      BY <1>1, <1>5
    <2> QED
      BY <1>1, <1>2, <1>3, <2>1 DEF NumberSum
  <1> HIDE DEF T
  <1>6. f[n] = g[n]
    <2>1. Nat \subseteq T
      BY <1>4, <1>5, InductionSet
    <2> QED
      BY <1>1, <2>1 DEF T
  <1>7. n + 1 \in 1..n + 1 /\ (n + 1) - 1 = n
    BY <1>1
  <1>8. g[n + 1] = g[n] * Radix + t[n + 1]
    BY <1>3, <1>7 DEF NumberSum
  <1>9. Number(s) \in Nat
    BY <1>1, <1>2
  <1> QED
    BY <1>1, <1>2, <1>3, <1>6, <1>8, <1>9 DEF t

\* No digits are zero.
LEMMA NumberEmpty == Number(<<>>) = 0
  BY NumberLoop, NoBytes DEF NumberSum

\* Quotient and remainder are what they have to be.
LEMMA DivUnique ==
    ASSUME NEW n \in Int, NEW d \in Nat, d > 0,
           NEW k \in Int, NEW r \in 0..(d - 1), n = d * k + r
    PROVE  n \div d = k /\ n % d = r
  <1>1. n % d = r
    BY ModUnique
  <1> DEFINE q == n \div d
  <1>2. q \in Int /\ n = d * q + r
    BY <1>1, DivMod
  <1> HIDE DEF q
  <1>3. d * q = d * k
    BY <1>2
  <1>4. d * (q - k) = 0
    BY <1>2, <1>3
  <1>5. q - k \in Int
    BY <1>2
  <1>6. q - k = 0
    <2>1. ASSUME q - k >= 1 PROVE FALSE
      <3>1. d * (q - k) >= d
        BY <1>5, <2>1
      <3> QED
        BY <1>4, <3>1
    <2>2. ASSUME q - k =< -1 PROVE FALSE
      <3>1. d * (q - k) =< -d
        BY <1>5, <2>2
      <3> QED
        BY <1>4, <3>1
    <2> QED
      BY <1>5, <2>1, <2>2
  <1>7. q = k
    BY <1>2, <1>6
  <1> QED
    BY <1>1, <1>7 DEF q

\* Quotients of naturals are naturals.
LEMMA DivNat ==
    ASSUME NEW n \in Nat, NEW d \in Nat, d > 0
    PROVE  n \div d \in Nat
  <1> DEFINE q == n \div d
             r == n % d
  <1>1. q \in Int /\ r \in 0..(d - 1) /\ n = d * q + r
    BY DivMod
  <1> HIDE DEF q, r
  <1>2. ASSUME q =< -1 PROVE FALSE
    <2>1. d * q =< -d
      BY <1>1, <1>2
    <2> QED
      BY <1>1, <2>1
  <1>3. q \in Nat
    BY <1>1, <1>2
  <1> QED
    BY <1>3 DEF q

\* Dividing by a product divides by the factors in turn.
LEMMA DivDiv ==
    ASSUME NEW x \in Nat, NEW a \in Nat, a > 0, NEW b \in Nat, b > 0
    PROVE  (x \div a) \div b = x \div (a * b)
  <1> DEFINE q == x \div a
             r == x % a
             k == q \div b
             m == q % b
  <1>1. q \in Nat /\ r \in 0..(a - 1) /\ x = a * q + r
    BY DivMod, DivNat
  <1> HIDE DEF q, r
  <1>2. k \in Nat /\ m \in 0..(b - 1) /\ q = b * k + m
    BY <1>1, DivMod, DivNat
  <1> HIDE DEF k, m
  <1>3. x = a * (b * k + m) + r
    BY <1>1, <1>2
  <1>4. a * (b * k + m) = (a * b) * k + a * m
    BY <1>2
  <1>5. a * m + r \in Nat /\ a * b \in Nat
    BY <1>1, <1>2
  <1>6. a * m =< a * (b - 1)
    BY <1>2
  <1>7. a * (b - 1) = a * b - a
    OBVIOUS
  <1>8. a * m + r =< a * b - 1
    BY <1>1, <1>2, <1>5, <1>6, <1>7
  <1>9. a * b > 0
    OBVIOUS
  <1>10. x = (a * b) * k + (a * m + r) /\ a * m + r \in 0..(a * b - 1)
    BY <1>1, <1>2, <1>3, <1>4, <1>5, <1>8
  <1> DEFINE d == a * b
             e == a * m + r
  <1>11. d \in Nat /\ d > 0 /\ x \in Int /\ k \in Int /\ e \in 0..(d - 1) /\ x = d * k + e
    BY <1>2, <1>5, <1>9, <1>10
  <1> HIDE DEF d, e
  <1>12. x \div d = k
    BY <1>11, DivUnique
  <1> QED
    BY <1>12 DEF d, k, q

\* The w digits of x are w bytes.
LEMMA BigEndianIs ==
    ASSUME NEW x \in Nat, NEW w \in Nat
    PROVE  /\ BigEndian(x, w) \in Bytes
           /\ Len(BigEndian(x, w)) = w
           /\ \A i \in 1..w : BigEndian(x, w)[i] = (x \div RadixTo[w - i]) % Radix
  <1>1. ASSUME NEW i \in 1..w PROVE (x \div RadixTo[w - i]) % Radix \in Byte
    <2>1. w - i \in Nat
      OBVIOUS
    <2>2. x \div RadixTo[w - i] \in Int
      BY <2>1, RadixPositive, DivMod
    <2> QED
      BY <2>2, DivMod, RadixAssumption DEF Byte
  <1>2. BigEndian(x, w) \in [1..w -> Byte]
    BY <1>1 DEF BigEndian
  <1>3. BigEndian(x, w) \in Seq(Byte) /\ Len(BigEndian(x, w)) = w
    BY <1>2 DEF BigEndian
  <1> QED
    BY <1>3 DEF Bytes, BigEndian

\* The last digit is the remainder, the others are the digits of the quotient.
LEMMA BigEndianStep ==
    ASSUME NEW x \in Nat, NEW w \in Nat
    PROVE  /\ x \div Radix \in Nat
           /\ x % Radix \in Byte
           /\ x = Radix * (x \div Radix) + (x % Radix)
           /\ BigEndian(x, w + 1) = Append(BigEndian(x \div Radix, w), x % Radix)
  <1> DEFINE q == x \div Radix
             r == x % Radix
             s == BigEndian(x, w + 1)
             t == BigEndian(q, w)
  <1>1. q \in Nat /\ r \in Byte /\ x = Radix * q + r
    BY DivMod, DivNat, RadixAssumption DEF Byte
  <1>2. /\ s \in Bytes /\ Len(s) = w + 1
        /\ \A i \in 1..w + 1 : s[i] = (x \div RadixTo[w + 1 - i]) % Radix
    BY BigEndianIs, w + 1 \in Nat
  <1>3. /\ t \in Bytes /\ Len(t) = w
        /\ \A i \in 1..w : t[i] = (q \div RadixTo[w - i]) % Radix
    BY <1>1, BigEndianIs
  <1>4. ASSUME NEW i \in 1..w PROVE s[i] = t[i]
    <2>1. w - i \in Nat /\ w + 1 - i = (w - i) + 1 /\ i \in 1..w + 1
      OBVIOUS
    <2>2. RadixTo[w + 1 - i] = Radix * RadixTo[w - i] /\ RadixTo[w - i] \in Nat
          /\ RadixTo[w - i] > 0
      BY <2>1, RadixPowers, RadixPositive
    <2>3. q \div RadixTo[w - i] = x \div (Radix * RadixTo[w - i])
      BY <2>2, DivDiv, RadixAssumption
    <2> QED
      BY <1>2, <1>3, <2>1, <2>2, <2>3
  <1>5. s[w + 1] = r
    <2>1. w + 1 \in 1..w + 1 /\ w + 1 - (w + 1) = 0
      OBVIOUS
    <2>2. s[w + 1] = (x \div 1) % Radix
      BY <1>2, <2>1, RadixPowers
    <2>3. x \div 1 = x
      OBVIOUS
    <2> QED
      BY <2>2, <2>3
  <1> HIDE DEF q, r, s, t
  <1>6. /\ Append(t, r) \in Bytes /\ Len(Append(t, r)) = w + 1
        /\ Append(t, r)[w + 1] = r
        /\ \A i \in 1..w : Append(t, r)[i] = t[i]
    BY <1>1, <1>3, AppendProperties DEF Bytes
  <1>7. \A i \in 1..w + 1 : s[i] = Append(t, r)[i]
    BY <1>4, <1>5, <1>6
  <1>8. s = Append(t, r)
    BY <1>2, <1>6, <1>7, SeqEqual DEF Bytes
  <1> QED
    BY <1>1, <1>8, Zenon DEF q, r, s, t

\* No digits are no bytes.
LEMMA BigEndianEmpty ==
    ASSUME NEW x \in Nat
    PROVE  BigEndian(x, 0) = <<>>
  BY BigEndianIs, NoBytes, 0 \in Nat

\* An integer is read as the one that was written.
LEMMA NumberOf ==
    ASSUME NEW w \in Nat, NEW x \in Nat, x < RadixTo[w]
    PROVE  Number(BigEndian(x, w)) = x
  <1> DEFINE T == {n \in Nat : \A y \in Nat : y < RadixTo[n] => Number(BigEndian(y, n)) = y}
  <1>1. 0 \in T
    <2>1. ASSUME NEW y \in Nat, y < RadixTo[0] PROVE Number(BigEndian(y, 0)) = y
      <3>1. y = 0
        BY <2>1, RadixPowers
      <3> QED
        BY <3>1, BigEndianEmpty, NumberEmpty
    <2> QED
      BY <2>1
  <1>2. ASSUME NEW n \in Nat, n \in T PROVE n + 1 \in T
    <2> SUFFICES ASSUME NEW y \in Nat, y < RadixTo[n + 1]
                 PROVE  Number(BigEndian(y, n + 1)) = y
      OBVIOUS
    <2> DEFINE q == y \div Radix
               r == y % Radix
    <2>1. q \in Nat /\ r \in Byte /\ y = Radix * q + r
          /\ BigEndian(y, n + 1) = Append(BigEndian(q, n), r)
      BY BigEndianStep, Zenon
    <2> HIDE DEF q, r
    <2>2. q < RadixTo[n]
      <3> DEFINE P == RadixTo[n]
      <3>1. P \in Nat /\ y < Radix * P
        BY RadixPowers
      <3> HIDE DEF P
      <3>2. r \in Nat /\ Radix \in Nat /\ Radix > 0
        BY <2>1, RadixAssumption DEF Byte
      <3>3. ASSUME q >= P PROVE FALSE
        <4>1. Radix * q >= Radix * P
          BY <2>1, <3>1, <3>2, <3>3
        <4>2. Radix * q \in Nat /\ Radix * P \in Nat
          BY <2>1, <3>1, <3>2
        <4> QED
          BY <2>1, <3>1, <3>2, <4>1, <4>2
      <3>4. q < P
        BY <2>1, <3>1, <3>3
      <3> QED
        BY <3>4 DEF P
    <2>3. Number(BigEndian(q, n)) = q
      BY <1>2, <2>1, <2>2
    <2>4. Number(BigEndian(y, n + 1)) = q * Radix + r
      BY <2>1, <2>3, BigEndianIs, NumberIs
    <2>5. q * Radix = Radix * q
      BY <2>1, RadixAssumption
    <2> QED
      BY <2>1, <2>4, <2>5
  <1> HIDE DEF T
  <1>3. w \in T
    BY <1>1, <1>2, InductionSet
  <1> QED
    BY <1>3 DEF T

\* Digits are the digits of the integer they are read as.
LEMMA DigitsOf ==
    ASSUME NEW s \in Bytes
    PROVE  Number(s) \in Nat /\ Number(s) < RadixTo[Len(s)] /\ BigEndian(Number(s), Len(s)) = s
  <1> DEFINE Good(s0, n) == Number(s0) \in Nat /\ Number(s0) < RadixTo[n] /\ BigEndian(Number(s0), n) = s0
             T == {n \in Nat : \A t \in Bytes : Len(t) = n => Good(t, n)}
  <1>1. 0 \in T
    <2>1. ASSUME NEW t \in Bytes, Len(t) = 0 PROVE Good(t, 0)
      BY <2>1, NoBytes, NumberEmpty, BigEndianEmpty, RadixPowers
    <2> QED
      BY <2>1
  <1>2. ASSUME NEW n \in Nat, n \in T PROVE n + 1 \in T
    <2> SUFFICES ASSUME NEW t \in Bytes, Len(t) = n + 1 PROVE Good(t, n + 1)
      OBVIOUS
    <2>1. PICK u \in Bytes, y \in Byte : t = Append(u, y)
      <3>1. t # <<>>
        BY NoBytes
      <3> QED
        BY <3>1, SequenceEmptyOrAppend DEF Bytes
    <2>2. Len(u) = n
      <3>1. Len(t) = Len(u) + 1 /\ Len(u) \in Nat
        BY <2>1, AppendProperties, LenProperties DEF Bytes
      <3> QED
        BY <3>1
    <2> DEFINE m == Number(u)
               x == Number(t)
    <2>3. m \in Nat /\ m < RadixTo[n] /\ BigEndian(m, n) = u
      BY <1>2, <2>2
    <2>4. x = m * Radix + y
      BY <2>1, NumberIs
    <2> HIDE DEF m, x
    <2>5. y \in 0..(Radix - 1) /\ Radix \in Nat /\ Radix > 0
      BY RadixAssumption DEF Byte
    <2>6. m * Radix \in Nat /\ m * Radix = Radix * m
      BY <2>3, <2>5
    <2>7. x \in Nat /\ x = Radix * m + y
      BY <2>4, <2>5, <2>6
    <2>8. x \div Radix = m /\ x % Radix = y
      BY <2>3, <2>5, <2>7, DivUnique
    <2>9. BigEndian(x, n + 1) = t
      BY <2>1, <2>3, <2>7, <2>8, BigEndianStep
    <2>10. x < RadixTo[n + 1]
      <3> DEFINE P == RadixTo[n]
      <3>1. P \in Nat /\ RadixTo[n + 1] = Radix * P
        BY RadixPowers
      <3> HIDE DEF P
      <3>5. m < P
        BY <2>3 DEF P
      <3>6. m + 1 =< P
        BY <2>3, <3>1, <3>5
      <3>2. Radix * (m + 1) =< Radix * P
        BY <2>3, <2>5, <3>1, <3>6
      <3>3. Radix * (m + 1) = Radix * m + Radix
        BY <2>3, <2>5
      <3>4. Radix * P \in Nat
        BY <2>5, <3>1
      <3> QED
        BY <2>5, <2>6, <2>7, <3>1, <3>2, <3>3, <3>4
    <2> QED
      BY <2>7, <2>9, <2>10 DEF x
  <1> HIDE DEF T
  <1>3. Len(s) \in T
    BY <1>1, <1>2, InductionSet, LenProperties DEF Bytes
  <1> QED
    BY <1>3 DEF T

-----------------------------------------------------------------------------
(* Length prefixes.                                                         *)

Framed(c, w) == BigEndian(Len(c), w) \o c

\* A length prefix takes a byte at least.
LEMMA FramedIs ==
    ASSUME NEW w \in Nat, NEW c \in Bytes
    PROVE  Framed(c, w) \in Bytes /\ (w # 0 => Framed(c, w) # <<>>)
  <1>1. Len(c) \in Nat
    BY LenProperties DEF Bytes
  <1>2. BigEndian(Len(c), w) \in Bytes /\ Len(BigEndian(Len(c), w)) = w
    BY <1>1, BigEndianIs
  <1> QED
    BY <1>2, Concat, NoBytes DEF Framed

\* What stands behind its length is read as written (ReadUint16LengthPrefixed and
\* its like).
LEMMA ReadFramed ==
    ASSUME NEW w \in Nat, NEW c \in Bytes, Len(c) < RadixTo[w], NEW s \in Bytes
    PROVE  ReadLengthPrefixed(Framed(c, w) \o s, w) = {<<c, s>>}
  <1> DEFINE h == BigEndian(Len(c), w)
             t == c \o s
  <1>1. Len(c) \in Nat
    BY LenProperties DEF Bytes
  <1>2. h \in Bytes /\ Len(h) = w /\ Number(h) = Len(c)
    BY <1>1, BigEndianIs, NumberOf
  <1>3. t \in Bytes /\ Framed(c, w) \o s = h \o t
    BY <1>2, Concat, ConcatAssoc DEF Framed
  <1>4. ReadBytes(h \o t, w) = {<<h, t>>}
    BY <1>2, <1>3, ReadFront
  <1>5. ReadBytes(t, Number(h)) = {<<c, s>>}
    BY <1>2, ReadFront
  <1> HIDE DEF h, t
  <1>6. ReadLengthPrefixed(h \o t, w) = ReadBytes(t, Number(h))
    BY <1>4 DEF ReadLengthPrefixed
  <1> QED
    BY <1>3, <1>5, <1>6

\* What is read behind a length was written behind that length.
LEMMA FramedRead ==
    ASSUME NEW w \in Nat, NEW s \in Bytes, NEW p \in ReadLengthPrefixed(s, w)
    PROVE  \E c \in Bytes : \E r \in Bytes :
              p = <<c, r>> /\ Len(c) < RadixTo[w] /\ s = Framed(c, w) \o r
  <1>1. PICK q \in ReadBytes(s, w) : p \in ReadBytes(q[2], Number(q[1]))
    BY DEF ReadLengthPrefixed
  <1>2. PICK h \in Bytes, t \in Bytes : q = <<h, t>> /\ Len(h) = w /\ s = h \o t
    BY ReadIsSplit
  <1>3. Number(h) \in Nat /\ Number(h) < RadixTo[w] /\ BigEndian(Number(h), w) = h
    BY <1>2, DigitsOf
  <1>4. p \in ReadBytes(t, Number(h))
    BY <1>1, <1>2
  <1>5. PICK c \in Bytes, r \in Bytes : p = <<c, r>> /\ Len(c) = Number(h) /\ t = c \o r
    BY <1>3, <1>4, ReadIsSplit
  <1>6. Framed(c, w) = h \o c
    BY <1>3, <1>5 DEF Framed
  <1>7. s = Framed(c, w) \o r
    <2>1. (h \o c) \o r = h \o (c \o r)
      BY ConcatAssoc, ZenonT(30)
    <2> QED
      BY <1>2, <1>5, <1>6, <2>1, Zenon
  <1> QED
    BY <1>3, <1>5, <1>7

-----------------------------------------------------------------------------
(* What makes a reader i fit a writer o.  The rest of the input behind the  *)
(* message is one of T: any bytes, or none for what takes up the message.   *)

Encodes(c) == \A x \in Values(c) : c.write[x] \in SUBSET Bytes

OneEncoding(o) == \A x \in Values(o) : \A b \in o.write[x] : o.write[x] = {b}

\* What o writes i reads as the same value, or refuses if it would not write it.
ReadsBack(o, i, T) ==
    \A x \in Values(o) : \A b \in o.write[x] : \A s \in T :
        i.read[b \o s] = IF i.write[x] = {} THEN {} ELSE {<<x, s>>}

\* What i reads is what o writes.
ReadsOnly(o, i) ==
    \A s \in Bytes : \A p \in i.read[s] :
        \E x \in Values(o) : \E b \in o.write[x] : \E r \in Bytes : p = <<x, r>> /\ s = b \o r

\* What i would write for a value, if anything, is what o writes.
Narrows(o, i) == \A x \in Values(o) : i.write[x] \subseteq o.write[x]

Fits(o, i, T) ==
    /\ Values(o) = Values(i)
    /\ Narrows(o, i)
    /\ Encodes(o) /\ Encodes(i)
    /\ OneEncoding(o)
    /\ ReadsBack(o, i, T)
    /\ ReadsOnly(o, i)

Ended == {<<>>}

\* Every encoding has a byte: what a vector can hold.
Nonempty(c) == \A x \in Values(c) : \A b \in c.write[x] : b # <<>>

\* What reads back before any bytes reads back at the end of the message.
LEMMA FitsEnded ==
    ASSUME NEW o, NEW i, Fits(o, i, Bytes)
    PROVE  Fits(o, i, Ended)
  <1>1. Ended \subseteq Bytes
    BY NoBytes DEF Ended
  <1>2. ReadsBack(o, i, Bytes)
    BY DEF Fits
  <1>3. ReadsBack(o, i, Ended)
    BY <1>1, <1>2, Zenon DEF ReadsBack
  <1> QED
    BY <1>3, Zenon DEF Fits

Uints(w) == {n \in Nat : n < RadixTo[w]}

\* Both directions of Uint.
LEMMA UintIs ==
    ASSUME NEW w \in Nat
    PROVE  /\ Values(Uint(w)) = Uints(w)
           /\ \A x \in Uints(w) : Uint(w).write[x] = {BigEndian(x, w)}
           /\ \A s \in Bytes : Uint(w).read[s] = {<<Number(p[1]), p[2]>> : p \in ReadBytes(s, w)}
  BY DEF Uint, Values, Uints

\* Integers fit: the digits are the number, and no two numbers share them.
LEMMA FitsUint ==
    ASSUME NEW w \in Nat
    PROVE  Fits(Uint(w), Uint(w), Bytes) /\ (w # 0 => Nonempty(Uint(w)))
  <1> DEFINE c == Uint(w)
  <1>0. /\ Values(c) = Uints(w)
        /\ \A x \in Uints(w) : c.write[x] = {BigEndian(x, w)}
        /\ \A s \in Bytes : c.read[s] = {<<Number(p[1]), p[2]>> : p \in ReadBytes(s, w)}
    BY UintIs, Zenon
  <1> HIDE DEF c
  <1>1. \A x \in Uints(w) : x \in Nat /\ x < RadixTo[w] /\ BigEndian(x, w) \in Bytes
                            /\ Len(BigEndian(x, w)) = w
    BY BigEndianIs DEF Uints
  <1>2. Encodes(c) /\ OneEncoding(c)
    BY <1>1, <1>0 DEF Encodes, OneEncoding
  <1>3. ReadsBack(c, c, Bytes)
    <2> SUFFICES ASSUME NEW x \in Uints(w), NEW b \in c.write[x], NEW s \in Bytes
                 PROVE  c.read[b \o s] = IF c.write[x] = {} THEN {} ELSE {<<x, s>>}
      BY <1>0 DEF ReadsBack
    <2>1. b = BigEndian(x, w) /\ c.write[x] = {b} /\ b \in Bytes /\ Len(b) = w /\ Number(b) = x
      BY <1>0, <1>1, NumberOf
    <2>2. b \o s \in Bytes /\ ReadBytes(b \o s, w) = {<<b, s>>}
      BY <2>1, Concat, ReadFront
    <2>3. c.read[b \o s] = {<<x, s>>}
      <3>1. c.read[b \o s] = {<<Number(p[1]), p[2]>> : p \in {<<b, s>>}}
        BY <1>0, <2>2
      <3>2. {<<Number(p[1]), p[2]>> : p \in {<<b, s>>}} = {<<Number(b), s>>}
        OBVIOUS
      <3> QED
        BY <2>1, <3>1, <3>2
    <2> QED
      BY <2>1, <2>3
  <1>4. ReadsOnly(c, c)
    <2> SUFFICES ASSUME NEW s \in Bytes, NEW p \in c.read[s]
                 PROVE  \E x \in Uints(w) : \E b \in c.write[x] : \E r \in Bytes :
                            p = <<x, r>> /\ s = b \o r
      BY <1>0 DEF ReadsOnly
    <2>1. PICK q \in ReadBytes(s, w) : p = <<Number(q[1]), q[2]>>
      BY <1>0
    <2>2. PICK b \in Bytes, r \in Bytes : q = <<b, r>> /\ Len(b) = w /\ s = b \o r
      BY ReadIsSplit
    <2>3. Number(b) \in Uints(w) /\ BigEndian(Number(b), w) = b
      BY <2>2, DigitsOf DEF Uints
    <2>4. b \in c.write[Number(b)]
      BY <2>3, <1>0
    <2> QED
      BY <2>1, <2>2, <2>3, <2>4
  <1>5. w # 0 => Nonempty(c)
    BY <1>1, <1>0, NoBytes DEF Nonempty
  <1> QED
    BY <1>2, <1>3, <1>4, <1>5 DEF Fits, Narrows, c

\* Both directions of Fixed.
LEMMA FixedIs ==
    ASSUME NEW k \in Nat
    PROVE  /\ Values(Fixed(k)) = OfSize(k)
           /\ \A x \in OfSize(k) : Fixed(k).write[x] = {x} /\ x \in Bytes /\ Len(x) = k
           /\ \A s \in Bytes : Fixed(k).read[s] = ReadBytes(s, k)
  BY DEF Fixed, Values, OfSize

\* Fields of fixed size fit.
LEMMA FitsFixed ==
    ASSUME NEW k \in Nat
    PROVE  Fits(Fixed(k), Fixed(k), Bytes) /\ (k # 0 => Nonempty(Fixed(k)))
  <1> DEFINE c == Fixed(k)
  <1>1. Encodes(c) /\ OneEncoding(c)
    BY FixedIs DEF Encodes, OneEncoding
  <1>2. ReadsBack(c, c, Bytes)
    <2> SUFFICES ASSUME NEW x \in OfSize(k), NEW b \in c.write[x], NEW s \in Bytes
                 PROVE  c.read[b \o s] = IF c.write[x] = {} THEN {} ELSE {<<x, s>>}
      BY FixedIs DEF ReadsBack
    <2>1. b = x /\ c.write[x] = {b} /\ b \in Bytes /\ Len(b) = k
      BY FixedIs
    <2>2. b \o s \in Bytes /\ ReadBytes(b \o s, k) = {<<b, s>>}
      BY <2>1, Concat, ReadFront
    <2> QED
      BY <2>1, <2>2, FixedIs
  <1>3. ReadsOnly(c, c)
    <2> SUFFICES ASSUME NEW s \in Bytes, NEW p \in c.read[s]
                 PROVE  \E x \in OfSize(k) : \E b \in c.write[x] : \E r \in Bytes :
                            p = <<x, r>> /\ s = b \o r
      BY FixedIs DEF ReadsOnly
    <2>1. p \in ReadBytes(s, k)
      BY FixedIs
    <2>2. PICK b \in Bytes, r \in Bytes : p = <<b, r>> /\ Len(b) = k /\ s = b \o r
      BY <2>1, ReadIsSplit
    <2>3. b \in OfSize(k) /\ b \in c.write[b]
      BY <2>2, FixedIs DEF OfSize
    <2> QED
      BY <2>2, <2>3
  <1>4. k # 0 => Nonempty(c)
    BY FixedIs, NoBytes DEF Nonempty
  <1> QED
    BY <1>1, <1>2, <1>3, <1>4 DEF Fits, Narrows

\* Both directions of Opaque.
LEMMA OpaqueIs ==
    ASSUME NEW w \in Nat, NEW min \in Nat
    PROVE  /\ Values(Opaque(w, min)) = Bytes
           /\ \A x \in Bytes : Opaque(w, min).write[x] =
                  IF Len(x) >= min /\ Len(x) < RadixTo[w] THEN {Framed(x, w)} ELSE {}
           /\ \A s \in Bytes : Opaque(w, min).read[s] =
                  {p \in ReadLengthPrefixed(s, w) : Len(p[1]) >= min}
  <1>1. ASSUME NEW x \in Bytes
        PROVE  AddLengthPrefixed(w, IF Len(x) >= min THEN {x} ELSE {}) =
                  IF Len(x) >= min /\ Len(x) < RadixTo[w] THEN {Framed(x, w)} ELSE {}
    BY Zenon DEF AddLengthPrefixed, Framed
  <1> QED
    BY <1>1 DEF Opaque, Values

\* A reader with a greater lower bound than the writer fits: it refuses what lies
\* below its bound and would not write it either.
LEMMA FitsOpaque ==
    ASSUME NEW w \in Nat, NEW m \in Nat, NEW n \in Nat, m =< n
    PROVE  Fits(Opaque(w, m), Opaque(w, n), Bytes) /\ (w # 0 => Nonempty(Opaque(w, m)))
  <1> DEFINE o == Opaque(w, m)
             i == Opaque(w, n)
  <1>0. /\ Values(o) = Bytes /\ Values(i) = Bytes
        /\ \A x \in Bytes :
              /\ o.write[x] = IF Len(x) >= m /\ Len(x) < RadixTo[w] THEN {Framed(x, w)} ELSE {}
              /\ i.write[x] = IF Len(x) >= n /\ Len(x) < RadixTo[w] THEN {Framed(x, w)} ELSE {}
        /\ \A s \in Bytes : i.read[s] = {p \in ReadLengthPrefixed(s, w) : Len(p[1]) >= n}
    <2>1. /\ Values(o) = Bytes
          /\ \A x \in Bytes :
                o.write[x] = IF Len(x) >= m /\ Len(x) < RadixTo[w] THEN {Framed(x, w)} ELSE {}
      BY OpaqueIs, Zenon
    <2>2. /\ Values(i) = Bytes
          /\ \A x \in Bytes :
                i.write[x] = IF Len(x) >= n /\ Len(x) < RadixTo[w] THEN {Framed(x, w)} ELSE {}
      BY OpaqueIs, Zenon
    <2>3. \A s \in Bytes : i.read[s] = {p \in ReadLengthPrefixed(s, w) : Len(p[1]) >= n}
      BY OpaqueIs
    <2> QED
      BY <2>1, <2>2, <2>3, Zenon
  <1> HIDE DEF o, i
  <1>1. \A x \in Bytes : Framed(x, w) \in Bytes /\ (w # 0 => Framed(x, w) # <<>>) /\ Len(x) \in Nat
    BY FramedIs, LenProperties DEF Bytes
  <1>2. Encodes(o) /\ Encodes(i)
    <2>1. ASSUME NEW x \in Bytes
          PROVE  \A b \in o.write[x] \union i.write[x] : b \in Bytes
      <3>1. \A b \in o.write[x] \union i.write[x] : b = Framed(x, w)
        BY <1>0
      <3> QED
        BY <1>1, <3>1, Zenon
    <2> QED
      BY <1>0, <2>1 DEF Encodes
  <1>7. OneEncoding(o)
    <2>1. ASSUME NEW x \in Bytes, NEW b \in o.write[x] PROVE o.write[x] = {b}
      BY <1>0, <2>1
    <2> QED
      BY <1>0, <2>1 DEF OneEncoding
  <1>3. ReadsBack(o, i, Bytes)
    <2> SUFFICES ASSUME NEW x \in Bytes, NEW b \in o.write[x], NEW s \in Bytes
                 PROVE  i.read[b \o s] = IF i.write[x] = {} THEN {} ELSE {<<x, s>>}
      BY <1>0 DEF ReadsBack
    <2>1. b = Framed(x, w) /\ Len(x) < RadixTo[w] /\ b \in Bytes
      BY <1>1, <1>0
    <2>2. b \o s \in Bytes /\ ReadLengthPrefixed(b \o s, w) = {<<x, s>>}
      BY <2>1, Concat, ReadFramed
    <2>3. i.read[b \o s] = {p \in {<<x, s>>} : Len(p[1]) >= n}
      BY <2>2, <1>0
    <2>4. i.write[x] = IF Len(x) >= n THEN {Framed(x, w)} ELSE {}
      BY <2>1, <1>0
    <2> QED
      BY <2>3, <2>4
  <1>4. ReadsOnly(o, i)
    <2> SUFFICES ASSUME NEW s \in Bytes, NEW p \in i.read[s]
                 PROVE  \E x \in Bytes : \E b \in o.write[x] : \E r \in Bytes :
                            p = <<x, r>> /\ s = b \o r
      BY <1>0 DEF ReadsOnly
    <2>1. p \in ReadLengthPrefixed(s, w) /\ Len(p[1]) >= n
      BY <1>0
    <2>2. PICK c \in Bytes, r \in Bytes : p = <<c, r>> /\ Len(c) < RadixTo[w] /\ s = Framed(c, w) \o r
      BY <2>1, FramedRead
    <2>3. Len(c) >= m
      BY <1>1, <2>1, <2>2
    <2>4. Framed(c, w) \in o.write[c]
      BY <2>2, <2>3, <1>0
    <2> QED
      BY <2>2, <2>4
  <1>5. w # 0 => Nonempty(o)
    BY <1>1, <1>0 DEF Nonempty
  <1>6. Values(o) = Values(i)
    BY <1>0
  <1>8. Narrows(o, i)
    <2>1. ASSUME NEW x \in Bytes, NEW b \in i.write[x] PROVE b \in o.write[x]
      <3>1. Len(x) >= n /\ Len(x) < RadixTo[w] /\ b = Framed(x, w)
        BY <1>0
      <3>2. Len(x) >= m
        BY <1>1, <3>1
      <3> QED
        BY <1>0, <3>1, <3>2
    <2> QED
      BY <1>0, <2>1 DEF Narrows
  <1> QED
    BY <1>2, <1>3, <1>4, <1>5, <1>6, <1>7, <1>8 DEF Fits, o, i

\* Both directions of Empty.
LEMMA EmptyIs ==
    /\ Values(Empty) = {<<>>} /\ Empty.write[<<>>] = {<<>>}
    /\ \A s \in Bytes : Empty.read[s] = {<<<<>>, s>>}
  BY DEF Empty, Values

\* A type without fields fits.
LEMMA FitsEmpty == Fits(Empty, Empty, Bytes)
  <1> DEFINE c == Empty
  <1>1. /\ Values(c) = {<<>>} /\ c.write[<<>>] = {<<>>}
        /\ \A s \in Bytes : c.read[s] = {<<<<>>, s>>}
    BY EmptyIs, Zenon
  <1>2. <<>> \in Bytes /\ \A s \in Bytes : <<>> \o s = s
    BY NoBytes, Concat
  <1> HIDE DEF c
  <1>3. Encodes(c) /\ OneEncoding(c)
    BY <1>1, <1>2 DEF Encodes, OneEncoding
  <1>4. ReadsBack(c, c, Bytes)
    BY <1>1, <1>2 DEF ReadsBack
  <1>5. ReadsOnly(c, c)
    <2> SUFFICES ASSUME NEW s \in Bytes, NEW p \in c.read[s]
                 PROVE  \E x \in Values(c) : \E b \in c.write[x] : \E r \in Bytes :
                            p = <<x, r>> /\ s = b \o r
      BY DEF ReadsOnly
    <2>1. p = <<<<>>, s>> /\ s = <<>> \o s /\ <<>> \in Values(c) /\ <<>> \in c.write[<<>>]
      BY <1>1, <1>2
    <2> QED
      BY <2>1, Zenon
  <1> QED
    BY <1>3, <1>4, <1>5 DEF Fits, Narrows, c

\* One byte is a number below the radix.
LEMMA OneByte ==
    /\ \A n \in Byte : <<n>> \in Bytes /\ Len(<<n>>) = 1 /\ Number(<<n>>) = n /\ <<n>> # <<>>
    /\ \A b \in Bytes : Len(b) = 1 => Number(b) \in Byte /\ b = <<Number(b)>>
  <1>1. ASSUME NEW n \in Byte PROVE <<n>> \in Bytes /\ Len(<<n>>) = 1 /\ Number(<<n>>) = n
    <2>1. Append(<<>>, n) = <<n>>
      OBVIOUS
    <2>2. Number(Append(<<>>, n)) = Number(<<>>) * Radix + n
      BY NumberIs, NoBytes
    <2>3. Number(<<n>>) = 0 * Radix + n /\ n \in Nat
      BY <2>1, <2>2, NumberEmpty, RadixAssumption DEF Byte
    <2>4. <<n>> \in Bytes /\ Len(<<n>>) = 1
      BY DEF Bytes
    <2> QED
      BY <2>3, <2>4, RadixAssumption
  <1>2. ASSUME NEW b \in Bytes, Len(b) = 1 PROVE Number(b) \in Byte /\ b = <<Number(b)>>
    <2>1. b[1] \in Byte /\ b = <<b[1]>>
      BY <1>2, ElementOfSeq, LenProperties DEF Bytes
    <2> QED
      BY <1>1, <2>1
  <1>3. \A n \in Byte : <<n>> # <<>>
    OBVIOUS
  <1> QED
    BY <1>1, <1>2, <1>3

\* A dialect has one code point for an error, and it fits a byte.
LEMMA Registry ==
    ASSUME NEW v
    PROVE  /\ DOMAIN reportErrorTable(v) \subseteq ReportErrors
           /\ \A e \in DOMAIN reportErrorTable(v) : reportErrorTable(v)[e] \in Byte
           /\ \A e, f \in DOMAIN reportErrorTable(v) :
                  reportErrorTable(v)[e] = reportErrorTable(v)[f] => e = f
  <1>1. 0..11 \subseteq Byte
    BY RadixAssumption DEF Byte
  <1>2. CASE draft19Values(v)
    <2>1. reportErrorTable(v) = reportError19
      BY <1>2 DEF reportErrorTable
    <2>2. DOMAIN reportError19 \subseteq ReportErrors
      BY DEF reportError19, ReportErrors
    <2>3. \A e \in DOMAIN reportError19 : reportError19[e] \in 0..11
      BY DEF reportError19
    <2>4. \A e, f \in DOMAIN reportError19 : reportError19[e] = reportError19[f] => e = f
      BY DEF reportError19
    <2> QED
      BY <1>1, <2>1, <2>2, <2>3, <2>4
  <1>3. CASE ~draft19Values(v)
    <2>1. reportErrorTable(v) = reportError18
      BY <1>3 DEF reportErrorTable
    <2>2. DOMAIN reportError18 \subseteq ReportErrors
      BY DEF reportError18, ReportErrors
    <2>3. \A e \in DOMAIN reportError18 : reportError18[e] \in 0..11
      BY DEF reportError18
    <2>4. \A e, f \in DOMAIN reportError18 : reportError18[e] = reportError18[f] => e = f
      BY DEF reportError18
    <2> QED
      BY <1>1, <2>1, <2>2, <2>3, <2>4
  <1> QED
    BY <1>2, <1>3

\* p is read off s: an error of the dialect behind its code point.
ReadsError(p, s, v) ==
    \E q \in ReadBytes(s, 1) : \E e \in DOMAIN reportErrorTable(v) :
        reportErrorTable(v)[e] = Number(q[1]) /\ p = <<e, q[2]>>

\* Both directions of ErrorCode, by the registry of the dialect.
LEMMA ErrorCodeIs ==
    ASSUME NEW v
    PROVE  /\ Values(ErrorCode(v)) = ReportErrors
           /\ \A e \in ReportErrors : ErrorCode(v).write[e] =
                  IF e \in DOMAIN reportErrorTable(v) THEN {<<reportErrorTable(v)[e]>>} ELSE {}
           /\ \A s \in Bytes : \A p : p \in ErrorCode(v).read[s] <=> ReadsError(p, s, v)
  <1>1. \A s \in Bytes : ErrorCode(v).read[s] =
            UNION {{<<e, p[2]>> : e \in ReportErrorFromWire(Number(p[1]), v)} : p \in ReadBytes(s, 1)}
    BY DEF ErrorCode
  <1>2. \A n : ReportErrorFromWire(n, v) = {e \in DOMAIN reportErrorTable(v) : reportErrorTable(v)[e] = n}
    BY DEF ReportErrorFromWire
  <1>3. Values(ErrorCode(v)) = ReportErrors
    BY DEF ErrorCode, Values
  <1>4. \A e \in ReportErrors : ErrorCode(v).write[e] =
            IF e \in DOMAIN reportErrorTable(v) THEN {<<reportErrorTable(v)[e]>>} ELSE {}
    BY DEF ErrorCode, HasCodePoint, ReportErrorToWire
  <1>5. ASSUME NEW s \in Bytes, NEW p PROVE p \in ErrorCode(v).read[s] <=> ReadsError(p, s, v)
    BY <1>1, <1>2 DEF ReadsError
  <1> QED
    BY <1>3, <1>4, <1>5, Zenon

\* The codes of a dialect fit: an error has one code point, and no other error it.
LEMMA FitsErrorCode ==
    ASSUME NEW v
    PROVE  Fits(ErrorCode(v), ErrorCode(v), Bytes)
  <1> DEFINE c == ErrorCode(v)
             D == DOMAIN reportErrorTable(v)
             code == reportErrorTable(v)
  <1>1. Values(c) = ReportErrors
    BY ErrorCodeIs, Zenon
  <1>2. \A e \in ReportErrors : c.write[e] = IF e \in D THEN {<<code[e]>>} ELSE {}
    BY ErrorCodeIs, Zenon
  <1>3. \A s \in Bytes : \A p : p \in c.read[s] <=> ReadsError(p, s, v)
    BY ErrorCodeIs, Zenon
  <1>4. /\ D \subseteq ReportErrors
        /\ \A e \in D : code[e] \in Byte
        /\ \A e, f \in D : code[e] = code[f] => e = f
    BY Registry, Zenon
  <1> HIDE DEF c, D, code
  <1>5. \A e \in D : <<code[e]>> \in Bytes /\ Len(<<code[e]>>) = 1 /\ Number(<<code[e]>>) = code[e]
    BY <1>4, OneByte
  <1>6. Encodes(c) /\ OneEncoding(c)
    BY <1>1, <1>2, <1>5 DEF Encodes, OneEncoding
  <1>7. ReadsBack(c, c, Bytes)
    <2> SUFFICES ASSUME NEW x \in ReportErrors, NEW b \in c.write[x], NEW s \in Bytes
                 PROVE  c.read[b \o s] = IF c.write[x] = {} THEN {} ELSE {<<x, s>>}
      BY <1>1 DEF ReadsBack
    <2>1. x \in D /\ b = <<code[x]>> /\ c.write[x] # {}
      <3>1. c.write[x] # {}
        OBVIOUS
      <3>2. x \in D
        BY <1>2, <3>1
      <3>3. c.write[x] = {<<code[x]>>}
        BY <1>2, <3>2
      <3> QED
        BY <3>1, <3>2, <3>3
    <2>2. b \in Bytes /\ Len(b) = 1 /\ Number(b) = code[x]
      BY <1>5, <2>1
    <2>3. b \o s \in Bytes /\ ReadBytes(b \o s, 1) = {<<b, s>>}
      BY <2>2, Concat, ReadFront
    <2>4. \A p : p \in c.read[b \o s] <=> \E e \in D : code[e] = Number(b) /\ p = <<e, s>>
      <3> DEFINE t == b \o s
      <3>1. t \in Bytes /\ ReadBytes(t, 1) = {<<b, s>>}
        BY <2>3
      <3> HIDE DEF t
      <3>2. \A p : ReadsError(p, t, v) <=> \E e \in D : code[e] = Number(b) /\ p = <<e, s>>
        <4>1. \A p : ReadsError(p, t, v) <=>
                  \E q \in {<<b, s>>} : \E e \in D : code[e] = Number(q[1]) /\ p = <<e, q[2]>>
          BY <3>1, Zenon DEF ReadsError, D, code
        <4>2. \A q \in {<<b, s>>} : q[1] = b /\ q[2] = s
          OBVIOUS
        <4>3. ASSUME NEW p, NEW e \in D, code[e] = Number(b), p = <<e, s>>
              PROVE  ReadsError(p, t, v)
          <5>1. <<b, s>> \in {<<b, s>>} /\ <<b, s>>[1] = b /\ <<b, s>>[2] = s
            OBVIOUS
          <5>2. code[e] = Number(<<b, s>>[1]) /\ p = <<e, <<b, s>>[2]>>
            BY <4>3, <5>1, Zenon
          <5> QED
            BY <4>1, <5>1, <5>2, Zenon
        <4>4. ASSUME NEW p, ReadsError(p, t, v)
              PROVE  \E e \in D : code[e] = Number(b) /\ p = <<e, s>>
          <5>1. PICK q \in {<<b, s>>}, e \in D : code[e] = Number(q[1]) /\ p = <<e, q[2]>>
            BY <4>1, <4>4, Zenon
          <5>2. q[1] = b /\ q[2] = s
            BY <4>2
          <5> QED
            BY <5>1, <5>2
        <4> QED
          BY <4>3, <4>4, Zenon
      <3> QED
        BY <1>3, <3>1, <3>2, Zenon DEF t
    <2>5. \A p : p \in c.read[b \o s] <=> p = <<x, s>>
      BY <1>4, <2>1, <2>2, <2>4
    <2> QED
      BY <2>1, <2>5
  <1>8. ReadsOnly(c, c)
    <2> SUFFICES ASSUME NEW s \in Bytes, NEW p \in c.read[s]
                 PROVE  \E x \in ReportErrors : \E b \in c.write[x] : \E r \in Bytes :
                            p = <<x, r>> /\ s = b \o r
      BY <1>1 DEF ReadsOnly
    <2>1. PICK q \in ReadBytes(s, 1), e \in D : code[e] = Number(q[1]) /\ p = <<e, q[2]>>
      BY <1>3, Zenon DEF ReadsError, D, code
    <2>2. PICK b \in Bytes, r \in Bytes : q = <<b, r>> /\ Len(b) = 1 /\ s = b \o r
      BY ReadIsSplit, 1 \in Nat
    <2>3. b = <<code[e]>> /\ p = <<e, r>>
      BY <2>1, <2>2, OneByte
    <2>4. e \in ReportErrors /\ b \in c.write[e]
      BY <1>2, <1>4, <2>3
    <2> QED
      BY <2>2, <2>3, <2>4
  <1> QED
    BY <1>6, <1>7, <1>8 DEF Fits, Narrows, c

\* Turning bytes round twice gives them back.
LEMMA MirrorIs ==
    ASSUME NEW s \in Bytes
    PROVE  Mirror(s) \in Bytes /\ Len(Mirror(s)) = Len(s) /\ Mirror(Mirror(s)) = s
  <1>1. ASSUME NEW t \in Bytes
        PROVE  /\ Mirror(t) \in Bytes /\ Len(Mirror(t)) = Len(t)
               /\ \A i \in 1..Len(t) : Mirror(t)[i] = t[Len(t) + 1 - i]
    <2> DEFINE n == Len(t)
    <2>1. n \in Nat /\ \A i \in 1..n : t[i] \in Byte
      BY LenProperties, ElementOfSeq DEF Bytes
    <2>2. Mirror(t) = [i \in 1..n |-> t[n + 1 - i]]
      BY DEF Mirror
    <2>3. \A i \in 1..n : n + 1 - i \in 1..n
      BY <2>1
    <2> HIDE DEF n
    <2>4. Mirror(t) \in [1..n -> Byte]
      BY <2>1, <2>2, <2>3
    <2>5. Mirror(t) \in Seq(Byte) /\ Len(Mirror(t)) = n
      BY <2>1, <2>4
    <2> QED
      BY <2>2, <2>5 DEF n, Bytes
  <1> DEFINE t == Mirror(s)
             u == Mirror(t)
             n == Len(s)
  <1>2. /\ t \in Bytes /\ Len(t) = n /\ \A i \in 1..n : t[i] = s[n + 1 - i]
    BY <1>1
  <1>3. /\ u \in Bytes /\ Len(u) = n /\ \A i \in 1..n : u[i] = t[n + 1 - i]
    BY <1>1, <1>2
  <1>4. n \in Nat
    BY LenProperties DEF Bytes
  <1> HIDE DEF t, u, n
  <1>5. \A i \in 1..n : n + 1 - i \in 1..n /\ n + 1 - (n + 1 - i) = i
    BY <1>4
  <1>6. \A i \in 1..n : u[i] = s[i]
    BY <1>2, <1>3, <1>5
  <1>7. u = s
    BY <1>3, <1>6, SeqEqual DEF Bytes, n
  <1> QED
    BY <1>2, <1>7 DEF t, u, n

Elts == 0..(Modulus - 1)

\* Both directions of Element.
LEMMA ElementIs ==
    /\ Values(Element) = Elts
    /\ \A x \in Elts : Element.write[x] = {Mirror(BigEndian(x, EltSize))}
    /\ \A s \in Bytes : Element.read[s] =
          {p \in {<<Number(Mirror(r[1])), r[2]>> : r \in ReadBytes(s, EltSize)} : p[1] < Modulus}
  BY DEF Element, Values, Elts

\* Elements fit: below the modulus a number has one encoding, and its value is
\* checked against the modulus when it is read.
LEMMA FitsElement == Fits(Element, Element, Bytes) /\ Nonempty(Element)
  <1> DEFINE c == Element
             Enc(x) == Mirror(BigEndian(x, EltSize))
  <1>1. Values(c) = Elts /\ \A x \in Elts : c.write[x] = {Enc(x)}
    BY ElementIs, Zenon
  <1>2. \A s \in Bytes : c.read[s] =
          {p \in {<<Number(Mirror(r[1])), r[2]>> : r \in ReadBytes(s, EltSize)} : p[1] < Modulus}
    BY ElementIs, Zenon
  <1>3. Modulus \in Nat /\ EltSize \in Nat /\ EltSize # 0 /\ RadixTo[EltSize] \in Nat
    BY EltAssumption, RadixPowers
  <1>4. ASSUME NEW x \in Elts
        PROVE  /\ Enc(x) \in Bytes /\ Len(Enc(x)) = EltSize
               /\ Number(Mirror(Enc(x))) = x /\ x \in Nat /\ x < Modulus
    <2> DEFINE e == BigEndian(x, EltSize)
    <2>1. x \in Nat /\ x < Modulus /\ x < RadixTo[EltSize]
      BY <1>3, EltAssumption DEF Elts
    <2>2. e \in Bytes /\ Len(e) = EltSize /\ Number(e) = x
      BY <1>3, <2>1, BigEndianIs, NumberOf
    <2> HIDE DEF e
    <2>3. Mirror(e) \in Bytes /\ Len(Mirror(e)) = EltSize /\ Mirror(Mirror(e)) = e
      BY <2>2, MirrorIs
    <2> QED
      BY <2>1, <2>2, <2>3 DEF e
  <1> HIDE DEF c, Enc
  <1>5. Encodes(c) /\ OneEncoding(c)
    BY <1>1, <1>4 DEF Encodes, OneEncoding
  <1>6. ReadsBack(c, c, Bytes)
    <2> SUFFICES ASSUME NEW x \in Elts, NEW b \in c.write[x], NEW s \in Bytes
                 PROVE  c.read[b \o s] = IF c.write[x] = {} THEN {} ELSE {<<x, s>>}
      BY <1>1 DEF ReadsBack
    <2>1. /\ b \in Bytes /\ Len(b) = EltSize /\ Number(Mirror(b)) = x /\ x < Modulus
          /\ c.write[x] # {}
      BY <1>1, <1>4
    <2>2. b \o s \in Bytes /\ ReadBytes(b \o s, EltSize) = {<<b, s>>}
      BY <2>1, Concat, ReadFront
    <2>3. c.read[b \o s] =
             {p \in {<<Number(Mirror(r[1])), r[2]>> : r \in {<<b, s>>}} : p[1] < Modulus}
      BY <1>2, <2>2
    <2>4. {<<Number(Mirror(r[1])), r[2]>> : r \in {<<b, s>>}} = {<<Number(Mirror(b)), s>>}
      OBVIOUS
    <2>5. c.read[b \o s] = {p \in {<<x, s>>} : p[1] < Modulus}
      BY <2>1, <2>3, <2>4
    <2> QED
      BY <2>1, <2>5
  <1>7. ReadsOnly(c, c)
    <2> SUFFICES ASSUME NEW s \in Bytes, NEW p \in c.read[s]
                 PROVE  \E x \in Elts : \E b \in c.write[x] : \E r \in Bytes :
                            p = <<x, r>> /\ s = b \o r
      BY <1>1 DEF ReadsOnly
    <2>1. PICK q \in ReadBytes(s, EltSize) : p = <<Number(Mirror(q[1])), q[2]>> /\ p[1] < Modulus
      BY <1>2
    <2>2. PICK b \in Bytes, r \in Bytes : q = <<b, r>> /\ Len(b) = EltSize /\ s = b \o r
      BY <1>3, ReadIsSplit
    <2> DEFINE m == Mirror(b)
               x == Number(m)
    <2>3. m \in Bytes /\ Len(m) = EltSize /\ Mirror(m) = b
      BY <2>2, MirrorIs
    <2>4. x \in Nat /\ BigEndian(x, EltSize) = m
      BY <2>3, DigitsOf
    <2>5. p = <<x, r>> /\ x < Modulus
      BY <2>1, <2>2
    <2>6. x \in Elts /\ b = Enc(x)
      BY <1>3, <2>3, <2>4, <2>5 DEF Elts, Enc
    <2> HIDE DEF m, x
    <2>7. b \in c.write[x]
      BY <1>1, <2>6
    <2> QED
      BY <2>2, <2>5, <2>6, <2>7
  <1>8. Nonempty(c)
    BY <1>1, <1>3, <1>4, NoBytes DEF Nonempty
  <1> QED
    BY <1>5, <1>6, <1>7, <1>8 DEF Fits, Narrows, c

\* A reader that refuses everything fits any writer: it would write nothing.
LEMMA FitsRefused ==
    ASSUME NEW c, NEW T, Encodes(c), OneEncoding(c), T \subseteq Bytes
    PROVE  Fits(c, Refused(c), T)
  <1> DEFINE i == Refused(c)
  <1>1. /\ Values(i) = Values(c)
        /\ \A x \in Values(c) : i.write[x] = {}
        /\ \A s \in Bytes : i.read[s] = {}
    BY DEF Refused, Values
  <1> HIDE DEF i
  <1>2. \A x \in Values(c) : \A b \in c.write[x] : \A s \in T : b \o s \in Bytes
    BY Concat DEF Encodes
  <1> QED
    BY <1>1, <1>2 DEF Fits, Narrows, Encodes, ReadsBack, ReadsOnly, i

-----------------------------------------------------------------------------
(* Types with parts.                                                        *)

\* m is an encoding of A followed by one of B.
Joined(m, A, B) == \E p \in A : \E q \in B : m = p \o q

\* z is read off s: what a reads, and what b reads behind it.
ReadsPair(z, a, b, s) ==
    \E g \in a.read[s] : \E h \in b.read[g[2]] : z = <<<<g[1], h[1]>>, h[2]>>

\* Both directions of a sequence of two fields.
LEMMA PairIs ==
    ASSUME NEW a, NEW b
    PROVE  /\ Values(a ** b) = Values(a) \X Values(b)
           /\ \A x \in Values(a), y \in Values(b) : \A m :
                  m \in (a ** b).write[<<x, y>>] <=> Joined(m, a.write[x], b.write[y])
           /\ \A s \in Bytes : \A z : z \in (a ** b).read[s] <=> ReadsPair(z, a, b, s)
  <1> DEFINE V == Values(a) \X Values(b)
             W(x) == {p \o q : p \in a.write[x[1]], q \in b.write[x[2]]}
             R(s) == UNION {{<<<<p[1], q[1]>>, q[2]>> : q \in b.read[p[2]]} : p \in a.read[s]}
  <1>0. a ** b = Followed(a, b)
    BY Zenon DEF **
  <1>1. \A x, m : m \in W(x) <=> Joined(m, a.write[x[1]], b.write[x[2]])
    BY DEF Joined
  <1>2. \A s, z : z \in R(s) <=> ReadsPair(z, a, b, s)
    BY DEF ReadsPair
  <1>3. a ** b = [write |-> [x \in V |-> W(x)], read |-> [s \in Bytes |-> R(s)]]
    BY <1>0 DEF Followed
  <1> HIDE DEF V, W, R
  <1>4. (a ** b).write = [x \in V |-> W(x)] /\ (a ** b).read = [s \in Bytes |-> R(s)]
    BY <1>3
  <1>5. Values(a ** b) = V
    BY <1>4 DEF Values
  <1>6. ASSUME NEW x \in Values(a), NEW y \in Values(b), NEW m
        PROVE  m \in (a ** b).write[<<x, y>>] <=> Joined(m, a.write[x], b.write[y])
    <2>1. <<x, y>> \in V /\ <<x, y>>[1] = x /\ <<x, y>>[2] = y
      BY DEF V
    <2>2. (a ** b).write[<<x, y>>] = W(<<x, y>>)
      BY <1>4, <2>1
    <2>3. m \in W(<<x, y>>) <=> Joined(m, a.write[<<x, y>>[1]], b.write[<<x, y>>[2]])
      BY <1>1, Zenon
    <2> QED
      BY <2>1, <2>2, <2>3
  <1>7. ASSUME NEW s \in Bytes, NEW z
        PROVE  z \in (a ** b).read[s] <=> ReadsPair(z, a, b, s)
    BY <1>2, <1>4
  <1> QED
    BY <1>5, <1>6, <1>7 DEF V

\* Fields one after the other fit when each fits; the first must read back
\* whatever follows, for the second does follow.
LEMMA FitsPair ==
    ASSUME NEW a, NEW b, NEW c, NEW d, NEW T, T \subseteq Bytes,
           Fits(a, c, Bytes), Fits(b, d, T)
    PROVE  /\ Fits(a ** b, c ** d, T)
           /\ Nonempty(a) \/ Nonempty(b) => Nonempty(a ** b)
  <1> DEFINE o == a ** b
             i == c ** d
  <1>1. /\ Values(o) = Values(a) \X Values(b)
        /\ \A x \in Values(a), y \in Values(b) :
              \A m : m \in o.write[<<x, y>>] <=> Joined(m, a.write[x], b.write[y])
    BY PairIs, Zenon
  <1>2. /\ Values(i) = Values(c) \X Values(d)
        /\ \A x \in Values(c), y \in Values(d) :
              \A m : m \in i.write[<<x, y>>] <=> Joined(m, c.write[x], d.write[y])
    BY PairIs, Zenon
  <1>3. \A s \in Bytes : \A z : z \in i.read[s] <=> ReadsPair(z, c, d, s)
    BY PairIs, Zenon
  <1> HIDE DEF o, i
  <1>4. Values(a) = Values(c) /\ Values(b) = Values(d) /\ Values(o) = Values(i)
    BY <1>1, <1>2 DEF Fits
  <1>5. /\ \A x \in Values(a) : a.write[x] \subseteq Bytes /\ c.write[x] \subseteq Bytes
        /\ \A y \in Values(b) : b.write[y] \subseteq Bytes /\ d.write[y] \subseteq Bytes
    BY <1>4 DEF Fits, Encodes
  <1>6. Encodes(o)
    <2> SUFFICES ASSUME NEW x \in Values(a), NEW y \in Values(b), NEW m \in o.write[<<x, y>>]
                 PROVE  m \in Bytes
      BY <1>1 DEF Encodes
    <2>1. PICK p \in a.write[x], q \in b.write[y] : m = p \o q
      <3>1. Joined(m, a.write[x], b.write[y])
        BY <1>1
      <3> QED
        BY <3>1, Zenon DEF Joined
    <2> QED
      BY <1>5, <2>1, Concat
  <1>7. Encodes(i)
    <2> SUFFICES ASSUME NEW x \in Values(c), NEW y \in Values(d), NEW m \in i.write[<<x, y>>]
                 PROVE  m \in Bytes
      BY <1>2 DEF Encodes
    <2>1. PICK p \in c.write[x], q \in d.write[y] : m = p \o q
      <3>1. Joined(m, c.write[x], d.write[y])
        BY <1>2
      <3> QED
        BY <3>1, Zenon DEF Joined
    <2> QED
      BY <1>4, <1>5, <2>1, Concat
  <1>8. OneEncoding(o)
    <2> SUFFICES ASSUME NEW x \in Values(a), NEW y \in Values(b), NEW m \in o.write[<<x, y>>]
                 PROVE  o.write[<<x, y>>] = {m}
      BY <1>1 DEF OneEncoding
    <2>1. PICK p \in a.write[x], q \in b.write[y] : m = p \o q
      <3>1. Joined(m, a.write[x], b.write[y])
        BY <1>1
      <3> QED
        BY <3>1, Zenon DEF Joined
    <2>2. a.write[x] = {p} /\ b.write[y] = {q}
      BY DEF Fits, OneEncoding
    <2>3. \A n \in o.write[<<x, y>>] : n = m
      <3>1. ASSUME NEW n \in o.write[<<x, y>>] PROVE n = m
        <4>1. Joined(n, a.write[x], b.write[y])
          BY <1>1, <3>1
        <4>2. PICK u \in a.write[x], v \in b.write[y] : n = u \o v
          BY <4>1, Zenon DEF Joined
        <4> QED
          BY <2>1, <2>2, <4>2
      <3> QED
        BY <3>1
    <2> QED
      BY <2>3
  <1>9. ReadsBack(o, i, T)
    <2> SUFFICES ASSUME NEW x \in Values(a), NEW y \in Values(b), NEW m \in o.write[<<x, y>>],
                        NEW s \in T
                 PROVE  i.read[m \o s] =
                            IF i.write[<<x, y>>] = {} THEN {} ELSE {<<<<x, y>>, s>>}
      BY <1>1 DEF ReadsBack
    <2>1. PICK p \in a.write[x], q \in b.write[y] : m = p \o q
      <3>1. Joined(m, a.write[x], b.write[y])
        BY <1>1
      <3> QED
        BY <3>1, Zenon DEF Joined
    <2> DEFINE r == q \o s
               t == m \o s
    <2>2. p \in Bytes /\ q \in Bytes /\ s \in Bytes
      BY <1>5
    <2>3. r \in Bytes /\ t \in Bytes /\ t = p \o r
      BY <2>1, <2>2, Concat, ConcatAssoc
    <2>4. d.read[r] = IF d.write[y] = {} THEN {} ELSE {<<y, s>>}
      BY DEF Fits, ReadsBack
    <2> HIDE DEF r
    <2>5. c.read[t] = IF c.write[x] = {} THEN {} ELSE {<<x, r>>}
      <3>1. c.read[p \o r] = IF c.write[x] = {} THEN {} ELSE {<<x, r>>}
        <4>1. ReadsBack(a, c, Bytes)
          BY DEF Fits
        <4> QED
          BY <2>3, <4>1, Zenon DEF ReadsBack
      <3> QED
        BY <2>3, <3>1
    <2> HIDE DEF t
    <2>6. \A z : z \in i.read[t] <=> ReadsPair(z, c, d, t)
      BY <1>3, <2>3
    <2>7. i.write[<<x, y>>] = {} <=> c.write[x] = {} \/ d.write[y] = {}
      <3>1. \A n : n \in i.write[<<x, y>>] <=> Joined(n, c.write[x], d.write[y])
        BY <1>2, <1>4
      <3> QED
        BY <3>1, Zenon DEF Joined
    <2>8. CASE c.write[x] = {}
      <3>1. c.read[t] = {} /\ i.write[<<x, y>>] = {}
        BY <2>5, <2>7, <2>8
      <3>2. i.read[t] = {}
        BY <2>6, <3>1 DEF ReadsPair
      <3> QED
        BY <3>1, <3>2 DEF t
    <2>9. CASE c.write[x] # {} /\ d.write[y] = {}
      <3>1. c.read[t] = {<<x, r>>} /\ d.read[r] = {} /\ i.write[<<x, y>>] = {}
        BY <2>4, <2>5, <2>7, <2>9
      <3>2. i.read[t] = {}
        BY <2>6, <3>1 DEF ReadsPair
      <3> QED
        BY <3>1, <3>2 DEF t
    <2>10. CASE c.write[x] # {} /\ d.write[y] # {}
      <3>1. c.read[t] = {<<x, r>>} /\ d.read[r] = {<<y, s>>} /\ i.write[<<x, y>>] # {}
        BY <2>4, <2>5, <2>7, <2>10
      <3>2. \A z : ReadsPair(z, c, d, t) <=> z = <<<<x, y>>, s>>
        <4>1. ASSUME NEW z, ReadsPair(z, c, d, t) PROVE z = <<<<x, y>>, s>>
          <5>1. PICK g \in c.read[t] : \E h \in d.read[g[2]] : z = <<<<g[1], h[1]>>, h[2]>>
            BY <4>1 DEF ReadsPair
          <5>2. g[1] = x /\ g[2] = r
            BY <3>1
          <5>3. PICK h \in d.read[r] : z = <<<<x, h[1]>>, h[2]>>
            BY <5>1, <5>2
          <5>4. h[1] = y /\ h[2] = s
            BY <3>1
          <5> QED
            BY <5>3, <5>4
        <4>2. ReadsPair(<<<<x, y>>, s>>, c, d, t)
          <5> DEFINE g == <<x, r>>
                     h == <<y, s>>
          <5>1. g[1] = x /\ g[2] = r /\ h[1] = y /\ h[2] = s
            OBVIOUS
          <5>2. g \in c.read[t] /\ h \in d.read[r]
            BY <3>1
          <5> HIDE DEF g, h
          <5> QED
            BY <5>1, <5>2, Zenon DEF ReadsPair
        <4> QED
          BY <4>1, <4>2
      <3>3. i.read[t] = {<<<<x, y>>, s>>}
        BY <2>6, <3>2
      <3> QED
        BY <3>1, <3>3 DEF t
    <2> QED
      BY <2>8, <2>9, <2>10
  <1>10. ReadsOnly(o, i)
    <2> SUFFICES ASSUME NEW s \in Bytes, NEW z \in i.read[s]
                 PROVE  \E x \in Values(o) : \E m \in o.write[x] : \E r \in Bytes :
                            z = <<x, r>> /\ s = m \o r
      BY DEF ReadsOnly
    <2>1. PICK g \in c.read[s] : \E h \in d.read[g[2]] : z = <<<<g[1], h[1]>>, h[2]>>
      BY <1>3 DEF ReadsPair
    <2>2. PICK x \in Values(a) : \E p \in a.write[x] : \E t \in Bytes : g = <<x, t>> /\ s = p \o t
      BY DEF Fits, ReadsOnly
    <2>3. PICK p \in a.write[x], t \in Bytes : g = <<x, t>> /\ s = p \o t
      BY <2>2
    <2>4. PICK h \in d.read[t] : z = <<<<x, h[1]>>, h[2]>>
      BY <2>1, <2>3
    <2>5. PICK y \in Values(b) : \E q \in b.write[y] : \E r \in Bytes : h = <<y, r>> /\ t = q \o r
      BY DEF Fits, ReadsOnly
    <2>6. PICK q \in b.write[y], r \in Bytes : h = <<y, r>> /\ t = q \o r
      BY <2>5
    <2>7. p \in Bytes /\ q \in Bytes
      BY <1>5
    <2>8. p \o (q \o r) = (p \o q) \o r
      BY <2>7, ConcatAssoc, ZenonT(30)
    <2>9. s = (p \o q) \o r /\ z = <<<<x, y>>, r>>
      BY <2>3, <2>4, <2>6, <2>8
    <2>10. <<x, y>> \in Values(o) /\ p \o q \in o.write[<<x, y>>]
      BY <1>1 DEF Joined
    <2> QED
      BY <2>9, <2>10
  <1>11. ASSUME Nonempty(a) \/ Nonempty(b) PROVE Nonempty(o)
    <2> SUFFICES ASSUME NEW x \in Values(a), NEW y \in Values(b), NEW m \in o.write[<<x, y>>]
                 PROVE  m # <<>>
      BY <1>1 DEF Nonempty
    <2>1. PICK p \in a.write[x], q \in b.write[y] : m = p \o q
      <3>1. Joined(m, a.write[x], b.write[y])
        BY <1>1
      <3> QED
        BY <3>1, Zenon DEF Joined
    <2>2. p \in Bytes /\ q \in Bytes
      BY <1>5
    <2>3. p # <<>> \/ q # <<>>
      BY <1>11 DEF Nonempty
    <2>4. p \o q = <<>> => p = <<>> /\ q = <<>>
      BY <2>2, ConcatEqualIffEmpty DEF Bytes
    <2> QED
      BY <2>1, <2>3, <2>4
  <1>12. Narrows(o, i)
    <2> SUFFICES ASSUME NEW x \in Values(a), NEW y \in Values(b), NEW m \in i.write[<<x, y>>]
                 PROVE  m \in o.write[<<x, y>>]
      BY <1>1 DEF Narrows
    <2>1. Joined(m, c.write[x], d.write[y])
      BY <1>2, <1>4
    <2>2. c.write[x] \subseteq a.write[x] /\ d.write[y] \subseteq b.write[y]
      BY DEF Fits, Narrows
    <2>3. Joined(m, a.write[x], b.write[y])
      BY <2>1, <2>2, Zenon DEF Joined
    <2> QED
      BY <1>1, <2>3
  <1> QED
    BY <1>4, <1>6, <1>7, <1>8, <1>9, <1>10, <1>11, <1>12 DEF Fits, o, i

\* m is the type byte t before an encoding of A.
Tagged(m, t, A) == \E b \in A : m = <<t>> \o b

\* z is read off s: a known type, and what its case reads behind it.
ReadsCase(z, s, c0, c1, c2) ==
    \E p \in ReadBytes(s, 1) :
        /\ Number(p[1]) \in 0..2
        /\ \E q \in Case(Number(p[1]), c0, c1, c2).read[p[2]] : z = <<<<Number(p[1]), q[1]>>, q[2]>>

\* Both directions of Select.
LEMMA SelectIs ==
    ASSUME NEW c0, NEW c1, NEW c2, NEW lax
    PROVE  LET S == Select(c0, c1, c2, lax)
               C(t) == Case(t, c0, c1, c2)
           IN  /\ \A x \in Values(S) : \/ \E t \in 0..2 : \E f \in Values(C(t)) : x = <<t, f>>
                                       \/ \E t \in Byte \ 0..2 : x = <<t, <<>>>>
               /\ \A t \in 0..2 : \A f \in Values(C(t)) : <<t, f>> \in Values(S)
               /\ \A t \in Byte \ 0..2 : <<t, <<>>>> \in Values(S)
               /\ \A t \in 0..2 : \A f \in Values(C(t)) : \A m :
                      m \in S.write[<<t, f>>] <=> Tagged(m, t, C(t).write[f])
               /\ \A t \in Byte \ 0..2 : S.write[<<t, <<>>>>] = IF lax THEN {<<t>>} ELSE {}
               /\ \A s \in Bytes : \A z : z \in S.read[s] <=> ReadsCase(z, s, c0, c1, c2)
  <1> DEFINE S == Select(c0, c1, c2, lax)
             C(t) == Case(t, c0, c1, c2)
             V == Variant(c0, c1, c2)
             W(x) == IF x[1] \in 0..2 THEN {<<x[1]>> \o b : b \in C(x[1]).write[x[2]]}
                     ELSE IF lax THEN {<<x[1]>>} ELSE {}
             R(s) == UNION {{<<<<Number(p[1]), q[1]>>, q[2]>> : q \in C(Number(p[1])).read[p[2]]} :
                                p \in {r \in ReadBytes(s, 1) : Number(r[1]) \in 0..2}}
  <1>1. S = [write |-> [x \in V |-> W(x)], read |-> [s \in Bytes |-> R(s)]]
    BY DEF Select
  <1>2. C(0) = c0 /\ C(1) = c1 /\ C(2) = c2
    BY DEF Case
  <1>3. V = ({0} \X Values(c0)) \union ({1} \X Values(c1)) \union ({2} \X Values(c2))
                \union ((Byte \ 0..2) \X {<<>>})
    BY DEF Variant
  <1> HIDE DEF C, V
  <1>4. \A s, z : z \in R(s) <=> ReadsCase(z, s, c0, c1, c2)
    BY DEF ReadsCase, C
  <1>5. \A x \in V : \/ \E t \in 0..2 : \E f \in Values(C(t)) : x = <<t, f>>
                     \/ \E t \in Byte \ 0..2 : x = <<t, <<>>>>
    <2> SUFFICES ASSUME NEW x \in V
                 PROVE  \/ \E t \in 0..2 : \E f \in Values(C(t)) : x = <<t, f>>
                        \/ \E t \in Byte \ 0..2 : x = <<t, <<>>>>
      OBVIOUS
    <2>1. ASSUME NEW t \in 0..2, x \in {t} \X Values(C(t))
          PROVE  \E f \in Values(C(t)) : x = <<t, f>>
      BY <2>1
    <2>2. ASSUME x \in (Byte \ 0..2) \X {<<>>}
          PROVE  \E t \in Byte \ 0..2 : x = <<t, <<>>>>
      BY <2>2
    <2>3. \/ x \in {0} \X Values(C(0)) \/ x \in {1} \X Values(C(1)) \/ x \in {2} \X Values(C(2))
          \/ x \in (Byte \ 0..2) \X {<<>>}
      BY <1>2, <1>3
    <2>4. 0 \in 0..2 /\ 1 \in 0..2 /\ 2 \in 0..2
      OBVIOUS
    <2> QED
      BY <2>1, <2>2, <2>3, <2>4, Zenon
  <1>6. ASSUME NEW t \in 0..2, NEW f \in Values(C(t)) PROVE <<t, f>> \in V
    <2>1. t = 0 \/ t = 1 \/ t = 2
      OBVIOUS
    <2>2. <<t, f>> \in {t} \X Values(C(t))
      OBVIOUS
    <2> QED
      BY <1>2, <1>3, <2>1, <2>2
  <1>7. ASSUME NEW t \in Byte \ 0..2 PROVE <<t, <<>>>> \in V
    BY <1>3
  <1> HIDE DEF W, R
  <1>8. S.write = [x \in V |-> W(x)] /\ S.read = [s \in Bytes |-> R(s)]
    BY <1>1
  <1>9. Values(S) = V
    BY <1>8 DEF Values
  <1>10. ASSUME NEW t \in 0..2, NEW f \in Values(C(t)), NEW m
         PROVE  m \in S.write[<<t, f>>] <=> Tagged(m, t, C(t).write[f])
    <2>1. S.write[<<t, f>>] = W(<<t, f>>)
      BY <1>6, <1>8
    <2>2. W(<<t, f>>) = {<<t>> \o b : b \in C(t).write[f]}
      BY DEF W
    <2> QED
      BY <2>1, <2>2 DEF Tagged
  <1>11. ASSUME NEW t \in Byte \ 0..2
         PROVE  S.write[<<t, <<>>>>] = IF lax THEN {<<t>>} ELSE {}
    <2>1. S.write[<<t, <<>>>>] = W(<<t, <<>>>>)
      BY <1>7, <1>8
    <2> QED
      BY <2>1 DEF W
  <1>12. ASSUME NEW s \in Bytes, NEW z
         PROVE  z \in S.read[s] <=> ReadsCase(z, s, c0, c1, c2)
    BY <1>4, <1>8
  <1> QED
    BY <1>5, <1>6, <1>7, <1>9, <1>10, <1>11, <1>12, Zenon DEF C

\* What Select writes for an unknown type.
LEMMA SelectUnknown ==
    ASSUME NEW c0, NEW c1, NEW c2, NEW lax, NEW t \in Byte \ 0..2
    PROVE  Select(c0, c1, c2, lax).write[<<t, <<>>>>] = IF lax THEN {<<t>>} ELSE {}
  BY SelectIs, ZenonT(30)

\* The values of Select: a known type with its fields, or an unknown one alone.
LEMMA SelectValues ==
    ASSUME NEW c0, NEW c1, NEW c2, NEW lax, NEW x \in Values(Select(c0, c1, c2, lax))
    PROVE  \/ \E t \in 0..2 : \E f \in Values(Case(t, c0, c1, c2)) : x = <<t, f>>
           \/ \E t \in Byte \ 0..2 : x = <<t, <<>>>>
  BY SelectIs

\* Tagged messages fit when every case does.  A lax writer puts out types that the
\* reader refuses, and the reader would not write them.
LEMMA FitsSelect ==
    ASSUME NEW a0, NEW a1, NEW a2, NEW b0, NEW b1, NEW b2, NEW lax, NEW strict, ~strict,
           Fits(a0, b0, Bytes), Fits(a1, b1, Bytes), Fits(a2, b2, Bytes)
    PROVE  LET o == Select(a0, a1, a2, lax)
               i == Select(b0, b1, b2, strict)
           IN  Fits(o, i, Bytes) /\ Nonempty(o)
  <1> DEFINE o == Select(a0, a1, a2, lax)
             i == Select(b0, b1, b2, strict)
             A(t) == Case(t, a0, a1, a2)
             B(t) == Case(t, b0, b1, b2)
  <1>1. ASSUME NEW t \in 0..2
        PROVE  /\ Values(A(t)) = Values(B(t)) /\ Encodes(A(t)) /\ Encodes(B(t))
               /\ OneEncoding(A(t)) /\ ReadsBack(A(t), B(t), Bytes) /\ ReadsOnly(A(t), B(t))
               /\ Narrows(A(t), B(t))
    <2>1. \/ A(t) = a0 /\ B(t) = b0
          \/ A(t) = a1 /\ B(t) = b1
          \/ A(t) = a2 /\ B(t) = b2
      BY DEF Case
    <2>2. Fits(A(t), B(t), Bytes)
      BY <2>1
    <2> QED
      BY <2>2, Zenon DEF Fits
  <1>2. /\ \A x \in Values(o) : \/ \E t \in 0..2 : \E f \in Values(A(t)) : x = <<t, f>>
                                \/ \E t \in Byte \ 0..2 : x = <<t, <<>>>>
        /\ \A t \in 0..2 : \A f \in Values(A(t)) : <<t, f>> \in Values(o)
        /\ \A t \in Byte \ 0..2 : <<t, <<>>>> \in Values(o)
    <2>1. \A x \in Values(o) : \/ \E t \in 0..2 : \E f \in Values(A(t)) : x = <<t, f>>
                               \/ \E t \in Byte \ 0..2 : x = <<t, <<>>>>
      BY SelectValues
    <2>2. \A t \in 0..2 : \A f \in Values(A(t)) : <<t, f>> \in Values(o)
      BY SelectIs, ZenonT(30)
    <2>3. \A t \in Byte \ 0..2 : <<t, <<>>>> \in Values(o)
      BY SelectIs, ZenonT(30)
    <2> QED
      BY <2>1, <2>2, <2>3, Zenon
  <1>3. /\ \A x \in Values(i) : \/ \E t \in 0..2 : \E f \in Values(B(t)) : x = <<t, f>>
                                \/ \E t \in Byte \ 0..2 : x = <<t, <<>>>>
        /\ \A t \in 0..2 : \A f \in Values(B(t)) : <<t, f>> \in Values(i)
        /\ \A t \in Byte \ 0..2 : <<t, <<>>>> \in Values(i)
    <2>1. ASSUME NEW x \in Values(i)
          PROVE  \/ \E t \in 0..2 : \E f \in Values(B(t)) : x = <<t, f>>
                 \/ \E t \in Byte \ 0..2 : x = <<t, <<>>>>
      BY SelectValues
    <2>2. \A t \in 0..2 : \A f \in Values(B(t)) : <<t, f>> \in Values(i)
      BY SelectIs, ZenonT(30)
    <2>3. \A t \in Byte \ 0..2 : <<t, <<>>>> \in Values(i)
      BY SelectIs, ZenonT(30)
    <2> QED
      BY <2>1, <2>2, <2>3, Zenon
  <1>4. /\ \A t \in 0..2 : \A f \in Values(A(t)) : \A m :
               m \in o.write[<<t, f>>] <=> Tagged(m, t, A(t).write[f])
        /\ \A t \in Byte \ 0..2 : o.write[<<t, <<>>>>] = IF lax THEN {<<t>>} ELSE {}
    <2>1. \A t \in 0..2 : \A f \in Values(A(t)) : \A m :
               m \in o.write[<<t, f>>] <=> Tagged(m, t, A(t).write[f])
      BY SelectIs, ZenonT(30)
    <2>2. ASSUME NEW t \in Byte \ 0..2
          PROVE  o.write[<<t, <<>>>>] = IF lax THEN {<<t>>} ELSE {}
      BY SelectUnknown
    <2> QED
      BY <2>1, <2>2, Zenon
  <1>5. /\ \A t \in 0..2 : \A f \in Values(B(t)) : \A m :
               m \in i.write[<<t, f>>] <=> Tagged(m, t, B(t).write[f])
        /\ \A t \in Byte \ 0..2 : i.write[<<t, <<>>>>] = IF strict THEN {<<t>>} ELSE {}
    <2>1. \A t \in 0..2 : \A f \in Values(B(t)) : \A m :
               m \in i.write[<<t, f>>] <=> Tagged(m, t, B(t).write[f])
      BY SelectIs, ZenonT(30)
    <2>2. ASSUME NEW t \in Byte \ 0..2
          PROVE  i.write[<<t, <<>>>>] = IF strict THEN {<<t>>} ELSE {}
      BY SelectUnknown
    <2> QED
      BY <2>1, <2>2, Zenon
  <1>6. \A s \in Bytes : \A z : z \in i.read[s] <=> ReadsCase(z, s, b0, b1, b2)
    BY SelectIs, ZenonT(30)
  <1> HIDE DEF o, i
  <1>7. \A s, z : ReadsCase(z, s, b0, b1, b2) <=>
            \E p \in ReadBytes(s, 1) :
                /\ Number(p[1]) \in 0..2
                /\ \E q \in B(Number(p[1])).read[p[2]] : z = <<<<Number(p[1]), q[1]>>, q[2]>>
    BY Zenon DEF ReadsCase
  <1> HIDE DEF A, B
  <1>8. \A t \in 0..2 : t \in Byte
    BY RadixAssumption DEF Byte
  <1>9. Values(o) = Values(i)
    <2>1. \A t \in 0..2 : Values(A(t)) = Values(B(t))
      BY <1>1
    <2>2. ASSUME NEW x \in Values(o) PROVE x \in Values(i)
      <3>1. CASE \E t \in 0..2 : \E f \in Values(A(t)) : x = <<t, f>>
        BY <1>3, <2>1, <3>1
      <3>2. CASE \E t \in Byte \ 0..2 : x = <<t, <<>>>>
        BY <1>3, <3>2
      <3> QED
        BY <1>2, <3>1, <3>2
    <2>3. ASSUME NEW x \in Values(i) PROVE x \in Values(o)
      <3>1. CASE \E t \in 0..2 : \E f \in Values(B(t)) : x = <<t, f>>
        BY <1>2, <2>1, <3>1
      <3>2. CASE \E t \in Byte \ 0..2 : x = <<t, <<>>>>
        BY <1>2, <3>2
      <3> QED
        BY <1>3, <3>1, <3>2
    <2> QED
      BY <2>2, <2>3
  \* What o writes: a type byte and an encoding of its case, or the byte of an unknown type.
  <1>10. ASSUME NEW x \in Values(o), NEW m \in o.write[x]
         PROVE  \/ \E t \in 0..2 : \E f \in Values(A(t)) : \E b \in A(t).write[f] :
                       x = <<t, f>> /\ m = <<t>> \o b
                \/ \E t \in Byte \ 0..2 : x = <<t, <<>>>> /\ m = <<t>> /\ o.write[x] = {m}
    <2>1. CASE \E t \in 0..2 : \E f \in Values(A(t)) : x = <<t, f>>
      <3>0. PICK t \in 0..2 : \E f \in Values(A(t)) : x = <<t, f>>
        BY <2>1
      <3>1. PICK f \in Values(A(t)) : x = <<t, f>>
        BY <3>0
      <3>2. Tagged(m, t, A(t).write[f])
        BY <1>4, <3>1
      <3> QED
        BY <3>1, <3>2, Zenon DEF Tagged
    <2>2. CASE \E t \in Byte \ 0..2 : x = <<t, <<>>>>
      <3>1. PICK t \in Byte \ 0..2 : x = <<t, <<>>>>
        BY <2>2
      <3>2. o.write[x] = IF lax THEN {<<t>>} ELSE {}
        BY <1>4, <3>1
      <3>3. o.write[x] = {<<t>>}
        BY <3>2
      <3> QED
        BY <3>1, <3>3
    <2> QED
      BY <1>2, <2>1, <2>2
  <1>11. ASSUME NEW t \in 0..2, NEW f \in Values(A(t)), NEW b \in A(t).write[f]
         PROVE  /\ <<t>> \in Bytes /\ b \in Bytes /\ <<t>> \o b \in Bytes /\ <<t>> \o b # <<>>
                /\ Len(<<t>>) = 1 /\ Number(<<t>>) = t /\ A(t).write[f] = {b}
    <2>1. <<t>> \in Bytes /\ Len(<<t>>) = 1 /\ Number(<<t>>) = t /\ <<t>> # <<>>
      BY <1>8, OneByte
    <2>2. b \in Bytes /\ A(t).write[f] = {b}
      BY <1>1 DEF Encodes, OneEncoding
    <2> QED
      BY <2>1, <2>2, Concat
  <1>12. Encodes(o) /\ Nonempty(o)
    <2>1. ASSUME NEW x \in Values(o), NEW m \in o.write[x] PROVE m \in Bytes /\ m # <<>>
      <3>1. CASE \E t \in 0..2 : \E f \in Values(A(t)) : \E b \in A(t).write[f] :
                       x = <<t, f>> /\ m = <<t>> \o b
        <4>1. PICK t \in 0..2 : \E f \in Values(A(t)) : \E b \in A(t).write[f] : m = <<t>> \o b
          BY <3>1, Zenon
        <4>2. PICK f \in Values(A(t)) : \E b \in A(t).write[f] : m = <<t>> \o b
          BY <4>1, Zenon
        <4>3. PICK b \in A(t).write[f] : m = <<t>> \o b
          BY <4>2, Zenon
        <4> QED
          BY <1>11, <4>3
      <3>2. CASE \E t \in Byte \ 0..2 : x = <<t, <<>>>> /\ m = <<t>> /\ o.write[x] = {m}
        BY <3>2, OneByte
      <3> QED
        BY <1>10, <3>1, <3>2, Zenon
    <2> QED
      BY <2>1 DEF Encodes, Nonempty
  <1>13. OneEncoding(o)
    <2>1. ASSUME NEW x \in Values(o), NEW m \in o.write[x] PROVE o.write[x] = {m}
      <3>1. CASE \E t \in 0..2 : \E f \in Values(A(t)) : \E b \in A(t).write[f] :
                       x = <<t, f>> /\ m = <<t>> \o b
        <4>0. PICK t \in 0..2 : \E f \in Values(A(t)) : \E b \in A(t).write[f] :
                       x = <<t, f>> /\ m = <<t>> \o b
          BY <3>1, Zenon
        <4>6. PICK f \in Values(A(t)) : \E b \in A(t).write[f] : x = <<t, f>> /\ m = <<t>> \o b
          BY <4>0, Zenon
        <4>1. PICK b \in A(t).write[f] : x = <<t, f>> /\ m = <<t>> \o b
          BY <4>6, Zenon
        <4>2. A(t).write[f] = {b}
          BY <1>11
        <4>3. ASSUME NEW n \in o.write[x] PROVE n = m
          <5>1. Tagged(n, t, A(t).write[f])
            BY <1>4, <4>1
          <5>2. PICK e \in A(t).write[f] : n = <<t>> \o e
            BY <5>1, Zenon DEF Tagged
          <5> QED
            BY <4>1, <4>2, <5>2
        <4> QED
          BY <4>3
      <3>2. CASE \E t \in Byte \ 0..2 : x = <<t, <<>>>> /\ m = <<t>> /\ o.write[x] = {m}
        BY <3>2, Zenon
      <3>3. \/ \E t \in 0..2 : \E f \in Values(A(t)) : \E b \in A(t).write[f] :
                   x = <<t, f>> /\ m = <<t>> \o b
            \/ \E t \in Byte \ 0..2 : x = <<t, <<>>>> /\ m = <<t>> /\ o.write[x] = {m}
        BY <1>10, Zenon
      <3> QED
        BY <3>1, <3>2, <3>3, Zenon
    <2> QED
      BY <2>1 DEF OneEncoding
  <1>14. Encodes(i)
    <2>1. ASSUME NEW x \in Values(i), NEW m \in i.write[x] PROVE m \in Bytes
      <3>1. CASE \E t \in 0..2 : \E f \in Values(B(t)) : x = <<t, f>>
        <4>0. PICK t \in 0..2 : \E f \in Values(B(t)) : x = <<t, f>>
          BY <3>1
        <4>1. PICK f \in Values(B(t)) : x = <<t, f>>
          BY <4>0
        <4>2. Tagged(m, t, B(t).write[f])
          BY <1>5, <4>1
        <4>3. PICK b \in B(t).write[f] : m = <<t>> \o b
          BY <4>2, Zenon DEF Tagged
        <4>4. b \in Bytes
          BY <1>1 DEF Encodes
        <4> QED
          BY <1>8, <4>3, <4>4, OneByte, Concat
      <3>2. CASE \E t \in Byte \ 0..2 : x = <<t, <<>>>>
        BY <1>5, <3>2
      <3> QED
        BY <1>3, <3>1, <3>2
    <2> QED
      BY <2>1 DEF Encodes
  <1>15. ReadsBack(o, i, Bytes)
    <2> SUFFICES ASSUME NEW x \in Values(o), NEW m \in o.write[x], NEW s \in Bytes
                 PROVE  i.read[m \o s] = IF i.write[x] = {} THEN {} ELSE {<<x, s>>}
      BY DEF ReadsBack
    <2> DEFINE u == m \o s
    <2>1. u \in Bytes
      BY <1>12, Concat DEF Encodes
    <2>2. CASE \E t \in 0..2 : \E f \in Values(A(t)) : \E b \in A(t).write[f] :
                   x = <<t, f>> /\ m = <<t>> \o b
      <3>0. PICK t \in 0..2 : \E f \in Values(A(t)) : \E b \in A(t).write[f] :
                     x = <<t, f>> /\ m = <<t>> \o b
        BY <2>2, Zenon
      <3>11. PICK f \in Values(A(t)) : \E b \in A(t).write[f] : x = <<t, f>> /\ m = <<t>> \o b
        BY <3>0, Zenon
      <3>1. PICK b \in A(t).write[f] : x = <<t, f>> /\ m = <<t>> \o b
        BY <3>11, Zenon
      <3> DEFINE r == b \o s
      <3>2. <<t>> \in Bytes /\ b \in Bytes /\ Len(<<t>>) = 1 /\ Number(<<t>>) = t
        BY <1>11
      <3>3. r \in Bytes /\ u = <<t>> \o r
        <4>1. r \in Bytes
          BY <3>2, Concat
        <4>2. (<<t>> \o b) \o s = <<t>> \o (b \o s)
          BY <3>2, ConcatAssoc, ZenonT(30)
        <4> QED
          BY <3>1, <4>1, <4>2
      <3>4. B(t).read[r] = IF B(t).write[f] = {} THEN {} ELSE {<<f, s>>}
        <4>1. ReadsBack(A(t), B(t), Bytes)
          BY <1>1
        <4> QED
          BY <4>1, Zenon DEF ReadsBack
      <3> HIDE DEF r
      <3>5. ReadBytes(u, 1) = {<<<<t>>, r>>}
        BY <3>2, <3>3, ReadFront
      <3> HIDE DEF u
      <3>6. \A z : z \in i.read[u] <=> \E q \in B(t).read[r] : z = <<<<t, q[1]>>, q[2]>>
        <4> DEFINE p == <<<<t>>, r>>
        <4>1. p[1] = <<t>> /\ p[2] = r /\ p \in ReadBytes(u, 1) /\ \A g \in ReadBytes(u, 1) : g = p
          BY <3>5
        <4>2. Number(p[1]) = t
          BY <3>2, <4>1, Zenon
        <4> HIDE DEF p
        <4>3. ASSUME NEW z
              PROVE  z \in i.read[u] <=>
                        \E q \in B(Number(p[1])).read[p[2]] : z = <<<<Number(p[1]), q[1]>>, q[2]>>
          <5>1. z \in i.read[u] <=> ReadsCase(z, u, b0, b1, b2)
            BY <1>6, <2>1
          <5>2. Number(p[1]) \in 0..2
            BY <4>2
          <5>3. ReadsCase(z, u, b0, b1, b2) <=>
                    \E g \in ReadBytes(u, 1) :
                        /\ Number(g[1]) \in 0..2
                        /\ \E q \in B(Number(g[1])).read[g[2]] : z = <<<<Number(g[1]), q[1]>>, q[2]>>
            BY <1>7
          <5> QED
            BY <4>1, <5>1, <5>2, <5>3
        <4> QED
          BY <4>1, <4>2, <4>3
      <3>7. i.write[x] = {} <=> B(t).write[f] = {}
        <4>1. \A n : n \in i.write[x] <=> Tagged(n, t, B(t).write[f])
          BY <1>1, <1>5, <3>1
        <4> QED
          BY <4>1, Zenon DEF Tagged
      <3>8. CASE B(t).write[f] = {}
        <4>1. i.read[u] = {}
          BY <3>4, <3>6, <3>8
        <4> QED
          BY <3>7, <3>8, <4>1 DEF u
      <3>9. CASE B(t).write[f] # {}
        <4>1. B(t).read[r] = {<<f, s>>}
          BY <3>4, <3>9
        <4>2. \A z : z \in i.read[u] <=> z = <<<<t, f>>, s>>
          BY <3>6, <4>1
        <4> QED
          BY <3>1, <3>7, <3>9, <4>2 DEF u
      <3> QED
        BY <3>8, <3>9
    <2>3. CASE \E t \in Byte \ 0..2 : x = <<t, <<>>>> /\ m = <<t>> /\ o.write[x] = {m}
      <3>1. PICK t \in Byte \ 0..2 : x = <<t, <<>>>> /\ m = <<t>>
        BY <2>3
      <3>2. ReadBytes(u, 1) = {<<m, s>>} /\ Number(m) = t
        BY <3>1, OneByte, ReadFront
      <3> HIDE DEF u
      <3>3. \A p \in ReadBytes(u, 1) : p[1] = m
        BY <3>2
      <3>4. \A p \in ReadBytes(u, 1) : Number(p[1]) \notin 0..2
        BY <3>1, <3>2, <3>3
      <3>5. \A z : z \notin i.read[u]
        BY <1>6, <1>7, <2>1, <3>4, Zenon
      <3>6. i.write[x] = {}
        BY <1>5, <3>1
      <3> QED
        BY <3>5, <3>6 DEF u
    <2> QED
      BY <1>10, <2>2, <2>3, Zenon
  <1>16. ReadsOnly(o, i)
    <2> SUFFICES ASSUME NEW s \in Bytes, NEW z \in i.read[s]
                 PROVE  \E x \in Values(o) : \E m \in o.write[x] : \E r \in Bytes :
                            z = <<x, r>> /\ s = m \o r
      BY DEF ReadsOnly
    <2>1. ReadsCase(z, s, b0, b1, b2)
      BY <1>6
    <2>2. PICK p \in ReadBytes(s, 1) :
              /\ Number(p[1]) \in 0..2
              /\ \E q \in B(Number(p[1])).read[p[2]] : z = <<<<Number(p[1]), q[1]>>, q[2]>>
      BY <1>7, <2>1
    <2>3. PICK h \in Bytes, u \in Bytes : p = <<h, u>> /\ Len(h) = 1 /\ s = h \o u
      BY ReadIsSplit, 1 \in Nat
    <2> DEFINE t == Number(h)
    <2>4. t \in 0..2 /\ h = <<t>>
      BY <2>2, <2>3, OneByte
    <2>5. PICK q \in B(t).read[u] : z = <<<<t, q[1]>>, q[2]>>
      BY <2>2, <2>3
    <2> HIDE DEF t
    <2>6. ReadsOnly(A(t), B(t))
      BY <1>1, <2>4
    <2>7. PICK f \in Values(A(t)) : \E b \in A(t).write[f] : \E r \in Bytes : q = <<f, r>> /\ u = b \o r
      BY <2>6, Zenon DEF ReadsOnly
    <2>8. PICK b \in A(t).write[f], r \in Bytes : q = <<f, r>> /\ u = b \o r
      BY <2>7
    <2>9. b \in Bytes
      BY <1>11, <2>4
    <2>10. h \o (b \o r) = (h \o b) \o r
      BY <2>9, ConcatAssoc, ZenonT(30)
    <2>11. z = <<<<t, f>>, r>> /\ s = (h \o b) \o r
      BY <2>3, <2>5, <2>8, <2>10
    <2>12. <<t, f>> \in Values(o)
      BY <1>2, <2>4
    <2>13. h \o b \in o.write[<<t, f>>]
      <3>1. Tagged(h \o b, t, A(t).write[f])
        BY <2>4, Zenon DEF Tagged
      <3> QED
        BY <1>4, <2>4, <3>1
    <2> QED
      BY <2>11, <2>12, <2>13
  <1>17. Narrows(o, i)
    <2> SUFFICES ASSUME NEW x \in Values(i), NEW m \in i.write[x] PROVE m \in o.write[x]
      BY <1>9 DEF Narrows
    <2>1. CASE \E t \in 0..2 : \E f \in Values(B(t)) : x = <<t, f>>
      <3>1. PICK t \in 0..2 : \E f \in Values(B(t)) : x = <<t, f>>
        BY <2>1
      <3>2. PICK f \in Values(B(t)) : x = <<t, f>>
        BY <3>1
      <3>3. Tagged(m, t, B(t).write[f])
        BY <1>5, <3>2
      <3>4. f \in Values(A(t)) /\ B(t).write[f] \subseteq A(t).write[f]
        BY <1>1 DEF Narrows
      <3>5. Tagged(m, t, A(t).write[f])
        BY <3>3, <3>4, Zenon DEF Tagged
      <3> QED
        BY <1>4, <3>2, <3>4, <3>5
    <2>2. CASE \E t \in Byte \ 0..2 : x = <<t, <<>>>>
      BY <1>5, <2>2
    <2> QED
      BY <1>3, <2>1, <2>2
  <1> QED
    BY <1>9, <1>12, <1>13, <1>14, <1>15, <1>16, <1>17 DEF Fits, o, i

-----------------------------------------------------------------------------
(* Elements one after the other: what is written.                           *)

\* f[k] is the set of encodings of the first k elements of xs, for k up to n.
WritesUpTo(f, c, xs, n) ==
    f[0] = {<<>>} /\ \A k \in 1..n : \A m : m \in f[k] <=> Joined(m, f[k - 1], c.write[xs[k]])

\* Encodings joined are bytes.
LEMMA JoinedBytes ==
    ASSUME NEW A \in SUBSET Bytes, NEW B \in SUBSET Bytes, NEW m, Joined(m, A, B)
    PROVE  m \in Bytes
  <1>1. PICK p \in A, q \in B : m = p \o q
    BY Zenon DEF Joined
  <1> QED
    BY <1>1, Concat

\* The loop of WritesEach.
LEMMA WritesLoop ==
    ASSUME NEW c, Encodes(c), NEW xs \in Seq(Values(c))
    PROVE  \E f \in [0..Len(xs) -> SUBSET Bytes] :
              WritesUpTo(f, c, xs, Len(xs)) /\ WritesEach(c, xs) = f[Len(xs)]
  <1> DEFINE n == Len(xs)
             E(k) == IF k \in 1..n THEN c.write[xs[k]] ELSE {}
             J(A, B) == {p \o q : p \in A, q \in B}
             D(g) == [k \in 0..n |-> IF k = 0 THEN {<<>>} ELSE J(g[k - 1], c.write[xs[k]])]
             f == CHOOSE g : g = D(g)
             S == SUBSET Bytes
             G == [x \in Nat \X S |-> J(x[2], E(x[1]))]
  <1>1. n \in Nat /\ \A k \in 1..n : xs[k] \in Values(c)
    BY LenProperties, ElementOfSeq
  <1>2. WritesEach(c, xs) = f[n]
    BY DEF WritesEach
  <1>3. \A k \in Nat : E(k) \in S
    BY <1>1 DEF Encodes
  <1>4. \A A, B, m : m \in J(A, B) <=> Joined(m, A, B)
    BY DEF Joined
  <1> HIDE DEF J, E
  <1>5. \A A, B \in S : J(A, B) \in S
    BY <1>4, JoinedBytes
  <1>6. G \in [Nat \X S -> S]
    BY <1>3, <1>5
  <1>7. \A k \in Nat, A \in S : G[<<k, A>>] = J(A, E(k))
    OBVIOUS
  <1>8. {<<>>} \in S
    BY NoBytes
  <1> HIDE DEF G, S
  <1>9. PICK g \in [0..n -> S] : Recurs(g, n, {<<>>}, G)
    BY <1>1, <1>6, <1>8, FiniteRecursion
  <1>10. ASSUME NEW k \in 0..n
         PROVE  g[k] = IF k = 0 THEN {<<>>} ELSE J(g[k - 1], c.write[xs[k]])
    <2>1. CASE k # 0
      <3>1. k \in 1..n /\ k - 1 \in 0..n /\ k \in Nat
        BY <1>1, <2>1
      <3>2. g[k] = G[<<k, g[k - 1]>>] /\ g[k - 1] \in S
        BY <1>9, <3>1 DEF Recurs
      <3>3. E(k) = c.write[xs[k]]
        BY <3>1 DEF E
      <3> QED
        BY <1>7, <2>1, <3>1, <3>2, <3>3
    <2> QED
      BY <1>9, <2>1 DEF Recurs
  <1>11. g = D(g)
    BY <1>10
  <1>12. f = D(f)
    BY <1>11
  <1> HIDE DEF f
  <1>13. \A k \in 0..n : f[k] = IF k = 0 THEN {<<>>} ELSE J(f[k - 1], c.write[xs[k]])
    BY <1>12
  <1>14. f[0] = {<<>>}
    BY <1>1, <1>13
  <1>15. ASSUME NEW k \in 1..n, NEW m PROVE m \in f[k] <=> Joined(m, f[k - 1], c.write[xs[k]])
    <2>1. k \in 0..n /\ k # 0
      BY <1>1
    <2>2. f[k] = J(f[k - 1], c.write[xs[k]])
      BY <1>13, <2>1
    <2> QED
      BY <1>4, <2>2
  <1>16. WritesUpTo(f, c, xs, n)
    BY <1>14, <1>15, Zenon DEF WritesUpTo
  <1> DEFINE T == {k \in Nat : k =< n => f[k] \in S}
  <1>17. 0 \in T
    BY <1>8, <1>14
  <1>18. ASSUME NEW k \in Nat, k \in T PROVE k + 1 \in T
    <2> SUFFICES ASSUME k + 1 =< n PROVE f[k + 1] \in S
      OBVIOUS
    <2>1. f[k] \in S /\ (k + 1) - 1 = k /\ k + 1 \in 1..n /\ k + 1 \in 0..n /\ k + 1 # 0
      BY <1>1, <1>18
    <2>2. f[k + 1] = J(f[k], c.write[xs[k + 1]])
      BY <1>13, <2>1
    <2>3. c.write[xs[k + 1]] \in S
      BY <1>3, <2>1 DEF E
    <2> QED
      BY <1>5, <2>1, <2>2, <2>3
  <1> HIDE DEF T
  <1>19. \A k \in 0..n : f[k] \in S
    <2>1. Nat \subseteq T
      BY <1>17, <1>18, InductionSet
    <2> QED
      BY <1>1, <2>1 DEF T
  <1>20. f \in [0..n -> SUBSET Bytes]
    BY <1>12, <1>19 DEF S
  <1> QED
    BY <1>2, <1>16, <1>20

\* No elements are no bytes.
LEMMA WritesNone ==
    ASSUME NEW c, Encodes(c)
    PROVE  WritesEach(c, <<>>) = {<<>>}
  <1>1. <<>> \in Seq(Values(c)) /\ Len(<<>>) = 0
    OBVIOUS
  <1> DEFINE xs == <<>>
  <1>2. PICK f \in [0..Len(xs) -> SUBSET Bytes] :
            WritesUpTo(f, c, xs, Len(xs)) /\ WritesEach(c, xs) = f[Len(xs)]
    BY <1>1, WritesLoop, Zenon
  <1> QED
    BY <1>1, <1>2 DEF WritesUpTo

\* One more element adds its encoding at the end.
LEMMA WritesOneMore ==
    ASSUME NEW c, Encodes(c), NEW xs \in Seq(Values(c)), NEW x \in Values(c)
    PROVE  /\ WritesEach(c, xs) \in SUBSET Bytes
           /\ Append(xs, x) \in Seq(Values(c))
           /\ \A m : m \in WritesEach(c, Append(xs, x)) <=> Joined(m, WritesEach(c, xs), c.write[x])
  <1> DEFINE n == Len(xs)
             ys == Append(xs, x)
  <1>1. /\ n \in Nat /\ ys \in Seq(Values(c)) /\ Len(ys) = n + 1 /\ ys[n + 1] = x
        /\ \A k \in 1..n : ys[k] = xs[k]
    BY AppendProperties, LenProperties
  <1>2. PICK f \in [0..n -> SUBSET Bytes] :
            WritesUpTo(f, c, xs, n) /\ WritesEach(c, xs) = f[n]
    BY WritesLoop
  <1> HIDE DEF ys
  <1>3. PICK g \in [0..n + 1 -> SUBSET Bytes] :
            WritesUpTo(g, c, ys, n + 1) /\ WritesEach(c, ys) = g[n + 1]
    BY <1>1, WritesLoop
  <1> DEFINE T == {k \in Nat : k =< n => f[k] = g[k]}
  <1>4. 0 \in T
    BY <1>2, <1>3 DEF WritesUpTo
  <1>5. ASSUME NEW k \in Nat, k \in T PROVE k + 1 \in T
    <2> SUFFICES ASSUME k + 1 =< n PROVE f[k + 1] = g[k + 1]
      OBVIOUS
    <2>1. f[k] = g[k] /\ (k + 1) - 1 = k /\ k + 1 \in 1..n /\ k + 1 \in 1..n + 1
      BY <1>1, <1>5
    <2>2. \A m : m \in f[k + 1] <=> Joined(m, f[k], c.write[xs[k + 1]])
      BY <1>2, <2>1 DEF WritesUpTo
    <2>3. \A m : m \in g[k + 1] <=> Joined(m, g[k], c.write[ys[k + 1]])
      BY <1>3, <2>1 DEF WritesUpTo
    <2>4. ys[k + 1] = xs[k + 1]
      BY <1>1, <2>1
    <2>5. \A m : m \in f[k + 1] <=> m \in g[k + 1]
      BY <2>1, <2>2, <2>3, <2>4
    <2>6. k + 1 \in 0..n /\ k + 1 \in 0..n + 1
      BY <2>1
    <2>7. f[k + 1] \in SUBSET Bytes /\ g[k + 1] \in SUBSET Bytes
      BY <1>2, <1>3, <2>6
    <2> QED
      BY <2>5, <2>7
  <1> HIDE DEF T
  <1>6. f[n] = g[n]
    <2>1. Nat \subseteq T
      BY <1>4, <1>5, InductionSet
    <2> QED
      BY <1>1, <2>1 DEF T
  <1>7. n + 1 \in 1..n + 1 /\ (n + 1) - 1 = n /\ n \in 0..n
    BY <1>1
  <1>8. \A m : m \in g[n + 1] <=> Joined(m, g[n], c.write[ys[n + 1]])
    BY <1>3, <1>7 DEF WritesUpTo
  <1>9. f[n] \in SUBSET Bytes
    BY <1>2, <1>7
  <1> QED
    BY <1>1, <1>2, <1>3, <1>6, <1>8, <1>9 DEF ys

-----------------------------------------------------------------------------
(* Elements one after the other: what is read.                              *)

\* One more element off one of the inputs A.
Advanced(m, c, A) == \E p \in A : m \in ReadsNext(c, p)

\* f[k] is what is read, with the rest of s, after k elements, for k up to n.
ReadsUpTo(f, c, s, n) ==
    f[0] = {<<<<>>, s>>} /\ \A k \in 1..n : \A m : m \in f[k] <=> Advanced(m, c, f[k - 1])

\* What is read is a value of the type and a rest of bytes.
Decodes(c) == \A s \in Bytes : c.read[s] \in SUBSET (Values(c) \X Bytes)

\* A fitting reader gives values of the writer's type.
LEMMA FitsDecodes ==
    ASSUME NEW o, NEW i, NEW T, Fits(o, i, T)
    PROVE  Decodes(i)
  <1> SUFFICES ASSUME NEW s \in Bytes, NEW p \in i.read[s] PROVE p \in Values(i) \X Bytes
    BY DEF Decodes
  <1>1. ReadsOnly(o, i) /\ Values(o) = Values(i)
    BY DEF Fits
  <1>2. PICK x \in Values(o) : \E b \in o.write[x] : \E r \in Bytes : p = <<x, r>> /\ s = b \o r
    BY <1>1, Zenon DEF ReadsOnly
  <1> QED
    BY <1>1, <1>2

\* The states of the loop that reads elements of c.
Progress(c) == Seq(Values(c)) \X Bytes

\* One element is read off r.
ReadsOne(m, c, xs, r) == \E q \in c.read[r] : m = <<Append(xs, q[1]), q[2]>>

\* What a step of the loop makes of the state <<xs, r>>.
LEMMA ReadsNextIs ==
    ASSUME NEW c, NEW xs, NEW r, NEW m
    PROVE  /\ r = <<>> => (m \in ReadsNext(c, <<xs, r>>) <=> m = <<xs, r>>)
           /\ r # <<>> => (m \in ReadsNext(c, <<xs, r>>) <=> ReadsOne(m, c, xs, r))
  BY DEF ReadsNext, ReadsOne

\* A step of the reading loop stays within its states.
LEMMA AdvancedProgress ==
    ASSUME NEW c, Decodes(c), NEW A \in SUBSET Progress(c), NEW m, Advanced(m, c, A)
    PROVE  m \in Progress(c)
  <1>1. PICK p \in A : m \in ReadsNext(c, p)
    BY Zenon DEF Advanced
  <1>2. PICK xs \in Seq(Values(c)), r \in Bytes : p = <<xs, r>>
    BY DEF Progress
  <1>3. CASE r = <<>>
    BY <1>1, <1>2, <1>3, ReadsNextIs DEF Progress
  <1>4. CASE r # <<>>
    <2>1. PICK q \in c.read[r] : m = <<Append(xs, q[1]), q[2]>>
      BY <1>1, <1>2, <1>4, ReadsNextIs DEF ReadsOne
    <2>2. q[1] \in Values(c) /\ q[2] \in Bytes
      BY DEF Decodes
    <2>3. Append(xs, q[1]) \in Seq(Values(c))
      BY <2>2, AppendProperties
    <2> QED
      BY <2>1, <2>2, <2>3 DEF Progress
  <1> QED
    BY <1>3, <1>4

\* The loop of ReadsEach.
LEMMA ReadsLoop ==
    ASSUME NEW c, Decodes(c), NEW s \in Bytes
    PROVE  \E f \in [0..Len(s) -> SUBSET Progress(c)] :
              /\ ReadsUpTo(f, c, s, Len(s))
              /\ ReadsEach(c, s) = {p[1] : p \in {q \in f[Len(s)] : q[2] = <<>>}}
  <1> DEFINE n == Len(s)
             J(A) == UNION {ReadsNext(c, p) : p \in A}
             st == {<<<<>>, s>>}
             D(g) == [k \in 0..n |-> IF k = 0 THEN st ELSE J(g[k - 1])]
             f == CHOOSE g : g = D(g)
             S == SUBSET Progress(c)
             G == [x \in Nat \X S |-> J(x[2])]
  <1>1. n \in Nat
    BY LenProperties DEF Bytes
  <1>2. ReadsEach(c, s) = {p[1] : p \in {q \in f[n] : q[2] = <<>>}}
    BY DEF ReadsEach
  <1>3. \A A, m : m \in J(A) <=> Advanced(m, c, A)
    BY DEF Advanced
  <1> HIDE DEF J
  <1>4. \A A \in S : J(A) \in S
    BY <1>3, AdvancedProgress
  <1>5. st \in S
    <2>1. <<>> \in Seq(Values(c))
      OBVIOUS
    <2>2. <<<<>>, s>> \in Progress(c)
      BY <2>1 DEF Progress
    <2> QED
      BY <2>2
  <1>6. G \in [Nat \X S -> S]
    BY <1>4
  <1>7. \A k \in Nat, A \in S : G[<<k, A>>] = J(A)
    OBVIOUS
  <1>8. st = {<<<<>>, s>>}
    OBVIOUS
  <1> HIDE DEF G, S, st
  <1>9. PICK g \in [0..n -> S] : Recurs(g, n, st, G)
    BY <1>1, <1>5, <1>6, FiniteRecursion
  <1>10. ASSUME NEW k \in 0..n PROVE g[k] = IF k = 0 THEN st ELSE J(g[k - 1])
    <2>1. CASE k # 0
      <3>1. k \in 1..n /\ k - 1 \in 0..n /\ k \in Nat
        BY <1>1, <2>1
      <3>2. g[k] = G[<<k, g[k - 1]>>] /\ g[k - 1] \in S
        BY <1>9, <3>1 DEF Recurs
      <3> QED
        BY <1>7, <2>1, <3>1, <3>2
    <2> QED
      BY <1>9, <2>1 DEF Recurs
  <1>11. g = D(g)
    BY <1>10
  <1>12. f = D(f)
    BY <1>11
  <1> HIDE DEF f
  <1>13. \A k \in 0..n : f[k] = IF k = 0 THEN st ELSE J(f[k - 1])
    BY <1>12
  <1>14. f[0] = st
    BY <1>1, <1>13
  <1>15. ASSUME NEW k \in 1..n, NEW m PROVE m \in f[k] <=> Advanced(m, c, f[k - 1])
    <2>1. k \in 0..n /\ k # 0
      BY <1>1
    <2>2. f[k] = J(f[k - 1])
      BY <1>13, <2>1
    <2> QED
      BY <1>3, <2>2
  <1>16. ReadsUpTo(f, c, s, n)
    BY <1>8, <1>14, <1>15, Zenon DEF ReadsUpTo
  <1> DEFINE T == {k \in Nat : k =< n => f[k] \in S}
  <1>17. 0 \in T
    BY <1>5, <1>14
  <1>18. ASSUME NEW k \in Nat, k \in T PROVE k + 1 \in T
    <2> SUFFICES ASSUME k + 1 =< n PROVE f[k + 1] \in S
      OBVIOUS
    <2>1. f[k] \in S /\ (k + 1) - 1 = k /\ k + 1 \in 0..n /\ k + 1 # 0
      BY <1>1, <1>18
    <2>2. f[k + 1] = J(f[k])
      BY <1>13, <2>1
    <2> QED
      BY <1>4, <2>1, <2>2
  <1> HIDE DEF T
  <1>19. \A k \in 0..n : f[k] \in S
    <2>1. Nat \subseteq T
      BY <1>17, <1>18, InductionSet
    <2> QED
      BY <1>1, <2>1 DEF T
  <1>20. f \in [0..n -> SUBSET Progress(c)]
    BY <1>12, <1>19 DEF S
  <1> QED
    BY <1>2, <1>16, <1>20

\* An encoding of a sequence with one more element, taken apart.
LastWritten(b, c, xs, x) ==
    \E p \in WritesEach(c, xs) : \E q \in c.write[x] : p \in Bytes /\ q \in Bytes /\ b = p \o q

\* An encoding of elements ends in that of the last.
LEMMA WritesLast ==
    ASSUME NEW c, Encodes(c), NEW xs \in Seq(Values(c)), NEW x \in Values(c),
           NEW b \in WritesEach(c, Append(xs, x))
    PROVE  LastWritten(b, c, xs, x)
  <1>1. /\ WritesEach(c, xs) \in SUBSET Bytes
        /\ Joined(b, WritesEach(c, xs), c.write[x])
    BY WritesOneMore
  <1>2. c.write[x] \in SUBSET Bytes
    BY DEF Encodes
  <1> QED
    BY <1>1, <1>2, Zenon DEF Joined, LastWritten

\* A sequence of more than n elements has a last one, behind n others.
HasLast(xs, n, V) == \E ys \in Seq(V) : \E y \in V : Len(ys) = n /\ xs = Append(ys, y)

\* A sequence that is not empty has a last element.
LEMMA Snoc ==
    ASSUME NEW V, NEW xs \in Seq(V), NEW n \in Nat, Len(xs) = n + 1
    PROVE  HasLast(xs, n, V)
  <1> DEFINE ys == SubSeq(xs, 1, n)
  <1>1. ys \in Seq(V) /\ Len(ys) = n /\ \A k \in 1..n : ys[k] = xs[k]
    BY SubSeqProperties
  <1>2. xs[n + 1] \in V
    BY ElementOfSeq
  <1> DEFINE y == xs[n + 1]
             zs == Append(ys, y)
  <1> HIDE DEF ys, y
  <1>3. zs \in Seq(V) /\ Len(zs) = n + 1 /\ zs[n + 1] = y /\ \A k \in 1..n : zs[k] = xs[k]
    BY <1>1, <1>2, AppendProperties DEF y
  <1> HIDE DEF zs
  <1>4. \A k \in 1..Len(xs) : xs[k] = zs[k]
    BY <1>3 DEF y
  <1>5. xs = zs
    BY <1>3, <1>4, SeqEqual
  <1> QED
    BY <1>1, <1>2, <1>5 DEF zs, y, HasLast

\* A sequence of length 0 is empty.
LEMMA NoElements ==
    ASSUME NEW V, NEW xs \in Seq(V), Len(xs) = 0
    PROVE  xs = <<>>
  BY EmptySeq

\* A loop of n + 1 steps is one of n steps and a step.
LEMMA ReadsUpToLess ==
    ASSUME NEW f, NEW c, NEW s, NEW n \in Nat, ReadsUpTo(f, c, s, n + 1)
    PROVE  /\ ReadsUpTo(f, c, s, n)
           /\ \A m : m \in f[n + 1] <=> Advanced(m, c, f[n])
  <1>1. \A k \in 1..n : k \in 1..n + 1
    OBVIOUS
  <1>2. n + 1 \in 1..n + 1 /\ (n + 1) - 1 = n
    OBVIOUS
  <1>3. \A m : m \in f[n + 1] <=> Advanced(m, c, f[(n + 1) - 1])
    BY <1>2, Zenon DEF ReadsUpTo
  <1>4. ReadsUpTo(f, c, s, n)
    BY <1>1, Zenon DEF ReadsUpTo
  <1> QED
    BY <1>2, <1>3, <1>4

\* The loop over the encoding of xs before r: after Len(xs) elements it has read
\* xs, or has failed if one of them would not be written.
Retraced(o, i, xs) ==
    \A b \in WritesEach(o, xs) : \A r \in Bytes : \A f :
        ReadsUpTo(f, i, b \o r, Len(xs)) =>
            \A m : m \in f[Len(xs)] <=> (WritesEach(i, xs) # {} /\ m = <<xs, r>>)

\* The reading loop retraces what the writer put out, element by element: by
\* induction on the number of elements.
LEMMA ReadsAlong ==
    ASSUME NEW o, NEW i, Fits(o, i, Bytes), Nonempty(o), NEW xs \in Seq(Values(o))
    PROVE  Retraced(o, i, xs)
  <1> DEFINE V == Values(o)
             T == {n \in Nat : \A ys \in Seq(V) : Len(ys) = n => Retraced(o, i, ys)}
  <1>1. Encodes(o) /\ Encodes(i) /\ Values(i) = V /\ ReadsBack(o, i, Bytes)
    BY DEF Fits
  <1> HIDE DEF V
  <1>2. 0 \in T
    <2>1. ASSUME NEW ys \in Seq(V), Len(ys) = 0 PROVE Retraced(o, i, ys)
      <3>1. ys = <<>>
        BY <2>1, NoElements
      <3>2. WritesEach(o, ys) = {<<>>} /\ WritesEach(i, ys) = {<<>>}
        BY <1>1, <3>1, WritesNone, Zenon
      <3>3. ASSUME NEW b \in WritesEach(o, ys), NEW r \in Bytes, NEW f,
                   ReadsUpTo(f, i, b \o r, Len(ys)), NEW m
            PROVE  m \in f[Len(ys)] <=> (WritesEach(i, ys) # {} /\ m = <<ys, r>>)
        <4>1. b \o r = r
          BY <3>2, Concat, NoBytes
        <4>2. f[0] = {<<<<>>, r>>}
          BY <3>3, <4>1 DEF ReadsUpTo
        <4> QED
          BY <2>1, <3>1, <3>2, <4>2
      <3> QED
        BY <3>3, Zenon DEF Retraced
    <2> QED
      BY <2>1
  <1>3. ASSUME NEW n \in Nat, n \in T PROVE n + 1 \in T
    <2> SUFFICES ASSUME NEW zs \in Seq(V), Len(zs) = n + 1 PROVE Retraced(o, i, zs)
      OBVIOUS
    <2>1. PICK ys \in Seq(V) : \E y \in V : Len(ys) = n /\ zs = Append(ys, y)
      <3>1. HasLast(zs, n, V)
        BY Snoc
      <3> QED
        BY <3>1, Zenon DEF HasLast
    <2>2. PICK y \in V : Len(ys) = n /\ zs = Append(ys, y)
      BY <2>1
    <2>3. Retraced(o, i, ys)
      BY <1>3, <2>2
    <2> HIDE DEF T
    <2> SUFFICES ASSUME NEW b \in WritesEach(o, zs), NEW r \in Bytes, NEW f,
                        ReadsUpTo(f, i, b \o r, n + 1), NEW m
                 PROVE  m \in f[n + 1] <=> (WritesEach(i, zs) # {} /\ m = <<zs, r>>)
      BY Zenon DEF Retraced
    <2>0. ys \in Seq(Values(o)) /\ y \in Values(o) /\ b \in WritesEach(o, Append(ys, y))
      BY <2>2 DEF V
    <2>4. PICK p \in WritesEach(o, ys) : \E q \in o.write[y] : p \in Bytes /\ q \in Bytes /\ b = p \o q
      <3>1. LastWritten(b, o, ys, y)
        BY <1>1, <2>0, WritesLast
      <3> QED
        BY <3>1, Zenon DEF LastWritten
    <2>5. PICK q \in o.write[y] : p \in Bytes /\ q \in Bytes /\ b = p \o q
      BY <2>4
    <2> DEFINE t == q \o r
    <2>6. t \in Bytes /\ t # <<>> /\ b \o r = p \o t
      <3>1. q # <<>>
        BY DEF Nonempty, V
      <3>2. t \in Bytes /\ t # <<>>
        BY <2>5, <3>1, Concat
      <3>3. b \o r = p \o t
        BY <2>5, ConcatAssoc
      <3> QED
        BY <3>2, <3>3
    <2>7. i.read[t] = IF i.write[y] = {} THEN {} ELSE {<<y, r>>}
      BY <1>1 DEF ReadsBack, V
    <2> HIDE DEF t
    <2>8. /\ ReadsUpTo(f, i, p \o t, n)
          /\ \A e : e \in f[n + 1] <=> Advanced(e, i, f[n])
      BY <2>6, ReadsUpToLess
    <2>9. \A e : e \in f[n] <=> (WritesEach(i, ys) # {} /\ e = <<ys, t>>)
      BY <2>2, <2>3, <2>6, <2>8, Zenon DEF Retraced
    <2>10. WritesEach(i, zs) # {} <=> WritesEach(i, ys) # {} /\ i.write[y] # {}
      <3>1. \A e : e \in WritesEach(i, zs) <=> Joined(e, WritesEach(i, ys), i.write[y])
        BY <1>1, <2>2, WritesOneMore
      <3> QED
        BY <3>1, Zenon DEF Joined
    <2>11. Advanced(m, i, f[n]) <=> WritesEach(i, ys) # {} /\ m \in ReadsNext(i, <<ys, t>>)
      BY <2>9, Zenon DEF Advanced
    <2>12. m \in ReadsNext(i, <<ys, t>>) <=> \E g \in i.read[t] : m = <<Append(ys, g[1]), g[2]>>
      <3>1. m \in ReadsNext(i, <<ys, t>>) <=> ReadsOne(m, i, ys, t)
        BY <2>6, ReadsNextIs
      <3> QED
        BY <3>1, Zenon DEF ReadsOne
    <2>13. m \in ReadsNext(i, <<ys, t>>) <=> i.write[y] # {} /\ m = <<zs, r>>
      <3>1. CASE i.write[y] = {}
        BY <2>7, <2>12, <3>1
      <3>2. CASE i.write[y] # {}
        <4>1. i.read[t] = {<<y, r>>}
          BY <2>7, <3>2
        <4>2. (\E g \in i.read[t] : m = <<Append(ys, g[1]), g[2]>>) <=> m = <<Append(ys, y), r>>
          BY <4>1
        <4> QED
          BY <2>2, <2>12, <3>2, <4>2
      <3> QED
        BY <3>1, <3>2
    <2> QED
      BY <2>8, <2>10, <2>11, <2>13, Zenon
  <1> HIDE DEF T
  <1>4. Nat \subseteq T
    BY <1>2, <1>3, InductionSet
  <1>5. Len(xs) \in Nat
    BY LenProperties
  <1> QED
    BY <1>4, <1>5 DEF T, V

\* Once the input is used up, and once it has failed, the loop stays as it is.
LEMMA ReadsStay ==
    ASSUME NEW c, NEW s, NEW n \in Nat, NEW f, ReadsUpTo(f, c, s, n), NEW k \in 0..n,
           \A p \in f[k] : \E xs : p = <<xs, <<>>>>
    PROVE  \A m : m \in f[n] <=> m \in f[k]
  <1> DEFINE T == {j \in Nat : k =< j /\ j =< n => \A m : m \in f[j] <=> m \in f[k]}
  <1>1. 0 \in T
    <2>1. k =< 0 => k = 0
      OBVIOUS
    <2> QED
      BY <2>1
  <1>2. ASSUME NEW j \in Nat, j \in T PROVE j + 1 \in T
    <2> SUFFICES ASSUME k =< j + 1, j + 1 =< n PROVE \A m : m \in f[j + 1] <=> m \in f[k]
      OBVIOUS
    <2>1. CASE k = j + 1
      BY <2>1
    <2>2. CASE k # j + 1
      <3>1. k =< j /\ j =< n /\ j + 1 \in 1..n /\ (j + 1) - 1 = j
        BY <2>2
      <3>2. \A m : m \in f[j] <=> m \in f[k]
        BY <1>2, <3>1
      <3>3. \A m : m \in f[j + 1] <=> Advanced(m, c, f[(j + 1) - 1])
        BY <3>1, Zenon DEF ReadsUpTo
      <3>4. \A m : m \in f[j + 1] <=> Advanced(m, c, f[j])
        BY <3>1, <3>3
      <3>5. \A p \in f[k] : \A m : m \in ReadsNext(c, p) <=> m = p
        BY ReadsNextIs
      <3>6. \A m : Advanced(m, c, f[j]) <=> m \in f[k]
        <4>1. ASSUME NEW m, Advanced(m, c, f[j]) PROVE m \in f[k]
          <5>1. PICK p \in f[j] : m \in ReadsNext(c, p)
            BY <4>1, Zenon DEF Advanced
          <5>2. p \in f[k]
            BY <3>2
          <5>3. m = p
            BY <3>5, <5>1, <5>2
          <5> QED
            BY <5>2, <5>3
        <4>2. ASSUME NEW m \in f[k] PROVE Advanced(m, c, f[j])
          <5>1. m \in f[j] /\ m \in ReadsNext(c, m)
            BY <3>2, <3>5
          <5> QED
            BY <5>1, Zenon DEF Advanced
        <4> QED
          BY <4>1, <4>2, Zenon
      <3> QED
        BY <3>4, <3>6, Zenon
    <2> QED
      BY <2>1, <2>2
  <1> HIDE DEF T
  <1>3. Nat \subseteq T
    BY <1>1, <1>2, InductionSet
  <1>4. n \in T
    BY <1>3
  <1> QED
    BY <1>4 DEF T

\* What has been read off s so far is what o writes for it.
ReadOff(p, o, s) ==
    \E xs \in Seq(Values(o)) : \E b \in WritesEach(o, xs) : \E r \in Bytes :
        b \in Bytes /\ p = <<xs, r>> /\ s = b \o r

\* Whatever the reading loop has read is what the writer puts out for it: by
\* induction on the steps.
LEMMA ReadsOffOnly ==
    ASSUME NEW o, NEW i, Encodes(o), ReadsOnly(o, i), NEW s \in Bytes, NEW f,
           NEW n \in Nat, ReadsUpTo(f, i, s, n)
    PROVE  \A p \in f[n] : ReadOff(p, o, s)
  <1> DEFINE T == {k \in Nat : k =< n => \A p \in f[k] : ReadOff(p, o, s)}
  <1>1. 0 \in T
    <2>1. f[0] = {<<<<>>, s>>}
      BY DEF ReadsUpTo
    <2>2. <<>> \in Seq(Values(o)) /\ <<>> \in WritesEach(o, <<>>) /\ <<>> \in Bytes /\ s = <<>> \o s
      BY WritesNone, NoBytes, Concat
    <2>3. ReadOff(<<<<>>, s>>, o, s)
      BY <2>2, Zenon DEF ReadOff
    <2> QED
      BY <2>1, <2>3
  <1>2. ASSUME NEW k \in Nat, k \in T PROVE k + 1 \in T
    <2> SUFFICES ASSUME k + 1 =< n, NEW m \in f[k + 1] PROVE ReadOff(m, o, s)
      OBVIOUS
    <2>1. k + 1 \in 1..n /\ (k + 1) - 1 = k /\ \A p \in f[k] : ReadOff(p, o, s)
      BY <1>2
    <2>2. \A e : e \in f[k + 1] <=> Advanced(e, i, f[(k + 1) - 1])
      BY <2>1, Zenon DEF ReadsUpTo
    <2>3. Advanced(m, i, f[k])
      BY <2>1, <2>2
    <2>4. PICK p \in f[k] : m \in ReadsNext(i, p)
      BY <2>3, Zenon DEF Advanced
    <2>5. ReadOff(p, o, s)
      BY <2>1
    <2>6. PICK xs \in Seq(Values(o)) : \E b \in WritesEach(o, xs) : \E r \in Bytes :
              b \in Bytes /\ p = <<xs, r>> /\ s = b \o r
      BY <2>5, Zenon DEF ReadOff
    <2>7. PICK b \in WritesEach(o, xs), r \in Bytes : b \in Bytes /\ p = <<xs, r>> /\ s = b \o r
      BY <2>6
    <2>8. CASE r = <<>>
      <3>1. m = p
        BY <2>4, <2>7, <2>8, ReadsNextIs
      <3> QED
        BY <2>5, <3>1
    <2>9. CASE r # <<>>
      <3>1. m \in ReadsNext(i, <<xs, r>>)
        BY <2>4, <2>7
      <3>2. ReadsOne(m, i, xs, r)
        BY <2>9, <3>1, ReadsNextIs
      <3>3. PICK q \in i.read[r] : m = <<Append(xs, q[1]), q[2]>>
        BY <3>2, Zenon DEF ReadsOne
      <3>4. PICK x \in Values(o) : \E c \in o.write[x] : \E t \in Bytes : q = <<x, t>> /\ r = c \o t
        BY Zenon DEF ReadsOnly
      <3>5. PICK c \in o.write[x], t \in Bytes : q = <<x, t>> /\ r = c \o t
        BY <3>4
      <3>6. c \in Bytes
        BY DEF Encodes
      <3>7. m = <<Append(xs, x), t>>
        BY <3>3, <3>5
      <3>8. b \o (c \o t) = (b \o c) \o t /\ b \o c \in Bytes
        <4>1. b \o c \in Bytes
          BY <2>7, <3>6, Concat
        <4>2. b \o (c \o t) = (b \o c) \o t
          BY <2>7, <3>6, ConcatAssoc, ZenonT(30)
        <4> QED
          BY <4>1, <4>2
      <3>9. s = (b \o c) \o t
        BY <2>7, <3>5, <3>8
      <3>10. Append(xs, x) \in Seq(Values(o)) /\ b \o c \in WritesEach(o, Append(xs, x))
        <4>1. Joined(b \o c, WritesEach(o, xs), o.write[x])
          BY Zenon DEF Joined
        <4> QED
          BY <4>1, WritesOneMore
      <3> QED
        BY <3>7, <3>8, <3>9, <3>10, Zenon DEF ReadOff
    <2> QED
      BY <2>8, <2>9
  <1> HIDE DEF T
  <1>3. Nat \subseteq T
    BY <1>1, <1>2, InductionSet
  <1>4. n \in T
    BY <1>3
  <1> QED
    BY <1>4 DEF T

\* One encoding, of a byte an element at least.
SoundEach(o, xs) ==
    \A b \in WritesEach(o, xs) : b \in Bytes /\ WritesEach(o, xs) = {b} /\ Len(xs) =< Len(b)

\* Elements have one encoding, a byte or more for each.
LEMMA WritesEachSound ==
    ASSUME NEW o, Encodes(o), OneEncoding(o), Nonempty(o), NEW xs \in Seq(Values(o))
    PROVE  SoundEach(o, xs)
  <1> DEFINE T == {n \in Nat : \A ys \in Seq(Values(o)) : Len(ys) = n => SoundEach(o, ys)}
  <1>1. 0 \in T
    <2>1. ASSUME NEW ys \in Seq(Values(o)), Len(ys) = 0 PROVE SoundEach(o, ys)
      <3>1. ys = <<>>
        BY <2>1, NoElements
      <3>2. WritesEach(o, ys) = {<<>>}
        BY <3>1, WritesNone, Zenon
      <3> QED
        BY <2>1, <3>2, NoBytes DEF SoundEach
    <2> QED
      BY <2>1
  <1>2. ASSUME NEW n \in Nat, n \in T PROVE n + 1 \in T
    <2> SUFFICES ASSUME NEW zs \in Seq(Values(o)), Len(zs) = n + 1 PROVE SoundEach(o, zs)
      OBVIOUS
    <2>1. PICK ys \in Seq(Values(o)) : \E y \in Values(o) : Len(ys) = n /\ zs = Append(ys, y)
      <3>1. HasLast(zs, n, Values(o))
        BY Snoc
      <3> QED
        BY <3>1, Zenon DEF HasLast
    <2>2. PICK y \in Values(o) : Len(ys) = n /\ zs = Append(ys, y)
      BY <2>1
    <2>3. SoundEach(o, ys)
      BY <1>2, <2>2
    <2> HIDE DEF T
    <2> SUFFICES ASSUME NEW b \in WritesEach(o, zs)
                 PROVE  b \in Bytes /\ WritesEach(o, zs) = {b} /\ Len(zs) =< Len(b)
      BY DEF SoundEach
    <2>4. LastWritten(b, o, ys, y) /\ \A e \in WritesEach(o, zs) : LastWritten(e, o, ys, y)
      BY <2>2, WritesLast
    <2>5. PICK p \in WritesEach(o, ys) : \E q \in o.write[y] : p \in Bytes /\ q \in Bytes /\ b = p \o q
      BY <2>4, Zenon DEF LastWritten
    <2>6. PICK q \in o.write[y] : p \in Bytes /\ q \in Bytes /\ b = p \o q
      BY <2>5
    <2>7. WritesEach(o, ys) = {p} /\ n =< Len(p)
      BY <2>2, <2>3 DEF SoundEach
    <2>8. o.write[y] = {q} /\ q # <<>>
      BY DEF OneEncoding, Nonempty
    <2>9. b \in Bytes /\ Len(b) = Len(p) + Len(q) /\ Len(p) \in Nat /\ Len(q) \in Nat
      BY <2>6, Concat
    <2>10. Len(q) # 0
      BY <2>6, <2>8, NoBytes
    <2>11. ASSUME NEW e \in WritesEach(o, zs) PROVE e = b
      <3>1. PICK u \in WritesEach(o, ys) : \E v \in o.write[y] : e = u \o v
        BY <2>4, Zenon DEF LastWritten
      <3> QED
        BY <2>6, <2>7, <2>8, <3>1
    <2> QED
      BY <2>7, <2>9, <2>10, <2>11
  <1> HIDE DEF T
  <1>3. Nat \subseteq T
    BY <1>1, <1>2, InductionSet
  <1>4. Len(xs) \in Nat
    BY LenProperties
  <1> QED
    BY <1>3, <1>4 DEF T

\* The encodings of elements are bytes.
LEMMA WritesBytes ==
    ASSUME NEW c, Encodes(c), NEW xs \in Seq(Values(c))
    PROVE  WritesEach(c, xs) \in SUBSET Bytes
  <1>1. PICK f \in [0..Len(xs) -> SUBSET Bytes] : WritesEach(c, xs) = f[Len(xs)]
    BY WritesLoop
  <1>2. Len(xs) \in 0..Len(xs)
    BY LenProperties
  <1> QED
    BY <1>1, <1>2

\* The encoding of a sequence starts with those of its first k elements.
StartsWith(b, o, xs, k) ==
    \E p \in WritesEach(o, SubSeq(xs, 1, k)) : \E r \in Bytes : b = p \o r

\* An encoding of elements starts with that of its first k, by induction.
LEMMA WritesPrefix ==
    ASSUME NEW o, Encodes(o), NEW xs \in Seq(Values(o)), NEW b \in WritesEach(o, xs),
           NEW k \in 0..Len(xs)
    PROVE  StartsWith(b, o, xs, k)
  <1> DEFINE V == Values(o)
             P(ys) == \A c \in WritesEach(o, ys) : \A j \in 0..Len(ys) : StartsWith(c, o, ys, j)
             T == {n \in Nat : \A ys \in Seq(V) : Len(ys) = n => P(ys)}
  <1>1. ASSUME NEW ys \in Seq(V), NEW c \in WritesEach(o, ys)
        PROVE  StartsWith(c, o, ys, Len(ys)) /\ c \in Bytes
    <2>1. c \in Bytes
      BY WritesBytes
    <2>2. SubSeq(ys, 1, Len(ys)) = ys
      BY SubSeqFull
    <2>3. c = c \o <<>> /\ <<>> \in Bytes
      BY <2>1, Concat, NoBytes
    <2> QED
      BY <2>1, <2>2, <2>3, Zenon DEF StartsWith
  <1>2. 0 \in T
    <2>1. ASSUME NEW ys \in Seq(V), Len(ys) = 0 PROVE P(ys)
      <3>1. \A j \in 0..Len(ys) : j = Len(ys)
        BY <2>1
      <3> QED
        BY <1>1, <3>1
    <2> QED
      BY <2>1
  <1>3. ASSUME NEW n \in Nat, n \in T PROVE n + 1 \in T
    <2> SUFFICES ASSUME NEW zs \in Seq(V), Len(zs) = n + 1, NEW c \in WritesEach(o, zs),
                        NEW j \in 0..n + 1
                 PROVE  StartsWith(c, o, zs, j)
      OBVIOUS
    <2>1. PICK ys \in Seq(V) : \E y \in V : Len(ys) = n /\ zs = Append(ys, y)
      <3>1. HasLast(zs, n, V)
        BY Snoc
      <3> QED
        BY <3>1, Zenon DEF HasLast
    <2>2. PICK y \in V : Len(ys) = n /\ zs = Append(ys, y)
      BY <2>1
    <2>3. CASE j = n + 1
      BY <1>1, <2>3
    <2>4. CASE j \in 0..n
      <3>1. LastWritten(c, o, ys, y)
        BY <2>2, WritesLast
      <3>2. PICK p \in WritesEach(o, ys) : \E q \in o.write[y] : p \in Bytes /\ q \in Bytes /\ c = p \o q
        BY <3>1, Zenon DEF LastWritten
      <3>3. PICK q \in o.write[y] : p \in Bytes /\ q \in Bytes /\ c = p \o q
        BY <3>2
      <3>4. StartsWith(p, o, ys, j)
        BY <1>3, <2>2, <2>4
      <3>5. PICK u \in WritesEach(o, SubSeq(ys, 1, j)), r \in Bytes : p = u \o r
        BY <3>4, Zenon DEF StartsWith
      <3>6. SubSeq(ys, 1, j) \in Seq(V) /\ SubSeq(zs, 1, j) = SubSeq(ys, 1, j)
        BY <2>2, <2>4
      <3>7. u \in Bytes
        BY <1>1, <3>6
      <3>8. c = u \o (r \o q) /\ r \o q \in Bytes
        <4>1. r \o q \in Bytes
          BY <3>3, Concat
        <4>2. (u \o r) \o q = u \o (r \o q)
          BY <3>3, <3>7, ConcatAssoc, ZenonT(30)
        <4> QED
          BY <3>3, <3>5, <4>1, <4>2
      <3> QED
        BY <3>5, <3>6, <3>8, Zenon DEF StartsWith
    <2> QED
      BY <2>3, <2>4
  <1> HIDE DEF T
  <1>4. Nat \subseteq T
    BY <1>2, <1>3, InductionSet
  <1>5. Len(xs) \in Nat
    BY LenProperties
  <1> QED
    BY <1>4, <1>5 DEF T

\* What is written for the elements of xs is read as xs, or refused if one of
\* them would not be written.
LEMMA EachReadsBack ==
    ASSUME NEW o, NEW i, Fits(o, i, Bytes), Nonempty(o), NEW xs \in Seq(Values(o)),
           NEW b \in WritesEach(o, xs)
    PROVE  ReadsEach(i, b) = IF WritesEach(i, xs) = {} THEN {} ELSE {xs}
  <1> DEFINE n == Len(xs)
             k == Len(b)
  <1>1. Encodes(o) /\ OneEncoding(o)
    BY DEF Fits
  <1>2. b \in Bytes /\ n \in Nat /\ k \in Nat /\ n =< k
    BY <1>1, WritesEachSound, LenProperties, Concat DEF SoundEach
  <1>3. PICK f \in [0..k -> SUBSET Progress(i)] :
            ReadsUpTo(f, i, b, k) /\ ReadsEach(i, b) = {p[1] : p \in {q \in f[k] : q[2] = <<>>}}
    BY <1>2, FitsDecodes, ReadsLoop
  <1> HIDE DEF k
  <1>4. ReadsUpTo(f, i, b, n)
    <2>1. \A j \in 1..n : j \in 1..k
      BY <1>2
    <2> QED
      BY <1>3, <2>1, Zenon DEF ReadsUpTo
  <1>5. \A m : m \in f[n] <=> (WritesEach(i, xs) # {} /\ m = <<xs, <<>>>>)
    <2>1. Retraced(o, i, xs)
      BY ReadsAlong
    <2>2. b \o <<>> = b /\ <<>> \in Bytes
      BY <1>2, Concat, NoBytes
    <2>3. ReadsUpTo(f, i, b \o <<>>, n)
      BY <1>4, <2>2
    <2> QED
      BY <2>1, <2>2, <2>3, Zenon DEF Retraced
  <1> HIDE DEF n
  <1>6. \A m : m \in f[k] <=> m \in f[n]
    <2>1. \A p \in f[n] : \E ys : p = <<ys, <<>>>>
      BY <1>5, Zenon
    <2>2. n \in 0..k
      BY <1>2
    <2> QED
      BY <1>2, <1>3, <2>1, <2>2, ReadsStay
  <1>7. CASE WritesEach(i, xs) = {}
    BY <1>3, <1>5, <1>6, <1>7
  <1>8. CASE WritesEach(i, xs) # {}
    <2>1. f[k] = {<<xs, <<>>>>}
      BY <1>5, <1>6, <1>8
    <2>2. {q \in f[k] : q[2] = <<>>} = {<<xs, <<>>>>}
      BY <2>1
    <2>3. {p[1] : p \in {<<xs, <<>>>>}} = {xs}
      OBVIOUS
    <2> QED
      BY <1>3, <1>8, <2>2, <2>3
  <1> QED
    BY <1>7, <1>8

\* A vector that is read is what the writer puts out for it.
LEMMA EachReadsOnly ==
    ASSUME NEW o, NEW i, Fits(o, i, Bytes), NEW s \in Bytes, NEW xs \in ReadsEach(i, s)
    PROVE  xs \in Seq(Values(o)) /\ s \in WritesEach(o, xs)
  <1> DEFINE k == Len(s)
  <1>1. Encodes(o) /\ ReadsOnly(o, i) /\ k \in Nat
    BY LenProperties DEF Fits, Bytes
  <1>2. PICK f \in [0..k -> SUBSET Progress(i)] :
            ReadsUpTo(f, i, s, k) /\ ReadsEach(i, s) = {p[1] : p \in {q \in f[k] : q[2] = <<>>}}
    BY FitsDecodes, ReadsLoop
  <1> HIDE DEF k
  <1>3. PICK p \in f[k] : p[2] = <<>> /\ xs = p[1]
    BY <1>2
  <1>4. ReadOff(p, o, s)
    BY <1>1, <1>2, ReadsOffOnly
  <1>5. PICK ys \in Seq(Values(o)) : \E b \in WritesEach(o, ys) : \E r \in Bytes :
            b \in Bytes /\ p = <<ys, r>> /\ s = b \o r
    BY <1>4, Zenon DEF ReadOff
  <1>6. PICK b \in WritesEach(o, ys), r \in Bytes : b \in Bytes /\ p = <<ys, r>> /\ s = b \o r
    BY <1>5
  <1>7. r = <<>> /\ xs = ys
    BY <1>3, <1>6
  <1>8. s = b
    BY <1>6, <1>7, Concat
  <1> QED
    BY <1>6, <1>7, <1>8

\* What a narrower codec writes for a vector the wider one writes.
LEMMA EachNarrows ==
    ASSUME NEW o, NEW i, Values(o) = Values(i), Encodes(o), Encodes(i), Narrows(o, i),
           NEW xs \in Seq(Values(o))
    PROVE  WritesEach(i, xs) \subseteq WritesEach(o, xs)
  <1> DEFINE V == Values(o)
             P(ys) == WritesEach(i, ys) \subseteq WritesEach(o, ys)
             T == {n \in Nat : \A ys \in Seq(V) : Len(ys) = n => P(ys)}
  <1>1. 0 \in T
    <2>1. ASSUME NEW ys \in Seq(V), Len(ys) = 0 PROVE P(ys)
      <3>1. ys = <<>>
        BY <2>1, NoElements
      <3>2. WritesEach(o, ys) = {<<>>} /\ WritesEach(i, ys) = {<<>>}
        BY <3>1, WritesNone, Zenon
      <3> QED
        BY <3>2
    <2> QED
      BY <2>1
  <1>2. ASSUME NEW n \in Nat, n \in T PROVE n + 1 \in T
    <2> SUFFICES ASSUME NEW zs \in Seq(V), Len(zs) = n + 1, NEW m \in WritesEach(i, zs)
                 PROVE  m \in WritesEach(o, zs)
      OBVIOUS
    <2>1. PICK ys \in Seq(V) : \E y \in V : Len(ys) = n /\ zs = Append(ys, y)
      <3>1. HasLast(zs, n, V)
        BY Snoc
      <3> QED
        BY <3>1, Zenon DEF HasLast
    <2>2. PICK y \in V : Len(ys) = n /\ zs = Append(ys, y)
      BY <2>1
    <2>3. WritesEach(i, ys) \subseteq WritesEach(o, ys) /\ i.write[y] \subseteq o.write[y]
      BY <1>2, <2>2 DEF Narrows
    <2>4. Joined(m, WritesEach(i, ys), i.write[y])
      BY <2>2, WritesOneMore
    <2>5. Joined(m, WritesEach(o, ys), o.write[y])
      BY <2>3, <2>4, Zenon DEF Joined
    <2> QED
      BY <2>2, <2>5, WritesOneMore
  <1> HIDE DEF T
  <1>3. Nat \subseteq T
    BY <1>1, <1>2, InductionSet
  <1>4. Len(xs) \in Nat
    BY LenProperties
  <1> QED
    BY <1>3, <1>4 DEF T

\* Both directions of Remainder.
LEMMA RemainderIs ==
    ASSUME NEW c
    PROVE  /\ Values(Remainder(c)) = Seq(Values(c))
           /\ \A xs \in Seq(Values(c)) : Remainder(c).write[xs] = WritesEach(c, xs)
           /\ \A s \in Bytes : \A z : z \in Remainder(c).read[s] <=>
                  \E xs \in ReadsEach(c, s) : z = <<xs, <<>>>>
  <1> DEFINE V == Seq(Values(c))
             R(s) == {<<xs, <<>>>> : xs \in ReadsEach(c, s)}
  <1>1. Remainder(c) = [write |-> [xs \in V |-> WritesEach(c, xs)], read |-> [s \in Bytes |-> R(s)]]
    BY DEF Remainder
  <1>2. \A s, z : z \in R(s) <=> \E xs \in ReadsEach(c, s) : z = <<xs, <<>>>>
    OBVIOUS
  <1> HIDE DEF V, R
  <1>3. Remainder(c).write = [xs \in V |-> WritesEach(c, xs)] /\ Remainder(c).read = [s \in Bytes |-> R(s)]
    BY <1>1
  <1> QED
    BY <1>2, <1>3 DEF Values, V

\* Elements up to the end of the message fit at the end of a message.
LEMMA FitsRemainder ==
    ASSUME NEW a, NEW c, Fits(a, c, Bytes), Nonempty(a)
    PROVE  Fits(Remainder(a), Remainder(c), Ended)
  <1> DEFINE o == Remainder(a)
             i == Remainder(c)
             V == Seq(Values(a))
  <1>1. /\ Values(o) = V
        /\ \A xs \in V : o.write[xs] = WritesEach(a, xs)
    BY RemainderIs
  <1>2. Values(a) = Values(c) /\ Encodes(a) /\ Encodes(c) /\ OneEncoding(a) /\ Narrows(a, c)
    BY DEF Fits
  <1>3. /\ Values(i) = V
        /\ \A xs \in V : i.write[xs] = WritesEach(c, xs)
        /\ \A s \in Bytes : \A z : z \in i.read[s] <=> \E xs \in ReadsEach(c, s) : z = <<xs, <<>>>>
    BY <1>2, RemainderIs
  <1> HIDE DEF o, i
  <1>4. Encodes(o)
    <2>1. \A xs \in V : WritesEach(a, xs) \in SUBSET Bytes
      BY <1>2, WritesBytes
    <2> QED
      BY <1>1, <2>1 DEF Encodes
  <1>5. Encodes(i)
    <2>1. \A xs \in V : WritesEach(c, xs) \in SUBSET Bytes
      BY <1>2, WritesBytes
    <2> QED
      BY <1>3, <2>1 DEF Encodes
  <1>6. OneEncoding(o)
    <2>1. \A xs \in V : SoundEach(a, xs)
      BY <1>2, WritesEachSound
    <2> QED
      BY <1>1, <2>1 DEF SoundEach, OneEncoding
  <1>7. ReadsBack(o, i, Ended)
    <2> SUFFICES ASSUME NEW xs \in V, NEW b \in o.write[xs]
                 PROVE  i.read[b \o <<>>] = IF i.write[xs] = {} THEN {} ELSE {<<xs, <<>>>>}
      BY <1>1 DEF ReadsBack, Ended
    <2>1. b \in Bytes /\ b \o <<>> = b
      BY <1>1, <1>4, Concat DEF Encodes
    <2>2. ReadsEach(c, b) = IF WritesEach(c, xs) = {} THEN {} ELSE {xs}
      BY <1>1, EachReadsBack
    <2>3. \A z : z \in i.read[b] <=> \E ys \in ReadsEach(c, b) : z = <<ys, <<>>>>
      BY <1>3, <2>1
    <2>4. i.write[xs] = WritesEach(c, xs)
      BY <1>3
    <2>5. CASE WritesEach(c, xs) = {}
      BY <2>1, <2>2, <2>3, <2>4, <2>5
    <2>6. CASE WritesEach(c, xs) # {}
      <3>1. i.read[b] = {<<xs, <<>>>>}
        BY <2>2, <2>3, <2>6
      <3> QED
        BY <2>1, <2>4, <2>6, <3>1
    <2> QED
      BY <2>5, <2>6
  <1>8. ReadsOnly(o, i)
    <2> SUFFICES ASSUME NEW s \in Bytes, NEW z \in i.read[s]
                 PROVE  \E xs \in Values(o) : \E b \in o.write[xs] : \E r \in Bytes :
                            z = <<xs, r>> /\ s = b \o r
      BY DEF ReadsOnly
    <2>1. PICK xs \in ReadsEach(c, s) : z = <<xs, <<>>>>
      BY <1>3
    <2>2. xs \in V /\ s \in WritesEach(a, xs)
      BY EachReadsOnly
    <2>3. s \in o.write[xs] /\ s = s \o <<>> /\ <<>> \in Bytes
      BY <1>1, <2>2, Concat, NoBytes
    <2> QED
      BY <1>1, <2>1, <2>2, <2>3, Zenon
  <1>9. Narrows(o, i)
    BY <1>1, <1>2, <1>3, EachNarrows DEF Narrows
  <1> QED
    BY <1>1, <1>3, <1>4, <1>5, <1>6, <1>7, <1>8, <1>9 DEF Fits, o, i

\* z is read off s: n elements, and nothing behind them.
ReadsExactly(z, n, c, s) == \E xs \in ReadsEach(c, s) : Len(xs) = n /\ z = <<xs, <<>>>>

\* Both directions of Exactly.
LEMMA ExactlyIs ==
    ASSUME NEW n \in Nat, NEW c
    PROVE  LET V == {xs \in Seq(Values(c)) : Len(xs) = n}
           IN  /\ Values(Exactly(n, c)) = V
               /\ \A xs \in V : Exactly(n, c).write[xs] = WritesEach(c, xs)
               /\ \A s \in Bytes : \A z : z \in Exactly(n, c).read[s] <=> ReadsExactly(z, n, c, s)
  <1> DEFINE V == {xs \in Seq(Values(c)) : Len(xs) = n}
             R(s) == {<<xs, <<>>>> : xs \in {ys \in ReadsEach(c, s) : Len(ys) = n}}
  <1>1. Exactly(n, c) = [write |-> [xs \in V |-> WritesEach(c, xs)], read |-> [s \in Bytes |-> R(s)]]
    BY DEF Exactly
  <1>2. \A s, z : z \in R(s) <=> ReadsExactly(z, n, c, s)
    BY DEF ReadsExactly
  <1> HIDE DEF V, R
  <1>3. Exactly(n, c).write = [xs \in V |-> WritesEach(c, xs)] /\ Exactly(n, c).read = [s \in Bytes |-> R(s)]
    BY <1>1
  <1>4. Values(Exactly(n, c)) = V /\ \A xs \in V : Exactly(n, c).write[xs] = WritesEach(c, xs)
    BY <1>3 DEF Values
  <1>5. \A s \in Bytes : Exactly(n, c).read[s] = R(s)
    BY <1>3
  <1> QED
    BY <1>2, <1>4, <1>5 DEF V

\* A given number of elements fits at the end of a message.
LEMMA FitsExactly ==
    ASSUME NEW n \in Nat, NEW c, Fits(c, c, Bytes), Nonempty(c)
    PROVE  Fits(Exactly(n, c), Exactly(n, c), Ended)
  <1> DEFINE o == Exactly(n, c)
             V == {xs \in Seq(Values(c)) : Len(xs) = n}
  <1>1. /\ Values(o) = V
        /\ \A xs \in V : o.write[xs] = WritesEach(c, xs)
    BY ExactlyIs, Zenon
  <1>2. \A s \in Bytes : \A z : z \in o.read[s] <=> ReadsExactly(z, n, c, s)
    BY ExactlyIs, Zenon
  <1> HIDE DEF o
  <1>3. Encodes(c) /\ OneEncoding(c)
    BY DEF Fits
  <1>4. \A xs \in V : xs \in Seq(Values(c)) /\ Len(xs) = n
    OBVIOUS
  <1>5. \A xs \in Seq(Values(c)) : Len(xs) = n => xs \in V
    OBVIOUS
  <1> HIDE DEF V
  <1>6. Encodes(o)
    <2>1. \A xs \in V : WritesEach(c, xs) \in SUBSET Bytes
      BY <1>3, <1>4, WritesBytes
    <2> QED
      BY <1>1, <2>1 DEF Encodes
  <1>7. OneEncoding(o)
    <2>1. \A xs \in V : SoundEach(c, xs)
      BY <1>3, <1>4, WritesEachSound
    <2> QED
      BY <1>1, <2>1 DEF SoundEach, OneEncoding
  <1>8. ReadsBack(o, o, Ended)
    <2> SUFFICES ASSUME NEW xs \in V, NEW b \in o.write[xs]
                 PROVE  o.read[b \o <<>>] = IF o.write[xs] = {} THEN {} ELSE {<<xs, <<>>>>}
      BY <1>1 DEF ReadsBack, Ended
    <2>1. b \in Bytes /\ b \o <<>> = b
      BY <1>1, <1>6, Concat DEF Encodes
    <2>2. b \in WritesEach(c, xs) /\ xs \in Seq(Values(c)) /\ Len(xs) = n
      BY <1>1, <1>4
    <2>3. ReadsEach(c, b) = {xs}
      BY <2>2, EachReadsBack
    <2>4. \A z : z \in o.read[b] <=> \E ys \in ReadsEach(c, b) : Len(ys) = n /\ z = <<ys, <<>>>>
      BY <1>2, <2>1, Zenon DEF ReadsExactly
    <2>5. o.read[b] = {<<xs, <<>>>>}
      BY <2>2, <2>3, <2>4
    <2> QED
      BY <2>1, <2>5
  <1>9. ReadsOnly(o, o)
    <2> SUFFICES ASSUME NEW s \in Bytes, NEW z \in o.read[s]
                 PROVE  \E xs \in Values(o) : \E b \in o.write[xs] : \E r \in Bytes :
                            z = <<xs, r>> /\ s = b \o r
      BY DEF ReadsOnly
    <2>1. PICK xs \in ReadsEach(c, s) : Len(xs) = n /\ z = <<xs, <<>>>>
      BY <1>2, Zenon DEF ReadsExactly
    <2>2. xs \in Seq(Values(c)) /\ s \in WritesEach(c, xs)
      BY EachReadsOnly
    <2>3. xs \in V
      BY <1>5, <2>1, <2>2
    <2>4. s \in o.write[xs] /\ s = s \o <<>> /\ <<>> \in Bytes
      BY <1>1, <2>2, <2>3, Concat, NoBytes
    <2> QED
      BY <1>1, <2>1, <2>3, <2>4, Zenon
  <1> QED
    BY <1>6, <1>7, <1>8, <1>9 DEF Fits, Narrows, o

\* m is the contents of A behind their length.
Enclosed(m, w, A) == \E b \in A : Len(b) < RadixTo[w] /\ m = Framed(b, w)

\* z is read off s: the elements behind a length, and the rest.
ReadsVector(z, w, c, s) ==
    \E p \in ReadLengthPrefixed(s, w) : \E xs \in ReadsEach(c, p[1]) : z = <<xs, p[2]>>

\* Both directions of Vector.
LEMMA VectorIs ==
    ASSUME NEW w \in Nat, NEW c
    PROVE  /\ Values(Vector(w, c)) = Seq(Values(c))
           /\ \A xs \in Seq(Values(c)) : \A m :
                  m \in Vector(w, c).write[xs] <=> Enclosed(m, w, WritesEach(c, xs))
           /\ \A s \in Bytes : \A z : z \in Vector(w, c).read[s] <=> ReadsVector(z, w, c, s)
  <1> DEFINE V == Seq(Values(c))
             W(xs) == AddLengthPrefixed(w, WritesEach(c, xs))
             R(s) == UNION {{<<xs, p[2]>> : xs \in ReadsEach(c, p[1])} : p \in ReadLengthPrefixed(s, w)}
  <1>1. Vector(w, c) = [write |-> [xs \in V |-> W(xs)], read |-> [s \in Bytes |-> R(s)]]
    BY DEF Vector
  <1>2. \A xs, m : m \in W(xs) <=> Enclosed(m, w, WritesEach(c, xs))
    BY DEF AddLengthPrefixed, Framed, Enclosed
  <1>3. \A s, z : z \in R(s) <=> ReadsVector(z, w, c, s)
    BY DEF ReadsVector
  <1> HIDE DEF V, W, R
  <1>4. Vector(w, c).write = [xs \in V |-> W(xs)] /\ Vector(w, c).read = [s \in Bytes |-> R(s)]
    BY <1>1
  <1>5. Values(Vector(w, c)) = V
    BY <1>4 DEF Values
  <1>6. \A xs \in V : Vector(w, c).write[xs] = W(xs)
    BY <1>4
  <1>7. \A s \in Bytes : Vector(w, c).read[s] = R(s)
    BY <1>4
  <1> QED
    BY <1>2, <1>3, <1>5, <1>6, <1>7 DEF V

\* Elements behind their length fit: the length ends the vector, whatever follows.
LEMMA FitsVector ==
    ASSUME NEW w \in Nat, NEW a, NEW c, Fits(a, c, Bytes), Nonempty(a)
    PROVE  /\ Fits(Vector(w, a), Vector(w, c), Bytes)
           /\ w # 0 => Nonempty(Vector(w, a))
  <1> DEFINE o == Vector(w, a)
             i == Vector(w, c)
             V == Seq(Values(a))
  <1>1. Values(a) = Values(c) /\ Encodes(a) /\ Encodes(c) /\ OneEncoding(a) /\ Narrows(a, c)
    BY DEF Fits
  <1>2. /\ Values(o) = V
        /\ \A xs \in V : \A m : m \in o.write[xs] <=> Enclosed(m, w, WritesEach(a, xs))
    BY VectorIs
  <1>3. /\ Values(i) = V
        /\ \A xs \in V : \A m : m \in i.write[xs] <=> Enclosed(m, w, WritesEach(c, xs))
        /\ \A s \in Bytes : \A z : z \in i.read[s] <=> ReadsVector(z, w, c, s)
    BY <1>1, VectorIs
  <1> HIDE DEF o, i
  <1>4. \A xs \in V : WritesEach(a, xs) \in SUBSET Bytes /\ WritesEach(c, xs) \in SUBSET Bytes
    BY <1>1, WritesBytes
  <1>5. \A xs \in V : SoundEach(a, xs)
    BY <1>1, WritesEachSound
  <1>6. \A xs \in V : WritesEach(c, xs) \subseteq WritesEach(a, xs)
    BY <1>1, EachNarrows
  <1> HIDE DEF V
  \* A message of the vector encloses the one encoding of its elements.
  <1>7. ASSUME NEW xs \in V, NEW m \in o.write[xs]
        PROVE  \E b \in WritesEach(a, xs) :
                  /\ b \in Bytes /\ WritesEach(a, xs) = {b} /\ Len(b) < RadixTo[w]
                  /\ m = Framed(b, w) /\ m \in Bytes /\ (w # 0 => m # <<>>)
    <2>1. Enclosed(m, w, WritesEach(a, xs))
      BY <1>2
    <2>2. PICK b \in WritesEach(a, xs) : Len(b) < RadixTo[w] /\ m = Framed(b, w)
      BY <2>1, Zenon DEF Enclosed
    <2>3. b \in Bytes /\ WritesEach(a, xs) = {b}
      BY <1>5 DEF SoundEach
    <2>4. m \in Bytes /\ (w # 0 => m # <<>>)
      BY <2>2, <2>3, FramedIs
    <2> QED
      BY <2>2, <2>3, <2>4
  <1>8. Encodes(o)
    BY <1>2, <1>7 DEF Encodes
  <1>9. Narrows(o, i)
    <2> SUFFICES ASSUME NEW xs \in V, NEW m \in i.write[xs] PROVE m \in o.write[xs]
      BY <1>2 DEF Narrows
    <2>1. Enclosed(m, w, WritesEach(c, xs))
      BY <1>3
    <2>2. Enclosed(m, w, WritesEach(a, xs))
      BY <1>6, <2>1, Zenon DEF Enclosed
    <2> QED
      BY <1>2, <2>2
  <1>10. Encodes(i)
    BY <1>2, <1>3, <1>8, <1>9 DEF Encodes, Narrows
  <1>11. OneEncoding(o)
    <2> SUFFICES ASSUME NEW xs \in V, NEW m \in o.write[xs], NEW e \in o.write[xs] PROVE e = m
      BY <1>2 DEF OneEncoding
    <2>1. PICK b \in WritesEach(a, xs) : WritesEach(a, xs) = {b} /\ m = Framed(b, w)
      BY <1>7
    <2>2. PICK d \in WritesEach(a, xs) : e = Framed(d, w)
      BY <1>7
    <2> QED
      BY <2>1, <2>2
  <1>12. w # 0 => Nonempty(o)
    BY <1>2, <1>7 DEF Nonempty
  <1>13. ReadsBack(o, i, Bytes)
    <2> SUFFICES ASSUME NEW xs \in V, NEW m \in o.write[xs], NEW s \in Bytes
                 PROVE  i.read[m \o s] = IF i.write[xs] = {} THEN {} ELSE {<<xs, s>>}
      BY <1>2 DEF ReadsBack
    <2>1. PICK b \in WritesEach(a, xs) :
              /\ b \in Bytes /\ WritesEach(a, xs) = {b} /\ Len(b) < RadixTo[w]
              /\ m = Framed(b, w) /\ m \in Bytes
      BY <1>7
    <2> DEFINE u == m \o s
    <2>2. u \in Bytes /\ ReadLengthPrefixed(u, w) = {<<b, s>>}
      BY <2>1, Concat, ReadFramed
    <2> HIDE DEF u
    <2>3. ReadsEach(c, b) = IF WritesEach(c, xs) = {} THEN {} ELSE {xs}
      BY EachReadsBack DEF V
    <2>4. \A z : z \in i.read[u] <=> ReadsVector(z, w, c, u)
      BY <1>3, <2>2
    <2>5. i.write[xs] = {} <=> WritesEach(c, xs) = {}
      <3>1. \A e : e \in i.write[xs] <=> Enclosed(e, w, WritesEach(c, xs))
        BY <1>3
      <3>2. ASSUME WritesEach(c, xs) # {} PROVE b \in WritesEach(c, xs)
        BY <1>6, <2>1, <3>2
      <3> QED
        BY <2>1, <3>1, <3>2, Zenon DEF Enclosed
    <2>6. \A z : ReadsVector(z, w, c, u) <=> \E ys \in ReadsEach(c, b) : z = <<ys, s>>
      <3> DEFINE p == <<b, s>>
      <3>1. p[1] = b /\ p[2] = s /\ p \in ReadLengthPrefixed(u, w)
            /\ \A q \in ReadLengthPrefixed(u, w) : q = p
        BY <2>2
      <3> HIDE DEF p
      <3> QED
        BY <3>1 DEF ReadsVector
    <2>7. CASE WritesEach(c, xs) = {}
      <3>1. i.read[u] = {}
        BY <2>3, <2>4, <2>6, <2>7
      <3> QED
        BY <2>5, <2>7, <3>1 DEF u
    <2>8. CASE WritesEach(c, xs) # {}
      <3>1. ReadsEach(c, b) = {xs}
        BY <2>3, <2>8
      <3>2. i.read[u] = {<<xs, s>>}
        BY <2>4, <2>6, <3>1
      <3> QED
        BY <2>5, <2>8, <3>2 DEF u
    <2> QED
      BY <2>7, <2>8
  <1>14. ReadsOnly(o, i)
    <2> SUFFICES ASSUME NEW s \in Bytes, NEW z \in i.read[s]
                 PROVE  \E xs \in Values(o) : \E m \in o.write[xs] : \E r \in Bytes :
                            z = <<xs, r>> /\ s = m \o r
      BY DEF ReadsOnly
    <2>1. ReadsVector(z, w, c, s)
      BY <1>3
    <2>2. PICK p \in ReadLengthPrefixed(s, w) : \E xs \in ReadsEach(c, p[1]) : z = <<xs, p[2]>>
      BY <2>1, Zenon DEF ReadsVector
    <2>3. PICK b \in Bytes, r \in Bytes : p = <<b, r>> /\ Len(b) < RadixTo[w] /\ s = Framed(b, w) \o r
      BY FramedRead
    <2>4. PICK xs \in ReadsEach(c, b) : z = <<xs, r>>
      BY <2>2, <2>3
    <2>5. xs \in V /\ b \in WritesEach(a, xs)
      BY EachReadsOnly DEF V
    <2>6. Framed(b, w) \in o.write[xs]
      <3>1. Enclosed(Framed(b, w), w, WritesEach(a, xs))
        BY <2>3, <2>5, Zenon DEF Enclosed
      <3> QED
        BY <1>2, <2>5, <3>1
    <2> QED
      BY <1>2, <2>3, <2>4, <2>5, <2>6, Zenon
  <1> QED
    BY <1>2, <1>3, <1>8, <1>9, <1>10, <1>11, <1>12, <1>13, <1>14 DEF Fits, o, i

-----------------------------------------------------------------------------
(* The messages.                                                            *)

\* i reads what o writes whatever follows it: what can be a field of a message
\* and an element of a vector.
Delimited(o, i) == Fits(o, i, Bytes) /\ Nonempty(o)

\* Two delimited fields make a delimited type.
LEMMA DelimitedPair ==
    ASSUME NEW a, NEW b, NEW c, NEW d, Delimited(a, c), Delimited(b, d)
    PROVE  Delimited(a ** b, c ** d)
  BY FitsPair DEF Delimited

\* Fields that carry their length are delimited.
LEMMA DelimitedFields ==
    /\ \A w \in Nat \ {0} : Delimited(Uint(w), Uint(w))
    /\ \A w \in Nat \ {0} : \A m, n \in Nat : m =< n => Delimited(Opaque(w, m), Opaque(w, n))
    /\ \A k \in Nat \ {0} : Delimited(Fixed(k), Fixed(k))
  BY FitsUint, FitsOpaque, FitsFixed DEF Delimited

\* A vector of delimited elements is delimited.
LEMMA DelimitedVector ==
    ASSUME NEW w \in Nat \ {0}, NEW a, NEW c, Delimited(a, c)
    PROVE  Delimited(Vector(w, a), Vector(w, c))
  BY FitsVector DEF Delimited

\* The fields of the messages.
LEMMA Fields ==
    /\ Delimited(Uint(1), Uint(1)) /\ Delimited(Uint(2), Uint(2))
    /\ Delimited(Uint(4), Uint(4)) /\ Delimited(Uint(8), Uint(8))
    /\ Delimited(Opaque(1, 0), Opaque(1, 0)) /\ Delimited(Opaque(1, 1), Opaque(1, 1))
    /\ Delimited(Opaque(2, 0), Opaque(2, 0)) /\ Delimited(Opaque(2, 0), Opaque(2, 1))
    /\ Delimited(Opaque(4, 0), Opaque(4, 0)) /\ Delimited(Opaque(4, 0), Opaque(4, 1))
    /\ Delimited(Fixed(ReportIDSize), Fixed(ReportIDSize))
    /\ Delimited(Fixed(TaskIDSize), Fixed(TaskIDSize))
    /\ Delimited(Fixed(ChecksumSize), Fixed(ChecksumSize))
    /\ Delimited(Fixed(SeedSize), Fixed(SeedSize))
  BY DelimitedFields, SizeAssumption

\* The report extensions (types.go).
LEMMA ExtensionFits ==
    /\ Delimited(MarshalExtension, UnmarshalExtension)
    /\ Delimited(marshalExtensionVec, unmarshalExtensionVec)
  <1>1. Delimited(MarshalExtension, UnmarshalExtension)
    BY Fields, DelimitedPair DEF MarshalExtension, UnmarshalExtension
  <1> QED
    BY <1>1, DelimitedVector DEF marshalExtensionVec, unmarshalExtensionVec

\* The ciphertext: its reader refuses an empty key or payload (types.go).
LEMMA HpkeCiphertextFits == Delimited(MarshalHpkeCiphertext, UnmarshalHpkeCiphertext)
  BY Fields, DelimitedPair DEF MarshalHpkeCiphertext, UnmarshalHpkeCiphertext

\* The metadata of a report (types.go).
LEMMA ReportMetadataFits == Delimited(MarshalReportMetadata, UnmarshalReportMetadata)
  BY Fields, ExtensionFits, DelimitedPair DEF MarshalReportMetadata, UnmarshalReportMetadata

\* A report (types.go).
LEMMA ReportFits == Delimited(MarshalReport, UnmarshalReport)
  BY Fields, ReportMetadataFits, HpkeCiphertextFits, DelimitedPair DEF MarshalReport, UnmarshalReport

\* The plaintext of an input share (types.go).
LEMMA PlaintextInputShareFits == Delimited(MarshalPlaintextInputShare, UnmarshalPlaintextInputShare)
  BY Fields, ExtensionFits, DelimitedPair
     DEF MarshalPlaintextInputShare, UnmarshalPlaintextInputShare

\* A report share (aggregation.go).
LEMMA ReportShareFits == Delimited(MarshalReportShare, UnmarshalReportShare)
  BY Fields, ReportMetadataFits, HpkeCiphertextFits, DelimitedPair
     DEF MarshalReportShare, UnmarshalReportShare

\* A VerifyInit (aggregation.go).
LEMMA VerifyInitFits == Delimited(MarshalVerifyInit, UnmarshalVerifyInit)
  BY Fields, ReportShareFits, DelimitedPair DEF MarshalVerifyInit, UnmarshalVerifyInit

\* The Janus batch selector (aggregation.go).
LEMMA PartialBatchSelectorFits == Delimited(MarshalPartialBatchSelector, UnmarshalPartialBatchSelector)
  BY Fields, DelimitedPair DEF MarshalPartialBatchSelector, UnmarshalPartialBatchSelector

\* The extensions of a job (aggregation.go).
LEMMA AggJobExtensionFits == Delimited(marshalAggJobExtVec, unmarshalAggJobExtVec)
  <1>1. Delimited(MarshalAggJobExtension, UnmarshalAggJobExtension)
    BY Fields, DelimitedPair DEF MarshalAggJobExtension, UnmarshalAggJobExtension
  <1> QED
    BY <1>1, DelimitedVector DEF marshalAggJobExtVec, unmarshalAggJobExtVec

\* What comes before the reports of a published request.
MarshalHeader   == Uint(1) ** Opaque(4, 0) ** marshalAggJobExtVec
UnmarshalHeader == Uint(1) ** Opaque(4, 0) ** unmarshalAggJobExtVec

\* The published request: delimited up to its reports, which end with the body.
LEMMA PublishedInitReq ==
    /\ Delimited(MarshalHeader, UnmarshalHeader)
    /\ MarshalAggregationJobInitReq("Draft18") = MarshalHeader ** Remainder(MarshalVerifyInit)
    /\ UnmarshalAggregationJobInitReq("Draft18") = UnmarshalHeader ** Remainder(UnmarshalVerifyInit)
    /\ Fits(MarshalAggregationJobInitReq("Draft18"), UnmarshalAggregationJobInitReq("Draft18"), Ended)
  <1>1. Delimited(MarshalHeader, UnmarshalHeader)
    BY Fields, AggJobExtensionFits, DelimitedPair DEF MarshalHeader, UnmarshalHeader
  <1>2. /\ MarshalAggregationJobInitReq("Draft18") = MarshalHeader ** Remainder(MarshalVerifyInit)
        /\ UnmarshalAggregationJobInitReq("Draft18") = UnmarshalHeader ** Remainder(UnmarshalVerifyInit)
    BY DEF MarshalAggregationJobInitReq, UnmarshalAggregationJobInitReq, MarshalHeader, UnmarshalHeader
  <1>3. Fits(Remainder(MarshalVerifyInit), Remainder(UnmarshalVerifyInit), Ended)
    BY VerifyInitFits, FitsRemainder DEF Delimited
  <1>4. Ended \subseteq Bytes
    BY NoBytes DEF Ended
  <1> QED
    BY <1>1, <1>2, <1>3, <1>4, FitsPair DEF Delimited

\* The Janus request is delimited as a whole.
LEMMA JanusInitReq ==
    Delimited(MarshalAggregationJobInitReq("Janus"), UnmarshalAggregationJobInitReq("Janus"))
  <1>1. Delimited(Vector(4, MarshalVerifyInit), Vector(4, UnmarshalVerifyInit))
    BY VerifyInitFits, DelimitedVector
  <1> QED
    BY <1>1, Fields, PartialBatchSelectorFits, DelimitedPair
       DEF MarshalAggregationJobInitReq, UnmarshalAggregationJobInitReq

\* A VerifyResp: what is written for an unknown type is refused.
LEMMA VerifyRespFits ==
    ASSUME NEW v
    PROVE  Delimited(MarshalVerifyResp(v), UnmarshalVerifyResp(v))
  <1> DEFINE a0 == Opaque(4, 0)
             b0 == Opaque(4, 1)
             e == Empty
             c == ErrorCode(v)
  <1>1. Fits(a0, b0, Bytes) /\ Fits(e, e, Bytes) /\ Fits(c, c, Bytes)
    BY Fields, FitsEmpty, FitsErrorCode DEF Delimited
  <1> HIDE DEF a0, b0, e, c
  <1>2. Fits(Select(a0, e, c, TRUE), Select(b0, e, c, FALSE), Bytes) /\ Nonempty(Select(a0, e, c, TRUE))
    BY <1>1, FitsSelect
  <1> QED
    BY <1>2, Fields, DelimitedPair DEF MarshalVerifyResp, UnmarshalVerifyResp, Delimited, a0, b0, e, c

\* The answer to a request, in every dialect.
LEMMA JobRespFits ==
    ASSUME NEW v
    PROVE  Fits(MarshalAggregationJobResp(v), UnmarshalAggregationJobResp(v), Ended)
  <1>1. Delimited(Vector(4, MarshalVerifyResp(v)), Vector(4, UnmarshalVerifyResp(v)))
    BY VerifyRespFits, DelimitedVector
  <1>2. Fits(Remainder(MarshalVerifyResp(v)), Remainder(UnmarshalVerifyResp(v)), Ended)
    BY VerifyRespFits, FitsRemainder DEF Delimited
  <1>3. Fits(Vector(4, MarshalVerifyResp(v)), Vector(4, UnmarshalVerifyResp(v)), Ended)
    BY <1>1, FitsEnded DEF Delimited
  <1> QED
    BY <1>2, <1>3 DEF MarshalAggregationJobResp, UnmarshalAggregationJobResp

\* The task configuration, in every dialect.
LEMMA TaskConfigurationFits ==
    ASSUME NEW v
    PROVE  Delimited(MarshalTaskConfiguration(v), UnmarshalTaskConfiguration(v))
  <1>1. Delimited(MarshalTaskExtension, UnmarshalTaskExtension)
    BY Fields, DelimitedPair DEF MarshalTaskExtension, UnmarshalTaskExtension
  <1>2. Delimited(Vector(2, MarshalTaskExtension), Vector(2, UnmarshalTaskExtension))
    BY <1>1, DelimitedVector
  <1>3. Delimited(Opaque(1, TaskInfoMin(v)), Opaque(1, TaskInfoMin(v)))
    BY Fields DEF TaskInfoMin
  <1> QED
    BY <1>2, <1>3, Fields, DelimitedPair DEF MarshalTaskConfiguration, UnmarshalTaskConfiguration

\* The data authenticated with an input share, in every dialect.
LEMMA InputShareAadFits ==
    ASSUME NEW v
    PROVE  Delimited(MarshalInputShareAad(v), UnmarshalInputShareAad(v))
  <1> DEFINE a == IF v = "Janus" THEN Fixed(TaskIDSize)
                  ELSE Fixed(TaskIDSize) ** MarshalTaskConfiguration(v)
             b == IF v = "Janus" THEN Fixed(TaskIDSize)
                  ELSE Fixed(TaskIDSize) ** UnmarshalTaskConfiguration(v)
  <1>1. Delimited(a, b)
    BY Fields, TaskConfigurationFits, DelimitedPair
  <1> HIDE DEF a, b
  <1>2. Delimited(a ** MarshalReportMetadata ** Opaque(4, 0), b ** UnmarshalReportMetadata ** Opaque(4, 0))
    BY <1>1, Fields, ReportMetadataFits, DelimitedPair
  <1> QED
    BY <1>2 DEF MarshalInputShareAad, UnmarshalInputShareAad, a, b

\* The ping-pong messages (pingpong.go).
LEMMA PingPongMessageFits == Delimited(MarshalPingPongMessage, UnmarshalPingPongMessage)
  <1> DEFINE a == Opaque(4, 0)
             b == a ** a
  <1>1. Fits(a, a, Bytes) /\ Fits(b, b, Bytes)
    BY Fields, DelimitedPair DEF Delimited
  <1> HIDE DEF a, b
  <1>2. Fits(Select(a, b, a, FALSE), Select(a, b, a, FALSE), Bytes) /\ Nonempty(Select(a, b, a, FALSE))
    BY <1>1, FitsSelect
  <1> QED
    BY <1>2 DEF MarshalPingPongMessage, UnmarshalPingPongMessage, Delimited, a, b

\* The list of HPKE configurations.
LEMMA HpkeConfigListFits == Delimited(MarshalHpkeConfigList, UnmarshalHpkeConfigList)
  <1>1. Delimited(MarshalHpkeConfig, UnmarshalHpkeConfig)
    BY Fields, DelimitedPair DEF MarshalHpkeConfig, UnmarshalHpkeConfig
  <1> QED
    BY <1>1, DelimitedVector DEF MarshalHpkeConfigList, UnmarshalHpkeConfigList

\* The request for an aggregate share, its answer and what is authenticated.
LEMMA AggregateShareFits ==
    /\ Delimited(MarshalAggregateShareReq, UnmarshalAggregateShareReq)
    /\ Delimited(MarshalAggregateShareAad, MarshalAggregateShareAad)
    /\ Delimited(MarshalAggregateShare, UnmarshalAggregateShare)
  <1>1. /\ Delimited(MarshalBatchSelector, UnmarshalBatchSelector)
        /\ Delimited(MarshalBatchSelector, MarshalBatchSelector)
    BY Fields, DelimitedPair DEF MarshalBatchSelector, UnmarshalBatchSelector
  <1>2. Delimited(MarshalAggregateShareReq, UnmarshalAggregateShareReq)
    BY <1>1, Fields, DelimitedPair DEF MarshalAggregateShareReq, UnmarshalAggregateShareReq
  <1>3. Delimited(MarshalAggregateShareAad, MarshalAggregateShareAad)
    BY <1>1, Fields, DelimitedPair DEF MarshalAggregateShareAad
  <1>4. Delimited(MarshalAggregateShare, UnmarshalAggregateShare)
    BY HpkeCiphertextFits DEF MarshalAggregateShare, UnmarshalAggregateShare
  <1> QED
    BY <1>2, <1>3, <1>4

\* The Prio3 shares, a stranger's included.
LEMMA SharesFit ==
    /\ Fits(EncodeInputShare(0), DecodeInputShare(0), Ended)
    /\ Fits(EncodeInputShare(1), DecodeInputShare(1), Ended)
    /\ Fits(EncodeInputShare(2), DecodeInputShare(2), Ended)
    /\ Fits(EncodeVerifierShare, DecodeVerifierShare, Ended)
  <1>1. \A n \in Nat : Fits(Exactly(n, Element), Exactly(n, Element), Ended)
    BY FitsElement, FitsExactly
  <1>2. Fits(EncodeInputShare(0), DecodeInputShare(0), Ended)
    BY <1>1 DEF EncodeInputShare, DecodeInputShare, shares, MeasLen, ProofLen
  <1>3. Fits(EncodeInputShare(1), DecodeInputShare(1), Ended)
    BY Fields, FitsEnded DEF EncodeInputShare, DecodeInputShare, shares, Delimited
  <1>4. Fits(EncodeInputShare(2), DecodeInputShare(2), Ended)
    <2>1. Encodes(Fixed(SeedSize)) /\ OneEncoding(Fixed(SeedSize)) /\ Ended \subseteq Bytes
      BY Fields, NoBytes DEF Delimited, Fits, Ended
    <2> QED
      BY <2>1, FitsRefused DEF EncodeInputShare, DecodeInputShare, shares
  <1>5. Fits(EncodeVerifierShare, DecodeVerifierShare, Ended)
    BY <1>1 DEF EncodeVerifierShare, DecodeVerifierShare, VerifierLen
  <1> QED
    BY <1>2, <1>3, <1>4, <1>5

FormatNames ==
    {"report", "plaintext", "init", "initJanus", "resp", "resp19", "respJanus", "aad", "aad19",
     "aadJanus", "pingPong", "hpkeConfigs", "shareReq", "shareAad", "share", "leaderInput",
     "helperInput", "strangerInput", "verifierShare"}

\* The names of the messages.
LEMMA DomainFormats == DOMAIN Formats = FormatNames
  BY DEF Formats, FormatNames

\* Both directions of every message fit each other.
LEMMA FormatsFit ==
    ASSUME NEW t \in DOMAIN Formats
    PROVE  Fits(Formats[t].out, Formats[t].in, Ended)
  <1>1. \A o, i : Delimited(o, i) => Fits(o, i, Ended)
    BY FitsEnded DEF Delimited
  <1>2. t \in FormatNames
    BY DomainFormats
  <1>3. CASE t = "report"
    <2>1. /\ Formats[t].out = MarshalReport
          /\ Formats[t].in = UnmarshalReport
      BY <1>3 DEF Formats, Format
    <2> QED
      BY <1>1, <2>1, ReportFits
  <1>4. CASE t = "plaintext"
    <2>1. /\ Formats[t].out = MarshalPlaintextInputShare
          /\ Formats[t].in = UnmarshalPlaintextInputShare
      BY <1>4 DEF Formats, Format
    <2> QED
      BY <1>1, <2>1, PlaintextInputShareFits
  <1>5. CASE t = "init"
    <2>1. /\ Formats[t].out = MarshalAggregationJobInitReq("Draft18")
          /\ Formats[t].in = UnmarshalAggregationJobInitReq("Draft18")
      BY <1>5 DEF Formats, Format, InitReq
    <2> QED
      BY <2>1, PublishedInitReq
  <1>6. CASE t = "initJanus"
    <2>1. /\ Formats[t].out = MarshalAggregationJobInitReq("Janus")
          /\ Formats[t].in = UnmarshalAggregationJobInitReq("Janus")
      BY <1>6 DEF Formats, Format, InitReq
    <2> QED
      BY <1>1, <2>1, JanusInitReq
  <1>7. CASE t = "resp"
    <2>1. /\ Formats[t].out = MarshalAggregationJobResp("Draft18")
          /\ Formats[t].in = UnmarshalAggregationJobResp("Draft18")
      BY <1>7 DEF Formats, Format, JobResp
    <2> QED
      BY <2>1, JobRespFits
  <1>8. CASE t = "resp19"
    <2>1. /\ Formats[t].out = MarshalAggregationJobResp("Draft19")
          /\ Formats[t].in = UnmarshalAggregationJobResp("Draft19")
      BY <1>8 DEF Formats, Format, JobResp
    <2> QED
      BY <2>1, JobRespFits
  <1>9. CASE t = "respJanus"
    <2>1. /\ Formats[t].out = MarshalAggregationJobResp("Janus")
          /\ Formats[t].in = UnmarshalAggregationJobResp("Janus")
      BY <1>9 DEF Formats, Format, JobResp
    <2> QED
      BY <2>1, JobRespFits
  <1>10. CASE t = "aad"
    <2>1. /\ Formats[t].out = MarshalInputShareAad("Draft18")
          /\ Formats[t].in = UnmarshalInputShareAad("Draft18")
      BY <1>10 DEF Formats, Format, Aad
    <2> QED
      BY <1>1, <2>1, InputShareAadFits
  <1>11. CASE t = "aad19"
    <2>1. /\ Formats[t].out = MarshalInputShareAad("Draft19")
          /\ Formats[t].in = UnmarshalInputShareAad("Draft19")
      BY <1>11 DEF Formats, Format, Aad
    <2> QED
      BY <1>1, <2>1, InputShareAadFits
  <1>12. CASE t = "aadJanus"
    <2>1. /\ Formats[t].out = MarshalInputShareAad("Janus")
          /\ Formats[t].in = UnmarshalInputShareAad("Janus")
      BY <1>12 DEF Formats, Format, Aad
    <2> QED
      BY <1>1, <2>1, InputShareAadFits
  <1>13. CASE t = "pingPong"
    <2>1. /\ Formats[t].out = MarshalPingPongMessage
          /\ Formats[t].in = UnmarshalPingPongMessage
      BY <1>13 DEF Formats, Format
    <2> QED
      BY <1>1, <2>1, PingPongMessageFits
  <1>14. CASE t = "hpkeConfigs"
    <2>1. /\ Formats[t].out = MarshalHpkeConfigList
          /\ Formats[t].in = UnmarshalHpkeConfigList
      BY <1>14 DEF Formats, Format
    <2> QED
      BY <1>1, <2>1, HpkeConfigListFits
  <1>15. CASE t = "shareReq"
    <2>1. /\ Formats[t].out = MarshalAggregateShareReq
          /\ Formats[t].in = UnmarshalAggregateShareReq
      BY <1>15 DEF Formats, Format
    <2> QED
      BY <1>1, <2>1, AggregateShareFits
  <1>16. CASE t = "shareAad"
    <2>1. /\ Formats[t].out = MarshalAggregateShareAad
          /\ Formats[t].in = MarshalAggregateShareAad
      BY <1>16 DEF Formats, Format
    <2> QED
      BY <1>1, <2>1, AggregateShareFits
  <1>17. CASE t = "share"
    <2>1. /\ Formats[t].out = MarshalAggregateShare
          /\ Formats[t].in = UnmarshalAggregateShare
      BY <1>17 DEF Formats, Format
    <2> QED
      BY <1>1, <2>1, AggregateShareFits
  <1>18. CASE t = "leaderInput"
    <2>1. /\ Formats[t].out = EncodeInputShare(0)
          /\ Formats[t].in = DecodeInputShare(0)
      BY <1>18 DEF Formats, Format
    <2> QED
      BY <2>1, SharesFit
  <1>19. CASE t = "helperInput"
    <2>1. /\ Formats[t].out = EncodeInputShare(1)
          /\ Formats[t].in = DecodeInputShare(1)
      BY <1>19 DEF Formats, Format
    <2> QED
      BY <2>1, SharesFit
  <1>20. CASE t = "strangerInput"
    <2>1. /\ Formats[t].out = EncodeInputShare(2)
          /\ Formats[t].in = DecodeInputShare(2)
      BY <1>20 DEF Formats, Format
    <2> QED
      BY <2>1, SharesFit
  <1>21. CASE t = "verifierShare"
    <2>1. /\ Formats[t].out = EncodeVerifierShare
          /\ Formats[t].in = DecodeVerifierShare
      BY <1>21 DEF Formats, Format
    <2> QED
      BY <2>1, SharesFit
  <1> QED
    BY <1>2, <1>3, <1>4, <1>5, <1>6, <1>7, <1>8, <1>9, <1>10, <1>11, <1>12,
       <1>13, <1>14, <1>15, <1>16, <1>17, <1>18, <1>19, <1>20, <1>21 DEF FormatNames

-----------------------------------------------------------------------------
(* A message that is cut.                                                   *)

\* The encoding of ys is the start of that of xs only if ys is the start of xs.
LEMMA PrefixEach ==
    ASSUME NEW o, NEW i, Fits(o, i, Bytes), Nonempty(o),
           NEW xs \in Seq(Values(o)), NEW b \in WritesEach(o, xs),
           NEW ys \in Seq(Values(o)), NEW c \in WritesEach(o, ys), WritesEach(i, ys) # {},
           NEW t \in Bytes, t # <<>>, b = c \o t
    PROVE  Len(ys) < Len(xs) /\ ys = SubSeq(xs, 1, Len(ys))
  <1> DEFINE k == Len(ys)
             n == Len(xs)
             l == Len(b)
  <1>1. Encodes(o) /\ OneEncoding(o)
    BY DEF Fits
  <1>2. b \in Bytes /\ c \in Bytes /\ k \in Nat /\ n \in Nat /\ l \in Nat /\ n =< l /\ k =< l
    <2>1. SoundEach(o, xs) /\ SoundEach(o, ys)
      BY <1>1, WritesEachSound
    <2>2. b \in Bytes /\ c \in Bytes /\ n =< l /\ k =< Len(c)
      BY <2>1 DEF SoundEach
    <2>3. l = Len(c) + Len(t) /\ Len(c) \in Nat /\ Len(t) \in Nat
      BY <2>2, Concat
    <2>4. k \in Nat /\ n \in Nat
      BY LenProperties
    <2> QED
      BY <2>2, <2>3, <2>4
  <1>3. PICK f \in [0..l -> SUBSET Progress(i)] : ReadsUpTo(f, i, b, l)
    BY <1>2, FitsDecodes, ReadsLoop
  <1> HIDE DEF k, n, l
  <1>4. ASSUME NEW j \in Nat, j =< l PROVE ReadsUpTo(f, i, b, j)
    <2>1. \A e \in 1..j : e \in 1..l
      BY <1>2, <1>4
    <2> QED
      BY <1>3, <2>1, Zenon DEF ReadsUpTo
  <1>5. \A m : m \in f[k] <=> m = <<ys, t>>
    <2>1. Retraced(o, i, ys)
      BY ReadsAlong
    <2>2. ReadsUpTo(f, i, c \o t, Len(ys))
      BY <1>2, <1>4 DEF k
    <2> QED
      BY <2>1, <2>2, Zenon DEF Retraced, k
  <1>6. n =< k => \A m : m \in f[k] => m = <<xs, <<>>>>
    <2> SUFFICES ASSUME n =< k PROVE \A m : m \in f[k] => m = <<xs, <<>>>>
      OBVIOUS
    <2>1. Retraced(o, i, xs)
      BY ReadsAlong
    <2>2. b \o <<>> = b /\ <<>> \in Bytes
      BY <1>2, Concat, NoBytes
    <2>3. ReadsUpTo(f, i, b \o <<>>, Len(xs))
      BY <1>2, <1>4, <2>2 DEF n
    <2>4. \A m : m \in f[n] <=> (WritesEach(i, xs) # {} /\ m = <<xs, <<>>>>)
      BY <2>1, <2>2, <2>3, Zenon DEF Retraced, n
    <2>5. \A p \in f[n] : \E zs : p = <<zs, <<>>>>
      BY <2>4, Zenon
    <2>6. n \in 0..k /\ ReadsUpTo(f, i, b, k)
      BY <1>2, <1>4
    <2>7. \A m : m \in f[k] <=> m \in f[n]
      BY <1>2, <2>5, <2>6, ReadsStay
    <2> QED
      BY <2>4, <2>7
  <1>7. k < n
    <2>1. ASSUME n =< k PROVE FALSE
      <3>1. <<ys, t>> = <<xs, <<>>>>
        BY <1>5, <1>6, <2>1
      <3> QED
        BY <3>1
    <2> QED
      BY <1>2, <2>1
  <1> DEFINE zs == SubSeq(xs, 1, k)
  <1>8. zs \in Seq(Values(o)) /\ Len(zs) = k
    BY <1>2, <1>7 DEF n
  <1>9. StartsWith(b, o, xs, k)
    <2>1. k \in 0..Len(xs)
      BY <1>2, <1>7 DEF n
    <2> QED
      BY <1>1, <2>1, WritesPrefix
  <1>10. PICK p \in WritesEach(o, zs), r \in Bytes : b = p \o r
    BY <1>9, Zenon DEF StartsWith
  <1> HIDE DEF zs
  <1>11. \A m : m \in f[k] <=> (WritesEach(i, zs) # {} /\ m = <<zs, r>>)
    <2>1. Retraced(o, i, zs)
      BY <1>8, ReadsAlong
    <2>2. ReadsUpTo(f, i, p \o r, Len(zs))
      BY <1>2, <1>4, <1>8, <1>10
    <2>3. \A m : m \in f[Len(zs)] <=> (WritesEach(i, zs) # {} /\ m = <<zs, r>>)
      BY <2>1, <2>2, Zenon DEF Retraced
    <2> QED
      BY <1>8, <2>3
  <1>12. <<ys, t>> = <<zs, r>>
    BY <1>5, <1>11
  <1>13. ys = zs
    BY <1>12
  <1> QED
    BY <1>7, <1>13 DEF k, n, zs

\* A published request cut behind one of its reports: the start of the request.
LEMMA CutInit ==
    ASSUME NEW x \in Values(MarshalAggregationJobInitReq("Draft18")),
           NEW c \in MarshalAggregationJobInitReq("Draft18").write[x],
           UnmarshalAggregationJobInitReq("Draft18").write[x] # {},
           NEW y \in Values(MarshalAggregationJobInitReq("Draft18")),
           NEW b \in MarshalAggregationJobInitReq("Draft18").write[y],
           NEW t \in Bytes, t # <<>>, b = c \o t
    PROVE  x[1] = y[1] /\ Len(x[2]) < Len(y[2]) /\ x[2] = SubSeq(y[2], 1, Len(x[2]))
  <1> DEFINE a == MarshalHeader
             e == UnmarshalHeader
             w == MarshalVerifyInit
             u == UnmarshalVerifyInit
             o == a ** Remainder(w)
             i == e ** Remainder(u)
             V == Seq(Values(w))
  <1>1. x \in Values(o) /\ c \in o.write[x] /\ i.write[x] # {} /\ y \in Values(o) /\ b \in o.write[y]
    BY PublishedInitReq
  <1>2. Fits(a, e, Bytes) /\ Fits(w, u, Bytes) /\ Nonempty(w)
    BY PublishedInitReq, VerifyInitFits DEF Delimited
  <1> HIDE DEF a, e, w, u
  <1>3. Values(a) = Values(e) /\ Values(w) = Values(u) /\ Encodes(a) /\ Encodes(w) /\ Encodes(u)
    BY <1>2 DEF Fits
  <1>4. /\ Values(Remainder(w)) = V /\ Values(Remainder(u)) = V
        /\ \A xs \in V : Remainder(w).write[xs] = WritesEach(w, xs)
        /\ \A xs \in V : Remainder(u).write[xs] = WritesEach(u, xs)
    BY <1>3, RemainderIs
  <1>5. /\ Values(o) = Values(a) \X V
        /\ \A h \in Values(a), xs \in V : \A m :
              m \in o.write[<<h, xs>>] <=> Joined(m, a.write[h], WritesEach(w, xs))
    <2>1. /\ Values(o) = Values(a) \X Values(Remainder(w))
          /\ \A h \in Values(a), xs \in Values(Remainder(w)) : \A m :
                m \in o.write[<<h, xs>>] <=> Joined(m, a.write[h], Remainder(w).write[xs])
      BY PairIs, Zenon
    <2> HIDE DEF o
    <2> QED
      BY <1>4, <2>1
  <1>6. \A h \in Values(a), xs \in V : \A m :
            m \in i.write[<<h, xs>>] <=> Joined(m, e.write[h], WritesEach(u, xs))
    <2>1. \A h \in Values(e), xs \in Values(Remainder(u)) : \A m :
              m \in i.write[<<h, xs>>] <=> Joined(m, e.write[h], Remainder(u).write[xs])
      BY PairIs, Zenon
    <2> HIDE DEF i
    <2> QED
      BY <1>3, <1>4, <2>1
  <1> HIDE DEF o, i, V
  <1>7. PICK h \in Values(a), ys \in V : x = <<h, ys>>
    BY <1>1, <1>5
  <1>8. PICK g \in Values(a), xs \in V : y = <<g, xs>>
    BY <1>1, <1>5
  <1>9. PICK hb \in a.write[h], C \in WritesEach(w, ys) : c = hb \o C
    <2>1. Joined(c, a.write[h], WritesEach(w, ys))
      BY <1>1, <1>5, <1>7
    <2> QED
      BY <2>1, Zenon DEF Joined
  <1>10. PICK gb \in a.write[g], B \in WritesEach(w, xs) : b = gb \o B
    <2>1. Joined(b, a.write[g], WritesEach(w, xs))
      BY <1>1, <1>5, <1>8
    <2> QED
      BY <2>1, Zenon DEF Joined
  <1>11. e.write[h] # {} /\ WritesEach(u, ys) # {}
    <2>1. PICK m : Joined(m, e.write[h], WritesEach(u, ys))
      BY <1>1, <1>6, <1>7
    <2> QED
      BY <2>1, Zenon DEF Joined
  <1>12. hb \in Bytes /\ gb \in Bytes /\ C \in Bytes /\ B \in Bytes
    <2>1. WritesEach(w, xs) \in SUBSET Bytes /\ WritesEach(w, ys) \in SUBSET Bytes
      BY <1>3, WritesBytes DEF V
    <2> QED
      BY <1>3, <2>1 DEF Encodes
  <1> DEFINE D == C \o t
  <1>13. D \in Bytes /\ gb \o B = hb \o D
    <2>1. D \in Bytes
      BY <1>12, Concat
    <2>2. (hb \o C) \o t = hb \o (C \o t)
      BY <1>12, ConcatAssoc, ZenonT(30)
    <2> QED
      BY <1>9, <1>10, <2>1, <2>2
  <1> HIDE DEF D
  <1>14. h = g /\ D = B
    <2>1. ReadsBack(a, e, Bytes)
      BY <1>2 DEF Fits
    <2>2. e.read[hb \o D] = IF e.write[h] = {} THEN {} ELSE {<<h, D>>}
      BY <1>13, <2>1, Zenon DEF ReadsBack
    <2>3. e.read[gb \o B] = IF e.write[g] = {} THEN {} ELSE {<<g, B>>}
      BY <1>12, <2>1, Zenon DEF ReadsBack
    <2>4. <<h, D>> \in e.read[gb \o B]
      BY <1>11, <1>13, <2>2
    <2>5. <<h, D>> = <<g, B>>
      BY <2>3, <2>4
    <2> QED
      BY <2>5
  <1>15. Len(ys) < Len(xs) /\ ys = SubSeq(xs, 1, Len(ys))
    <2>1. B = C \o t
      BY <1>14 DEF D
    <2>2. xs \in Seq(Values(w)) /\ ys \in Seq(Values(w))
      BY DEF V
    <2> QED
      BY <1>2, <1>11, <2>1, <2>2, PrefixEach
  <1> QED
    BY <1>7, <1>8, <1>14, <1>15

-----------------------------------------------------------------------------
(* A message under way.                                                     *)

\* The reader took the first bytes of the one there are; it took less than all
\* of them only of a request as its sender wrote it.
Read(b) ==
    /\ limit \in 0..Len(b)
    /\ got = unmarshalAll(Formats[name].in, SubSeq(b, 1, limit))
    /\ limit < Len(b) => name \in Requests /\ ~altered

\* Inductive: what is under way are the bytes its sender wrote, until a byte is
\* changed, and what is read is read off them.
WireInv ==
    /\ name = Idle => body = {} /\ limit = -1
    /\ name # Idle => name \in DOMAIN Formats /\ value \in Values(Formats[name].out)
    /\ body \in SUBSET Bytes
    /\ \A b \in body : body = {b}
    /\ name # Idle /\ ~altered => body = Formats[name].out.write[value]
    /\ limit # -1 => \E b \in body : Read(b)

\* No message is called idle.
LEMMA IdleIsNoFormat == Idle \notin DOMAIN Formats
  BY DomainFormats DEF Idle, FormatNames

\* WireInv holds before anything is sent.
LEMMA WireInit == Init => WireInv
  BY DEF Init, WireInv

\* A message that is marshalled is its sender's encoding.
LEMMA MarshalKeeps ==
    ASSUME WireInv, NEW t \in DOMAIN Formats, NEW x \in Samples[t], Marshal(t, x)
    PROVE  WireInv'
  <1>1. /\ name = Idle /\ name' = t /\ value' = x /\ altered' = altered /\ limit' = limit
        /\ body' = Formats[t].out.write[x]
    BY DEF Marshal, marshal
  <1>2. limit' = -1 /\ t # Idle
    BY <1>1, IdleIsNoFormat DEF WireInv
  <1>3. x \in Values(Formats[t].out)
    BY SamplesAssumption
  <1>4. Encodes(Formats[t].out) /\ OneEncoding(Formats[t].out)
    BY FormatsFit DEF Fits
  <1>5. body' \in SUBSET Bytes /\ \A b \in body' : body' = {b}
    BY <1>1, <1>3, <1>4 DEF Encodes, OneEncoding
  <1> QED
    BY <1>1, <1>2, <1>3, <1>5 DEF WireInv

\* A changed byte leaves bytes.
LEMMA AlterKeeps ==
    ASSUME WireInv, NEW i, NEW x \in 0..Radix - 1, Alter(i, x)
    PROVE  WireInv'
  <1>1. PICK b \in body :
            /\ i \in 1..Len(b) + 1
            /\ body' = {[k \in 1..(IF i > Len(b) THEN i ELSE Len(b)) |-> IF k = i THEN x ELSE b[k]]}
    BY DEF Alter
  <1>2. limit' = -1 /\ altered' = TRUE /\ name' = name /\ value' = value
    BY DEF Alter
  <1>3. b \in Bytes /\ name # Idle
    BY DEF WireInv
  <1> DEFINE n == IF i > Len(b) THEN i ELSE Len(b)
             c == [k \in 1..n |-> IF k = i THEN x ELSE b[k]]
  <1>4. c \in Bytes
    <2>1. Len(b) \in Nat /\ \A k \in 1..Len(b) : b[k] \in Byte
      BY <1>3, LenProperties, ElementOfSeq DEF Bytes
    <2>2. n \in Nat /\ \A k \in 1..n : k # i => k \in 1..Len(b)
      BY <1>1, <2>1
    <2>3. x \in Byte
      BY DEF Byte
    <2>4. c \in [1..n -> Byte]
      BY <2>1, <2>2, <2>3
    <2> HIDE DEF c, n
    <2> QED
      BY <2>2, <2>4 DEF Bytes
  <1> HIDE DEF c
  <1>5. body' = {c}
    BY <1>1 DEF c
  <1> QED
    BY <1>2, <1>3, <1>4, <1>5 DEF WireInv

\* What is read is read off the bytes there are.
LEMMA UnmarshalKeeps ==
    ASSUME WireInv, NEW d \in body, NEW k \in 0..Len(d), Unmarshal(k)
    PROVE  WireInv'
  <1>1. PICK b \in body :
            /\ k < Len(b) => name \in Requests /\ ~altered
            /\ limit' = k
            /\ got' = unmarshalAll(Formats[name].in, SubSeq(b, 1, k))
    BY DEF Unmarshal
  <1>2. UNCHANGED <<name, value, body, altered>>
    BY DEF Unmarshal
  <1>3. d = b /\ name # Idle
    BY DEF WireInv
  <1>4. Read(b)'
    BY <1>1, <1>2, <1>3 DEF Read
  <1> QED
    BY <1>2, <1>3, <1>4 DEF WireInv

\* WireInv is inductive.
LEMMA WireStep == WireInv /\ [Next]_vars => WireInv'
  <1> SUFFICES ASSUME WireInv, [Next]_vars PROVE WireInv'
    OBVIOUS
  <1>1. ASSUME NEW t \in DOMAIN Formats, NEW x \in Samples[t], Marshal(t, x) PROVE WireInv'
    BY <1>1, MarshalKeeps
  <1>2. ASSUME NEW i, NEW x \in 0..Radix - 1, Alter(i, x) PROVE WireInv'
    BY <1>2, AlterKeeps
  <1>3. ASSUME NEW b \in body, NEW k \in 0..Len(b), Unmarshal(k) PROVE WireInv'
    BY <1>3, UnmarshalKeeps
  <1>4. CASE UNCHANGED vars
    BY <1>4 DEF vars, WireInv, Read
  <1> QED
    BY <1>1, <1>2, <1>3, <1>4 DEF Next

\* What is under way and what was read of it, in every reachable state.
THEOREM WireInvariant == Spec => []WireInv
  BY WireInit, WireStep, PTL DEF Spec

\* A message that was read, and the codecs that fit it.
LEMMA ReadAll ==
    ASSUME WireInv, limit # -1
    PROVE  \E b \in body :
              /\ b \in Bytes /\ body = {b} /\ Read(b)
              /\ name \in DOMAIN Formats /\ value \in Values(Formats[name].out)
              /\ Fits(Formats[name].out, Formats[name].in, Ended)
  <1>1. PICK b \in body : Read(b)
    BY DEF WireInv
  <1>2. name # Idle
    BY DEF WireInv
  <1>3. b \in Bytes /\ body = {b}
    BY DEF WireInv
  <1>4. name \in DOMAIN Formats /\ value \in Values(Formats[name].out)
    BY <1>2 DEF WireInv
  <1> QED
    BY <1>1, <1>3, <1>4, FormatsFit

\* All of the bytes that are read are the encoding of what is read.
LEMMA ReadIsWritten ==
    ASSUME NEW o, NEW i, Fits(o, i, Ended), NEW c \in Bytes, NEW x \in unmarshalAll(i, c)
    PROVE  x \in Values(o) /\ o.write[x] = {c} /\ i.write[x] # {}
  <1>1. PICK p \in i.read[c] : p[2] = <<>> /\ x = p[1]
    BY DEF unmarshalAll
  <1>2. PICK y \in Values(o) : \E b \in o.write[y] : \E r \in Bytes : p = <<y, r>> /\ c = b \o r
    BY Zenon DEF Fits, ReadsOnly
  <1>3. PICK b \in o.write[y], r \in Bytes : p = <<y, r>> /\ c = b \o r
    BY <1>2
  <1>4. y = x /\ r = <<>> /\ b \in Bytes
    BY <1>1, <1>3 DEF Fits, Encodes
  <1>5. c = b
    BY <1>3, <1>4, Concat
  <1>6. o.write[x] = {c}
    BY <1>4, <1>5 DEF Fits, OneEncoding
  <1>7. i.read[c] = IF i.write[x] = {} THEN {} ELSE {<<x, <<>>>>}
    <2>1. i.read[c \o <<>>] = IF i.write[x] = {} THEN {} ELSE {<<x, <<>>>>}
      BY <1>4, <1>5 DEF Fits, ReadsBack, Ended
    <2> QED
      BY <2>1, Concat
  <1> QED
    BY <1>4, <1>6, <1>7

\* The round trip follows from the invariant: the codecs fit.
LEMMA RoundTripHolds == WireInv => RoundTrip
  <1> SUFFICES ASSUME WireInv, Whole, ~altered
               PROVE  got = IF marshal(Formats[name].in, value) # {} THEN {value} ELSE {}
    BY DEF RoundTrip
  <1>1. PICK b \in body :
            /\ b \in Bytes /\ body = {b} /\ Read(b)
            /\ name \in DOMAIN Formats /\ value \in Values(Formats[name].out)
            /\ Fits(Formats[name].out, Formats[name].in, Ended)
    BY ReadAll DEF Whole
  <1> DEFINE o == Formats[name].out
             i == Formats[name].in
  <1>2. Fits(o, i, Ended) /\ value \in Values(o)
    BY <1>1
  <1>3. b \in o.write[value]
    <2>1. name # Idle
      BY <1>1, IdleIsNoFormat
    <2> QED
      BY <2>1 DEF WireInv
  <1>4. got = unmarshalAll(i, b)
    <2>1. limit = Len(b) /\ got = unmarshalAll(i, SubSeq(b, 1, limit))
      BY <1>1 DEF Read, Whole
    <2>2. SubSeq(b, 1, Len(b)) = b
      BY <1>1, SubSeqFull DEF Bytes
    <2> QED
      BY <2>1, <2>2
  <1>5. marshal(Formats[name].in, value) = i.write[value]
    BY DEF marshal
  <1> HIDE DEF o, i
  <1>6. i.read[b] = IF i.write[value] = {} THEN {} ELSE {<<value, <<>>>>}
    <2>1. i.read[b \o <<>>] = IF i.write[value] = {} THEN {} ELSE {<<value, <<>>>>}
      BY <1>2, <1>3 DEF Fits, ReadsBack, Ended
    <2> QED
      BY <1>1, <2>1, Concat
  <1>7. CASE i.write[value] = {}
    BY <1>4, <1>5, <1>6, <1>7 DEF unmarshalAll
  <1>8. CASE i.write[value] # {}
    <2>1. i.read[b] = {<<value, <<>>>>}
      BY <1>6, <1>8
    <2>2. {q \in i.read[b] : q[2] = <<>>} = {<<value, <<>>>>}
      BY <2>1
    <2>3. {p[1] : p \in {<<value, <<>>>>}} = {value}
      OBVIOUS
    <2> QED
      BY <1>4, <1>5, <1>8, <2>2, <2>3 DEF unmarshalAll
  <1> QED
    BY <1>7, <1>8

\* So does that bytes which are read are the encoding of what was read.
LEMMA CanonicalHolds == WireInv => Canonical
  <1> SUFFICES ASSUME WireInv, Whole, NEW x \in got
               PROVE  marshal(Formats[name].out, x) = body
    BY DEF Canonical
  <1>1. PICK b \in body :
            /\ b \in Bytes /\ body = {b} /\ Read(b)
            /\ Fits(Formats[name].out, Formats[name].in, Ended)
    BY ReadAll DEF Whole
  <1>2. x \in unmarshalAll(Formats[name].in, b)
    <2>1. limit = Len(b) /\ got = unmarshalAll(Formats[name].in, SubSeq(b, 1, limit))
      BY <1>1 DEF Read, Whole
    <2>2. SubSeq(b, 1, Len(b)) = b
      BY <1>1, SubSeqFull DEF Bytes
    <2> QED
      BY <2>1, <2>2
  <1> QED
    BY <1>1, <1>2, ReadIsWritten DEF marshal

\* And so does what becomes of a cut request.  A delimited message has no proper
\* prefix that is read; the published one has those that end between two reports.
LEMMA CutRequestHolds == WireInv => CutRequest
  <1> SUFFICES ASSUME WireInv, limit # -1, ~Whole, NEW x \in got
               PROVE  /\ name = "init"
                      /\ x[1] = value[1]
                      /\ x[2] = SubSeq(value[2], 1, Len(x[2])) /\ Len(x[2]) < Len(value[2])
    BY DEF CutRequest
  <1>1. PICK b \in body :
            /\ b \in Bytes /\ body = {b} /\ Read(b)
            /\ name \in DOMAIN Formats /\ value \in Values(Formats[name].out)
            /\ Fits(Formats[name].out, Formats[name].in, Ended)
    BY ReadAll
  <1> DEFINE o == Formats[name].out
             i == Formats[name].in
             c == SubSeq(b, 1, limit)
             t == SubSeq(b, limit + 1, Len(b))
  <1>2. limit \in Nat /\ limit < Len(b) /\ name \in Requests /\ ~altered
    <2>1. limit # Len(b)
      BY <1>1 DEF Whole
    <2>2. limit \in 0..Len(b) /\ Len(b) \in Nat
      BY <1>1, LenProperties DEF Read, Bytes
    <2>3. limit \in Nat /\ limit < Len(b)
      BY <2>1, <2>2
    <2> QED
      BY <1>1, <2>3 DEF Read
  <1>3. c \in Bytes /\ t \in Bytes /\ t # <<>> /\ b = c \o t
    <2>1. b \in Seq(Byte) /\ Len(b) \in Nat
      BY <1>1, LenProperties DEF Bytes
    <2>2. c \in Bytes /\ t \in Bytes /\ Len(t) = Len(b) - limit
      BY <1>2, <2>1 DEF Bytes
    <2>3. b = c \o t
      <3>1. 1 \in 1..Len(b) + 1 /\ limit \in 1 - 1..Len(b) /\ Len(b) \in limit..Len(b)
        BY <1>2, <2>1
      <3>2. c \o t = SubSeq(b, 1, Len(b))
        BY <2>1, <3>1, ConcatAdjacentSubSeq
      <3>3. SubSeq(b, 1, Len(b)) = b
        BY <2>1, SubSeqFull
      <3> QED
        BY <3>2, <3>3
    <2>4. t # <<>>
      <3>1. Len(t) > 0
        BY <1>2, <2>1, <2>2
      <3> HIDE DEF t
      <3> QED
        BY <3>1, NoBytes
    <2> HIDE DEF c, t
    <2> QED
      BY <2>2, <2>3, <2>4
  <1>4. Fits(o, i, Ended) /\ x \in unmarshalAll(i, c)
    BY <1>1 DEF Read
  <1>5. b \in o.write[value] /\ value \in Values(o)
    <2>1. name # Idle
      BY <1>1, IdleIsNoFormat
    <2> QED
      BY <1>1, <1>2, <2>1 DEF WireInv
  <1> HIDE DEF o, i, c, t
  <1>6. x \in Values(o) /\ c \in o.write[x] /\ i.write[x] # {}
    BY <1>3, <1>4, ReadIsWritten
  <1>7. ASSUME Delimited(o, i) PROVE FALSE
    <2>1. b \o <<>> = c \o t /\ <<>> \in Bytes
      BY <1>1, <1>3, Concat, NoBytes
    <2>2. t = <<>>
      <3>1. ReadsBack(o, i, Bytes)
        BY <1>7 DEF Delimited, Fits
      <3>2. i.read[c \o t] = IF i.write[x] = {} THEN {} ELSE {<<x, t>>}
        BY <1>3, <1>6, <3>1, Zenon DEF ReadsBack
      <3>3. i.read[b \o <<>>] = IF i.write[value] = {} THEN {} ELSE {<<value, <<>>>>}
        BY <1>5, <2>1, <3>1, Zenon DEF ReadsBack
      <3>4. <<x, t>> \in i.read[b \o <<>>]
        BY <1>6, <2>1, <3>2
      <3>5. <<x, t>> = <<value, <<>>>>
        BY <3>3, <3>4
      <3> QED
        BY <3>5
    <2> QED
      BY <1>3, <2>2
  <1>8. CASE name = "initJanus"
    <2>1. Delimited(o, i)
      BY <1>8, JanusInitReq DEF o, i, Formats, Format, InitReq
    <2> QED
      BY <1>7, <2>1
  <1>9. CASE name = "shareReq"
    <2>1. Delimited(o, i)
      BY <1>9, AggregateShareFits DEF o, i, Formats, Format
    <2> QED
      BY <1>7, <2>1
  <1>10. CASE name = "init"
    <2>1. /\ o = MarshalAggregationJobInitReq("Draft18")
          /\ i = UnmarshalAggregationJobInitReq("Draft18")
      BY <1>10 DEF o, i, Formats, Format, InitReq
    <2>2. x[1] = value[1] /\ Len(x[2]) < Len(value[2]) /\ x[2] = SubSeq(value[2], 1, Len(x[2]))
      BY <1>3, <1>5, <1>6, <2>1, CutInit
    <2> QED
      BY <1>10, <2>2
  <1> QED
    BY <1>2, <1>8, <1>9, <1>10 DEF Requests

\* For every size of identifiers, seeds and bytes and every value sent: the
\* reader of a message gets the value its sender marshalled, or refuses one that
\* it would not write itself (types.go, aggregation.go, pingpong.go, prio3.go).
THEOREM MessagesRoundTrip == Spec => []RoundTrip
  BY WireInvariant, RoundTripHolds, PTL

\* Whatever bytes arrive, if they are read at all they are the ones that
\* Marshal writes for what was read: no message has a second encoding.
THEOREM MessagesAreCanonical == Spec => []Canonical
  BY WireInvariant, CanonicalHolds, PTL

\* A request that the body's size limit cuts is refused, or is the published
\* request with its last reports left out.
THEOREM CutRequestsAreRefused == Spec => []CutRequest
  BY WireInvariant, CutRequestHolds, PTL
=============================================================================
