------------------------ MODULE FieldRegister_proofs ------------------------
(***************************************************************************)
(* The field's reductions are exact for every width of the word: the       *)
(* code's, E = 2^32, is one of them.  Each operation is shown to return a  *)
(* canonical representative that differs from the exact result by a        *)
(* multiple of the modulus; ModUnique turns that into the remainder.       *)
(*                                                                         *)
(* The rest of the module is the algebra the proofs on powers and on the   *)
(* proof system share: the ring laws of the operations, powers as repeated *)
(* products and the code's square and multiply, inverses by Fermat's       *)
(* little theorem, roots of unity, and congruences, by which sums and      *)
(* products of elements are compared as integers.  Statements on every     *)
(* exponent are proved by looking at a smallest exponent that fails.       *)
(***************************************************************************)
EXTENDS FieldRegister, FiniteSetTheorems, TLAPS

\* Sizes: all that additions and subtractions need to know of a word.
LEMMA Sizes ==
    /\ E \in Nat /\ E >= 2
    /\ W \in Nat /\ W >= 2 * E
    /\ Modulus \in Nat /\ epsilon \in Nat
    /\ Modulus = W - E + 1
    /\ epsilon = E - 1
    /\ W = Modulus + epsilon
    /\ Modulus > epsilon
<1>1. E \in Nat /\ E >= 2
  BY EAssumption
<1>2. E * E \in Nat /\ E * E >= 2 * E
  BY <1>1
<1> QED
  BY <1>1, <1>2 DEF W, Modulus, epsilon

\* Division with remainder.
LEMMA DivMod ==
    ASSUME NEW n \in Int, NEW d \in Nat, d > 0
    PROVE  /\ n \div d \in Int
           /\ n % d \in 0..(d - 1)
           /\ n = d * (n \div d) + (n % d)
  OBVIOUS

\* A number in range that differs from n by a multiple of d is n's remainder.
LEMMA ModUnique ==
    ASSUME NEW n \in Int, NEW d \in Nat, d > 0,
           NEW k \in Int, NEW r \in 0..(d - 1), n = d * k + r
    PROVE  n % d = r
<1> DEFINE q == n \div d
           m == n % d
<1>1. q \in Int /\ m \in 0..(d - 1) /\ n = d * q + m
  BY DivMod
<1> HIDE DEF q, m
<1>2. d * (q - k) = r - m
  BY <1>1
<1>3. q - k = 0
  <2>1. ASSUME q - k >= 1 PROVE FALSE
    <3>1. d * (q - k) >= d
      BY <1>1, <2>1
    <3> QED BY <1>1, <1>2, <3>1
  <2>2. ASSUME q - k =< -1 PROVE FALSE
    <3>1. d * (q - k) =< -d
      BY <1>1, <2>2
    <3> QED BY <1>1, <1>2, <3>1
  <2> QED BY <1>1, <2>1, <2>2
<1>4. m = r
  BY <1>1, <1>2, <1>3
<1> QED BY <1>4 DEF m

\* Add is addition modulo p.
LEMMA AddExact ==
    ASSUME NEW a \in Elt, NEW b \in Elt
    PROVE  Add(a, b) \in Elt /\ Add(a, b) = (a + b) % Modulus
<1>1. Add(a, b) = IF a + b >= Modulus THEN a + b - Modulus ELSE a + b
  <2>1. CASE a + b >= W
    BY <2>1, Sizes DEF Elt, Add, Add64, Carry, Canonical
  <2>2. CASE a + b < W
    BY <2>2, Sizes DEF Elt, Add, Add64, Carry, Canonical
  <2> QED BY <2>1, <2>2, Sizes DEF Elt
<1>2. Add(a, b) \in 0..(Modulus - 1)
  BY <1>1, Sizes DEF Elt
<1>3. \E k \in Int : a + b = Modulus * k + Add(a, b)
  <2>1. CASE a + b >= Modulus
    <3>1. a + b = Modulus * 1 + Add(a, b)
      BY <1>1, <2>1, Sizes DEF Elt
    <3> QED BY <3>1
  <2>2. CASE ~(a + b >= Modulus)
    <3>1. a + b = Modulus * 0 + Add(a, b)
      BY <1>1, <2>2, Sizes DEF Elt
    <3> QED BY <3>1
  <2> QED BY <2>1, <2>2
<1> HIDE DEF Add
<1> QED
  <2>1. PICK k \in Int : a + b = Modulus * k + Add(a, b)
    BY <1>3
  <2>2. a + b \in Int /\ Modulus > 0
    BY Sizes DEF Elt
  <2> QED BY <1>2, <2>1, <2>2, Sizes, ModUnique DEF Elt

\* Sub is subtraction modulo p.
LEMMA SubExact ==
    ASSUME NEW a \in Elt, NEW b \in Elt
    PROVE  Sub(a, b) \in Elt /\ Sub(a, b) = (a - b) % Modulus
<1>1. Sub(a, b) = IF a < b THEN a - b + Modulus ELSE a - b
  <2>1. CASE a < b
    BY <2>1, Sizes DEF Elt, Sub, Sub64, Borrow
  <2>2. CASE ~(a < b)
    BY <2>2, Sizes DEF Elt, Sub, Sub64, Borrow
  <2> QED BY <2>1, <2>2
<1>2. Sub(a, b) \in 0..(Modulus - 1)
  BY <1>1, Sizes DEF Elt
<1>3. \E k \in Int : a - b = Modulus * k + Sub(a, b)
  <2>1. CASE a < b
    <3>1. a - b = Modulus * (-1) + Sub(a, b)
      BY <1>1, <2>1, Sizes DEF Elt
    <3> QED BY <3>1
  <2>2. CASE ~(a < b)
    <3>1. a - b = Modulus * 0 + Sub(a, b)
      BY <1>1, <2>2, Sizes DEF Elt
    <3> QED BY <3>1
  <2> QED BY <2>1, <2>2
<1> HIDE DEF Sub
<1> QED
  <2>1. PICK k \in Int : a - b = Modulus * k + Sub(a, b)
    BY <1>3
  <2>2. a - b \in Int /\ Modulus > 0
    BY Sizes DEF Elt
  <2> QED BY <1>2, <2>1, <2>2, Sizes, ModUnique DEF Elt

\* Mul is multiplication modulo p.  With the product split into lo, hiLo and
\* hiHi, W = p + epsilon and W * E = (E + 1) * p - 1 leave
\* lo - hiHi + hiLo * epsilon; each borrow, carry and final subtraction adds or
\* removes one modulus.
LEMMA MulExact ==
    ASSUME NEW a \in Elt, NEW b \in Elt
    PROVE  Mul(a, b) \in Elt /\ Mul(a, b) = (a * b) % Modulus
<1> DEFINE n    == a * b
           hi   == n \div W
           lo   == n % W
           hiHi == hi \div E
           hiLo == hi % E
           t0   == Sub64(Sub64(lo, hiHi), Borrow(lo, hiHi) * epsilon)
           t1   == hiLo * epsilon
           res  == Add64(Add64(t0, t1), Carry(t0, t1) * epsilon)
<1>0. Mul(a, b) = Canonical(res)
  BY DEF Mul
<1>1. n \in Nat /\ n < W * W
  <2>1. a \in Nat /\ b \in Nat /\ a < W /\ b < W
    BY Sizes DEF Elt
  <2>2. a * b \in Nat
    BY <2>1
  <2>3. a * b =< a * W
    BY <2>1, Sizes
  <2>4. a * W < W * W
    BY <2>1, Sizes
  <2> QED BY <2>1, <2>2, <2>3, <2>4, Sizes
<1> HIDE DEF n
<1>2. hi \in Int /\ lo \in 0..(W - 1) /\ n = W * hi + lo
  BY <1>1, Sizes, DivMod
<1> HIDE DEF hi, lo
<1>3. hi \in Nat /\ hi < W
  <2>1. ASSUME hi >= W PROVE FALSE
    <3>1. W * hi >= W * W
      BY <1>2, <2>1, Sizes
    <3> QED BY <1>1, <1>2, <3>1, Sizes
  <2>2. ASSUME hi =< -1 PROVE FALSE
    <3>1. W * hi =< -W
      BY <1>2, <2>2, Sizes
    <3> QED BY <1>1, <1>2, <3>1, Sizes
  <2> QED BY <1>2, <2>1, <2>2, Sizes
<1>4. hiHi \in Int /\ hiLo \in 0..(E - 1) /\ hi = E * hiHi + hiLo
  BY <1>3, Sizes, DivMod
<1> HIDE DEF hiHi, hiLo
<1>5. hiHi \in 0..(E - 1)
  <2>1. ASSUME hiHi >= E PROVE FALSE
    <3>1. E * hiHi >= E * E
      BY <1>4, <2>1, Sizes
    <3> QED BY <1>3, <1>4, <3>1, Sizes DEF W
  <2>2. ASSUME hiHi =< -1 PROVE FALSE
    <3>1. E * hiHi =< -E
      BY <1>4, <2>2, Sizes
    <3> QED BY <1>3, <1>4, <3>1, Sizes
  <2> QED BY <1>4, <2>1, <2>2, Sizes
<1>6. PICK u \in 0..1 : t0 = lo - hiHi + Modulus * u /\ t0 \in 0..(W - 1)
  <2>1. CASE lo < hiHi
    <3>1. t0 = lo - hiHi + Modulus /\ t0 \in 0..(W - 1)
      BY <2>1, <1>2, <1>5, Sizes DEF Sub64, Borrow
    <3> QED BY <3>1, Sizes
  <2>2. CASE ~(lo < hiHi)
    <3>1. t0 = lo - hiHi /\ t0 \in 0..(W - 1)
      BY <2>2, <1>2, <1>5, Sizes DEF Sub64, Borrow
    <3> QED BY <3>1, Sizes
  <2> QED BY <2>1, <2>2
<1>7. t1 \in 0..(W - 2 * E + 1)
  <2>1. hiLo * epsilon \in Nat /\ hiLo * epsilon =< epsilon * epsilon
    BY <1>4, Sizes
  <2>2. epsilon * epsilon = W - 2 * E + 1
    BY Sizes DEF W, epsilon
  <2> QED BY <2>1, <2>2, Sizes
<1> HIDE DEF t0
<1>8. PICK c \in 0..1 : res = t0 + t1 - Modulus * c /\ res \in 0..(W - 1)
  <2> HIDE DEF t1
  <2>1. CASE t0 + t1 >= W
    <3>1. res = t0 + t1 - Modulus /\ res \in 0..(W - 1)
      BY <2>1, <1>6, <1>7, Sizes DEF Add64, Carry
    <3> QED BY <3>1, Sizes
  <2>2. CASE ~(t0 + t1 >= W)
    <3>1. res = t0 + t1 /\ res \in 0..(W - 1)
      BY <2>2, <1>6, <1>7, Sizes DEF Add64, Carry
    <3>2. t0 + t1 = t0 + t1 - Modulus * 0
      BY <1>6, <1>7, Sizes
    <3> HIDE DEF res
    <3> QED BY <3>1, <3>2
  <2> QED BY <2>1, <2>2
<1> HIDE DEF res
<1>9. PICK d \in 0..1 : Mul(a, b) = res - Modulus * d /\ Mul(a, b) \in 0..(Modulus - 1)
  <2>1. CASE res >= Modulus
    <3>1. Mul(a, b) = res - Modulus /\ Mul(a, b) \in 0..(Modulus - 1)
      BY <2>1, <1>0, <1>8, Sizes DEF Canonical
    <3> QED BY <3>1, Sizes
  <2>2. CASE ~(res >= Modulus)
    <3>1. Mul(a, b) = res /\ Mul(a, b) \in 0..(Modulus - 1)
      BY <2>2, <1>0, <1>8, Sizes DEF Canonical
    <3> QED BY <3>1, Sizes
  <2> QED BY <2>1, <2>2
<1>10. n = W * (E * hiHi) + W * hiLo + lo
  BY <1>2, <1>4, <1>5, Sizes
<1>11. W * (E * hiHi) = Modulus * ((E + 1) * hiHi) - hiHi
  BY <1>5, Sizes DEF W, Modulus
<1>12. W * hiLo = Modulus * hiLo + t1
  BY <1>4, Sizes DEF t1
<1> DEFINE k == (E + 1) * hiHi + hiLo - u + c + d
<1>13. n = Modulus * k + Mul(a, b)
  BY <1>2, <1>4, <1>5, <1>6, <1>7, <1>8, <1>9, <1>10, <1>11, <1>12, Sizes
<1>14. k \in Int
  BY <1>4, <1>5, Sizes
<1> HIDE DEF k, t1
<1>15. n % Modulus = Mul(a, b)
  <2>1. n \in Int /\ Modulus \in Nat /\ Modulus > 0
    BY <1>1, Sizes
  <2>2. Mul(a, b) \in 0..(Modulus - 1)
    BY <1>9
  <2> QED BY <1>13, <1>14, <2>1, <2>2, ModUnique, Zenon
<1> QED BY <1>9, <1>15 DEF n, Elt

\* New reduces a word.
LEMMA NewExact ==
    ASSUME NEW x \in Word
    PROVE  New(x) \in Elt /\ New(x) = x % Modulus
<1>1. New(x) \in 0..(Modulus - 1)
  BY Sizes DEF Word, New, Canonical
<1>2. \E k \in Int : x = Modulus * k + New(x)
  <2>1. CASE x >= Modulus
    <3>1. x = Modulus * 1 + New(x)
      BY <2>1, Sizes DEF Word, New, Canonical
    <3> QED BY <3>1
  <2>2. CASE ~(x >= Modulus)
    <3>1. x = Modulus * 0 + New(x)
      BY <2>2, Sizes DEF Word, New, Canonical
    <3> QED BY <3>1
  <2> QED BY <2>1, <2>2
<1> QED BY <1>1, <1>2, Sizes, ModUnique DEF Word, Elt

\* Whatever operations a computation with field elements consists of, its result
\* is canonical and exact, for every width of the word: no pattern of carries
\* and borrows in Add, Sub, Neg and Mul goes uncorrected.
THEOREM FieldExact == RegisterSpec => []ArithmeticExact
<1>1. RegisterInit => ArithmeticExact
  BY NewExact DEF RegisterInit, ArithmeticExact
<1>2. ArithmeticExact /\ [RegisterNext]_registerVars => ArithmeticExact'
  <2> SUFFICES ASSUME ArithmeticExact, [RegisterNext]_registerVars
               PROVE  ArithmeticExact'
    OBVIOUS
  <2> USE DEF ArithmeticExact
  <2>1. ASSUME NEW x \in Elt, Plus(x) PROVE ArithmeticExact'
    BY <2>1, AddExact DEF Plus
  <2>2. ASSUME NEW x \in Elt, Minus(x) PROVE ArithmeticExact'
    BY <2>2, SubExact DEF Minus
  <2>3. ASSUME NEW x \in Elt, Times(x) PROVE ArithmeticExact'
    BY <2>3, MulExact DEF Times
  <2>4. CASE Negate
    <3>1. 0 \in Elt /\ 0 - acc = -acc
      BY Sizes DEF Elt
    <3> QED BY <2>4, <3>1, SubExact DEF Negate, Neg
  <2>5. CASE UNCHANGED registerVars
    BY <2>5 DEF registerVars
  <2> QED BY <2>1, <2>2, <2>3, <2>4, <2>5 DEF RegisterNext
<1> QED BY <1>1, <1>2, PTL DEF RegisterSpec

-----------------------------------------------------------------------------
(* Induction and recursion over the numbers, with sets and functions in     *)
(* place of the properties and operators of the library's theorems.         *)

\* Every set of numbers but the empty one has a least element.
LEMMA LeastNumber ==
    ASSUME NEW S \in SUBSET Nat, S # {}
    PROVE  \E m \in S : \A k \in S : m =< k
  <1> DEFINE R == OpToRel(<, Nat)
  <1>1. IsWellFoundedOn(R, Nat)
    BY NatLessThanWellFounded, Zenon
  <1>2. \A x, y \in Nat : x < y => <<x, y>> \in R
    BY Zenon DEF OpToRel
  <1> HIDE DEF R
  <1>3. PICK m \in S : \A k \in S : ~(<<k, m>> \in R)
    BY <1>1, WFMin
  <1>4. ASSUME NEW k \in S PROVE m =< k
    <2>1. ~(k < m)
      BY <1>2, <1>3
    <2> QED
      BY <2>1
  <1> QED
    BY <1>4

\* Induction, for a set of numbers instead of a property.
LEMMA InductionSet ==
    ASSUME NEW S, 0 \in S, \A n \in Nat : n \in S => n + 1 \in S
    PROVE  Nat \subseteq S
  <1> SUFFICES ASSUME NEW x \in Nat \ S PROVE FALSE
    OBVIOUS
  <1>1. PICK m \in Nat \ S : \A k \in Nat \ S : m =< k
    BY LeastNumber
  <1>2. m # 0
    OBVIOUS
  <1>3. m - 1 \in Nat /\ m - 1 \in S
    BY <1>1, <1>2
  <1>4. (m - 1) + 1 \in S
    BY <1>3
  <1> QED
    BY <1>1, <1>4

\* f starts with c and goes on with G up to n.
Recurs(f, n, c, G) == f[0] = c /\ \A i \in 1..n : f[i] = G[<<i, f[i - 1]>>]

\* A recursion has a solution up to every n.
LEMMA FiniteRecursion ==
    ASSUME NEW S, NEW c \in S, NEW G \in [Nat \X S -> S], NEW n \in Nat
    PROVE  \E f \in [0..n -> S] : Recurs(f, n, c, G)
  <1> DEFINE T == {m \in Nat : \E f \in [0..m -> S] : Recurs(f, m, c, G)}
  <1>1. 0 \in T
    <2> DEFINE f == [i \in 0..0 |-> c]
    <2>1. f \in [0..0 -> S] /\ Recurs(f, 0, c, G)
      BY DEF Recurs
    <2> QED
      BY <2>1
  <1>2. ASSUME NEW m \in Nat, m \in T
        PROVE  m + 1 \in T
    <2>1. PICK f \in [0..m -> S] : Recurs(f, m, c, G)
      BY <1>2
    <2> DEFINE g == [i \in 0..m + 1 |-> IF i = m + 1 THEN G[<<m + 1, f[m]>>] ELSE f[i]]
    <2>2. f[m] \in S /\ G[<<m + 1, f[m]>>] \in S
      OBVIOUS
    <2>3. g \in [0..m + 1 -> S]
      BY <2>2
    <2>4. g[0] = c
      BY <2>1 DEF Recurs
    <2>5. ASSUME NEW i \in 1..m + 1 PROVE g[i] = G[<<i, g[i - 1]>>]
      <3>1. CASE i = m + 1
        <4>1. i - 1 = m /\ m \in 0..m + 1 /\ m # m + 1
          BY <3>1
        <4>2. g[m] = f[m]
          BY <4>1
        <4> QED
          BY <3>1, <4>1, <4>2
      <3>2. CASE i # m + 1
        <4>1. i \in 1..m /\ i - 1 \in 0..m
          BY <3>2
        <4>2. g[i] = f[i] /\ g[i - 1] = f[i - 1]
          BY <4>1
        <4> QED
          BY <2>1, <4>1, <4>2 DEF Recurs
      <3> QED
        BY <3>1, <3>2
    <2> HIDE DEF g
    <2> QED
      BY <2>3, <2>4, <2>5 DEF Recurs
  <1> HIDE DEF T
  <1>3. n \in T
    BY <1>1, <1>2, InductionSet
  <1> QED
    BY <1>3 DEF T

\* Two solutions agree as far as both go.
LEMMA RecursionUnique ==
    ASSUME NEW c, NEW G, NEW m \in Nat, NEW n \in Nat, NEW f, NEW g,
           Recurs(f, m, c, G), Recurs(g, n, c, G)
    PROVE  \A i \in 0..m : i =< n => f[i] = g[i]
  <1> DEFINE T == {i \in Nat : i =< m /\ i =< n => f[i] = g[i]}
  <1>1. 0 \in T
    BY DEF Recurs
  <1>2. ASSUME NEW i \in Nat, i \in T
        PROVE  i + 1 \in T
    <2> SUFFICES ASSUME i + 1 =< m, i + 1 =< n PROVE f[i + 1] = g[i + 1]
      OBVIOUS
    <2>1. f[i] = g[i] /\ (i + 1) - 1 = i /\ i + 1 \in 1..m /\ i + 1 \in 1..n
      BY <1>2
    <2> QED
      BY <2>1 DEF Recurs
  <1> HIDE DEF T
  <1>3. Nat \subseteq T
    BY <1>1, <1>2, InductionSet
  <1> QED
    BY <1>3 DEF T

Solves(f, c, G) == f[0] = c /\ \A n \in Nat : f[n + 1] = G[<<n + 1, f[n]>>]

\* A recursion has a solution on all numbers.
LEMMA Recursion ==
    ASSUME NEW S, NEW c \in S, NEW G \in [Nat \X S -> S]
    PROVE  \E f \in [Nat -> S] : Solves(f, c, G)
  <1> DEFINE h(n) == CHOOSE f \in [0..n -> S] : Recurs(f, n, c, G)
             F == [n \in Nat |-> h(n)[n]]
  <1>1. ASSUME NEW n \in Nat PROVE h(n) \in [0..n -> S] /\ Recurs(h(n), n, c, G)
    BY FiniteRecursion
  <1> HIDE DEF h
  <1>2. F \in [Nat -> S]
    BY <1>1
  <1>3. F[0] = c
    BY <1>1 DEF Recurs
  <1>4. ASSUME NEW n \in Nat PROVE F[n + 1] = G[<<n + 1, F[n]>>]
    <2>1. h(n + 1)[n] = h(n)[n]
      <3>1. Recurs(h(n), n, c, G) /\ Recurs(h(n + 1), n + 1, c, G)
        BY <1>1
      <3> HIDE <1>1
      <3>2. n + 1 \in Nat /\ n \in 0..n /\ n =< n + 1
        OBVIOUS
      <3> QED
        BY <3>1, <3>2, RecursionUnique
    <2>2. h(n + 1)[n + 1] = G[<<n + 1, h(n + 1)[(n + 1) - 1]>>] /\ (n + 1) - 1 = n
      BY <1>1 DEF Recurs
    <2> QED
      BY <2>1, <2>2
  <1> HIDE DEF F
  <1> QED
    BY <1>2, <1>3, <1>4 DEF Solves

-----------------------------------------------------------------------------
(* The elements are a commutative ring under the code's operations.         *)

\* A multiple of the modulus more or less leaves the remainder.
LEMMA ModShift ==
    ASSUME NEW m \in Int, NEW n \in Int, NEW k \in Int, m = n + Modulus * k
    PROVE  m % Modulus = n % Modulus
  <1> DEFINE q == n \div Modulus
             r == n % Modulus
  <1>1. Modulus \in Nat /\ Modulus > 0
    BY Sizes
  <1>2. q \in Int /\ r \in 0..(Modulus - 1) /\ n = Modulus * q + r
    BY <1>1, DivMod
  <1> HIDE DEF q, r
  <1>3. m = Modulus * (q + k) + r /\ q + k \in Int
    BY <1>1, <1>2
  <1>4. m % Modulus = r
    BY <1>1, <1>2, <1>3, ModUnique
  <1> QED
    BY <1>4 DEF r

\* An element is its own remainder.
LEMMA ModElt ==
    ASSUME NEW a \in Elt
    PROVE  a \in Nat /\ a % Modulus = a
  <1>1. Modulus \in Nat /\ Modulus > 0 /\ a \in 0..(Modulus - 1) /\ a \in Int
    BY Sizes DEF Elt
  <1>2. a = Modulus * 0 + a
    BY <1>1
  <1> QED
    BY <1>1, <1>2, ModUnique

\* The remainder, as the number less a multiple of the modulus.
LEMMA ModIs ==
    ASSUME NEW n \in Int
    PROVE  \E k \in Int : n % Modulus = n + Modulus * k
  <1>1. Modulus \in Nat /\ Modulus > 0
    BY Sizes
  <1>2. n \div Modulus \in Int /\ n % Modulus = n + Modulus * (-(n \div Modulus))
    BY <1>1, DivMod
  <1> QED
    BY <1>2

\* Zero and one are elements.
LEMMA Constants == 0 \in Elt /\ 1 \in Elt
  BY Sizes DEF Elt

\* The operations stay within the field.
LEMMA RingTypes ==
    ASSUME NEW a \in Elt, NEW b \in Elt
    PROVE  Add(a, b) \in Elt /\ Sub(a, b) \in Elt /\ Neg(a) \in Elt /\ Mul(a, b) \in Elt
  BY AddExact, SubExact, MulExact, Constants DEF Neg

\* The operations, as the exact result less a multiple of the modulus.
LEMMA OpsAre ==
    ASSUME NEW a \in Elt, NEW b \in Elt
    PROVE  /\ \E k \in Int : Add(a, b) = a + b + Modulus * k
           /\ \E k \in Int : Sub(a, b) = a - b + Modulus * k
           /\ \E k \in Int : Mul(a, b) = a * b + Modulus * k
  <1>1. a + b \in Int /\ a - b \in Int /\ a * b \in Int
    BY Sizes DEF Elt
  <1>2. /\ \E k \in Int : (a + b) % Modulus = a + b + Modulus * k
        /\ \E k \in Int : (a - b) % Modulus = a - b + Modulus * k
        /\ \E k \in Int : (a * b) % Modulus = a * b + Modulus * k
    BY <1>1, ModIs
  <1>3. /\ Add(a, b) = (a + b) % Modulus
        /\ Sub(a, b) = (a - b) % Modulus
        /\ Mul(a, b) = (a * b) % Modulus
    BY AddExact, SubExact, MulExact
  <1> QED
    BY <1>2, <1>3, Zenon

\* Two elements that differ by a multiple of the modulus are the same.
LEMMA EltUnique ==
    ASSUME NEW a \in Elt, NEW b \in Elt, NEW k \in Int, a = b + Modulus * k
    PROVE  a = b
  <1>1. a \in Int /\ b \in Int /\ a % Modulus = a /\ b % Modulus = b
    BY ModElt
  <1>2. a % Modulus = b % Modulus
    BY <1>1, ModShift
  <1> QED
    BY <1>1, <1>2

\* The field's operations obey the laws of a commutative ring: products commute,
LEMMA MulComm ==
    ASSUME NEW a \in Elt, NEW b \in Elt
    PROVE  Mul(a, b) = Mul(b, a)
  <1>1. a * b = b * a
    BY Sizes DEF Elt
  <1> QED
    BY <1>1, MulExact

\* sums commute,
LEMMA AddComm ==
    ASSUME NEW a \in Elt, NEW b \in Elt
    PROVE  Add(a, b) = Add(b, a)
  <1>1. a + b = b + a
    BY Sizes DEF Elt
  <1> QED
    BY <1>1, AddExact

\* one is neutral for products,
LEMMA MulUnit ==
    ASSUME NEW a \in Elt
    PROVE  Mul(a, 1) = a /\ Mul(a, 0) = 0
  <1>1. a * 1 = a /\ a * 0 = 0
    BY Sizes DEF Elt
  <1> QED
    BY <1>1, MulExact, ModElt, Constants

\* zero is neutral for sums,
LEMMA AddUnit ==
    ASSUME NEW a \in Elt
    PROVE  Add(a, 0) = a
  <1>1. a + 0 = a
    BY Sizes DEF Elt
  <1> QED
    BY <1>1, AddExact, ModElt, Constants

\* products may be regrouped,
LEMMA MulAssoc ==
    ASSUME NEW a \in Elt, NEW b \in Elt, NEW c \in Elt
    PROVE  Mul(Mul(a, b), c) = Mul(a, Mul(b, c))
  <1> DEFINE ab == Mul(a, b)
             bc == Mul(b, c)
             x == Mul(ab, c)
             y == Mul(a, bc)
  <1>1. a \in Int /\ b \in Int /\ c \in Int /\ Modulus \in Int
    BY Sizes DEF Elt
  <1>2. ab \in Elt /\ bc \in Elt /\ x \in Elt /\ y \in Elt
    BY RingTypes
  <1>3. PICK k \in Int : ab = a * b + Modulus * k
    BY OpsAre
  <1>4. PICK l \in Int : bc = b * c + Modulus * l
    BY OpsAre
  <1> HIDE DEF ab, bc
  <1>5. PICK m \in Int : x = ab * c + Modulus * m
    BY <1>2, OpsAre
  <1>6. PICK n \in Int : y = a * bc + Modulus * n
    BY <1>2, OpsAre
  <1> HIDE DEF x, y
  <1>7. x = y + Modulus * (k * c - a * l + m - n)
    BY <1>1, <1>3, <1>4, <1>5, <1>6
  <1>8. k * c - a * l + m - n \in Int
    BY <1>1
  <1>9. x = y
    BY <1>2, <1>7, <1>8, EltUnique
  <1> QED
    BY <1>9 DEF x, y, ab, bc

\* and so may sums,
LEMMA AddAssoc ==
    ASSUME NEW a \in Elt, NEW b \in Elt, NEW c \in Elt
    PROVE  Add(Add(a, b), c) = Add(a, Add(b, c))
  <1> DEFINE ab == Add(a, b)
             bc == Add(b, c)
             x == Add(ab, c)
             y == Add(a, bc)
  <1>1. a \in Int /\ b \in Int /\ c \in Int /\ Modulus \in Int
    BY Sizes DEF Elt
  <1>2. ab \in Elt /\ bc \in Elt /\ x \in Elt /\ y \in Elt
    BY RingTypes
  <1>3. PICK k \in Int : ab = a + b + Modulus * k
    BY OpsAre
  <1>4. PICK l \in Int : bc = b + c + Modulus * l
    BY OpsAre
  <1> HIDE DEF ab, bc
  <1>5. PICK m \in Int : x = ab + c + Modulus * m
    BY <1>2, OpsAre
  <1>6. PICK n \in Int : y = a + bc + Modulus * n
    BY <1>2, OpsAre
  <1> HIDE DEF x, y
  <1>7. x = y + Modulus * (k - l + m - n)
    BY <1>1, <1>3, <1>4, <1>5, <1>6
  <1>8. x = y
    BY <1>2, <1>7, EltUnique
  <1> QED
    BY <1>8 DEF x, y, ab, bc

\* and products distribute over sums.
LEMMA Distributes ==
    ASSUME NEW a \in Elt, NEW b \in Elt, NEW c \in Elt
    PROVE  Mul(a, Add(b, c)) = Add(Mul(a, b), Mul(a, c))
  <1> DEFINE s == Add(b, c)
             ab == Mul(a, b)
             ac == Mul(a, c)
             x == Mul(a, s)
             y == Add(ab, ac)
  <1>1. a \in Int /\ b \in Int /\ c \in Int /\ Modulus \in Int
    BY Sizes DEF Elt
  <1>2. s \in Elt /\ ab \in Elt /\ ac \in Elt /\ x \in Elt /\ y \in Elt
    BY RingTypes
  <1>3. PICK k \in Int : s = b + c + Modulus * k
    BY OpsAre
  <1>4. PICK l \in Int : ab = a * b + Modulus * l
    BY OpsAre
  <1>5. PICK m \in Int : ac = a * c + Modulus * m
    BY OpsAre
  <1> HIDE DEF s, ab, ac
  <1>6. PICK n \in Int : x = a * s + Modulus * n
    BY <1>2, OpsAre
  <1>7. PICK o \in Int : y = ab + ac + Modulus * o
    BY <1>2, OpsAre
  <1> HIDE DEF x, y
  <1>8. x = y + Modulus * (a * k - l - m + n - o)
    BY <1>1, <1>3, <1>4, <1>5, <1>6, <1>7
  <1>9. a * k - l - m + n - o \in Int
    BY <1>1
  <1>10. x = y
    BY <1>2, <1>8, <1>9, EltUnique
  <1> QED
    BY <1>10 DEF x, y, s, ab, ac

\* Sub undoes Add.
LEMMA SubUndoes ==
    ASSUME NEW a \in Elt, NEW b \in Elt
    PROVE  Add(Sub(a, b), b) = a
  <1> DEFINE d == Sub(a, b)
             x == Add(d, b)
  <1>1. a \in Int /\ b \in Int /\ Modulus \in Int
    BY Sizes DEF Elt
  <1>2. d \in Elt /\ x \in Elt
    BY RingTypes
  <1>3. PICK k \in Int : d = a - b + Modulus * k
    BY OpsAre
  <1> HIDE DEF d
  <1>4. PICK m \in Int : x = d + b + Modulus * m
    BY <1>2, OpsAre
  <1> HIDE DEF x
  <1>5. x = a + Modulus * (k + m)
    BY <1>1, <1>3, <1>4
  <1>6. x = a
    BY <1>2, <1>5, EltUnique
  <1> QED
    BY <1>6 DEF x, d

-----------------------------------------------------------------------------
(* Powers: square and multiply computes them.                               *)

IsPowers(f, a) == f[0] = 1 /\ \A n \in Nat : f[n + 1] = Mul(f[n], a)

\* The powers of an element, by repeated product.
Powers(a) == CHOOSE f \in [Nat -> Elt] : IsPowers(f, a)

\* Repeated product is well defined.
LEMMA PowersAre ==
    ASSUME NEW a \in Elt
    PROVE  Powers(a) \in [Nat -> Elt] /\ IsPowers(Powers(a), a)
  <1> DEFINE G == [x \in Nat \X Elt |-> Mul(x[2], a)]
  <1>1. G \in [Nat \X Elt -> Elt]
    BY RingTypes
  <1>2. \A n \in Nat, b \in Elt : G[<<n + 1, b>>] = Mul(b, a)
    OBVIOUS
  <1> HIDE DEF G
  <1>3. PICK f \in [Nat -> Elt] : Solves(f, 1, G)
    <2>1. 1 \in Elt
      BY Constants
    <2> QED
      BY <1>1, <2>1, Recursion, Zenon
  <1>4. IsPowers(f, a)
    BY <1>2, <1>3 DEF IsPowers, Solves
  <1> QED
    BY <1>4 DEF Powers

\* Exponents add.
LEMMA PowersAdd ==
    ASSUME NEW a \in Elt, NEW m \in Nat, NEW n \in Nat
    PROVE  Powers(a)[m + n] = Mul(Powers(a)[m], Powers(a)[n])
  <1> DEFINE P == Powers(a)
             T == {i \in Nat : P[m + i] = Mul(P[m], P[i])}
  <1>1. P \in [Nat -> Elt] /\ P[0] = 1 /\ \A i \in Nat : P[i + 1] = Mul(P[i], a)
    BY PowersAre DEF IsPowers
  <1> HIDE DEF P
  <1>2. 0 \in T
    BY <1>1, MulUnit
  <1>3. ASSUME NEW i \in Nat, i \in T
        PROVE  i + 1 \in T
    <2>1. P[m + i] \in Elt /\ P[m] \in Elt /\ P[i] \in Elt
      BY <1>1
    <2>2. P[m + (i + 1)] = Mul(P[m + i], a)
      <3>1. m + i \in Nat /\ m + (i + 1) = (m + i) + 1
        OBVIOUS
      <3> QED
        BY <1>1, <3>1
    <2>3. Mul(P[m + i], a) = Mul(P[m], Mul(P[i], a))
      BY <1>3, <2>1, MulAssoc
    <2> QED
      BY <1>1, <2>2, <2>3
  <1> HIDE DEF T
  <1>4. n \in T
    BY <1>2, <1>3, InductionSet
  <1> QED
    BY <1>4 DEF T, P

\* Exponents multiply.
LEMMA PowersMul ==
    ASSUME NEW a \in Elt, NEW m \in Nat, NEW n \in Nat
    PROVE  Powers(Powers(a)[m])[n] = Powers(a)[m * n]
  <1> DEFINE P == Powers(a)
             Q == Powers(P[m])
             T == {i \in Nat : Q[i] = P[m * i]}
  <1>1. P \in [Nat -> Elt] /\ P[0] = 1
    BY PowersAre DEF IsPowers
  <1>2. \A i \in Nat : P[m * i + m] = Mul(P[m * i], P[m])
    BY PowersAdd
  <1> HIDE DEF P
  <1>3. Q \in [Nat -> Elt] /\ Q[0] = 1 /\ \A i \in Nat : Q[i + 1] = Mul(Q[i], P[m])
    BY <1>1, PowersAre DEF IsPowers
  <1> HIDE DEF Q
  <1>4. 0 \in T
    <2>1. m * 0 = 0
      OBVIOUS
    <2> QED
      BY <1>1, <1>3, <2>1
  <1>5. ASSUME NEW i \in Nat, i \in T
        PROVE  i + 1 \in T
    <2>1. m * (i + 1) = m * i + m
      OBVIOUS
    <2> QED
      BY <1>2, <1>3, <1>5, <2>1
  <1> HIDE DEF T
  <1>6. n \in T
    BY <1>4, <1>5, InductionSet
  <1> QED
    BY <1>6 DEF T, Q, P

\* Small exponents.
LEMMA SmallPowers ==
    ASSUME NEW a \in Elt
    PROVE  Powers(a)[0] = 1 /\ Powers(a)[1] = a /\ Powers(a)[2] = Mul(a, a)
  <1> DEFINE P == Powers(a)
  <1>1. P[0] = 1 /\ P[0 + 1] = Mul(P[0], a) /\ P[1 + 1] = Mul(P[1], a)
    BY PowersAre DEF IsPowers
  <1>2. Mul(1, a) = a
    BY MulUnit, MulComm, Constants
  <1> QED
    BY <1>1, <1>2

\* Every power of one is one.
LEMMA OnePowers ==
    ASSUME NEW n \in Nat
    PROVE  Powers(1)[n] = 1
  <1> DEFINE T == {i \in Nat : Powers(1)[i] = 1}
  <1>1. 0 \in T
    BY SmallPowers, Constants
  <1>2. ASSUME NEW i \in Nat, i \in T
        PROVE  i + 1 \in T
    <2>1. Powers(1)[i + 1] = Mul(Powers(1)[i], 1)
      BY PowersAre, Constants DEF IsPowers
    <2>2. Powers(1)[i] = 1 /\ Mul(1, 1) = 1
      BY <1>2, MulUnit, Constants
    <2> QED
      BY <2>1, <2>2
  <1> HIDE DEF T
  <1>3. n \in T
    BY <1>1, <1>2, InductionSet
  <1> QED
    BY <1>3 DEF T

\* The powers of two.
LEMMA TwoToAre ==
    /\ TwoTo \in [Nat -> Nat]
    /\ TwoTo[0] = 1
    /\ \A n \in Nat : TwoTo[n + 1] = 2 * TwoTo[n]
  <1> DEFINE D(g) == [n \in Nat |-> IF n = 0 THEN 1 ELSE 2 * g[n - 1]]
             f == CHOOSE g : g = D(g)
             G == [x \in Nat \X Nat |-> 2 * x[2]]
  <1>1. TwoTo = f
    BY DEF TwoTo
  <1>2. G \in [Nat \X Nat -> Nat] /\ \A n, k \in Nat : G[<<n + 1, k>>] = 2 * k
    OBVIOUS
  <1> HIDE DEF G
  <1>3. PICK g \in [Nat -> Nat] : Solves(g, 1, G)
    <2>1. 1 \in Nat
      OBVIOUS
    <2> QED
      BY <1>2, <2>1, Recursion, Zenon
  <1>4. g[0] = 1 /\ \A n \in Nat : g[n + 1] = 2 * g[n]
    BY <1>2, <1>3 DEF Solves
  <1>5. ASSUME NEW n \in Nat PROVE g[n] = IF n = 0 THEN 1 ELSE 2 * g[n - 1]
    <2>1. CASE n # 0
      <3>1. n - 1 \in Nat /\ (n - 1) + 1 = n
        BY <2>1
      <3> QED
        BY <1>4, <2>1, <3>1
    <2> QED
      BY <1>4, <2>1
  <1>6. g = D(g)
    BY <1>5
  <1>7. f = D(f)
    BY <1>6
  <1> HIDE DEF f
  <1>8. f[0] = 1 /\ \A n \in Nat : f[n + 1] = 2 * f[n]
    BY <1>7
  <1>9. \A n \in Nat : f[n] \in Nat
    <2> DEFINE T == {n \in Nat : f[n] \in Nat}
    <2>1. 0 \in T
      BY <1>8
    <2>2. \A n \in Nat : n \in T => n + 1 \in T
      BY <1>8
    <2> HIDE DEF T
    <2>3. Nat \subseteq T
      BY <2>1, <2>2, InductionSet, Zenon
    <2> QED
      BY <2>3 DEF T
  <1>10. f \in [Nat -> Nat]
    BY <1>7, <1>9
  <1> QED
    BY <1>1, <1>8, <1>10

PowStates == [result : Elt, base : Elt, bits : Nat]

\* What a round of Pow keeps: the result times the power that is left.
LEMMA RoundKeeps ==
    ASSUME NEW s \in PowStates
    PROVE  /\ PowRound(s) \in PowStates
           /\ 2 * PowRound(s).bits =< s.bits
           /\ Mul(PowRound(s).result, Powers(PowRound(s).base)[PowRound(s).bits])
                 = Mul(s.result, Powers(s.base)[s.bits])
  <1> DEFINE b == s.base
             x == s.result
             h == s.bits \div 2
             r == s.bits % 2
             sq == Mul(b, b)
             rest == Powers(sq)[h]
  <1>1. b \in Elt /\ x \in Elt /\ s.bits \in Nat
    BY DEF PowStates
  <1>2. h \in Nat /\ r \in {0, 1} /\ s.bits = 2 * h + r
    BY <1>1
  <1>3. PowRound(s) = [result |-> IF r = 1 THEN Mul(x, b) ELSE x, base |-> sq, bits |-> h]
    BY DEF PowRound
  <1> HIDE DEF h, r
  <1>4. sq \in Elt /\ Mul(x, b) \in Elt
    BY <1>1, RingTypes
  <1>5. rest \in Elt
    BY <1>2, <1>4, PowersAre
  <1>6. Powers(b)[2 * h] = rest
    <2>1. Powers(Powers(b)[2])[h] = Powers(b)[2 * h]
      BY <1>1, <1>2, PowersMul
    <2>2. Powers(b)[2] = sq
      BY <1>1, SmallPowers
    <2> QED
      BY <2>1, <2>2
  <1>7. Powers(b)[s.bits] = Mul(rest, Powers(b)[r])
    <2>1. 2 * h \in Nat /\ r \in Nat
      BY <1>2
    <2>2. Powers(b)[2 * h + r] = Mul(Powers(b)[2 * h], Powers(b)[r])
      BY <1>1, <2>1, PowersAdd
    <2> QED
      BY <1>2, <1>6, <2>2
  <1> HIDE DEF rest, sq, b, x
  <1>8. CASE r = 0
    BY <1>1, <1>2, <1>3, <1>4, <1>5, <1>7, <1>8, SmallPowers, MulUnit
    DEF PowStates, rest, sq, b, x
  <1>9. CASE r = 1
    <2>1. Powers(b)[s.bits] = Mul(rest, b)
      BY <1>1, <1>7, <1>9, SmallPowers
    <2>2. Mul(x, Mul(rest, b)) = Mul(Mul(x, b), rest)
      BY <1>1, <1>5, MulAssoc, MulComm
    <2>3. /\ PowRound(s).result = Mul(x, b) /\ PowRound(s).base = sq
          /\ PowRound(s).bits = h
      BY <1>3, <1>9
    <2>4. PowRound(s) \in PowStates /\ 2 * h =< s.bits
      BY <1>2, <1>3, <1>4, <1>9 DEF PowStates
    <2> QED
      BY <2>1, <2>2, <2>3, <2>4 DEF rest, b, x
  <1> QED
    BY <1>2, <1>8, <1>9

PowLoop(F, a, e, rounds) ==
    /\ F[0] = [result |-> 1, base |-> a, bits |-> e]
    /\ \A i \in Nat : F[i + 1] = PowRound(F[i])
    /\ Pow(a, e, rounds) = F[rounds].result

\* The rounds of Pow, as a function on all numbers.
LEMMA PowRounds ==
    ASSUME NEW a \in Elt, NEW e \in Nat, NEW rounds \in Nat
    PROVE  \E F \in [Nat -> PowStates] : PowLoop(F, a, e, rounds)
  <1> DEFINE c == [result |-> 1, base |-> a, bits |-> e]
             D(g) == [i \in 0..rounds |-> IF i = 0 THEN c ELSE PowRound(g[i - 1])]
             f == CHOOSE g : g = D(g)
             G == [x \in Nat \X PowStates |-> PowRound(x[2])]
  <1>1. Pow(a, e, rounds) = f[rounds].result
    BY DEF Pow
  <1>2. c \in PowStates
    BY Constants DEF PowStates
  <1>3. G \in [Nat \X PowStates -> PowStates]
    BY RoundKeeps
  <1>4. \A i \in Nat, s \in PowStates : G[<<i + 1, s>>] = PowRound(s)
    OBVIOUS
  <1> HIDE DEF G, c
  <1>5. PICK F \in [Nat -> PowStates] : Solves(F, c, G)
    BY <1>2, <1>3, Recursion, Zenon
  <1>6. F[0] = c /\ \A i \in Nat : F[i + 1] = PowRound(F[i])
    BY <1>4, <1>5 DEF Solves
  <1> DEFINE g == [i \in 0..rounds |-> F[i]]
  <1>7. ASSUME NEW i \in 0..rounds PROVE g[i] = IF i = 0 THEN c ELSE PowRound(g[i - 1])
    <2>1. CASE i # 0
      <3>1. i - 1 \in Nat /\ (i - 1) + 1 = i /\ i - 1 \in 0..rounds
        BY <2>1
      <3> QED
        BY <1>6, <2>1, <3>1
    <2> QED
      BY <1>6, <2>1
  <1>8. g = D(g)
    BY <1>7
  <1>9. f = D(f)
    BY <1>8
  <1> HIDE DEF f
  <1>10. f[0] = c /\ \A i \in 1..rounds : f[i] = PowRound(f[i - 1])
    BY <1>9
  <1> DEFINE T == {i \in Nat : i =< rounds => f[i] = F[i]}
  <1>11. 0 \in T
    BY <1>6, <1>10
  <1>12. ASSUME NEW i \in Nat, i \in T
         PROVE  i + 1 \in T
    <2> SUFFICES ASSUME i + 1 =< rounds PROVE f[i + 1] = F[i + 1]
      OBVIOUS
    <2>1. i + 1 \in 1..rounds /\ (i + 1) - 1 = i /\ f[i] = F[i]
      BY <1>12
    <2> QED
      BY <1>6, <1>10, <2>1
  <1> HIDE DEF T
  <1>13. rounds \in T
    BY <1>11, <1>12, InductionSet
  <1>14. f[rounds] = F[rounds]
    BY <1>13 DEF T
  <1> QED
    BY <1>1, <1>6, <1>14 DEF c, PowLoop

\* Square and multiply computes the power, for every exponent of a word of as many
\* bits as it takes rounds.
LEMMA PowIs ==
    ASSUME NEW a \in Elt, NEW e \in Nat, NEW rounds \in Nat, e < TwoTo[rounds]
    PROVE  Pow(a, e, rounds) = Powers(a)[e]
  <1>0. PICK F \in [Nat -> PowStates] : PowLoop(F, a, e, rounds)
    BY PowRounds, Zenon
  <1>1. /\ F[0] = [result |-> 1, base |-> a, bits |-> e]
        /\ \A i \in Nat : F[i + 1] = PowRound(F[i])
        /\ Pow(a, e, rounds) = F[rounds].result
    BY <1>0 DEF PowLoop
  <1> DEFINE Left(i) == Mul(F[i].result, Powers(F[i].base)[F[i].bits])
             T == {i \in Nat : F[i].bits * TwoTo[i] =< e /\ Left(i) = Powers(a)[e]}
  <1>2. \A i \in Nat : F[i] \in PowStates /\ F[i].bits \in Nat /\ TwoTo[i] \in Nat
    BY TwoToAre DEF PowStates
  <1>3. 0 \in T
    <2>1. Mul(1, Powers(a)[e]) = Powers(a)[e]
      BY PowersAre, MulUnit, MulComm, Constants
    <2>2. F[0].result = 1 /\ F[0].base = a /\ F[0].bits = e
      BY <1>1
    <2>3. Left(0) = Powers(a)[e]
      BY <2>1, <2>2
    <2>4. F[0].bits * TwoTo[0] =< e
      BY <2>2, TwoToAre
    <2> QED
      BY <2>3, <2>4
  <1>4. ASSUME NEW i \in Nat, i \in T
        PROVE  i + 1 \in T
    <2>1. F[i + 1] = PowRound(F[i])
      BY <1>1
    <2>2. Left(i + 1) = Left(i) /\ 2 * F[i + 1].bits =< F[i].bits
      BY <1>2, <2>1, RoundKeeps
    <2> HIDE DEF Left
    <2>3. TwoTo[i + 1] = 2 * TwoTo[i]
      BY TwoToAre
    <2>4. F[i + 1].bits * TwoTo[i + 1] =< F[i].bits * TwoTo[i]
      <3> DEFINE u == F[i + 1].bits
                 v == F[i].bits
                 w == TwoTo[i]
      <3>1. u \in Nat /\ v \in Nat /\ w \in Nat /\ 2 * u =< v
        BY <1>2, <2>2
      <3> HIDE DEF u, v, w
      <3>2. u * (2 * w) =< v * w
        BY <3>1
      <3> QED
        BY <2>3, <3>2 DEF u, v, w
    <2> QED
      BY <1>2, <1>4, <2>2, <2>4
  <1> HIDE DEF T
  <1>5. rounds \in T
    BY <1>3, <1>4, InductionSet
  <1>6. F[rounds].bits * TwoTo[rounds] =< e /\ Left(rounds) = Powers(a)[e]
    BY <1>5 DEF T
  <1>7. F[rounds].bits = 0
    <2> DEFINE u == F[rounds].bits
               w == TwoTo[rounds]
    <2>1. u \in Nat /\ w \in Nat /\ u * w =< e /\ e < w
      BY <1>2, <1>6
    <2> HIDE DEF u, w
    <2>2. u >= 1 => u * w >= w
      BY <2>1
    <2>3. u = 0
      BY <2>1, <2>2
    <2> QED
      BY <2>3 DEF u
  <1>8. F[rounds].result \in Elt /\ F[rounds].base \in Elt
    BY <1>2 DEF PowStates
  <1>9. Left(rounds) = F[rounds].result
    BY <1>7, <1>8, SmallPowers, MulUnit
  <1> QED
    BY <1>1, <1>6, <1>9

-----------------------------------------------------------------------------
(* A prime modulus: cancellation, and Fermat's little theorem.              *)

Units == Elt \ {0}

\* Sums cancel.
LEMMA AddCancels ==
    ASSUME NEW a \in Elt, NEW b \in Elt, NEW c \in Elt, Add(a, c) = Add(b, c)
    PROVE  a = b
  <1> DEFINE n == Sub(0, c)
  <1>1. n \in Elt /\ Add(n, c) = 0
    BY RingTypes, SubUndoes, Constants
  <1> HIDE DEF n
  <1>2. Add(c, n) = 0
    BY <1>1, AddComm
  <1>3. Add(Add(a, c), n) = a
    BY <1>1, <1>2, AddAssoc, AddUnit
  <1>4. Add(Add(b, c), n) = b
    BY <1>1, <1>2, AddAssoc, AddUnit
  <1> QED
    BY <1>3, <1>4

\* The product of units is a unit.
LEMMA UnitsMul ==
    ASSUME PrimeModulus, NEW a \in Units, NEW b \in Units
    PROVE  Mul(a, b) \in Units
  <1>1. a \in 1..(Modulus - 1) /\ b \in 1..(Modulus - 1)
    BY Sizes DEF Units, Elt
  <1>2. (a * b) % Modulus # 0
    BY <1>1 DEF PrimeModulus
  <1> QED
    BY <1>2, MulExact DEF Units

\* Products cancel.
LEMMA MulCancels ==
    ASSUME PrimeModulus, NEW a \in Units, NEW b \in Elt, NEW c \in Elt,
           Mul(a, b) = Mul(a, c)
    PROVE  b = c
  <1> DEFINE d == Sub(b, c)
  <1>1. a \in Elt /\ d \in Elt /\ Add(d, c) = b
    BY RingTypes, SubUndoes DEF Units
  <1> HIDE DEF d
  <1>2. Mul(a, d) \in Elt /\ Mul(a, c) \in Elt
    BY <1>1, RingTypes
  <1>3. Mul(a, b) = Add(Mul(a, d), Mul(a, c))
    BY <1>1, Distributes
  <1>4. Add(0, Mul(a, c)) = Mul(a, c)
    BY <1>2, AddUnit, AddComm, Constants
  <1>5. Mul(a, d) = 0
    BY <1>2, <1>3, <1>4, AddCancels, Constants
  <1>6. d = 0
    BY <1>1, <1>5, UnitsMul DEF Units
  <1> QED
    BY <1>1, <1>6, AddUnit, AddComm, Constants

\* The powers of a unit are units.
LEMMA UnitPowers ==
    ASSUME PrimeModulus, NEW a \in Units, NEW n \in Nat
    PROVE  Powers(a)[n] \in Units
  <1> DEFINE T == {i \in Nat : Powers(a)[i] \in Units}
  <1>1. a \in Elt /\ 1 \in Units
    BY Constants DEF Units
  <1>2. 0 \in T
    BY <1>1, SmallPowers
  <1>3. ASSUME NEW i \in Nat, i \in T
        PROVE  i + 1 \in T
    <2>1. Powers(a)[i + 1] = Mul(Powers(a)[i], a)
      BY <1>1, PowersAre DEF IsPowers
    <2> QED
      BY <1>3, <2>1, UnitsMul
  <1> HIDE DEF T
  <1>4. n \in T
    BY <1>2, <1>3, InductionSet
  <1> QED
    BY <1>4 DEF T

\* Equal powers of a unit differ by an exponent with power one.
LEMMA EqualPowers ==
    ASSUME PrimeModulus, NEW a \in Units, NEW i \in Nat, NEW j \in Nat, i < j,
           Powers(a)[i] = Powers(a)[j]
    PROVE  Powers(a)[j - i] = 1
  <1>1. a \in Elt /\ j - i \in Nat /\ i + (j - i) = j
    BY DEF Units
  <1>2. Powers(a)[i] \in Units /\ Powers(a)[i] \in Elt /\ Powers(a)[j - i] \in Elt
    BY <1>1, UnitPowers, PowersAre
  <1>3. Powers(a)[i + (j - i)] = Mul(Powers(a)[i], Powers(a)[j - i])
    BY <1>1, PowersAdd
  <1>4. Mul(Powers(a)[i], Powers(a)[j - i]) = Mul(Powers(a)[i], 1)
    BY <1>1, <1>2, <1>3, MulUnit
  <1> QED
    BY <1>2, <1>4, MulCancels, Constants

IsOrder(a, d) ==
    /\ d \in Nat \ {0}
    /\ Powers(a)[d] = 1
    /\ \A k \in 1..(d - 1) : Powers(a)[k] # 1

\* Every unit has an order.
LEMMA OrderExists ==
    ASSUME PrimeModulus, NEW a \in Units
    PROVE  \E d : IsOrder(a, d)
  <1> DEFINE S == {n \in Nat : n # 0 /\ Powers(a)[n] = 1}
             f == [i \in 0..(Modulus - 1) |-> Powers(a)[i]]
  <1>1. \E i, j \in 0..(Modulus - 1) : i # j /\ f[i] = f[j]
    <2>1. Modulus \in Nat /\ Modulus > 0
      BY Sizes
    <2>2. IsFiniteSet(0..(Modulus - 1)) /\ Cardinality(0..(Modulus - 1)) = Modulus
      BY <2>1, FS_Interval
    <2>3. IsFiniteSet(1..(Modulus - 1)) /\ Cardinality(1..(Modulus - 1)) = Modulus - 1
      BY <2>1, FS_Interval
    <2>4. Units = 1..(Modulus - 1)
      BY <2>1 DEF Units, Elt
    <2>5. f \in [0..(Modulus - 1) -> Units]
      BY <2>1, UnitPowers
    <2> HIDE DEF f
    <2>6. Cardinality(Units) < Cardinality(0..(Modulus - 1)) /\ IsFiniteSet(Units)
      BY <2>1, <2>2, <2>3, <2>4
    <2> QED
      BY <2>2, <2>5, <2>6, FS_PigeonHole, Zenon
  <1>2. PICK i, j \in 0..(Modulus - 1) : i < j /\ Powers(a)[i] = Powers(a)[j]
    BY <1>1, Sizes
  <1>3. j - i \in S
    BY <1>2, EqualPowers, Sizes
  <1>4. PICK d \in S : \A k \in S : d =< k
    BY <1>3, LeastNumber
  <1>5. IsOrder(a, d)
    BY <1>4 DEF IsOrder
  <1> QED
    BY <1>5

\* What multiplication by a makes of b.
Orbit(a, b, d) == {Mul(Powers(a)[i], b) : i \in 0..(d - 1)}

\* An orbit of a has as many elements as the order of a.
LEMMA OrbitSize ==
    ASSUME PrimeModulus, NEW a \in Units, NEW b \in Units, NEW d, IsOrder(a, d)
    PROVE  IsFiniteSet(Orbit(a, b, d)) /\ Cardinality(Orbit(a, b, d)) = d
  <1> DEFINE f == [i \in 0..(d - 1) |-> Mul(Powers(a)[i], b)]
             O == Orbit(a, b, d)
  <1>1. d \in Nat /\ d > 0 /\ a \in Elt /\ b \in Elt
    BY DEF IsOrder, Units
  <1>2. IsFiniteSet(0..(d - 1)) /\ Cardinality(0..(d - 1)) = d
    BY <1>1, FS_Interval
  <1>3. f \in Surjection(0..(d - 1), O)
    BY DEF Surjection, Orbit
  <1>4. ASSUME NEW i \in 0..(d - 1), NEW j \in 0..(d - 1), i < j PROVE f[i] # f[j]
    <2> SUFFICES ASSUME f[i] = f[j] PROVE FALSE
      OBVIOUS
    <2>1. i \in Nat /\ j \in Nat /\ j - i \in 1..(d - 1)
      BY <1>1, <1>4
    <2>2. Powers(a)[i] \in Elt /\ Powers(a)[j] \in Elt
      BY <1>1, <2>1, PowersAre
    <2>3. Mul(b, Powers(a)[i]) = Mul(b, Powers(a)[j])
      BY <1>1, <2>2, MulComm
    <2>4. Powers(a)[i] = Powers(a)[j]
      BY <2>2, <2>3, MulCancels
    <2>5. Powers(a)[j - i] = 1
      BY <1>4, <2>1, <2>4, EqualPowers
    <2> QED
      BY <2>1, <2>5 DEF IsOrder
  <1>5. \A i, j \in 0..(d - 1) : f[i] = f[j] => i = j
    BY <1>1, <1>4
  <1> HIDE DEF f
  <1>6. f \in Injection(0..(d - 1), O)
    BY <1>3, <1>5 DEF Surjection, Injection, IsInjective
  <1>7. IsFiniteSet(O) /\ Cardinality(O) = Cardinality(0..(d - 1))
    BY <1>2, <1>3, <1>6, FS_Surjection
  <1> QED
    BY <1>2, <1>7

\* Multiplication by a maps B into itself.
Closed(a, B) == \A x \in B : Mul(a, x) \in B

\* A closed set contains the orbits of its elements.
LEMMA OrbitInside ==
    ASSUME PrimeModulus, NEW a \in Units, NEW B \in SUBSET Units, Closed(a, B),
           NEW b \in B, NEW d, IsOrder(a, d)
    PROVE  Orbit(a, b, d) \subseteq B
  <1> DEFINE T == {i \in Nat : Mul(Powers(a)[i], b) \in B}
  <1>1. a \in Elt /\ b \in Elt /\ d \in Nat
    BY DEF Units, IsOrder
  <1>2. 0 \in T
    <2>1. Mul(1, b) = b
      BY <1>1, MulUnit, MulComm, Constants
    <2> QED
      BY <1>1, <2>1, SmallPowers
  <1>3. ASSUME NEW i \in Nat, i \in T
        PROVE  i + 1 \in T
    <2>1. Powers(a)[i] \in Elt /\ Powers(a)[i + 1] = Mul(Powers(a)[i], a)
      BY <1>1, PowersAre DEF IsPowers
    <2>2. Mul(Mul(Powers(a)[i], a), b) = Mul(a, Mul(Powers(a)[i], b))
      BY <1>1, <2>1, MulAssoc, MulComm
    <2> QED
      BY <1>3, <2>1, <2>2 DEF Closed
  <1> HIDE DEF T
  <1>4. Nat \subseteq T
    BY <1>2, <1>3, InductionSet
  <1> QED
    BY <1>1, <1>4 DEF Orbit, T

\* What is left of a closed set without an orbit is closed.
LEMMA OrbitOutside ==
    ASSUME PrimeModulus, NEW a \in Units, NEW B \in SUBSET Units, Closed(a, B),
           NEW b \in B, NEW d, IsOrder(a, d)
    PROVE  Closed(a, B \ Orbit(a, b, d))
  <1> SUFFICES ASSUME NEW x \in B, Mul(a, x) \in Orbit(a, b, d)
               PROVE  x \in Orbit(a, b, d)
    BY DEF Closed
  <1>1. a \in Elt /\ b \in Elt /\ x \in Elt /\ d \in Nat /\ d > 0
    BY DEF Units, IsOrder
  <1>2. PICK i \in 0..(d - 1) : Mul(a, x) = Mul(Powers(a)[i], b)
    BY DEF Orbit
  <1>3. PICK j \in 0..(d - 1) : Powers(a)[i] = Powers(a)[j + 1]
    <2>1. CASE i = 0
      <3>1. d - 1 \in 0..(d - 1) /\ (d - 1) + 1 = d
        BY <1>1
      <3>2. Powers(a)[0] = 1 /\ Powers(a)[d] = 1
        BY <1>1, SmallPowers DEF IsOrder
      <3> QED
        BY <2>1, <3>1, <3>2
    <2>2. CASE i # 0
      <3>1. i - 1 \in 0..(d - 1) /\ (i - 1) + 1 = i
        BY <1>1, <2>2
      <3> QED
        BY <3>1
    <2> QED
      BY <2>1, <2>2
  <1> DEFINE y == Mul(Powers(a)[j], b)
  <1>4. j \in Nat /\ Powers(a)[j] \in Elt /\ Powers(a)[j + 1] = Mul(Powers(a)[j], a)
    <2>1. j \in Nat
      BY <1>1
    <2> QED
      BY <1>1, <2>1, PowersAre DEF IsPowers
  <1>5. y \in Elt /\ Mul(a, x) = Mul(a, y)
    <2>1. Mul(Mul(Powers(a)[j], a), b) = Mul(a, Mul(Powers(a)[j], b))
      BY <1>1, <1>4, MulAssoc, MulComm
    <2> QED
      BY <1>1, <1>2, <1>3, <1>4, <2>1, RingTypes
  <1>6. x = y
    BY <1>1, <1>5, MulCancels
  <1> QED
    BY <1>6 DEF Orbit

\* The order of a divides the size of every closed set.
LEMMA OrderDivides ==
    ASSUME PrimeModulus, NEW a \in Units, NEW d, IsOrder(a, d),
           NEW A \in SUBSET Units, Closed(a, A)
    PROVE  \E q \in Nat : Cardinality(A) = d * q
  <1> DEFINE K == {n \in Nat : /\ ~\E q \in Nat : n = d * q
                               /\ \E B \in SUBSET Units : Closed(a, B) /\ Cardinality(B) = n}
  <1>1. d \in Nat /\ d > 0
    BY DEF IsOrder
  <1>2. ASSUME NEW B \in SUBSET Units PROVE IsFiniteSet(B) /\ Cardinality(B) \in Nat
    <2>1. IsFiniteSet(Units)
      <3>1. Units \in SUBSET (1..(Modulus - 1)) /\ IsFiniteSet(1..(Modulus - 1))
        BY Sizes, FS_Interval DEF Units, Elt
      <3> QED
        BY <3>1, FS_Subset
    <2> QED
      BY <2>1, FS_Subset, FS_CardinalityType
  <1>3. ASSUME K # {} PROVE FALSE
    <2>1. PICK m \in K : \A k \in K : m =< k
      BY <1>3, LeastNumber
    <2>2. PICK B \in SUBSET Units : Closed(a, B) /\ Cardinality(B) = m
      OBVIOUS
    <2>3. m \in Nat /\ ~\E q \in Nat : m = d * q
      OBVIOUS
    <2>4. m # 0
      <3>1. 0 = d * 0
        BY <1>1
      <3> QED
        BY <2>3, <3>1
    <2>5. PICK b \in B : TRUE
      BY <1>2, <2>2, <2>4, FS_EmptySet
    <2> DEFINE O == Orbit(a, b, d)
               C == B \ O
    <2>6. O \subseteq B
      BY <2>2, OrbitInside
    <2>7. IsFiniteSet(O) /\ Cardinality(O) = d
      BY <2>5, OrbitSize
    <2>8. C \in SUBSET Units /\ Closed(a, C)
      BY <2>2, OrbitOutside
    <2> HIDE DEF O, K
    <2>9. IsFiniteSet(C) /\ Cardinality(C) \in Nat
      BY <1>2, <2>8
    <2>10. m = Cardinality(C) + d
      <3>1. C \union O = B /\ C \intersect O = {}
        BY <2>6
      <3> HIDE DEF C
      <3>2. Cardinality(C \union O) = Cardinality(C) + Cardinality(O) - Cardinality(C \intersect O)
        BY <2>7, <2>9, FS_Union
      <3>3. Cardinality(C \union O) = m
        BY <2>2, <3>1, Zenon
      <3>4. Cardinality(C \intersect O) = 0
        BY <3>1, FS_EmptySet, Zenon
      <3> QED
        BY <1>1, <2>7, <2>9, <3>2, <3>3, <3>4
    <2>11. ~(Cardinality(C) \in K)
      BY <1>1, <2>1, <2>3, <2>9, <2>10
    <2>12. PICK q \in Nat : Cardinality(C) = d * q
      BY <2>8, <2>9, <2>11 DEF K
    <2>13. m = d * (q + 1) /\ q + 1 \in Nat
      BY <1>1, <2>10, <2>12
    <2> QED
      BY <2>3, <2>13
  <1> QED
    BY <1>2, <1>3

\* Fermat's little theorem.
LEMMA Fermat ==
    ASSUME PrimeModulus, NEW a \in Units
    PROVE  Powers(a)[Modulus - 1] = 1
  <1>1. PICK d : IsOrder(a, d)
    BY OrderExists
  <1>2. Closed(a, Units)
    BY UnitsMul DEF Closed
  <1>3. PICK q \in Nat : Cardinality(Units) = d * q
    BY <1>1, <1>2, OrderDivides
  <1>4. Cardinality(Units) = Modulus - 1
    <2>1. Modulus \in Nat /\ Modulus > 0 /\ Units = 1..(Modulus - 1)
      BY Sizes DEF Units, Elt
    <2> QED
      BY <2>1, FS_Interval
  <1>5. a \in Elt /\ d \in Nat /\ Powers(a)[d] = 1
    BY <1>1 DEF IsOrder, Units
  <1>6. Powers(Powers(a)[d])[q] = Powers(a)[d * q]
    BY <1>5, PowersMul
  <1> QED
    BY <1>3, <1>4, <1>5, <1>6, OnePowers

-----------------------------------------------------------------------------
(* Inverses and the roots of unity, as the code computes them.              *)

\* The rounds of Pow are the bits of a word.
WordRounds(rounds) ==
    /\ rounds \in Nat
    /\ TwoTo[rounds] = W
    /\ TwoTo[rounds \div 2] = E

\* Pow is exact for the exponents of a word.
LEMMA PowWord ==
    ASSUME NEW rounds, WordRounds(rounds), NEW a \in Elt, NEW e \in Word
    PROVE  Pow(a, e, rounds) = Powers(a)[e] /\ Powers(a)[e] \in Elt
  <1>1. e \in Nat /\ e < W
    BY Sizes DEF Word
  <1> QED
    BY <1>1, PowIs, PowersAre DEF WordRounds

\* Inv inverts the units and keeps zero.
LEMMA InvIs ==
    ASSUME PrimeModulus, NEW rounds, WordRounds(rounds)
    PROVE  /\ Inv(0, rounds) = 0
           /\ \A a \in Units : Inv(a, rounds) \in Elt /\ Mul(a, Inv(a, rounds)) = 1
  <1>1. Modulus - 2 \in Word /\ Modulus - 2 \in Nat /\ Modulus - 3 \in Nat
    <2>1. E * E >= 2 * E /\ E >= 2
      BY EAssumption
    <2> QED
      BY <2>1, EAssumption DEF Word, Modulus, W
  <1>2. Inv(0, rounds) = 0
    <2>1. Inv(0, rounds) = Powers(0)[(Modulus - 3) + 1]
      <3>1. (Modulus - 3) + 1 = Modulus - 2
        BY Sizes
      <3> QED
        BY <1>1, <3>1, PowWord, Constants DEF Inv
    <2>2. /\ Powers(0)[(Modulus - 3) + 1] = Mul(Powers(0)[Modulus - 3], 0)
          /\ Powers(0)[Modulus - 3] \in Elt
      BY <1>1, PowersAre, Constants DEF IsPowers
    <2> QED
      BY <2>1, <2>2, MulUnit
  <1>3. ASSUME NEW a \in Units
        PROVE  Inv(a, rounds) \in Elt /\ Mul(a, Inv(a, rounds)) = 1
    <2>1. a \in Elt
      BY DEF Units
    <2>2. Inv(a, rounds) = Powers(a)[Modulus - 2] /\ Powers(a)[Modulus - 2] \in Elt
      BY <1>1, <2>1, PowWord DEF Inv
    <2>3. Powers(a)[(Modulus - 2) + 1] = Mul(Powers(a)[Modulus - 2], a)
      BY <1>1, <2>1, PowersAre DEF IsPowers
    <2>4. (Modulus - 2) + 1 = Modulus - 1
      BY Sizes
    <2> QED
      BY <2>1, <2>2, <2>3, <2>4, Fermat, MulComm
  <1> QED
    BY <1>2, <1>3

\* Powers of two: positive, and their exponents add.
LEMMA TwoToPositive ==
    ASSUME NEW n \in Nat
    PROVE  TwoTo[n] \in Nat /\ TwoTo[n] > 0
  <1> DEFINE T == {i \in Nat : TwoTo[i] > 0}
  <1>1. 0 \in T
    BY TwoToAre
  <1>2. ASSUME NEW i \in Nat, i \in T PROVE i + 1 \in T
    BY <1>2, TwoToAre
  <1> HIDE DEF T
  <1>3. n \in T
    BY <1>1, <1>2, InductionSet
  <1> QED
    BY <1>3, TwoToAre DEF T

\* Exponents add: two to a sum is the product of the powers.
LEMMA TwoToAdd ==
    ASSUME NEW m \in Nat, NEW n \in Nat
    PROVE  TwoTo[m + n] = TwoTo[m] * TwoTo[n]
  <1> DEFINE T == {i \in Nat : TwoTo[m + i] = TwoTo[m] * TwoTo[i]}
  <1>1. 0 \in T
    BY TwoToAre
  <1>2. ASSUME NEW i \in Nat, i \in T PROVE i + 1 \in T
    <2>1. m + (i + 1) = (m + i) + 1 /\ m + i \in Nat
      OBVIOUS
    <2>2. TwoTo[m + (i + 1)] = 2 * TwoTo[m + i] /\ TwoTo[i + 1] = 2 * TwoTo[i]
      BY <2>1, TwoToAre
    <2>3. TwoTo[m] \in Nat /\ TwoTo[i] \in Nat
      BY TwoToAre
    <2>4. 2 * (TwoTo[m] * TwoTo[i]) = TwoTo[m] * (2 * TwoTo[i])
      BY <2>3
    <2> QED
      BY <1>2, <2>2, <2>4
  <1> HIDE DEF T
  <1>3. n \in T
    BY <1>1, <1>2, InductionSet
  <1> QED
    BY <1>3 DEF T

\* The only odd divisor of a power of two is one.
LEMMA OddDivisor ==
    ASSUME NEW q \in Nat, q % 2 = 1, NEW n \in Nat, NEW c \in Nat, c * q = TwoTo[n]
    PROVE  q = 1
  <1> DEFINE T == {i \in Nat : \A k \in Nat : k * q = TwoTo[i] => q = 1}
  <1>1. 0 \in T
    <2>1. ASSUME NEW k \in Nat, k * q = 1 PROVE q = 1
      <3>1. k >= 1 /\ q >= 1
        BY <2>1
      <3>2. k * q >= q
        BY <3>1
      <3> QED
        BY <2>1, <3>1, <3>2
    <2> QED
      BY <2>1, TwoToAre
  <1>2. ASSUME NEW i \in Nat, i \in T PROVE i + 1 \in T
    <2> SUFFICES ASSUME NEW k \in Nat, k * q = TwoTo[i + 1] PROVE q = 1
      OBVIOUS
    <2>1. k * q = 2 * TwoTo[i] /\ TwoTo[i] \in Nat
      BY TwoToAre
    <2> DEFINE h == k \div 2
               g == q \div 2
    <2>2. h \in Nat /\ g \in Nat /\ q = 2 * g + 1 /\ (k = 2 * h \/ k = 2 * h + 1)
      OBVIOUS
    <2> HIDE DEF h, g
    <2>3. k = 2 * h
      <3>1. ASSUME k = 2 * h + 1 PROVE FALSE
        <4>1. k * q = 2 * (2 * (h * g) + h + g) + 1
          BY <2>2, <3>1
        <4>2. 2 * (h * g) + h + g \in Nat
          BY <2>2
        <4> QED
          BY <2>1, <4>1, <4>2
      <3> QED
        BY <2>2, <3>1
    <2>4. 2 * (h * q) = 2 * TwoTo[i] /\ h * q \in Nat
      BY <2>1, <2>2, <2>3
    <2>5. h * q = TwoTo[i]
      BY <2>1, <2>4
    <2> QED
      BY <1>2, <2>2, <2>5
  <1> HIDE DEF T
  <1>3. n \in T
    BY <1>1, <1>2, InductionSet
  <1> QED
    BY <1>3 DEF T

\* A power is one at the multiples of the order only.
LEMMA OrderMultiples ==
    ASSUME NEW a \in Elt, NEW d, IsOrder(a, d), NEW n \in Nat
    PROVE  Powers(a)[n] = 1 <=> n % d = 0
  <1> DEFINE q == n \div d
             r == n % d
  <1>1. d \in Nat /\ d > 0
    BY DEF IsOrder
  <1>2. q \in Int /\ r \in 0..(d - 1) /\ n = d * q + r
    BY <1>1, DivMod
  <1> HIDE DEF q, r
  <1>3. q \in Nat
    <2>1. ASSUME q =< -1 PROVE FALSE
      <3>1. d * q =< -d
        BY <1>1, <1>2, <2>1
      <3> QED
        BY <1>1, <1>2, <3>1
    <2> QED
      BY <1>2, <2>1
  <1>4. d * q \in Nat /\ r \in Nat
    BY <1>1, <1>2, <1>3
  <1>5. Powers(a)[d * q] = 1
    <2>1. Powers(Powers(a)[d])[q] = Powers(a)[d * q]
      BY <1>1, <1>3, PowersMul
    <2> QED
      BY <1>3, <2>1, OnePowers DEF IsOrder
  <1>6. Powers(a)[n] = Powers(a)[r]
    <2>1. Powers(a)[d * q + r] = Mul(Powers(a)[d * q], Powers(a)[r])
      BY <1>4, PowersAdd
    <2>2. Powers(a)[r] \in Elt
      BY <1>4, PowersAre
    <2>3. Mul(1, Powers(a)[r]) = Powers(a)[r]
      BY <2>2, MulUnit, MulComm, Constants
    <2> QED
      BY <1>2, <1>5, <2>1, <2>3
  <1>7. Powers(a)[r] = 1 <=> r = 0
    BY <1>1, <1>2, SmallPowers DEF IsOrder
  <1> QED
    BY <1>6, <1>7 DEF r

\* The generator's order is GenOrder: it divides E, a power of two, and not its half.
LEMMA GeneratorOrder ==
    ASSUME PrimeModulus, NEW rounds, WordRounds(rounds), PrimitiveGenerator(rounds)
    PROVE  Generator(rounds) \in Units /\ IsOrder(Generator(rounds), E)
  <1> DEFINE g == Generator(rounds)
             h == rounds \div 2
             half == E \div 2
  <1>1. h \in Nat /\ TwoTo[h] = E
    BY DEF WordRounds
  <1>2. h - 1 \in Nat /\ E = 2 * TwoTo[h - 1] /\ half = TwoTo[h - 1] /\ half \in Nat
    <2>1. h # 0
      BY <1>1, TwoToAre, EAssumption
    <2>2. h - 1 \in Nat /\ (h - 1) + 1 = h
      BY <1>1, <2>1
    <2>3. E = 2 * TwoTo[h - 1] /\ TwoTo[h - 1] \in Nat
      BY <1>1, <2>2, TwoToAre
    <2> QED
      BY <2>2, <2>3
  <1>3. epsilon \in Word /\ half \in Word /\ epsilon \in Nat
    <2>1. W >= 2 * E /\ E >= 2
      BY Sizes
    <2> QED
      BY <1>2, <2>1, EAssumption, Sizes DEF Word
  <1>4. 7 \in Units /\ 7 \in Elt
    BY DEF PrimitiveGenerator, Units
  <1>5. g = Powers(7)[epsilon]
    BY <1>3, <1>4, PowWord DEF Generator
  <1> HIDE DEF h, half
  <1>6. g \in Units /\ g \in Elt
    BY <1>3, <1>4, <1>5, UnitPowers DEF Units
  <1>7. Powers(g)[half] # 1
    BY <1>3, <1>6, PowWord DEF PrimitiveGenerator, GenOrder, half
  <1>8. Powers(g)[E] = 1
    <2>1. Powers(Powers(7)[epsilon])[E] = Powers(7)[epsilon * E]
      BY <1>3, <1>4, PowersMul, EAssumption
    <2>2. epsilon * E = Modulus - 1
      BY EAssumption DEF epsilon, Modulus, W
    <2> QED
      BY <1>4, <1>5, <2>1, <2>2, Fermat
  <1> HIDE DEF g
  <1>9. PICK d : IsOrder(g, d)
    BY <1>6, OrderExists
  <1>10. d \in Nat /\ d > 0 /\ E % d = 0 /\ half % d # 0
    BY <1>2, <1>6, <1>7, <1>8, <1>9, OrderMultiples, EAssumption DEF IsOrder
  <1> DEFINE q == E \div d
  <1>11. q \in Int /\ E = d * q
    <2>1. E = d * q + (E % d) /\ q \in Int
      BY <1>10, DivMod, EAssumption
    <2> QED
      BY <1>10, <2>1
  <1> HIDE DEF q
  <1>12. q \in Nat
    <2>1. ASSUME q =< -1 PROVE FALSE
      <3>1. d * q =< -d
        BY <1>10, <1>11, <2>1
      <3> QED
        BY <1>10, <1>11, <3>1, EAssumption
    <2> QED
      BY <1>11, <2>1
  <1>13. q % 2 = 1
    <2> SUFFICES ASSUME q % 2 # 1 PROVE FALSE
      OBVIOUS
    <2> DEFINE k == q \div 2
    <2>1. k \in Nat /\ q = 2 * k
      BY <1>12
    <2> HIDE DEF k
    <2>2. 2 * half = 2 * (d * k) /\ d * k \in Nat
      BY <1>2, <1>10, <1>11, <2>1
    <2>3. half = d * k + 0
      BY <1>2, <2>2
    <2>4. 0 \in 0..(d - 1) /\ half \in Int /\ k \in Int
      BY <1>2, <1>10, <2>1
    <2>5. half % d = 0
      BY <1>10, <2>3, <2>4, ModUnique
    <2> QED
      BY <1>10, <2>5
  <1>14. q = 1
    BY <1>1, <1>10, <1>11, <1>12, <1>13, OddDivisor
  <1>15. E = d
    BY <1>10, <1>11, <1>14
  <1> QED
    BY <1>6, <1>9, <1>15 DEF g

\* A root of unity is the power of the generator that it is meant to be, and its
\* order is exactly n.
LEMMA RootIs ==
    ASSUME PrimeModulus, NEW rounds, WordRounds(rounds), PrimitiveGenerator(rounds),
           NEW k \in 0..(rounds \div 2)
    PROVE  /\ NthRoot(TwoTo[k], rounds) \in Units
           /\ \A x \in Nat : Powers(NthRoot(TwoTo[k], rounds))[x] = 1 <=> x % TwoTo[k] = 0
  <1> DEFINE g == Generator(rounds)
             h == rounds \div 2
             n == TwoTo[k]
             m == TwoTo[h - k]
             r == NthRoot(n, rounds)
  <1>1. h \in Nat /\ TwoTo[h] = E /\ k \in Nat /\ h - k \in Nat /\ k + (h - k) = h
    BY DEF WordRounds
  <1>2. n \in Nat /\ n > 0 /\ m \in Nat /\ m > 0
    BY <1>1, TwoToPositive
  <1>3. E = n * m
    BY <1>1, TwoToAdd
  <1>4. g \in Units /\ g \in Elt /\ IsOrder(g, E)
    BY GeneratorOrder DEF Units
  <1> HIDE DEF h, n, m, g
  <1>5. E \div n = m
    <2>1. E = n * (E \div n) + (E % n) /\ E \div n \in Int /\ E % n \in 0..(n - 1)
      BY <1>2, DivMod, EAssumption
    <2>2. E % n = 0
      BY <1>2, <1>3, ModUnique, EAssumption
    <2> DEFINE q == E \div n
    <2>3. q \in Int /\ n * q = n * m
      BY <1>2, <1>3, <2>1, <2>2
    <2> HIDE DEF q
    <2>4. n * (q - m) = 0
      BY <1>2, <2>3
    <2>5. q = m
      BY <1>2, <2>3, <2>4
    <2> QED
      BY <2>5 DEF q
  <1>6. m \in Word
    <2>1. m =< n * m
      BY <1>2
    <2> QED
      BY <1>2, <1>3, <2>1, Sizes DEF Word
  <1>7. r = Powers(g)[m]
    BY <1>4, <1>5, <1>6, PowWord DEF NthRoot, GenOrder, g
  <1>8. r \in Units
    BY <1>2, <1>4, <1>7, UnitPowers
  <1>9. ASSUME NEW x \in Nat
        PROVE  Powers(r)[x] = 1 <=> x % n = 0
    <2>1. Powers(r)[x] = Powers(g)[m * x] /\ m * x \in Nat
      BY <1>2, <1>4, <1>7, PowersMul
    <2>2. Powers(r)[x] = 1 <=> (m * x) % E = 0
      BY <1>4, <2>1, OrderMultiples
    <2> DEFINE q == x \div n
               s == x % n
    <2>3. q \in Int /\ s \in 0..(n - 1) /\ x = n * q + s
      BY <1>2, DivMod
    <2> HIDE DEF q, s
    <2>4. m * x = E * q + m * s
      BY <1>2, <1>3, <2>3
    <2>5. m * s \in 0..(E - 1)
      <3>1. m * s =< m * (n - 1) /\ m * s \in Nat
        BY <1>2, <2>3
      <3>2. m * (n - 1) = E - m
        BY <1>2, <1>3
      <3> QED
        BY <1>2, <3>1, <3>2, EAssumption
    <2>6. (m * x) % E = m * s
      <3>1. E \in Nat /\ E > 0 /\ m * x \in Int
        BY <2>1, EAssumption
      <3> QED
        BY <2>3, <2>4, <2>5, <3>1, ModUnique, Zenon
    <2>7. m * s = 0 <=> s = 0
      BY <1>2, <2>3
    <2> QED
      BY <2>2, <2>6, <2>7 DEF s
  <1> QED
    BY <1>8, <1>9 DEF n

-----------------------------------------------------------------------------
(* Congruence modulo p: the elements' operations as integer polynomials.    *)

Cong(x, y) == \E k \in Int : x = y + Modulus * k

\* Congruence modulo the modulus is reflexive,
LEMMA CongRefl ==
    ASSUME NEW x \in Int
    PROVE  Cong(x, x)
  <1>1. x = x + Modulus * 0
    BY Sizes
  <1> QED
    BY <1>1 DEF Cong

\* symmetric
LEMMA CongSym ==
    ASSUME NEW x \in Int, NEW y \in Int, Cong(x, y)
    PROVE  Cong(y, x)
  <1>1. PICK k \in Int : x = y + Modulus * k
    BY DEF Cong
  <1>2. y = x + Modulus * (-k) /\ -k \in Int
    BY <1>1, Sizes
  <1> QED
    BY <1>2 DEF Cong

\* and transitive.
LEMMA CongTrans ==
    ASSUME NEW x \in Int, NEW y \in Int, NEW z \in Int, Cong(x, y), Cong(y, z)
    PROVE  Cong(x, z)
  <1>1. PICK k \in Int : x = y + Modulus * k
    BY DEF Cong
  <1>2. PICK l \in Int : y = z + Modulus * l
    BY DEF Cong
  <1>3. x = z + Modulus * (k + l) /\ k + l \in Int
    BY <1>1, <1>2, Sizes
  <1> QED
    BY <1>3 DEF Cong

\* Sums, differences and products of congruent numbers are congruent.
LEMMA CongOps ==
    ASSUME NEW x \in Int, NEW y \in Int, NEW u \in Int, NEW v \in Int,
           Cong(x, u), Cong(y, v)
    PROVE  Cong(x + y, u + v) /\ Cong(x - y, u - v) /\ Cong(x * y, u * v) /\ Cong(-x, -u)
  <1>1. PICK k \in Int : x = u + Modulus * k
    BY DEF Cong
  <1>2. PICK l \in Int : y = v + Modulus * l
    BY DEF Cong
  <1>3. Modulus \in Int
    BY Sizes
  <1>4. x + y = (u + v) + Modulus * (k + l) /\ k + l \in Int
    BY <1>1, <1>2, <1>3
  <1>5. x - y = (u - v) + Modulus * (k - l) /\ k - l \in Int
    BY <1>1, <1>2, <1>3
  <1>6. /\ x * y = u * v + Modulus * (k * v + u * l + Modulus * (k * l))
        /\ k * v + u * l + Modulus * (k * l) \in Int
    BY <1>1, <1>2, <1>3
  <1>7. -x = (-u) + Modulus * (-k) /\ -k \in Int
    BY <1>1, <1>3
  <1> QED
    BY <1>4, <1>5, <1>6, <1>7 DEF Cong

\* Congruent elements are equal.
LEMMA CongElt ==
    ASSUME NEW a \in Elt, NEW b \in Elt, Cong(a, b)
    PROVE  a = b
  BY EltUnique DEF Cong

\* The code's operations on elements follow those on integers.
LEMMA EltOps ==
    ASSUME NEW a \in Elt, NEW b \in Elt, NEW x \in Int, NEW y \in Int,
           Cong(a, x), Cong(b, y)
    PROVE  /\ Add(a, b) \in Elt /\ Cong(Add(a, b), x + y)
           /\ Sub(a, b) \in Elt /\ Cong(Sub(a, b), x - y)
           /\ Mul(a, b) \in Elt /\ Cong(Mul(a, b), x * y)
  <1>1. a \in Int /\ b \in Int
    BY Sizes DEF Elt
  <1>2. Add(a, b) \in Elt /\ Sub(a, b) \in Elt /\ Mul(a, b) \in Elt
    BY RingTypes
  <1>3. Add(a, b) \in Int /\ Sub(a, b) \in Int /\ Mul(a, b) \in Int
    BY <1>2, Sizes DEF Elt
  <1>4. Cong(Add(a, b), a + b) /\ Cong(Sub(a, b), a - b) /\ Cong(Mul(a, b), a * b)
    BY OpsAre DEF Cong
  <1>5. Cong(a + b, x + y) /\ Cong(a - b, x - y) /\ Cong(a * b, x * y)
    BY <1>1, CongOps
  <1> DEFINE p == a * b
             q == x * y
  <1>6. p \in Int /\ q \in Int /\ a + b \in Int /\ x + y \in Int /\ a - b \in Int /\ x - y \in Int
    BY <1>1
  <1>7. Cong(Add(a, b), x + y) /\ Cong(Sub(a, b), x - y)
    BY <1>3, <1>4, <1>5, <1>6, CongTrans
  <1>8. Cong(Mul(a, b), p) /\ Cong(p, q)
    BY <1>4, <1>5
  <1> HIDE DEF p, q
  <1>9. Cong(Mul(a, b), q)
    BY <1>3, <1>6, <1>8, CongTrans
  <1> QED
    BY <1>2, <1>7, <1>9 DEF q

\* Neg of an element is the element congruent to its opposite.
LEMMA EltNeg ==
    ASSUME NEW a \in Elt, NEW x \in Int, Cong(a, x)
    PROVE  Neg(a) \in Elt /\ Cong(Neg(a), -x)
  <1>1. 0 \in Elt /\ Cong(0, 0) /\ 0 - x = -x
    BY Constants, CongRefl
  <1>2. Sub(0, a) \in Elt /\ Cong(Sub(0, a), 0 - x)
    BY <1>1, EltOps
  <1> QED
    BY <1>1, <1>2 DEF Neg

\* A unit cancels.
LEMMA CongCancel ==
    ASSUME PrimeModulus, NEW a \in Elt, NEW i \in Elt, Mul(a, i) = 1,
           NEW x \in Int, NEW y \in Int, Cong(a * x, a * y)
    PROVE  Cong(x, y)
  <1>1. a \in Int /\ i \in Int /\ Modulus \in Int
    BY Sizes DEF Elt
  <1>2. PICK k \in Int : 1 = a * i + Modulus * k
    BY OpsAre
  <1>3. PICK l \in Int : a * x = a * y + Modulus * l
    BY DEF Cong
  <1>4. x = (a * x) * i + Modulus * (k * x)
    <2>1. x = (a * i + Modulus * k) * x
      BY <1>1, <1>2
    <2> QED
      BY <1>1, <2>1
  <1>5. y = (a * y) * i + Modulus * (k * y)
    <2>1. y = (a * i + Modulus * k) * y
      BY <1>1, <1>2
    <2> QED
      BY <1>1, <2>1
  <1> DEFINE m == a * x
             n == a * y
  <1>6. m \in Int /\ n \in Int /\ m = n + Modulus * l
    BY <1>1, <1>3
  <1>7. x = m * i + Modulus * (k * x) /\ y = n * i + Modulus * (k * y)
    BY <1>4, <1>5
  <1> HIDE DEF m, n
  <1>8. m * i = n * i + Modulus * (l * i)
    BY <1>1, <1>6
  <1>9. /\ x = y + Modulus * (l * i + k * x - k * y)
        /\ l * i + k * x - k * y \in Int
    BY <1>1, <1>6, <1>7, <1>8
  <1> QED
    BY <1>9 DEF Cong
=============================================================================
