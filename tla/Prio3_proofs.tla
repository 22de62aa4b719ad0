---------------------------- MODULE Prio3_proofs ----------------------------
(***************************************************************************)
(* Prio3Count, proved for every width of the word, every expansion of      *)
(* seeds, any Clients and any number of reports.                           *)
(*                                                                         *)
(* What the Collector gets is the sum of the accepted measurements: the    *)
(* two shares of the report at hand add up to its measurement from the     *)
(* split until it is decided.                                              *)
(*                                                                         *)
(* An honest report is accepted, an invalid measurement is accepted at two *)
(* test points at most, and verifiers do not tell 0 from 1.  For these the *)
(* code's loops are unrolled for this circuit, and what they compute is    *)
(* followed as integers modulo p: a wire is the line through its seed and  *)
(* the measurement, the gadget polynomial the parabola through its first   *)
(* three values.  Both are linear in the shares, so the sum of the         *)
(* verifier shares is the verifier of the whole, and the verdict compares  *)
(* the product of two lines with a parabola.                               *)
(***************************************************************************)
EXTENDS Prio3, FieldRegister_proofs

\* The report at hand is shared.
Shared ==
    /\ secret.meas \in Elt /\ leader.meas \in Elt /\ helper.meas \in Elt
    /\ Add(leader.meas, helper.meas) = secret.meas

SumInv ==
    /\ total \in Nat
    /\ agg \in [Aggregators -> Elt]
    /\ AggregateExact
    /\ phase # "idle" => Shared

-----------------------------------------------------------------------------
(* Arithmetic.                                                              *)

\* Two elements differ from their sum by a multiple of the modulus.
LEMMA AddOff ==
    ASSUME NEW x \in Elt, NEW y \in Elt
    PROVE  Add(x, y) \in Elt /\ \E k \in Int : x + y = Modulus * k + Add(x, y)
  <1>1. x + y \in Int /\ Modulus \in Nat /\ Modulus > 0
    BY Sizes DEF Elt
  <1>2. /\ (x + y) \div Modulus \in Int
        /\ x + y = Modulus * ((x + y) \div Modulus) + ((x + y) % Modulus)
    BY <1>1, DivMod
  <1>3. Add(x, y) \in Elt /\ Add(x, y) = (x + y) % Modulus
    BY AddExact
  <1> QED
    BY <1>2, <1>3

\* The Leader's share is what the Helper's leaves of the measurement.
LEMMA SplitSums ==
    ASSUME NEW m \in Elt, NEW s \in Elt
    PROVE  Sub(m, s) \in Elt /\ Add(Sub(m, s), s) = m
  <1> DEFINE t == Sub(m, s)
  <1>1. m - s \in Int /\ Modulus \in Nat /\ Modulus > 0 /\ m \in 0..Modulus - 1 /\ s \in Int
    BY Sizes DEF Elt
  <1>2. t \in Elt /\ t = (m - s) % Modulus
    BY SubExact
  <1>3. PICK k \in Int : m - s = Modulus * k + t
    <2>1. /\ (m - s) \div Modulus \in Int
          /\ m - s = Modulus * ((m - s) \div Modulus) + ((m - s) % Modulus)
      BY <1>1, DivMod
    <2> QED
      BY <1>2, <2>1
  <1> HIDE DEF t
  <1>4. t + s = Modulus * (-k) + m
    <2>1. t \in Int /\ Modulus * k \in Int /\ Modulus * (-k) = -(Modulus * k)
      BY <1>1, <1>2 DEF Elt
    <2> QED
      BY <1>1, <1>3, <2>1
  <1>5. t + s \in Int /\ -k \in Int
    BY <1>1, <1>2 DEF Elt
  <1>6. (t + s) % Modulus = m
    BY <1>1, <1>4, <1>5, ModUnique
  <1>7. Add(t, s) = m
    BY <1>2, <1>6, AddExact
  <1> QED
    BY <1>2, <1>7 DEF t

\* Adding shares to both aggregate shares adds what is shared to the total.
LEMMA SumsAdd ==
    ASSUME NEW a \in Elt, NEW b \in Elt, NEW x \in Elt, NEW y \in Elt, NEW T \in Nat,
           Add(a, b) = T % Modulus
    PROVE  Add(Add(a, x), Add(b, y)) = (T + Add(x, y)) % Modulus
  <1> DEFINE p == Modulus
             u == Add(a, x)
             v == Add(b, y)
             w == Add(x, y)
             z == Add(a, b)
             r == Add(u, v)
  <1>1. p \in Nat /\ p > 0
    BY Sizes
  <1>2. PICK k1 \in Int : a + x = p * k1 + u
    BY AddOff
  <1>3. PICK k2 \in Int : b + y = p * k2 + v
    BY AddOff
  <1>4. PICK k3 \in Int : x + y = p * k3 + w
    BY AddOff
  <1>5. PICK k4 \in Int : a + b = p * k4 + z
    BY AddOff
  <1>6. u \in Elt /\ v \in Elt /\ w \in Elt /\ z \in Elt
    BY AddOff
  <1>7. r \in Elt /\ \E k \in Int : u + v = p * k + r
    <2> HIDE DEF u, v
    <2> QED
      BY <1>6, AddOff
  <1>8. PICK k5 \in Int : u + v = p * k5 + r
    BY <1>7
  <1>9. PICK k6 \in Int : T = p * k6 + z
    <2>1. T \div p \in Int /\ T = p * (T \div p) + (T % p)
      BY <1>1, DivMod
    <2> QED
      BY <2>1
  <1> HIDE DEF u, v, w, z, r, p
  <1>10. /\ a \in Int /\ b \in Int /\ x \in Int /\ y \in Int /\ u \in Int /\ v \in Int
         /\ w \in Int /\ z \in Int /\ r \in Int /\ r \in 0..p - 1
    BY <1>6, <1>7, Sizes DEF Elt, p
  <1> DEFINE k == k6 - k4 - k3 + k1 + k2 + k5
  <1>11. k \in Int /\ T + w = p * k + r
    <2>1. /\ p * k1 \in Int /\ p * k2 \in Int /\ p * k3 \in Int /\ p * k4 \in Int
          /\ p * k5 \in Int /\ p * k6 \in Int
          /\ p * k = p * k6 - p * k4 - p * k3 + p * k1 + p * k2 + p * k5
      BY <1>1
    <2>2. T + w = p * k6 - p * k4 - p * k3 + p * k1 + p * k2 + p * k5 + r
      BY <1>2, <1>3, <1>4, <1>5, <1>8, <1>9, <1>10, <2>1
    <2> QED
      BY <2>1, <2>2
  <1> HIDE DEF k
  <1>12. (T + w) % p = r
    <2>1. T + w \in Int
      BY <1>10
    <2> QED
      BY <1>1, <1>10, <1>11, <2>1, ModUnique
  <1> QED
    BY <1>12 DEF p, r, u, v, w

-----------------------------------------------------------------------------
(* One lemma per action that shares or sums.                                *)

\* The shares a Client splits its measurement into add up to it.
LEMMA SplitShares ==
    ASSUME NEW m \in Elt, NEW proof, NEW ms \in MeasShares, NEW ps,
           Split(m, proof, ms, ps), secret'.meas = m
    PROVE  Shared'
  <1>1. ms \in Elt
    BY ShareAssumption
  <1>2. Sub(m, ms) \in Elt /\ Add(Sub(m, ms), ms) = m
    BY <1>1, SplitSums
  <1>3. helper'.meas = ms /\ leader'.meas = Sub(m, ms)
    BY DEF Split
  <1> QED
    BY <1>1, <1>2, <1>3 DEF Shared

\* An honest Client encodes 0 or 1.
LEMMA NewBit ==
    ASSUME NEW m, Encodes(m)
    PROVE  m \in Elt /\ New(m) = m
  BY Sizes DEF Encodes, Elt, New, Canonical

\* An accepted report's shares are added into the sums.
LEMMA VerdictSums ==
    ASSUME SumInv, VerifierSharesToMessage
    PROVE  SumInv'
  <1>1. phase # "idle" /\ Shared /\ Shared'
    BY DEF VerifierSharesToMessage, SumInv, Shared
  <1>2. CASE UNCHANGED <<agg, total>>
    BY <1>1, <1>2 DEF SumInv, AggregateExact
  <1>3. CASE /\ agg' = [a \in Aggregators |-> AggregateUpdate(agg[a], ShareOf(a).meas)]
             /\ total' = total + secret.meas
    <2> DEFINE a == agg["leader"]
               b == agg["helper"]
               x == leader.meas
               y == helper.meas
    <2>1. /\ a \in Elt /\ b \in Elt /\ x \in Elt /\ y \in Elt /\ total \in Nat
          /\ secret.meas \in Nat /\ Add(x, y) = secret.meas /\ Add(a, b) = total % Modulus
      BY <1>1 DEF SumInv, Shared, AggregateExact, Unshard, Aggregators, Elt
    <2>2. /\ agg' = [c \in Aggregators |-> IF c = "leader" THEN Add(a, x) ELSE Add(b, y)]
      BY <1>3 DEF Aggregators, AggregateUpdate, ShareOf
    <2> HIDE DEF a, b, x, y
    <2>3. Add(a, x) \in Elt /\ Add(b, y) \in Elt
      BY <2>1, AddExact
    <2>4. Add(Add(a, x), Add(b, y)) = total' % Modulus
      BY <1>3, <2>1, SumsAdd
    <2>5. agg' \in [Aggregators -> Elt] /\ agg'["leader"] = Add(a, x) /\ agg'["helper"] = Add(b, y)
      BY <2>2, <2>3 DEF Aggregators
    <2>6. total' \in Nat
      BY <1>3, <2>1
    <2> QED
      BY <1>1, <2>4, <2>5, <2>6 DEF SumInv, AggregateExact, Unshard
  <1> QED
    BY <1>2, <1>3 DEF VerifierSharesToMessage

\* Every step keeps the sums and the sharing.
LEMMA SumNext ==
    ASSUME SumInv, [Next]_vars
    PROVE  SumInv'
  <1> DEFINE Sums == UNCHANGED <<agg, total>>
  <1>1. ASSUME Sums, phase' # "idle" => Shared'
        PROVE  SumInv'
    BY <1>1 DEF SumInv, AggregateExact
  <1>2. ASSUME NEW m \in Elt, NEW r \in ProveRands, NEW ms \in MeasShares, NEW ps \in ProofShares,
               Shard(m, r, ms, ps)
        PROVE  SumInv'
    <2>1. m \in Elt /\ New(m) = m
      BY <1>2, NewBit DEF Shard
    <2>2. Split(m, Prove(m, r), ms, ps) /\ secret'.meas = m /\ Sums
      BY <1>2, <2>1 DEF Shard
    <2> QED
      BY <1>1, <2>1, <2>2, SplitShares
  <1>3. ASSUME NEW f \in Forgeries, NEW ms \in MeasShares, NEW ps \in ProofShares, Forge(f, ms, ps)
        PROVE  SumInv'
    <2>1. f.meas \in Elt /\ Split(f.meas, f.proof, ms, ps) /\ secret'.meas = f.meas /\ Sums
      BY <1>3, ShareAssumption DEF Forge
    <2> QED
      BY <1>1, <2>1, SplitShares
  <1>4. ASSUME NEW t \in Elt, DerivePoint(t)
        PROVE  SumInv'
    BY <1>1, <1>4 DEF DerivePoint, SumInv, Shared
  <1>5. ASSUME NEW a \in Aggregators, VerifyInit(a)
        PROVE  SumInv'
    <2>1. Sums /\ Shared /\ (phase' = "idle" \/ UNCHANGED <<secret, leader, helper>>)
      BY <1>5 DEF VerifyInit, SumInv
    <2> QED
      BY <1>1, <2>1 DEF Shared
  <1>6. CASE NextReport
    BY <1>1, <1>6 DEF NextReport
  <1>7. CASE UNCHANGED vars
    BY <1>1, <1>7 DEF vars, SumInv, Shared
  <1> QED
    BY <1>2, <1>3, <1>4, <1>5, <1>6, <1>7, VerdictSums DEF Next

-----------------------------------------------------------------------------
(* The elements a computation yields, as integers modulo p.                 *)

\* The element a stands for the integer x.
Rep(a, x) == a \in Elt /\ x \in Int /\ Cong(a, x)

\* An element stands for itself.
LEMMA RepElt ==
    ASSUME NEW a \in Elt
    PROVE  a \in Int /\ Rep(a, a)
  <1>1. a \in Int
    BY Sizes DEF Elt
  <1> QED
    BY <1>1, CongRefl DEF Rep

\* What the code's operations yield stands for what they are meant to compute.
LEMMA RepOps ==
    ASSUME NEW a, NEW x, NEW b, NEW y, Rep(a, x), Rep(b, y)
    PROVE  Rep(Add(a, b), x + y) /\ Rep(Sub(a, b), x - y) /\ Rep(Mul(a, b), x * y)
  <1>1. a \in Elt /\ b \in Elt /\ x \in Int /\ y \in Int /\ Cong(a, x) /\ Cong(b, y)
    BY DEF Rep
  <1>2. x + y \in Int /\ x - y \in Int /\ x * y \in Int
    BY <1>1
  <1> QED
    BY <1>1, <1>2, EltOps DEF Rep

\* So does the negation.
LEMMA RepNeg ==
    ASSUME NEW a, NEW x, Rep(a, x)
    PROVE  Rep(Neg(a), -x)
  <1>1. a \in Elt /\ x \in Int /\ Cong(a, x)
    BY DEF Rep
  <1>2. -x \in Int
    BY <1>1
  <1> QED
    BY <1>1, <1>2, EltNeg DEF Rep

\* Congruent integers have the same element.
LEMMA RepCong ==
    ASSUME NEW a, NEW x, NEW y \in Int, Rep(a, x), Cong(x, y)
    PROVE  Rep(a, y)
  <1>1. a \in Elt /\ a \in Int /\ x \in Int /\ Cong(a, x)
    BY Sizes DEF Rep, Elt
  <1> QED
    BY <1>1, CongTrans DEF Rep

\* Two elements are equal when what they stand for is congruent.
LEMMA RepEqual ==
    ASSUME NEW a, NEW b, NEW x, Rep(a, x), NEW y, Rep(b, y)
    PROVE  a = b <=> Cong(x, y)
  <1>1. /\ a \in Elt /\ b \in Elt /\ a \in Int /\ b \in Int /\ x \in Int /\ y \in Int
        /\ Cong(a, x) /\ Cong(b, y)
    BY Sizes DEF Rep, Elt
  <1>2. Cong(x, a) /\ Cong(y, b)
    BY <1>1, CongSym
  <1>3. ASSUME a = b PROVE Cong(x, y)
    BY <1>1, <1>2, <1>3, CongTrans
  <1>4. ASSUME Cong(x, y) PROVE a = b
    <2>1. Cong(a, y)
      BY <1>1, <1>4, CongTrans
    <2>2. Cong(a, b)
      BY <1>1, <1>2, <2>1, CongTrans
    <2> QED
      BY <1>1, <2>2, CongElt
  <1> QED
    BY <1>3, <1>4

\* The integers an element stands for are congruent.
LEMMA RepSame ==
    ASSUME NEW a, NEW x, NEW y, Rep(a, x), Rep(a, y)
    PROVE  Cong(x, y)
  BY RepEqual

\* A multiple of what is congruent to zero may be added.
LEMMA CongBy ==
    ASSUME NEW x \in Int, NEW y \in Int, NEW r \in Int, NEW z \in Int, NEW c \in Int,
           Cong(r, z), x = y + (r - z) * c
    PROVE  Cong(x, y)
  <1>1. PICK k \in Int : r = z + Modulus * k
    BY DEF Cong
  <1>2. r - z = Modulus * k /\ Modulus \in Int
    BY <1>1, Sizes
  <1>3. (Modulus * k) * c = Modulus * (k * c) /\ k * c \in Int
    BY <1>2
  <1>4. x = y + Modulus * (k * c)
    BY <1>2, <1>3
  <1> QED
    BY <1>3, <1>4 DEF Cong

-----------------------------------------------------------------------------
(* The roots of unity and the inverses of this circuit.                     *)

Root2 == NthRoot(2, WordBits)
Root4 == NthRoot(4, WordBits)
Half == Inv(New(2), WordBits)
Quarter == Inv(New(4), WordBits)

\* The word has four bits at least, and small numbers are elements.
LEMMA Widths ==
    /\ WordRounds(WordBits)
    /\ WordBits \div 2 \in Nat /\ WordBits \div 2 >= 2
    /\ E >= 4 /\ Modulus >= 13
    /\ TwoTo[0] = 1 /\ TwoTo[1] = 2 /\ TwoTo[2] = 4
  <1>1. WordRounds(WordBits)
    BY WordBitsAssumption DEF WordRounds
  <1>2. 7 \in Elt
    BY FieldAssumption DEF PrimitiveGenerator
  <1>3. E >= 4
    <2>1. E = 2 \/ E = 3 \/ E >= 4
      BY EAssumption
    <2>2. E # 2
      BY <1>2 DEF Elt, Modulus, W
    <2>3. TwoTo[0] = 1 /\ TwoTo[0 + 1] = 2 * TwoTo[0] /\ TwoTo[1 + 1] = 2 * TwoTo[1]
      BY TwoToAre
    <2>4. E # 3
      <3>1. WordBits \div 2 \in Nat
        BY WordBitsAssumption
      <3>2. CASE WordBits \div 2 = 0
        BY <2>3, <3>2, WordBitsAssumption
      <3>3. CASE WordBits \div 2 # 0
        <4>1. (WordBits \div 2) - 1 \in Nat /\ ((WordBits \div 2) - 1) + 1 = WordBits \div 2
          BY <3>1, <3>3
        <4>2. E = 2 * TwoTo[(WordBits \div 2) - 1] /\ TwoTo[(WordBits \div 2) - 1] \in Nat
          BY <4>1, TwoToAre, WordBitsAssumption
        <4> QED
          BY <4>2
      <3> QED
        BY <3>2, <3>3
    <2> QED
      BY <2>1, <2>2, <2>4
  <1>4. E * E >= 4 * E
    BY <1>3, EAssumption
  <1>5. Modulus >= 13
    BY <1>3, <1>4, EAssumption DEF Modulus, W
  <1>6. TwoTo[0] = 1 /\ TwoTo[1] = 2 /\ TwoTo[2] = 4
    <2>1. TwoTo[0] = 1 /\ TwoTo[0 + 1] = 2 * TwoTo[0] /\ TwoTo[1 + 1] = 2 * TwoTo[1]
      BY TwoToAre
    <2> QED
      BY <2>1
  <1>7. WordBits \div 2 \in Nat /\ WordBits \div 2 >= 2
    <2>1. WordBits \div 2 \in Nat
      BY WordBitsAssumption
    <2>2. TwoTo[WordBits \div 2] = E
      BY WordBitsAssumption
    <2> QED
      BY <1>3, <1>6, <2>1, <2>2
  <1> QED
    BY <1>1, <1>3, <1>5, <1>6, <1>7

\* A square root of one other than one stands for minus one.
LEMMA MinusOne ==
    ASSUME NEW a \in Elt, Mul(a, a) = 1, a # 1
    PROVE  Rep(a, -1)
  <1>1. a \in Int /\ Rep(a, a) /\ Rep(1, 1)
    BY RepElt, Constants
  <1>2. Rep(Sub(a, 1), a - 1) /\ Rep(Add(a, 1), a + 1)
    BY <1>1, RepOps
  <1>3. Sub(a, 1) # 0
    <2>1. Add(Sub(a, 1), 1) = a
      BY Constants, SubUndoes
    <2>2. Add(0, 1) = 1
      BY Constants, AddUnit, AddComm
    <2> QED
      BY <2>1, <2>2
  <1>4. Mul(Sub(a, 1), Add(a, 1)) = 0
    <2>1. Rep(Mul(Sub(a, 1), Add(a, 1)), (a - 1) * (a + 1))
      BY <1>2, RepOps
    <2>2. Rep(1, a * a)
      BY <1>1, RepOps
    <2>3. Cong(1, a * a) /\ a * a \in Int
      BY <2>2 DEF Rep
    <2>4. Cong((a - 1) * (a + 1), 0)
      <3>1. (a - 1) * (a + 1) = 0 + (1 - a * a) * (-1)
        BY <1>1
      <3>2. (a - 1) * (a + 1) \in Int
        BY <1>1
      <3> QED
        BY <2>3, <3>1, <3>2, CongBy
    <2>5. Rep(0, 0)
      BY RepElt, Constants
    <2> QED
      BY <2>1, <2>4, <2>5, RepEqual
  <1>5. Add(a, 1) = 0
    <2>1. Sub(a, 1) \in Elt /\ Add(a, 1) \in Elt
      BY <1>2 DEF Rep
    <2> QED
      BY <1>3, <1>4, <2>1, UnitsMul, FieldAssumption DEF Units
  <1>6. Cong(a + 1, 0)
    BY <1>2, <1>5, RepElt, Constants, RepEqual
  <1>7. Cong(a, -1)
    <2> DEFINE s == a + 1
    <2>1. s \in Int /\ a = -1 + (s - 0) * 1 /\ Cong(s, 0)
      BY <1>1, <1>6
    <2>2. -1 \in Int /\ 0 \in Int /\ 1 \in Int
      OBVIOUS
    <2> HIDE DEF s
    <2> QED
      BY <1>1, <2>1, <2>2, CongBy, Zenon
  <1> QED
    BY <1>7 DEF Rep

\* The root of order two is minus one; the square of the root of order four is.
LEMMA RootsOfUnity ==
    /\ Root2 \in Elt /\ Mul(Root2, Root2) = 1 /\ Rep(Root2, -1)
    /\ Root4 \in Units /\ Root4 \in Elt /\ Rep(Root4, Root4) /\ Rep(Mul(Root4, Root4), -1)
    /\ Cong(Root4 * Root4, -1)
  <1>1. /\ Root2 \in Units
        /\ \A x \in Nat : Powers(Root2)[x] = 1 <=> x % 2 = 0
    <2>1. 1 \in 0..(WordBits \div 2)
      BY Widths
    <2>2. /\ NthRoot(TwoTo[1], WordBits) \in Units
          /\ \A x \in Nat : Powers(NthRoot(TwoTo[1], WordBits))[x] = 1 <=> x % TwoTo[1] = 0
      BY <2>1, Widths, RootIs, FieldAssumption
    <2> QED
      BY <2>2, Widths DEF Root2
  <1>2. /\ Root4 \in Units
        /\ \A x \in Nat : Powers(Root4)[x] = 1 <=> x % 4 = 0
    <2>1. 2 \in 0..(WordBits \div 2)
      BY Widths
    <2>2. /\ NthRoot(TwoTo[2], WordBits) \in Units
          /\ \A x \in Nat : Powers(NthRoot(TwoTo[2], WordBits))[x] = 1 <=> x % TwoTo[2] = 0
      BY <2>1, Widths, RootIs, FieldAssumption
    <2> QED
      BY <2>2, Widths DEF Root4
  <1>3. Root2 \in Elt /\ Root4 \in Elt
    BY <1>1, <1>2 DEF Units
  <1>4. 1 \in Nat /\ 2 \in Nat /\ 4 \in Nat /\ 1 % 2 = 1 /\ 2 % 2 = 0 /\ 2 % 4 = 2 /\ 4 % 4 = 0
    OBVIOUS
  <1>5. Root2 # 1 /\ Mul(Root2, Root2) = 1
    BY <1>1, <1>3, <1>4, SmallPowers
  <1> DEFINE s == Mul(Root4, Root4)
  <1>6. s \in Elt /\ s = Powers(Root4)[2]
    BY <1>3, RingTypes, SmallPowers
  <1>7. s # 1
    BY <1>2, <1>4, <1>6
  <1>8. Mul(s, s) = 1
    <2>1. Powers(Root4)[2 + 2] = Mul(Powers(Root4)[2], Powers(Root4)[2])
      BY <1>3, PowersAdd
    <2>2. Powers(Root4)[2 + 2] = 1
      BY <1>2, <1>4
    <2> QED
      BY <1>6, <2>1, <2>2
  <1>9. Rep(Root2, -1) /\ Rep(s, -1)
    <2> HIDE DEF s
    <2> QED
      BY <1>3, <1>5, <1>6, <1>7, <1>8, MinusOne
  <1>10. Root4 \in Int /\ Rep(Root4, Root4)
    BY <1>3, RepElt
  <1>11. Rep(s, Root4 * Root4)
    BY <1>10, RepOps
  <1>12. Cong(Root4 * Root4, -1)
    BY <1>9, <1>11, RepEqual, Zenon
  <1> QED
    BY <1>2, <1>3, <1>5, <1>9, <1>10, <1>12

\* The inverses the code divides by.
LEMMA Divisors ==
    /\ Half \in Elt /\ Half \in Int /\ Rep(Half, Half) /\ Cong(2 * Half, 1)
    /\ Quarter \in Elt /\ Quarter \in Int /\ Rep(Quarter, Quarter) /\ Cong(4 * Quarter, 1)
    /\ Rep(Inv(Root2, WordBits), -1)
  <1>1. 2 \in Units /\ 4 \in Units /\ New(2) = 2 /\ New(4) = 4
    BY Widths, Sizes DEF Units, Elt, New, Canonical
  <1>2. 2 \in Elt /\ 4 \in Elt
    BY <1>1 DEF Units
  <1>3. /\ Half \in Elt /\ Mul(2, Half) = 1
        /\ Quarter \in Elt /\ Mul(4, Quarter) = 1
    BY <1>1, Widths, InvIs, FieldAssumption DEF Half, Quarter
  <1>4. Half \in Int /\ Rep(Half, Half) /\ Quarter \in Int /\ Rep(Quarter, Quarter)
    BY <1>3, RepElt
  <1>5. Rep(2, 2) /\ Rep(4, 4) /\ Rep(1, 1)
    BY <1>2, Constants, RepElt
  <1>6. Cong(2 * Half, 1)
    <2>1. Rep(Mul(2, Half), 2 * Half)
      BY <1>4, <1>5, RepOps, Zenon
    <2>2. Rep(1, 2 * Half)
      BY <1>3, <2>1
    <2> QED
      BY <1>5, <2>2, RepSame, Zenon
  <1>7. Cong(4 * Quarter, 1)
    <2>1. Rep(Mul(4, Quarter), 4 * Quarter)
      BY <1>4, <1>5, RepOps, Zenon
    <2>2. Rep(1, 4 * Quarter)
      BY <1>3, <2>1
    <2> QED
      BY <1>5, <2>2, RepSame, Zenon
  <1>8. Rep(Inv(Root2, WordBits), -1)
    <2>1. Root2 \in Units
      <3>1. Root2 # 0
        BY RootsOfUnity, MulUnit, Constants
      <3> QED
        BY <3>1, RootsOfUnity DEF Units
    <2>2. Inv(Root2, WordBits) \in Elt /\ Mul(Root2, Inv(Root2, WordBits)) = Mul(Root2, Root2)
      BY <2>1, Widths, InvIs, FieldAssumption, RootsOfUnity
    <2>3. Inv(Root2, WordBits) = Root2
      BY <2>1, <2>2, RootsOfUnity, MulCancels, FieldAssumption
    <2> QED
      BY <2>3, RootsOfUnity
  <1> QED
    BY <1>3, <1>4, <1>6, <1>7, <1>8

\* The nodes of the wire polynomials and of the gadget polynomial.
LEMMA Nodes ==
    /\ nthRootPowers[2] \in [0..1 -> Elt]
    /\ Rep(nthRootPowers[2][0], 1) /\ Rep(nthRootPowers[2][1], -1)
    /\ nthRootPowers[4] \in [0..3 -> Elt]
    /\ Rep(nthRootPowers[4][0], 1) /\ Rep(nthRootPowers[4][1], Root4)
    /\ Rep(nthRootPowers[4][2], -1) /\ Rep(nthRootPowers[4][3], -Root4)
  <1>1. \A i \in 0..3 : i \in Word
    BY Widths, Sizes, EAssumption DEF Word, Modulus
  <1>2. /\ nthRootPowers[2] = [i \in 0..1 |-> Pow(Root2, i, WordBits)]
        /\ nthRootPowers[4] = [i \in 0..3 |-> Pow(Root4, i, WordBits)]
    <2>1. 2 \in {1, 2, 4} /\ 4 \in {1, 2, 4} /\ 2 - 1 = 1 /\ 4 - 1 = 3
      OBVIOUS
    <2> QED
      BY <2>1 DEF nthRootPowers, Root2, Root4
  <1>3. \A a \in Elt, i \in 0..3 : Pow(a, i, WordBits) = Powers(a)[i] /\ Powers(a)[i] \in Elt
    BY <1>1, Widths, PowWord
  <1>4. Root2 \in Elt /\ Root4 \in Elt
    BY RootsOfUnity
  <1>5. \A i \in 0..1 : i \in 0..3 /\ nthRootPowers[2][i] = Powers(Root2)[i]
    BY <1>2, <1>3, <1>4
  <1>6. \A i \in 0..3 : nthRootPowers[4][i] = Powers(Root4)[i]
    BY <1>2, <1>3, <1>4
  <1>7. nthRootPowers[2] \in [0..1 -> Elt] /\ nthRootPowers[4] \in [0..3 -> Elt]
    BY <1>2, <1>3, <1>4
  <1>8. Rep(1, 1)
    BY Constants, RepElt
  <1>9. Rep(nthRootPowers[2][0], 1) /\ Rep(nthRootPowers[2][1], -1)
    <2>1. nthRootPowers[2][0] = 1 /\ nthRootPowers[2][1] = Root2
      BY <1>4, <1>5, SmallPowers
    <2> QED
      BY <1>8, <2>1, RootsOfUnity
  <1>10. /\ nthRootPowers[4][0] = 1 /\ nthRootPowers[4][1] = Root4
         /\ nthRootPowers[4][2] = Mul(Root4, Root4)
         /\ nthRootPowers[4][3] = Mul(Mul(Root4, Root4), Root4)
    <2>1. /\ Powers(Root4)[0] = 1 /\ Powers(Root4)[1] = Root4
          /\ Powers(Root4)[2] = Mul(Root4, Root4)
      BY <1>4, SmallPowers
    <2>2. Powers(Root4)[2 + 1] = Mul(Powers(Root4)[2], Root4)
      BY <1>4, PowersAre DEF IsPowers
    <2>3. 0 \in 0..3 /\ 1 \in 0..3 /\ 2 \in 0..3 /\ 3 \in 0..3 /\ 2 + 1 = 3
      OBVIOUS
    <2> QED
      BY <1>6, <2>1, <2>2, <2>3
  <1>11. Rep(nthRootPowers[4][3], -Root4)
    <2>1. Rep(Mul(Mul(Root4, Root4), Root4), (-1) * Root4)
      BY RootsOfUnity, RepOps
    <2>2. Root4 \in Int
      BY <1>4, RepElt
    <2>3. (-1) * Root4 = -Root4
      BY <2>2
    <2> QED
      BY <1>10, <2>1, <2>3
  <1> QED
    BY <1>7, <1>8, <1>9, <1>10, <1>11, RootsOfUnity

-----------------------------------------------------------------------------
(* The loops over polynomials, unrolled for this circuit.                   *)

\* The lengths of the polynomials.
LEMMA Lengths == wirePolyLen = 2 /\ gadgetPolyLen = 3 /\ polySize = 4 /\ step = 2
  <1>1. /\ TwoTo[0] = 1 /\ TwoTo[1] = 2 /\ TwoTo[2] = 4 /\ TwoTo[3] = 8
    <2>1. TwoTo[2 + 1] = 2 * TwoTo[2]
      BY TwoToAre
    <2> QED
      BY <2>1, Widths
  <1>2. nextPowerOf2(2) = 2
    <2> DEFINE S == {TwoTo[l] : l \in 0..2}
    <2>1. S = {1, 2, 4}
      <3>1. 0..2 = {0, 1, 2}
        OBVIOUS
      <3> QED
        BY <1>1, <3>1
    <2>2. nextPowerOf2(2) = CHOOSE p \in S : p >= 2 /\ (p = 1 \/ p \div 2 < 2)
      BY DEF nextPowerOf2
    <2> HIDE DEF S
    <2>3. \A p \in S : p >= 2 /\ (p = 1 \/ p \div 2 < 2) <=> p = 2
      <3>1. 2 \div 2 = 1 /\ 4 \div 2 = 2
        OBVIOUS
      <3> QED
        BY <2>1, <3>1
    <2> QED
      BY <2>1, <2>2, <2>3
  <1>3. nextPowerOf2(3) = 4
    <2> DEFINE S == {TwoTo[l] : l \in 0..3}
    <2>1. S = {1, 2, 4, 8}
      <3>1. 0..3 = {0, 1, 2, 3}
        OBVIOUS
      <3> QED
        BY <1>1, <3>1
    <2>2. nextPowerOf2(3) = CHOOSE p \in S : p >= 3 /\ (p = 1 \/ p \div 2 < 3)
      BY DEF nextPowerOf2
    <2> HIDE DEF S
    <2>3. \A p \in S : p >= 3 /\ (p = 1 \/ p \div 2 < 3) <=> p = 4
      <3>1. 4 \div 2 = 2 /\ 8 \div 2 = 4
        OBVIOUS
      <3> QED
        BY <2>1, <3>1
    <2> QED
      BY <2>1, <2>2, <2>3
  <1>4. wirePolyLen = 2
    BY <1>2 DEF wirePolyLen, Calls
  <1>5. gadgetPolyLen = 3
    BY <1>4 DEF gadgetPolyLen, Degree
  <1>6. polySize = 4
    BY <1>3, <1>5 DEF polySize
  <1> QED
    BY <1>4, <1>5, <1>6 DEF step

\* Horner's rule for two coefficients.
LEMMA Monomial2 ==
    ASSUME NEW c, NEW x
    PROVE  evalMonomial(c, 2, x) = Add(Mul(Add(Mul(0, x), c[1]), x), c[0])
  <1> DEFINE D(g) == [i \in 0..2 |-> IF i = 0 THEN 0 ELSE Add(Mul(g[i - 1], x), c[2 - i])]
             f == CHOOSE g : g = D(g)
             s1 == Add(Mul(0, x), c[1])
             s2 == Add(Mul(s1, x), c[0])
             G == [i \in 0..2 |-> IF i = 0 THEN 0 ELSE IF i = 1 THEN s1 ELSE s2]
  <1>1. evalMonomial(c, 2, x) = f[2]
    BY DEF evalMonomial
  <1>2. G = D(G)
    <2>1. ASSUME NEW i \in 0..2
          PROVE  G[i] = IF i = 0 THEN 0 ELSE Add(Mul(G[i - 1], x), c[2 - i])
      <3>1. i = 0 \/ i = 1 \/ i = 2
        OBVIOUS
      <3>2. G[0] = 0 /\ G[1] = s1 /\ G[2] = s2 /\ 1 - 1 = 0 /\ 2 - 1 = 1 /\ 2 - 2 = 0
        OBVIOUS
      <3> HIDE DEF G
      <3> QED
        BY <3>1, <3>2
    <2> HIDE DEF G
    <2> QED
      BY <2>1 DEF G
  <1>3. f = D(f)
    BY <1>2
  <1> HIDE DEF f
  <1>4. \A i \in 0..2 : f[i] = D(f)[i]
    BY <1>3
  <1>5. f[0] = 0 /\ f[1] = s1 /\ f[2] = s2
    <2>1. \A i \in 0..2 : f[i] = IF i = 0 THEN 0 ELSE Add(Mul(f[i - 1], x), c[2 - i])
      BY <1>4
    <2>2. 0 \in 0..2 /\ 1 \in 0..2 /\ 2 \in 0..2 /\ 1 - 1 = 0 /\ 2 - 1 = 1 /\ 2 - 2 = 0
      OBVIOUS
    <2>3. f[0] = 0
      BY <2>1, <2>2
    <2>4. f[1] = s1
      BY <2>1, <2>2, <2>3
    <2> HIDE DEF s1
    <2>5. f[2] = s2
      BY <2>1, <2>2, <2>4
    <2> QED
      BY <2>3, <2>4, <2>5
  <1> QED
    BY <1>1, <1>5

\* The evaluation rounds over two nodes.
LEMMA Rounds2 ==
    ASSUME NEW p, NEW nodes, NEW x
    PROVE  Rounds(p, nodes, 2, x) = 
             EvalRound([k |-> 1, d |-> Sub(nodes[0], x), u |-> p[0]], nodes[1], p[1], x).u
  <1> DEFINE D(g) == [i \in 0..(2 - 1) |->
          IF i = 0 THEN [k |-> 1, d |-> Sub(nodes[0], x), u |-> p[0]]
          ELSE EvalRound(g[i - 1], nodes[i], p[i], x)]
             f == CHOOSE g : g = D(g)
             s0 == [k |-> 1, d |-> Sub(nodes[0], x), u |-> p[0]]
             s1 == EvalRound(s0, nodes[1], p[1], x)
             G == [i \in 0..(2 - 1) |-> IF i = 0 THEN s0 ELSE s1]
  <1>1. Rounds(p, nodes, 2, x) = f[2 - 1].u
    BY DEF Rounds
  <1>2. G = D(G)
    <2>1. ASSUME NEW i \in 0..(2 - 1)
          PROVE  G[i] =
                     IF i = 0 THEN [k |-> 1, d |-> Sub(nodes[0], x), u |-> p[0]]
                     ELSE EvalRound(G[i - 1], nodes[i], p[i], x)
      <3>1. i = 0 \/ i = 1
        OBVIOUS
      <3>2. G[0] = s0 /\ G[1] = s1
        OBVIOUS
      <3>3. 1 - 1 = 0
        OBVIOUS
      <3> HIDE DEF G
      <3> QED
        BY <3>1, <3>2, <3>3
    <2> HIDE DEF G
    <2> QED
      BY <2>1 DEF G
  <1>3. f = D(f)
    BY <1>2
  <1> HIDE DEF f
  <1>4. \A i \in 0..(2 - 1) : f[i] = D(f)[i]
    BY <1>3
  <1>5. \A i \in 0..(2 - 1) : f[i] =
          IF i = 0 THEN [k |-> 1, d |-> Sub(nodes[0], x), u |-> p[0]]
          ELSE EvalRound(f[i - 1], nodes[i], p[i], x)
    BY <1>4
  <1>6. 0 \in 0..(2 - 1) /\ 1 \in 0..(2 - 1)
    OBVIOUS
  <1>7. 1 - 1 = 0
    OBVIOUS
  <1>8. f[0] = s0
    BY <1>5, <1>6
  <1> HIDE DEF s0
  <1>9. f[1] = s1
    BY <1>5, <1>6, <1>7, <1>8
  <1> QED
    BY <1>1, <1>9 DEF s0

\* The evaluation rounds over four nodes.
LEMMA Rounds4 ==
    ASSUME NEW p, NEW nodes, NEW x
    PROVE  Rounds(p, nodes, 4, x) = 
             EvalRound(EvalRound(EvalRound([k |-> 1, d |-> Sub(nodes[0], x), u |-> p[0]],
                                           nodes[1], p[1], x),
                                 nodes[2], p[2], x),
                       nodes[3], p[3], x).u
  <1> DEFINE D(g) == [i \in 0..(4 - 1) |->
          IF i = 0 THEN [k |-> 1, d |-> Sub(nodes[0], x), u |-> p[0]]
          ELSE EvalRound(g[i - 1], nodes[i], p[i], x)]
             f == CHOOSE g : g = D(g)
             s0 == [k |-> 1, d |-> Sub(nodes[0], x), u |-> p[0]]
             s1 == EvalRound(s0, nodes[1], p[1], x)
             s2 == EvalRound(s1, nodes[2], p[2], x)
             s3 == EvalRound(s2, nodes[3], p[3], x)
             G == [i \in 0..(4 - 1) |->
                     IF i = 0 THEN s0
                     ELSE IF i = 1 THEN s1
                     ELSE IF i = 2 THEN s2
                     ELSE s3]
  <1>1. Rounds(p, nodes, 4, x) = f[4 - 1].u
    BY DEF Rounds
  <1>2. G = D(G)
    <2>1. ASSUME NEW i \in 0..(4 - 1)
          PROVE  G[i] =
                     IF i = 0 THEN [k |-> 1, d |-> Sub(nodes[0], x), u |-> p[0]]
                     ELSE EvalRound(G[i - 1], nodes[i], p[i], x)
      <3>1. i = 0 \/ i = 1 \/ i = 2 \/ i = 3
        OBVIOUS
      <3>2. G[0] = s0 /\ G[1] = s1 /\ G[2] = s2 /\ G[3] = s3
        OBVIOUS
      <3>3. 1 - 1 = 0 /\ 2 - 1 = 1 /\ 3 - 1 = 2
        OBVIOUS
      <3> HIDE DEF G
      <3> QED
        BY <3>1, <3>2, <3>3
    <2> HIDE DEF G
    <2> QED
      BY <2>1 DEF G
  <1>3. f = D(f)
    BY <1>2
  <1> HIDE DEF f
  <1>4. \A i \in 0..(4 - 1) : f[i] = D(f)[i]
    BY <1>3
  <1>5. \A i \in 0..(4 - 1) : f[i] =
          IF i = 0 THEN [k |-> 1, d |-> Sub(nodes[0], x), u |-> p[0]]
          ELSE EvalRound(f[i - 1], nodes[i], p[i], x)
    BY <1>4
  <1>6. 0 \in 0..(4 - 1) /\ 1 \in 0..(4 - 1) /\ 2 \in 0..(4 - 1) /\ 3 \in 0..(4 - 1)
    OBVIOUS
  <1>7. 1 - 1 = 0 /\ 2 - 1 = 1 /\ 3 - 1 = 2
    OBVIOUS
  <1>8. f[0] = s0
    BY <1>5, <1>6
  <1> HIDE DEF s0
  <1>9. f[1] = s1
    BY <1>5, <1>6, <1>7, <1>8
  <1> HIDE DEF s1
  <1>10. f[2] = s2
    BY <1>5, <1>6, <1>7, <1>9
  <1> HIDE DEF s2
  <1>11. f[3] = s3
    BY <1>5, <1>6, <1>7, <1>10
  <1> QED
    BY <1>1, <1>11 DEF s0, s1, s2

\* One factor of a weight.
Factor(x, i, j, p) == IF j = i THEN p ELSE Mul(p, Sub(x[i], x[j]))

\* The weight of a node among four.
LEMMA Weight3 ==
    ASSUME NEW x, NEW n
    PROVE  Weight(x, 3, n) = Factor(x, n, 3, Factor(x, n, 2, Factor(x, n, 1, Factor(x, n, 0, 1))))
  <1> DEFINE D(g) == [i \in 0..(3 + 1) |-> IF i = 0 THEN 1 ELSE Factor(x, n, i - 1, g[i - 1])]
             f == CHOOSE g : g = D(g)
             s0 == 1
             s1 == Factor(x, n, 1 - 1, s0)
             s2 == Factor(x, n, 2 - 1, s1)
             s3 == Factor(x, n, 3 - 1, s2)
             s4 == Factor(x, n, 4 - 1, s3)
             G == [i \in 0..(3 + 1) |->
                     IF i = 0 THEN s0
                     ELSE IF i = 1 THEN s1
                     ELSE IF i = 2 THEN s2
                     ELSE IF i = 3 THEN s3
                     ELSE s4]
  <1>1. Weight(x, 3, n) = f[3 + 1]
    BY DEF Weight, Factor
  <1>2. G = D(G)
    <2>1. ASSUME NEW i \in 0..(3 + 1)
          PROVE  G[i] = IF i = 0 THEN 1 ELSE Factor(x, n, i - 1, G[i - 1])
      <3>1. i = 0 \/ i = 1 \/ i = 2 \/ i = 3 \/ i = 4
        OBVIOUS
      <3>2. G[0] = s0 /\ G[1] = s1 /\ G[2] = s2 /\ G[3] = s3 /\ G[4] = s4
        OBVIOUS
      <3>3. 1 - 1 = 0 /\ 2 - 1 = 1 /\ 3 - 1 = 2 /\ 4 - 1 = 3
        OBVIOUS
      <3> HIDE DEF G
      <3> QED
        BY <3>1, <3>2, <3>3
    <2> HIDE DEF G
    <2> QED
      BY <2>1 DEF G
  <1>3. f = D(f)
    BY <1>2
  <1> HIDE DEF f
  <1>4. \A i \in 0..(3 + 1) : f[i] = D(f)[i]
    BY <1>3
  <1>5. \A i \in 0..(3 + 1) : f[i] = IF i = 0 THEN 1 ELSE Factor(x, n, i - 1, f[i - 1])
    BY <1>4
  <1>6. /\ 0 \in 0..(3 + 1) /\ 1 \in 0..(3 + 1) /\ 2 \in 0..(3 + 1)
        /\ 3 \in 0..(3 + 1) /\ 4 \in 0..(3 + 1)
    OBVIOUS
  <1>7. 1 - 1 = 0 /\ 2 - 1 = 1 /\ 3 - 1 = 2 /\ 4 - 1 = 3
    OBVIOUS
  <1>8. f[0] = s0
    BY <1>5, <1>6
  <1> HIDE DEF s0
  <1>9. f[1] = s1
    BY <1>5, <1>6, <1>7, <1>8
  <1> HIDE DEF s1
  <1>10. f[2] = s2
    BY <1>5, <1>6, <1>7, <1>9
  <1> HIDE DEF s2
  <1>11. f[3] = s3
    BY <1>5, <1>6, <1>7, <1>10
  <1> HIDE DEF s3
  <1>12. f[4] = s4
    BY <1>5, <1>6, <1>7, <1>11
  <1> QED
    BY <1>1, <1>12 DEF s0, s1, s2, s3

\* The fractions of the value at the fourth node.
LEMMA Next3 ==
    ASSUME NEW p, NEW w
    PROVE  NextValue(p, 3, w) = 
             LET y == PlusFraction(PlusFraction(PlusFraction([num |-> 0, den |-> 1], w[0], p[0]),
                                                w[1], p[1]),
                                   w[2], p[2])
             IN  Mul(Mul(Neg(w[3]), y.num), Inv(y.den, WordBits))
  <1> DEFINE D(g) == [i \in 0..3 |->
          IF i = 0 THEN [num |-> 0, den |-> 1]
          ELSE PlusFraction(g[i - 1], w[i - 1], p[i - 1])]
             f == CHOOSE g : g = D(g)
             s0 == [num |-> 0, den |-> 1]
             s1 == PlusFraction(s0, w[1 - 1], p[1 - 1])
             s2 == PlusFraction(s1, w[2 - 1], p[2 - 1])
             s3 == PlusFraction(s2, w[3 - 1], p[3 - 1])
             G == [i \in 0..3 |->
                     IF i = 0 THEN s0
                     ELSE IF i = 1 THEN s1
                     ELSE IF i = 2 THEN s2
                     ELSE s3]
  <1>1. NextValue(p, 3, w) = Mul(Mul(Neg(w[3]), f[3].num), Inv(f[3].den, WordBits))
    BY DEF NextValue
  <1>2. G = D(G)
    <2>1. ASSUME NEW i \in 0..3
          PROVE  G[i] =
                     IF i = 0 THEN [num |-> 0, den |-> 1]
                     ELSE PlusFraction(G[i - 1], w[i - 1], p[i - 1])
      <3>1. i = 0 \/ i = 1 \/ i = 2 \/ i = 3
        OBVIOUS
      <3>2. G[0] = s0 /\ G[1] = s1 /\ G[2] = s2 /\ G[3] = s3
        OBVIOUS
      <3>3. 1 - 1 = 0 /\ 2 - 1 = 1 /\ 3 - 1 = 2
        OBVIOUS
      <3> HIDE DEF G
      <3> QED
        BY <3>1, <3>2, <3>3
    <2> HIDE DEF G
    <2> QED
      BY <2>1 DEF G
  <1>3. f = D(f)
    BY <1>2
  <1> HIDE DEF f
  <1>4. \A i \in 0..3 : f[i] = D(f)[i]
    BY <1>3
  <1>5. \A i \in 0..3 : f[i] =
          IF i = 0 THEN [num |-> 0, den |-> 1]
          ELSE PlusFraction(f[i - 1], w[i - 1], p[i - 1])
    BY <1>4
  <1>6. 0 \in 0..3 /\ 1 \in 0..3 /\ 2 \in 0..3 /\ 3 \in 0..3
    OBVIOUS
  <1>7. 1 - 1 = 0 /\ 2 - 1 = 1 /\ 3 - 1 = 2
    OBVIOUS
  <1>8. f[0] = s0
    BY <1>5, <1>6
  <1> HIDE DEF s0
  <1>9. f[1] = s1
    BY <1>5, <1>6, <1>7, <1>8
  <1> HIDE DEF s1
  <1>10. f[2] = s2
    BY <1>5, <1>6, <1>7, <1>9
  <1> HIDE DEF s2
  <1>11. f[3] = s3
    BY <1>5, <1>6, <1>7, <1>10
  <1> QED
    BY <1>1, <1>11 DEF s0, s1, s2

\* Three values are extended by one.
LEMMA Extend3 ==
    ASSUME NEW p
    PROVE  extendValuesToPowerOf2(p, 3, 4) = 
             [m \in 0..3 |-> IF m < 3 THEN p[m]
                             ELSE NextValue(p, 3, Weights(nthRootPowers[4], 3))]
  <1> DEFINE D(g) == [i \in 3..4 |->
          IF i = 3 THEN p
          ELSE [m \in 0..(i - 1) |-> IF m < i - 1 THEN g[i - 1][m]
                    ELSE NextValue(g[i - 1], i - 1, Weights(nthRootPowers[4], i - 1))]]
             f == CHOOSE g : g = D(g)
             s3 == p
             s4 == [m \in 0..(4 - 1) |->
                     IF m < 4 - 1 THEN s3[m]
                     ELSE NextValue(s3, 4 - 1, Weights(nthRootPowers[4], 4 - 1))]
             G == [i \in 3..4 |-> IF i = 3 THEN s3 ELSE s4]
  <1>1. extendValuesToPowerOf2(p, 3, 4) = f[4]
    BY DEF extendValuesToPowerOf2
  <1>2. G = D(G)
    <2>1. ASSUME NEW i \in 3..4
          PROVE  G[i] =
                     IF i = 3 THEN p
                     ELSE [m \in 0..(i - 1) |-> IF m < i - 1 THEN G[i - 1][m]
                               ELSE NextValue(G[i - 1], i - 1, Weights(nthRootPowers[4], i - 1))]
      <3>1. i = 3 \/ i = 4
        OBVIOUS
      <3>2. G[3] = s3 /\ G[4] = s4
        OBVIOUS
      <3>3. 4 - 1 = 3
        OBVIOUS
      <3> HIDE DEF G
      <3> QED
        BY <3>1, <3>2, <3>3
    <2> HIDE DEF G
    <2> QED
      BY <2>1 DEF G
  <1>3. f = D(f)
    BY <1>2
  <1> HIDE DEF f
  <1>4. \A i \in 3..4 : f[i] = D(f)[i]
    BY <1>3
  <1>5. \A i \in 3..4 : f[i] =
          IF i = 3 THEN p
          ELSE [m \in 0..(i - 1) |-> IF m < i - 1 THEN f[i - 1][m]
                    ELSE NextValue(f[i - 1], i - 1, Weights(nthRootPowers[4], i - 1))]
    BY <1>4
  <1>6. 3 \in 3..4 /\ 4 \in 3..4
    OBVIOUS
  <1>7. 4 - 1 = 3
    OBVIOUS
  <1>8. f[3] = s3
    BY <1>5, <1>6
  <1> HIDE DEF s3
  <1>9. f[4] = s4
    BY <1>5, <1>6, <1>7, <1>8
  <1> QED
    BY <1>1, <1>9 DEF s3

\* A coefficient of a polynomial with two values.
LEMMA InvNtt2 ==
    ASSUME NEW evals, NEW j \in 0..1
    PROVE  invNtt(evals, 2)[j] = 
             Mul(Add(Add(0, Mul(evals[0], Pow(Inv(Root2, WordBits), 0 * j, WordBits))),
                     Mul(evals[1], Pow(Inv(Root2, WordBits), 1 * j, WordBits))), Half)
  <1> DEFINE D(g) == [i \in 0..2 |->
          IF i = 0 THEN 0
          ELSE Add(g[i - 1], Mul(evals[i - 1], Pow(Inv(Root2, WordBits), (i - 1) * j, WordBits)))]
             f == CHOOSE g : g = D(g)
             s0 == 0
             s1 == Add(s0, Mul(evals[1 - 1], Pow(Inv(Root2, WordBits), (1 - 1) * j, WordBits)))
             s2 == Add(s1, Mul(evals[2 - 1], Pow(Inv(Root2, WordBits), (2 - 1) * j, WordBits)))
             G == [i \in 0..2 |-> IF i = 0 THEN s0 ELSE IF i = 1 THEN s1 ELSE s2]
  <1>1. invNtt(evals, 2)[j] = Mul(f[2], Half)
    BY DEF invNtt, Root2, Half
  <1>2. G = D(G)
    <2>1. ASSUME NEW i \in 0..2
          PROVE  G[i] =
                     IF i = 0 THEN 0
                     ELSE Add(G[i - 1],
                              Mul(evals[i - 1], Pow(Inv(Root2, WordBits), (i - 1) * j, WordBits)))
      <3>1. i = 0 \/ i = 1 \/ i = 2
        OBVIOUS
      <3>2. G[0] = s0 /\ G[1] = s1 /\ G[2] = s2
        OBVIOUS
      <3>3. 1 - 1 = 0 /\ 2 - 1 = 1
        OBVIOUS
      <3> HIDE DEF G
      <3> QED
        BY <3>1, <3>2, <3>3
    <2> HIDE DEF G
    <2> QED
      BY <2>1 DEF G
  <1>3. f = D(f)
    BY <1>2
  <1> HIDE DEF f
  <1>4. \A i \in 0..2 : f[i] = D(f)[i]
    BY <1>3
  <1>5. \A i \in 0..2 : f[i] =
          IF i = 0 THEN 0
          ELSE Add(f[i - 1], Mul(evals[i - 1], Pow(Inv(Root2, WordBits), (i - 1) * j, WordBits)))
    BY <1>4
  <1>6. 0 \in 0..2 /\ 1 \in 0..2 /\ 2 \in 0..2
    OBVIOUS
  <1>7. 1 - 1 = 0 /\ 2 - 1 = 1
    OBVIOUS
  <1>8. f[0] = s0
    BY <1>5, <1>6
  <1> HIDE DEF s0
  <1>9. f[1] = s1
    BY <1>5, <1>6, <1>7, <1>8
  <1> HIDE DEF s1
  <1>10. f[2] = s2
    BY <1>5, <1>6, <1>7, <1>9
  <1> QED
    BY <1>1, <1>10 DEF s0, s1

\* The coefficients: half the sum and half the difference of the values.
LEMMA Coefficients ==
    ASSUME NEW p, NEW x, NEW y, Rep(p[0], x), Rep(p[1], y)
    PROVE  /\ Rep(invNtt(p, 2)[0], ((0 + x * 1) + y * 1) * Half)
           /\ Rep(invNtt(p, 2)[1], ((0 + x * 1) + y * (-1)) * Half)
  <1> DEFINE r == Inv(Root2, WordBits)
  <1>1. r \in Elt /\ Rep(r, -1)
    BY Divisors DEF Rep
  <1>2. Pow(r, 0, WordBits) = 1 /\ Pow(r, 1, WordBits) = r
    <2>1. 0 \in Word /\ 1 \in Word
      BY Widths, Sizes DEF Word
    <2> QED
      BY <1>1, <2>1, Widths, PowWord, SmallPowers
  <1>3. Rep(0, 0) /\ Rep(1, 1) /\ Rep(Half, Half)
    BY Constants, RepElt, Divisors
  <1>4. invNtt(p, 2)[0] = Mul(Add(Add(0, Mul(p[0], 1)), Mul(p[1], 1)), Half)
    <2>1. 0 \in 0..1 /\ 0 * 0 = 0 /\ 1 * 0 = 0
      OBVIOUS
    <2> QED
      BY <1>2, <2>1, InvNtt2
  <1>5. invNtt(p, 2)[1] = Mul(Add(Add(0, Mul(p[0], 1)), Mul(p[1], r)), Half)
    <2>1. 1 \in 0..1 /\ 0 * 1 = 0 /\ 1 * 1 = 1
      OBVIOUS
    <2> QED
      BY <1>2, <2>1, InvNtt2
  <1>6. Rep(Mul(Add(Add(0, Mul(p[0], 1)), Mul(p[1], 1)), Half), ((0 + x * 1) + y * 1) * Half)
    BY <1>3, RepOps, Zenon
  <1>7. Rep(Mul(Add(Add(0, Mul(p[0], 1)), Mul(p[1], r)), Half), ((0 + x * 1) + y * (-1)) * Half)
    BY <1>1, <1>3, RepOps, Zenon
  <1> QED
    BY <1>4, <1>5, <1>6, <1>7, Zenon

\* The values a doubling adds: half of the first value's part and the second's.
LEMMA OddValue ==
    ASSUME NEW p, NEW x, NEW y, Rep(p[0], x), Rep(p[1], y)
    PROVE  Rep(doubleEvaluations(p, 2)[1], Half * (x * (1 + Root4) + y * (1 - Root4)))
  <1> DEFINE c == invNtt(p, 2)
             z == Mul(Root4, nthRootPowers[2][0])
             v == Add(Mul(Add(Mul(0, z), c[1]), z), c[0])
             c0 == ((0 + x * 1) + y * 1) * Half
             c1 == ((0 + x * 1) + y * (-1)) * Half
  <1>1. doubleEvaluations(p, 2)[1] = v
    <2>1. 1 \in 0..(2 * 2 - 1) /\ 1 % 2 # 0 /\ 1 \div 2 = 0 /\ 0 \in 0..(2 - 1) /\ 2 * 2 = 4
      OBVIOUS
    <2>2. doubleEvaluations(p, 2)[1] = ntt(c, 2, Root4)[0]
      BY <2>1 DEF doubleEvaluations, Root4
    <2>3. ntt(c, 2, Root4)[0] = evalMonomial(c, 2, z)
      BY <2>1 DEF ntt
    <2> HIDE DEF c, z
    <2> QED
      BY <2>2, <2>3, Monomial2
  <1>2. Rep(c[0], c0) /\ Rep(c[1], c1)
    BY Coefficients
  <1>3. Rep(0, 0) /\ Rep(z, Root4 * 1)
    <2>1. Rep(0, 0)
      BY Constants, RepElt
    <2>2. Rep(Root4, Root4) /\ Rep(nthRootPowers[2][0], 1)
      BY RootsOfUnity, Nodes
    <2> QED
      BY <2>1, <2>2, RepOps, Zenon
  <1> HIDE DEF c, z
  <1>4. Rep(v, (0 * (Root4 * 1) + c1) * (Root4 * 1) + c0)
    <2> HIDE DEF c0, c1
    <2> QED
      BY <1>2, <1>3, RepOps, Zenon
  <1>5. x \in Int /\ y \in Int /\ Half \in Int /\ Root4 \in Int
    BY Divisors, RootsOfUnity, RepElt DEF Rep
  <1>6. (0 * (Root4 * 1) + c1) * (Root4 * 1) + c0 = Half * (x * (1 + Root4) + y * (1 - Root4))
    <2>1. c0 = (x + y) * Half /\ c1 = (x - y) * Half
      BY <1>5
    <2> HIDE DEF c0, c1
    <2>2. (0 * (Root4 * 1) + c1) * (Root4 * 1) + c0 = c1 * Root4 + c0
      BY <1>5, <2>1
    <2>3. ((x - y) * Half) * Root4 + (x + y) * Half = Half * (x * (1 + Root4) + y * (1 - Root4))
      BY <1>5
    <2> QED
      BY <2>1, <2>2, <2>3
  <1> HIDE DEF v, c0, c1
  <1> QED
    BY <1>1, <1>4, <1>6

\* The gadget polynomial of an honest proof, at its second node.
Middle(s, r, m) ==
    (Half * (s * (1 + Root4) + m * (1 - Root4))) * (Half * (r * (1 + Root4) + m * (1 - Root4)))

\* What Prove puts into a proof.
LEMMA ProofIs ==
    ASSUME NEW m \in Elt, NEW seeds \in Seeds
    PROVE  /\ Prove(m, seeds) \in Proofs
           /\ Prove(m, seeds)[0] = seeds[0] /\ Prove(m, seeds)[1] = seeds[1]
           /\ Rep(Prove(m, seeds)[2], seeds[0] * seeds[1])
           /\ Rep(Prove(m, seeds)[3], Middle(seeds[0], seeds[1], m))
           /\ Rep(Prove(m, seeds)[4], m * m)
  <1> DEFINE s == seeds[0]
             r == seeds[1]
             a == Wire(s, m)
             b == Wire(r, m)
             d == doubleEvaluations(a, 2)
             e == doubleEvaluations(b, 2)
             proof == Prove(m, seeds)
  <1>1. s \in Elt /\ r \in Elt
    BY DEF Seeds, Arity
  <1>2. a[0] = s /\ a[1] = m /\ b[0] = r /\ b[1] = m
    <2>1. 0 \in 0..(wirePolyLen - 1) /\ 1 \in 0..(wirePolyLen - 1)
      BY Lengths
    <2> QED
      BY <2>1 DEF Wire
  <1>3. proof = [i \in 0..4 |-> IF i < 2 THEN seeds[i] ELSE polyMul(a, b, 2)[i - 2]]
    BY Lengths DEF Prove, Arity
  <1>4. \A i \in 0..3 : polyMul(a, b, 2)[i] = Mul(d[i], e[i])
    BY DEF polyMul
  <1>5. d[0] = a[0] /\ d[2] = a[1] /\ e[0] = b[0] /\ e[2] = b[1]
    <2>1. /\ 0 \in 0..(2 * 2 - 1) /\ 0 % 2 = 0 /\ 0 \div 2 = 0
          /\ 2 \in 0..(2 * 2 - 1) /\ 2 % 2 = 0 /\ 2 \div 2 = 1
      OBVIOUS
    <2> QED
      BY <2>1 DEF doubleEvaluations
  <1> HIDE DEF a, b, d, e, proof
  <1>6. /\ proof[0] = s /\ proof[1] = r /\ proof[2] = Mul(s, r)
        /\ proof[3] = Mul(d[1], e[1]) /\ proof[4] = Mul(m, m)
    <2>1. /\ 0 \in 0..4 /\ 1 \in 0..4 /\ 2 \in 0..4 /\ 3 \in 0..4 /\ 4 \in 0..4
          /\ 2 - 2 = 0 /\ 3 - 2 = 1 /\ 4 - 2 = 2 /\ 0 \in 0..3 /\ 1 \in 0..3 /\ 2 \in 0..3
      OBVIOUS
    <2> QED
      BY <1>2, <1>3, <1>4, <1>5, <2>1
  <1>7. Rep(s, s) /\ Rep(r, r) /\ Rep(m, m)
    BY <1>1, RepElt
  <1>8. Rep(proof[2], s * r) /\ Rep(proof[4], m * m)
    BY <1>6, <1>7, RepOps, Zenon
  <1>9. /\ Rep(d[1], Half * (s * (1 + Root4) + m * (1 - Root4)))
        /\ Rep(e[1], Half * (r * (1 + Root4) + m * (1 - Root4)))
    <2>1. Rep(a[0], s) /\ Rep(a[1], m) /\ Rep(b[0], r) /\ Rep(b[1], m)
      BY <1>2, <1>7
    <2> HIDE DEF s, r
    <2> QED
      BY <2>1, OddValue, Zenon DEF d, e
  <1>10. Rep(proof[3], Middle(s, r, m))
    BY <1>6, <1>9, RepOps, Zenon DEF Middle
  <1>11. proof \in Proofs
    <2>1. /\ proof[0] \in Elt /\ proof[1] \in Elt /\ proof[2] \in Elt
          /\ proof[3] \in Elt /\ proof[4] \in Elt
      BY <1>1, <1>6, <1>8, <1>10 DEF Rep
    <2>2. DOMAIN proof = 0..4 /\ proof = [i \in 0..4 |-> proof[i]]
      BY <1>3
    <2>3. \A i \in 0..4 : i = 0 \/ i = 1 \/ i = 2 \/ i = 3 \/ i = 4
      OBVIOUS
    <2>4. Proofs = [0..4 -> Elt]
      BY Lengths DEF Proofs, Arity
    <2> QED
      BY <2>1, <2>2, <2>3, <2>4
  <1> QED
    BY <1>6, <1>8, <1>10, <1>11 DEF proof, s, r

\* The line through the values s at 1 and m at -1, doubled.
Line(s, m, t) == s * (1 + t) + m * (1 - t)

\* A wire polynomial at the test point.
LEMMA WireAt ==
    ASSUME NEW s \in Elt, NEW m \in Elt, NEW t \in Elt
    PROVE  Rep(polyEval(Wire(s, m), wirePolyLen, t), Half * Line(s, m, t))
  <1> DEFINE p == Wire(s, m)
             x == nthRootPowers[2]
             u == Add(Mul(s, Sub(x[1], t)), Mul(Mul(Mul(1, Sub(x[0], t)), x[1]), m))
             n == s * (-1 - t) + ((1 * (1 - t)) * (-1)) * m
  <1>1. p[0] = s /\ p[1] = m
    <2>1. 0 \in 0..(wirePolyLen - 1) /\ 1 \in 0..(wirePolyLen - 1)
      BY Lengths
    <2> QED
      BY <2>1 DEF Wire
  <1> HIDE DEF p
  <1>2. Rounds(p, x, 2, t) = u
    BY <1>1, Rounds2 DEF EvalRound
  <1>3. polyEval(p, 2, t) = Mul(Rounds(p, x, 2, t), Neg(Half))
    <2>1. (2 - 1) % 2 = 1
      OBVIOUS
    <2> QED
      BY <2>1 DEF polyEval, Half
  <1>4. /\ Rep(s, s) /\ Rep(m, m) /\ Rep(t, t) /\ Rep(1, 1) /\ Rep(x[0], 1) /\ Rep(x[1], -1)
        /\ s \in Int /\ m \in Int /\ t \in Int
    BY RepElt, Constants, Nodes
  <1>5. Rep(u, n)
    <2> HIDE DEF x
    <2> QED
      BY <1>4, RepOps, Zenon
  <1>6. Rep(Neg(Half), -Half) /\ Half \in Int
    BY Divisors, RepNeg
  <1> HIDE DEF u
  <1>7. Rep(Mul(u, Neg(Half)), n * (-Half))
    <2> HIDE DEF n
    <2> QED
      BY <1>5, <1>6, RepOps, Zenon
  <1>8. n * (-Half) = Half * Line(s, m, t)
    <2>1. n = -(s * (1 + t) + m * (1 - t))
      BY <1>4
    <2> DEFINE l == s * (1 + t) + m * (1 - t)
    <2>2. l \in Int /\ n = -l
      BY <1>4, <2>1
    <2> HIDE DEF l, n
    <2>3. n * (-Half) = Half * l
      BY <1>6, <2>2
    <2> QED
      BY <2>3 DEF l, Line
  <1> HIDE DEF n
  <1> QED
    BY <1>2, <1>3, <1>7, <1>8, Lengths DEF p

\* The weights of the four nodes: four times their cubes.
LEMMA NodeWeights ==
    LET v == Weights(nthRootPowers[4], 3)
    IN  Rep(v[0], 4) /\ Rep(v[1], -4 * Root4) /\ Rep(v[2], -4) /\ Rep(v[3], 4 * Root4)
  <1> DEFINE x == nthRootPowers[4]
             w == Root4
             v == Weights(x, 3)
             f(i, j) == Sub(x[i], x[j])
  <1>1. /\ v[0] = Weight(x, 3, 0) /\ v[1] = Weight(x, 3, 1)
        /\ v[2] = Weight(x, 3, 2) /\ v[3] = Weight(x, 3, 3)
    BY DEF Weights
  <1>2. /\ Rep(1, 1) /\ Rep(x[0], 1) /\ Rep(x[1], w) /\ Rep(x[2], -1) /\ Rep(x[3], -w)
        /\ w \in Int
    BY RepElt, Constants, Nodes, RootsOfUnity
  <1>3. Cong(w * w, -1) /\ w * w \in Int
    BY <1>2, RootsOfUnity
  <1> HIDE DEF x, w, v
  <1>4. Rep(v[0], 4)
    <2>1. v[0] = Mul(Mul(Mul(1, f(0, 1)), f(0, 2)), f(0, 3))
      BY <1>1, Weight3 DEF Factor
    <2>2. Rep(v[0], ((1 * (1 - w)) * (1 - (-1))) * (1 - (-w)))
      BY <1>2, <2>1, RepOps, Zenon
    <2> DEFINE n == ((1 * (1 - w)) * (1 - (-1))) * (1 - (-w))
    <2>3. n = 4 + (w * w - (-1)) * (-2)
      BY <1>2
    <2>4. n \in Int /\ 4 \in Int /\ -1 \in Int /\ -2 \in Int
      BY <1>2
    <2> HIDE DEF n
    <2>5. Cong(n, 4)
      BY <1>3, <2>3, <2>4, CongBy, Zenon
    <2> QED
      BY <2>2, <2>4, <2>5, RepCong, Zenon DEF n
  <1>5. Rep(v[1], -4 * w)
    <2>1. v[1] = Mul(Mul(Mul(1, f(1, 0)), f(1, 2)), f(1, 3))
      BY <1>1, Weight3 DEF Factor
    <2>2. Rep(v[1], ((1 * (w - 1)) * (w - (-1))) * (w - (-w)))
      BY <1>2, <2>1, RepOps, Zenon
    <2> DEFINE n == ((1 * (w - 1)) * (w - (-1))) * (w - (-w))
    <2>3. n = -4 * w + (w * w - (-1)) * (2 * w)
      BY <1>2
    <2>4. n \in Int /\ -4 * w \in Int /\ -1 \in Int /\ 2 * w \in Int
      BY <1>2
    <2> HIDE DEF n
    <2>5. Cong(n, -4 * w)
      BY <1>3, <2>3, <2>4, CongBy, Zenon
    <2> QED
      BY <2>2, <2>4, <2>5, RepCong, Zenon DEF n
  <1>6. Rep(v[2], -4)
    <2>1. v[2] = Mul(Mul(Mul(1, f(2, 0)), f(2, 1)), f(2, 3))
      BY <1>1, Weight3 DEF Factor
    <2>2. Rep(v[2], ((1 * (-1 - 1)) * (-1 - w)) * (-1 - (-w)))
      BY <1>2, <2>1, RepOps, Zenon
    <2> DEFINE n == ((1 * (-1 - 1)) * (-1 - w)) * (-1 - (-w))
    <2>3. n = -4 + (w * w - (-1)) * 2
      BY <1>2
    <2>4. n \in Int /\ -4 \in Int /\ -1 \in Int /\ 2 \in Int
      BY <1>2
    <2> HIDE DEF n
    <2>5. Cong(n, -4)
      BY <1>3, <2>3, <2>4, CongBy, Zenon
    <2> QED
      BY <2>2, <2>4, <2>5, RepCong, Zenon DEF n
  <1>7. Rep(v[3], 4 * w)
    <2>1. v[3] = Mul(Mul(Mul(1, f(3, 0)), f(3, 1)), f(3, 2))
      BY <1>1, Weight3 DEF Factor
    <2>2. Rep(v[3], ((1 * (-w - 1)) * (-w - w)) * (-w - (-1)))
      BY <1>2, <2>1, RepOps, Zenon
    <2> DEFINE n == ((1 * (-w - 1)) * (-w - w)) * (-w - (-1))
    <2>3. n = 4 * w + (w * w - (-1)) * (-2 * w)
      BY <1>2
    <2>4. n \in Int /\ 4 * w \in Int /\ -1 \in Int /\ -2 * w \in Int
      BY <1>2
    <2> HIDE DEF n
    <2>5. Cong(n, 4 * w)
      BY <1>3, <2>3, <2>4, CongBy, Zenon
    <2> QED
      BY <2>2, <2>4, <2>5, RepCong, Zenon DEF n
  <1> QED
    BY <1>4, <1>5, <1>6, <1>7 DEF v, w, x

\* The value at the fourth node of the polynomial through the first three.
LEMMA FourthValue ==
    ASSUME NEW p, NEW a, NEW b, NEW c, Rep(p[0], a), Rep(p[1], b), Rep(p[2], c)
    PROVE  Rep(NextValue(p, 3, Weights(nthRootPowers[4], 3)), b - Root4 * a + Root4 * c)
  <1> DEFINE w == Root4
             v == Weights(nthRootPowers[4], 3)
             num == Add(Mul(Add(Mul(Add(Mul(0, v[0]), Mul(1, p[0])), v[1]),
                                Mul(Mul(1, v[0]), p[1])), v[2]),
                        Mul(Mul(Mul(1, v[0]), v[1]), p[2]))
             den == Mul(Mul(Mul(1, v[0]), v[1]), v[2])
             x == ((0 * 4 + 1 * a) * (-4 * w) + (1 * 4) * b) * (-4) + ((1 * 4) * (-4 * w)) * c
             d == ((1 * 4) * (-4 * w)) * (-4)
             i == Inv(den, WordBits)
             y == b - w * a + w * c
  <1>1. NextValue(p, 3, v) = Mul(Mul(Neg(v[3]), num), i)
    <2> HIDE DEF v
    <2> QED
      BY Next3 DEF PlusFraction
  <1>2. /\ Rep(v[0], 4) /\ Rep(v[1], -4 * w) /\ Rep(v[2], -4) /\ Rep(v[3], 4 * w)
        /\ Rep(0, 0) /\ Rep(1, 1) /\ w \in Int /\ a \in Int /\ b \in Int /\ c \in Int
    BY NodeWeights, Constants, RepElt, RootsOfUnity DEF Rep
  <1> HIDE DEF v, w
  <1>3. Rep(num, x)
    BY <1>2, RepOps, Zenon
  <1>4. Rep(den, d)
    BY <1>2, RepOps, Zenon
  <1>5. x = 16 * w * a - 16 * b - 16 * w * c /\ d = 64 * w
    BY <1>2
  <1>6. den \in Units
    <2> DEFINE u == Mul(Mul(Mul(4, 4), 4), w)
    <2>1. 4 \in Units /\ w \in Units
      BY Widths, Sizes, RootsOfUnity DEF Units, Elt, w
    <2>2. u \in Units
      BY <2>1, UnitsMul, FieldAssumption
    <2>3. Rep(4, 4) /\ Rep(w, w)
      BY <2>1, RepElt DEF Units
    <2>4. Rep(u, ((4 * 4) * 4) * w)
      BY <2>3, RepOps, Zenon
    <2>5. d = ((4 * 4) * 4) * w /\ d \in Int
      BY <1>2, <1>5
    <2> HIDE DEF u, d
    <2>6. Rep(u, d) /\ Cong(d, d)
      BY <2>4, <2>5, CongRefl
    <2>7. den = u
      BY <1>4, <2>6, RepEqual
    <2> QED
      BY <2>2, <2>7
  <1>7. i \in Elt /\ Mul(den, i) = 1
    BY <1>6, Widths, InvIs, FieldAssumption
  <1> HIDE DEF i, num, den
  <1>8. i \in Int /\ Rep(i, i)
    BY <1>7, RepElt
  <1>9. Cong(d * i, 1)
    <2> HIDE DEF d
    <2>1. Rep(Mul(den, i), d * i)
      BY <1>4, <1>8, RepOps
    <2> QED
      BY <1>2, <1>7, <2>1, RepSame, Zenon
  <1>10. Rep(Mul(Mul(Neg(v[3]), num), i), ((-(4 * w)) * x) * i)
    <2> HIDE DEF x
    <2>1. Rep(Neg(v[3]), -(4 * w))
      BY <1>2, RepNeg
    <2> QED
      BY <1>3, <1>8, <2>1, RepOps, Zenon
  <1> DEFINE z == ((-(4 * w)) * x) * i
             r == d * i
  <1>11. y \in Int /\ z \in Int /\ r \in Int /\ 1 \in Int
    <2>1. x \in Int /\ d \in Int
      BY <1>2, <1>5
    <2> HIDE DEF x, d
    <2> QED
      BY <1>2, <1>8, <2>1
  <1>12. z = y + (r - 1) * y
    <2>1. x = -(16 * y)
      BY <1>2, <1>5
    <2>2. (-(4 * w)) * x = (64 * w) * y
      <3> HIDE DEF x, y, d
      <3> QED
        BY <1>2, <1>11, <2>1
    <2> DEFINE k == 64 * w
    <2>3. k \in Int /\ z = (k * y) * i /\ r = k * i
      BY <1>2, <1>5, <2>2
    <2> HIDE DEF k, z, r, y, x, d
    <2> QED
      BY <1>8, <1>11, <2>3
  <1> HIDE DEF z, y, r
  <1>13. Cong(z, y)
    BY <1>9, <1>11, <1>12, CongBy, Zenon DEF r
  <1> QED
    BY <1>1, <1>10, <1>11, <1>13, RepCong DEF z, y, v, w

\* The parabola through the values a at 1, b at Root4 and c at -1, four times.
Parabola(a, b, c, t) ==
    a * (1 + 2 * t + t * t - Root4 + Root4 * (t * t))
        + c * (1 - 2 * t + t * t + Root4 - Root4 * (t * t)) + 2 * b * (1 - t * t)

\* The last of the evaluation rounds over the four nodes.
LastRound(a, b, c, v, t) ==
    ((a * (Root4 - t) + ((1 * (1 - t)) * Root4) * b) * (-1 - t)
         + (((1 * (1 - t)) * (Root4 - t)) * (-1)) * c) * (-Root4 - t)
        + ((((1 * (1 - t)) * (Root4 - t)) * (-1 - t)) * (-Root4)) * v

\* The rounds evaluate the parabola.
LEMMA RoundsParabola ==
    ASSUME NEW a \in Int, NEW b \in Int, NEW c \in Int, NEW t \in Int
    PROVE  /\ Parabola(a, b, c, t) \in Int
           /\ LastRound(a, b, c, b - Root4 * a + Root4 * c, t) \in Int
           /\ Cong(LastRound(a, b, c, b - Root4 * a + Root4 * c, t), -Parabola(a, b, c, t))
  <1> DEFINE w == Root4
             v == b - w * a + w * c
             q == t * t
             n == Parabola(a, b, c, t)
             l == LastRound(a, b, c, v, t)
             A == (w - t) * (-1 - t) * (-w - t) + (1 - t) * (w - t) * (-1 - t) * (w * w)
             B == (1 - t) * w * (-1 - t) * (-w - t) - (1 - t) * (w - t) * (-1 - t) * w
             C == -((1 - t) * (w - t) * (-w - t)) - (1 - t) * (w - t) * (-1 - t) * (w * w)
             k == a * ((1 + t) + (q - 1) * (w - t)) + b * (2 * (1 - q))
                      + c * ((1 - t) - (q - 1) * (w - t))
  <1>1. w \in Int /\ w * w \in Int /\ Cong(w * w, -1)
    BY RootsOfUnity, RepElt
  <1> HIDE DEF w
  <1>2. l = a * A + b * B + c * C
    BY <1>1 DEF LastRound, w
  <1>3. A = -(1 + 2 * t + q - w + w * q) + (w * w - (-1)) * ((1 + t) + (q - 1) * (w - t))
    BY <1>1
  <1>4. B = -(2 * (1 - q)) + (w * w - (-1)) * (2 * (1 - q))
    BY <1>1
  <1>5. C = -(1 - 2 * t + q + w - w * q) + (w * w - (-1)) * ((1 - t) - (q - 1) * (w - t))
    BY <1>1
  <1>6. l = -n + (w * w - (-1)) * k
    <2> DEFINE R == w * w - (-1)
               na == 1 + 2 * t + q - w + w * q
               nb == 2 * (1 - q)
               nc == 1 - 2 * t + q + w - w * q
               ka == (1 + t) + (q - 1) * (w - t)
               kc == (1 - t) - (q - 1) * (w - t)
    <2>1. R \in Int /\ na \in Int /\ nb \in Int /\ nc \in Int /\ ka \in Int /\ kc \in Int
      BY <1>1
    <2>2. n = a * na + c * nc + b * nb
      BY <1>1 DEF Parabola, w
    <2>3. k = a * ka + b * nb + c * kc
      OBVIOUS
    <2>4. A = -na + R * ka /\ B = -nb + R * nb /\ C = -nc + R * kc
      BY <1>3, <1>4, <1>5
    <2> HIDE DEF R, na, nb, nc, ka, kc, n, k, l, A, B, C
    <2>5. l = a * (-na + R * ka) + b * (-nb + R * nb) + c * (-nc + R * kc)
      BY <1>2, <2>4
    <2>6. a * (-na + R * ka) + b * (-nb + R * nb) + c * (-nc + R * kc)
              = -(a * na + c * nc + b * nb) + R * (a * ka + b * nb + c * kc)
      BY <2>1
    <2> QED
      BY <2>2, <2>3, <2>5, <2>6 DEF R
  <1>7. l \in Int /\ -n \in Int /\ n \in Int /\ k \in Int /\ -1 \in Int
    BY <1>1 DEF Parabola, LastRound, w
  <1> HIDE DEF l, n, k
  <1>8. Cong(l, -n)
    BY <1>1, <1>6, <1>7, CongBy, Zenon
  <1> QED
    BY <1>7, <1>8 DEF l, n, v, w

\* The gadget polynomial that a proof holds, at its nodes.
LEMMA GadgetNodes ==
    ASSUME NEW proof \in Proofs
    PROVE  LET poly == GadgetPoly(proof)
           IN  /\ poly[0] = proof[2] /\ poly[1] = proof[3] /\ poly[2] = proof[4]
               /\ Rep(poly[3], proof[3] - Root4 * proof[2] + Root4 * proof[4])
  <1> DEFINE p == [i \in 0..2 |-> proof[2 + i]]
             poly == GadgetPoly(proof)
             last == NextValue(p, 3, Weights(nthRootPowers[4], 3))
  <1>1. poly = extendValuesToPowerOf2(p, 3, 4)
    BY Lengths DEF GadgetPoly, Arity
  <1>2. p[0] = proof[2] /\ p[1] = proof[3] /\ p[2] = proof[4]
    OBVIOUS
  <1> HIDE DEF p
  <1>3. poly = [m \in 0..3 |-> IF m < 3 THEN p[m] ELSE last]
    BY <1>1, Extend3
  <1>4. proof[2] \in Elt /\ proof[3] \in Elt /\ proof[4] \in Elt
    BY Lengths DEF Proofs, Arity
  <1>5. Rep(p[0], proof[2]) /\ Rep(p[1], proof[3]) /\ Rep(p[2], proof[4])
    BY <1>2, <1>4, RepElt
  <1>6. Rep(last, proof[3] - Root4 * proof[2] + Root4 * proof[4])
    BY <1>5, FourthValue
  <1> HIDE DEF last, poly
  <1>7. poly[0] = p[0] /\ poly[1] = p[1] /\ poly[2] = p[2] /\ poly[3] = last
    BY <1>3
  <1> QED
    BY <1>2, <1>6, <1>7 DEF poly

\* The gadget polynomial at the test point.
LEMMA GadgetAt ==
    ASSUME NEW proof \in Proofs, NEW t \in Elt
    PROVE  Rep(polyEval(GadgetPoly(proof), polySize, t),
               Quarter * Parabola(proof[2], proof[3], proof[4], t))
  <1> DEFINE p == GadgetPoly(proof)
             x == nthRootPowers[4]
             w == Root4
             a == proof[2]
             b == proof[3]
             c == proof[4]
             v == b - w * a + w * c
             d0 == Sub(x[0], t)
             d1 == Sub(x[1], t)
             d2 == Sub(x[2], t)
             d3 == Sub(x[3], t)
             k1 == Mul(1, d0)
             k2 == Mul(k1, d1)
             k3 == Mul(k2, d2)
             u1 == Add(Mul(p[0], d1), Mul(Mul(k1, x[1]), p[1]))
             u2 == Add(Mul(u1, d2), Mul(Mul(k2, x[2]), p[2]))
             u3 == Add(Mul(u2, d3), Mul(Mul(k3, x[3]), p[3]))
             n == Parabola(a, b, c, t)
             l == LastRound(a, b, c, v, t)
  <1>1. a \in Elt /\ b \in Elt /\ c \in Elt
    BY Lengths DEF Proofs, Arity
  <1>2. p[0] = a /\ p[1] = b /\ p[2] = c /\ Rep(p[3], v)
    BY GadgetNodes
  <1>3. /\ Rep(t, t) /\ Rep(1, 1) /\ Rep(p[0], a) /\ Rep(p[1], b) /\ Rep(p[2], c) /\ t \in Int
        /\ a \in Int /\ b \in Int /\ c \in Int
    BY <1>1, <1>2, RepElt, Constants
  <1>4. Rep(x[0], 1) /\ Rep(x[1], w) /\ Rep(x[2], -1) /\ Rep(x[3], -w)
    BY Nodes
  <1> HIDE DEF p, x
  <1>5. Rounds(p, x, 4, t) = u3
    BY Rounds4 DEF EvalRound
  <1>6. polyEval(p, 4, t) = Mul(Rounds(p, x, 4, t), Neg(Quarter))
    <2>1. (4 - 1) % 2 = 1
      OBVIOUS
    <2> QED
      BY <2>1 DEF polyEval, Quarter, x
  <1>7. Rep(u3, l)
    <2>1. Rep(d0, 1 - t) /\ Rep(d1, w - t) /\ Rep(d2, -1 - t) /\ Rep(d3, -w - t)
      BY <1>3, <1>4, RepOps, Zenon
    <2>2. Rep(k1, 1 * (1 - t))
      BY <1>3, <2>1, RepOps, Zenon
    <2>3. Rep(k2, (1 * (1 - t)) * (w - t))
      BY <2>1, <2>2, RepOps, Zenon
    <2>4. Rep(k3, ((1 * (1 - t)) * (w - t)) * (-1 - t))
      BY <2>1, <2>3, RepOps, Zenon
    <2> HIDE DEF d0, d1, d2, d3, k1, k2, k3, a, b, c, v, w
    <2>5. Rep(u1, a * (w - t) + ((1 * (1 - t)) * w) * b)
      BY <1>3, <1>4, <2>1, <2>2, RepOps, Zenon
    <2> HIDE DEF u1
    <2>6. Rep(u2, (a * (w - t) + ((1 * (1 - t)) * w) * b) * (-1 - t)
                      + (((1 * (1 - t)) * (w - t)) * (-1)) * c)
      BY <1>3, <1>4, <2>1, <2>3, <2>5, RepOps, Zenon
    <2> HIDE DEF u2
    <2>7. Rep(u3, ((a * (w - t) + ((1 * (1 - t)) * w) * b) * (-1 - t)
                      + (((1 * (1 - t)) * (w - t)) * (-1)) * c) * (-w - t)
                  + ((((1 * (1 - t)) * (w - t)) * (-1 - t)) * (-w)) * v)
      BY <1>2, <1>4, <2>1, <2>4, <2>6, RepOps, Zenon
    <2> QED
      BY <2>7, Zenon DEF LastRound, w
  <1>8. l \in Int /\ n \in Int /\ Cong(l, -n)
    BY <1>3, RoundsParabola
  <1> HIDE DEF l, n, u3, a, b, c, v
  <1>9. Rep(u3, -n)
    <2>1. -n \in Int
      BY <1>8
    <2> QED
      BY <1>7, <1>8, <2>1, RepCong
  <1>10. Rep(Neg(Quarter), -Quarter) /\ Quarter \in Int
    BY Divisors, RepNeg
  <1>11. Rep(Mul(u3, Neg(Quarter)), (-n) * (-Quarter))
    BY <1>9, <1>10, RepOps
  <1>12. (-n) * (-Quarter) = Quarter * n
    BY <1>8, <1>10
  <1> QED
    BY <1>5, <1>6, <1>11, <1>12, Lengths DEF p, n, a, b, c

\* What a query yields, in terms of the share and the test point.
Queried(v, m, proof, t) ==
    /\ v = <<v[1], v[2], v[3], v[4]>>
    /\ Rep(v[1], proof[4] - m)
    /\ Rep(v[2], Half * Line(proof[0], m, t))
    /\ Rep(v[3], Half * Line(proof[1], m, t))
    /\ Rep(v[4], Quarter * Parabola(proof[2], proof[3], proof[4], t))

\* A query computes it.
LEMMA QueryIs ==
    ASSUME NEW m \in Elt, NEW proof \in Proofs, NEW t \in Elt
    PROVE  Queried(Query(m, proof, t), m, proof, t)
  <1> DEFINE poly == GadgetPoly(proof)
             v1 == Sub(poly[2], m)
             v2 == polyEval(Wire(proof[0], m), wirePolyLen, t)
             v3 == polyEval(Wire(proof[1], m), wirePolyLen, t)
             v4 == polyEval(poly, polySize, t)
             v == Query(m, proof, t)
  <1>1. v = <<v1, v2, v3, v4>>
    <2>1. Calls * step = 2
      BY Lengths DEF Calls
    <2> QED
      BY <2>1 DEF Query, Verifier
  <1>2. proof[0] \in Elt /\ proof[1] \in Elt /\ proof[4] \in Elt
    BY Lengths DEF Proofs, Arity
  <1>3. Rep(v1, proof[4] - m)
    <2>1. poly[2] = proof[4]
      BY GadgetNodes
    <2>2. Rep(proof[4], proof[4]) /\ Rep(m, m)
      BY <1>2, RepElt
    <2> QED
      BY <2>1, <2>2, RepOps
  <1>4. Rep(v2, Half * Line(proof[0], m, t)) /\ Rep(v3, Half * Line(proof[1], m, t))
    BY <1>2, WireAt
  <1>5. Rep(v4, Quarter * Parabola(proof[2], proof[3], proof[4], t))
    BY GadgetAt
  <1> HIDE DEF v, v1, v2, v3, v4
  <1>6. v[1] = v1 /\ v[2] = v2 /\ v[3] = v3 /\ v[4] = v4
    BY <1>1
  <1> QED
    BY <1>1, <1>3, <1>4, <1>5, <1>6 DEF Queried, v

-----------------------------------------------------------------------------
(* The query is linear, and what the sum of the verifier shares decides.    *)

\* Lines are linear in the values they go through.
LEMMA LineLinear ==
    ASSUME NEW s \in Int, NEW m \in Int, NEW r \in Int, NEW n \in Int, NEW t \in Int,
           NEW x \in Int, NEW y \in Int, Cong(s + r, x), Cong(m + n, y)
    PROVE  /\ Line(s, m, t) \in Int /\ Line(r, n, t) \in Int /\ Line(x, y, t) \in Int
           /\ Cong(Line(s, m, t) + Line(r, n, t), Line(x, y, t))
  <1> DEFINE a == s + r
             b == m + n
             p == 1 + t
             q == 1 - t
  <1>1. a \in Int /\ b \in Int /\ p \in Int /\ q \in Int
    OBVIOUS
  <1>2. Cong(p, p) /\ Cong(q, q) /\ Cong(a, x) /\ Cong(b, y)
    BY <1>1, CongRefl
  <1>3. Line(s, m, t) + Line(r, n, t) = a * p + b * q
    BY DEF Line
  <1>4. Line(s, m, t) \in Int /\ Line(r, n, t) \in Int /\ Line(x, y, t) \in Int
    BY DEF Line
  <1>5. Line(x, y, t) = x * p + y * q
    BY DEF Line
  <1> HIDE DEF a, b, p, q
  <1>6. Cong(a * p, x * p) /\ Cong(b * q, y * q)
    BY <1>1, <1>2, CongOps
  <1> DEFINE ap == a * p
             bq == b * q
             xp == x * p
             yq == y * q
  <1>7. ap \in Int /\ bq \in Int /\ xp \in Int /\ yq \in Int
    BY <1>1
  <1> HIDE DEF ap, bq, xp, yq
  <1>8. Cong(ap + bq, xp + yq)
    BY <1>6, <1>7, CongOps DEF ap, bq, xp, yq
  <1> QED
    BY <1>3, <1>4, <1>5, <1>8 DEF ap, bq, xp, yq

\* The weights of a parabola's values at t.
WeightOne(t) == 1 + 2 * t + t * t - Root4 + Root4 * (t * t)
WeightRoot(t) == 2 * (1 - t * t)
WeightMinusOne(t) == 1 - 2 * t + t * t + Root4 - Root4 * (t * t)

\* They are integers.
LEMMA WeightTypes ==
    ASSUME NEW t \in Int
    PROVE  WeightOne(t) \in Int /\ WeightRoot(t) \in Int /\ WeightMinusOne(t) \in Int
  <1>1. Root4 \in Int
    BY RootsOfUnity, RepElt
  <1> QED
    BY <1>1 DEF WeightOne, WeightRoot, WeightMinusOne

\* A parabola weighs its values.
LEMMA ParabolaIs ==
    ASSUME NEW a \in Int, NEW b \in Int, NEW c \in Int, NEW t \in Int
    PROVE  /\ Parabola(a, b, c, t) \in Int
           /\ Parabola(a, b, c, t) = a * WeightOne(t) + c * WeightMinusOne(t) + b * WeightRoot(t)
  <1>1. Root4 \in Int
    BY RootsOfUnity, RepElt
  <1>2. Parabola(a, b, c, t) = a * WeightOne(t) + c * WeightMinusOne(t) + b * WeightRoot(t)
    BY <1>1 DEF Parabola, WeightOne, WeightRoot, WeightMinusOne
  <1> QED
    BY <1>2, WeightTypes

\* Congruent values make congruent parabolas.
LEMMA ParabolaCong ==
    ASSUME NEW u \in Int, NEW v \in Int, NEW o \in Int, NEW x \in Int, NEW y \in Int, NEW z \in Int,
           NEW t \in Int, Cong(u, x), Cong(v, y), Cong(o, z)
    PROVE  Cong(Parabola(u, v, o, t), Parabola(x, y, z, t))
  <1> DEFINE p == WeightOne(t)
             q == WeightRoot(t)
             r == WeightMinusOne(t)
             up == u * p
             vq == v * q
             or == o * r
             xp == x * p
             yq == y * q
             zr == z * r
  <1>1. Parabola(u, v, o, t) = up + or + vq
    BY ParabolaIs
  <1>2. Parabola(x, y, z, t) = xp + zr + yq
    BY ParabolaIs
  <1>3. p \in Int /\ q \in Int /\ r \in Int
    BY WeightTypes
  <1> HIDE DEF p, q, r
  <1>4. Cong(p, p) /\ Cong(q, q) /\ Cong(r, r)
    BY <1>3, CongRefl
  <1>5. Cong(up, xp) /\ Cong(vq, yq) /\ Cong(or, zr)
    BY <1>3, <1>4, CongOps
  <1>6. up \in Int /\ vq \in Int /\ or \in Int /\ xp \in Int /\ yq \in Int /\ zr \in Int
    BY <1>3
  <1> HIDE DEF up, vq, or, xp, yq, zr
  <1>7. Cong(up + or, xp + zr) /\ up + or \in Int /\ xp + zr \in Int
    BY <1>5, <1>6, CongOps
  <1>8. Cong((up + or) + vq, (xp + zr) + yq)
    BY <1>5, <1>6, <1>7, CongOps
  <1> QED
    BY <1>1, <1>2, <1>8

\* Parabolas add up as lines do.
LEMMA ParabolaLinear ==
    ASSUME NEW a \in Int, NEW b \in Int, NEW c \in Int, NEW d \in Int, NEW e \in Int, NEW f \in Int,
           NEW x \in Int, NEW y \in Int, NEW z \in Int, NEW t \in Int,
           Cong(a + d, x), Cong(b + e, y), Cong(c + f, z)
    PROVE  /\ Parabola(a, b, c, t) \in Int /\ Parabola(d, e, f, t) \in Int
           /\ Parabola(x, y, z, t) \in Int
           /\ Cong(Parabola(a, b, c, t) + Parabola(d, e, f, t), Parabola(x, y, z, t))
  <1> DEFINE u == a + d
             v == b + e
             o == c + f
             p == WeightOne(t)
             q == WeightRoot(t)
             r == WeightMinusOne(t)
  <1>1. u \in Int /\ v \in Int /\ o \in Int /\ Cong(u, x) /\ Cong(v, y) /\ Cong(o, z)
    OBVIOUS
  <1>2. Parabola(a, b, c, t) \in Int /\ Parabola(d, e, f, t) \in Int /\ Parabola(x, y, z, t) \in Int
    BY ParabolaIs, Zenon
  <1>3. p \in Int /\ q \in Int /\ r \in Int
    BY WeightTypes
  <1>4. Parabola(a, b, c, t) = a * p + c * r + b * q
    BY ParabolaIs
  <1>5. Parabola(d, e, f, t) = d * p + f * r + e * q
    BY ParabolaIs
  <1>6. Parabola(u, v, o, t) = u * p + o * r + v * q
    <2> HIDE DEF u, v, o
    <2> QED
      BY <1>1, ParabolaIs
  <1> HIDE DEF p, q, r
  <1>7. (a * p + c * r + b * q) + (d * p + f * r + e * q) = u * p + o * r + v * q
    BY <1>3
  <1> HIDE DEF u, v, o
  <1>8. Cong(Parabola(u, v, o, t), Parabola(x, y, z, t))
    BY <1>1, ParabolaCong
  <1>9. Parabola(a, b, c, t) + Parabola(d, e, f, t) = Parabola(u, v, o, t)
    BY <1>4, <1>5, <1>6, <1>7
  <1> QED
    BY <1>2, <1>8, <1>9

\* A sum of scaled numbers is the scaled sum.
LEMMA RepScaled ==
    ASSUME NEW a, NEW b, NEW k \in Int, NEW x \in Int, NEW y \in Int, NEW z \in Int,
           Rep(a, k * x), Rep(b, k * y), Cong(x + y, z)
    PROVE  Rep(Add(a, b), k * z)
  <1> DEFINE s == x + y
  <1>1. Rep(Add(a, b), k * x + k * y)
    BY RepOps, Zenon
  <1>2. k * x + k * y = k * s /\ s \in Int /\ k * z \in Int
    <2>1. \A i, j, n \in Int : i * j + i * n = i * (j + n) /\ i * j \in Int
      OBVIOUS
    <2> QED
      BY <2>1
  <1>3. Cong(k * s, k * z)
    <2>1. Cong(k, k) /\ Cong(s, z)
      BY CongRefl
    <2> HIDE DEF s
    <2> QED
      BY <1>2, <2>1, CongOps
  <1> HIDE DEF s
  <1> QED
    BY <1>1, <1>2, <1>3, RepCong

\* The parts of a shared proof.
Parts(lp, hp, proof) ==
    /\ lp \in Proofs /\ hp \in Proofs /\ proof \in Proofs
    /\ \A i \in 0..4 : Cong(lp[i] + hp[i], proof[i])

\* The verifier shares of the two Aggregators add up to the verifier of what
\* the Client shared.
LEMMA QueriesAdd ==
    ASSUME NEW l \in Elt, NEW h \in Elt, NEW m \in Elt, Cong(l + h, m),
           NEW lp, NEW hp, NEW proof, Parts(lp, hp, proof), NEW t \in Elt
    PROVE  Queried(VecAdd(Query(l, lp, t), Query(h, hp, t)), m, proof, t)
  <1> DEFINE u == Query(l, lp, t)
             v == Query(h, hp, t)
             s == VecAdd(u, v)
  <1>1. Queried(u, l, lp, t) /\ Queried(v, h, hp, t)
    BY QueryIs DEF Parts
  <1> HIDE DEF u, v
  <1>2. /\ s[1] = Add(u[1], v[1]) /\ s[2] = Add(u[2], v[2])
        /\ s[3] = Add(u[3], v[3]) /\ s[4] = Add(u[4], v[4])
        /\ s = <<s[1], s[2], s[3], s[4]>>
    <2>1. DOMAIN u = 1..4
      BY <1>1 DEF Queried
    <2>2. s = [i \in 1..4 |-> Add(u[i], v[i])]
      BY <2>1 DEF VecAdd
    <2> HIDE DEF s
    <2> QED
      BY <2>2
  <1> HIDE DEF s
  <1>3. /\ l \in Int /\ h \in Int /\ m \in Int /\ t \in Int
        /\ \A i \in 0..4 : lp[i] \in Int /\ hp[i] \in Int /\ proof[i] \in Int
    <2>1. \A e \in Elt : e \in Int
      BY RepElt
    <2>2. Proofs = [0..4 -> Elt]
      BY Lengths DEF Proofs, Arity
    <2> QED
      BY <2>1, <2>2 DEF Parts
  <1>4. 0 \in 0..4 /\ 1 \in 0..4 /\ 2 \in 0..4 /\ 3 \in 0..4 /\ 4 \in 0..4
    OBVIOUS
  <1>5. Half \in Int /\ Quarter \in Int
    BY Divisors
  <1>6. Rep(s[1], proof[4] - m)
    <2> DEFINE x == lp[4] + hp[4]
               y == l + h
    <2>1. Rep(s[1], (lp[4] - l) + (hp[4] - h))
      BY <1>1, <1>2, RepOps DEF Queried
    <2>2. (lp[4] - l) + (hp[4] - h) = x - y /\ x \in Int /\ y \in Int /\ proof[4] - m \in Int
      BY <1>3, <1>4
    <2>3. Cong(x, proof[4]) /\ Cong(y, m)
      BY <1>4 DEF Parts
    <2> HIDE DEF x, y
    <2>4. Cong(x - y, proof[4] - m)
      BY <1>3, <1>4, <2>2, <2>3, CongOps
    <2> QED
      BY <2>1, <2>2, <2>4, RepCong
  <1>7. Rep(s[2], Half * Line(proof[0], m, t))
    <2>1. /\ Line(lp[0], l, t) \in Int /\ Line(hp[0], h, t) \in Int /\ Line(proof[0], m, t) \in Int
          /\ Cong(Line(lp[0], l, t) + Line(hp[0], h, t), Line(proof[0], m, t))
      BY <1>3, <1>4, LineLinear DEF Parts
    <2> QED
      BY <1>1, <1>2, <1>5, <2>1, RepScaled DEF Queried
  <1>8. Rep(s[3], Half * Line(proof[1], m, t))
    <2>1. /\ Line(lp[1], l, t) \in Int /\ Line(hp[1], h, t) \in Int /\ Line(proof[1], m, t) \in Int
          /\ Cong(Line(lp[1], l, t) + Line(hp[1], h, t), Line(proof[1], m, t))
      BY <1>3, <1>4, LineLinear DEF Parts
    <2> QED
      BY <1>1, <1>2, <1>5, <2>1, RepScaled DEF Queried
  <1>9. Rep(s[4], Quarter * Parabola(proof[2], proof[3], proof[4], t))
    <2>1. /\ Parabola(lp[2], lp[3], lp[4], t) \in Int /\ Parabola(hp[2], hp[3], hp[4], t) \in Int
          /\ Parabola(proof[2], proof[3], proof[4], t) \in Int
          /\ Cong(Parabola(lp[2], lp[3], lp[4], t) + Parabola(hp[2], hp[3], hp[4], t),
                  Parabola(proof[2], proof[3], proof[4], t))
      BY <1>3, <1>4, ParabolaLinear DEF Parts
    <2> QED
      BY <1>1, <1>2, <1>5, <2>1, RepScaled DEF Queried
  <1> QED
    BY <1>2, <1>6, <1>7, <1>8, <1>9 DEF Queried, s, u, v

\* Halving twice is undone by four.
LEMMA HalvesTwice ==
    ASSUME NEW a \in Int, NEW b \in Int
    PROVE  (Half * a) * (Half * b) \in Int /\ Cong(4 * ((Half * a) * (Half * b)), a * b)
  <1> DEFINE h == Half
             d == 2 * h
             x == 4 * ((h * a) * (h * b))
             y == a * b
             c == (d + 1) * y
  <1>1. h \in Int /\ Cong(d, 1)
    BY Divisors
  <1> HIDE DEF h
  <1>2. x \in Int /\ y \in Int /\ d \in Int /\ c \in Int /\ 1 \in Int /\ (h * a) * (h * b) \in Int
    BY <1>1
  <1>3. x = y + (d - 1) * c
    <2>1. x = (d * d) * y
      BY <1>1
    <2> HIDE DEF x, y, d
    <2> QED
      BY <1>2, <2>1
  <1> HIDE DEF x, y, d, c
  <1>4. Cong(x, y)
    BY <1>1, <1>2, <1>3, CongBy, Zenon
  <1> QED
    BY <1>2, <1>4 DEF x, y, h

\* Quartering is undone by four.
LEMMA QuartersBack ==
    ASSUME NEW n \in Int
    PROVE  Quarter * n \in Int /\ Cong(4 * (Quarter * n), n)
  <1> DEFINE d == 4 * Quarter
             x == 4 * (Quarter * n)
  <1>1. Quarter \in Int /\ Cong(d, 1)
    BY Divisors
  <1>2. d \in Int /\ x \in Int /\ 1 \in Int /\ Quarter * n \in Int /\ x = n + (d - 1) * n
    BY <1>1
  <1> HIDE DEF d, x
  <1>3. Cong(x, n)
    BY <1>1, <1>2, CongBy, Zenon
  <1> QED
    BY <1>2, <1>3 DEF x

\* Two and four cancel.
LEMMA CancelSmall ==
    ASSUME NEW x \in Int, NEW y \in Int
    PROVE  /\ Cong(2 * x, 2 * y) => Cong(x, y)
           /\ Cong(4 * x, 4 * y) => Cong(x, y)
  <1>1. 2 \in Units /\ 4 \in Units /\ New(2) = 2 /\ New(4) = 4
    BY Widths, Sizes DEF Units, Elt, New, Canonical
  <1>2. 2 \in Elt /\ 4 \in Elt
    BY <1>1 DEF Units
  <1>3. /\ Half \in Elt /\ Mul(2, Half) = 1
        /\ Quarter \in Elt /\ Mul(4, Quarter) = 1
    BY <1>1, Widths, InvIs, FieldAssumption DEF Half, Quarter
  <1>4. ASSUME Cong(2 * x, 2 * y) PROVE Cong(x, y)
    BY <1>2, <1>3, <1>4, CongCancel, FieldAssumption, Zenon
  <1>5. ASSUME Cong(4 * x, 4 * y) PROVE Cong(x, y)
    BY <1>2, <1>3, <1>5, CongCancel, FieldAssumption, Zenon
  <1> QED
    BY <1>4, <1>5, Zenon

\* What a proof has to satisfy at the test point.
Consistent(m, proof, t) ==
    Cong(Line(proof[0], m, t) * Line(proof[1], m, t),
         Parabola(proof[2], proof[3], proof[4], t))

\* The parts of the verdict's equations are integers.
LEMMA PartsInt ==
    ASSUME NEW m \in Elt, NEW proof \in Proofs, NEW t \in Elt
    PROVE  /\ m \in Int /\ t \in Int /\ \A i \in 0..4 : proof[i] \in Elt /\ proof[i] \in Int
           /\ Line(proof[0], m, t) \in Int /\ Line(proof[1], m, t) \in Int
           /\ Parabola(proof[2], proof[3], proof[4], t) \in Int
  <1>1. Proofs = [0..4 -> Elt]
    BY Lengths DEF Proofs, Arity
  <1>2. \A e \in Elt : e \in Int
    BY RepElt
  <1>3. m \in Int /\ t \in Int /\ \A i \in 0..4 : proof[i] \in Elt /\ proof[i] \in Int
    BY <1>1, <1>2
  <1>4. \A a, b \in Int : Line(a, b, t) \in Int
    BY <1>3 DEF Line
  <1>5. /\ proof[0] \in Int /\ proof[1] \in Int /\ proof[2] \in Int
        /\ proof[3] \in Int /\ proof[4] \in Int
    BY <1>3
  <1>6. Parabola(proof[2], proof[3], proof[4], t) \in Int
    BY <1>3, <1>5, RoundsParabola
  <1> QED
    BY <1>3, <1>4, <1>5, <1>6

\* The verdict: the circuit puts out zero, and the gadget polynomial is at the
\* test point the product of the wires.
LEMMA Verdict ==
    ASSUME NEW v, NEW m \in Elt, NEW proof \in Proofs, NEW t \in Elt, Queried(v, m, proof, t)
    PROVE  Decide(v) <=> Cong(proof[4], m) /\ Consistent(m, proof, t)
  <1> DEFINE a == Line(proof[0], m, t)
             b == Line(proof[1], m, t)
             n == Parabola(proof[2], proof[3], proof[4], t)
             x == (Half * a) * (Half * b)
             y == Quarter * n
             ab == a * b
             c == proof[4]
  <1>1. m \in Int /\ c \in Int /\ a \in Int /\ b \in Int /\ n \in Int
    BY PartsInt
  <1>2. v[1] = 0 <=> Cong(c, m)
    <2>1. Rep(v[1], c - m) /\ Rep(0, 0)
      BY Constants, RepElt DEF Queried
    <2>2. v[1] = 0 <=> Cong(c - m, 0)
      BY <2>1, RepEqual
    <2>3. Cong(m, m)
      BY <1>1, CongRefl
    <2> HIDE DEF c
    <2>4. ASSUME Cong(c, m) PROVE Cong(c - m, 0)
      <3>1. Cong(c - m, m - m)
        BY <1>1, <2>3, <2>4, CongOps
      <3>2. m - m = 0
        BY <1>1
      <3> QED
        BY <3>1, <3>2
    <2>5. ASSUME Cong(c - m, 0) PROVE Cong(c, m)
      <3> DEFINE d == c - m
      <3>1. d \in Int /\ 0 \in Int /\ Cong(d, 0) /\ d + m = c /\ 0 + m = m
        BY <1>1, <2>5
      <3> HIDE DEF d
      <3>2. Cong(d + m, 0 + m)
        BY <1>1, <2>3, <3>1, CongOps
      <3> QED
        BY <3>1, <3>2
    <2> QED
      BY <2>2, <2>4, <2>5
  <1> HIDE DEF a, b, n, c
  <1>3. Mul(v[2], v[3]) = v[4] <=> Cong(x, y)
    <2>1. Rep(Mul(v[2], v[3]), x) /\ Rep(v[4], y)
      BY RepOps, Zenon DEF Queried, a, b, n
    <2> QED
      BY <2>1, RepEqual
  <1>4. /\ x \in Int /\ y \in Int /\ ab \in Int /\ 4 * x \in Int /\ 4 * y \in Int
        /\ Cong(4 * x, ab) /\ Cong(4 * y, n)
    <2>1. x \in Int /\ Cong(4 * x, ab)
      BY <1>1, HalvesTwice
    <2>2. y \in Int /\ Cong(4 * y, n)
      BY <1>1, QuartersBack
    <2>3. ab \in Int
      BY <1>1
    <2> HIDE DEF x, y, ab
    <2> QED
      BY <2>1, <2>2, <2>3
  <1> HIDE DEF x, y, ab
  <1> DEFINE x4 == 4 * x
             y4 == 4 * y
  <1>5. x4 \in Int /\ y4 \in Int /\ Cong(x4, ab) /\ Cong(y4, n)
    BY <1>4
  <1>6. Cong(x, y) => Cong(x4, y4)
    <2>1. Cong(4, 4) /\ 4 \in Int
      BY CongRefl
    <2> QED
      BY <1>4, <2>1, CongOps
  <1>7. Cong(x4, y4) => Cong(x, y)
    BY <1>4, CancelSmall
  <1> HIDE DEF x4, y4
  <1>8. Cong(x4, y4) <=> Cong(ab, n)
    <2>1. Cong(ab, x4) /\ Cong(n, y4)
      BY <1>1, <1>4, <1>5, CongSym
    <2>2. ASSUME Cong(x4, y4) PROVE Cong(ab, n)
      <3>1. Cong(ab, y4)
        BY <1>4, <1>5, <2>1, <2>2, CongTrans
      <3> QED
        BY <1>1, <1>4, <1>5, <3>1, CongTrans
    <2>3. ASSUME Cong(ab, n) PROVE Cong(x4, y4)
      <3>1. Cong(x4, n)
        BY <1>1, <1>4, <1>5, <2>3, CongTrans
      <3> QED
        BY <1>1, <1>5, <2>1, <3>1, CongTrans
    <2> QED
      BY <2>2, <2>3
  <1> QED
    BY <1>2, <1>3, <1>6, <1>7, <1>8 DEF Decide, Consistent, ab, a, b, n, c

-----------------------------------------------------------------------------
(* Honest proofs.                                                           *)

\* Twice the gadget polynomial of an honest proof at its second node.
LEMMA MiddleIs ==
    ASSUME NEW s \in Int, NEW r \in Int, NEW m \in Int
    PROVE  /\ Middle(s, r, m) \in Int
           /\ Root4 * (s * r) + m * (s + r) - Root4 * (m * m) \in Int
           /\ Cong(2 * Middle(s, r, m), Root4 * (s * r) + m * (s + r) - Root4 * (m * m))
  <1> DEFINE w == Root4
             a == s * (1 + w) + m * (1 - w)
             b == r * (1 + w) + m * (1 - w)
             k == w * (s * r) + m * (s + r) - w * (m * m)
             e == Middle(s, r, m)
             c == s * r - m * (s + r) + m * m
             ab == a * b
             k2 == 2 * k
  <1>1. w \in Int /\ w * w \in Int /\ Cong(w * w, -1)
    BY RootsOfUnity, RepElt
  <1>2. e = (Half * a) * (Half * b)
    BY DEF Middle
  <1> HIDE DEF w
  <1>3. a \in Int /\ b \in Int /\ k \in Int /\ c \in Int /\ ab \in Int /\ k2 \in Int /\ -1 \in Int
    BY <1>1
  <1>4. ab = k2 + (w * w - (-1)) * c
    BY <1>1
  <1> HIDE DEF a, b, e, k, c
  <1>5. e \in Int /\ Cong(4 * e, ab)
    BY <1>2, <1>3, HalvesTwice
  <1> HIDE DEF ab, k2
  <1>6. Cong(ab, k2)
    BY <1>1, <1>3, <1>4, CongBy, Zenon
  <1> DEFINE e4 == 4 * e
             e2 == 2 * e
  <1>7. e4 \in Int /\ e2 \in Int /\ e4 = 2 * e2 /\ Cong(e4, ab)
    BY <1>5
  <1> HIDE DEF e4, e2
  <1>8. Cong(e4, k2)
    BY <1>3, <1>6, <1>7, CongTrans
  <1>9. Cong(2 * e2, 2 * k)
    BY <1>7, <1>8 DEF k2
  <1>10. Cong(e2, k)
    BY <1>3, <1>7, <1>9, CancelSmall
  <1> QED
    BY <1>3, <1>5, <1>10 DEF e2, e, k, w

\* The product of two lines with the same value at minus one.
LEMMA LineProduct ==
    ASSUME NEW s \in Int, NEW r \in Int, NEW m \in Int, NEW t \in Int
    PROVE  Line(s, m, t) * Line(r, m, t)
               = (s * r) * ((1 + t) * (1 + t)) + (m * (s + r)) * (1 - t * t)
                     + (m * m) * ((1 - t) * (1 - t))
  BY DEF Line

\* The gadget polynomial of an honest proof is the product of the wires.
LEMMA HonestParabola ==
    ASSUME NEW s \in Int, NEW r \in Int, NEW m \in Int, NEW t \in Int
    PROVE  /\ Line(s, m, t) * Line(r, m, t) \in Int
           /\ Parabola(s * r, Middle(s, r, m), m * m, t) \in Int
           /\ Cong(Parabola(s * r, Middle(s, r, m), m * m, t), Line(s, m, t) * Line(r, m, t))
  <1> DEFINE w == Root4
             b == Middle(s, r, m)
             k == w * (s * r) + m * (s + r) - w * (m * m)
             q == t * t
             o == 1 - q
             d == 2 * b
             n == Parabola(s * r, b, m * m, t)
             l == Line(s, m, t) * Line(r, m, t)
             g == (s * r) * (1 + 2 * t + q - w + w * q) + (m * m) * (1 - 2 * t + q + w - w * q)
  <1>1. b \in Int /\ k \in Int /\ Cong(d, k) /\ w \in Int
    BY MiddleIs, RootsOfUnity, RepElt
  <1> HIDE DEF b, w
  <1>2. n = g + d * o
    BY <1>1 DEF Parabola, w
  <1>3. l = g + k * o
    <2>1. l = (s * r) * ((1 + t) * (1 + t)) + (m * (s + r)) * o + (m * m) * ((1 - t) * (1 - t))
      BY LineProduct
    <2>2. k * o = (s * r) * (w * o) + (m * (s + r)) * o - (m * m) * (w * o)
      <3> DEFINE sr == s * r
                 ms == m * (s + r)
                 mm == m * m
      <3>1. sr \in Int /\ ms \in Int /\ mm \in Int /\ o \in Int /\ k = w * sr + ms - w * mm
        OBVIOUS
      <3> HIDE DEF sr, ms, mm, o, k
      <3>2. k * o = sr * (w * o) + ms * o - mm * (w * o)
        BY <1>1, <3>1
      <3> QED
        BY <3>2 DEF sr, ms, mm
    <2>3. /\ (1 + t) * (1 + t) = 1 + 2 * t + q
          /\ (1 - t) * (1 - t) = 1 - 2 * t + q
          /\ w * o = w - w * q
      BY <1>1
    <2> DEFINE sr == s * r
               ms == m * (s + r)
               mm == m * m
               wo == w * o
               wq == w * q
    <2>4. /\ sr \in Int /\ ms \in Int /\ mm \in Int /\ q \in Int
          /\ o \in Int /\ wo \in Int /\ wq \in Int
          /\ wo = w - wq
          /\ l = sr * (1 + 2 * t + q) + ms * o + mm * (1 - 2 * t + q)
          /\ k * o = sr * wo + ms * o - mm * wo
          /\ g = sr * (1 + 2 * t + q - w + wq) + mm * (1 - 2 * t + q + w - wq)
      BY <1>1, <2>1, <2>2, <2>3
    <2> HIDE DEF sr, ms, mm, q, o, wo, wq, l, k, g
    <2>5. g + k * o = sr * (1 + 2 * t + q) + ms * o + mm * (1 - 2 * t + q)
      BY <1>1, <2>4
    <2> QED
      BY <2>4, <2>5
  <1>4. n \in Int /\ l \in Int /\ o \in Int /\ d \in Int /\ g \in Int
    BY <1>1 DEF Parabola, Line, w
  <1> HIDE DEF n, l, o, d, g, k
  <1>5. n = l + (d - k) * o
    BY <1>1, <1>2, <1>3, <1>4
  <1>6. Cong(n, l)
    BY <1>1, <1>4, <1>5, CongBy, Zenon
  <1> QED
    BY <1>4, <1>6 DEF n, l, b

\* An honest proof of 0 or 1 satisfies the verdict at every test point.
LEMMA HonestConsistent ==
    ASSUME NEW m \in {0, 1}, NEW seeds \in Seeds, NEW t \in Elt
    PROVE  /\ Cong(Prove(m, seeds)[4], m)
           /\ Consistent(m, Prove(m, seeds), t)
  <1> DEFINE p == Prove(m, seeds)
             s == seeds[0]
             r == seeds[1]
             n == Parabola(p[2], p[3], p[4], t)
             x == Parabola(s * r, Middle(s, r, m), m * m, t)
             l == Line(s, m, t) * Line(r, m, t)
  <1>1. m \in Elt /\ m * m = m
    BY Constants
  <1>2. /\ p \in Proofs /\ p[0] = s /\ p[1] = r /\ Rep(p[2], s * r)
        /\ Rep(p[3], Middle(s, r, m)) /\ Rep(p[4], m * m)
    BY <1>1, ProofIs
  <1> HIDE DEF p
  <1>3. s \in Int /\ r \in Int /\ m \in Int /\ t \in Int
    <2>1. s \in Elt /\ r \in Elt
      BY DEF Seeds, Arity
    <2>2. \A e \in Elt : e \in Int
      BY RepElt
    <2> QED
      BY <1>1, <2>1, <2>2, Zenon
  <1>4. p[2] \in Int /\ p[3] \in Int /\ p[4] \in Int /\ n \in Int
    BY <1>1, <1>2, PartsInt
  <1>5. Cong(n, x)
    <2>1. /\ Cong(p[2], s * r) /\ Cong(p[3], Middle(s, r, m)) /\ Cong(p[4], m * m)
          /\ s * r \in Int /\ Middle(s, r, m) \in Int /\ m * m \in Int
      BY <1>2 DEF Rep
    <2> HIDE DEF s, r
    <2> QED
      BY <1>3, <1>4, <2>1, ParabolaCong, Zenon
  <1>6. x \in Int /\ l \in Int /\ Cong(x, l)
    BY <1>3, HonestParabola
  <1>7. Cong(l, n)
    <2> HIDE DEF l, n, x
    <2> QED
      BY <1>4, <1>5, <1>6, CongTrans, CongSym
  <1>8. Cong(p[4], m)
    BY <1>1, <1>2 DEF Rep
  <1> QED
    BY <1>2, <1>7, <1>8 DEF Consistent, p

-----------------------------------------------------------------------------
(* Soundness: a quadratic other than zero has no three roots.               *)

\* Every integer has its element.
LEMMA IntRep ==
    ASSUME NEW x \in Int
    PROVE  x % Modulus \in Elt /\ Rep(x % Modulus, x)
  <1>1. x % Modulus \in Elt
    BY Sizes, DivMod DEF Elt
  <1>2. \E k \in Int : x % Modulus = x + Modulus * k
    BY ModIs
  <1> QED
    BY <1>1, <1>2 DEF Rep, Cong

\* A product is zero only if a factor is.
LEMMA ZeroProduct ==
    ASSUME NEW x \in Int, NEW y \in Int, Cong(x * y, 0)
    PROVE  Cong(x, 0) \/ Cong(y, 0)
  <1>1. PICK a \in Elt : Rep(a, x)
    BY IntRep
  <1>2. PICK b \in Elt : Rep(b, y)
    BY IntRep
  <1>3. Rep(Mul(a, b), x * y) /\ Rep(0, 0)
    BY <1>1, <1>2, RepOps, RepElt, Constants
  <1>4. Mul(a, b) = 0
    BY <1>3, RepEqual, Zenon
  <1>5. a = 0 \/ b = 0
    BY <1>4, UnitsMul, FieldAssumption DEF Units
  <1> QED
    BY <1>1, <1>2, <1>3, <1>5, RepEqual

\* The difference of congruent numbers, and of different elements.
LEMMA CongDiff ==
    ASSUME NEW x \in Int, NEW y \in Int
    PROVE  Cong(x, y) <=> Cong(x - y, 0)
  <1>1. Cong(y, y)
    BY CongRefl
  <1>2. ASSUME Cong(x, y) PROVE Cong(x - y, 0)
    <2>1. Cong(x - y, y - y)
      BY <1>1, <1>2, CongOps
    <2>2. y - y = 0
      OBVIOUS
    <2> QED
      BY <2>1, <2>2
  <1>3. ASSUME Cong(x - y, 0) PROVE Cong(x, y)
    <2> DEFINE d == x - y
    <2>1. d \in Int /\ 0 \in Int /\ Cong(d, 0) /\ d + y = x /\ 0 + y = y
      BY <1>3
    <2> HIDE DEF d
    <2>2. Cong(d + y, 0 + y)
      BY <1>1, <2>1, CongOps
    <2> QED
      BY <2>1, <2>2
  <1> QED
    BY <1>2, <1>3

\* Zero plus and minus zero is zero.
LEMMA CongZero ==
    ASSUME NEW x \in Int, NEW y \in Int, Cong(x, 0), Cong(y, 0)
    PROVE  Cong(x + y, 0) /\ Cong(x - y, 0)
  <1>1. Cong(x + y, 0 + 0) /\ Cong(x - y, 0 - 0)
    BY CongOps
  <1>2. 0 + 0 = 0 /\ 0 - 0 = 0
    OBVIOUS
  <1> QED
    BY <1>1, <1>2

\* Zero times anything is zero.
LEMMA CongZeroTimes ==
    ASSUME NEW x \in Int, Cong(x, 0), NEW k \in Int
    PROVE  Cong(x * k, 0)
  <1>1. x * k \in Int /\ 0 \in Int /\ x * k = 0 + (x - 0) * k
    OBVIOUS
  <1> QED
    BY <1>1, CongBy, Zenon

\* Two roots of a quadratic, divided by their difference.
LEMMA RootPair ==
    ASSUME NEW a \in Int, NEW b \in Int, NEW c \in Int, NEW x \in Elt, NEW y \in Elt, x # y,
           Cong(a * (x * x) + b * x + c, 0), Cong(a * (y * y) + b * y + c, 0)
    PROVE  Cong(a * (x + y) + b, 0)
  <1> DEFINE f == a * (x * x) + b * x + c
             g == a * (y * y) + b * y + c
             d == x - y
             e == a * (x + y) + b
  <1>1. x \in Int /\ y \in Int
    BY RepElt
  <1>2. f \in Int /\ g \in Int /\ d \in Int /\ e \in Int /\ Cong(f, 0) /\ Cong(g, 0)
    BY <1>1
  <1>3. f - g = d * e
    BY <1>1
  <1> HIDE DEF f, g, e
  <1>4. Cong(d * e, 0)
    <2>1. Cong(f - g, 0)
      BY <1>2, CongZero
    <2> QED
      BY <1>3, <2>1
  <1>5. ~Cong(d, 0)
    BY <1>1, CongDiff, CongElt
  <1> HIDE DEF d
  <1>6. Cong(e, 0)
    BY <1>2, <1>4, <1>5, ZeroProduct
  <1> QED
    BY <1>6 DEF e

\* Three roots make a quadratic zero everywhere, at minus one too.
LEMMA ThreeRoots ==
    ASSUME NEW a \in Int, NEW b \in Int, NEW c \in Int, NEW x \in Elt, NEW y \in Elt, NEW z \in Elt,
           x # y, x # z, y # z, Cong(a * (x * x) + b * x + c, 0),
           Cong(a * (y * y) + b * y + c, 0), Cong(a * (z * z) + b * z + c, 0)
    PROVE  Cong(a - b + c, 0)
  <1>1. x \in Int /\ y \in Int /\ z \in Int
    BY RepElt
  <1> DEFINE e == a * (x + y) + b
             f == a * (x + z) + b
             d == y - z
             s == x + y
             q == x * x
             g == a * q + b * x + c
  <1>2. Cong(e, 0) /\ Cong(f, 0)
    BY RootPair
  <1>3. e \in Int /\ f \in Int /\ d \in Int /\ s \in Int /\ q \in Int /\ e - f = d * a /\ g \in Int
    BY <1>1
  <1>4. Cong(a, 0)
    <2> HIDE DEF e, f
    <2>1. Cong(e - f, 0)
      BY <1>2, <1>3, CongZero
    <2>2. Cong(d * a, 0)
      BY <1>3, <2>1
    <2>3. ~Cong(d, 0)
      BY <1>1, CongDiff, CongElt
    <2> HIDE DEF d
    <2> QED
      BY <1>3, <2>2, <2>3, ZeroProduct
  <1>5. Cong(b, 0)
    <2> DEFINE k == a * s
    <2>1. k \in Int /\ Cong(k, 0) /\ e = k + b
      <3>1. k \in Int /\ e = k + b
        BY <1>3
      <3> HIDE DEF s
      <3> QED
        BY <1>3, <1>4, <3>1, CongZeroTimes
    <2>2. e - k = b
      BY <1>3, <2>1
    <2> HIDE DEF e, k
    <2>3. Cong(e - k, 0)
      BY <1>2, <1>3, <2>1, CongZero
    <2> QED
      BY <2>2, <2>3
  <1>6. Cong(c, 0)
    <2> DEFINE k == a * q
               l == b * x
    <2>1. k \in Int /\ l \in Int
      BY <1>1, <1>3
    <2> HIDE DEF q
    <2>2. Cong(k, 0) /\ Cong(l, 0)
      BY <1>1, <1>3, <1>4, <1>5, CongZeroTimes
    <2>3. g - k - l = c /\ Cong(g, 0)
      BY <1>3, <2>1 DEF q
    <2> HIDE DEF g, k, l
    <2>4. Cong(g - k, 0) /\ g - k \in Int
      BY <1>3, <2>1, <2>2, <2>3, CongZero
    <2>5. Cong(g - k - l, 0)
      BY <2>1, <2>2, <2>4, CongZero
    <2> QED
      BY <2>3, <2>5
  <1>7. Cong(a - b, 0) /\ a - b \in Int
    BY <1>4, <1>5, CongZero
  <1> QED
    BY <1>6, <1>7, CongZero

\* A consistent proof is a root of a quadratic that is, at minus one, four times
\* the circuit's output less its claim.
LEMMA GapQuadratic ==
    ASSUME NEW m \in Elt, NEW proof \in Proofs
    PROVE  \E a, b, c \in Int :
               /\ a - b + c = 4 * (m * m - proof[4])
               /\ \A t \in Elt : Consistent(m, proof, t) => Cong(a * (t * t) + b * t + c, 0)
  <1> DEFINE w == Root4
             s == proof[0]
             r == proof[1]
             p0 == proof[2]
             p1 == proof[3]
             p2 == proof[4]
             sr == s * r
             ms == m * (s + r)
             mm == m * m
             a == (sr - ms + mm) - (p0 * (1 + w) + p2 * (1 - w) - 2 * p1)
             b == 2 * (sr - mm) - 2 * (p0 - p2)
             c == (sr + ms + mm) - (p0 * (1 - w) + p2 * (1 + w) + 2 * p1)
  <1>1. 0 \in Elt
    BY Constants
  <1>2. /\ m \in Int /\ s \in Int /\ r \in Int /\ p0 \in Int
        /\ p1 \in Int /\ p2 \in Int /\ w \in Int
    BY <1>1, PartsInt, RootsOfUnity, RepElt
  <1>3. sr \in Int /\ ms \in Int /\ mm \in Int
    BY <1>2
  <1>4. a \in Int /\ b \in Int /\ c \in Int
    <2> HIDE DEF sr, ms, mm, w, p0, p1, p2
    <2> QED
      BY <1>2, <1>3
  <1>5. a - b + c = 4 * (mm - p2)
    <2> HIDE DEF sr, ms, mm, w, p0, p1, p2
    <2> QED
      BY <1>2, <1>3
  <1>6. ASSUME NEW t \in Elt, Consistent(m, proof, t)
        PROVE  Cong(a * (t * t) + b * t + c, 0)
    <2> DEFINE l == Line(s, m, t) * Line(r, m, t)
               n == Parabola(p0, p1, p2, t)
               q == t * t
    <2>1. t \in Int /\ q \in Int /\ n \in Int /\ l \in Int
      <3>1. Line(s, m, t) \in Int /\ Line(r, m, t) \in Int /\ n \in Int /\ t \in Int
        BY PartsInt
      <3> QED
        BY <3>1
    <2>2. l = sr * (1 + 2 * t + q) + ms * (1 - q) + mm * (1 - 2 * t + q)
      <3>1. l = (s * r) * ((1 + t) * (1 + t)) + (m * (s + r)) * (1 - t * t)
                    + (m * m) * ((1 - t) * (1 - t))
        <4>1. s \in Int /\ r \in Int /\ m \in Int /\ t \in Int
          BY <1>2, <2>1
        <4> HIDE <1>2, <2>1, <1>6
        <4> HIDE DEF s, r
        <4> QED
          BY <4>1, LineProduct
      <3>2. (1 + t) * (1 + t) = 1 + 2 * t + q /\ (1 - t) * (1 - t) = 1 - 2 * t + q
        BY <2>1
      <3> QED
        BY <3>1, <3>2
    <2>3. n = p0 * (1 + 2 * t + q - w + w * q) + p2 * (1 - 2 * t + q + w - w * q) + 2 * p1 * (1 - q)
      BY DEF Parabola
    <2>4. Cong(l, n)
      BY <1>6 DEF Consistent
    <2> HIDE DEF l, n, q, sr, ms, mm, w, p0, p1, p2
    <2>5. l - n = a * q + b * t + c
      BY <1>2, <1>3, <2>1, <2>2, <2>3
    <2>6. Cong(l - n, 0)
      BY <2>1, <2>4, CongDiff
    <2> QED
      BY <2>5, <2>6 DEF q
  <1> HIDE DEF a, b, c
  <1> QED
    BY <1>4, <1>5, <1>6

\* No measurement but 0 and 1 has a proof that satisfies the verdict at three points.
LEMMA NoThreePoints ==
    ASSUME NEW m \in Elt, ~Encodes(m), NEW proof \in Proofs, Cong(proof[4], m),
           NEW x \in Elt, NEW y \in Elt, NEW z \in Elt, x # y, x # z, y # z,
           Consistent(m, proof, x), Consistent(m, proof, y), Consistent(m, proof, z)
    PROVE  FALSE
  <1>1. PICK a, b, c \in Int :
               /\ a - b + c = 4 * (m * m - proof[4])
               /\ \A t \in Elt : Consistent(m, proof, t) => Cong(a * (t * t) + b * t + c, 0)
    BY GapQuadratic
  <1>2. Cong(a - b + c, 0)
    BY <1>1, ThreeRoots
  <1> DEFINE p == proof[4]
             d == m * m - p
             e == p - m
             g == m * (m - 1)
  <1>3. m \in Int /\ p \in Int
    BY PartsInt
  <1>4. d \in Int /\ e \in Int /\ g \in Int /\ d + e = g /\ m - 1 \in Int
    BY <1>3
  <1>5. Cong(d, 0)
    <2>1. Cong(4 * d, 4 * 0)
      BY <1>1, <1>2
    <2> HIDE DEF d
    <2> QED
      BY <1>4, <2>1, CancelSmall
  <1>6. Cong(e, 0)
    BY <1>3, CongDiff
  <1>7. Cong(g, 0)
    <2> HIDE DEF d, e, g
    <2> QED
      BY <1>4, <1>5, <1>6, CongZero
  <1>8. Cong(m, 0) \/ Cong(m - 1, 0)
    BY <1>3, <1>4, <1>7, ZeroProduct
  <1>9. m = 0 \/ m = 1
    BY <1>3, <1>8, CongDiff, CongElt, Constants
  <1> QED
    BY <1>9 DEF Encodes

-----------------------------------------------------------------------------
(* Zero knowledge: every pair of wire values has its seeds.                 *)

\* A test point is refused when it is a node of the wires.
LEMMA RefusedIs ==
    ASSUME NEW t \in Elt
    PROVE  QueryRefused(t) <=> Mul(t, t) = 1
  <1>1. 2 \in Word
    BY Widths, Sizes DEF Word
  <1> QED
    BY <1>1, Widths, PowWord, SmallPowers, Lengths DEF QueryRefused

\* Any value of a wire at an allowed test point is that of a seed.
LEMMA SeedFor ==
    ASSUME NEW t \in Elt, ~QueryRefused(t), NEW m \in Elt, NEW a \in Elt
    PROVE  \E s \in Elt : Rep(a, Half * Line(s, m, t))
  <1>1. t \in Int /\ m \in Int /\ a \in Int /\ Half \in Int /\ Rep(t, t) /\ Rep(1, 1) /\ Rep(0, 0)
    BY RepElt, Constants, Divisors
  <1> DEFINE p == Add(1, t)
             n == 1 + t
  <1>2. Rep(p, n) /\ n \in Int
    BY <1>1, RepOps
  <1>3. p \in Units
    <2> SUFFICES ASSUME p = 0 PROVE FALSE
      BY <1>2 DEF Units, Rep
    <2>1. Cong(n, 0)
      BY <1>1, <1>2, RepEqual
    <2> DEFINE x == t * t
    <2>2. x \in Int /\ 1 \in Int /\ 0 \in Int /\ t - 1 \in Int /\ x = 1 + (n - 0) * (t - 1)
      BY <1>1
    <2> HIDE DEF x, n
    <2>3. Cong(x, 1)
      BY <1>2, <2>1, <2>2, CongBy, Zenon
    <2>4. Rep(Mul(t, t), x)
      BY <1>1, RepOps DEF x
    <2>5. Mul(t, t) = 1
      BY <1>1, <2>3, <2>4, RepEqual
    <2> QED
      BY <2>5, RefusedIs
  <1> DEFINE i == Inv(p, WordBits)
             j == n * i
  <1>4. i \in Elt /\ Mul(p, i) = 1
    BY <1>3, Widths, InvIs, FieldAssumption
  <1> HIDE DEF i, p
  <1>5. i \in Int /\ Cong(j, 1) /\ j \in Int
    <2>1. i \in Int /\ Rep(i, i)
      BY <1>4, RepElt
    <2> HIDE DEF n
    <2>2. Rep(Mul(p, i), j)
      BY <1>2, <2>1, RepOps
    <2>3. Rep(1, j)
      BY <1>4, <2>2, Zenon
    <2>4. Cong(j, 1)
      BY <1>1, <2>3, RepSame, Zenon
    <2> QED
      BY <2>1, <2>3, <2>4, Zenon DEF Rep
  <1> DEFINE k == m * (1 - t)
             d == 2 * a - k
             y == d * i
             s == y % Modulus
  <1>6. k \in Int /\ d \in Int /\ y \in Int
    BY <1>1, <1>5
  <1>7. s \in Elt /\ Rep(s, y)
    <2> HIDE DEF y
    <2> QED
      BY <1>6, IntRep
  <1> HIDE DEF s
  <1>8. s \in Int /\ Cong(s, y)
    BY <1>7, RepElt DEF Rep
  <1> DEFINE l == s * n + k
             u == y * n + k
             v == 2 * a
  <1>9. l \in Int /\ u \in Int /\ v \in Int
    <2> HIDE DEF y, n, k
    <2> QED
      BY <1>1, <1>2, <1>6, <1>8
  <1>10. Cong(l, u)
    <2>1. l = u + (s - y) * n
      <3> HIDE DEF y, n, k
      <3> QED
        BY <1>2, <1>6, <1>8
    <2> HIDE DEF l, u, y, n, k
    <2> QED
      BY <1>2, <1>6, <1>8, <1>9, <2>1, CongBy, Zenon
  <1>11. Cong(u, v)
    <2>1. u = v + (j - 1) * d
      <3>1. y * n = j * d
        <4> HIDE DEF d, n
        <4> QED
          BY <1>2, <1>5, <1>6
      <3>2. v = d + k
        <4> HIDE DEF k
        <4> QED
          BY <1>1, <1>6
      <3> HIDE DEF y, j, k, d, v
      <3> QED
        BY <1>5, <1>6, <3>1, <3>2
    <2>2. 1 \in Int
      OBVIOUS
    <2> HIDE DEF u, v, j, d
    <2> QED
      BY <1>5, <1>6, <1>9, <2>1, <2>2, CongBy, Zenon
  <1> DEFINE h == 2 * Half
             f == Half * l
             g == Half * v
  <1>12. Cong(f, g) /\ f \in Int /\ g \in Int
    <2> HIDE DEF l, u, v
    <2>1. Cong(l, v)
      BY <1>9, <1>10, <1>11, CongTrans
    <2>2. Cong(Half, Half)
      BY <1>1, CongRefl
    <2> QED
      BY <1>1, <1>9, <2>1, <2>2, CongOps
  <1>13. Cong(g, a)
    <2>1. g = a + (h - 1) * a /\ h \in Int /\ Cong(h, 1) /\ 1 \in Int
      BY <1>1, Divisors
    <2> HIDE DEF g, h
    <2> QED
      BY <1>1, <1>12, <2>1, CongBy, Zenon
  <1>14. Cong(a, f)
    <2> HIDE DEF f, g
    <2> QED
      BY <1>1, <1>12, <1>13, CongTrans, CongSym
  <1>15. f = Half * Line(s, m, t)
    BY DEF Line
  <1> QED
    BY <1>7, <1>12, <1>14, <1>15 DEF Rep

\* The verifiers that say nothing: any two wire values and their product.
Simulated == {<<0, a, b, Mul(a, b)>> : a, b \in Elt}

\* The verifier of an honest proof is one of them.
LEMMA HonestSimulated ==
    ASSUME NEW m \in {0, 1}, NEW seeds \in Seeds, NEW t \in Elt
    PROVE  LET v == Query(m, Prove(m, seeds), t)
           IN  /\ v = <<0, v[2], v[3], Mul(v[2], v[3])>> /\ v[2] \in Elt /\ v[3] \in Elt
               /\ Rep(v[2], Half * Line(seeds[0], m, t)) /\ Rep(v[3], Half * Line(seeds[1], m, t))
  <1> DEFINE p == Prove(m, seeds)
             v == Query(m, p, t)
  <1>1. m \in Elt
    BY Constants
  <1>2. p \in Proofs /\ p[0] = seeds[0] /\ p[1] = seeds[1]
    BY <1>1, ProofIs
  <1>3. Cong(p[4], m) /\ Consistent(m, p, t)
    BY HonestConsistent
  <1> HIDE DEF p
  <1>4. Queried(v, m, p, t)
    BY <1>1, <1>2, QueryIs
  <1> HIDE DEF v
  <1>5. Decide(v)
    BY <1>1, <1>2, <1>3, <1>4, Verdict
  <1>6. v = <<v[1], v[2], v[3], v[4]>> /\ v[1] = 0 /\ v[4] = Mul(v[2], v[3])
    BY <1>4, <1>5 DEF Queried, Decide
  <1>7. Rep(v[2], Half * Line(seeds[0], m, t)) /\ Rep(v[3], Half * Line(seeds[1], m, t))
    BY <1>2, <1>4 DEF Queried
  <1> QED
    BY <1>6, <1>7 DEF Rep, v, p

\* Any of them is the verifier of an honest proof, whatever it is a proof of.
LEMMA SimulatedHonest ==
    ASSUME NEW m \in {0, 1}, NEW t \in Elt, ~QueryRefused(t)
    PROVE  {Query(m, Prove(m, seeds), t) : seeds \in Seeds} = Simulated
  <1>1. m \in Elt
    BY Constants
  <1>2. ASSUME NEW seeds \in Seeds
        PROVE  Query(m, Prove(m, seeds), t) \in Simulated
    <2> DEFINE v == Query(m, Prove(m, seeds), t)
    <2>1. v = <<0, v[2], v[3], Mul(v[2], v[3])>> /\ v[2] \in Elt /\ v[3] \in Elt
      BY HonestSimulated
    <2> HIDE DEF v
    <2>2. v \in Simulated
      BY <2>1 DEF Simulated
    <2> QED
      BY <2>2 DEF v
  <1>3. ASSUME NEW a \in Elt, NEW b \in Elt
        PROVE  \E seeds \in Seeds : Query(m, Prove(m, seeds), t) = <<0, a, b, Mul(a, b)>>
    <2>1. PICK s \in Elt : Rep(a, Half * Line(s, m, t))
      BY <1>1, SeedFor
    <2>2. PICK r \in Elt : Rep(b, Half * Line(r, m, t))
      BY <1>1, SeedFor
    <2> DEFINE seeds == [i \in 0..1 |-> IF i = 0 THEN s ELSE r]
               v == Query(m, Prove(m, seeds), t)
    <2>3. seeds \in Seeds /\ seeds[0] = s /\ seeds[1] = r
      BY DEF Seeds, Arity
    <2> HIDE DEF seeds
    <2>4. /\ v = <<0, v[2], v[3], Mul(v[2], v[3])>>
          /\ Rep(v[2], Half * Line(s, m, t)) /\ Rep(v[3], Half * Line(r, m, t))
      BY <2>3, HonestSimulated
    <2> HIDE DEF v
    <2>5. v[2] = a /\ v[3] = b
      <3>1. ASSUME NEW x, NEW y, NEW n, Rep(x, n), Rep(y, n) PROVE x = y
        <4>1. Cong(n, n)
          BY <3>1, CongRefl DEF Rep
        <4> QED
          BY <3>1, <4>1, RepEqual
      <3> QED
        BY <2>1, <2>2, <2>4, <3>1
    <2>6. v = <<0, a, b, Mul(a, b)>>
      BY <2>4, <2>5
    <2> QED
      BY <2>3, <2>6 DEF v
  <1> QED
    BY <1>2, <1>3 DEF Simulated

-----------------------------------------------------------------------------
(* The specification: what the shares are shares of, and what was queried.  *)

\* The proof shares at hand add up to a proof, an honest one if the Client is.
SharedProof ==
    \E proof \in Proofs :
        /\ Parts(leader.proof, helper.proof, proof)
        /\ secret.honest => /\ secret.meas \in {0, 1}
                            /\ \E seeds \in Seeds : proof = Prove(secret.meas, seeds)

\* A verifier share is the query of the Aggregator's share, at a point that is
\* not refused.
QueriedShares ==
    \A a \in Aggregators : shares[a] # None =>
        /\ phase # "idle" /\ point # None /\ ~QueryRefused(point)
        /\ shares[a] = Query(ShareOf(a).meas, ShareOf(a).proof, point)

VerifyInv ==
    /\ phase \in {"idle", "sharded", "queried", "decided"}
    /\ phase # "idle" => SharedProof
    /\ phase = "idle" => point = None
    /\ point # None => point \in Elt
    /\ shares = [a \in Aggregators |-> shares[a]]
    /\ QueriedShares
    /\ phase \in {"queried", "decided"} => \A a \in Aggregators : shares[a] # None
    /\ phase = "decided" => accepted = Decide(VecAdd(shares["leader"], shares["helper"]))

\* What is left of an element and what was taken add up to it.
LEMMA SubParts ==
    ASSUME NEW x \in Elt, NEW y \in Elt
    PROVE  Sub(x, y) \in Elt /\ Cong(Sub(x, y) + y, x)
  <1>1. Sub(x, y) \in Elt /\ Add(Sub(x, y), y) = x
    BY SplitSums
  <1>2. Rep(Sub(x, y), Sub(x, y)) /\ Rep(y, y) /\ Rep(x, x)
    BY <1>1, RepElt
  <1>3. Rep(Add(Sub(x, y), y), Sub(x, y) + y)
    BY <1>2, RepOps, Zenon
  <1>4. Rep(x, Sub(x, y) + y)
    BY <1>1, <1>3
  <1> QED
    BY <1>1, <1>2, <1>4, RepSame, Zenon

\* The shares a Client splits its proof into add up to it.
LEMMA SplitParts ==
    ASSUME NEW m, NEW proof \in Proofs, NEW ms, NEW ps \in ProofShares, Split(m, proof, ms, ps)
    PROVE  Parts(leader'.proof, helper'.proof, proof)
  <1>1. ps \in Proofs /\ Proofs = [0..4 -> Elt]
    BY ShareAssumption, Lengths DEF Proofs, Arity
  <1>2. helper'.proof = ps /\ leader'.proof = VecSub(proof, ps)
    BY DEF Split
  <1>3. DOMAIN proof = 0..4
    BY <1>1
  <1>4. VecSub(proof, ps) = [i \in 0..4 |-> Sub(proof[i], ps[i])]
    BY <1>3 DEF VecSub
  <1>5. \A i \in 0..4 : Sub(proof[i], ps[i]) \in Elt /\ Cong(Sub(proof[i], ps[i]) + ps[i], proof[i])
    BY <1>1, SubParts
  <1>6. VecSub(proof, ps) \in Proofs
    BY <1>1, <1>4, <1>5
  <1>7. \A i \in 0..4 : Cong(VecSub(proof, ps)[i] + ps[i], proof[i])
    BY <1>4, <1>5
  <1> QED
    BY <1>1, <1>2, <1>6, <1>7 DEF Parts

\* A step that leaves the report at hand and its verifier shares keeps what is
\* known of them.
LEMMA VerifyKept ==
    ASSUME VerifyInv, UNCHANGED <<phase, secret, leader, helper, point, shares, accepted>>
    PROVE  VerifyInv'
  <1>1. SharedProof' <=> SharedProof
    BY DEF SharedProof
  <1>2. QueriedShares' <=> QueriedShares
    BY DEF QueriedShares, ShareOf
  <1> QED
    BY <1>1, <1>2 DEF VerifyInv

\* A new report: nothing is queried yet.
LEMMA VerifySharded ==
    ASSUME VerifyInv, phase = "idle", phase' = "sharded", UNCHANGED <<point, shares>>, SharedProof'
    PROVE  VerifyInv'
  <1>1. point = None /\ \A a \in Aggregators : shares[a] = None
    BY DEF VerifyInv, QueriedShares
  <1>2. QueriedShares'
    BY <1>1 DEF QueriedShares
  <1> QED
    BY <1>1, <1>2 DEF VerifyInv

\* A report is over: nothing is left of it.
LEMMA VerifyOver ==
    ASSUME phase' = "idle", point' = None, shares' = [a \in Aggregators |-> None]
    PROVE  VerifyInv'
  <1>1. QueriedShares'
    BY DEF QueriedShares
  <1> QED
    BY <1>1 DEF VerifyInv

\* An Aggregator's query.
LEMMA VerifyQueried ==
    ASSUME VerifyInv, NEW a \in Aggregators, VerifyInit(a)
    PROVE  VerifyInv'
  <1>1. CASE phase' = "idle" /\ point' = None /\ shares' = [b \in Aggregators |-> None]
    BY <1>1, VerifyOver
  <1>2. CASE /\ ~QueryRefused(point)
             /\ shares' = [shares EXCEPT ![a] = Query(ShareOf(a).meas, ShareOf(a).proof, point)]
             /\ phase' = IF \A b \in Aggregators : shares'[b] # None
                         THEN "queried" ELSE "sharded"
             /\ UNCHANGED <<secret, leader, helper, point, accepted>>
    <2>1. phase = "sharded" /\ point # None /\ SharedProof /\ point \in Elt
      BY DEF VerifyInit, VerifyInv
    <2>2. SharedProof'
      BY <1>2, <2>1 DEF SharedProof
    <2>3. phase' \in {"sharded", "queried"}
      BY <1>2
    <2>4. shares' = [b \in Aggregators |->
                        IF b = a THEN Query(ShareOf(a).meas, ShareOf(a).proof, point)
                        ELSE shares[b]]
      BY <1>2 DEF VerifyInv
    <2>5. \A b \in Aggregators : ShareOf(b)' = ShareOf(b)
      BY <1>2 DEF ShareOf
    <2>6. QueriedShares'
      <3> SUFFICES ASSUME NEW b \in Aggregators, shares'[b] # None
                   PROVE  shares'[b] = Query(ShareOf(b).meas, ShareOf(b).proof, point)
        BY <1>2, <2>1, <2>3, <2>5 DEF QueriedShares
      <3>1. CASE b = a
        BY <2>4, <3>1
      <3>2. CASE b # a
        BY <2>4, <3>2 DEF VerifyInv, QueriedShares
      <3> QED
        BY <3>1, <3>2
    <2>7. shares' = [b \in Aggregators |-> shares'[b]]
      BY <2>4
    <2>8. phase' = "queried" => \A b \in Aggregators : shares'[b] # None
      BY <1>2
    <2> QED
      BY <1>2, <2>1, <2>2, <2>3, <2>6, <2>7, <2>8 DEF VerifyInv
  <1> QED
    BY <1>1, <1>2 DEF VerifyInit

\* Every step keeps it.
LEMMA VerifyNext ==
    ASSUME VerifyInv, [Next]_vars
    PROVE  VerifyInv'
  <1>1. ASSUME NEW m \in Elt, NEW r \in ProveRands, NEW ms \in MeasShares, NEW ps \in ProofShares,
               Shard(m, r, ms, ps)
        PROVE  VerifyInv'
    <2>1. m \in Elt /\ New(m) = m /\ m \in {0, 1} /\ r \in Seeds
      BY <1>1, NewBit, ShareAssumption DEF Shard, Encodes
    <2>2. Prove(m, r) \in Proofs
      BY <2>1, ProofIs
    <2>3. Split(m, Prove(m, r), ms, ps) /\ secret' = [honest |-> TRUE, meas |-> m]
      BY <1>1, <2>1 DEF Shard
    <2>4. Parts(leader'.proof, helper'.proof, Prove(m, r))
      BY <2>2, <2>3, SplitParts
    <2>5. SharedProof'
      BY <2>1, <2>2, <2>3, <2>4 DEF SharedProof
    <2> QED
      BY <1>1, <2>5, VerifySharded DEF Shard
  <1>2. ASSUME NEW f \in Forgeries, NEW ms \in MeasShares, NEW ps \in ProofShares, Forge(f, ms, ps)
        PROVE  VerifyInv'
    <2>1. f.proof \in Proofs
      BY ShareAssumption
    <2>2. Split(f.meas, f.proof, ms, ps) /\ secret' = [honest |-> FALSE, meas |-> f.meas]
      BY <1>2 DEF Forge
    <2>3. Parts(leader'.proof, helper'.proof, f.proof)
      BY <2>1, <2>2, SplitParts
    <2>4. SharedProof'
      BY <2>1, <2>2, <2>3 DEF SharedProof
    <2> QED
      BY <1>2, <2>4, VerifySharded DEF Forge
  <1>3. ASSUME NEW t \in Elt, DerivePoint(t)
        PROVE  VerifyInv'
    <2>1. /\ phase = "sharded" /\ point = None /\ point' = t
          /\ UNCHANGED <<phase, secret, leader, helper, shares, accepted>>
      BY <1>3 DEF DerivePoint
    <2>2. \A a \in Aggregators : shares[a] = None
      BY <2>1 DEF VerifyInv, QueriedShares
    <2>3. QueriedShares' /\ SharedProof'
      BY <2>1, <2>2 DEF QueriedShares, SharedProof, VerifyInv
    <2> QED
      BY <2>1, <2>3 DEF VerifyInv
  <1>4. CASE VerifierSharesToMessage
    <2>1. /\ phase = "queried" /\ phase' = "decided"
          /\ accepted' = Decide(VecAdd(shares["leader"], shares["helper"]))
          /\ UNCHANGED <<secret, leader, helper, point, shares>>
      BY <1>4 DEF VerifierSharesToMessage
    <2>2. SharedProof' /\ QueriedShares'
      BY <2>1 DEF VerifyInv, SharedProof, QueriedShares, ShareOf
    <2> QED
      BY <2>1, <2>2 DEF VerifyInv
  <1>5. CASE NextReport
    BY <1>5, VerifyOver DEF NextReport
  <1>6. CASE UNCHANGED vars
    BY <1>6, VerifyKept DEF vars
  <1> QED
    BY <1>1, <1>2, <1>3, <1>4, <1>5, <1>6, VerifyQueried DEF Next

\* The sums and the report at hand, in every reachable state.
LEMMA ReportInvariant == Spec => [](SumInv /\ VerifyInv)
  <1>1. Init => SumInv
    <2> SUFFICES ASSUME Init
                 PROVE  SumInv
      OBVIOUS
    <2>1. agg = [a \in Aggregators |-> 0] /\ total = 0 /\ phase = "idle" /\ 0 \in Elt
      BY Sizes DEF Init, AggregateInit, Elt
    <2>2. Add(0, 0) = (0 + 0) % Modulus
      BY <2>1, AddExact
    <2> QED
      BY <2>1, <2>2 DEF SumInv, AggregateExact, Unshard, Aggregators
  <1>2. Init => VerifyInv
    BY DEF Init, VerifyInv, QueriedShares
  <1>3. SumInv /\ VerifyInv /\ [Next]_vars => (SumInv /\ VerifyInv)'
    BY SumNext, VerifyNext
  <1> QED
    BY <1>1, <1>2, <1>3, PTL DEF Spec

\* The Aggregators' sums unshard to the sum of the measurements of the accepted
\* reports: no accepted report is lost, added twice or added to one sum alone,
\* and no reduction modulo p goes wrong on the way.
THEOREM SumsAreExact == Spec => []AggregateExact
  <1>1. SumInv => AggregateExact
    BY DEF SumInv
  <1> QED
    BY <1>1, ReportInvariant, PTL

\* The verdict on the report at hand, at any test point, is the verdict on what
\* its Client shared.
LEMMA SharedVerdict ==
    ASSUME Shared, NEW proof \in Proofs, Parts(leader.proof, helper.proof, proof), NEW t \in Elt
    PROVE  Decide(VecAdd(Query(leader.meas, leader.proof, t), Query(helper.meas, helper.proof, t)))
               <=> Cong(proof[4], secret.meas) /\ Consistent(secret.meas, proof, t)
  <1> DEFINE l == leader.meas
             h == helper.meas
             m == secret.meas
             v == VecAdd(Query(l, leader.proof, t), Query(h, helper.proof, t))
  <1>1. l \in Elt /\ h \in Elt /\ m \in Elt /\ Add(l, h) = m
    BY DEF Shared
  <1> HIDE DEF l, h, m
  <1>2. Cong(l + h, m)
    <2>1. Rep(l, l) /\ Rep(h, h) /\ Rep(m, m)
      BY <1>1, RepElt
    <2>2. Rep(Add(l, h), l + h)
      BY <2>1, RepOps, Zenon
    <2>3. Rep(m, l + h)
      BY <1>1, <2>2
    <2> QED
      BY <2>1, <2>3, RepSame, Zenon
  <1>3. Queried(v, m, proof, t)
    BY <1>1, <1>2, QueriesAdd
  <1> HIDE DEF v
  <1>4. Decide(v) <=> Cong(proof[4], m) /\ Consistent(m, proof, t)
    BY <1>1, <1>3, Verdict
  <1> QED
    BY <1>4 DEF v, l, h, m

\* An honest Client's report is accepted: for every way to expand the seeds, every
\* split and every test point that is not refused, the two verifier shares, each
\* computed from one share alone, add up to a verifier that the decision takes.
THEOREM HonestReportsVerify == Spec => []HonestVerifies
  <1>1. SumInv /\ VerifyInv => HonestVerifies
    <2> SUFFICES ASSUME SumInv, VerifyInv, phase = "decided", secret.honest
                 PROVE  accepted
      BY DEF HonestVerifies
    <2>1. Shared /\ SharedProof
      BY DEF SumInv, VerifyInv
    <2>2. PICK proof \in Proofs :
            /\ Parts(leader.proof, helper.proof, proof)
            /\ secret.meas \in {0, 1}
            /\ \E seeds \in Seeds : proof = Prove(secret.meas, seeds)
      BY <2>1 DEF SharedProof
    <2>3. PICK seeds \in Seeds : proof = Prove(secret.meas, seeds)
      BY <2>2
    <2>4. /\ point \in Elt
          /\ shares["leader"] = Query(leader.meas, leader.proof, point)
          /\ shares["helper"] = Query(helper.meas, helper.proof, point)
      BY DEF VerifyInv, QueriedShares, Aggregators, ShareOf
    <2>5. Cong(proof[4], secret.meas) /\ Consistent(secret.meas, proof, point)
      BY <2>2, <2>3, <2>4, HonestConsistent
    <2>6. Decide(VecAdd(shares["leader"], shares["helper"]))
      BY <2>1, <2>2, <2>4, <2>5, SharedVerdict
    <2>7. accepted = Decide(VecAdd(shares["leader"], shares["helper"]))
      BY DEF VerifyInv
    <2> QED
      BY <2>6, <2>7, Zenon
  <1> QED
    BY <1>1, ReportInvariant, PTL

\* A finite set without three different elements has two at most.
LEMMA AtMostTwo ==
    ASSUME NEW S, IsFiniteSet(S),
           \A x, y, z \in S : x = y \/ x = z \/ y = z
    PROVE  Cardinality(S) =< 2
  <1> SUFFICES ASSUME ~(Cardinality(S) =< 2) PROVE FALSE
    OBVIOUS
  <1>1. Cardinality(S) \in Nat /\ Cardinality(S) >= 3
    BY FS_CardinalityType
  <1>2. PICK x \in S : TRUE
    BY <1>1, FS_EmptySet
  <1> DEFINE T == S \ {x}
  <1>3. IsFiniteSet(T) /\ Cardinality(T) = Cardinality(S) - 1
    BY <1>2, FS_RemoveElement
  <1>4. Cardinality(T) # 0
    BY <1>1, <1>3
  <1>5. PICK y \in T : TRUE
    BY <1>3, <1>4, FS_EmptySet
  <1> DEFINE U == T \ {y}
  <1> HIDE DEF T
  <1>6. IsFiniteSet(U) /\ Cardinality(U) = Cardinality(T) - 1
    BY <1>3, <1>5, FS_RemoveElement
  <1>7. Cardinality(U) # 0
    BY <1>1, <1>3, <1>6
  <1> HIDE DEF U
  <1>8. PICK z \in U : TRUE
    BY <1>6, <1>7, FS_EmptySet
  <1>9. z \in T /\ z # y
    BY <1>8 DEF U
  <1> QED
    BY <1>2, <1>5, <1>9 DEF T

\* A measurement other than 0 and 1 passes at two test points at most, whatever
\* its proof and its shares: a third would make the difference of the gadget
\* polynomial and the product of the wires vanish everywhere, and it does not
\* where the circuit puts out something else than zero.
THEOREM ForgeriesFail == Spec => []Soundness
  <1>1. SumInv /\ VerifyInv => Soundness
    <2> DEFINE Passes(t) == Decide(VecAdd(Query(leader.meas, leader.proof, t),
                                          Query(helper.meas, helper.proof, t)))
               S == {t \in Elt : ~QueryRefused(t) /\ Passes(t)}
    <2> SUFFICES ASSUME SumInv, VerifyInv, phase = "sharded", ~Encodes(secret.meas)
                 PROVE  Cardinality(S) =< Degree
      BY DEF Soundness
    <2>1. Shared /\ SharedProof /\ secret.meas \in Elt
      BY DEF SumInv, VerifyInv, Shared
    <2>2. PICK proof \in Proofs : Parts(leader.proof, helper.proof, proof)
      BY <2>1 DEF SharedProof
    <2>3. \A t \in S : /\ t \in Elt
                       /\ Cong(proof[4], secret.meas)
                       /\ Consistent(secret.meas, proof, t)
      BY <2>1, <2>2, SharedVerdict
    <2>4. IsFiniteSet(S)
      <3>1. IsFiniteSet(Elt)
        BY FS_Interval, Sizes DEF Elt
      <3>2. S \in SUBSET Elt
        OBVIOUS
      <3> QED
        BY <3>1, <3>2, FS_Subset
    <2> HIDE DEF S
    <2>5. \A x, y, z \in S : x = y \/ x = z \/ y = z
      <3> SUFFICES ASSUME NEW x \in S, NEW y \in S, NEW z \in S, x # y, x # z, y # z
                   PROVE  FALSE
        OBVIOUS
      <3> QED
        BY <2>1, <2>3, NoThreePoints
    <2> QED
      BY <2>4, <2>5, AtMostTwo DEF Degree
  <1> QED
    BY <1>1, ReportInvariant, PTL

\* At a test point that is not refused, the verifiers of the honest proofs of 0 and
\* those of the honest proofs of 1 are the same: any two wire values with their
\* product.
THEOREM VerifiersRevealNothing == Spec => []ZeroKnowledge
  <1>1. VerifyInv => ZeroKnowledge
    <2> SUFFICES ASSUME VerifyInv, phase = "queried"
                 PROVE  Transcripts[point][0] = Transcripts[point][1]
      BY DEF ZeroKnowledge
    <2>1. point \in Elt /\ ~QueryRefused(point)
      BY DEF VerifyInv, QueriedShares, Aggregators
    <2>2. ASSUME NEW m \in {0, 1}
          PROVE  Transcripts[point][m] = Simulated
      <3>1. Transcripts[point][m] = {Query(m, p, point) : p \in {Prove(m, seeds) : seeds \in Seeds}}
        BY <2>1 DEF Transcripts, HonestProofs
      <3>2. {Query(m, p, point) : p \in {Prove(m, seeds) : seeds \in Seeds}}
                = {Query(m, Prove(m, seeds), point) : seeds \in Seeds}
        OBVIOUS
      <3>3. {Query(m, Prove(m, seeds), point) : seeds \in Seeds} = Simulated
        BY <2>1, SimulatedHonest
      <3> QED
        BY <3>1, <3>2, <3>3
    <2> QED
      BY <2>2
  <1> QED
    BY <1>1, ReportInvariant, PTL
=============================================================================
