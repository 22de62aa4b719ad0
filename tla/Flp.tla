-------------------------------- MODULE Flp --------------------------------
(***************************************************************************)
(* The fully linear proof system of pkg/vdaf/flp with the Prio3Count       *)
(* circuit C(x) = x * x - x, one call of one multiplication gadget.        *)
(*                                                                         *)
(* A polynomial is held by its values at the n-th roots of unity, n a      *)
(* power of two: a function on 0..n-1.  Every field operation is the       *)
(* code's, from module Field64.                                            *)
(***************************************************************************)
EXTENDS Field64

CONSTANT WordBits       \* the bits of a word, 64 in the code

\* Half of the bits of a word are those of a half word; the modulus and the
\* generator are what the code says they are.
ASSUME WordBitsAssumption ==
    /\ WordBits \in Nat
    /\ TwoTo[WordBits] = W
    /\ TwoTo[WordBits \div 2] = E

ASSUME FieldAssumption == PrimeModulus /\ PrimitiveGenerator(WordBits)

VecAdd(a, b) == [i \in DOMAIN a |-> Add(a[i], b[i])]
VecSub(a, b) == [i \in DOMAIN a |-> Sub(a[i], b[i])]

-----------------------------------------------------------------------------
(* Polynomials.                                                             *)

nextPowerOf2(n) == CHOOSE p \in {TwoTo[l] : l \in 0..n} : p >= n /\ (p = 1 \/ p \div 2 < n)

\* The powers of the n-th root of unity, for the n this circuit meets.
nthRootPowers ==
    [n \in {1, 2, 4} |-> [i \in 0..(n - 1) |-> Pow(NthRoot(n, WordBits), i, WordBits)]]

\* Horner's rule over coefficients c[0], ..., c[n-1].
evalMonomial(c, n, x) ==
    LET acc[i \in 0..n] == IF i = 0 THEN 0 ELSE Add(Mul(acc[i - 1], x), c[n - i])
    IN  acc[n]

\* Values at s times the n-th roots of unity.
ntt(c, n, s) == [i \in 0..(n - 1) |-> evalMonomial(c, n, Mul(s, nthRootPowers[n][i]))]

\* Coefficient j is a sum over the values, each with a power of wnInv^j.
invNtt(evals, n) ==
    LET wnInv == Inv(NthRoot(n, WordBits), WordBits)
        nInv  == Inv(New(n), WordBits)
        sum(j) == LET acc[i \in 0..n] ==
                          IF i = 0 THEN 0
                          ELSE Add(acc[i - 1],
                                   Mul(evals[i - 1], Pow(wnInv, (i - 1) * j, WordBits)))
                  IN  acc[n]
    IN  [j \in 0..(n - 1) |-> Mul(sum(j), nInv)]

\* The even places keep their values, the odd ones are new.
doubleEvaluations(p, n) ==
    LET odd == ntt(invNtt(p, n), n, NthRoot(2 * n, WordBits))
    IN  [i \in 0..(2 * n - 1) |-> IF i % 2 = 0 THEN p[i \div 2] ELSE odd[i \div 2]]

polyMul(p, q, n) ==
    LET p2 == doubleEvaluations(p, n)
        q2 == doubleEvaluations(q, n)
    IN  [i \in 0..(2 * n - 1) |-> Mul(p2[i], q2[i])]

\* One round of the linear-time evaluation at x: a node and the value there.
EvalRound(s, node, v, x) ==
    LET k == Mul(s.k, s.d)
        d == Sub(node, x)
    IN  [k |-> k, d |-> d, u |-> Add(Mul(s.u, d), Mul(Mul(k, node), v))]

\* The rounds over the given nodes.
Rounds(p, nodes, n, x) ==
    LET round[i \in 0..(n - 1)] ==
            IF i = 0 THEN [k |-> 1, d |-> Sub(nodes[0], x), u |-> p[0]]
            ELSE EvalRound(round[i - 1], nodes[i], p[i], x)
    IN  round[n - 1].u

\* The sign of the final factor is forgotten.
polyEval_NoSign(p, n, x) ==
    Mul(Rounds(p, nthRootPowers[n], n, x), Inv(New(n), WordBits))

\* The value at any point x, the nodes included.
polyEval(p, n, x) ==
    LET factor == Inv(New(n), WordBits)
    IN  Mul(Rounds(p, nthRootPowers[n], n, x), IF (n - 1) % 2 = 1 THEN Neg(factor) ELSE factor)

\* The differences between node i and the other nodes of 0..k, multiplied.
Weight(x, k, i) ==
    LET prod[j \in 0..(k + 1)] ==
            IF j = 0 THEN 1
            ELSE IF j - 1 = i THEN prod[j - 1]
            ELSE Mul(prod[j - 1], Sub(x[i], x[j - 1]))
    IN  prod[k + 1]

Weights(x, k) == [i \in 0..k |-> Weight(x, k, i)]

\* A fraction plus v over w.
PlusFraction(y, w, v) ==
    [num |-> Add(Mul(y.num, w), Mul(y.den, v)), den |-> Mul(y.den, w)]

\* The value at node k of the polynomial through the first k values, from the
\* weights w of the nodes up to k.
NextValue(p, k, w) ==
    LET y[i \in 0..k] ==
            IF i = 0 THEN [num |-> 0, den |-> 1]
            ELSE PlusFraction(y[i - 1], w[i - 1], p[i - 1])
    IN  Mul(Mul(Neg(w[k]), y[k].num), Inv(y[k].den, WordBits))

\* From len values at the first n-th roots of unity to all n of them.
extendValuesToPowerOf2(p, len, n) ==
    LET ext[k \in len..n] ==
            IF k = len THEN p
            ELSE LET prev == ext[k - 1]
                 IN  [i \in 0..(k - 1) |->
                         IF i < k - 1 THEN prev[i]
                         ELSE NextValue(prev, k - 1, Weights(nthRootPowers[n], k - 1))]
    IN  ext[n]

-----------------------------------------------------------------------------
(* The circuit, its proof and its query.                                    *)

Arity == 2      \* the multiplication gadget's inputs
Degree == 2
Calls == 1

wirePolyLen == nextPowerOf2(1 + Calls)
gadgetPolyLen == Degree * (wirePolyLen - 1) + 1
polySize == nextPowerOf2(gadgetPolyLen)

\* The index step of the gadget's outputs in its polynomial.
step == polySize \div wirePolyLen

\* Each wire carries its seed, then the input of the one call.
Wire(seed, meas) == [i \in 0..(wirePolyLen - 1) |-> IF i = 0 THEN seed ELSE meas]

\* A proof is its wire seeds and the gadget polynomial's first values.
Seeds == [0..(Arity - 1) -> Elt]
Proofs == [0..(Arity + gadgetPolyLen - 1) -> Elt]

Prove(meas, seeds) ==
    LET poly == polyMul(Wire(seeds[0], meas), Wire(seeds[1], meas), wirePolyLen)
    IN  [i \in 0..(Arity + gadgetPolyLen - 1) |->
            IF i < Arity THEN seeds[i] ELSE poly[i - Arity]]

\* Every test point is used.
QueryRefused_Never(t) == FALSE

\* A test point on the wires' nodes would reveal what the wires carry.
QueryRefused(t) == Pow(t, wirePolyLen, WordBits) = 1

\* The gadget polynomial a proof holds, at all its nodes.
GadgetPoly(proof) ==
    extendValuesToPowerOf2([i \in 0..(gadgetPolyLen - 1) |-> proof[Arity + i]],
                           gadgetPolyLen, polySize)

\* The verifier: circuit output, both wires and the gadget polynomial at t.
Verifier(meas, proof, poly, t) ==
    <<Sub(poly[Calls * step], meas),
      polyEval(Wire(proof[0], meas), wirePolyLen, t),
      polyEval(Wire(proof[1], meas), wirePolyLen, t),
      polyEval(poly, polySize, t)>>

Query(meas, proof, t) == Verifier(meas, proof, GadgetPoly(proof), t)

\* Whether the circuit put out zero is not looked at.
Decide_GadgetOnly(v) == Mul(v[2], v[3]) = v[4]

Decide(v) == v[1] = 0 /\ Mul(v[2], v[3]) = v[4]
=============================================================================
