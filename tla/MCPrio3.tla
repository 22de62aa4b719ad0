------------------------------ MODULE MCPrio3 ------------------------------
(* The field of 13 elements: half words of two bits.                        *)
EXTENDS Prio3

Vec(a, b, c, d, e) == [i \in 0..4 |-> <<a, b, c, d, e>>[i + 1]]
Pair(a, b) == [i \in 0..1 |-> <<a, b>>[i + 1]]

MCProofShares == {Vec(3, 12, 7, 1, 9)}
MCProveRands == {Pair(0, 0), Pair(1, 12), Pair(5, 8)}

\* Gadget polynomials that make the circuit put out zero, whatever the wires,
\* and the honest ones of measurements that are out of range.
MCForgeries ==
    {[meas |-> x, proof |-> Vec(4, 6, a, b, x)] : x \in {2, 12}, a \in {0, 7}, b \in Elt}
        \union {[meas |-> x, proof |-> Prove(x, Pair(4, 6))] : x \in {2, 12}}
=============================================================================
