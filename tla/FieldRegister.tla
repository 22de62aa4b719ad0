--------------------------- MODULE FieldRegister ---------------------------
(***************************************************************************)
(* A run of field operations, as the sum of output shares or the query of  *)
(* a proof performs one: a register holds what pkg/vdaf/field computes,    *)
(* next to what the same operations come to in exact arithmetic modulo p.  *)
(***************************************************************************)
EXTENDS Field64

VARIABLES
    acc,    \* the element the code has computed
    ref     \* what the same operations come to modulo p

registerVars == <<acc, ref>>

RegisterInit == \E x \in Word : acc = New(x) /\ ref = x % Modulus

Plus(x)  == acc' = Add(acc, x) /\ ref' = (ref + x) % Modulus
Minus(x) == acc' = Sub(acc, x) /\ ref' = (ref - x) % Modulus
Negate   == acc' = Neg(acc) /\ ref' = (-ref) % Modulus
Times(x) == acc' = Mul(acc, x) /\ ref' = (ref * x) % Modulus

RegisterNext ==
    \/ \E x \in Elt : Plus(x) \/ Minus(x) \/ Times(x)
    \/ Negate

RegisterSpec == RegisterInit /\ [][RegisterNext]_registerVars

-----------------------------------------------------------------------------
\* Every run of additions, subtractions, negations and multiplications stays in
\* canonical representatives and ends in the element that exact arithmetic
\* modulo p ends in, through any pattern of carries and borrows on the way.
ArithmeticExact == acc \in Elt /\ acc = ref
=============================================================================
