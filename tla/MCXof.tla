------------------------------- MODULE MCXof --------------------------------
(* Blocks of four bytes and words of two: messages end before, on and behind *)
(* the block boundary, and words fall on both sides of it.                   *)
EXTENDS Xof

MCPieces == {<<>>, <<0>>, <<5, 1>>, <<1, 0, 0>>, <<7, 4, 0, 0>>, <<2, 0, 0, 0, 4>>}

Short == {<<>>, <<0>>, <<1>>, <<0, 1>>, <<1, 0>>}

Const(k, x) == [i \in 1..k |-> x]

\* Derivations that share their bytes, and lengths at the bounds of the prefixes
\* (a tag is eight bytes longer than its context).
MCOrigins ==
    [seed : Short, usage : {1, 10}, ctx : Short, binder : {<<>>, <<1>>}]
        \union [seed : {Const(7, 1), Const(8, 1)}, usage : {1}, ctx : {<<1>>}, binder : {<<>>, <<1>>}]
        \union [seed : {<<1>>}, usage : {1}, ctx : {Const(55, 0), Const(56, 0)}, binder : {<<>>}]

MCRejections == {{}, {0}, {2, 4}, {1, 3, 6}}
=============================================================================
