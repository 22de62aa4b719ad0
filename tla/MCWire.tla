------------------------------- MODULE MCWire -------------------------------
(* Values with empty and non-empty fields, vectors of none, one and two     *)
(* elements, every type of a tagged message, and lengths around the bound   *)
(* of the one-byte prefix.                                                  *)
EXTENDS Wire, FiniteSetsExt, SequencesExt

Const(k, x) == [i \in 1..k |-> x]

\* The fields of a message, paired from the left.
Msg(fields) == FoldLeft(LAMBDA x, y : <<x, y>>, Head(fields), Tail(fields))

Exts == {<<>>, <<<<0, <<>>>>, <<13, <<7>>>>>>}

Meta == {Msg(<<<<5>>, 1, <<>>>>)} \union {Msg(<<<<11>>, 145, e>>) : e \in Exts}

Ct == {Msg(<<1, <<2>>, <<3, 4>>>>), Msg(<<0, <<>>, <<3>>>>), Msg(<<11, <<9>>, <<>>>>)}

InitOf(id, e, pub, payload) ==
    Msg(<<Msg(<<<<id>>, 1, e>>), pub, Msg(<<1, <<2>>, <<3>>>>), payload>>)

GoodInit(id, e) == InitOf(id, e, <<>>, <<0, 1>>)

Inits ==
    {<<>>, <<GoodInit(5, <<>>)>>, <<GoodInit(5, <<>>), GoodInit(6, <<<<1, <<>>>>>>)>>,
     <<GoodInit(0, <<>>), InitOf(6, <<>>, <<8>>, <<>>)>>}

Resp(t, fields) == <<<<5>>, <<t, fields>>>>

Resps ==
    {<<>>, <<Resp(1, <<>>), Resp(0, <<2, 0>>)>>, <<Resp(0, <<>>)>>, <<Resp(3, <<>>)>>}
        \union {<<Resp(2, e), Resp(1, <<>>)>> :
                    e \in {"ReportReplayed", "OutdatedConfig", "InvalidMessage",
                           "UnknownVerificationKeyID"}}

TaskConfigs ==
    {Msg(<<info, leader, <<4>>, 1, 10, 1, <<>>, 1, <<>>, exts>>) :
        info \in {<<>>, <<3>>, Const(11, 3), Const(12, 3)}, leader \in {<<>>, <<7>>}, exts \in Exts}

Aads == {Msg(<<<<2>>, c, Msg(<<<<5>>, 1, <<>>>>), pub>>) : c \in TaskConfigs, pub \in {<<>>, <<1>>}}

MCSamples ==
    [report        |-> {Msg(<<m, p, c1, c2>>) : m \in Meta, p \in {<<>>, <<6>>}, c1, c2 \in Ct},
     plaintext     |-> {<<e, p>> : e \in Exts, p \in {<<>>, <<1, 2>>}},
     init          |-> {Msg(<<k, p, e, i>>) :
                            k \in {0, 11}, p \in {<<>>, <<9>>}, e \in Exts, i \in Inits},
     initJanus     |-> {Msg(<<p, <<mode, <<>>>>, i>>) :
                            p \in {<<>>, <<9>>}, mode \in {1, 2}, i \in Inits},
     resp          |-> Resps,
     resp19        |-> Resps,
     respJanus     |-> Resps,
     aad           |-> Aads,
     aad19         |-> Aads,
     aadJanus      |-> {Msg(<<<<2>>, m, pub>>) : m \in Meta, pub \in {<<>>, <<1>>}},
     pingPong      |-> {<<t, f>> : t \in {0, 2}, f \in {<<>>, <<4>>}}
                           \union {<<1, <<<<4>>, <<5, 6>>>>>>, <<3, <<>>>>},
     hpkeConfigs   |-> {<<>>} \union {<<Msg(<<1, 32, 1, 1, key>>), Msg(<<2, 16, 1, 2, <<8>>>>)>> :
                                          key \in {<<>>, <<9>>}},
     shareReq      |-> {Msg(<<<<mode, id>>, p, n, <<10>>>>) :
                            mode \in {1, 2}, id \in {<<>>, <<3>>}, p \in {<<>>, <<9>>}, n \in {0, 13}},
     shareAad      |-> {Msg(<<<<2>>, p, <<mode, id>>>>) :
                            p \in {<<>>, <<9>>}, mode \in {1, 2}, id \in {<<>>, <<3>>}},
     share         |-> Ct,
     leaderInput   |-> {<<0, 16, 1, 2, 3, x>> : x \in {0, 12, 16}},
     helperInput   |-> {<<0, 11, 5>>},
     strangerInput |-> {<<0, 11, 5>>},
     verifierShare |-> {<<x, 3, 2, 16>> : x \in {0, 13}}]
=============================================================================
