------------------------------ MODULE MCServer ------------------------------
(* The server over two starts.  A Client draws a report ID once and seals   *)
(* the report to the key advertised then, so each report ID goes with one   *)
(* key pair; Leaders send old reports again after the restart.              *)
EXTENDS Server, TLC

Sym == Permutations(Handlers)

AddReq(vk, keyOk) ==
    [json |-> TRUE, role |-> "helper", vdaf |-> "Prio3Count", taskID |-> "t", vk |-> vk,
     config |-> <<"cfg", 9>>, batchMode |-> "LeaderSelected",
     collector |-> [config |-> "col", decodes |-> TRUE, suite |-> TRUE, key |-> keyOk]]

\* Two registrations that rotate the verify key, and one that is refused.
MCAddRequests ==
    {AddReq("k0", TRUE), AddReq("k1", FALSE),
     [AddReq("k0", TRUE) EXCEPT !.collector.suite = FALSE]}

Task(key, vk, ok) ==
    [id |-> "t", variant |-> "Draft18", config |-> [bytes |-> <<"cfg", 9>>, info |-> 9],
     ctx |-> DAPVDAFContextFor("Draft18", "t"), keys |-> [k \in {0} |-> vk],
     hpkeConfigID |-> 1, hpkeKey |-> key, batchMode |-> "LeaderSelected",
     collector |-> "col", collectorOk |-> ok]

MCConfigs == {Task(key, "k0", TRUE) : key \in {"hk1", "hk2"}}
                 \union {Task(key, "k1", FALSE) : key \in {"hk1", "hk2"}}

\* Report r as an honest Client sealed it to key, forwarded with verify key k.
Sealed(r, key, k) ==
    LET task == Task(key, k, TRUE)
    IN  [report |-> r, time |-> 0, exts |-> <<>>, publicShare |-> <<>>, configID |-> 1,
         ct |-> [key |-> key, info |-> helperInputShareInfo("Draft18"),
                 aad |-> InputShareAad("Draft18", task,
                                       [report |-> r, time |-> 0, exts |-> <<>>], <<>>),
                 plain |-> [ok |-> TRUE, exts |-> FALSE, shareOk |-> TRUE]],
         frame |-> "initialize",
         share |-> [ok |-> TRUE, key |-> k, ctx |-> task.ctx, report |-> r, sound |-> TRUE]]

Req(vkid, exts, inits) ==
    [ok |-> TRUE, vkid |-> vkid, aggParam |-> FALSE, exts |-> exts, inits |-> inits]

Malformed == [ok |-> FALSE, vkid |-> 0, aggParam |-> FALSE, exts |-> <<>>, inits |-> <<>>]

Batch == <<[type |-> 1, batchID |-> TRUE]>>

MCKeyPairs == <<"hk1", "hk2">>

MCBodies == {"old", "other"}

\* Before the restart both jobs can open the first report and neither the second.
MCDecode ==
    "old"   :> [published |-> Req(0, Batch, <<Sealed("r1", "hk1", "k0")>>), janus |-> Malformed] @@
    "other" :> [published |-> Malformed,
                janus |-> Req(0, <<>>, <<Sealed("r1", "hk1", "k0"), Sealed("r2", "hk2", "k0")>>)]

MCDigest == "old" :> "d1" @@ "other" :> "d2"
=============================================================================
