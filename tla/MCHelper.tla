------------------------------ MODULE MCHelper ------------------------------
(***************************************************************************)
(* Instances of module Helper for TLC: tasks of each dialect, honest and   *)
(* dishonest reports, and the request bodies that bring them in.           *)
(***************************************************************************)
EXTENDS Helper, TLC

Sym == Permutations(Handlers)

\* A task record; keys is its verification keyring.
TaskRecord(variant, keys) ==
    [id |-> "t", variant |-> variant, config |-> [bytes |-> <<"cfg", 9>>, info |-> 9],
     ctx |-> DAPVDAFContextFor(variant, "t"), keys |-> keys,
     hpkeConfigID |-> 1, hpkeKey |-> "hk", batchMode |-> "LeaderSelected",
     collector |-> "col", collectorOk |-> TRUE]

\* Report r as an honest Client sealed it for task and an honest Leader, with
\* verification key k, forwards it.
Honest(r, task, k) ==
    [report |-> r, time |-> 0, exts |-> <<>>, publicShare |-> <<>>,
     configID |-> task.hpkeConfigID,
     ct |-> [key |-> task.hpkeKey, info |-> helperInputShareInfo(task.variant),
             aad |-> InputShareAad(task.variant, task,
                                   [report |-> r, time |-> 0, exts |-> <<>>], <<>>),
             plain |-> [ok |-> TRUE, exts |-> FALSE, shareOk |-> TRUE]],
     frame |-> "initialize",
     share |-> [ok |-> TRUE, key |-> k, ctx |-> task.ctx, report |-> r, sound |-> TRUE]]

\* A report whose proof does not verify.
Unsound(r, task, k) == [Honest(r, task, k) EXCEPT !.share.sound = FALSE]

Req(vkid, exts, inits) ==
    [ok |-> TRUE, vkid |-> vkid, aggParam |-> FALSE, exts |-> exts, inits |-> inits]

Malformed == [ok |-> FALSE, vkid |-> 0, aggParam |-> FALSE, exts |-> <<>>, inits |-> <<>>]

Published(req) == [published |-> req, janus |-> Malformed]
JanusOnly(req) == [published |-> Malformed, janus |-> req]

Batch == <<[type |-> 1, batchID |-> TRUE]>>

-----------------------------------------------------------------------------
(* A draft-18 task, served on both routes.                                  *)

T18 == TaskRecord("Draft18", 0 :> "k0")

Configs18 == {T18}

Bodies18 == {"post12", "put1", "put2"}

Decode18 ==
    "post12" :> Published(Req(0, Batch, <<Honest("r1", T18, "k0"), Honest("r2", T18, "k0")>>)) @@
    "put1"   :> JanusOnly(Req(0, <<>>, <<Honest("r1", T18, "k0")>>)) @@
    "put2"   :> JanusOnly(Req(0, <<>>, <<Unsound("r2", T18, "k0"), Honest("r1", T18, "k0")>>))

Digest18 == [b \in Bodies18 |-> "d"]

-----------------------------------------------------------------------------
(* A draft-19 task: POST only, and an unknown key rejects report by report. *)

T19 == TaskRecord("Draft19", 0 :> "k0")

Configs19 == {T19}

Bodies19 == {"both", "one", "dup", "unknownKey", "noBatch"}

Decode19 ==
    "both"       :> Published(Req(0, Batch, <<Honest("r1", T19, "k0"), Honest("r2", T19, "k0")>>)) @@
    "one"        :> Published(Req(0, Batch, <<Honest("r1", T19, "k0")>>)) @@
    "dup"        :> Published(Req(0, Batch, <<Honest("r1", T19, "k0"), Honest("r1", T19, "k0")>>)) @@
    "unknownKey" :> Published(Req(7, Batch, <<Honest("r1", T19, "k1")>>)) @@
    "noBatch"    :> Published(Req(0, <<>>, <<Honest("r2", T19, "k0")>>))

Digest19 ==
    "both" :> "d1" @@ "one" :> "d2" @@ "unknownKey" :> "d3" @@ "noBatch" :> "d4" @@ "dup" :> "d5"

-----------------------------------------------------------------------------
(* A task registered again: its key is rotated while it moves from draft-18 *)
(* to draft-19.  The old body decodes in both message shapes; the new     *)
(* record names a Collector key nothing can be sealed to.                   *)

T19Rotated == [TaskRecord("Draft19", 1 :> "k1") EXCEPT !.collectorOk = FALSE]

ConfigsRotation == {T18, T19Rotated}

BodiesRotation == {"old", "new"}

DecodeRotation ==
    "old" :> [published |-> Req(0, Batch, <<Honest("r1", T18, "k0")>>),
              janus |-> Req(0, <<>>, <<Honest("r1", T18, "k0")>>)] @@
    "new" :> Published(Req(1, Batch, <<Honest("r1", T19Rotated, "k1")>>))

DigestRotation == "old" :> "d1" @@ "new" :> "d2"
=============================================================================
