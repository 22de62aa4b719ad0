---------------------------- MODULE MCReportFlow ----------------------------
(* One task ID, registered in each dialect with task_info of the lengths    *)
(* around its bounds.  Clocks stand before 1970, on both sides of a window  *)
(* and at its end.                                                          *)
EXTENDS ReportFlow, TLC

CONSTANTS r1, r2

\* The n-th configuration; the first has a precision.
Cfg(n, info) ==
    [bytes |-> <<n, info, n, n, n>>, info |-> info, precision |-> IF n = 1 THEN 4 ELSE 0]

\* A configuration that begins like the metadata of report r2 at time 0 and goes on
\* with its own length.
CfgLikeMetadata == [bytes |-> <<r2, 0, 0, 5, 3>>, info |-> 255, precision |-> 4]

MCConfigurations == {Cfg(1, 255), Cfg(2, 255), Cfg(1, 0), Cfg(1, 256), CfgLikeMetadata}

InOrder ==
    [exts |-> <<>>, publicShare |-> <<>>, configID |-> 1, frame |-> "initialize", key |-> "k0"]

\* In good order, and with each field changed; the public share is what follows the
\* length in the AAD of report r1 at time 4 under CfgLikeMetadata.
MCEnvelopes ==
    {InOrder,
     [InOrder EXCEPT !.exts = <<7>>],
     [InOrder EXCEPT !.publicShare = <<3, r1, 4, 0, 0>>],
     [InOrder EXCEPT !.configID = 2],
     [InOrder EXCEPT !.frame = "finish"],
     [InOrder EXCEPT !.key = "k1"]}

Hpke(key) == [id |-> 1, key |-> key, suite |-> TRUE, size |-> TRUE, decodes |-> TRUE]

\* The Helper's configuration, the one of its last start (under the same ID), and
\* three that are no use.
MCHpkeConfigs ==
    {Hpke("hk"), Hpke("old"), [Hpke("hk") EXCEPT !.suite = FALSE],
     [Hpke("hk") EXCEPT !.size = FALSE], [Hpke("hk") EXCEPT !.decodes = FALSE]}

MCClocks == {-1, 3, 4}

MCHelperTasks ==
    {[id |-> "t", variant |-> v, config |-> c, ctx |-> DAPVDAFContextFor(v, "t"),
      keys |-> 0 :> "k0", hpkeConfigID |-> 1, hpkeKey |-> "hk",
      batchMode |-> "TimeInterval", collector |-> "col", collectorOk |-> TRUE] :
        v \in Variants, c \in {Cfg(1, 255), Cfg(1, 0), Cfg(1, 256)}}
=============================================================================
