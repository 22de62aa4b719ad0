----------------------------- MODULE ReportFlow -----------------------------
(***************************************************************************)
(* One report on its way from the Client through the Leader to the Helper  *)
(* and the Helper's verdict on its way back, across the dialects the three *)
(* may have been configured with.  The Client loads the HPKE configuration *)
(* the Helper publishes and seals the way Task.Report of                   *)
(* integration/matrix does, in every pairing of version and AAD shape that *)
(* Clients of other makes bring in; the Leader is external; the Helper's   *)
(* step is aggregateInit; the way back is the ReportError registry of the  *)
(* response's dialect.                                                     *)
(*                                                                         *)
(* An HPKE configuration is a record [id, key, suite, size, decodes]: its  *)
(* suite is supported, its key has the length of its KEM, the key decodes  *)
(* (the library decodes a key with bytes behind it, and ignores them).     *)
(***************************************************************************)
EXTENDS HelperInit, Integers

CONSTANTS
    HelperTasks,    \* task records the Helper may hold
    HpkeConfigs,    \* HPKE configurations a Client may be given for the Helper
    Configurations, \* TaskConfigurations a Client may have been given
    Clocks,         \* readings of a Client's clock, in seconds since 1970
    Reports,        \* report IDs
    Envelopes,      \* what a Leader may put around a ciphertext: records
                    \* [exts, publicShare, configID, frame, key]
    None

VARIABLES
    task,           \* the Helper's record of the task
    aggregator,     \* the configuration the Client has loaded
    client,         \* the Client once it has called Task.Report
    sealed,         \* the Helper's part of its report
    sent,           \* what the Leader forwards
    outcome,        \* the Helper's verdict
    received        \* the verdicts the Leader may read from the response

vars == <<task, aggregator, client, sealed, sent, outcome, received>>

Versions == {"Draft18", "Draft19", "Draft20"}

\* A Client: the version it speaks, the AAD shape it builds, the configuration
\* it was given, the report ID it drew, whether it adds private extensions, and
\* what its clock shows.
Clients ==
    [version : Versions, shape : {"published", "janus"}, config : Configurations,
     report : Reports, exts : BOOLEAN, now : Clocks]

\* What an encoding is made of.
Fields == Reports \union Nat

ASSUME NoneAssumption == None \notin Clients /\ None # Finished

\* Precisions are uint64, a clock may stand before 1970, and every record the
\* Helper holds is one of the task the Client reports to.
ASSUME FlowAssumption ==
    /\ \A cfg \in Configurations : cfg.precision \in Nat
    /\ Clocks \subseteq Int
    /\ \A t \in HelperTasks : t.id = "t" /\ t.variant \in Variants
    /\ \A e \in Envelopes : e.exts \in Seq(Fields) /\ e.publicShare \in Seq(Fields)

EveryConfiguration == Configurations \union {t.config : t \in HelperTasks}

\* The encoding of a TaskConfiguration is delimited, no encoding begins with that
\* of another configuration, and it takes 32 bytes or more: longer than metadata
\* without extensions (16 + 8 + 2) and the length of a public share (4).
ASSUME EncodingAssumption ==
    /\ \A c \in EveryConfiguration : c.bytes \in Seq(Fields) /\ Len(c.bytes) > 4
    /\ \A c, d \in EveryConfiguration :
          Len(c.bytes) =< Len(d.bytes) /\ SubSeq(d.bytes, 1, Len(c.bytes)) = c.bytes
              => c = d

AadVariant(c) == IF c.shape = "janus" THEN "Janus" ELSE c.version

\* The Client's own view of the task.
View(c) == [id |-> "t", config |-> c.config]

\* Rounded to the nearest multiple.
truncate_Nearest(config, now) ==
    LET secs      == IF now < 0 THEN 0 ELSE now
        precision == config.precision
    IN  IF precision = 0 THEN secs
        ELSE ((secs + precision \div 2) \div precision) * precision

\* A clock before 1970 counts as 1970; without a precision nothing is cut off.
truncate(config, now) ==
    LET secs == IF now < 0 THEN 0 ELSE now
    IN  IF config.precision = 0 THEN secs
        ELSE (secs \div config.precision) * config.precision

Metadata(c) == [report |-> c.report, time |-> truncate(c.config, c.now), exts |-> <<>>]

AggregatorFromConfig(cfg) == cfg.suite /\ cfg.size /\ cfg.decodes

\* What hpke.Seal refuses.
SealFails(agg) == ~agg.suite \/ ~agg.size \/ ~agg.decodes

\* Prio3Count has an empty public share.
Sealed(c) ==
    [configID |-> aggregator.id, metadata |-> Metadata(c), publicShare |-> <<>>,
     ct |-> [key |-> aggregator.key, info |-> helperInputShareInfo(c.version),
             aad |-> InputShareAad(AadVariant(c), View(c), Metadata(c), <<>>),
             plain |-> [ok |-> TRUE, exts |-> c.exts, shareOk |-> TRUE]]]

Init ==
    /\ task \in HelperTasks
    /\ aggregator = None /\ client = None /\ sealed = None
    /\ sent = None /\ outcome = None /\ received = None

\* The Client takes the configuration if it is of use.
Load(cfg) ==
    /\ aggregator = None
    /\ AggregatorFromConfig(cfg)
    /\ aggregator' = cfg
    /\ UNCHANGED <<task, client, sealed, sent, outcome, received>>

\* Task.Report, if the dialect can encode the Client's configuration; a Client
\* without a configuration has no key to seal to.
Seal(c) ==
    /\ aggregator # None /\ client = None
    /\ ~SealFails(aggregator)
    /\ AadEncodable(AadVariant(c), View(c))
    /\ client' = c
    /\ sealed' = Sealed(c)
    /\ UNCHANGED <<task, aggregator, sent, outcome, received>>

Routes == {"create", "janus"}

\* The times a report may carry.
Times == {truncate(cfg, now) : cfg \in Configurations, now \in Clocks}

\* The Leader forwards the report, on either route, in good order or not: under
\* another report ID or time, with other extensions or another public share, under
\* another HPKE configuration ID, frame or verification key.
Forward(route, r, time, e) ==
    /\ sealed # None /\ sent = None
    /\ route = "janus" => ~afterDraft18(task.variant)
    /\ sent' = [route |-> route,
                vi |-> [report |-> r, time |-> time, exts |-> e.exts,
                        publicShare |-> e.publicShare, configID |-> e.configID,
                        ct |-> sealed.ct, frame |-> e.frame,
                        share |-> [ok |-> TRUE, key |-> e.key, ctx |-> task.ctx,
                                   report |-> r, sound |-> TRUE]]]
    /\ UNCHANGED <<task, aggregator, client, sealed, outcome, received>>

RouteDialect(s) == IF s.route = "create" THEN task.variant ELSE "Janus"

\* The Helper's verdict; its keyring holds one key under ID 0.
Verify ==
    /\ sent # None /\ outcome = None
    /\ outcome' = aggregateInit(task, task.keys[0], RouteDialect(sent), sent.vi)
    /\ UNCHANGED <<task, aggregator, client, sealed, sent, received>>

\* The verdict crosses the wire: an error as a code point of the dialect, which
\* the Leader decodes with the registry of the same dialect.
Report ==
    LET v == RouteDialect(sent)
    IN  /\ outcome # None /\ received = None
        /\ \/ outcome = Finished /\ received' = {Finished}
           \/ /\ outcome # Finished /\ HasCodePoint(outcome, v)
              /\ received' = ReportErrorFromWire(ReportErrorToWire(outcome, v), v)
        /\ UNCHANGED <<task, aggregator, client, sealed, sent, outcome>>

Next ==
    \/ \E cfg \in HpkeConfigs : Load(cfg)
    \/ \E c \in Clients : Seal(c)
    \/ \E route \in Routes, r \in Reports, t \in Times, e \in Envelopes :
          Forward(route, r, t, e)
    \/ Verify
    \/ Report

Spec == Init /\ [][Next]_vars

-----------------------------------------------------------------------------
\* A report is only ever accepted by a Helper that speaks the version its Client
\* sealed it under, whichever AAD shape the fallback settled on.
VersionPinned ==
    outcome = Finished => VersionString(client.version) = VersionString(task.variant)

\* The published AAD of the Client's configuration read as a Janus AAD: the
\* configuration begins the way metadata without extensions does and goes on with
\* its own length, and the rest of the AAD came in as the public share.
Misread ==
    LET bytes == client.config.bytes
    IN  /\ client.shape = "published"
        /\ SubSeq(bytes, 1, 4) = MetadataBytes(ReportMetadata(sent.vi)) \o <<Len(bytes)>>
        /\ sent.vi.publicShare = SubSeq(bytes, 5, Len(bytes)) \o MetadataBytes(sealed.metadata)
                                    \o PublicShareBytes(sealed.publicShare)

\* A report sealed in the published shape is only accepted under the very task
\* configuration its Client was given; the Janus shape leaves it unbound, and so
\* does a configuration the fallback can take for the metadata of a Janus report.
ConfigurationBound ==
    outcome = Finished /\ client.shape = "published"
        => client.config = task.config \/ Misread

\* But for such a configuration, the Leader cannot pass a report off under another
\* report ID, the identity that replay protection goes by, at another time, the
\* batch it belongs to, or with another public share.
MetadataBound ==
    outcome = Finished =>
        \/ /\ ReportMetadata(sent.vi) = sealed.metadata
           /\ sent.vi.publicShare = sealed.publicShare
        \/ Misread

\* The timestamp tells the Leader which window of the task's precision a report
\* falls in and no more: every Client of the configuration whose clock reads a
\* time in the same window, or before 1970 while that is the first window, sends
\* the same one.
TimeUnlinkable ==
    sealed # None /\ client.config.precision > 0 =>
        LET p == client.config.precision
            Window(now) == IF now < 0 THEN 0 ELSE now \div p
        IN  \A now \in Clocks :
                Window(now) = Window(client.now)
                    <=> Metadata([client EXCEPT !.now = now]) = sealed.metadata

\* A report forwarded in good order from a Client of the task's own version and
\* configuration is accepted on every route the task is served on, in both AAD
\* shapes, also when the configuration has no encoding in one of them.
HonestAccepted ==
    /\ outcome # None
    /\ VersionString(client.version) = VersionString(task.variant)
    /\ client.config = task.config /\ ~client.exts
    /\ aggregator.key = task.hpkeKey /\ ReportMetadata(sent.vi) = sealed.metadata
    /\ sent.vi.publicShare = sealed.publicShare
    /\ sent.vi.configID = task.hpkeConfigID
    /\ sent.vi.frame = "initialize" /\ sent.vi.share.key = task.keys[0]
    => outcome = Finished

\* The Leader reads the very error the Helper recorded.
ErrorRoundTrip == received # None => received = {outcome}
=============================================================================
