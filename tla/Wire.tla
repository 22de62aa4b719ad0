-------------------------------- MODULE Wire --------------------------------
(***************************************************************************)
(* The messages of pkg/dap/wire and the Prio3 shares inside them.  Marshal *)
(* and Unmarshal of a type are two separate pieces of code and two         *)
(* definitions here: the fields the one appends and the fields the other   *)
(* consumes.  A nested struct is the concatenation of its fields.          *)
(*                                                                         *)
(* Around them, one message on its way: a peer marshals it, it arrives     *)
(* whole, changed in one byte (a peer of another make, or no encoding at   *)
(* all), or cut where the request body's size limit falls, and is read.    *)
(***************************************************************************)
EXTENDS Codec

\* Sizes of identifiers and seeds: 16 for report IDs, else 32 in the code.
CONSTANTS ReportIDSize, TaskIDSize, ChecksumSize, SeedSize

ASSUME SizeAssumption ==
    /\ ReportIDSize \in Nat \ {0} /\ TaskIDSize \in Nat \ {0}
    /\ ChecksumSize \in Nat \ {0} /\ SeedSize \in Nat \ {0}

MarshalExtension   == Uint(2) ** Opaque(2, 0)
UnmarshalExtension == Uint(2) ** Opaque(2, 0)

MarshalHpkeCiphertext   == Uint(1) ** Opaque(2, 0) ** Opaque(4, 0)
UnmarshalHpkeCiphertext == Uint(1) ** Opaque(2, 1) ** Opaque(4, 1)

marshalExtensionVec   == Vector(2, MarshalExtension)
unmarshalExtensionVec == Vector(2, UnmarshalExtension)

MarshalReportMetadata   == Fixed(ReportIDSize) ** Uint(8) ** marshalExtensionVec
UnmarshalReportMetadata == Fixed(ReportIDSize) ** Uint(8) ** unmarshalExtensionVec

MarshalReport ==
    MarshalReportMetadata ** Opaque(4, 0) ** MarshalHpkeCiphertext ** MarshalHpkeCiphertext
UnmarshalReport ==
    UnmarshalReportMetadata ** Opaque(4, 0) ** UnmarshalHpkeCiphertext ** UnmarshalHpkeCiphertext

MarshalPlaintextInputShare   == marshalExtensionVec ** Opaque(4, 0)
UnmarshalPlaintextInputShare == unmarshalExtensionVec ** Opaque(4, 1)

MarshalReportShare   == MarshalReportMetadata ** Opaque(4, 0) ** MarshalHpkeCiphertext
UnmarshalReportShare == UnmarshalReportMetadata ** Opaque(4, 0) ** UnmarshalHpkeCiphertext

MarshalVerifyInit   == MarshalReportShare ** Opaque(4, 0)
UnmarshalVerifyInit == UnmarshalReportShare ** Opaque(4, 1)

MarshalPartialBatchSelector   == Uint(1) ** Opaque(2, 0)
UnmarshalPartialBatchSelector == Uint(1) ** Opaque(2, 0)

MarshalAggJobExtension   == Uint(2) ** Opaque(2, 0)
UnmarshalAggJobExtension == Uint(2) ** Opaque(2, 0)

marshalAggJobExtVec   == Vector(2, MarshalAggJobExtension)
unmarshalAggJobExtVec == Vector(2, UnmarshalAggJobExtension)

\* Janus: parameter, batch selector, a prefixed vector.  Published: key ID,
\* parameter, extensions, and reports up to the end of the body.
MarshalAggregationJobInitReq(v) ==
    IF v = "Janus"
    THEN Opaque(4, 0) ** MarshalPartialBatchSelector ** Vector(4, MarshalVerifyInit)
    ELSE Uint(1) ** Opaque(4, 0) ** marshalAggJobExtVec ** Remainder(MarshalVerifyInit)

UnmarshalAggregationJobInitReq(v) ==
    IF v = "Janus"
    THEN Opaque(4, 0) ** UnmarshalPartialBatchSelector ** Vector(4, UnmarshalVerifyInit)
    ELSE Uint(1) ** Opaque(4, 0) ** unmarshalAggJobExtVec ** Remainder(UnmarshalVerifyInit)

\* The types of a VerifyResp: continue, finish, reject.
MarshalVerifyResp(v) ==
    Fixed(ReportIDSize)
        ** Select(Opaque(4, 0), Empty, ErrorCode(v), TRUE)
UnmarshalVerifyResp(v) ==
    Fixed(ReportIDSize)
        ** Select(Opaque(4, 1), Empty, ErrorCode(v), FALSE)

MarshalAggregationJobResp(v) ==
    IF v = "Janus" THEN Vector(4, MarshalVerifyResp(v)) ELSE Remainder(MarshalVerifyResp(v))
UnmarshalAggregationJobResp(v) ==
    IF v = "Janus" THEN Vector(4, UnmarshalVerifyResp(v)) ELSE Remainder(UnmarshalVerifyResp(v))

TaskInfoMin(v) == IF draft19Values(v) THEN 0 ELSE 1

MarshalTaskExtension   == Uint(2) ** Opaque(2, 0)
UnmarshalTaskExtension == Uint(2) ** Opaque(2, 0)

MarshalTaskConfiguration(v) ==
    Opaque(1, TaskInfoMin(v)) ** Opaque(2, 0) ** Opaque(2, 0) ** Uint(8) ** Uint(8) ** Uint(1)
        ** Opaque(2, 0) ** Uint(4) ** Opaque(2, 0) ** Vector(2, MarshalTaskExtension)
UnmarshalTaskConfiguration(v) ==
    Opaque(1, TaskInfoMin(v)) ** Opaque(2, 1) ** Opaque(2, 1) ** Uint(8) ** Uint(8) ** Uint(1)
        ** Opaque(2, 0) ** Uint(4) ** Opaque(2, 0) ** Vector(2, UnmarshalTaskExtension)

\* Janus leaves the task's configuration out.
MarshalInputShareAad(v) ==
    LET task == IF v = "Janus" THEN Fixed(TaskIDSize)
                ELSE Fixed(TaskIDSize) ** MarshalTaskConfiguration(v)
    IN  task ** MarshalReportMetadata ** Opaque(4, 0)
UnmarshalInputShareAad(v) ==
    LET task == IF v = "Janus" THEN Fixed(TaskIDSize)
                ELSE Fixed(TaskIDSize) ** UnmarshalTaskConfiguration(v)
    IN  task ** UnmarshalReportMetadata ** Opaque(4, 0)

\* The types of a ping-pong message: initialize, continue, finish.  On continue
\* the verifier message comes before the verifier share.
MarshalPingPongMessage ==
    Select(Opaque(4, 0), Opaque(4, 0) ** Opaque(4, 0), Opaque(4, 0), FALSE)
UnmarshalPingPongMessage ==
    Select(Opaque(4, 0), Opaque(4, 0) ** Opaque(4, 0), Opaque(4, 0), FALSE)

MarshalHpkeConfig   == Uint(1) ** Uint(2) ** Uint(2) ** Uint(2) ** Opaque(2, 0)
UnmarshalHpkeConfig == Uint(1) ** Uint(2) ** Uint(2) ** Uint(2) ** Opaque(2, 1)

MarshalHpkeConfigList   == Vector(2, MarshalHpkeConfig)
UnmarshalHpkeConfigList == Vector(2, UnmarshalHpkeConfig)

MarshalBatchSelector == Uint(1) ** Opaque(2, 0)

\* The identifier is read behind a one-byte length.
UnmarshalBatchSelector_Narrow == Uint(1) ** Opaque(1, 0)

UnmarshalBatchSelector == Uint(1) ** Opaque(2, 0)

MarshalAggregateShareReq ==
    MarshalBatchSelector ** Opaque(4, 0) ** Uint(8) ** Fixed(ChecksumSize)
UnmarshalAggregateShareReq ==
    UnmarshalBatchSelector ** Opaque(4, 0) ** Uint(8) ** Fixed(ChecksumSize)

\* Never unmarshalled: the Collector builds its own and HPKE compares the bytes.
MarshalAggregateShareAad == Fixed(TaskIDSize) ** Opaque(4, 0) ** MarshalBatchSelector

MarshalAggregateShare   == MarshalHpkeCiphertext
UnmarshalAggregateShare == UnmarshalHpkeCiphertext

\* Prio3Count shares: lengths are exact, elements below the modulus, and only an
\* aggregator of the task has an encoding to decode against.
shares      == 2
MeasLen     == 1
ProofLen    == 5
VerifierLen == 4

EncodeInputShare(aggID) ==
    IF aggID = 0 THEN Exactly(MeasLen + ProofLen, Element) ELSE Fixed(SeedSize)
DecodeInputShare(aggID) ==
    IF aggID >= shares THEN Refused(Fixed(SeedSize))
    ELSE IF aggID = 0 THEN Exactly(MeasLen + ProofLen, Element) ELSE Fixed(SeedSize)

EncodeVerifierShare == Exactly(VerifierLen, Element)
DecodeVerifierShare == Exactly(VerifierLen, Element)

-----------------------------------------------------------------------------
Format(out, in) == [out |-> out, in |-> in]

InitReq(v) == Format(MarshalAggregationJobInitReq(v), UnmarshalAggregationJobInitReq(v))
JobResp(v) == Format(MarshalAggregationJobResp(v), UnmarshalAggregationJobResp(v))
Aad(v)     == Format(MarshalInputShareAad(v), UnmarshalInputShareAad(v))

\* What is put on the wire, or sealed, or authenticated.
Formats ==
    [report         |-> Format(MarshalReport, UnmarshalReport),
     plaintext      |-> Format(MarshalPlaintextInputShare, UnmarshalPlaintextInputShare),
     init           |-> InitReq("Draft18"),
     initJanus      |-> InitReq("Janus"),
     resp           |-> JobResp("Draft18"),
     resp19         |-> JobResp("Draft19"),
     respJanus      |-> JobResp("Janus"),
     aad            |-> Aad("Draft18"),
     aad19          |-> Aad("Draft19"),
     aadJanus       |-> Aad("Janus"),
     pingPong       |-> Format(MarshalPingPongMessage, UnmarshalPingPongMessage),
     hpkeConfigs    |-> Format(MarshalHpkeConfigList, UnmarshalHpkeConfigList),
     shareReq       |-> Format(MarshalAggregateShareReq, UnmarshalAggregateShareReq),
     shareAad       |-> Format(MarshalAggregateShareAad, MarshalAggregateShareAad),
     share          |-> Format(MarshalAggregateShare, UnmarshalAggregateShare),
     leaderInput    |-> Format(EncodeInputShare(0), DecodeInputShare(0)),
     helperInput    |-> Format(EncodeInputShare(1), DecodeInputShare(1)),
     strangerInput  |-> Format(EncodeInputShare(2), DecodeInputShare(2)),
     verifierShare  |-> Format(EncodeVerifierShare, DecodeVerifierShare)]

CONSTANT Samples    \* the values that are sent, by type

ASSUME SamplesAssumption ==
    \A t \in DOMAIN Formats : \A x \in Samples[t] : x \in Values(Formats[t].out)

VARIABLES
    name,       \* the type of the message under way
    value,      \* what its sender marshalled
    body,       \* the bytes: a set, empty when Marshal refused
    altered,    \* a byte was changed
    limit,      \* how many bytes the reader took
    got         \* what was read: a set, empty when refused

vars == <<name, value, body, altered, limit, got>>

Idle == "idle"

Init ==
    /\ name = Idle /\ value = <<>> /\ body = {} /\ altered = FALSE
    /\ limit = -1 /\ got = {}

Marshal(t, x) ==
    /\ name = Idle
    /\ name' = t /\ value' = x
    /\ body' = marshal(Formats[t].out, x)
    /\ UNCHANGED <<altered, limit, got>>

\* Byte i is another one, or one byte follows the message.
Alter(i, x) ==
    /\ limit = -1 /\ ~altered
    /\ \E b \in body :
          /\ i \in 1..Len(b) + 1
          /\ body' = {[k \in 1..(IF i > Len(b) THEN i ELSE Len(b)) |->
                          IF k = i THEN x ELSE b[k]]}
    /\ altered' = TRUE
    /\ UNCHANGED <<name, value, limit, got>>

Requests == {"init", "initJanus", "shareReq"}

\* Reading stops at the size limit of a request body, without an error.
Unmarshal(k) ==
    /\ limit = -1
    /\ \E b \in body :
          /\ k < Len(b) => name \in Requests /\ ~altered
          /\ limit' = k
          /\ got' = unmarshalAll(Formats[name].in, SubSeq(b, 1, k))
    /\ UNCHANGED <<name, value, body, altered>>

Next ==
    \/ \E t \in DOMAIN Formats : \E x \in Samples[t] : Marshal(t, x)
    \/ \E b \in body : \/ \E i \in 1..Len(b) + 1, x \in 0..Radix - 1 : Alter(i, x)
                       \/ \E k \in 0..Len(b) : Unmarshal(k)

Spec == Init /\ [][Next]_vars

-----------------------------------------------------------------------------
Whole == limit # -1 /\ \A b \in body : limit = Len(b)

\* What one side marshals the other side reads as the same value; the one thing
\* it may do instead is to refuse a field shorter than its own lower bound.
RoundTrip ==
    Whole /\ ~altered =>
        got = IF marshal(Formats[name].in, value) # {} THEN {value} ELSE {}

\* A message has one encoding: bytes that are read, whoever made them, are the
\* ones its own Marshal writes.  A job ID derived from the body is thereby
\* derived from the content, and so is the AAD rebuilt from a decoded report.
Canonical ==
    Whole => \A x \in got : marshal(Formats[name].out, x) = body

\* A request body cut at the size limit is refused, except that a published
\* request cut between two reports is read as the request of the reports before
\* the cut; nothing else about it changes, and no report is read in part.
CutRequest ==
    limit # -1 /\ ~Whole => \A x \in got :
        /\ name = "init"
        /\ x[1] = value[1]
        /\ x[2] = SubSeq(value[2], 1, Len(x[2])) /\ Len(x[2]) < Len(value[2])
=============================================================================
