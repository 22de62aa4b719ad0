-------------------------- MODULE ReportFlow_proofs --------------------------
(***************************************************************************)
(* The guarantees of the report path, proved for every set of task         *)
(* records, Client configurations, clocks and keys.                        *)
(*                                                                         *)
(* The six properties speak of the values at the two ends of the path.     *)
(* None is inductive: what ties them together is that each station's value *)
(* is still the function of the earlier ones it was when it was written.   *)
(***************************************************************************)
EXTENDS ReportFlow, SequenceTheorems, TLAPS

\* What the Leader forwards when it picks these values.
Forwarded(r, time, e) ==
    [report |-> r, time |-> time, exts |-> e.exts, publicShare |-> e.publicShare,
     configID |-> e.configID, ct |-> sealed.ct, frame |-> e.frame,
     share |-> [ok |-> TRUE, key |-> e.key, ctx |-> task.ctx, report |-> r, sound |-> TRUE]]

\* Sealed to the configuration the Client still holds.
SealedByClient ==
    sealed # None => aggregator # None /\ client \in Clients /\ sealed = Sealed(client)

\* A Client seals only what its dialect can encode.
SealedEncodable == sealed # None => AadEncodable(AadVariant(client), View(client))

NothingSealed == client = None => sealed = None

SentFromSealed ==
    sent # None =>
        /\ sealed # None
        /\ sent.route \in Routes
        /\ sent.route = "janus" => ~afterDraft18(task.variant)
        /\ \E r \in Reports, time \in Times, e \in Envelopes : sent.vi = Forwarded(r, time, e)

Judged ==
    outcome # None =>
        /\ sent # None
        /\ outcome = aggregateInit(task, task.keys[0], RouteDialect(sent), sent.vi)

ReadBack ==
    received # None =>
        /\ outcome # None
        /\ \/ outcome = Finished /\ received = {Finished}
           \/ /\ HasCodePoint(outcome, RouteDialect(sent))
              /\ received = ReportErrorFromWire(ReportErrorToWire(outcome, RouteDialect(sent)),
                                                RouteDialect(sent))

FlowInv ==
    /\ task \in HelperTasks
    /\ NothingSealed /\ SealedByClient /\ SealedEncodable
    /\ SentFromSealed /\ Judged /\ ReadBack

-----------------------------------------------------------------------------
(* Each station's value is a function of the earlier ones.                  *)

\* Nothing is sealed, sent or judged at the start.
LEMMA FlowInit == Init => FlowInv
  BY DEF Init, FlowInv, NothingSealed, SealedByClient, SealedEncodable, SentFromSealed,
         Judged, ReadBack

\* A Client that loads a configuration has sealed nothing yet.
LEMMA LoadFlow ==
    ASSUME FlowInv, NEW cfg \in HpkeConfigs, Load(cfg)
    PROVE  FlowInv'
  <1>1. sealed = None /\ sent = None /\ outcome = None /\ received = None
    BY DEF Load, FlowInv, SealedByClient, SentFromSealed, Judged, ReadBack
  <1> QED
    BY <1>1 DEF Load, FlowInv, NothingSealed, SealedByClient, SealedEncodable,
                SentFromSealed, Judged, ReadBack

\* Task.Report runs once, before anything is forwarded.
LEMMA SealFlow ==
    ASSUME FlowInv, NEW c \in Clients, Seal(c)
    PROVE  FlowInv'
  <1>1. sealed = None /\ sent = None /\ outcome = None /\ received = None
    BY DEF Seal, FlowInv, NothingSealed, SentFromSealed, Judged, ReadBack
  <1>2. client' = c /\ aggregator' = aggregator /\ task' = task /\ c # None
    BY NoneAssumption DEF Seal
  <1>3. (NothingSealed /\ SealedByClient /\ SealedEncodable)'
    BY <1>2 DEF Seal, Sealed, NothingSealed, SealedByClient, SealedEncodable
  <1>4. (SentFromSealed /\ Judged /\ ReadBack)'
    BY <1>1 DEF Seal, SentFromSealed, Judged, ReadBack
  <1> QED
    BY <1>2, <1>3, <1>4 DEF FlowInv

\* The Leader forwards the ciphertext it was given.
LEMMA ForwardFlow ==
    ASSUME FlowInv, NEW route \in Routes, NEW r \in Reports, NEW time \in Times,
           NEW e \in Envelopes, Forward(route, r, time, e)
    PROVE  FlowInv'
  <1>1. outcome = None /\ received = None
    BY DEF Forward, FlowInv, Judged, ReadBack
  <1>2. UNCHANGED <<task, aggregator, client, sealed, outcome, received>>
    BY DEF Forward
  <1>3. (NothingSealed /\ SealedByClient /\ SealedEncodable)'
    BY <1>2 DEF FlowInv, Sealed, NothingSealed, SealedByClient, SealedEncodable
  <1>4. /\ sent'.route = route
        /\ sent'.vi = Forwarded(r, time, e)'
    BY <1>2 DEF Forward, Forwarded
  <1>5. SentFromSealed'
    BY <1>2, <1>4 DEF Forward, SentFromSealed
  <1>6. Judged' /\ ReadBack'
    BY <1>1, <1>2 DEF Judged, ReadBack
  <1> QED
    BY <1>2, <1>3, <1>5, <1>6 DEF FlowInv

\* The verdict is that of aggregateInit on what was forwarded.
LEMMA VerifyFlow ==
    ASSUME FlowInv, Verify
    PROVE  FlowInv'
  <1>1. received = None
    BY DEF Verify, FlowInv, ReadBack
  <1>2. UNCHANGED <<task, aggregator, client, sealed, sent, received>>
    BY DEF Verify
  <1>3. (NothingSealed /\ SealedByClient /\ SealedEncodable)'
    BY <1>2 DEF FlowInv, Sealed, NothingSealed, SealedByClient, SealedEncodable
  <1>4. SentFromSealed'
    BY <1>2 DEF FlowInv, SentFromSealed, Forwarded
  <1>5. Judged'
    BY <1>2 DEF Verify, Judged, RouteDialect
  <1>6. ReadBack'
    BY <1>1, <1>2 DEF ReadBack
  <1> QED
    BY <1>2, <1>3, <1>4, <1>5, <1>6 DEF FlowInv

\* The Leader reads what the registry of the response's dialect gives it.
LEMMA ReportFlowStep ==
    ASSUME FlowInv, Report
    PROVE  FlowInv'
  <1>1. UNCHANGED <<task, aggregator, client, sealed, sent, outcome>>
    BY DEF Report
  <1>2. (NothingSealed /\ SealedByClient /\ SealedEncodable)'
    BY <1>1 DEF FlowInv, Sealed, NothingSealed, SealedByClient, SealedEncodable
  <1>3. SentFromSealed'
    BY <1>1 DEF FlowInv, SentFromSealed, Forwarded
  <1>4. Judged'
    BY <1>1 DEF FlowInv, Judged, RouteDialect
  <1>5. RouteDialect(sent)' = RouteDialect(sent)
    BY <1>1 DEF RouteDialect
  <1>6. ReadBack'
    BY <1>1, <1>5 DEF Report, ReadBack
  <1> QED
    BY <1>1, <1>2, <1>3, <1>4, <1>6 DEF FlowInv

\* The invariant is inductive.
LEMMA FlowNext == FlowInv /\ [Next]_vars => FlowInv'
  <1> SUFFICES ASSUME FlowInv, [Next]_vars
               PROVE  FlowInv'
    OBVIOUS
  <1>1. CASE \E cfg \in HpkeConfigs : Load(cfg)
    BY <1>1, LoadFlow
  <1>2. CASE \E c \in Clients : Seal(c)
    BY <1>2, SealFlow
  <1>3. CASE \E route \in Routes, r \in Reports, time \in Times, e \in Envelopes :
                 Forward(route, r, time, e)
    BY <1>3, ForwardFlow
  <1>4. CASE Verify
    BY <1>4, VerifyFlow
  <1>5. CASE Report
    BY <1>5, ReportFlowStep
  <1>6. CASE UNCHANGED vars
    BY <1>6 DEF vars, FlowInv, NothingSealed, SealedByClient, SealedEncodable, Sealed,
                SentFromSealed, Forwarded, Judged, ReadBack, RouteDialect
  <1> QED
    BY <1>1, <1>2, <1>3, <1>4, <1>5, <1>6 DEF Next

\* In every reachable state each value on the path stems from the ones before it.
LEMMA FlowInvariant == Spec => []FlowInv
  BY FlowInit, FlowNext, PTL DEF Spec

-----------------------------------------------------------------------------
(* What it means that the Helper accepted.                                  *)

\* An accepted report opened: under the version of its route, and under the AAD
\* of one of the candidate shapes.
LEMMA AcceptedOpens ==
    ASSUME FlowInv, outcome = Finished
    PROVE  /\ sent # None /\ sealed # None /\ client \in Clients /\ sealed = Sealed(client)
           /\ sent.vi.ct = sealed.ct
           /\ sent.vi.report \in Reports /\ sent.vi.time \in Times
           /\ sent.vi.exts = <<>> /\ sent.vi.publicShare \in Seq(Fields)
           /\ helperInputShareInfo(client.version) = helperInputShareInfo(RouteDialect(sent))
           /\ \E v : InputShareAad(AadVariant(client), View(client), Metadata(client), <<>>)
                        = InputShareAad(v, task, ReportMetadata(sent.vi), sent.vi.publicShare)
  <1>1. sent # None /\ sealed # None /\ client \in Clients /\ sealed = Sealed(client)
    BY NoneAssumption DEF FlowInv, Judged, SentFromSealed, SealedByClient
  <1>2. /\ sent.vi.ct = sealed.ct
        /\ sent.vi.report \in Reports /\ sent.vi.time \in Times
        /\ sent.vi.publicShare \in Seq(Fields)
    <2>1. PICK r \in Reports, time \in Times, e \in Envelopes : sent.vi = Forwarded(r, time, e)
      BY <1>1 DEF FlowInv, SentFromSealed
    <2> QED
      BY <2>1, FlowAssumption DEF Forwarded
  <1>3. Opens(task, RouteDialect(sent), sent.vi) /\ WellFormed(sent.vi)
    BY NoneAssumption DEF FlowInv, Judged, aggregateInit, Finished
  <1>4. /\ sealed.ct.info = helperInputShareInfo(client.version)
        /\ sealed.ct.aad = InputShareAad(AadVariant(client), View(client), Metadata(client), <<>>)
    BY <1>1 DEF Sealed
  <1>5. sent.vi.exts = <<>>
    BY <1>3 DEF WellFormed, validReportExtensions
  <1> QED
    BY <1>1, <1>2, <1>3, <1>4, <1>5 DEF Opens, HpkeOpens

\* A report is accepted only by a Helper of the version it was sealed under: the
\* version is in the HPKE info, which the fallback between AAD shapes never varies.
THEOREM VersionIsPinned == Spec => []VersionPinned
  <1>1. FlowInv => VersionPinned
    <2> SUFFICES ASSUME FlowInv, outcome = Finished
                 PROVE  VersionString(client.version) = VersionString(task.variant)
      BY DEF VersionPinned
    <2>1. VersionString(client.version) = VersionString(RouteDialect(sent))
      BY AcceptedOpens DEF helperInputShareInfo
    <2>2. CASE sent.route = "create"
      BY <2>1, <2>2 DEF RouteDialect
    <2>3. CASE sent.route = "janus"
      <3>1. task.variant \notin {"Draft19", "Draft20"}
        BY <2>3, AcceptedOpens DEF FlowInv, SentFromSealed, afterDraft18
      <3> QED
        BY <2>1, <2>3, <3>1 DEF RouteDialect, VersionString
    <2> QED
      BY <2>2, <2>3, AcceptedOpens DEF FlowInv, SentFromSealed, Routes
  <1> QED
    BY <1>1, FlowInvariant, PTL

-----------------------------------------------------------------------------
(* Reading an AAD: where one field ends and the next begins.                *)

\* Two ways to cut one sequence in two: the shorter first part begins the longer,
\* and the rest of the longer goes to the other second part.
LEMMA TwoCuts ==
    ASSUME NEW S, NEW a \in Seq(S), NEW b \in Seq(S), NEW c \in Seq(S), NEW d \in Seq(S),
           a \o b = c \o d, Len(a) =< Len(c)
    PROVE  /\ SubSeq(c, 1, Len(a)) = a
           /\ SubSeq(c, Len(a) + 1, Len(c)) \o d = b
  <1> DEFINE m == Len(a)
             n == Len(c)
             rest == SubSeq(c, m + 1, n)
  <1>1. m \in Nat /\ n \in Nat /\ Len(b) \in Nat /\ Len(d) \in Nat /\ m =< n
    OBVIOUS
  <1>2. m + Len(b) = n + Len(d)
    <2>1. Len(a \o b) = m + Len(b) /\ Len(c \o d) = n + Len(d)
      OBVIOUS
    <2> QED
      BY <2>1
  <1>3. \A i \in 1..m : a[i] = c[i]
    <2> TAKE i \in 1..m
    <2>1. (a \o b)[i] = a[i] /\ (c \o d)[i] = c[i]
      BY <1>1
    <2> QED
      BY <2>1
  <1>4. SubSeq(c, 1, m) = a
    BY <1>1, <1>3
  <1>5. rest \in Seq(S) /\ Len(rest) = n - m /\ \A i \in 1..(n - m) : rest[i] = c[m + i]
    BY <1>1
  <1>6. rest \o d \in Seq(S) /\ Len(rest \o d) = Len(b)
    BY <1>1, <1>2, <1>5
  <1>7. \A i \in 1..Len(b) : (rest \o d)[i] = b[i]
    <2> TAKE i \in 1..Len(b)
    <2>1. (a \o b)[m + i] = b[i]
      <3>1. m + i \in 1..(m + Len(b)) /\ ~(m + i <= m) /\ (m + i) - m = i
        BY <1>1
      <3> QED
        BY <3>1, ConcatProperties
    <2>2. CASE i =< n - m
      <3>1. (rest \o d)[i] = rest[i] /\ rest[i] = c[m + i]
        BY <1>1, <1>5, <2>2
      <3>2. (c \o d)[m + i] = c[m + i]
        BY <1>1, <2>2
      <3> QED
        BY <2>1, <3>1, <3>2
    <2>3. CASE i > n - m
      <3>1. (rest \o d)[i] = d[i - (n - m)]
        BY <1>1, <1>2, <1>5, <2>3
      <3>2. (c \o d)[m + i] = d[(m + i) - n]
        BY <1>1, <1>2, <2>3
      <3>3. (m + i) - n = i - (n - m)
        BY <1>1
      <3> QED
        BY <2>1, <3>1, <3>2, <3>3
    <2> QED
      BY <1>1, <2>2, <2>3
  <1>8. rest \o d = b
    <2>1. \A i \in 1..Len(rest \o d) : (rest \o d)[i] = b[i]
      BY <1>6, <1>7
    <2> HIDE DEF rest
    <2> QED
      BY <1>6, <2>1, SeqEqual
  <1> QED
    BY <1>4, <1>8

\* A sequence of fields, the task ID among them.
Encodings == Seq(Fields \union {"t"})

\* Concatenation and the two parts of a cut, which the lemmas below keep unexpanded.
Cat(a, b) == a \o b
Start(c, n) == SubSeq(c, 1, n)
Rest(c, n) == SubSeq(c, n + 1, Len(c))

\* Concatenation of encodings.
LEMMA Concat ==
    ASSUME NEW a \in Encodings, NEW b \in Encodings
    PROVE  /\ Cat(a, b) \in Encodings
           /\ Len(Cat(a, b)) = Len(a) + Len(b)
           /\ Len(a) \in Nat
           /\ Cat(<<>>, a) = a
  BY ConcatProperties, LenProperties, ConcatEmptySeq DEF Encodings, Cat

\* Concatenation in any grouping.
LEMMA ConcatAssoc ==
    ASSUME NEW a \in Encodings, NEW b \in Encodings, NEW c \in Encodings
    PROVE  Cat(Cat(a, b), c) = Cat(a, Cat(b, c))
  BY ConcatAssociative DEF Encodings, Cat

\* TwoCuts, for encodings.
LEMMA EncodingCuts ==
    ASSUME NEW a \in Encodings, NEW b \in Encodings, NEW c \in Encodings, NEW d \in Encodings,
           Cat(a, b) = Cat(c, d), Len(a) =< Len(c)
    PROVE  /\ Start(c, Len(a)) = a
           /\ Cat(Rest(c, Len(a)), d) = b
           /\ Rest(c, Len(a)) \in Encodings
  <1>1. Start(c, Len(a)) = a /\ Cat(Rest(c, Len(a)), d) = b
    BY TwoCuts DEF Encodings, Cat, Start, Rest
  <1>2. Rest(c, Len(a)) \in Encodings
    BY DEF Encodings, Rest
  <1> QED
    BY <1>1, <1>2

\* First parts of one length are equal, and so are the second parts.
LEMMA SameCut ==
    ASSUME NEW a \in Encodings, NEW b \in Encodings, NEW c \in Encodings, NEW d \in Encodings,
           Cat(a, b) = Cat(c, d), Len(a) = Len(c)
    PROVE  a = c /\ b = d
  <1>1. Len(a) \in Nat /\ Len(c) \in Nat
    BY Concat
  <1>2. Len(a) =< Len(c)
    BY <1>1
  <1>3. Start(c, Len(a)) = a /\ Cat(Rest(c, Len(a)), d) = b
    BY <1>2, EncodingCuts
  <1>4. Start(c, Len(c)) = c /\ Rest(c, Len(c)) = <<>>
    BY DEF Encodings, Start, Rest
  <1>5. Cat(<<>>, d) = d
    BY Concat
  <1> QED
    BY <1>3, <1>4, <1>5

\* Fields, and sequences of them, are encodings.
LEMMA FieldSequences ==
    /\ Seq(Fields) \subseteq Encodings /\ <<>> \in Encodings /\ Len(<<>>) = 0
    /\ <<"t">> \in Encodings
    /\ \A x \in Fields : <<x>> \in Encodings /\ Len(<<x>>) = 1
    /\ \A x, y, z \in Fields : <<x, y, z>> \in Encodings /\ Len(<<x, y, z>>) = 3
    /\ \A x, y, z \in Fields : Cat(<<x, y, z>>, <<>>) = <<x, y, z>>
    /\ \A s \in Encodings : Len(s) \in Fields /\ (Len(s) = 0 => s = <<>>)
  <1>1. /\ Seq(Fields) \subseteq Encodings /\ <<>> \in Encodings /\ Len(<<>>) = 0
        /\ <<"t">> \in Encodings
    BY DEF Encodings
  <1>2. \A x \in Fields : <<x>> \in Encodings /\ Len(<<x>>) = 1
    BY DEF Encodings
  <1>3. \A x, y, z \in Fields : <<x, y, z>> \in Encodings /\ Len(<<x, y, z>>) = 3
    BY DEF Encodings
  <1>4. \A x, y, z \in Fields : Cat(<<x, y, z>>, <<>>) = <<x, y, z>>
    BY <1>3, ConcatEmptySeq DEF Encodings, Cat
  <1>5. \A s \in Encodings : Len(s) \in Fields /\ (Len(s) = 0 => s = <<>>)
    BY DEF Encodings, Fields
  <1> QED
    BY <1>1, <1>2, <1>3, <1>4, <1>5

\* What comes after the configuration.
Trailer(metadata, publicShare) == Cat(MetadataBytes(metadata), PublicShareBytes(publicShare))

\* Metadata as an accepted report has it.
PlainMetadata(md) == md.report \in Fields /\ md.time \in Fields /\ md.exts = <<>>

\* Metadata without extensions takes three fields.
LEMMA MetadataTyped ==
    ASSUME NEW md, PlainMetadata(md)
    PROVE  /\ MetadataBytes(md) = <<md.report, md.time, 0>>
           /\ MetadataBytes(md) \in Encodings /\ Len(MetadataBytes(md)) = 3
  <1>1. 0 \in Fields /\ Len(<<>>) = 0
    BY DEF Fields
  <1>2. MetadataBytes(md) = Cat(<<md.report, md.time, 0>>, <<>>)
    BY <1>1 DEF MetadataBytes, PlainMetadata, Cat
  <1> QED
    BY <1>1, <1>2, FieldSequences DEF PlainMetadata

\* A public share behind its length.
LEMMA PublicShareTyped ==
    ASSUME NEW p \in Encodings
    PROVE  /\ PublicShareBytes(p) = Cat(<<Len(p)>>, p) /\ PublicShareBytes(p) \in Encodings
           /\ <<Len(p)>> \in Encodings /\ Len(<<Len(p)>>) = 1
           /\ Len(PublicShareBytes(p)) = 1 + Len(p)
  <1>1. PublicShareBytes(p) = Cat(<<Len(p)>>, p)
    BY DEF PublicShareBytes, Cat
  <1>2. <<Len(p)>> \in Encodings /\ Len(<<Len(p)>>) = 1
    BY FieldSequences
  <1>3. /\ Cat(<<Len(p)>>, p) \in Encodings
        /\ Len(Cat(<<Len(p)>>, p)) = Len(<<Len(p)>>) + Len(p)
    BY <1>2, Concat
  <1> QED
    BY <1>1, <1>2, <1>3

\* What comes after the configuration takes four fields and the public share.
LEMMA TrailerTyped ==
    ASSUME NEW md, NEW p \in Encodings, PlainMetadata(md)
    PROVE  Trailer(md, p) \in Encodings /\ Len(Trailer(md, p)) = Len(p) + 4
  <1>1. MetadataBytes(md) \in Encodings /\ Len(MetadataBytes(md)) = 3
    BY MetadataTyped
  <1>2. PublicShareBytes(p) \in Encodings /\ Len(PublicShareBytes(p)) = 1 + Len(p)
    BY PublicShareTyped
  <1>3. /\ Trailer(md, p) \in Encodings
        /\ Len(Trailer(md, p)) = Len(MetadataBytes(md)) + Len(PublicShareBytes(p))
    BY <1>1, <1>2, Concat DEF Trailer
  <1>4. Len(p) \in Nat
    BY Concat
  <1> QED
    BY <1>1, <1>2, <1>3, <1>4

\* Metadata and public share are delimited: without a configuration in front of
\* them, the fields of an AAD can be read off it.
LEMMA TrailerDelimited ==
    ASSUME NEW a, NEW b, NEW p \in Encodings, PlainMetadata(a), PlainMetadata(b),
           Trailer(a, <<>>) = Trailer(b, p)
    PROVE  a.report = b.report /\ a.time = b.time /\ p = <<>>
  <1>1. /\ MetadataBytes(a) = <<a.report, a.time, 0>>
        /\ MetadataBytes(a) \in Encodings /\ Len(MetadataBytes(a)) = 3
    BY MetadataTyped
  <1>2. /\ MetadataBytes(b) = <<b.report, b.time, 0>>
        /\ MetadataBytes(b) \in Encodings /\ Len(MetadataBytes(b)) = 3
    BY MetadataTyped
  <1>3. <<>> \in Encodings /\ Len(<<>>) = 0 /\ Len(p) \in Nat
    BY FieldSequences, Concat
  <1>4. PublicShareBytes(<<>>) \in Encodings /\ PublicShareBytes(p) \in Encodings
    BY <1>3, PublicShareTyped
  <1>5. MetadataBytes(a) = MetadataBytes(b)
    BY <1>1, <1>2, <1>4, SameCut DEF Trailer
  <1>6. Len(Trailer(a, <<>>)) = Len(<<>>) + 4
    BY <1>3, TrailerTyped
  <1>7. Len(Trailer(b, p)) = Len(p) + 4
    BY TrailerTyped
  <1>8. Len(<<>>) + 4 = Len(p) + 4
    BY <1>6, <1>7
  <1>9. Len(p) = 0
    BY <1>3, <1>8
  <1>10. p = <<>>
    BY <1>9, FieldSequences
  <1> QED
    BY <1>1, <1>2, <1>5, <1>10

\* Four parts of an AAD, grouped from the left or from the right.
LEMMA AadApart ==
    ASSUME NEW H \in Encodings, NEW X \in Encodings, NEW M \in Encodings, NEW P \in Encodings
    PROVE  Cat(Cat(Cat(H, X), M), P) = Cat(H, Cat(X, Cat(M, P)))
  <1>1. Cat(X, M) \in Encodings
    BY Concat
  <1>2. Cat(Cat(H, X), M) = Cat(H, Cat(X, M))
    BY ConcatAssoc
  <1>3. Cat(Cat(H, Cat(X, M)), P) = Cat(H, Cat(Cat(X, M), P))
    BY <1>1, ConcatAssoc
  <1>4. Cat(Cat(X, M), P) = Cat(X, Cat(M, P))
    BY ConcatAssoc
  <1> QED
    BY <1>2, <1>3, <1>4

\* A configuration and four fields read as three fields and a public share: the
\* fourth field of the configuration is its length, the public share all the rest.
LEMMA ReadAsJanus ==
    ASSUME NEW B \in Encodings, Len(B) > 4, NEW A \in Encodings, Len(A) = 4,
           NEW M \in Encodings, Len(M) = 3, NEW p \in Encodings,
           Cat(B, A) = Cat(M, PublicShareBytes(p))
    PROVE  /\ Start(B, 4) = Cat(M, <<Len(B)>>) /\ p = Cat(Rest(B, 4), A)
           /\ Rest(B, 4) \in Encodings
  <1> DEFINE L == <<Len(p)>>
             N == Cat(M, L)
  <1>1. PublicShareBytes(p) = Cat(L, p) /\ L \in Encodings /\ Len(L) = 1
    BY PublicShareTyped
  <1>2. N \in Encodings /\ Len(N) = Len(M) + Len(L)
    BY <1>1, Concat
  <1>3. Cat(N, p) = Cat(M, Cat(L, p))
    BY <1>1, ConcatAssoc
  <1>4. Cat(N, p) = Cat(B, A)
    BY <1>1, <1>3
  <1> HIDE DEF N, L
  <1>5. Len(p) \in Nat /\ Len(B) \in Nat
    BY Concat
  <1>6. Len(N) = 4
    BY <1>1, <1>2
  <1>7. Len(Cat(B, A)) = Len(B) + Len(A) /\ Len(Cat(N, p)) = Len(N) + Len(p)
    BY <1>2, Concat
  <1>8. Len(B) + 4 = 4 + Len(p)
    BY <1>4, <1>6, <1>7
  <1>9. Len(p) = Len(B)
    BY <1>5, <1>8
  <1>10. Len(N) =< Len(B)
    BY <1>5, <1>6
  <1>11. /\ Start(B, Len(N)) = N /\ Cat(Rest(B, Len(N)), A) = p
         /\ Rest(B, Len(N)) \in Encodings
    BY <1>2, <1>4, <1>10, EncodingCuts
  <1>12. N = Cat(M, <<Len(B)>>)
    BY <1>9 DEF N, L
  <1> QED
    BY <1>6, <1>11, <1>12

\* Clocks, precisions: a time is a field.
LEMMA TimesAreFields == \A c \in Configurations, now \in Clocks : truncate(c, now) \in Fields
  <1> SUFFICES ASSUME NEW c \in Configurations, NEW now \in Clocks
               PROVE  truncate(c, now) \in Nat
    BY DEF Fields
  <1>1. c.precision \in Nat /\ now \in Int
    BY FlowAssumption
  <1>2. CASE c.precision = 0
    BY <1>1, <1>2 DEF truncate
  <1>3. CASE c.precision > 0
    <2> DEFINE p == c.precision
               secs == IF now < 0 THEN 0 ELSE now
    <2>1. secs \in Nat /\ p \in Nat
      BY <1>1
    <2> HIDE DEF p, secs
    <2>2. ASSUME p > 0
          PROVE  secs \div p \in Nat
      BY <2>1, <2>2
    <2>3. \A x, y \in Nat : x * y \in Nat
      OBVIOUS
    <2>4. p > 0 /\ truncate(c, now) = (secs \div p) * p
      BY <1>3 DEF truncate, p, secs
    <2> QED
      BY <2>1, <2>2, <2>3, <2>4
  <1> QED
    BY <1>1, <1>2, <1>3

\* An accepted report was opened with the metadata, public share and, unless in the
\* Janus shape, configuration it was sealed with, or was misread.
LEMMA AcceptedAsSealed ==
    ASSUME FlowInv, outcome = Finished
    PROVE  \/ Misread
           \/ /\ ReportMetadata(sent.vi) = sealed.metadata
              /\ sent.vi.publicShare = sealed.publicShare
              /\ client.shape = "published" => client.config = task.config
  <1> DEFINE md == Metadata(client)
             nd == ReportMetadata(sent.vi)
             p  == sent.vi.publicShare
             B  == client.config.bytes
             C  == task.config.bytes
             A  == Trailer(md, <<>>)
             Z  == Trailer(nd, p)
             wv == AadVariant(client)
  <1>1. PICK v : InputShareAad(wv, View(client), md, <<>>) = InputShareAad(v, task, nd, p)
    BY AcceptedOpens
  <1>2. /\ client \in Clients /\ sealed = Sealed(client) /\ p \in Seq(Fields)
        /\ sent.vi.report \in Reports /\ sent.vi.time \in Times /\ sent.vi.exts = <<>>
    BY AcceptedOpens
  <1>3. PlainMetadata(md) /\ PlainMetadata(nd)
    <2>1. client.report \in Reports /\ client.config \in Configurations /\ client.now \in Clocks
      BY <1>2 DEF Clients
    <2>2. truncate(client.config, client.now) \in Fields /\ sent.vi.time \in Fields
      BY <1>2, <2>1, TimesAreFields DEF Times
    <2> QED
      BY <1>2, <2>1, <2>2 DEF Metadata, ReportMetadata, Fields, PlainMetadata
  <1>4. /\ client.config \in EveryConfiguration /\ task.config \in EveryConfiguration
        /\ task.id = "t"
    BY <1>2, FlowAssumption DEF EveryConfiguration, Clients, FlowInv
  <1>5. /\ B \in Encodings /\ C \in Encodings /\ Len(B) > 4 /\ Len(C) > 4
        /\ p \in Encodings /\ <<>> \in Encodings /\ Len(<<>>) = 0
    BY <1>2, <1>4, EncodingAssumption, FieldSequences
  <1>6. Len(B) \in Nat /\ Len(C) \in Nat /\ Len(p) \in Nat
    BY <1>5, Concat
  <1>7. sealed.metadata = md /\ sealed.publicShare = <<>>
    BY <1>2 DEF Sealed
  <1>8. client.shape = "published" <=> wv # "Janus"
    BY <1>2 DEF AadVariant, Clients, Versions
  <1>9. ASSUME A = Z
        PROVE  ReportMetadata(sent.vi) = sealed.metadata /\ sent.vi.publicShare = sealed.publicShare
    <2>1. md.report = nd.report /\ md.time = nd.time /\ p = <<>>
      BY <1>3, <1>5, <1>9, TrailerDelimited
    <2>2. md.exts = nd.exts
      BY <1>3 DEF PlainMetadata
    <2> QED
      BY <1>7, <2>1, <2>2 DEF Metadata, ReportMetadata
  <1>10. Cat(IF wv = "Janus" THEN <<>> ELSE B, A) = Cat(IF v = "Janus" THEN <<>> ELSE C, Z)
    <2> DEFINE X == IF wv = "Janus" THEN <<>> ELSE B
               Y == IF v = "Janus" THEN <<>> ELSE C
               H == <<"t">>
               M == MetadataBytes(md)
               N == MetadataBytes(nd)
               Q == PublicShareBytes(<<>>)
               R == PublicShareBytes(p)
    <2>1. X \in Encodings /\ Y \in Encodings /\ H \in Encodings
      BY <1>5, FieldSequences
    <2>2. M \in Encodings /\ N \in Encodings
      BY <1>3, MetadataTyped
    <2>3. Q \in Encodings /\ R \in Encodings
      BY <1>5, PublicShareTyped
    <2>4. Cat(Cat(Cat(H, X), M), Q) = Cat(Cat(Cat(H, Y), N), R)
      BY <1>1, <1>4 DEF InputShareAad, View, Cat
    <2>5. A = Cat(M, Q) /\ Z = Cat(N, R)
      BY DEF Trailer
    <2> HIDE DEF X, Y, H, M, N, Q, R, A, Z
    <2>6. Cat(Cat(Cat(H, X), M), Q) = Cat(H, Cat(X, A))
      BY <2>1, <2>2, <2>3, <2>5, AadApart
    <2>7. Cat(Cat(Cat(H, Y), N), R) = Cat(H, Cat(Y, Z))
      BY <2>1, <2>2, <2>3, <2>5, AadApart
    <2>8. A \in Encodings /\ Z \in Encodings
      BY <2>2, <2>3, <2>5, Concat
    <2>9. Cat(X, A) \in Encodings /\ Cat(Y, Z) \in Encodings
      BY <2>1, <2>8, Concat
    <2>10. Cat(H, Cat(X, A)) = Cat(H, Cat(Y, Z))
      BY <2>4, <2>6, <2>7
    <2>11. Cat(X, A) = Cat(Y, Z)
      BY <2>1, <2>9, <2>10, SameCut
    <2> QED
      BY <2>11 DEF X, Y
  <1>11. A \in Encodings /\ Len(A) = 4 /\ Cat(<<>>, A) = A
    <2>1. A \in Encodings /\ Len(A) = Len(<<>>) + 4
      BY <1>3, <1>5, TrailerTyped
    <2> HIDE DEF A
    <2>2. Cat(<<>>, A) = A
      BY <2>1, Concat
    <2> QED
      BY <1>5, <2>1, <2>2
  <1>12. Z \in Encodings /\ Len(Z) = Len(p) + 4 /\ Cat(<<>>, Z) = Z
    <2>1. Z \in Encodings /\ Len(Z) = Len(p) + 4
      BY <1>3, <1>5, TrailerTyped
    <2> HIDE DEF Z
    <2>2. Cat(<<>>, Z) = Z
      BY <2>1, Concat
    <2> QED
      BY <2>1, <2>2
  <1> HIDE DEF A, Z, wv, B, C, p, md, nd
  <1>13. CASE wv = "Janus" /\ v = "Janus"
    BY <1>8, <1>9, <1>10, <1>11, <1>12, <1>13
  <1>14. CASE wv = "Janus" /\ v # "Janus"
    <2>1. A = Cat(C, Z)
      BY <1>10, <1>11, <1>14
    <2>2. Len(Cat(C, Z)) = Len(C) + Len(Z)
      BY <1>5, <1>12, Concat
    <2>3. 4 = Len(C) + (Len(p) + 4)
      BY <1>11, <1>12, <2>1, <2>2
    <2>4. FALSE
      BY <1>5, <1>6, <2>3
    <2> QED
      BY <2>4
  <1>15. CASE wv # "Janus" /\ v = "Janus"
    <2>1. Cat(B, A) = Z
      BY <1>10, <1>12, <1>15
    <2> DEFINE N == MetadataBytes(nd)
               M == MetadataBytes(md)
               Q == PublicShareBytes(<<>>)
    <2>2. N \in Encodings /\ Len(N) = 3 /\ M \in Encodings
      BY <1>3, MetadataTyped
    <2>3. Z = Cat(N, PublicShareBytes(p)) /\ A = Cat(M, Q)
      BY DEF Z, A, Trailer
    <2>4. Q \in Encodings
      BY <1>5, PublicShareTyped
    <2> HIDE DEF N, M, Q
    <2>5. /\ Start(B, 4) = Cat(N, <<Len(B)>>) /\ p = Cat(Rest(B, 4), A)
          /\ Rest(B, 4) \in Encodings
      BY <1>5, <1>11, <2>1, <2>2, <2>3, ReadAsJanus
    <2>6. p = Cat(Cat(Rest(B, 4), M), Q)
      BY <2>2, <2>3, <2>4, <2>5, ConcatAssoc
    <2>7. Start(B, 4) = SubSeq(B, 1, 4) /\ Rest(B, 4) = SubSeq(B, 5, Len(B))
      BY DEF Start, Rest
    <2>8. /\ SubSeq(B, 1, 4) = MetadataBytes(nd) \o <<Len(B)>>
          /\ p = (SubSeq(B, 5, Len(B)) \o MetadataBytes(md)) \o PublicShareBytes(<<>>)
      BY <2>5, <2>6, <2>7 DEF Cat, N, M, Q
    <2> QED
      BY <1>7, <1>8, <1>15, <2>8 DEF Misread, B, p, nd
  <1>16. CASE wv # "Janus" /\ v # "Janus"
    <2>1. Cat(B, A) = Cat(C, Z)
      BY <1>10, <1>16
    <2>2. client.config = task.config
      <3>1. CASE Len(B) =< Len(C)
        <4>1. Start(C, Len(B)) = B
          BY <1>5, <1>11, <1>12, <2>1, <3>1, EncodingCuts
        <4> QED
          BY <1>4, <3>1, <4>1, EncodingAssumption DEF B, C, Start
      <3>2. CASE Len(C) =< Len(B)
        <4>1. Start(B, Len(C)) = C
          BY <1>5, <1>11, <1>12, <2>1, <3>2, EncodingCuts
        <4> QED
          BY <1>4, <3>2, <4>1, EncodingAssumption DEF B, C, Start
      <3> QED
        BY <1>6, <3>1, <3>2
    <2>3. Len(B) = Len(C)
      BY <2>2 DEF B, C
    <2>4. A = Z
      BY <1>5, <1>11, <1>12, <2>1, <2>3, SameCut
    <2> QED
      BY <1>9, <2>2, <2>4
  <1> QED
    BY <1>13, <1>14, <1>15, <1>16

\* A report sealed in the published shape is accepted only under the task
\* configuration its Client was given: the AAD begins with it.  The exception is a
\* configuration the Janus fallback reads as metadata, Misread.
THEOREM ConfigurationIsBound == Spec => []ConfigurationBound
  <1>1. FlowInv => ConfigurationBound
    BY AcceptedAsSealed DEF ConfigurationBound
  <1> QED
    BY <1>1, FlowInvariant, PTL

\* The Leader cannot pass a report off under another ID or time or with another
\* public share: every AAD shape carries them, with the same exception.
THEOREM MetadataIsBound == Spec => []MetadataBound
  <1>1. FlowInv => MetadataBound
    BY AcceptedAsSealed DEF MetadataBound
  <1> QED
    BY <1>1, FlowInvariant, PTL

\* A registry gives no code point to two errors.
LEMMA RegistryInjective ==
    ASSUME NEW v, NEW e, NEW f, HasCodePoint(e, v), HasCodePoint(f, v),
           ReportErrorToWire(e, v) = ReportErrorToWire(f, v)
    PROVE  e = f
  <1>1. CASE draft19Values(v)
    BY <1>1 DEF HasCodePoint, ReportErrorToWire, reportErrorTable, reportError19
  <1>2. CASE ~draft19Values(v)
    BY <1>2 DEF HasCodePoint, ReportErrorToWire, reportErrorTable, reportError18
  <1> QED
    BY <1>1, <1>2

\* The Leader reads the very error the Helper recorded, in every dialect.
THEOREM ErrorsRoundTrip == Spec => []ErrorRoundTrip
  <1>1. FlowInv => ErrorRoundTrip
    <2> SUFFICES ASSUME FlowInv, received # None
                 PROVE  received = {outcome}
      BY DEF ErrorRoundTrip
    <2> DEFINE v == RouteDialect(sent)
    <2>1. CASE outcome = Finished /\ received = {Finished}
      BY <2>1
    <2>2. CASE /\ HasCodePoint(outcome, v)
               /\ received = ReportErrorFromWire(ReportErrorToWire(outcome, v), v)
      <3> HIDE DEF v
      <3>1. \A e : e \in received <=> /\ HasCodePoint(e, v)
                                      /\ ReportErrorToWire(e, v) = ReportErrorToWire(outcome, v)
        BY <2>2 DEF ReportErrorFromWire, HasCodePoint, ReportErrorToWire
      <3> QED
        BY <2>2, <3>1, RegistryInjective
    <2> QED
      BY <2>1, <2>2 DEF FlowInv, ReadBack
  <1> QED
    BY <1>1, FlowInvariant, PTL

-----------------------------------------------------------------------------
(* Honest reports.                                                          *)

\* Whatever shape a Client of the version and configuration of the task sealed in,
\* the Helper tries it on every route it serves, and the route's version is the
\* Client's own.
LEMMA ShapeIsTried ==
    ASSUME FlowInv, client \in Clients, task.variant \in Variants,
           VersionString(client.version) = VersionString(task.variant),
           client.config = task.config,
           AadEncodable(AadVariant(client), View(client)),
           NEW variant,
           \/ variant = task.variant
           \/ variant = "Janus" /\ ~afterDraft18(task.variant)
    PROVE  /\ VersionString(variant) = VersionString(client.version)
           /\ \E v \in Candidates(variant) :
                 AadEncodable(v, task) /\ (v = "Janus") = (AadVariant(client) = "Janus")
  <1>1. client.version \in {"Draft18", "Draft19", "Draft20"}
        /\ client.shape \in {"published", "janus"}
    BY DEF Clients, Versions
  <1>2. VersionString(variant) = VersionString(client.version)
    BY DEF VersionString, afterDraft18
  <1>3. CASE client.shape = "janus"
    <2>1. AadVariant(client) = "Janus"
      BY <1>3 DEF AadVariant
    <2>2. "Janus" \in Candidates(variant)
      BY DEF Candidates
    <2> QED
      BY <1>2, <2>1, <2>2 DEF AadEncodable
  <1>4. CASE client.shape = "published"
    <2>1. AadVariant(client) = client.version /\ client.version # "Janus"
      BY <1>1, <1>4 DEF AadVariant
    <2>2. PICK v \in Candidates(variant) : v # "Janus" /\ VersionString(v) = VersionString(client.version)
      BY <1>1, <1>2 DEF Candidates, VersionString, Variants
    <2>3. draft19Values(v) = draft19Values(client.version)
      BY <1>1, <2>2 DEF draft19Values, VersionString
    <2>4. View(client).config = task.config
      BY DEF View
    <2>5. AadEncodable(v, task)
      BY <2>1, <2>3, <2>4 DEF AadEncodable
    <2> QED
      BY <1>2, <2>1, <2>2, <2>5
  <1> QED
    BY <1>1, <1>3, <1>4

\* A report forwarded in good order is accepted, on every route the task is served
\* on and in both AAD shapes.
THEOREM HonestIsAccepted == Spec => []HonestAccepted
  <1>1. FlowInv => HonestAccepted
    <2> DEFINE vi == sent.vi
               variant == RouteDialect(sent)
    <2> SUFFICES ASSUME FlowInv, outcome # None,
                        VersionString(client.version) = VersionString(task.variant),
                        client.config = task.config, ~client.exts,
                        aggregator.key = task.hpkeKey,
                        ReportMetadata(vi) = sealed.metadata,
                        vi.publicShare = sealed.publicShare,
                        vi.configID = task.hpkeConfigID,
                        vi.frame = "initialize", vi.share.key = task.keys[0]
                 PROVE  outcome = Finished
      BY DEF HonestAccepted
    <2>1. /\ sent # None /\ sealed # None
          /\ client \in Clients /\ sealed = Sealed(client)
          /\ AadEncodable(AadVariant(client), View(client))
          /\ outcome = aggregateInit(task, task.keys[0], variant, vi)
      BY DEF FlowInv, Judged, SentFromSealed, SealedByClient, SealedEncodable
    <2>2. task.id = "t" /\ task.variant \in Variants
      BY FlowAssumption DEF FlowInv
    <2>3. PICK r \in Reports, time \in Times, e \in Envelopes : vi = Forwarded(r, time, e)
      BY <2>1 DEF FlowInv, SentFromSealed
    <2>4. /\ vi.ct = sealed.ct /\ vi.publicShare = <<>>
          /\ vi.share.ok /\ vi.share.ctx = task.ctx /\ vi.share.report = vi.report
          /\ vi.share.sound
      BY <2>1, <2>3 DEF Forwarded, Sealed
    <2>5. \/ variant = task.variant
          \/ variant = "Janus" /\ ~afterDraft18(task.variant)
      BY <2>1 DEF RouteDialect, FlowInv, SentFromSealed, Routes
    <2> HIDE DEF vi, variant
    <2>6. Opens(task, variant, vi)
      <3>1. VersionString(variant) = VersionString(client.version)
        BY <2>1, <2>2, <2>5, ShapeIsTried
      <3>2. PICK v \in Candidates(variant) :
                AadEncodable(v, task) /\ (v = "Janus") = (AadVariant(client) = "Janus")
        BY <2>1, <2>2, <2>5, ShapeIsTried
      <3>3. View(client).id = task.id /\ View(client).config = task.config
        BY <2>2 DEF View
      <3>4. InputShareAad(AadVariant(client), View(client), Metadata(client), <<>>)
               = InputShareAad(v, task, ReportMetadata(vi), vi.publicShare)
        BY <2>1, <2>4, <3>2, <3>3 DEF InputShareAad, Sealed
      <3>5. /\ sealed.ct.key = aggregator.key
            /\ sealed.ct.info = helperInputShareInfo(client.version)
            /\ sealed.ct.aad = InputShareAad(AadVariant(client), View(client), Metadata(client), <<>>)
        BY <2>1 DEF Sealed
      <3>6. helperInputShareInfo(client.version) = helperInputShareInfo(variant)
        BY <3>1 DEF helperInputShareInfo
      <3> QED
        BY <2>4, <3>2, <3>4, <3>5, <3>6 DEF Opens, HpkeOpens
    <2>7. WellFormed(vi)
      <3>1. vi.exts = <<>>
        BY <2>1 DEF Sealed, Metadata, ReportMetadata
      <3> QED
        BY <2>1, <2>4, <3>1 DEF WellFormed, Sealed, validReportExtensions
    <2>8. Verifies(task, task.keys[0], vi)
      BY <2>4 DEF Verifies, vi
    <2> QED
      BY <2>1, <2>6, <2>7, <2>8 DEF aggregateInit, vi
  <1> QED
    BY <1>1, FlowInvariant, PTL

-----------------------------------------------------------------------------
(* The timestamp.                                                           *)

\* The window of precision p a clock reading falls in.
Window(now, p) == IF now < 0 THEN 0 ELSE now \div p

\* The timestamp is the start of the clock's window.
LEMMA TruncateIsWindowStart ==
    ASSUME NEW config, config.precision \in Nat, config.precision > 0, NEW now \in Int
    PROVE  /\ Window(now, config.precision) \in Nat
           /\ truncate(config, now) = Window(now, config.precision) * config.precision
  <1> DEFINE p == config.precision
  <1>1. CASE now < 0
    <2>1. 0 \div p = 0
      OBVIOUS
    <2> QED
      BY <1>1, <2>1 DEF truncate, Window
  <1>2. CASE ~(now < 0)
    BY <1>2 DEF truncate, Window
  <1> QED
    BY <1>1, <1>2

\* Windows of a positive length start at different times.
LEMMA StartsDiffer ==
    ASSUME NEW p \in Nat, p > 0, NEW a \in Nat, NEW b \in Nat, a * p = b * p
    PROVE  a = b
  <1>1. ASSUME NEW x \in Nat, NEW y \in Nat, x < y
        PROVE  x * p < y * p
    <2>1. y * p = x * p + (y - x) * p
      OBVIOUS
    <2>2. (y - x) * p >= p
      <3> DEFINE d == y - x
      <3>1. d \in Nat /\ d >= 1
        BY <1>1
      <3> HIDE DEF d
      <3>2. d * p = p + (d - 1) * p /\ (d - 1) * p >= 0
        BY <3>1
      <3> QED
        BY <3>2, <3>1 DEF d
    <2> QED
      BY <2>1, <2>2
  <1> QED
    BY <1>1

\* The timestamp tells which window the clock was in and nothing else.
THEOREM TimeIsUnlinkable == Spec => []TimeUnlinkable
  <1>1. FlowInv => TimeUnlinkable
    <2> DEFINE p == client.config.precision
    <2> SUFFICES ASSUME FlowInv, sealed # None, p > 0, NEW now \in Clocks
                 PROVE  Window(now, p) = Window(client.now, p)
                            <=> Metadata([client EXCEPT !.now = now]) = sealed.metadata
      BY DEF TimeUnlinkable, Window
    <2>1. client \in Clients /\ sealed.metadata = Metadata(client)
      BY DEF FlowInv, SealedByClient, Sealed
    <2>2. p \in Nat /\ now \in Int /\ client.now \in Int
      BY <2>1, FlowAssumption DEF Clients
    <2> DEFINE other == [client EXCEPT !.now = now]
    <2>3. other.report = client.report /\ other.config = client.config /\ other.now = now
      BY <2>1 DEF Clients
    <2>4. Metadata(other) = Metadata(client)
             <=> truncate(client.config, now) = truncate(client.config, client.now)
      BY <2>3 DEF Metadata
    <2>5. /\ Window(now, p) \in Nat /\ Window(client.now, p) \in Nat
          /\ truncate(client.config, now) = Window(now, p) * p
          /\ truncate(client.config, client.now) = Window(client.now, p) * p
      BY <2>2, TruncateIsWindowStart
    <2>6. truncate(client.config, now) = truncate(client.config, client.now)
             <=> Window(now, p) = Window(client.now, p)
      BY <2>2, <2>5, StartsDiffer
    <2> QED
      BY <2>1, <2>4, <2>6
  <1> QED
    BY <1>1, FlowInvariant, PTL
=============================================================================
