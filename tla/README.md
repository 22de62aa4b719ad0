# dap-go in TLA+

A verification project for dap-go, a Go implementation of the Helper of the
Distributed Aggregation Protocol (drafts 18, 19, 20 and the Janus dialect) with its
own Prio3Count VDAF. Clients split a measurement into two shares; a Leader sends the
Helper report shares in *aggregation jobs*; the Helper verifies each report with the
Leader's verifier share, commits its output share, and later sums what it committed
for the Collector.

Paths below are relative to the repository root.

## 1. Inventory

| Part | State | Operations | Meets |
| --- | --- | --- | --- |
| Store `pkg/dap/helper/store.go` | tasks, jobs by (task, job ID), claims: report -> job that claimed it first | AddTask, GetTask, GetJob, JobsForTask, PutJob, ClaimReportIDs, DeleteJob; one mutex | called by every handler goroutine and by add_task |
| Handler `pkg/dap/helper/handler.go` | none of its own; per request: the task record it read, the body, the job it built | POST create, PUT create (Janus), GET, DELETE, PUT aggregate share, 501 continuation | several store calls per request, not one transaction |
| Init step `pkg/dap/helper/helper.go` | none | aggregateInit, buildInitJob, buildRejectAllJob, claimReports | HPKE, wire, prio3 |
| Dialects `pkg/dap/wire/variant.go`, `aggregation.go` | none | version strings, ReportError registries, message shapes | Client, Leader and Helper must agree |
| Wire codec `pkg/dap/wire` | none | marshal and unmarshal of every message | all |
| HPKE `internal/hpke` | none | Seal, Open over a third-party library | Client, init step, aggregate share |
| Field64 `pkg/vdaf/field` | none | word arithmetic modulo 2^64 - 2^32 + 1, roots of unity, encoding | FLP, Prio3, aggregate share |
| FLP `pkg/vdaf/flp` | none | Prove, Query, Decide over polynomials held by their values | Prio3 |
| Prio3Count `pkg/vdaf/prio3` | none | Shard, VerifyInit, VerifierSharesToMessage, VerifyNext, aggregation, Unshard | Client, Leader, Helper |
| XOF, TurboSHAKE `pkg/vdaf/xof`, `internal/turboshake` | sponge state, buffer position, absorbing or squeezing | Write, pad, Read; rejection sampling | Prio3 |
| Server `cmd/dap-helper` | the store, an HPKE key pair made at start | add_task, hpke_config, routing | control API next to the DAP routes |
| Matrix client `integration/matrix` | none | probe a homeserver, Task.Report | Client of the protocol |

What is hard here:

- *Concurrency.* net/http runs a goroutine per request. A create is GetTask, body,
  GetJob, ClaimReportIDs, build, PutJob and perhaps GetJob again, with anything in
  between.
- *Retries.* The Leader may repeat any request; a repeated create must get the answer
  of the first, also when both are in flight at once.
- *Replay.* A report must count once per task although jobs, deletes and retries of
  many Leaders' requests touch it.
- *Dialects.* Four of them, with an AAD fallback and a renumbered error registry.
- *Arithmetic.* Carry and borrow corrections that a few operands in 2^64 need.
- *Restarts.* Nothing is persisted: claims, jobs and the HPKE key die with the process,
  and Leaders go on with what they had.
- *Bytes.* Two hand-written directions for every message in up to four dialects, a body
  limit that cuts, and a sponge whose one buffer serves blocks of both phases.

What makes each part correct: for the store and the handler, at-most-once counting,
idempotent creation, claims that mean something, and an answer to every request; for
the dialects, that nothing is accepted across versions or configurations and that a
verdict means the same on both ends; for the field, exactness and one encoding per
element; for the proof system, completeness, soundness and zero knowledge; for
Prio3Count, that the shares sum to the count; for the codec, that a message is read as it
was written, has one encoding and is never read in part; for the sponge and the XOF, that
the output depends on the input alone and not on how it was cut up; for the server, that
a restart does not let a report count twice.

`PROJECT.json` lists the parts under "components" and every hazard with its line under
"hazards".

## 2. Modules

| Module | Models | Checked by |
| --- | --- | --- |
| `Variants` | dialects, ReportError registries | helper and report_flow runs |
| `HelperInit` | aggregateInit, buildInitJob, buildRejectAllJob, AAD candidates | helper and report_flow runs |
| `Helper` | store and handler, concurrent | `helper_*`, three violation runs |
| `Server` | dap-helper: add_task, start and death of the process, around `Helper` | `helper_rotation` |
| `ReportLedger` | abstract: what is counted, held and summed when requests are served one at a time | `helper_draft18` (refinement) |
| `ReportFlow` | one report from Client to Helper and back, over all dialects | `report_flow` |
| `Field64` | field operations | all below |
| `FieldRegister` | a run of operations next to exact arithmetic | `field_register` |
| `FieldPowers` | powers, inverses, roots, encodings | `field_powers` |
| `Flp` | polynomials, prove, query, decide | `prio3` |
| `Prio3` | Client, two Aggregators, Collector | `prio3` |
| `Sponge` | TurboSHAKE128: Write, pad, Read | `sponge` |
| `Xof` | XofTurboShake128 on `Sponge` | `sponge` |
| `Codec` | builder and reader of the presentation language | `wire` |
| `Wire` | Marshal and Unmarshal of every message, Prio3 share encodings | `wire` |
| `MC*` | instances for TLC | |
| `Helper_proofs` | theorems on `Helper` | tlapm |
| `Server_proofs`, `ReportFlow_proofs` | theorems on `Server` and `ReportFlow` | tlapm |
| `FieldRegister_proofs` | theorem on the field's operations; the algebra the next two share | tlapm |
| `FieldPowers_proofs`, `Prio3_proofs` | theorems on powers and encodings, on the proof system and aggregation | tlapm |
| `Xof_proofs` | theorems on `Sponge` and `Xof` | tlapm |
| `Wire_proofs` | theorems on `Codec` and `Wire` | tlapm |

### Helper

`tasks`, `jobs`, `claims` are memStore's maps. Each handler has a place `pc` ("idle",
"body" after GetTask, "claim" after GetJob found nothing, "put" with a built job,
"recheck" after PutJob reported other content), the request `call`, the task record
`snap` it read at the start, and the job `built`. Each store method is atomic in the
code (one RWMutex from start to end) and one action, or a conjunct of one, here; the
computation between two store calls touches only the handler's own data and is folded
into the next action. `reply` is the response the last step wrote; `answered` is
history: every job response sent, entered at the store call that decided it (what is
written afterwards depends on the handler alone).

A request body is opaque; `Decode` gives what it parses to in each message shape, and
`DigestID` the first 16 bytes of its SHA-256. The full hash is taken to be injective:
a job stores the body itself in its place. The truncated one may collide
(`Digest18` maps all bodies to one ID), so the conflict branches are reached on both
routes. One record per report stands for `ReportAggs` and `Response` alike: the code
fills both from the same value.

Replacing a task is AddTask on an ID in `Replaceable`. The `dap-helper` binary registers
draft-18 tasks only, with one key under ID 0; other dialects and keyrings come in
through the library (`NewMemStore`, `Store.AddTask`), which is what `Configs` ranges over.

A sealed aggregate share is the set of summed terms with the Collector it is sealed to.
Sealing fails, with a 500, exactly when the record's Collector key is no key of its
suite; the encodings of the AAD and of the answer cannot fail for what was decoded.

### ReportLedger

The promise of store and handler together, without claims or handlers. Its state are
three sets of entries (task, job, report the job finished): `counted`, what the Leader was
ever told of; `live`, what the existing jobs hold; `handed`, what the last response summed.
*Settle* tells the Leader of a job: none of its reports was counted by another job, and the
job is new or exists with exactly these reports. *Drop* deletes a job, *Collect* hands out
all that the task's jobs hold, *Pass* is everything else. `Helper` maps `counted` to its
history of answers, `live` to the stored jobs and `handed` to the last reply
(`Counted`, `Live`, `Handed`). The refinement is more than OneJobPerReport: it also ties
store, answers and sums together at every step. A PutJob that stored over the job another
handler had stored in the meantime, for instance, breaks it, and neither OneJobPerReport
nor CountedOnce, RetriesAgree or AnswerIsStored.

### Server

`Server` EXTENDS `Helper` and adds what the binary does around it. `handleAddTask` is the
control API's registration: every check of the body in one predicate, the record it
builds in one operator, and the silent replacement of a task with the same ID. `Restart`
is the death of the process at any step, with requests in flight, and `main` running
again: empty maps, a new HPKE key pair under the same configuration ID. `answered`
is history and survives, so OneJobPerReport and CountedOnce speak of all the process has
ever answered. The environment's part: a Client draws a fresh report ID for each report
and seals it once, to the key it was given, so a report ID goes with one key pair. RetriesAgree and
ClaimsBacked are not stated across restarts: a retry after one is answered
hpke_decrypt_error, as the code has it.

### ReportFlow

The Client loads an HPKE configuration (AggregatorFromConfig), which may be the one of an
earlier start of the Helper, and reports with Task.Report of `integration/matrix`,
its clock cut to the task's precision; it is widened to the Clients of other makes
in the one respect the Helper allows for: version and AAD shape vary separately. HPKE is
symbolic: opening succeeds exactly under key, info and AAD of the seal. The Leader is
external and may send the report under another ID or time, and in another *envelope*:
public extensions, public share, configuration ID, frame and key.

The AAD is the sequence of its fields as `InputShareAad.Marshal` writes them: task ID, the
bytes of the configuration unless the shape is Janus, report ID, time, length and content
of the extensions, length and content of the public share. Nothing in it says which shape it
has. Prio3Count's own public share is empty, but the Helper binds the one that was
sent (`helper.go:228`) and nothing checks that it is empty. The published AAD of a
configuration that begins the way metadata without extensions does, a report ID, a time and a zero,
and then gives its own length, therefore has a second reading: the Janus AAD of that ID and
time, with everything behind as the public share. `Misread` is this case. The two properties on
what the AAD binds except it, and say that it is the only one; `report_flow` has
such a configuration (`CfgLikeMetadata`) and reaches the acceptance.

### Field64, Flp, Prio3

The word has W = E^2 values and p = E^2 - E + 1; the code is E = 2^32. The
corrections use nothing but W - p = E - 1, so E is a CONSTANT, and TLC takes E = 16
(p = 241) and E = 4 (p = 13), both prime and with 7^(E-1) of order E as in the
code (the runs check that: `RootOrder`). `Pow` takes the number of rounds as an argument,
64 in the code. `Weight` of `Flp` takes each weight of the extension afresh, where `lagrange.go` keeps the
weights and multiplies the next factor in for every new node: the values are the same, and
the carrying over is not part of the model.

`Prio3` has a test point chosen freely once per report (the XOF is external; key and
report ID fix the point for both Aggregators), helper shares from a set of possible
expansions, and forged reports: gadget polynomials that make the circuit put out zero, and honest
proofs of measurements out of range. `verified` counts the accepted reports, up to the bound
`MaxReports`, and `total` is history: the sum of their measurements.

### Sponge, Xof

The permutation is taken to be free: the state is the sequence of bytes absorbed so far,
and byte i of the serialized state is the pair of that sequence and i. Two outputs
are then equal exactly when the inputs and positions are, so StreamExact compares the
incremental code, one action per round of its loops, with the one-piece definition of
RFC 9861. The buffer is kept between blocks and phases as in the code. Bytes are octal
digits, blocks have 4 bytes and words 2; nothing in the code depends on 256, 168 or 8
but through the bounds of the length prefixes, which are reached (seeds of 7 and 8 bytes,
tags of 63 and 64). A word is below the modulus or not by a choice made in Init. The
XOF is closed over what a caller can do: New, Next, NextVecField64 in any order;
DeriveSeed and ExpandIntoVecField64 are two such sequences, Sum128 is the sponge without them.

### Codec, Wire

A codec is a pair of functions: `write` from the values of a type to their encodings (one, or none
when Marshal fails), `read` from an input to the value at its front with the rest of the input. `Codec` has one for
each kind of field (integer, fixed size, opaque behind its length, report error, field element) and one
for each way of putting fields together: `a ** b` for one after the other, `Vector`, `Remainder`,
`Exactly` and `Select`. `Wire` has two codecs per message type, one for Marshal and one for Unmarshal, since
they are separate code: some lower bounds are checked on one side only. The code's builder and reader
are a library. The sizes of prefixes and integers are the code's; the values of a byte, the modulus and the sizes of
elements, identifiers and seeds are constants. In the run digits have base 12, so a one-byte prefix ends at 11 bytes; the
field is that of 17 elements in two bytes, and identifiers have one byte.

## 3. Runs

| Run | Bounds | Shows |
| --- | --- | --- |
| `helper_draft18` | 2 handlers, 2 reports, 2 job IDs, 3 bodies | TypeOK, OneJobPerReport, RetriesAgree, AnswerIsStored, ImplementsLedger (refinement of ReportLedger) |
| `helper_draft19` | 2 handlers, 2 reports, 5 bodies, one with an unknown key, one with a report twice | CountedOnce, ClaimsBacked, NoEncodeFailure, EveryCallAnswered under fairness |
| `helper_rotation` | 2 handlers, 2 reports sealed to two key pairs, 2 starts, 2 task records and a refused one | OneJobPerReport, CountedOnce |
| `retry_after_rotation` | 2 handlers, 1 report, 2 task records of different dialects that replace each other | AnswerIsStored is violated |
| `claim_leak` | as helper_draft18 | ClaimsBacked is violated |
| `recount_after_delete` | as helper_draft18 | FreshReportsOnly is violated |
| `report_flow` | 4 dialects x 3 lengths of task_info, 360 Client kinds, 2 usable HPKE configurations of 5, 2 report IDs, 6 envelopes (one per changed field) | VersionPinned, ConfigurationBound, MetadataBound, HonestAccepted, ErrorRoundTrip, TimeUnlinkable |
| `field_register` | all pairs of 241 elements | ArithmeticExact |
| `field_powers` | all powers of 241 elements up to the word's end | PowExact, InverseExact, RootOrder, OneEncoding |
| `prio3` | 13 elements, every test point, 54 forgeries, 2 accepted reports | HonestVerifies, Soundness, ZeroKnowledge, AggregateExact |
| `sponge` | blocks of 4 bytes, 6 pieces of 0 to 5 bytes, 106 derivations, 4 patterns of rejected words | StreamExact, PaddingRecoverable, InputUnambiguous, VecExact |
| `wire` | 19 kinds of message, every change of one byte, one byte added, every cut of a request | RoundTrip, Canonical, CutRequest |

Why the bounds are enough: every conflict in the store is between two requests over one
job ID or one report, and a third handler would repeat one of the two (a third party
that has finished is in the store or in the history). Two reports let a job be claimed in
part. The bodies of `helper_draft18` give an identical retry, other content under the same ID, a shared
report on the other route and a report that fails next to one that finishes; `helper_draft19` adds a
duplicate, a key that is not known and an extension that is missing. The field runs are exhaustive at their size.
Deadlock is checked in the Helper and register runs; `report_flow`, `field_powers`,
`prio3`, `sponge` and `wire` end when the report, the exponent, the reports, the bounds on
input and output (`MaxIn`, `MaxOut`) or the message are used up. Messages of the sponge
end before, on and behind a block's end and outputs reach into a third block. One changed byte reaches
every decision of the reader: prefixes, tags, code points, elements out of range.

The runs that use the symmetry of handlers (`helper_draft18`, `helper_rotation`) check no
liveness. Replacement between dialects, which the binary cannot do but the library can, is in `retry_after_rotation` and in the theorems that do not assume `TasksFixed`, whose
`Configs` and `Replaceable` are arbitrary.

Fairness, used by EveryCallAnswered alone: weak fairness of each handler once its request
is in. Go schedules every runnable goroutine, the store's critical sections end, and a
body that never arrives is ended by the server's ReadTimeout of 60 s
(`cmd/dap-helper/main.go:124`), which is the action ReadFails.

### Findings

1. `retry_after_rotation`: when the task is registered again between two identical
   requests, or while both run, the second is answered with a job built from the new
   record, not with the stored one (`handler.go:144`, `:185`), against `handler.go:37`
   and `store.go:33`. With no replacement the answer is always the stored job
   (`helper_draft18`).
2. `claim_leak`: the loser of two concurrent PUTs under one job ID gets 409, but the
   reports only it carried stay claimed by that job ID, against `store.go:37`.
   Where job IDs derive from content this cannot happen short of a digest collision
   (`helper_draft19`).
3. `recount_after_delete`: a job created again after DELETE meets its own claims and
   finishes its reports again, against `store.go:48`. What holds, and is proved, is
   the weaker OneJobPerReport: never under two job IDs.

## 4. Theorems

Each theorem holds for every value of the constants that satisfies the named assumptions
of its module, which TLC evaluates on every run: `None` is no task record, job, job ID or
Client; task records have a known dialect and the ID of their task; digests and
Leader-chosen IDs are job IDs, decoded reports are reports, a request in the
Janus shape has no verification key ID; key pairs of two starts differ and what add_task
accepts is a task record; precisions are natural numbers and clocks integers; the encodings of configurations are
delimited and longer than metadata without extensions and the length of a public share
(`EncodingAssumption`, below); bytes have an
even radix of at least 4, rates and word sizes are positive; for the codec a byte has more than 11 values, so that the
code points of the registries fit one, an encoded element holds every number below the modulus,
identifiers and seeds have a byte at least, and what is sent is a value of its type; shares, proofs and forged
measurements are made of field elements; E is above 1. The powers and the proof system assume
besides what the code's constants were chosen for: a word has 2^WordBits values and a half word
half as many bits, the modulus is prime (`PrimeModulus`: no product of nonzero elements is zero)
and the order of 7^(E-1) is not a proper divisor of E (`PrimitiveGenerator`). TLC evaluates these
too, for the moduli 241 and 13; for the code's they are published facts of the Goldilocks prime.

Some theorems have a hypothesis besides. Each is a definition on constants, each holds in
the passing run of the same property, and for the first and the third a violation run shows
that the property fails without it:

| Hypothesis | Says | Needed by | Why |
| --- | --- | --- | --- |
| `TasksFixed` | no task is registered again | RetriesAreIdempotent, AnswersAreStored, LedgerImplemented | `retry_after_rotation` |
| `RoutesApart` | a body that decodes in both shapes is not PUT under its own digest | the same three | one body under one ID would make two jobs, one per route; an ID chosen by a Leader is random |
| `PostOnly` | every dialect is after draft 18 | ClaimsAreBacked | `claim_leak` |
| `DigestsApart` | truncated digests do not collide | ClaimsAreBacked | the loser of a collision leaves its claims as the loser of two PUTs does |
| `OneKeyPerReport` | report shares with one ID are sealed to one key | AntiReplayAcrossRestarts | a Client draws an ID and seals once; a report sealed twice would count once per start |

### Helper

- `TypeCorrect`: Spec => []TypeOK, one lemma per action. TypeOK also says
  what a handler holds at each place of its run, which makes it inductive.
- `AntiReplay`, `SharesCountOnce`, `ResponsesEncode`. OneJobPerReport speaks of answers and is not inductive: a job is
  built from the claims of one moment and answered later. The invariant `SafeInv` says of
  every job wherever it is (in a handler, stored, answered) that the reports it finished
  are claimed by its own ID, that no report is finished twice in it, and that it can be
  encoded; of a handler about to claim, that its request has no duplicates. It is
  inductive because a claim, once made, is never changed: a lemma of its own.
  Two answers that finish one report then share its one claim.
- `RetriesAreIdempotent`, `AnswersAreStored`. Two handlers build jobs from one body at
  different moments, with other claims in the store. `RetryInv` says that a
  job, wherever it is, is *faithful*: it is what the route makes of its body from the task's
  record and the claims there are *now*. That is stronger than what the code computes, and
  inductive, because a job that looks at claims is built only when each report it
  carries is claimed, by itself or by another job, and a claim stays. (A request with an unknown
  key is rejected without a look at them.) Two faithful jobs of one
  body under one ID are then equal, so what the rechecking handler answers is what
  the store holds.
- `LedgerImplemented`. `AccountStep` says, from the definitions of the operations alone, what a
  step does to jobs, answers and reply: nothing, an answer with a job, a delete, or a sum. Both
  invariants are needed for it. By `RetryInv` the handler whose PutJob comes second answers
  with the job that is stored, so the reports told are those held; by `SafeInv` a
  stored job can be encoded, so none is stored without an answer. An answer is a Settle step
  because OneJobPerReport holds after it, and a sum is a Collect step because its terms are
  the finished reports of the stored jobs.
- `ClaimsAreBacked`. `BackedInv` says that a claim is backed by an answer that decides on the
  report or by a handler on its way to PutJob, and that every job is stored under
  the digest of its body: PutJob then cannot meet other content, the one way to lose a job
  whose claims are made.

### Server

`ServerTypeCorrect` and `ServerCountsOnce` lift TypeOK and SafeInv over registration and
restart, which empties the claims together with all jobs. History does not shrink, so SafeInv's
clause on answers fails at a restart. `KeyInv` keeps what survives: each
answer was given in some start n, finished only reports sealed to the key pair of n, and, when n
is the present start, is backed by the present claims. `AntiReplayAcrossRestarts` follows:
answers of two starts finish reports of two keys. The refinement of ReportLedger is not
stated of the server, which replaces task records and loses its jobs.

### ReportFlow

`FlowInv` says at each station what the value there is made from: what was sealed by the
Client, what was sent from what was sealed, the verdict from what was sent and the record, what was
read back from the verdict. From it and the definition of opening,
`VersionIsPinned` follows by comparing the info of both sides.

`ConfigurationIsBound` and `MetadataIsBound` compare the AADs, for each shape on either side. Metadata
with a public share behind it is delimited, by its two lengths, so two equal Janus AADs have the same parts
(`TrailerDelimited`). Two equal published AADs begin with configurations of which one is a prefix of
the other, and `EncodingAssumption` says that they are then the same. A Janus AAD of an honest
Client is not as long as any published one. What remains is a published seal opened as Janus, and
cutting its AAD behind the metadata and the length that were sent leaves exactly `Misread` (`ReadAsJanus`). The assumption holds of the code: the
fields of a TaskConfiguration have a fixed size or stand behind their length
(`Delimited` in `Wire_proofs`), and they take at least 32 bytes, more than the 30 of metadata without
extensions and an empty public share.

`HonestIsAccepted` follows the candidate that fits,
`ErrorsRoundTrip` goes by cases on the registries and `TimeIsUnlinkable` by division with remainder,
for clocks before 1970 too.

### Field, Prio3

- `FieldExact`: for every E the five operations are exact. Sums and
  products are bounded, each correction changes a value by a multiple of p, and the
  result is the one representative in range (`ModUnique`).
- `PowIsExact`, `InverseIsExact`, `RootsHaveOrder`. A statement on every exponent is proved as one on
  the set of exponents for which it holds, which is all of them because a smallest one outside would follow one
  inside (`LeastNumber`, `InductionSet`); that a recursive function has the values of its recursion is
  proved in the same way (`Recursion`). With that, one round of square and multiply keeps
  result * base^bits, and the rounds of a word use up every bit. Inv is Fermat's little theorem: the
  nonzero elements split into orbits of equal size under multiplication by an element, so its order
  divides p - 1. The roots' order follows from the generator's, E, whose divisors are powers of two.
- `EncodingIsUnique`: taking digits off a number undoes putting it together from bytes, one byte at
  a time; a decoded number is below p, so its canonical form is itself.
- `SumsAreExact`: AggregateExact alone is not inductive, since each Aggregator adds a share that
  means nothing by itself. `SumInv` adds that from split to decision the two shares at hand add up
  to the measurement. A step that adds both keeps the sums congruent, by the lemmas on Add and
  Sub above. The count's bound (fewer accepted reports than p) is not needed for the congruence.
- `HonestReportsVerify`, `ForgeriesFail`, `VerifiersRevealNothing`. The loops of this circuit run two
  to five times, so lemmas unroll them, and every result is then compared as an integer modulo p with a
  polynomial: evaluation over two nodes is the line through both values, evaluation over four the
  parabola through three of them after the extension, polyMul the product of two lines.
  *Completeness*: the evaluations are linear in values, so the query of the sum of shares is the sum of
  the shares' queries; `VerifyInv` says that the verifier shares made so far are the queries
  of the shares at hand and that the shares add up to the measurement and its proof. For an honest proof the parabola is the
  product of the wires' lines, and it puts out the measurement's square at the call's node.
  *Soundness*: if the circuit put out zero for a measurement other than 0 and 1, the parabola and the
  product of the lines differ at that node, and three test points that pass would be three roots of a
  nonzero polynomial of degree two, which a prime modulus does not allow.
  *Zero knowledge*: at a point that is not refused, the seed of a wire can be
  solved for given the wire's value at the point and the measurement, so each verifier of an honest proof
  of 0 is one of an honest proof of 1 with other seeds, and the other way round.

### Sponge, Xof

- `StreamIsExact`: `SpongeInv` says, while absorbing, that the state holds the whole blocks of the message
  and the front of the buffer the rest; while squeezing, that the state is the padded message with
  one block of zeros per block handed out and the buffer is the block of the stream at which the
  output stands. The bytes an earlier block left in the buffer are overwritten by pad, which is where
  the argument meets the code's reuse of the buffer.
- `PaddingIsRecoverable`: reading the padded bytes from the end, the last nonzero byte gives the
  separation byte, the top bit taken off; a separation byte is below the top bit.
- `InputIsUnambiguous`: `InputInv` says which of the five pieces New has written. Two derivations with
  equal input have equal length prefixes, hence equal seeds, tags and binders; prefixes are written
  only for lengths they can hold.
- `VecIsExact`: `VecInv` ties the position in the stream to a word number w: the accepted words among the first
  w are those in the vector. The k-th element is the k-th accepted word because the set of
  accepted words before it has k - 1 elements.

### Codec, Wire

`MessagesRoundTrip`, `MessagesAreCanonical`, `CutRequestsAreRefused`. The proof follows the construction of the
messages. `Fits(o, i, T)` says what a writer o and a reader i owe each other: what o writes, with one of T behind it,
i reads back with that rest, or refuses exactly when i would not write the value itself; and whatever i reads, from any
bytes, is the encoding o has for it. Each kind of field has it, and each way of putting fields together keeps it:
with any bytes behind (`Delimited`) where the length is known or written, with none behind for what runs to the
end of the message, which can only come last. One lemma per message type then leads to `FormatsFit`.

- *Integers*: digits and numbers determine each other, by induction on the number of digits.
- *Vectors*: the reader's loop does not know how many elements there are. `ReadsAlong` says that it retraces the
  writer's loop, element by element; `ReadsStay` that it stays where it is once the input is used up, so
  that running it for as many rounds as there are bytes, the bound of the model's loop, changes nothing; `ReadsOffOnly` that whatever it has
  read so far is what the writer puts out for it. Every element takes a byte at least, which is
  why the fields' sizes are assumed positive.
- *Messages under way*: `WireInv` says that the bytes are the sender's encoding until one is changed, and that what was read was read off
  the first `limit` of them. RoundTrip and Canonical follow from FormatsFit, for bytes changed in any way.
- *Cuts*: a prefix of a delimited message that is read would be an encoding with bytes behind it,
  hence of the same value and as long as the whole. For the published request, whose reports run to the end, the header
  is delimited, and a prefix that is read consists of the header and the first reports
  (`PrefixEach`).

### Only model-checked

EveryCallAnswered: liveness under fairness, which the prover does not treat. Every safety property
and every action property of a passing run is stated by a theorem.

## 5. Not modelled

Keccak-p (a fixed permutation with published vectors), HPKE's primitives (a library),
HTTP itself (timeouts but for a body that does not arrive, logging) and the Matrix probe, which is
two HTTP requests and a conjunction. Aggregation over batches is not implemented in the
repository: a share sums every committed report of the task. The Leader
and the Collector are not part of the repository. `PROJECT.json` gives the reason per
component.

## 6. Plan

The parts of the system that have behaviour of their own are modelled, and every safety
property of a passing run is proved. What is left is batches and continuation in *Helper*, once the
repository implements them.
