----------------------------- MODULE HelperInit -----------------------------
(***************************************************************************)
(* The Helper's initialization step: what happens to one report share      *)
(* (aggregateInit) and how the outcomes of a request's reports become an   *)
(* aggregation job (buildInitJob, buildRejectAllJob).  Everything here is  *)
(* a function of its arguments; the state lives in module Helper.          *)
(*                                                                         *)
(* A task is a record                                                      *)
(*   id, variant   the task ID and the dialect it speaks                   *)
(*   config        its TaskConfiguration, [bytes, info]: its encoding, and *)
(*                 the length of task_info in it                           *)
(*   ctx           the VDAF context                                        *)
(*   keys          the verification keyring, a function from key IDs       *)
(*   hpkeConfigID, hpkeKey, batchMode, collector                           *)
(*   collectorOk   the collector's public key belongs to its HPKE suite    *)
(*                                                                         *)
(* A report share in a request (VerifyInit) is a record                    *)
(*   report, time  report ID and timestamp                                 *)
(*   exts          its public extensions, a sequence                       *)
(*   publicShare   the public share, empty unless the Leader changed it    *)
(*   configID      the HPKE configuration ID it names                      *)
(*   ct            the ciphertext, [key, info, aad, plain]: what it was    *)
(*                 sealed under and what it holds; plain is [ok, exts,     *)
(*                 shareOk]: it decodes, has private extensions, and holds *)
(*                 a well-formed input share                               *)
(*   frame, share  the Leader's ping-pong message type and verifier share, *)
(*                 [ok, key, ctx, report, sound]                           *)
(*                                                                         *)
(* An encoding is a sequence in which one element stands for a field (a    *)
(* report ID, a time, a length); the fields of a configuration may happen  *)
(* to be those of something else.                                          *)
(***************************************************************************)
EXTENDS Variants, Sequences

Finished == "Finished"      \* the outcome of a report whose share is committed

afterDraft18(v) == v \in {"Draft19", "Draft20"}

DAPVDAFContextFor(v, taskID) == <<VersionString(v), taskID>>

helperInputShareInfo(v) == <<VersionString(v), "input share">>

-----------------------------------------------------------------------------
(* InputShareAad: the published drafts bind the task configuration, Janus   *)
(* omits it.  A configuration without task_info has no draft-18 encoding,   *)
(* one with more than 255 bytes of it has none at all.                      *)

AadEncodable(v, task) ==
    \/ v = "Janus"
    \/ task.config.info =< 255 /\ (task.config.info > 0 \/ draft19Values(v))

\* The clear part of a report, as the Leader forwards it.
ReportMetadata(vi) == [report |-> vi.report, time |-> vi.time, exts |-> vi.exts]

\* ReportMetadata.Marshal, with the length of the extensions in front of them.
MetadataBytes(metadata) ==
    <<metadata.report, metadata.time, Len(metadata.exts)>> \o metadata.exts

\* The public share behind its length.
PublicShareBytes(publicShare) == <<Len(publicShare)>> \o publicShare

\* The task configuration is left out in every shape.
InputShareAad_NoConfig(v, task, metadata, publicShare) ==
    <<task.id>> \o MetadataBytes(metadata) \o PublicShareBytes(publicShare)

\* Of the metadata only the report ID is bound.
InputShareAad_IDOnly(v, task, metadata, publicShare) ==
    <<task.id>> \o (IF v = "Janus" THEN <<>> ELSE task.config.bytes)
        \o <<metadata.report>> \o PublicShareBytes(publicShare)

\* The fields one after the other: nothing in the AAD says which shape it has.
InputShareAad(v, task, metadata, publicShare) ==
    <<task.id>> \o (IF v = "Janus" THEN <<>> ELSE task.config.bytes)
        \o MetadataBytes(metadata) \o PublicShareBytes(publicShare)

\* HPKE: opening succeeds exactly under the key, info and AAD of the seal.
HpkeOpens(ct, key, info, aad) == ct.key = key /\ ct.info = info /\ ct.aad = aad

\* The AAD shapes tried in turn: the request's own, then the other one.
Candidates(variant) ==
    {variant, IF variant = "Janus" THEN "Draft18" ELSE "Janus"}

\* A candidate opened under its own version instead of the request's.
Opens_CandidateInfo(task, variant, vi) ==
    \E v \in Candidates(variant) :
        /\ AadEncodable(v, task)
        /\ HpkeOpens(vi.ct, task.hpkeKey, helperInputShareInfo(v),
                     InputShareAad(v, task, ReportMetadata(vi), vi.publicShare))

\* The first candidate that cannot be encoded ends the search.
Opens_AbortUnencodable(task, variant, vi) ==
    /\ AadEncodable(variant, task)
    /\ \E v \in Candidates(variant) :
          HpkeOpens(vi.ct, task.hpkeKey, helperInputShareInfo(variant),
                    InputShareAad(v, task, ReportMetadata(vi), vi.publicShare))

Opens(task, variant, vi) ==
    \E v \in Candidates(variant) :
        /\ AadEncodable(v, task)
        /\ HpkeOpens(vi.ct, task.hpkeKey, helperInputShareInfo(variant),
                     InputShareAad(v, task, ReportMetadata(vi), vi.publicShare))

validReportExtensions(public, private) == public = <<>> /\ ~private

\* Plaintext, extensions, input share, ping-pong frame and verifier share all
\* decode; a failure of any of them is the same report error.
WellFormed(vi) ==
    /\ vi.ct.plain.ok
    /\ validReportExtensions(vi.exts, vi.ct.plain.exts)
    /\ vi.ct.plain.shareOk
    /\ vi.frame = "initialize"
    /\ vi.share.ok

\* Prio3Count: the Leader's verifier share and the Helper's decide to accept
\* when the proof is sound and both sides drew the query from the same key,
\* context and report ID.
Verifies(task, vk, vi) ==
    /\ vi.share.key = vk
    /\ vi.share.ctx = task.ctx
    /\ vi.share.report = vi.report
    /\ vi.share.sound

aggregateInit(task, vk, variant, vi) ==
    IF vi.configID # task.hpkeConfigID      THEN "HpkeUnknownConfigID"
    ELSE IF ~Opens(task, variant, vi)       THEN "HpkeDecryptError"
    ELSE IF ~WellFormed(vi)                 THEN "InvalidMessage"
    ELSE IF ~Verifies(task, vk, vi)         THEN "VdafVerifyError"
    ELSE Finished

-----------------------------------------------------------------------------
(* A job keeps the hash of its request (the body itself: SHA-256 is taken   *)
(* to be injective) and one result per report, in request order.  The rows  *)
(* of ReportAggs and the entries of Response are two views of the results.  *)

buildRejectAllJob(task, body, inits, e) ==
    [hash |-> body, variant |-> task.variant,
     results |-> [i \in 1..Len(inits) |-> [report |-> inits[i].report, outcome |-> e]]]

\* A replayed report is aggregated like any other.
buildInitJob_NoReplayCheck(task, vk, variant, body, inits, replayed) ==
    [hash |-> body, variant |-> variant,
     results |-> [i \in 1..Len(inits) |->
         [report |-> inits[i].report,
          outcome |-> aggregateInit(task, vk, variant, inits[i])]]]

buildInitJob(task, vk, variant, body, inits, replayed) ==
    [hash |-> body, variant |-> variant,
     results |-> [i \in 1..Len(inits) |->
         [report |-> inits[i].report,
          outcome |-> IF inits[i].report \in replayed
                      THEN "ReportReplayed"
                      ELSE aggregateInit(task, vk, variant, inits[i])]]]

\* The reports whose output share a job has committed.
FinishedReports(job) ==
    {job.results[i].report : i \in {k \in DOMAIN job.results :
                                        job.results[k].outcome = Finished}}

\* Response.MarshalBinary succeeds: each error has a code point in the registry
\* of the response's variant.
Encodable(job) ==
    \A i \in DOMAIN job.results :
        \/ job.results[i].outcome = Finished
        \/ HasCodePoint(job.results[i].outcome, job.variant)
=============================================================================
