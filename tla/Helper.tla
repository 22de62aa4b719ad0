------------------------------- MODULE Helper -------------------------------
(***************************************************************************)
(* The DAP Helper: its store (tasks, aggregation jobs, report claims) and  *)
(* the HTTP handler in front of it.                                        *)
(*                                                                         *)
(* net/http serves every request in a goroutine of its own, so any number  *)
(* of handlers run at once.  The store's methods are the only points where *)
(* they meet: each holds one mutex from start to end and is atomic here.   *)
(* Between two store calls a handler computes on its own data, so a step   *)
(* is one store call with the computation that leads up to it.             *)
(***************************************************************************)
EXTENDS HelperInit, FiniteSets

CONSTANTS
    Tasks,          \* task IDs
    Configs,        \* the task records an operator may register
    Replaceable,    \* the task IDs an operator may register a second time
    Reports,        \* report IDs
    JobIDs,         \* aggregation job IDs
    Bodies,         \* aggregation-job request bodies, as opaque byte strings
    Decode,         \* [Bodies -> [{"published", "janus"} -> request]]
    DigestID,       \* [Bodies -> JobIDs]: the first 16 bytes of the body's SHA-256
    LeaderJobIDs,   \* the job IDs Leaders choose for the PUT route
    Handlers,       \* requests served concurrently, at most
    None            \* no task, no job, no claim

ASSUME NoneAssumption ==
    /\ None \notin Configs
    /\ None \notin JobIDs

ASSUME ConfigAssumption ==
    \A c \in Configs : c.id \in Tasks /\ c.variant \in Variants

ASSUME BodyAssumption ==
    /\ DigestID \in [Bodies -> JobIDs]
    /\ LeaderJobIDs \subseteq JobIDs
    /\ \A b \in Bodies, s \in {"published", "janus"} :
          LET inits == Decode[b][s].inits
          IN  /\ Len(inits) \in Nat
              /\ \A i \in 1..Len(inits) : inits[i].report \in Reports

\* Decoding the Janus shape leaves the verification key ID at zero.
ASSUME JanusAssumption == \A b \in Bodies : Decode[b]["janus"].vkid = 0

VARIABLES
    tasks,      \* memStore.tasks: the task record registered under each ID
    jobs,       \* memStore.jobs, by task and job ID
    claims,     \* memStore.claims: the job that first claimed each report
    pc,         \* where each handler is
    call,       \* the request each handler serves
    snap,       \* the task record a handler read when its request came in
    built,      \* the job a handler has built and not yet stored
    reply,      \* the HTTP response the last step wrote, if it wrote one
    answered    \* history: every job response ever sent, <<task, job ID, job>>

store == <<tasks, jobs, claims>>
vars  == <<tasks, jobs, claims, pc, call, snap, built, reply, answered>>

-----------------------------------------------------------------------------
(* Requests.  A request decodes to [ok, vkid, aggParam, exts, inits]; the   *)
(* Janus shape carries neither vkid nor exts.                               *)

LeaderSelectedBatchID == 1      \* the one recognized extension type

recognizedAggJobExt(type) == type = LeaderSelectedBatchID

StrictlyIncreasing(exts) ==
    \A i, k \in 1..Len(exts) : i < k => exts[i].type < exts[k].type

validateExtensions(task, exts) ==
    /\ \A i \in 1..Len(exts) : recognizedAggJobExt(exts[i].type)
    /\ StrictlyIncreasing(exts)
    /\ task.batchMode = "LeaderSelected" =>
          \E i \in 1..Len(exts) :
              exts[i].type = LeaderSelectedBatchID /\ exts[i].batchID

\* Duplicate report IDs are let through.
hasDuplicateReportIDs_Never(inits) == FALSE

hasDuplicateReportIDs(inits) ==
    \E i, k \in 1..Len(inits) : i # k /\ inits[i].report = inits[k].report

ReportIDs(inits) == {inits[i].report : i \in 1..Len(inits)}

-----------------------------------------------------------------------------
(* What a handler h knows about the request it serves.                      *)

\* The dialect of the route: the task's own on POST, Janus on PUT.
RouteVariant(h) == IF call[h].op = "create" THEN snap[h].variant ELSE "Janus"

Request(h) == Decode[call[h].body][Shape(RouteVariant(h))]

\* Janus names no verification key; the task's single key is under ID 0.
KeyID(h) == IF call[h].op = "create" THEN Request(h).vkid ELSE 0

KeyKnown(h) == KeyID(h) \in DOMAIN snap[h].keys

\* The checks a request must pass before its job ID is looked up.
ValidInit(h) ==
    /\ call[h].op = "create" => validateExtensions(snap[h], Request(h).exts)
    /\ ~Request(h).aggParam
    /\ ~hasDuplicateReportIDs(Request(h).inits)

StoredJob(h) == jobs[call[h].task][call[h].job]

\* Any stored job passes for the one the request created.
SameRequest_Always(h) == StoredJob(h) # None

\* A job is stored under the request's ID, made from an identical body.
SameRequest(h) == StoredJob(h) # None /\ StoredJob(h).hash = call[h].body

\* A job is stored under the request's ID, made from other content.
OtherRequest(h) == StoredJob(h) # None /\ ~SameRequest(h)

-----------------------------------------------------------------------------
(* Responses.                                                               *)

Respond(h, r) ==
    /\ pc'    = [pc EXCEPT ![h] = "idle"]
    /\ call'  = [call EXCEPT ![h] = None]
    /\ snap'  = [snap EXCEPT ![h] = None]
    /\ built' = [built EXCEPT ![h] = None]
    /\ reply' = r

writeProblem(h, status) ==
    Respond(h, [status |-> status, share |-> None]) /\ UNCHANGED answered

\* The job's Response, or an internal error if it cannot be marshalled.
writeResp(h, t, j, job) ==
    \/ /\ Encodable(job)
       /\ Respond(h, [status |-> 200, share |-> None])
       /\ answered' = answered \union {<<t, j, job>>}
    \/ ~Encodable(job) /\ writeProblem(h, 500)

\* The handler goes on to its next store call.
Goto(h, label) ==
    /\ pc' = [pc EXCEPT ![h] = label]
    /\ reply' = None
    /\ UNCHANGED answered

-----------------------------------------------------------------------------
(* The store.                                                               *)

\* AddTask, from the control API: registers a task or replaces it.
AddTask(task) ==
    /\ tasks[task.id] = None \/ task.id \in Replaceable
    /\ tasks' = [tasks EXCEPT ![task.id] = task]
    /\ reply' = None
    /\ UNCHANGED <<jobs, claims, pc, call, snap, built, answered>>

\* A job's own claims count as replays too.
Replayed_OwnToo(t, j, ids) == {r \in ids : claims[t][r] # None}

\* The reports in ids that a different job has claimed.
Replayed(t, j, ids) == {r \in ids : claims[t][r] \notin {None, j}}

ClaimReportIDs(t, j, ids) ==
    claims' = [claims EXCEPT ![t] =
                  [r \in Reports |-> IF r \in ids /\ claims[t][r] = None
                                     THEN j ELSE claims[t][r]]]

-----------------------------------------------------------------------------
(* Request handlers.  Each begins with GetTask, before the body is read.    *)

\* The task is taken to be registered.
Begin_Unregistered(h, c) ==
    /\ pc[h] = "idle"
    /\ Goto(h, "body")
    /\ call' = [call EXCEPT ![h] = c]
    /\ snap' = [snap EXCEPT ![h] = tasks[c.task]]
    /\ UNCHANGED <<built, tasks, jobs, claims>>

Begin(h, c) ==
    /\ pc[h] = "idle"
    /\ \/ /\ tasks[c.task] = None
          /\ writeProblem(h, 400)
       \/ /\ tasks[c.task] # None
          /\ Goto(h, "body")
          /\ call'  = [call EXCEPT ![h] = c]
          /\ snap'  = [snap EXCEPT ![h] = tasks[c.task]]
          /\ UNCHANGED built
    /\ UNCHANGED store

\* POST on the collection URL: the job ID derives from the body.
handleCreate(h, t, b) ==
    Begin(h, [op |-> "create", task |-> t, job |-> DigestID[b], body |-> b])

\* PUT on the resource URL: the Leader chose the job ID.
handleJanusInit(h, t, j, b) ==
    Begin(h, [op |-> "janus", task |-> t, job |-> j, body |-> b])

\* PUT on an aggregate-share URL.
handleAggregateShare(h, t) ==
    Begin(h, [op |-> "share", task |-> t, job |-> None, body |-> None])

\* The body cannot be read to its end, or is no AggregateShareReq.
ReadFails(h) ==
    /\ pc[h] = "body"
    /\ writeProblem(h, 400)
    /\ UNCHANGED store

\* The body is read; checks that fail before the store is consulted again.
RejectRequest(h) ==
    /\ pc[h] = "body"
    /\ \/ /\ call[h].op = "create"
          /\ \/ ~Request(h).ok
             \/ Request(h).ok /\ ~KeyKnown(h) /\ ~afterDraft18(snap[h].variant)
             \/ Request(h).ok /\ KeyKnown(h) /\ ~ValidInit(h)
          /\ writeProblem(h, 400)
       \/ /\ call[h].op = "janus" /\ afterDraft18(snap[h].variant)
          /\ writeProblem(h, 405)
       \/ /\ call[h].op = "janus" /\ ~afterDraft18(snap[h].variant)
          /\ ~Request(h).ok \/ ~ValidInit(h) \/ ~KeyKnown(h)
          /\ writeProblem(h, 400)
    /\ UNCHANGED store

\* The reports are claimed before the key is looked at.
RejectAll_Claims(h) ==
    /\ pc[h] = "body" /\ call[h].op = "create"
    /\ Request(h).ok /\ ~KeyKnown(h) /\ afterDraft18(snap[h].variant)
    /\ ClaimReportIDs(call[h].task, call[h].job, ReportIDs(Request(h).inits))
    /\ built' = [built EXCEPT ![h] =
                    buildRejectAllJob(snap[h], call[h].body, Request(h).inits,
                                      "UnknownVerificationKeyID")]
    /\ Goto(h, "put")
    /\ UNCHANGED <<tasks, jobs, call, snap>>

\* Unknown verification key from draft-19 on: reject each report, claim none.
RejectAll(h) ==
    /\ pc[h] = "body" /\ call[h].op = "create"
    /\ Request(h).ok /\ ~KeyKnown(h) /\ afterDraft18(snap[h].variant)
    /\ built' = [built EXCEPT ![h] =
                    buildRejectAllJob(snap[h], call[h].body, Request(h).inits,
                                      "UnknownVerificationKeyID")]
    /\ Goto(h, "put")
    /\ UNCHANGED <<tasks, jobs, claims, call, snap>>

\* A request that passed every check asks for its job.
Admitted(h) ==
    /\ call[h].op \in {"create", "janus"}
    /\ call[h].op = "janus" => ~afterDraft18(snap[h].variant)
    /\ Request(h).ok /\ KeyKnown(h) /\ ValidInit(h)

\* GetJob: an identical retry replays the stored response, other content is
\* a conflict, and no job means this request creates it.
LookUp(h) ==
    /\ pc[h] = "body" /\ Admitted(h)
    /\ \/ /\ SameRequest(h)
          /\ writeResp(h, call[h].task, call[h].job, StoredJob(h))
       \/ /\ OtherRequest(h)
          /\ writeProblem(h, 409)
       \/ /\ StoredJob(h) = None
          /\ Goto(h, "claim")
          /\ UNCHANGED <<call, snap, built>>
    /\ UNCHANGED store

\* The handler waits until no other job holds a report of its own.
ClaimAndBuild_Waits(h) ==
    LET t     == call[h].task
        j     == call[h].job
        inits == Request(h).inits
    IN  /\ pc[h] = "claim"
        /\ Replayed(t, j, ReportIDs(inits)) = {}
        /\ ClaimReportIDs(t, j, ReportIDs(inits))
        /\ built' = [built EXCEPT ![h] =
                        buildInitJob(snap[h], snap[h].keys[KeyID(h)], RouteVariant(h),
                                     call[h].body, inits, {})]
        /\ Goto(h, "put")
        /\ UNCHANGED <<tasks, jobs, call, snap>>

\* claimReports, then buildInitJob on the handler's own data.
ClaimAndBuild(h) ==
    LET t     == call[h].task
        j     == call[h].job
        inits == Request(h).inits
        ids   == ReportIDs(inits)
    IN  /\ pc[h] = "claim"
        /\ ClaimReportIDs(t, j, ids)
        /\ built' = [built EXCEPT ![h] =
                        buildInitJob(snap[h], snap[h].keys[KeyID(h)], RouteVariant(h),
                                     call[h].body, inits, Replayed(t, j, ids))]
        /\ Goto(h, "put")
        /\ UNCHANGED <<tasks, jobs, call, snap>>

\* The job is stored over whatever is there.
PutJob_Overwrites(h) ==
    /\ pc[h] = "put"
    /\ jobs' = [jobs EXCEPT ![call[h].task][call[h].job] = built[h]]
    /\ writeResp(h, call[h].task, call[h].job, built[h])
    /\ UNCHANGED <<tasks, claims>>

\* PutJob: store the job unless one is there.  A handler whose job is stored,
\* or is there already with the same content, answers with what it built.
PutJob(h) ==
    /\ pc[h] = "put"
    /\ \/ /\ StoredJob(h) = None
          /\ jobs' = [jobs EXCEPT ![call[h].task][call[h].job] = built[h]]
          /\ writeResp(h, call[h].task, call[h].job, built[h])
       \/ /\ SameRequest(h)
          /\ writeResp(h, call[h].task, call[h].job, built[h])
          /\ UNCHANGED jobs
       \/ /\ OtherRequest(h)
          /\ Goto(h, "recheck")
          /\ UNCHANGED <<jobs, call, snap, built>>
    /\ UNCHANGED <<tasks, claims>>

\* PutJob reported other content: look once more, and conflict unless the
\* content there is the same by now.
Recheck(h) ==
    /\ pc[h] = "recheck"
    /\ \/ /\ SameRequest(h)
          /\ writeResp(h, call[h].task, call[h].job, StoredJob(h))
       \/ /\ ~SameRequest(h)
          /\ writeProblem(h, 409)
    /\ UNCHANGED store

-----------------------------------------------------------------------------
(* The other operations on a job and on a task's jobs.                      *)

\* GET on the resource URL.
handleGet(h, t, j) ==
    /\ pc[h] = "idle"
    /\ \/ jobs[t][j] # None /\ writeResp(h, t, j, jobs[t][j])
       \/ jobs[t][j] = None /\ writeProblem(h, 404)
    /\ UNCHANGED store

\* DELETE on the resource URL also releases the job's claims.
DeleteJob_ReleasesClaims(h, t, j) ==
    /\ pc[h] = "idle"
    /\ jobs' = [jobs EXCEPT ![t][j] = None]
    /\ claims' = [claims EXCEPT ![t] =
                     [r \in Reports |-> IF claims[t][r] = j THEN None ELSE claims[t][r]]]
    /\ Respond(h, [status |-> 200, share |-> None])
    /\ UNCHANGED <<tasks, answered>>

\* DELETE on the resource URL: the job goes, its claims stay.
DeleteJob(h, t, j) ==
    /\ pc[h] = "idle"
    /\ jobs' = [jobs EXCEPT ![t][j] = None]
    /\ Respond(h, [status |-> 200, share |-> None])
    /\ UNCHANGED <<tasks, claims, answered>>

\* The output shares an aggregate share of task t sums.
CommittedShares(t) ==
    UNION {{[job |-> j, ord |-> i, report |-> jobs[t][j].results[i].report] :
                i \in {k \in DOMAIN jobs[t][j].results :
                          jobs[t][j].results[k].outcome = Finished}} :
           j \in {k \in JobIDs : jobs[t][k] # None}}

\* JobsForTask is one snapshot; its sum is sealed to the Collector of the task
\* record the handler read at the start, which fails if its key is no key.
SumShares(h) ==
    LET terms == CommittedShares(call[h].task)
    IN  /\ pc[h] = "body" /\ call[h].op = "share"
        /\ \/ terms = {} /\ writeProblem(h, 400)
           \/ terms # {} /\ ~snap[h].collectorOk /\ writeProblem(h, 500)
           \/ /\ terms # {} /\ snap[h].collectorOk
              /\ Respond(h, [status |-> 200,
                             share |-> [task |-> call[h].task, terms |-> terms,
                                        collector |-> snap[h].collector]])
              /\ UNCHANGED answered
        /\ UNCHANGED store

\* What needs no store: a method or path no route serves, the unimplemented
\* continuation, and DELETE on an aggregate share, which is always 200.
ServeUnrouted(h, status) ==
    /\ pc[h] = "idle"
    /\ writeProblem(h, status)
    /\ UNCHANGED store

-----------------------------------------------------------------------------
Init ==
    /\ tasks = [t \in Tasks |-> None]
    /\ jobs = [t \in Tasks |-> [j \in JobIDs |-> None]]
    /\ claims = [t \in Tasks |-> [r \in Reports |-> None]]
    /\ pc = [h \in Handlers |-> "idle"]
    /\ call = [h \in Handlers |-> None]
    /\ snap = [h \in Handlers |-> None]
    /\ built = [h \in Handlers |-> None]
    /\ reply = None
    /\ answered = {}

\* What a handler does on its own once its request is in.
Proceed(h) ==
    \/ ReadFails(h)
    \/ RejectRequest(h)
    \/ RejectAll(h)
    \/ LookUp(h)
    \/ ClaimAndBuild(h)
    \/ PutJob(h)
    \/ Recheck(h)
    \/ SumShares(h)

\* A request arrives at an idle handler.
ServeHTTP(h) ==
    \/ \E t \in Tasks, b \in Bodies : handleCreate(h, t, b)
    \/ \E t \in Tasks, j \in LeaderJobIDs, b \in Bodies : handleJanusInit(h, t, j, b)
    \/ \E t \in Tasks : handleAggregateShare(h, t)
    \/ \E t \in Tasks, j \in JobIDs : handleGet(h, t, j)
    \/ \E t \in Tasks, j \in JobIDs : DeleteJob(h, t, j)
    \/ \E status \in {200, 404, 405, 501} : ServeUnrouted(h, status)

Next ==
    \/ \E c \in Configs : AddTask(c)
    \/ \E h \in Handlers : ServeHTTP(h) \/ Proceed(h)

Spec == Init /\ [][Next]_vars

\* Every goroutine is scheduled: a handler that can go on eventually does.
FairSpec == Spec /\ \A h \in Handlers : WF_vars(Proceed(h))

-----------------------------------------------------------------------------
(* Correctness.                                                             *)

Outcomes == {Finished} \union ReportErrors

Job == [hash : Bodies, variant : Variants,
        results : Seq([report : Reports, outcome : Outcomes])]

ASSUME NoJobAssumption == None \notin Job

Call ==
    [op : {"create", "janus"}, task : Tasks, job : JobIDs, body : Bodies]
        \union [op : {"share"}, task : Tasks, job : {None}, body : {None}]

Statuses == {200, 400, 404, 405, 409, 500, 501}

Share == [task : Tasks, terms : SUBSET [job : JobIDs, ord : Nat, report : Reports],
          collector : {c.collector : c \in Configs}]

\* Type invariant; a handler holds a call and the record of its task from the
\* moment it leaves "idle", and a job from ClaimAndBuild or RejectAll on.
TypeOK ==
    /\ tasks \in [Tasks -> Configs \union {None}]
    /\ jobs \in [Tasks -> [JobIDs -> Job \union {None}]]
    /\ claims \in [Tasks -> [Reports -> JobIDs \union {None}]]
    /\ pc \in [Handlers -> {"idle", "body", "claim", "put", "recheck"}]
    /\ call \in [Handlers -> Call \union {None}]
    /\ snap \in [Handlers -> Configs \union {None}]
    /\ built \in [Handlers -> Job \union {None}]
    /\ reply \in [status : Statuses, share : Share \union {None}] \union {None}
    /\ answered \subseteq Tasks \X JobIDs \X Job
    /\ \A h \in Handlers :
          /\ pc[h] # "idle" => call[h] \in Call /\ snap[h] \in Configs
          /\ pc[h] \in {"claim", "put", "recheck"} => call[h].op \in {"create", "janus"}
          /\ pc[h] \in {"put", "recheck"} => built[h] \in Job

\* A report counts once per task, not once per aggregation job: over the whole
\* history no two job IDs of a task were ever answered with the same report
\* finished, through any interleaving of creates, retries and deletes.
OneJobPerReport ==
    \A a, b \in answered :
        a[1] = b[1] /\ FinishedReports(a[3]) \intersect FinishedReports(b[3]) # {}
            => a[2] = b[2]

\* The aggregate share handed to the Collector sums at most one output share
\* per report: two terms of a sum never belong to the same report.
CountedOnce ==
    reply # None /\ reply.share # None =>
        \A x, y \in reply.share.terms : x.report = y.report => x = y

\* Job creation is idempotent: two answers to the same body under the same job
\* ID are the same answer, however the requests raced with each other, with
\* other jobs and with deletes.
RetriesAgree ==
    \A a, b \in answered :
        a[1] = b[1] /\ a[2] = b[2] /\ a[3].hash = b[3].hash => a[3] = b[3]

\* writeResp never fails to encode: no job is built or stored with an error its
\* dialect has no code point for, whichever task record the handler started from.
NoEncodeFailure ==
    /\ \A t \in Tasks, j \in JobIDs : jobs[t][j] # None => Encodable(jobs[t][j])
    /\ \A h \in Handlers : pc[h] \in {"put", "recheck"} => Encodable(built[h])

\* The answer a request gets is the job as stored at that moment, so the Leader
\* and the Helper hold the same set of aggregated reports.
AnswerIsStored ==
    [][\A a \in answered' \ answered : jobs'[a[1]][a[2]] = a[3]]_vars

\* A claim means that the job is aggregating the report: the job that holds the
\* claim was answered, or is about to be stored, with a verdict on the report
\* other than a replay.
ClaimsBacked ==
    \A t \in Tasks, r \in Reports :
        claims[t][r] # None =>
            \E job \in {a[3] : a \in {x \in answered : x[1] = t /\ x[2] = claims[t][r]}}
                   \union {built[h] : h \in {k \in Handlers :
                            /\ pc[k] \in {"put", "recheck"}
                            /\ call[k].task = t /\ call[k].job = claims[t][r]}} :
                \E i \in DOMAIN job.results :
                    /\ job.results[i].report = r
                    /\ job.results[i].outcome \notin
                          {"ReportReplayed", "UnknownVerificationKeyID"}

\* A job newly stored finishes no report an earlier answer already finished: what
\* was counted stays counted once, also when its job is deleted in between.
FreshReportsOnly ==
    [][\A t \in Tasks, j \in JobIDs :
          jobs[t][j] = None /\ jobs'[t][j] # None =>
              \A a \in answered : a[1] = t =>
                  FinishedReports(a[3]) \intersect FinishedReports(jobs'[t][j]) = {}]_vars

\* The account of ReportLedger: what answers said was finished, what the stored jobs
\* hold as finished, and what the last response summed.
Counted == UNION {{<<a[1], a[2], r>> : r \in FinishedReports(a[3])} : a \in answered}

Live ==
    UNION {{<<k[1], k[2], r>> : r \in FinishedReports(jobs[k[1]][k[2]])} :
           k \in {x \in Tasks \X JobIDs : jobs[x[1]][x[2]] # None}}

Handed ==
    IF reply = None \/ reply.share = None THEN {}
    ELSE {<<reply.share.task, x.job, x.report>> : x \in reply.share.terms}

Ledger == INSTANCE ReportLedger WITH counted <- Counted, live <- Live, handed <- Handed

\* The handlers together keep the account a Helper serving one request at a time
\* would keep: a job comes to exist in the very step that tells the Leader of it,
\* every later answer for it repeats the same reports, none of them ever counted by
\* another job, and the Collector gets all that existing jobs hold and nothing else.
ImplementsLedger == Ledger!Spec

\* Every request is answered in the end.
EveryCallAnswered == \A h \in Handlers : pc[h] # "idle" ~> pc[h] = "idle"
=============================================================================
