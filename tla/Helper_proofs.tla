---------------------------- MODULE Helper_proofs ----------------------------
(***************************************************************************)
(* Proofs about module Helper, for every choice of its constants: types,   *)
(* then anti-replay and what follows from its invariant; then, under       *)
(* hypotheses on the deployment that are introduced there, what becomes of *)
(* a request to create a job, the refinement of ReportLedger, and claims.  *)
(***************************************************************************)
EXTENDS Helper, TLAPS

Reply == [status : Statuses, share : Share \union {None}]

-----------------------------------------------------------------------------
(* Lemmas on functions and on the operators of HelperInit.                  *)

\* One entry of a table of tables may be replaced by any entry.
LEMMA UpdateAt ==
    ASSUME NEW A, NEW B, NEW C, NEW f \in [A -> [B -> C]], NEW a \in A, NEW b \in B, NEW c \in C
    PROVE  [f EXCEPT ![a][b] = c] \in [A -> [B -> C]]
  OBVIOUS

\* An entry of a sequence is an element of its set.
LEMMA SeqElement ==
    ASSUME NEW S, NEW s \in Seq(S), NEW i \in DOMAIN s
    PROVE  i \in Nat /\ s[i] \in S
  OBVIOUS

\* aggregateInit ends in one of four errors or commits the output share.
LEMMA AggregateInitOutcome ==
    ASSUME NEW task, NEW vk, NEW variant, NEW vi
    PROVE  aggregateInit(task, vk, variant, vi) \in
              {"HpkeUnknownConfigID", "HpkeDecryptError", "InvalidMessage",
               "VdafVerifyError", Finished}
  BY DEF aggregateInit, Finished

\* A job built from a request is a job, and answers every report in its place.
LEMMA BuildInitType ==
    ASSUME NEW task, NEW vk, NEW variant \in Variants, NEW body \in Bodies, NEW inits,
           NEW replayed, Len(inits) \in Nat,
           \A i \in 1..Len(inits) : inits[i].report \in Reports
    PROVE  buildInitJob(task, vk, variant, body, inits, replayed) \in Job
  <1> DEFINE res(i) == [report |-> inits[i].report,
                        outcome |-> IF inits[i].report \in replayed
                                    THEN "ReportReplayed"
                                    ELSE aggregateInit(task, vk, variant, inits[i])]
  <1>1. \A i \in 1..Len(inits) : res(i) \in [report : Reports, outcome : Outcomes]
    BY AggregateInitOutcome DEF Outcomes, ReportErrors, Finished
  <1> HIDE DEF res
  <1>2. [i \in 1..Len(inits) |-> res(i)] \in Seq([report : Reports, outcome : Outcomes])
    BY <1>1
  <1> USE DEF res
  <1> QED
    BY <1>2 DEF buildInitJob, Job

\* A job that rejects every report is a job.
LEMMA RejectAllType ==
    ASSUME NEW task, task.variant \in Variants, NEW body \in Bodies, NEW inits,
           NEW e \in ReportErrors, Len(inits) \in Nat,
           \A i \in 1..Len(inits) : inits[i].report \in Reports
    PROVE  buildRejectAllJob(task, body, inits, e) \in Job
  <1> DEFINE res(i) == [report |-> inits[i].report, outcome |-> e]
  <1>1. \A i \in 1..Len(inits) : res(i) \in [report : Reports, outcome : Outcomes]
    BY DEF Outcomes
  <1> HIDE DEF res
  <1>2. [i \in 1..Len(inits) |-> res(i)] \in Seq([report : Reports, outcome : Outcomes])
    BY <1>1
  <1> USE DEF res
  <1> QED
    BY <1>2 DEF buildRejectAllJob, Job

-----------------------------------------------------------------------------
(* Type correctness.  The handler-local part of TypeOK, for one handler.    *)

HandlerOK(p, c, s, b) ==
    /\ p # "idle" => c \in Call /\ s \in Configs
    /\ p \in {"claim", "put", "recheck"} => c.op \in {"create", "janus"}
    /\ p \in {"put", "recheck"} => b \in Job

\* A request in the create or PUT route decodes to reports with known IDs.
LEMMA RequestReports ==
    ASSUME NEW h, call[h] \in Call, call[h].op \in {"create", "janus"}
    PROVE  /\ call[h].task \in Tasks /\ call[h].job \in JobIDs /\ call[h].body \in Bodies
           /\ Len(Request(h).inits) \in Nat
           /\ \A i \in 1..Len(Request(h).inits) : Request(h).inits[i].report \in Reports
  <1>1. call[h].task \in Tasks /\ call[h].job \in JobIDs /\ call[h].body \in Bodies
    BY DEF Call
  <1>2. Shape(RouteVariant(h)) \in {"published", "janus"}
    BY DEF Shape
  <1> QED
    BY <1>1, <1>2, BodyAssumption DEF Request

\* Answering leaves the handler idle and everything it held forgotten.
LEMMA RespondType ==
    ASSUME TypeOK, NEW h \in Handlers, NEW r \in Reply \union {None}, Respond(h, r)
    PROVE  /\ pc' \in [Handlers -> {"idle", "body", "claim", "put", "recheck"}]
           /\ call' \in [Handlers -> Call \union {None}]
           /\ snap' \in [Handlers -> Configs \union {None}]
           /\ built' \in [Handlers -> Job \union {None}]
           /\ reply' \in Reply \union {None}
           /\ \A k \in Handlers : HandlerOK(pc'[k], call'[k], snap'[k], built'[k])
  BY DEF Respond, TypeOK, HandlerOK

\* Whatever job writeResp is given, handlers and history stay well typed.
LEMMA WriteRespType ==
    ASSUME TypeOK, NEW h \in Handlers, NEW t \in Tasks, NEW j \in JobIDs, NEW job \in Job,
           writeResp(h, t, j, job), tasks' \in [Tasks -> Configs \union {None}],
           jobs' \in [Tasks -> [JobIDs -> Job \union {None}]],
           claims' \in [Tasks -> [Reports -> JobIDs \union {None}]]
    PROVE  TypeOK'
  <1>1. /\ [status |-> 200, share |-> None] \in Reply \union {None}
        /\ [status |-> 500, share |-> None] \in Reply \union {None}
    BY DEF Reply, Statuses
  <1>2. \E r \in Reply \union {None} : Respond(h, r)
    BY <1>1 DEF writeResp, writeProblem
  <1>3. answered' \subseteq Tasks \X JobIDs \X Job
    BY DEF writeResp, writeProblem, TypeOK
  <1> QED
    BY <1>2, <1>3, RespondType DEF TypeOK, HandlerOK, Reply

\* An error answer keeps the types.
LEMMA WriteProblemType ==
    ASSUME TypeOK, NEW h \in Handlers, NEW status \in Statuses, writeProblem(h, status),
           UNCHANGED store
    PROVE  TypeOK'
  <1>1. [status |-> status, share |-> None] \in Reply \union {None}
    BY DEF Reply
  <1>2. \E r \in Reply \union {None} : Respond(h, r)
    BY <1>1 DEF writeProblem
  <1> QED
    BY <1>2, RespondType DEF TypeOK, HandlerOK, Reply, writeProblem, store

\* The initial state is well typed.
LEMMA TypeInit == Init => TypeOK
  BY DEF Init, TypeOK

\* AddTask stores a task record under the record's own ID.
LEMMA AddTaskType ==
    ASSUME TypeOK, NEW c \in Configs, AddTask(c)
    PROVE  TypeOK'
  BY ConfigAssumption DEF AddTask, TypeOK

\* A request that is let in takes its call and the task's record along.
LEMMA BeginType ==
    ASSUME TypeOK, NEW h \in Handlers, NEW c \in Call, Begin(h, c)
    PROVE  TypeOK'
  <1>1. CASE tasks[c.task] = None /\ writeProblem(h, 400)
    BY <1>1, WriteProblemType DEF Begin, Statuses
  <1>2. CASE tasks[c.task] # None /\ Goto(h, "body")
    <2>1. c.task \in Tasks
      BY DEF Call
    <2> QED
      <3>1. /\ pc' = [pc EXCEPT ![h] = "body"] /\ call' = [call EXCEPT ![h] = c]
            /\ snap' = [snap EXCEPT ![h] = tasks[c.task]] /\ tasks[c.task] \in Configs
            /\ UNCHANGED built /\ reply' = None
            /\ UNCHANGED answered /\ UNCHANGED <<tasks, jobs, claims>>
        BY <1>2, <2>1, ZenonT(20) DEF Begin, Goto, TypeOK, store
      <3>2. /\ pc' \in [Handlers -> {"idle", "body", "claim", "put", "recheck"}]
            /\ call' \in [Handlers -> Call \union {None}]
            /\ snap' \in [Handlers -> Configs \union {None}]
        BY <3>1 DEF TypeOK
      <3>3. ASSUME NEW k \in Handlers
            PROVE  /\ pc'[k] # "idle" => call'[k] \in Call /\ snap'[k] \in Configs
                   /\ pc'[k] \in {"claim", "put", "recheck"} => call'[k].op \in {"create", "janus"}
                   /\ pc'[k] \in {"put", "recheck"} => built'[k] \in Job
        BY <3>1 DEF TypeOK
      <3> QED
        BY <3>1, <3>2, <3>3 DEF TypeOK
  <1> QED
    BY <1>1, <1>2 DEF Begin

\* A body that cannot be read is an error answer.
LEMMA ReadFailsType ==
    ASSUME TypeOK, NEW h \in Handlers, ReadFails(h)
    PROVE  TypeOK'
  BY WriteProblemType DEF ReadFails, Statuses

\* A request that fails a check is an error answer.
LEMMA RejectRequestType ==
    ASSUME TypeOK, NEW h \in Handlers, RejectRequest(h)
    PROVE  TypeOK'
  <1>1. writeProblem(h, 400) \/ writeProblem(h, 405)
    BY DEF RejectRequest
  <1> QED
    BY <1>1, WriteProblemType DEF RejectRequest, Statuses

\* The reject-all job a handler holds is a job.
LEMMA RejectAllTypeOK ==
    ASSUME TypeOK, NEW h \in Handlers, RejectAll(h)
    PROVE  TypeOK'
  <1>1. call[h] \in Call /\ snap[h] \in Configs /\ call[h].op = "create"
    BY DEF RejectAll, TypeOK
  <1>2. snap[h].variant \in Variants
    BY <1>1, ConfigAssumption
  <1>3. "UnknownVerificationKeyID" \in ReportErrors
    BY DEF ReportErrors
  <1>4. built'[h] \in Job
    BY <1>1, <1>2, <1>3, RequestReports, RejectAllType DEF RejectAll, TypeOK
  <1> QED
    BY <1>1, <1>4 DEF RejectAll, Goto, TypeOK

\* A look-up answers with a stored job, conflicts, or goes on to claim.
LEMMA LookUpType ==
    ASSUME TypeOK, NEW h \in Handlers, LookUp(h)
    PROVE  TypeOK'
  <1>1. call[h] \in Call /\ snap[h] \in Configs /\ call[h].op \in {"create", "janus"}
    BY DEF LookUp, Admitted, TypeOK
  <1>2. call[h].task \in Tasks /\ call[h].job \in JobIDs
    BY <1>1, RequestReports
  <1>3. CASE SameRequest(h) /\ writeResp(h, call[h].task, call[h].job, StoredJob(h))
    <2>1. StoredJob(h) \in Job
      BY <1>2, <1>3 DEF SameRequest, StoredJob, TypeOK
    <2> QED
      BY <1>2, <1>3, <2>1, WriteRespType DEF LookUp, store, TypeOK
  <1>4. CASE writeProblem(h, 409)
    BY <1>4, WriteProblemType DEF LookUp, Statuses
  <1>5. CASE Goto(h, "claim") /\ UNCHANGED <<call, snap, built>>
    BY <1>1, <1>5 DEF LookUp, Goto, store, TypeOK
  <1> QED
    BY <1>3, <1>4, <1>5 DEF LookUp

\* Claims name job IDs, and the job the handler then holds is a job.
LEMMA ClaimAndBuildType ==
    ASSUME TypeOK, NEW h \in Handlers, ClaimAndBuild(h)
    PROVE  TypeOK'
  <1>1. call[h] \in Call /\ snap[h] \in Configs /\ call[h].op \in {"create", "janus"}
    BY DEF ClaimAndBuild, TypeOK
  <1>2. RouteVariant(h) \in Variants
    BY <1>1, ConfigAssumption DEF RouteVariant, Variants
  <1>3. built'[h] \in Job
    BY <1>1, <1>2, RequestReports, BuildInitType DEF ClaimAndBuild, TypeOK
  <1>4. claims' \in [Tasks -> [Reports -> JobIDs \union {None}]]
    BY <1>1, RequestReports DEF ClaimAndBuild, ClaimReportIDs, TypeOK
  <1> QED
    BY <1>1, <1>3, <1>4 DEF ClaimAndBuild, Goto, TypeOK

\* PutJob stores the job the handler holds.
LEMMA PutJobType ==
    ASSUME TypeOK, NEW h \in Handlers, PutJob(h)
    PROVE  TypeOK'
  <1>1. /\ call[h] \in Call /\ snap[h] \in Configs /\ built[h] \in Job
        /\ call[h].op \in {"create", "janus"}
    BY DEF PutJob, TypeOK
  <1>2. call[h].task \in Tasks /\ call[h].job \in JobIDs
    BY <1>1, RequestReports
  <1>3. CASE /\ writeResp(h, call[h].task, call[h].job, built[h])
             /\ \/ jobs' = [jobs EXCEPT ![call[h].task][call[h].job] = built[h]]
                \/ UNCHANGED jobs
    <2>1. jobs' \in [Tasks -> [JobIDs -> Job \union {None}]]
      <3>1. jobs \in [Tasks -> [JobIDs -> Job \union {None}]]
        BY DEF TypeOK
      <3>2. built[h] \in Job \union {None}
        BY <1>1
      <3>3. [jobs EXCEPT ![call[h].task][call[h].job] = built[h]]
                \in [Tasks -> [JobIDs -> Job \union {None}]]
        BY <1>2, <3>1, <3>2, UpdateAt, Zenon
      <3> QED
        BY <1>3, <3>1, <3>3
    <2> QED
      BY <1>1, <1>2, <1>3, <2>1, WriteRespType DEF PutJob, TypeOK
  <1>4. CASE Goto(h, "recheck") /\ UNCHANGED <<jobs, call, snap, built>>
    BY <1>1, <1>4 DEF PutJob, Goto, TypeOK
  <1> QED
    BY <1>3, <1>4 DEF PutJob

\* The second look-up answers with a stored job or conflicts.
LEMMA RecheckType ==
    ASSUME TypeOK, NEW h \in Handlers, Recheck(h)
    PROVE  TypeOK'
  <1>1. call[h] \in Call /\ call[h].op \in {"create", "janus"}
    BY DEF Recheck, TypeOK
  <1>2. call[h].task \in Tasks /\ call[h].job \in JobIDs
    BY <1>1, RequestReports
  <1>3. CASE SameRequest(h) /\ writeResp(h, call[h].task, call[h].job, StoredJob(h))
    <2>1. StoredJob(h) \in Job
      BY <1>2, <1>3 DEF SameRequest, StoredJob, TypeOK
    <2> QED
      BY <1>2, <1>3, <2>1, WriteRespType DEF Recheck, store, TypeOK
  <1>4. CASE writeProblem(h, 409)
    BY <1>4, WriteProblemType DEF Recheck, Statuses
  <1> QED
    BY <1>3, <1>4 DEF Recheck

\* GET answers with a stored job or 404.
LEMMA HandleGetType ==
    ASSUME TypeOK, NEW h \in Handlers, NEW t \in Tasks, NEW j \in JobIDs, handleGet(h, t, j)
    PROVE  TypeOK'
  <1>1. CASE jobs[t][j] # None /\ writeResp(h, t, j, jobs[t][j])
    <2>1. jobs[t][j] \in Job
      BY <1>1 DEF TypeOK
    <2> QED
      BY <1>1, <2>1, WriteRespType DEF handleGet, store, TypeOK
  <1>2. CASE writeProblem(h, 404)
    BY <1>2, WriteProblemType DEF handleGet, Statuses
  <1> QED
    BY <1>1, <1>2 DEF handleGet

\* DELETE empties one entry of the job table.
LEMMA DeleteJobType ==
    ASSUME TypeOK, NEW h \in Handlers, NEW t \in Tasks, NEW j \in JobIDs, DeleteJob(h, t, j)
    PROVE  TypeOK'
  <1>1. [status |-> 200, share |-> None] \in Reply \union {None}
    BY DEF Reply, Statuses
  <1>2. \E r \in Reply \union {None} : Respond(h, r)
    BY <1>1 DEF DeleteJob
  <1>3. jobs' \in [Tasks -> [JobIDs -> Job \union {None}]]
    BY DEF DeleteJob, TypeOK
  <1> QED
    BY <1>2, <1>3, RespondType DEF DeleteJob, TypeOK, HandlerOK, Reply

\* The terms of an aggregate share name jobs, places and reports.
LEMMA SumSharesType ==
    ASSUME TypeOK, NEW h \in Handlers, SumShares(h)
    PROVE  TypeOK'
  <1> DEFINE terms == CommittedShares(call[h].task)
             share == [task |-> call[h].task, terms |-> terms, collector |-> snap[h].collector]
  <1>1. CASE writeProblem(h, 400) \/ writeProblem(h, 500)
    BY <1>1, WriteProblemType DEF SumShares, Statuses
  <1>2. CASE Respond(h, [status |-> 200, share |-> share]) /\ UNCHANGED answered
    <2>1. call[h].task \in Tasks /\ snap[h] \in Configs
      BY DEF SumShares, TypeOK, Call
    <2>2. terms \subseteq [job : JobIDs, ord : Nat, report : Reports]
      <3> SUFFICES ASSUME NEW x \in terms
                   PROVE  x \in [job : JobIDs, ord : Nat, report : Reports]
        OBVIOUS
      <3> DEFINE res(j) == jobs[call[h].task][j].results
      <3>1. PICK j \in JobIDs : \E i \in DOMAIN res(j) :
                /\ jobs[call[h].task][j] # None
                /\ x = [job |-> j, ord |-> i, report |-> res(j)[i].report]
        BY DEF CommittedShares
      <3>2. jobs[call[h].task][j] \in Job
        BY <2>1, <3>1 DEF TypeOK
      <3>3. res(j) \in Seq([report : Reports, outcome : Outcomes])
        BY <3>2 DEF Job
      <3>4. PICK i \in DOMAIN res(j) : x = [job |-> j, ord |-> i, report |-> res(j)[i].report]
        BY <3>1
      <3> HIDE DEF res
      <3>5. i \in Nat /\ res(j)[i] \in [report : Reports, outcome : Outcomes]
        BY <3>3, SeqElement
      <3> QED
        BY <3>4, <3>5
    <2>3. [status |-> 200, share |-> share] \in Reply \union {None}
      BY <2>1, <2>2 DEF Reply, Share, Statuses
    <2> HIDE DEF share
    <2> QED
      BY <1>2, <2>3, RespondType DEF SumShares, store, TypeOK, HandlerOK, Reply
  <1> QED
    BY <1>1, <1>2 DEF SumShares

\* Requests that reach no store call keep the types.
LEMMA ServeUnroutedType ==
    ASSUME TypeOK, NEW h \in Handlers, NEW status \in {200, 404, 405, 501}, ServeUnrouted(h, status)
    PROVE  TypeOK'
  BY WriteProblemType DEF ServeUnrouted, Statuses

\* The three requests that go through Begin carry a well-typed call.
LEMMA Calls ==
    ASSUME NEW h, NEW t \in Tasks
    PROVE  /\ \A b \in Bodies : handleCreate(h, t, b) => \E c \in Call : Begin(h, c)
           /\ \A j \in LeaderJobIDs, b \in Bodies :
                 handleJanusInit(h, t, j, b) => \E c \in Call : Begin(h, c)
           /\ handleAggregateShare(h, t) => \E c \in Call : Begin(h, c)
  <1>1. \A b \in Bodies :
           [op |-> "create", task |-> t, job |-> DigestID[b], body |-> b] \in Call
    BY BodyAssumption DEF Call
  <1>2. \A j \in LeaderJobIDs, b \in Bodies :
           [op |-> "janus", task |-> t, job |-> j, body |-> b] \in Call
    BY BodyAssumption DEF Call
  <1>3. [op |-> "share", task |-> t, job |-> None, body |-> None] \in Call
    BY DEF Call
  <1> HIDE DEF Call
  <1> QED
    BY <1>1, <1>2, <1>3 DEF handleCreate, handleJanusInit, handleAggregateShare

\* Each step of the Helper is one of its operations, with typed arguments.
LEMMA NextCases ==
    ASSUME Next
    PROVE  \/ \E c \in Configs : AddTask(c)
           \/ \E h \in Handlers :
                \/ \E c \in Call : Begin(h, c)
                \/ \E t \in Tasks, j \in JobIDs : handleGet(h, t, j)
                \/ \E t \in Tasks, j \in JobIDs : DeleteJob(h, t, j)
                \/ \E status \in {200, 404, 405, 501} : ServeUnrouted(h, status)
                \/ ReadFails(h) \/ RejectRequest(h) \/ RejectAll(h) \/ LookUp(h)
                \/ ClaimAndBuild(h) \/ PutJob(h) \/ Recheck(h) \/ SumShares(h)
  <1>1. CASE \E c \in Configs : AddTask(c)
    BY <1>1
  <1>2. ASSUME NEW h \in Handlers, ServeHTTP(h)
        PROVE  \/ \E c \in Call : Begin(h, c)
               \/ \E t \in Tasks, j \in JobIDs : handleGet(h, t, j)
               \/ \E t \in Tasks, j \in JobIDs : DeleteJob(h, t, j)
               \/ \E status \in {200, 404, 405, 501} : ServeUnrouted(h, status)
    BY <1>2, Calls DEF ServeHTTP
  <1>3. CASE \E h \in Handlers : Proceed(h)
    BY <1>3 DEF Proceed
  <1> QED
    BY <1>1, <1>2, <1>3 DEF Next

\* Every step keeps the types: one case per operation.
LEMMA TypeNext == TypeOK /\ [Next]_vars => TypeOK'
  <1> SUFFICES ASSUME TypeOK, [Next]_vars
               PROVE  TypeOK'
    OBVIOUS
  <1>1. CASE UNCHANGED vars
    BY <1>1 DEF vars, TypeOK
  <1>2. CASE Next
    BY <1>2, NextCases, AddTaskType, BeginType, HandleGetType, DeleteJobType,
       ServeUnroutedType, ReadFailsType, RejectRequestType, RejectAllTypeOK, LookUpType,
       ClaimAndBuildType, PutJobType, RecheckType, SumSharesType
  <1> QED
    BY <1>1, <1>2

\* Every state of the Helper is well typed: no handler reaches a store call
\* without the task, the request and the job it needs.
THEOREM TypeCorrect == Spec => []TypeOK
  BY TypeInit, TypeNext, PTL DEF Spec

-----------------------------------------------------------------------------
(* Where a step's jobs, answers, claims and task snapshots come from.       *)

\* What a step of the Helper does to a handler it does not serve.
Untouched(k) ==
    pc'[k] = pc[k] /\ call'[k] = call[k] /\ snap'[k] = snap[k] /\ built'[k] = built[k]

\* A handler that answers is idle afterwards, and the others are untouched.
LEMMA RespondTouches ==
    ASSUME TypeOK, NEW h \in Handlers, NEW r, Respond(h, r)
    PROVE  pc'[h] = "idle" /\ \A k \in Handlers \ {h} : Untouched(k)
  BY DEF TypeOK, Respond, Untouched

\* Each operation that ends in an answer, or in an error, ends in Respond.
LEMMA WriteTouches ==
    ASSUME TypeOK, NEW h \in Handlers,
           \/ \E status : writeProblem(h, status)
           \/ \E t, j, job : writeResp(h, t, j, job)
    PROVE  pc'[h] = "idle" /\ \A k \in Handlers \ {h} : Untouched(k)
  BY RespondTouches DEF writeProblem, writeResp

\* A handler holds a job because it held it before, or has just built it; its
\* request is the same as before.
LEMMA BuiltFrom ==
    ASSUME TypeOK, [Next]_vars, NEW k \in Handlers, pc'[k] \in {"put", "recheck"}
    PROVE  /\ call'[k] = call[k] /\ snap'[k] = snap[k]
           /\ \/ pc[k] \in {"put", "recheck"} /\ built'[k] = built[k]
              \/ RejectAll(k) /\ pc'[k] = "put"
              \/ ClaimAndBuild(k) /\ pc'[k] = "put"
  <1> DEFINE From ==
        /\ call'[k] = call[k] /\ snap'[k] = snap[k]
        /\ \/ pc[k] \in {"put", "recheck"} /\ built'[k] = built[k]
           \/ RejectAll(k) /\ pc'[k] = "put"
           \/ ClaimAndBuild(k) /\ pc'[k] = "put"
  <1> SUFFICES From
    OBVIOUS
  <1>1. CASE Untouched(k)
    BY <1>1 DEF Untouched
  <1>2. CASE UNCHANGED vars \/ \E c \in Configs : AddTask(c)
    BY <1>1, <1>2 DEF vars, AddTask, Untouched
  <1>3. ASSUME NEW h \in Handlers, \E r : Respond(h, r)
        PROVE  From
    BY <1>1, <1>3, RespondTouches
  <1>4. ASSUME NEW h \in Handlers, NEW c \in Call, Begin(h, c)
        PROVE  From
    <2>1. CASE writeProblem(h, 400)
      BY <1>3, <2>1 DEF writeProblem
    <2>2. CASE k = h /\ pc'[k] = "body"
      BY <2>2
    <2>3. CASE k # h /\ Untouched(k)
      BY <1>1, <2>3
    <2> QED
      BY <1>4, <2>1, <2>2, <2>3 DEF Begin, Goto, TypeOK, Untouched
  <1>5. ASSUME NEW h \in Handlers, RejectAll(h) \/ ClaimAndBuild(h)
        PROVE  From
    <2>1. CASE k = h
      BY <1>5, <2>1 DEF RejectAll, ClaimAndBuild, Goto, TypeOK
    <2>2. CASE k # h
      BY <1>1, <1>5, <2>2 DEF RejectAll, ClaimAndBuild, Goto, TypeOK, Untouched
    <2> QED
      BY <2>1, <2>2
  <1>6. ASSUME NEW h \in Handlers, LookUp(h) \/ PutJob(h) \/ Recheck(h)
        PROVE  From
    <2>1. CASE \E t, j, job : writeResp(h, t, j, job)
      BY <1>1, <2>1, WriteTouches
    <2>2. CASE writeProblem(h, 409)
      BY <1>3, <2>2 DEF writeProblem
    <2>3. CASE LookUp(h) /\ Goto(h, "claim") /\ UNCHANGED <<call, snap, built>>
      BY <1>1, <2>3 DEF Goto, TypeOK, Untouched
    <2>4. CASE PutJob(h) /\ Goto(h, "recheck") /\ UNCHANGED <<call, snap, built>>
      BY <2>4 DEF PutJob, Goto, TypeOK
    <2> QED
      BY <1>6, <2>1, <2>2, <2>3, <2>4 DEF LookUp, PutJob, Recheck
  <1>7. ASSUME NEW h \in Handlers, NEW t \in Tasks, NEW j \in JobIDs, handleGet(h, t, j)
        PROVE  From
    BY <1>1, <1>7, WriteTouches DEF handleGet
  <1>8. ASSUME NEW h \in Handlers,
               \/ \E t \in Tasks, j \in JobIDs : DeleteJob(h, t, j)
               \/ \E status \in {200, 404, 405, 501} : ServeUnrouted(h, status)
               \/ ReadFails(h) \/ RejectRequest(h) \/ SumShares(h)
        PROVE  From
    BY <1>3, <1>8 DEF DeleteJob, ServeUnrouted, ReadFails, RejectRequest, SumShares, writeProblem
  <1> HIDE DEF From
  <1>9. CASE Next
    BY <1>2, <1>4, <1>5, <1>6, <1>7, <1>8, <1>9, NextCases
  <1> QED
    BY <1>2, <1>9

\* A job is stored by the handler that built it.
LEMMA StoredFrom ==
    ASSUME TypeOK, [Next]_vars, NEW t \in Tasks, NEW j \in JobIDs, jobs'[t][j] # None
    PROVE  \/ jobs'[t][j] = jobs[t][j]
           \/ \E h \in Handlers : /\ PutJob(h) /\ built[h] = jobs'[t][j]
                                  /\ call[h].task = t /\ call[h].job = j
  <1>1. CASE UNCHANGED jobs
    BY <1>1
  <1>2. ASSUME NEW h \in Handlers, NEW u \in Tasks, NEW i \in JobIDs, DeleteJob(h, u, i)
        PROVE  jobs'[t][j] = jobs[t][j]
    BY <1>2 DEF DeleteJob, TypeOK
  <1>3. ASSUME NEW h \in Handlers, PutJob(h)
        PROVE  \/ jobs'[t][j] = jobs[t][j]
               \/ built[h] = jobs'[t][j] /\ call[h].task = t /\ call[h].job = j
    <2> DEFINE ct == call[h].task
               cj == call[h].job
    <2>1. CASE UNCHANGED jobs
      BY <2>1
    <2>2. CASE jobs' = [jobs EXCEPT ![ct][cj] = built[h]]
      <3>1. jobs \in [Tasks -> [JobIDs -> Job \union {None}]]
        BY DEF TypeOK
      <3> HIDE DEF ct, cj
      <3> QED
        BY <2>2, <3>1 DEF ct, cj
    <2> QED
      BY <1>3, <2>1, <2>2 DEF PutJob
  <1>4. CASE UNCHANGED vars \/ \E c \in Configs : AddTask(c)
    BY <1>1, <1>4 DEF vars, AddTask
  <1>5. ASSUME NEW h \in Handlers,
               \/ \E c \in Call : Begin(h, c)
               \/ \E u \in Tasks, i \in JobIDs : handleGet(h, u, i)
               \/ \E status \in {200, 404, 405, 501} : ServeUnrouted(h, status)
               \/ ReadFails(h) \/ RejectRequest(h) \/ RejectAll(h) \/ LookUp(h)
               \/ ClaimAndBuild(h) \/ Recheck(h) \/ SumShares(h)
        PROVE  UNCHANGED jobs
    BY <1>5 DEF Begin, handleGet, ServeUnrouted, ReadFails, RejectRequest, RejectAll, LookUp,
                ClaimAndBuild, Recheck, SumShares, store
  <1> QED
    BY <1>1, <1>2, <1>3, <1>4, <1>5, NextCases

\* An answer carries a stored job, or the one its handler built.
LEMMA AnsweredFrom ==
    ASSUME TypeOK, [Next]_vars, NEW a \in answered' \ answered
    PROVE  /\ a[1] \in Tasks /\ a[2] \in JobIDs
           /\ \/ a[3] # None /\ jobs[a[1]][a[2]] = a[3]
              \/ \E h \in Handlers : /\ PutJob(h) /\ built[h] = a[3]
                                     /\ call[h].task = a[1] /\ call[h].job = a[2]
  <1>1. ASSUME NEW h \in Handlers, NEW t, NEW j, NEW job, writeResp(h, t, j, job)
        PROVE  a[1] = t /\ a[2] = j /\ a[3] = job
    BY <1>1 DEF writeResp, writeProblem
  <1>2. ASSUME NEW h \in Handlers, NEW t \in Tasks, NEW j \in JobIDs, handleGet(h, t, j)
        PROVE  a[1] = t /\ a[2] = j /\ a[3] # None /\ jobs[t][j] = a[3]
    <2>1. jobs[t][j] # None /\ writeResp(h, t, j, jobs[t][j])
      BY <1>2 DEF handleGet, writeProblem
    <2> QED
      BY <1>1, <2>1
  <1>3. ASSUME NEW h \in Handlers, LookUp(h) \/ Recheck(h)
        PROVE  /\ a[1] \in Tasks /\ a[2] \in JobIDs
               /\ a[3] # None /\ jobs[a[1]][a[2]] = a[3]
    <2>1. SameRequest(h) /\ writeResp(h, call[h].task, call[h].job, StoredJob(h))
      BY <1>3 DEF LookUp, Recheck, writeProblem, Goto
    <2>2. call[h].task \in Tasks /\ call[h].job \in JobIDs
      BY <1>3, RequestReports DEF LookUp, Admitted, Recheck, TypeOK
    <2> QED
      BY <1>1, <2>1, <2>2 DEF SameRequest, StoredJob
  <1>4. ASSUME NEW h \in Handlers, PutJob(h)
        PROVE  /\ a[1] \in Tasks /\ a[2] \in JobIDs
               /\ built[h] = a[3] /\ call[h].task = a[1] /\ call[h].job = a[2]
    <2>1. writeResp(h, call[h].task, call[h].job, built[h])
      BY <1>4 DEF PutJob, Goto
    <2>2. call[h].task \in Tasks /\ call[h].job \in JobIDs
      BY <1>4, RequestReports DEF PutJob, TypeOK
    <2> QED
      BY <1>1, <2>1, <2>2
  <1>5. CASE UNCHANGED vars \/ \E c \in Configs : AddTask(c)
    BY <1>5 DEF vars, AddTask
  <1>6. ASSUME NEW h \in Handlers,
               \/ \E c \in Call : Begin(h, c)
               \/ \E t \in Tasks, j \in JobIDs : DeleteJob(h, t, j)
               \/ \E status \in {200, 404, 405, 501} : ServeUnrouted(h, status)
               \/ ReadFails(h) \/ RejectRequest(h) \/ RejectAll(h)
               \/ ClaimAndBuild(h) \/ SumShares(h)
        PROVE  FALSE
    BY <1>6 DEF Begin, DeleteJob, ServeUnrouted, ReadFails, RejectRequest, RejectAll,
                ClaimAndBuild, SumShares, writeProblem, Goto
  <1> QED
    BY <1>2, <1>3, <1>4, <1>5, <1>6, NextCases

\* A claim is made once, by a handler for its job, on a report of its request.
LEMMA ClaimsFrom ==
    ASSUME TypeOK, [Next]_vars, NEW t \in Tasks, NEW r \in Reports,
           claims'[t][r] # claims[t][r]
    PROVE  /\ claims[t][r] = None
           /\ \E h \in Handlers : /\ ClaimAndBuild(h) /\ call[h].task = t
                                  /\ claims'[t][r] = call[h].job
                                  /\ r \in ReportIDs(Request(h).inits)
  <1>1. CASE UNCHANGED vars \/ \E c \in Configs : AddTask(c)
    BY <1>1 DEF vars, AddTask
  <1>2. ASSUME NEW h \in Handlers,
               \/ \E c \in Call : Begin(h, c)
               \/ \E u \in Tasks, j \in JobIDs : handleGet(h, u, j) \/ DeleteJob(h, u, j)
               \/ \E status \in {200, 404, 405, 501} : ServeUnrouted(h, status)
               \/ ReadFails(h) \/ RejectRequest(h) \/ RejectAll(h) \/ LookUp(h)
               \/ PutJob(h) \/ Recheck(h) \/ SumShares(h)
        PROVE  FALSE
    BY <1>2 DEF Begin, handleGet, DeleteJob, ServeUnrouted, ReadFails, RejectRequest,
                RejectAll, LookUp, PutJob, Recheck, SumShares, store
  <1>3. ASSUME NEW h \in Handlers, ClaimAndBuild(h)
        PROVE  /\ claims[t][r] = None /\ call[h].task = t
               /\ claims'[t][r] = call[h].job /\ r \in ReportIDs(Request(h).inits)
    BY <1>3 DEF ClaimAndBuild, ClaimReportIDs, TypeOK
  <1> QED
    BY <1>1, <1>2, <1>3, NextCases

\* A handler's request and record are those it had, or it has just read the record
\* of a request that came in.
LEMMA SnapFrom ==
    ASSUME TypeOK, [Next]_vars, NEW k \in Handlers, pc'[k] # "idle"
    PROVE  \/ pc[k] # "idle" /\ call'[k] = call[k] /\ snap'[k] = snap[k]
           \/ /\ pc'[k] = "body" /\ tasks[call'[k].task] # None
              /\ snap'[k] = tasks[call'[k].task] /\ call'[k] \in Call
  <1> DEFINE From == \/ pc[k] # "idle" /\ call'[k] = call[k] /\ snap'[k] = snap[k]
                     \/ /\ pc'[k] = "body" /\ tasks[call'[k].task] # None
                        /\ snap'[k] = tasks[call'[k].task] /\ call'[k] \in Call
  <1> SUFFICES From
    OBVIOUS
  <1>1. CASE Untouched(k)
    BY <1>1 DEF Untouched
  <1>2. CASE UNCHANGED vars \/ \E c \in Configs : AddTask(c)
    BY <1>1, <1>2 DEF vars, AddTask, Untouched
  <1>3. ASSUME NEW h \in Handlers, \E r : Respond(h, r)
        PROVE  From
    BY <1>1, <1>3, RespondTouches
  <1>4. ASSUME NEW h \in Handlers, NEW c \in Call, Begin(h, c)
        PROVE  From
    <2>1. CASE writeProblem(h, 400)
      BY <1>3, <2>1 DEF writeProblem
    <2>2. CASE k = h /\ tasks[c.task] # None /\ Goto(h, "body")
      <3>1. pc'[k] = "body" /\ call'[k] = c /\ snap'[k] = tasks[c.task]
        BY <1>4, <2>2 DEF Begin, Goto, TypeOK, writeProblem, Respond
      <3> QED
        BY <2>2, <3>1
    <2>3. CASE k # h /\ Untouched(k)
      BY <1>1, <2>3
    <2> QED
      BY <1>4, <2>1, <2>2, <2>3 DEF Begin, Goto, TypeOK, Untouched
  <1>5. ASSUME NEW h \in Handlers, RejectAll(h) \/ ClaimAndBuild(h)
        PROVE  From
    BY <1>5 DEF RejectAll, ClaimAndBuild, Goto, TypeOK
  <1>6. ASSUME NEW h \in Handlers, LookUp(h) \/ PutJob(h) \/ Recheck(h)
        PROVE  From
    <2>1. CASE \E t, j, job : writeResp(h, t, j, job)
      BY <1>1, <2>1, WriteTouches
    <2>2. CASE writeProblem(h, 409)
      BY <1>3, <2>2 DEF writeProblem
    <2>3. CASE /\ pc[h] # "idle" /\ UNCHANGED <<call, snap>>
               /\ Goto(h, "claim") \/ Goto(h, "recheck")
      BY <2>3 DEF Goto, TypeOK
    <2> QED
      BY <1>6, <2>1, <2>2, <2>3 DEF LookUp, PutJob, Recheck
  <1>7. ASSUME NEW h \in Handlers, NEW t \in Tasks, NEW j \in JobIDs, handleGet(h, t, j)
        PROVE  From
    BY <1>1, <1>7, WriteTouches DEF handleGet
  <1>8. ASSUME NEW h \in Handlers,
               \/ \E t \in Tasks, j \in JobIDs : DeleteJob(h, t, j)
               \/ \E status \in {200, 404, 405, 501} : ServeUnrouted(h, status)
               \/ ReadFails(h) \/ RejectRequest(h) \/ SumShares(h)
        PROVE  From
    BY <1>3, <1>8 DEF DeleteJob, ServeUnrouted, ReadFails, RejectRequest, SumShares, writeProblem
  <1> HIDE DEF From
  <1>9. CASE Next
    BY <1>2, <1>4, <1>5, <1>6, <1>7, <1>8, <1>9, NextCases
  <1> QED
    BY <1>2, <1>9

-----------------------------------------------------------------------------
(* Anti-replay: a report counts for one job of its task.                    *)
(*                                                                          *)
(* OneJobPerReport speaks of answers only and is not inductive: an answer   *)
(* is written after the job was built, and the job was built after the      *)
(* claim was made.  The invariant that is follows a finished report through *)
(* all three places a job can be (in a handler, in the store, in an answer) *)
(* and ties it to the claim, which no step ever changes once it is made.    *)

\* The reports a job finished are claimed, in cl, by that very job.
Owned(cl, t, j, job) ==
    \A i \in DOMAIN job.results :
        job.results[i].outcome = Finished => cl[t][job.results[i].report] = j

\* No report is finished twice within a job.
Distinct(job) ==
    \A i, k \in DOMAIN job.results :
        /\ job.results[i].outcome = Finished
        /\ job.results[k].outcome = Finished
        /\ job.results[i].report = job.results[k].report
        => i = k

SoundJob(cl, t, j, job) == Owned(cl, t, j, job) /\ Distinct(job) /\ Encodable(job)

StoredSound ==
    \A t \in Tasks, j \in JobIDs : jobs[t][j] # None => SoundJob(claims, t, j, jobs[t][j])

BuiltSound ==
    \A h \in Handlers :
        pc[h] \in {"put", "recheck"} => SoundJob(claims, call[h].task, call[h].job, built[h])

AnsweredSound == \A a \in answered : SoundJob(claims, a[1], a[2], a[3])

\* A handler about to claim has a request without duplicates.
ClaimReady ==
    \A h \in Handlers : pc[h] = "claim" => ~hasDuplicateReportIDs(Request(h).inits)

\* The part of the invariant that is about the process as it runs; the history is
\* kept apart, because it outlives the claims when the process is started again.
SafeInv == StoredSound /\ BuiltSound /\ ClaimReady /\ CountedOnce

-----------------------------------------------------------------------------
(* The jobs the two builders make.                                          *)

\* What buildInitJob may record has a code point in every dialect.
LEMMA InitErrorsEncodable ==
    ASSUME NEW v, NEW e \in {"HpkeUnknownConfigID", "HpkeDecryptError", "InvalidMessage",
                             "VdafVerifyError", "ReportReplayed"}
    PROVE  HasCodePoint(e, v)
  BY DEF HasCodePoint, reportErrorTable, reportError18, reportError19

\* The reject-all error has a code point in the dialects that use it.
LEMMA UnknownKeyEncodable ==
    ASSUME NEW v, afterDraft18(v)
    PROVE  HasCodePoint("UnknownVerificationKeyID", v)
  BY DEF HasCodePoint, reportErrorTable, reportError19, afterDraft18, draft19Values

\* If every report outside replayed is claimed by job j, buildInitJob makes a
\* sound job of a request without duplicates.
LEMMA BuildInitSound ==
    ASSUME NEW task, NEW vk, NEW variant, NEW body, NEW inits, NEW replayed,
           NEW cl, NEW t, NEW j,
           ~hasDuplicateReportIDs(inits),
           \A i \in 1..Len(inits) :
               inits[i].report \notin replayed => cl[t][inits[i].report] = j
    PROVE  SoundJob(cl, t, j, buildInitJob(task, vk, variant, body, inits, replayed))
  <1> DEFINE job == buildInitJob(task, vk, variant, body, inits, replayed)
  <1>1. /\ DOMAIN job.results = 1..Len(inits)
        /\ job.variant = variant
        /\ \A i \in 1..Len(inits) :
              /\ job.results[i].report = inits[i].report
              /\ job.results[i].outcome = IF inits[i].report \in replayed
                                          THEN "ReportReplayed"
                                          ELSE aggregateInit(task, vk, variant, inits[i])
    BY DEF buildInitJob
  <1> HIDE DEF job
  <1>2. Owned(cl, t, j, job)
    BY <1>1 DEF Owned, Finished
  <1>3. Distinct(job)
    BY <1>1 DEF Distinct, hasDuplicateReportIDs
  <1>4. Encodable(job)
    <2> SUFFICES ASSUME NEW i \in 1..Len(inits), job.results[i].outcome # Finished
                 PROVE  HasCodePoint(job.results[i].outcome, job.variant)
      BY <1>1 DEF Encodable
    <2> QED
      BY <1>1, AggregateInitOutcome, InitErrorsEncodable
  <1> QED
    BY <1>2, <1>3, <1>4 DEF SoundJob, job

\* A reject-all job finishes no report, and encodes after draft-18.
LEMMA RejectAllSound ==
    ASSUME NEW task, afterDraft18(task.variant), NEW body, NEW inits, NEW cl, NEW t, NEW j
    PROVE  SoundJob(cl, t, j,
                    buildRejectAllJob(task, body, inits, "UnknownVerificationKeyID"))
  <1> DEFINE job == buildRejectAllJob(task, body, inits, "UnknownVerificationKeyID")
  <1>1. /\ job.variant = task.variant
        /\ \A i \in DOMAIN job.results : job.results[i].outcome = "UnknownVerificationKeyID"
    BY DEF buildRejectAllJob
  <1> HIDE DEF job
  <1>2. SoundJob(cl, t, j, job)
    BY <1>1, UnknownKeyEncodable DEF SoundJob, Owned, Distinct, Encodable, Finished
  <1> QED
    BY <1>2 DEF job

-----------------------------------------------------------------------------
(* Claims only grow, and growing claims keep jobs sound.                    *)

ClaimsGrow ==
    \A t \in Tasks, r \in Reports : claims[t][r] # None => claims'[t][r] = claims[t][r]

\* Claims only grow, so a job that was sound stays sound.
LEMMA SoundJobKept ==
    ASSUME ClaimsGrow, NEW t \in Tasks, NEW j \in JobIDs, NEW job \in Job,
           SoundJob(claims, t, j, job)
    PROVE  SoundJob(claims', t, j, job)
  <1>1. job.results \in Seq([report : Reports, outcome : Outcomes])
    BY DEF Job
  <1>2. \A i \in DOMAIN job.results : job.results[i] \in [report : Reports, outcome : Outcomes]
    BY <1>1, SeqElement
  <1> QED
    BY <1>2, NoneAssumption DEF ClaimsGrow, SoundJob, Owned

\* The part of the invariant about one handler.
HandlerSound(h) ==
    /\ pc[h] \in {"put", "recheck"} => SoundJob(claims, call[h].task, call[h].job, built[h])
    /\ pc[h] = "claim" => ~hasDuplicateReportIDs(Request(h).inits)

\* A handler another one's step leaves alone stays sound.
LEMMA OthersSound ==
    ASSUME TypeOK, BuiltSound, ClaimReady, ClaimsGrow, NEW k \in Handlers,
           pc'[k] = pc[k], call'[k] = call[k], snap'[k] = snap[k], built'[k] = built[k]
    PROVE  HandlerSound(k)'
  <1>1. CASE pc[k] \in {"put", "recheck"}
    <2>1. /\ call[k].task \in Tasks /\ call[k].job \in JobIDs /\ built[k] \in Job
          /\ SoundJob(claims, call[k].task, call[k].job, built[k])
      BY <1>1, RequestReports DEF TypeOK, BuiltSound
    <2>2. SoundJob(claims', call[k].task, call[k].job, built[k])
      BY <2>1, SoundJobKept
    <2> QED
      BY <1>1, <2>2 DEF HandlerSound
  <1>2. CASE pc[k] = "claim"
    BY <1>2 DEF HandlerSound, ClaimReady, Request, RouteVariant
  <1> QED
    BY <1>1, <1>2 DEF HandlerSound

\* The history stays sound while the claims grow.
LEMMA AnsweredKept ==
    ASSUME TypeOK, AnsweredSound, ClaimsGrow
    PROVE  \A a \in answered : SoundJob(claims', a[1], a[2], a[3])
  <1> SUFFICES ASSUME NEW a \in answered
               PROVE  SoundJob(claims', a[1], a[2], a[3])
    OBVIOUS
  <1>1. a[1] \in Tasks /\ a[2] \in JobIDs /\ a[3] \in Job
    BY DEF TypeOK
  <1> QED
    BY <1>1, SoundJobKept DEF AnsweredSound

\* The stored jobs stay sound while the claims grow.
LEMMA StoredKept ==
    ASSUME TypeOK, StoredSound, ClaimsGrow, NEW t \in Tasks, NEW j \in JobIDs,
           jobs[t][j] # None
    PROVE  SoundJob(claims', t, j, jobs[t][j])
  <1>1. jobs[t][j] \in Job
    BY DEF TypeOK
  <1> QED
    BY <1>1, SoundJobKept DEF StoredSound

\* A step that answers, leaves the claims alone, adds only sound jobs to the store
\* and sends a sound reply keeps the invariant.
LEMMA RespondSafe ==
    ASSUME TypeOK, SafeInv, NEW h \in Handlers, NEW r, Respond(h, r), UNCHANGED claims,
           CountedOnce', StoredSound'
    PROVE  SafeInv'
  <1>1. ClaimsGrow
    BY DEF ClaimsGrow
  <1>2. \A k \in Handlers : HandlerSound(k)'
    <2> SUFFICES ASSUME NEW k \in Handlers
                 PROVE  HandlerSound(k)'
      OBVIOUS
    <2>1. CASE k = h
      BY <2>1 DEF Respond, TypeOK, HandlerSound
    <2>2. CASE k # h
      <3>1. pc'[k] = pc[k] /\ call'[k] = call[k] /\ snap'[k] = snap[k] /\ built'[k] = built[k]
        BY <2>2 DEF Respond, TypeOK
      <3> QED
        BY <1>1, <3>1, OthersSound DEF SafeInv
    <2> QED
      BY <2>1, <2>2
  <1> QED
    BY <1>2 DEF SafeInv, HandlerSound, BuiltSound, ClaimReady

\* An error answer keeps the invariant.
LEMMA WriteProblemSafe ==
    ASSUME TypeOK, SafeInv, NEW h \in Handlers, NEW status,
           writeProblem(h, status), UNCHANGED store
    PROVE  SafeInv'
  <1>1. CountedOnce'
    BY DEF writeProblem, Respond, CountedOnce
  <1>2. StoredSound'
    BY DEF store, SafeInv, StoredSound
  <1> QED
    BY <1>1, <1>2, RespondSafe DEF writeProblem, store

\* An answer with a sound job keeps the invariant.
LEMMA WriteRespSafe ==
    ASSUME TypeOK, SafeInv, NEW h \in Handlers, NEW t, NEW j, NEW job,
           SoundJob(claims, t, j, job), writeResp(h, t, j, job), UNCHANGED claims, StoredSound'
    PROVE  SafeInv'
  <1>1. /\ Respond(h, [status |-> 200, share |-> None])
        /\ answered' = answered \union {<<t, j, job>>}
    BY DEF writeResp, SoundJob
  <1>2. CountedOnce'
    BY <1>1 DEF Respond, CountedOnce
  <1> QED
    BY <1>1, <1>2, RespondSafe

-----------------------------------------------------------------------------
(* One lemma per operation.                                                 *)

\* The invariant holds of the empty store.
LEMMA SafeInit == Init => SafeInv
  BY DEF Init, SafeInv, StoredSound, BuiltSound, ClaimReady, CountedOnce

\* A step that sends nothing, touches no claim or job and no handler but
\* perhaps h, which stays sound, keeps the invariant.
LEMMA QuietSafe ==
    ASSUME TypeOK, SafeInv, NEW h \in Handlers, HandlerSound(h)',
           reply' = None, UNCHANGED <<jobs, claims>>,
           \A k \in Handlers \ {h} :
               pc'[k] = pc[k] /\ call'[k] = call[k] /\ snap'[k] = snap[k] /\ built'[k] = built[k]
    PROVE  SafeInv'
  <1>1. ClaimsGrow
    BY DEF ClaimsGrow
  <1>2. \A k \in Handlers : HandlerSound(k)'
    BY <1>1, OthersSound DEF SafeInv
  <1>3. StoredSound'
    BY DEF SafeInv, StoredSound
  <1>4. CountedOnce'
    BY DEF CountedOnce
  <1> QED
    BY <1>2, <1>3, <1>4 DEF SafeInv, HandlerSound, BuiltSound, ClaimReady

\* AddTask touches no job and no claim.
LEMMA AddTaskSafe ==
    ASSUME TypeOK, SafeInv, NEW c \in Configs, AddTask(c)
    PROVE  SafeInv'
  <1>1. StoredSound' /\ BuiltSound'
    BY DEF AddTask, SafeInv, StoredSound, BuiltSound
  <1>2. ClaimReady'
    BY DEF AddTask, SafeInv, ClaimReady, Request, RouteVariant
  <1>3. CountedOnce'
    BY DEF AddTask, CountedOnce
  <1> QED
    BY <1>1, <1>2, <1>3 DEF SafeInv

\* A request let in holds no job yet.
LEMMA BeginSafe ==
    ASSUME TypeOK, SafeInv, NEW h \in Handlers, NEW c \in Call, Begin(h, c)
    PROVE  SafeInv'
  <1>1. CASE tasks[c.task] = None /\ writeProblem(h, 400)
    BY <1>1, WriteProblemSafe DEF Begin
  <1>2. CASE tasks[c.task] # None /\ Goto(h, "body")
    <2>1. HandlerSound(h)'
      BY <1>2 DEF HandlerSound, Goto, TypeOK
    <2> QED
      BY <1>2, <2>1, QuietSafe DEF Begin, Goto, TypeOK, store
  <1> QED
    BY <1>1, <1>2 DEF Begin

\* The error answers that come before any store change.
LEMMA RejectRequestSafe ==
    ASSUME TypeOK, SafeInv, NEW h \in Handlers,
           ReadFails(h) \/ RejectRequest(h) \/
               \E status \in {200, 404, 405, 501} : ServeUnrouted(h, status)
    PROVE  SafeInv'
  <1>1. \E status \in {200, 400, 404, 405, 501} : writeProblem(h, status) /\ UNCHANGED store
    BY DEF ReadFails, RejectRequest, ServeUnrouted
  <1> QED
    BY <1>1, WriteProblemSafe

\* The job RejectAll builds is sound without a claim.
LEMMA RejectAllSafe ==
    ASSUME TypeOK, SafeInv, NEW h \in Handlers, RejectAll(h)
    PROVE  SafeInv'
  <1>1. /\ pc'[h] = "put" /\ call'[h] = call[h]
        /\ built'[h] = buildRejectAllJob(snap[h], call[h].body, Request(h).inits,
                                         "UnknownVerificationKeyID")
    BY DEF RejectAll, Goto, TypeOK
  <1>2. SoundJob(claims', call[h].task, call[h].job, built'[h])
    BY <1>1, RejectAllSound DEF RejectAll
  <1>3. HandlerSound(h)'
    BY <1>1, <1>2 DEF HandlerSound
  <1> QED
    BY <1>3, QuietSafe DEF RejectAll, Goto, TypeOK

\* An admitted request without duplicates may go on to claim.
LEMMA LookUpSafe ==
    ASSUME TypeOK, SafeInv, NEW h \in Handlers, LookUp(h)
    PROVE  SafeInv'
  <1>1. call[h].task \in Tasks /\ call[h].job \in JobIDs
    BY RequestReports DEF LookUp, Admitted, TypeOK
  <1>2. CASE SameRequest(h) /\ writeResp(h, call[h].task, call[h].job, StoredJob(h))
    <2>1. SoundJob(claims, call[h].task, call[h].job, StoredJob(h))
      BY <1>1, <1>2 DEF SafeInv, StoredSound, SameRequest, StoredJob
    <2>2. StoredSound'
      BY DEF LookUp, store, SafeInv, StoredSound
    <2> QED
      BY <1>2, <2>1, <2>2, WriteRespSafe DEF LookUp, store
  <1>3. CASE writeProblem(h, 409)
    BY <1>3, WriteProblemSafe DEF LookUp
  <1>4. CASE Goto(h, "claim") /\ UNCHANGED <<call, snap, built>>
    <2>1. ~hasDuplicateReportIDs(Request(h).inits)
      BY DEF LookUp, Admitted, ValidInit
    <2>2. HandlerSound(h)'
      BY <1>4, <2>1 DEF HandlerSound, Goto, TypeOK, Request, RouteVariant
    <2> QED
      BY <1>4, <2>2, QuietSafe DEF LookUp, Goto, TypeOK, store
  <1> QED
    BY <1>2, <1>3, <1>4 DEF LookUp

\* ClaimReportIDs keeps every earlier claim, and afterwards each of the request's
\* reports is claimed: by this job, unless it counts as replayed.
LEMMA ClaimsGrowInClaim ==
    ASSUME TypeOK, NEW t \in Tasks, NEW j \in JobIDs, NEW ids \in SUBSET Reports,
           ClaimReportIDs(t, j, ids)
    PROVE  /\ ClaimsGrow
           /\ \A r \in ids : r \notin Replayed(t, j, ids) => claims'[t][r] = j
  BY NoneAssumption DEF TypeOK, ClaimReportIDs, ClaimsGrow, Replayed

\* The heart of the argument: claiming and building make a sound job, and the
\* sound jobs of other handlers stay sound.
LEMMA ClaimAndBuildSafe ==
    ASSUME TypeOK, SafeInv, NEW h \in Handlers, ClaimAndBuild(h)
    PROVE  SafeInv'
  <1> DEFINE t     == call[h].task
             j     == call[h].job
             inits == Request(h).inits
             ids   == ReportIDs(inits)
  <1>1. /\ t \in Tasks /\ j \in JobIDs /\ Len(inits) \in Nat
        /\ \A i \in 1..Len(inits) : inits[i].report \in Reports
    BY RequestReports DEF ClaimAndBuild, TypeOK
  <1>2. ids \subseteq Reports /\ \A i \in 1..Len(inits) : inits[i].report \in ids
    BY <1>1 DEF ReportIDs
  <1>3. /\ ClaimsGrow
        /\ \A r \in ids : r \notin Replayed(t, j, ids) => claims'[t][r] = j
    BY <1>1, <1>2, ClaimsGrowInClaim DEF ClaimAndBuild
  <1>4. /\ pc'[h] = "put" /\ call'[h] = call[h]
        /\ built'[h] = buildInitJob(snap[h], snap[h].keys[KeyID(h)], RouteVariant(h),
                                    call[h].body, inits, Replayed(t, j, ids))
    BY DEF ClaimAndBuild, Goto, TypeOK
  <1>5. ~hasDuplicateReportIDs(inits)
    BY DEF ClaimAndBuild, SafeInv, ClaimReady
  <1>6. SoundJob(claims', t, j, built'[h])
    <2> HIDE DEF t, j, inits, ids
    <2>1. \A i \in 1..Len(inits) :
             inits[i].report \notin Replayed(t, j, ids) => claims'[t][inits[i].report] = j
      BY <1>2, <1>3
    <2> QED
      BY <1>4, <1>5, <2>1, BuildInitSound
  <1>7. HandlerSound(h)'
    BY <1>4, <1>6 DEF HandlerSound
  <1>8. \A k \in Handlers : HandlerSound(k)'
    <2> SUFFICES ASSUME NEW k \in Handlers, k # h
                 PROVE  HandlerSound(k)'
      BY <1>7
    <2>1. pc'[k] = pc[k] /\ call'[k] = call[k] /\ snap'[k] = snap[k] /\ built'[k] = built[k]
      BY DEF ClaimAndBuild, Goto, TypeOK
    <2> QED
      BY <1>3, <2>1, OthersSound DEF SafeInv
  <1>9. StoredSound'
    BY <1>3, StoredKept DEF SafeInv, ClaimAndBuild, StoredSound
  <1>10. CountedOnce'
    BY DEF ClaimAndBuild, Goto, CountedOnce
  <1> QED
    BY <1>8, <1>9, <1>10 DEF SafeInv, HandlerSound, BuiltSound, ClaimReady

\* A stored job is the sound one the handler held.
LEMMA PutJobSafe ==
    ASSUME TypeOK, SafeInv, NEW h \in Handlers, PutJob(h)
    PROVE  SafeInv'
  <1>1. /\ call[h].task \in Tasks /\ call[h].job \in JobIDs
        /\ SoundJob(claims, call[h].task, call[h].job, built[h])
    BY RequestReports DEF PutJob, TypeOK, SafeInv, BuiltSound
  <1>2. CASE /\ writeResp(h, call[h].task, call[h].job, built[h])
             /\ \/ jobs' = [jobs EXCEPT ![call[h].task][call[h].job] = built[h]]
                \/ UNCHANGED jobs
    <2>1. StoredSound'
      BY <1>1, <1>2 DEF PutJob, SafeInv, StoredSound, TypeOK
    <2> QED
      BY <1>1, <1>2, <2>1, WriteRespSafe DEF PutJob
  <1>3. CASE Goto(h, "recheck") /\ UNCHANGED <<jobs, call, snap, built>>
    <2>1. HandlerSound(h)'
      BY <1>1, <1>3 DEF HandlerSound, Goto, PutJob, TypeOK
    <2> QED
      BY <1>3, <2>1, QuietSafe DEF PutJob, Goto, TypeOK
  <1> QED
    BY <1>2, <1>3 DEF PutJob

\* The second look-up answers with a sound stored job.
LEMMA RecheckSafe ==
    ASSUME TypeOK, SafeInv, NEW h \in Handlers, Recheck(h)
    PROVE  SafeInv'
  <1>1. call[h].task \in Tasks /\ call[h].job \in JobIDs
    BY RequestReports DEF Recheck, TypeOK
  <1>2. CASE SameRequest(h) /\ writeResp(h, call[h].task, call[h].job, StoredJob(h))
    <2>1. SoundJob(claims, call[h].task, call[h].job, StoredJob(h))
      BY <1>1, <1>2 DEF SafeInv, StoredSound, SameRequest, StoredJob
    <2>2. StoredSound'
      BY DEF Recheck, store, SafeInv, StoredSound
    <2> QED
      BY <1>2, <2>1, <2>2, WriteRespSafe DEF Recheck, store
  <1>3. CASE writeProblem(h, 409)
    BY <1>3, WriteProblemSafe DEF Recheck
  <1> QED
    BY <1>2, <1>3 DEF Recheck

\* GET answers with a sound stored job.
LEMMA HandleGetSafe ==
    ASSUME TypeOK, SafeInv, NEW h \in Handlers, NEW t \in Tasks, NEW j \in JobIDs,
           handleGet(h, t, j)
    PROVE  SafeInv'
  <1>1. CASE jobs[t][j] # None /\ writeResp(h, t, j, jobs[t][j])
    <2>1. SoundJob(claims, t, j, jobs[t][j])
      BY <1>1 DEF SafeInv, StoredSound
    <2>2. StoredSound'
      BY DEF handleGet, store, SafeInv, StoredSound
    <2> QED
      BY <1>1, <2>1, <2>2, WriteRespSafe DEF handleGet, store
  <1>2. CASE writeProblem(h, 404)
    BY <1>2, WriteProblemSafe DEF handleGet
  <1> QED
    BY <1>1, <1>2 DEF handleGet

\* DELETE removes a job and no claim.
LEMMA DeleteJobSafe ==
    ASSUME TypeOK, SafeInv, NEW h \in Handlers, NEW t \in Tasks, NEW j \in JobIDs,
           DeleteJob(h, t, j)
    PROVE  SafeInv'
  <1>1. StoredSound'
    BY DEF DeleteJob, SafeInv, StoredSound, TypeOK
  <1>2. CountedOnce'
    BY DEF DeleteJob, Respond, CountedOnce
  <1> QED
    BY <1>1, <1>2, RespondSafe DEF DeleteJob

\* Two terms of a sum for the same report come from the job that claimed it, and
\* there from the same place.
LEMMA TermsDistinct ==
    ASSUME SafeInv, NEW t \in Tasks, NEW x \in CommittedShares(t), NEW y \in CommittedShares(t),
           x.report = y.report
    PROVE  x = y
  <1> DEFINE Term(z) ==
        /\ z.job \in JobIDs /\ jobs[t][z.job] # None /\ z.ord \in DOMAIN jobs[t][z.job].results
        /\ jobs[t][z.job].results[z.ord].outcome = Finished
        /\ z = [job |-> z.job, ord |-> z.ord,
                report |-> jobs[t][z.job].results[z.ord].report]
  <1>1. Term(x) /\ Term(y)
    BY DEF CommittedShares
  <1>2. claims[t][x.report] = x.job /\ claims[t][y.report] = y.job
    BY <1>1 DEF SafeInv, StoredSound, SoundJob, Owned
  <1>3. Distinct(jobs[t][x.job])
    BY <1>1 DEF SafeInv, StoredSound, SoundJob
  <1>4. x.job = y.job /\ x.ord = y.ord
    BY <1>1, <1>2, <1>3 DEF Distinct
  <1> QED
    BY <1>1, <1>4

\* A sum over sound jobs has one term per report.
LEMMA SumSharesSafe ==
    ASSUME TypeOK, SafeInv, NEW h \in Handlers, SumShares(h)
    PROVE  SafeInv'
  <1> DEFINE terms == CommittedShares(call[h].task)
             share == [task |-> call[h].task, terms |-> terms, collector |-> snap[h].collector]
  <1>1. CASE writeProblem(h, 400) \/ writeProblem(h, 500)
    BY <1>1, WriteProblemSafe DEF SumShares
  <1>2. CASE Respond(h, [status |-> 200, share |-> share]) /\ UNCHANGED answered
    <2>1. call[h].task \in Tasks
      BY DEF SumShares, TypeOK, Call
    <2>2. \A x, y \in terms : x.report = y.report => x = y
      BY <2>1, TermsDistinct
    <2>3. CountedOnce'
      <3>1. reply'.status = 200 /\ reply'.share.terms = terms
        BY <1>2 DEF Respond
      <3> QED
        BY <2>2, <3>1 DEF CountedOnce
    <2>4. StoredSound'
      BY <1>2 DEF SumShares, store, SafeInv, StoredSound
    <2> QED
      BY <1>2, <2>3, <2>4, RespondSafe DEF SumShares, store
  <1> QED
    BY <1>1, <1>2 DEF SumShares

\* Every step keeps the invariant: one case per operation.
LEMMA SafeNext == TypeOK /\ SafeInv /\ [Next]_vars => SafeInv'
  <1> SUFFICES ASSUME TypeOK, SafeInv, [Next]_vars
               PROVE  SafeInv'
    OBVIOUS
  <1>1. CASE UNCHANGED vars
    BY <1>1 DEF vars, SafeInv, StoredSound, BuiltSound, ClaimReady, Request,
                RouteVariant, CountedOnce
  <1>2. CASE Next
    BY <1>2, NextCases, AddTaskSafe, BeginSafe, HandleGetSafe, DeleteJobSafe,
       RejectRequestSafe, RejectAllSafe, LookUpSafe, ClaimAndBuildSafe, PutJobSafe,
       RecheckSafe, SumSharesSafe
  <1> QED
    BY <1>1, <1>2

\* Claims are never changed or released, by any operation.
LEMMA ClaimsOnlyGrow == ASSUME TypeOK, [Next]_vars
                        PROVE  ClaimsGrow
  BY ClaimsFrom DEF ClaimsGrow

\* Every answer a step adds to the history carries a sound job.
LEMMA NewAnswersSound ==
    ASSUME TypeOK, SafeInv, [Next]_vars, NEW a \in answered' \ answered
    PROVE  SoundJob(claims', a[1], a[2], a[3])
  <1>1. a[1] \in Tasks /\ a[2] \in JobIDs
    BY AnsweredFrom
  <1>2. CASE a[3] # None /\ jobs[a[1]][a[2]] = a[3]
    BY <1>1, <1>2, ClaimsOnlyGrow, StoredKept DEF SafeInv
  <1>3. ASSUME NEW h \in Handlers, PutJob(h), built[h] = a[3],
               call[h].task = a[1], call[h].job = a[2]
        PROVE  SoundJob(claims', a[1], a[2], a[3])
    <2>1. a[3] \in Job /\ SoundJob(claims, a[1], a[2], a[3])
      BY <1>3 DEF PutJob, TypeOK, SafeInv, BuiltSound
    <2> QED
      BY <1>1, <2>1, ClaimsOnlyGrow, SoundJobKept
  <1> QED
    BY <1>2, <1>3, AnsweredFrom

\* The history stays sound within one run of the process.
LEMMA AnsweredNext == TypeOK /\ SafeInv /\ AnsweredSound /\ [Next]_vars => AnsweredSound'
  <1> SUFFICES ASSUME TypeOK, SafeInv, AnsweredSound, [Next]_vars, NEW a \in answered'
               PROVE  SoundJob(claims', a[1], a[2], a[3])
    BY DEF AnsweredSound
  <1> QED
    BY NewAnswersSound, AnsweredKept, ClaimsOnlyGrow

\* The invariant holds throughout.
LEMMA SafeInvariant == Spec => [](TypeOK /\ SafeInv /\ AnsweredSound)
  <1>1. Init => AnsweredSound
    BY DEF Init, AnsweredSound
  <1> QED
    BY <1>1, TypeInit, TypeNext, SafeInit, SafeNext, AnsweredNext, PTL DEF Spec

-----------------------------------------------------------------------------
(* The results.                                                             *)

\* Two answers that finish a report are both backed by its one claim.
LEMMA SafeGivesOneJob == AnsweredSound => OneJobPerReport
  <1> SUFFICES ASSUME AnsweredSound, NEW a \in answered, NEW b \in answered, a[1] = b[1],
                      NEW r \in FinishedReports(a[3]), r \in FinishedReports(b[3])
               PROVE  a[2] = b[2]
    BY DEF OneJobPerReport
  <1>1. claims[a[1]][r] = a[2] /\ claims[b[1]][r] = b[2]
    BY DEF AnsweredSound, SoundJob, Owned, FinishedReports
  <1> QED
    BY <1>1

\* A report is finished under one job ID of its task only, in all the answers
\* the Helper ever gives.
THEOREM AntiReplay == Spec => []OneJobPerReport
  BY SafeInvariant, SafeGivesOneJob, PTL

\* No aggregate share sums two output shares of one report.
THEOREM SharesCountOnce == Spec => []CountedOnce
  <1>1. SafeInv => CountedOnce
    BY DEF SafeInv
  <1> QED
    BY <1>1, SafeInvariant, PTL

\* No job response ever fails to encode: each error a handler records has a code
\* point in the dialect of the response.
THEOREM ResponsesEncode == Spec => []NoEncodeFailure
  <1>1. SafeInv => NoEncodeFailure
    BY DEF SafeInv, StoredSound, BuiltSound, SoundJob, NoEncodeFailure
  <1> QED
    BY <1>1, SafeInvariant, PTL

-----------------------------------------------------------------------------
(* What a step adds to the history.                                         *)

\* A step adds at most one answer to the history.
LEMMA OneAnswer ==
    ASSUME TypeOK, [Next]_vars
    PROVE  \/ answered' = answered
           \/ \E t \in Tasks, j \in JobIDs : \E job \in Job :
                 answered' = answered \union {<<t, j, job>>}
  <1>1. ASSUME NEW h \in Handlers, NEW t \in Tasks, NEW j \in JobIDs, NEW job \in Job,
               writeResp(h, t, j, job)
        PROVE  \/ answered' = answered
               \/ answered' = answered \union {<<t, j, job>>}
    BY <1>1 DEF writeResp, writeProblem
  <1>2. CASE UNCHANGED vars
    BY <1>2 DEF vars
  <1>3. CASE \E c \in Configs : AddTask(c)
    BY <1>3 DEF AddTask
  <1>4. ASSUME NEW h \in Handlers,
               \/ \E c \in Call : Begin(h, c)
               \/ \E t \in Tasks, j \in JobIDs : DeleteJob(h, t, j)
               \/ \E status \in {200, 404, 405, 501} : ServeUnrouted(h, status)
               \/ ReadFails(h) \/ RejectRequest(h) \/ RejectAll(h)
               \/ ClaimAndBuild(h) \/ SumShares(h)
        PROVE  answered' = answered
    BY <1>4 DEF Begin, DeleteJob, ServeUnrouted, ReadFails, RejectRequest, RejectAll,
                ClaimAndBuild, SumShares, writeProblem, Goto
  <1>5. ASSUME NEW h \in Handlers, NEW t \in Tasks, NEW j \in JobIDs, handleGet(h, t, j)
        PROVE  \/ answered' = answered
               \/ answered' = answered \union {<<t, j, jobs[t][j]>>} /\ jobs[t][j] \in Job
    BY <1>1, <1>5 DEF handleGet, writeProblem, TypeOK
  <1>6. ASSUME NEW h \in Handlers, LookUp(h) \/ PutJob(h) \/ Recheck(h)
        PROVE  \/ answered' = answered
               \/ \E t \in Tasks, j \in JobIDs : \E job \in Job :
                     answered' = answered \union {<<t, j, job>>}
    <2>1. call[h].task \in Tasks /\ call[h].job \in JobIDs
      BY <1>6, RequestReports DEF LookUp, Admitted, PutJob, Recheck, TypeOK
    <2>2. SameRequest(h) => StoredJob(h) \in Job
      BY <2>1 DEF SameRequest, StoredJob, TypeOK
    <2>3. pc[h] \in {"put", "recheck"} => built[h] \in Job
      BY DEF TypeOK
    <2>4. \/ answered' = answered
          \/ \E job \in Job : writeResp(h, call[h].task, call[h].job, job)
      BY <1>6, <2>2, <2>3 DEF LookUp, PutJob, Recheck, writeProblem, Goto
    <2> QED
      BY <1>1, <2>1, <2>4
  <1> QED
    BY <1>2, <1>3, <1>4, <1>5, <1>6, NextCases

-----------------------------------------------------------------------------
(***************************************************************************)
(* What becomes of a request to create a job, in two parts.                *)
(*                                                                         *)
(* Job creation is idempotent, proved for every choice of Helper's         *)
(* constants in which no task is registered twice and no Leader sends one  *)
(* body on both routes under one job ID.  Without the first hypothesis the *)
(* result is false: run retry_after_rotation shows it.  RetriesAgree       *)
(* compares answers that may lie far apart: jobs are built by handlers     *)
(* that overtake each other, lost when another one is stored, and          *)
(* deleted.  The invariant RetryInv says what they all have in common: a   *)
(* job is a function of the task record, the request and the claims on its *)
(* reports, and none of the three changes any more once the job is built.  *)
(*                                                                         *)
(* No claim is left without a verdict, proved for every choice of the      *)
(* constants in which tasks are served on POST only and the job IDs that   *)
(* route derives do not collide.  Without either the result is false: a    *)
(* handler that claimed its reports may find its job ID taken, answer 409  *)
(* and leave the claims behind (run claim_leak).  Under the two hypotheses *)
(* a job ID belongs to one body, so whatever is stored under a handler's   *)
(* job ID has the content the handler built, and the conflict after a      *)
(* claim cannot happen.                                                    *)
(***************************************************************************)

\* No operator registers a task a second time.
TasksFixed == Replaceable = {}

\* A body that decodes in both message shapes is not sent to the PUT route under
\* the ID the POST route derives from it.
RoutesApart ==
    \A b \in Bodies :
        Decode[b]["published"].ok /\ Decode[b]["janus"].ok => DigestID[b] \notin LeaderJobIDs

\* What route op of a task with record c makes of a body, as job j, when cl are
\* the claims on the reports of the task.
Dialect(c, op) == IF op = "create" THEN c.variant ELSE "Janus"

Decoded(c, op, body) == Decode[body][Shape(Dialect(c, op))]

VkID(c, op, body) == IF op = "create" THEN Decoded(c, op, body).vkid ELSE 0

LostTo(cl, j, inits) == {r \in ReportIDs(inits) : cl[r] # j}

Made(c, cl, j, job, op) ==
    LET req  == Decoded(c, op, job.hash)
        vkid == VkID(c, op, job.hash)
    IN  /\ op = "create" => j = DigestID[job.hash]
        /\ op = "janus" => j \in LeaderJobIDs
        /\ req.ok
        /\ \/ /\ vkid \in DOMAIN c.keys
              /\ \A r \in ReportIDs(req.inits) : cl[r] # None
              /\ job = buildInitJob(c, c.keys[vkid], Dialect(c, op), job.hash, req.inits,
                                    LostTo(cl, j, req.inits))
           \/ /\ op = "create" /\ vkid \notin DOMAIN c.keys
              /\ job = buildRejectAllJob(c, job.hash, req.inits, "UnknownVerificationKeyID")

FromRequest(c, cl, j, job) == \E op \in {"create", "janus"} : Made(c, cl, j, job, op)

\* A job of task t stems from a request to the record that is registered.
Faithful(t, j, job) == tasks[t] # None /\ FromRequest(tasks[t], claims[t], j, job)

WellRouted(c) ==
    /\ c.op = "create" => c.job = DigestID[c.body]
    /\ c.op = "janus" => c.job \in LeaderJobIDs

HandlerFaithful(h) ==
    /\ pc[h] # "idle" => snap[h] = tasks[call[h].task] /\ WellRouted(call[h])
    /\ pc[h] = "claim" => Admitted(h)
    /\ pc[h] \in {"put", "recheck"} =>
          /\ built[h].hash = call[h].body
          /\ Faithful(call[h].task, call[h].job, built[h])

RetryInv ==
    /\ \A h \in Handlers : HandlerFaithful(h)
    /\ \A t \in Tasks, j \in JobIDs : jobs[t][j] # None => Faithful(t, j, jobs[t][j])
    /\ \A a \in answered : Faithful(a[1], a[2], a[3])

-----------------------------------------------------------------------------
(* A job is determined by the record, the claims, its ID and its body.      *)

\* One body makes one job on one route.
LEMMA SameRouteSameJob ==
    ASSUME NEW c, NEW cl, NEW j, NEW op, NEW x, NEW y, x.hash = y.hash,
           Made(c, cl, j, x, op), Made(c, cl, j, y, op)
    PROVE  x = y
  BY DEF Made

\* On the two routes of one task the shapes differ, or the dialect is Janus on
\* both and names the same key.
LEMMA BothRoutesSameJob ==
    ASSUME RoutesApart, NEW c, NEW cl, NEW j, NEW x, NEW y, x.hash = y.hash,
           x.hash \in Bodies, Made(c, cl, j, x, "create"), Made(c, cl, j, y, "janus")
    PROVE  x = y
  <1> DEFINE b == x.hash
  <1>1. /\ j = DigestID[b] /\ j \in LeaderJobIDs
        /\ Decoded(c, "create", b).ok /\ Decoded(c, "janus", b).ok
    BY DEF Made
  <1>2. c.variant = "Janus"
    BY <1>1 DEF RoutesApart, Decoded, Dialect, Shape
  <1>3. /\ Dialect(c, "create") = "Janus" /\ Dialect(c, "janus") = "Janus"
        /\ Decoded(c, "create", b) = Decoded(c, "janus", b)
    BY <1>2 DEF Dialect, Decoded
  <1>4. VkID(c, "create", b) = 0 /\ VkID(c, "janus", b) = 0
    BY <1>2, JanusAssumption DEF VkID, Decoded, Dialect, Shape
  <1> QED
    BY <1>3, <1>4 DEF Made

\* Whichever routes brought a body in, one job comes of it.
LEMMA OneJobPerBody ==
    ASSUME RoutesApart, NEW c, NEW cl, NEW j, NEW x, NEW y, x.hash = y.hash,
           x.hash \in Bodies, FromRequest(c, cl, j, x), FromRequest(c, cl, j, y)
    PROVE  x = y
  BY SameRouteSameJob, BothRoutesSameJob DEF FromRequest

\* The reports of a decoded request are report IDs.
LEMMA DecodedReports ==
    ASSUME NEW c, NEW op, NEW body \in Bodies
    PROVE  ReportIDs(Decoded(c, op, body).inits) \subseteq Reports
  <1>1. Shape(Dialect(c, op)) \in {"published", "janus"}
    BY DEF Shape
  <1> QED
    BY <1>1, BodyAssumption DEF Decoded, ReportIDs

\* Once every report of a job is claimed, new claims do not change what it lost.
LEMMA FromRequestKept ==
    ASSUME ClaimsGrow, NEW c, NEW t \in Tasks, NEW j, NEW job, job.hash \in Bodies,
           FromRequest(c, claims[t], j, job)
    PROVE  FromRequest(c, claims'[t], j, job)
  <1>1. PICK op \in {"create", "janus"} : Made(c, claims[t], j, job, op)
    BY DEF FromRequest
  <1> DEFINE inits == Decoded(c, op, job.hash).inits
  <1>2. ReportIDs(inits) \subseteq Reports
    BY DecodedReports
  <1>3. ASSUME \A r \in ReportIDs(inits) : claims[t][r] # None
        PROVE  /\ \A r \in ReportIDs(inits) : claims'[t][r] # None
               /\ LostTo(claims[t], j, inits) = LostTo(claims'[t], j, inits)
    BY <1>2, <1>3 DEF ClaimsGrow, LostTo
  <1>4. Made(c, claims'[t], j, job, op)
    BY <1>1, <1>3 DEF Made
  <1> QED
    BY <1>4 DEF FromRequest

-----------------------------------------------------------------------------
(* Records stay, claims stay, and so do jobs made from them.                *)

TasksKept == \A t \in Tasks : tasks[t] # None => tasks'[t] = tasks[t]

\* A job that is what its request makes of it stays so: task records are fixed and
\* claims only grow.
LEMMA FaithfulKept ==
    ASSUME TasksKept, ClaimsGrow, NEW t \in Tasks, NEW j, NEW job \in Job, Faithful(t, j, job)
    PROVE  Faithful(t, j, job)'
  <1>1. tasks'[t] = tasks[t] /\ job.hash \in Bodies
    BY DEF TasksKept, Faithful, Job
  <1> QED
    BY <1>1, FromRequestKept DEF Faithful

\* A handler another one's step leaves alone stays faithful.
LEMMA OthersFaithful ==
    ASSUME TypeOK, TasksKept, ClaimsGrow, NEW k \in Handlers, HandlerFaithful(k),
           pc'[k] = pc[k], call'[k] = call[k], snap'[k] = snap[k], built'[k] = built[k]
    PROVE  HandlerFaithful(k)'
  <1>1. CASE pc[k] = "idle"
    BY <1>1 DEF HandlerFaithful
  <1>2. CASE pc[k] # "idle"
    <2>1. call[k] \in Call /\ snap[k] \in Configs /\ call[k].task \in Tasks
      BY <1>2 DEF TypeOK, Call
    <2>2. tasks'[call[k].task] = tasks[call[k].task]
      BY <1>2, <2>1, NoneAssumption DEF HandlerFaithful, TasksKept
    <2>3. snap'[k] = tasks'[call'[k].task] /\ WellRouted(call'[k])
      BY <1>2, <2>2 DEF HandlerFaithful
    <2>4. pc[k] = "claim" => Admitted(k)'
      BY DEF HandlerFaithful, Admitted, Request, RouteVariant, KeyKnown, KeyID, ValidInit
    <2>5. pc[k] \in {"put", "recheck"} => Faithful(call[k].task, call[k].job, built[k])'
      <3> SUFFICES ASSUME pc[k] \in {"put", "recheck"}
                   PROVE  Faithful(call[k].task, call[k].job, built[k])'
        OBVIOUS
      <3> DEFINE t == call[k].task
                 j == call[k].job
                 b == built[k]
      <3>1. b \in Job /\ Faithful(t, j, b)
        BY DEF TypeOK, HandlerFaithful
      <3>2. FromRequest(tasks'[t], claims'[t], j, b) /\ tasks'[t] # None
        BY <2>1, <3>1, FaithfulKept DEF Faithful
      <3> QED
        BY <3>2 DEF Faithful
    <2> QED
      BY <2>3, <2>4, <2>5 DEF HandlerFaithful
  <1> QED
    BY <1>1, <1>2

\* The stored jobs of a step: each was there before, or is faithful.
JobsFaithful ==
    \A t \in Tasks, j \in JobIDs :
        \/ jobs'[t][j] = None
        \/ jobs'[t][j] = jobs[t][j]
        \/ Faithful(t, j, jobs[t][j])'

\* A step that keeps records and claims, adds only faithful jobs to store and
\* history, and changes no handler but into a faithful one keeps the invariant.
LEMMA StepFaithful ==
    ASSUME TypeOK, RetryInv, TasksKept, ClaimsGrow, JobsFaithful,
           \A a \in answered' : a \in answered \/ Faithful(a[1], a[2], a[3])',
           \A k \in Handlers :
               \/ HandlerFaithful(k)'
               \/ /\ pc'[k] = pc[k] /\ call'[k] = call[k]
                  /\ snap'[k] = snap[k] /\ built'[k] = built[k]
    PROVE  RetryInv'
  <1>1. \A k \in Handlers : HandlerFaithful(k)'
    BY OthersFaithful DEF RetryInv
  <1>2. ASSUME NEW t \in Tasks, NEW j \in JobIDs, jobs'[t][j] # None
        PROVE  Faithful(t, j, jobs[t][j])'
    <2>1. CASE jobs'[t][j] = jobs[t][j]
      <3>1. jobs[t][j] \in Job /\ Faithful(t, j, jobs[t][j])
        BY <1>2, <2>1 DEF TypeOK, RetryInv
      <3>2. tasks'[t] # None /\ FromRequest(tasks'[t], claims'[t], j, jobs[t][j])
        BY <3>1, FaithfulKept DEF Faithful
      <3> QED
        BY <2>1, <3>2 DEF Faithful
    <2> QED
      BY <1>2, <2>1 DEF JobsFaithful
  <1>3. ASSUME NEW a \in answered'
        PROVE  Faithful(a[1], a[2], a[3])'
    <2>1. CASE a \in answered
      <3>1. a[1] \in Tasks /\ a[3] \in Job /\ Faithful(a[1], a[2], a[3])
        BY <2>1 DEF TypeOK, RetryInv
      <3> QED
        BY <3>1, FaithfulKept
    <2> QED
      BY <2>1
  <1> QED
    BY <1>1, <1>2, <1>3 DEF RetryInv

\* Answering leaves records and claims alone and the handler idle.
LEMMA RespondFaithful ==
    ASSUME TypeOK, RetryInv, NEW h \in Handlers, NEW r, Respond(h, r),
           UNCHANGED <<tasks, claims>>, JobsFaithful,
           \A a \in answered' : a \in answered \/ Faithful(a[1], a[2], a[3])'
    PROVE  RetryInv'
  <1>1. TasksKept /\ ClaimsGrow
    BY DEF TasksKept, ClaimsGrow
  <1>2. HandlerFaithful(h)'
    BY DEF Respond, TypeOK, HandlerFaithful
  <1>3. \A k \in Handlers : k # h =>
           pc'[k] = pc[k] /\ call'[k] = call[k] /\ snap'[k] = snap[k] /\ built'[k] = built[k]
    BY DEF Respond, TypeOK
  <1> QED
    BY <1>1, <1>2, <1>3, StepFaithful

\* An error response leaves every job alone.
LEMMA WriteProblemFaithful ==
    ASSUME TypeOK, RetryInv, NEW h \in Handlers, NEW status,
           writeProblem(h, status), UNCHANGED <<tasks, claims>>, JobsFaithful
    PROVE  RetryInv'
  BY RespondFaithful DEF writeProblem

\* The answer is a faithful job.
LEMMA WriteRespFaithful ==
    ASSUME TypeOK, RetryInv, NEW h \in Handlers, NEW t, NEW j, NEW job, Faithful(t, j, job),
           writeResp(h, t, j, job), UNCHANGED <<tasks, claims>>, JobsFaithful
    PROVE  RetryInv'
  <1>1. CASE writeProblem(h, 500)
    BY <1>1, WriteProblemFaithful
  <1>2. CASE /\ Respond(h, [status |-> 200, share |-> None])
             /\ answered' = answered \union {<<t, j, job>>}
    <2>1. \A a \in answered' : a \in answered \/ (a[1] = t /\ a[2] = j /\ a[3] = job)
      BY <1>2
    <2>2. \A a \in answered' : a \in answered \/ Faithful(a[1], a[2], a[3])'
      BY <2>1 DEF Faithful
    <2> QED
      BY <1>2, <2>2, RespondFaithful
  <1> QED
    BY <1>1, <1>2 DEF writeResp

\* A step in which handler h moves on without an answer.
LEMMA GotoFaithful ==
    ASSUME TypeOK, RetryInv, NEW h \in Handlers, NEW label, Goto(h, label),
           HandlerFaithful(h)', UNCHANGED <<tasks, jobs>>, ClaimsGrow,
           \A k \in Handlers \ {h} :
               call'[k] = call[k] /\ snap'[k] = snap[k] /\ built'[k] = built[k]
    PROVE  RetryInv'
  <1>1. TasksKept /\ JobsFaithful /\ answered' = answered
    BY DEF TasksKept, JobsFaithful, Goto
  <1>2. \A k \in Handlers : k # h => pc'[k] = pc[k]
    BY DEF Goto, TypeOK
  <1> QED
    BY <1>1, <1>2, StepFaithful

-----------------------------------------------------------------------------
(* One lemma per operation.                                                 *)

\* There are no jobs at the start.
LEMMA RetryInit == Init => RetryInv
  BY DEF Init, RetryInv, HandlerFaithful

\* Registering a task that is not there yet touches no job.
LEMMA AddTaskFaithful ==
    ASSUME TasksFixed, TypeOK, RetryInv, NEW c \in Configs, AddTask(c)
    PROVE  RetryInv'
  <1>1. TasksKept
    BY ConfigAssumption DEF AddTask, TasksFixed, TasksKept, TypeOK
  <1>2. ClaimsGrow /\ JobsFaithful /\ answered' = answered
    BY DEF AddTask, ClaimsGrow, JobsFaithful
  <1> QED
    BY <1>1, <1>2, StepFaithful DEF AddTask

\* The handler reads the record of its task as it is registered.
LEMMA BeginFaithful ==
    ASSUME TypeOK, RetryInv, NEW h \in Handlers, NEW c \in Call, WellRouted(c), Begin(h, c)
    PROVE  RetryInv'
  <1>1. CASE writeProblem(h, 400)
    <2>1. JobsFaithful
      BY DEF Begin, store, JobsFaithful
    <2> QED
      BY <1>1, <2>1, WriteProblemFaithful DEF Begin, store
  <1>2. CASE /\ Goto(h, "body") /\ UNCHANGED built
             /\ call' = [call EXCEPT ![h] = c]
             /\ snap' = [snap EXCEPT ![h] = tasks[c.task]]
    <2>1. pc'[h] = "body" /\ call'[h] = c /\ snap'[h] = tasks[c.task] /\ tasks' = tasks
      BY <1>2 DEF Begin, Goto, store, TypeOK
    <2>2. HandlerFaithful(h)'
      BY <2>1 DEF HandlerFaithful
    <2>3. ClaimsGrow /\ UNCHANGED <<tasks, jobs>>
      BY DEF Begin, store, ClaimsGrow
    <2> QED
      BY <1>2, <2>2, <2>3, GotoFaithful DEF TypeOK
  <1> QED
    BY <1>1, <1>2 DEF Begin

\* The operations that only answer with an error or a sum.
LEMMA NoJobFaithful ==
    ASSUME TypeOK, RetryInv, NEW h \in Handlers,
           \/ ReadFails(h) \/ RejectRequest(h) \/ SumShares(h)
           \/ \E status \in {200, 404, 405, 501} : ServeUnrouted(h, status)
    PROVE  RetryInv'
  <1>1. UNCHANGED <<tasks, claims>> /\ JobsFaithful
    BY DEF ReadFails, RejectRequest, SumShares, ServeUnrouted, store, JobsFaithful
  <1>2. \E r : Respond(h, r) /\ UNCHANGED answered
    BY DEF ReadFails, RejectRequest, SumShares, ServeUnrouted, writeProblem
  <1> QED
    BY <1>1, <1>2, RespondFaithful

\* What a handler knows about its request, in the terms of Made.
LEMMA HandlerRequest ==
    ASSUME NEW h, call[h].op \in {"create", "janus"}
    PROVE  /\ RouteVariant(h) = Dialect(snap[h], call[h].op)
           /\ Request(h) = Decoded(snap[h], call[h].op, call[h].body)
           /\ KeyID(h) = VkID(snap[h], call[h].op, call[h].body)
  BY DEF RouteVariant, Request, KeyID, Dialect, Decoded, VkID

\* The job that rejects every report depends on record and body alone.
LEMMA RejectAllFaithful ==
    ASSUME TypeOK, RetryInv, NEW h \in Handlers, RejectAll(h)
    PROVE  RetryInv'
  <1> DEFINE t   == call[h].task
             c   == snap[h]
             b   == call[h].body
             job == buildRejectAllJob(c, b, Request(h).inits, "UnknownVerificationKeyID")
  <1>1. /\ pc'[h] = "put" /\ call'[h] = call[h] /\ snap'[h] = c /\ built'[h] = job
        /\ UNCHANGED <<tasks, jobs, claims>>
    BY DEF RejectAll, Goto, TypeOK
  <1>2. /\ c \in Configs /\ c # None /\ c = tasks[t] /\ WellRouted(call[h])
        /\ call[h].op = "create"
    BY NoneAssumption DEF RejectAll, TypeOK, RetryInv, HandlerFaithful
  <1>3. job.hash = b
    BY DEF buildRejectAllJob
  <1>4. Made(c, claims[t], call[h].job, job, "create")
    <2>1. /\ Request(h) = Decoded(c, "create", job.hash)
          /\ KeyID(h) = VkID(c, "create", job.hash)
      BY <1>2, <1>3, HandlerRequest
    <2>2. Request(h).ok /\ KeyID(h) \notin DOMAIN c.keys
      BY DEF RejectAll, KeyKnown
    <2>3. call[h].job = DigestID[job.hash]
      BY <1>2, <1>3 DEF WellRouted
    <2> HIDE DEF job
    <2>4. job = buildRejectAllJob(c, job.hash, Request(h).inits, "UnknownVerificationKeyID")
      BY <1>3 DEF job
    <2> QED
      BY <2>1, <2>2, <2>3, <2>4 DEF Made
  <1> HIDE DEF job
  <1>5. Faithful(t, call[h].job, job)
    BY <1>2, <1>4 DEF Faithful, FromRequest
  <1>6. HandlerFaithful(h)'
    BY <1>1, <1>2, <1>3, <1>5 DEF HandlerFaithful, Faithful
  <1>7. ClaimsGrow
    BY <1>1 DEF ClaimsGrow
  <1> QED
    BY <1>1, <1>6, <1>7, GotoFaithful DEF RejectAll, TypeOK

\* A request admitted to claim stays so until it claims.
LEMMA LookUpFaithful ==
    ASSUME TypeOK, RetryInv, NEW h \in Handlers, LookUp(h)
    PROVE  RetryInv'
  <1>1. /\ call[h].task \in Tasks /\ call[h].job \in JobIDs
        /\ UNCHANGED <<tasks, claims, jobs>> /\ JobsFaithful
    BY RequestReports DEF LookUp, Admitted, TypeOK, store, JobsFaithful
  <1>2. CASE SameRequest(h) /\ writeResp(h, call[h].task, call[h].job, StoredJob(h))
    <2>1. Faithful(call[h].task, call[h].job, StoredJob(h))
      BY <1>1, <1>2 DEF RetryInv, SameRequest, StoredJob
    <2> QED
      BY <1>1, <1>2, <2>1, WriteRespFaithful
  <1>3. CASE writeProblem(h, 409)
    BY <1>1, <1>3, WriteProblemFaithful
  <1>4. CASE Goto(h, "claim") /\ UNCHANGED <<call, snap, built>>
    <2>1. pc'[h] = "claim" /\ call' = call /\ snap' = snap
      BY <1>4 DEF Goto, TypeOK
    <2>2. Admitted(h)'
      BY <1>1, <2>1 DEF LookUp, Admitted, Request, RouteVariant, KeyKnown, KeyID, ValidInit
    <2>3. snap[h] = tasks[call[h].task] /\ WellRouted(call[h])
      BY DEF LookUp, RetryInv, HandlerFaithful
    <2>4. HandlerFaithful(h)'
      BY <1>1, <2>1, <2>2, <2>3 DEF HandlerFaithful
    <2>5. ClaimsGrow
      BY <1>1 DEF ClaimsGrow
    <2> QED
      BY <1>1, <1>4, <2>4, <2>5, GotoFaithful
  <1> QED
    BY <1>2, <1>3, <1>4 DEF LookUp

\* After the claim each report of the request is claimed, and the ones that count
\* as replayed are those another job holds.
LEMMA LostAfterClaim ==
    ASSUME TypeOK, NEW t \in Tasks, NEW j \in JobIDs, NEW inits,
           ReportIDs(inits) \subseteq Reports, ClaimReportIDs(t, j, ReportIDs(inits))
    PROVE  /\ \A r \in ReportIDs(inits) : claims'[t][r] # None
           /\ Replayed(t, j, ReportIDs(inits)) = LostTo(claims'[t], j, inits)
  <1> DEFINE ids == ReportIDs(inits)
  <1>1. \A r \in Reports :
           claims'[t][r] = IF r \in ids /\ claims[t][r] = None THEN j ELSE claims[t][r]
    BY DEF ClaimReportIDs, TypeOK
  <1> QED
    BY <1>1, NoneAssumption DEF Replayed, LostTo

\* The job a handler builds is made from its record, its body and the claims as
\* they stand after its own.
LEMMA ClaimAndBuildFaithful ==
    ASSUME TypeOK, RetryInv, NEW h \in Handlers, ClaimAndBuild(h)
    PROVE  RetryInv'
  <1> DEFINE t     == call[h].task
             j     == call[h].job
             c     == snap[h]
             b     == call[h].body
             op    == call[h].op
             inits == Request(h).inits
             lost  == Replayed(t, j, ReportIDs(inits))
             job   == buildInitJob(c, c.keys[KeyID(h)], RouteVariant(h), b, inits, lost)
  <1>1. /\ pc'[h] = "put" /\ call'[h] = call[h] /\ snap'[h] = c /\ built'[h] = job
        /\ UNCHANGED <<tasks, jobs>> /\ ClaimReportIDs(t, j, ReportIDs(inits))
    BY DEF ClaimAndBuild, Goto, TypeOK
  <1>2. /\ c \in Configs /\ c # None /\ c = tasks[t] /\ WellRouted(call[h]) /\ Admitted(h)
        /\ op \in {"create", "janus"} /\ call[h] \in Call
    BY NoneAssumption DEF ClaimAndBuild, TypeOK, RetryInv, HandlerFaithful
  <1>3. /\ t \in Tasks /\ j \in JobIDs /\ b \in Bodies
        /\ \A i \in 1..Len(inits) : inits[i].report \in Reports
    BY <1>2, RequestReports
  <1>4. ReportIDs(inits) \subseteq Reports
    BY <1>3 DEF ReportIDs
  <1>5. job.hash = b
    BY DEF buildInitJob
  <1>6. Made(c, claims'[t], j, job, op)
    <2>1. /\ Request(h) = Decoded(c, op, b) /\ KeyID(h) = VkID(c, op, b)
          /\ RouteVariant(h) = Dialect(c, op)
      BY <1>2, HandlerRequest
    <2>2. Request(h).ok /\ KeyID(h) \in DOMAIN c.keys
      BY <1>2 DEF Admitted, KeyKnown
    <2>3. (op = "create" => j = DigestID[b]) /\ (op = "janus" => j \in LeaderJobIDs)
      BY <1>2 DEF WellRouted
    <2>4. /\ \A r \in ReportIDs(inits) : claims'[t][r] # None
          /\ lost = LostTo(claims'[t], j, inits)
      BY <1>1, <1>3, <1>4, LostAfterClaim
    <2>5. job = buildInitJob(c, c.keys[VkID(c, op, b)], Dialect(c, op), b,
                             Decoded(c, op, b).inits, LostTo(claims'[t], j, inits))
      BY <2>1, <2>4
    <2> HIDE DEF job, lost, t, j, b, op, c
    <2> QED
      BY <1>5, <2>1, <2>2, <2>3, <2>4, <2>5 DEF Made
  <1>7. ClaimsGrow
    BY <1>1, <1>3, <1>4, ClaimsGrowInClaim
  <1> HIDE DEF job
  <1>8. tasks'[t] # None /\ FromRequest(tasks'[t], claims'[t], j, job)
    BY <1>1, <1>2, <1>6 DEF FromRequest
  <1>9. HandlerFaithful(h)'
    BY <1>1, <1>2, <1>5, <1>8 DEF HandlerFaithful, Faithful
  <1> QED
    BY <1>1, <1>7, <1>9, GotoFaithful DEF ClaimAndBuild, TypeOK

\* A handler stores and answers with the faithful job it built.
LEMMA PutJobFaithful ==
    ASSUME TypeOK, RetryInv, NEW h \in Handlers, PutJob(h)
    PROVE  RetryInv'
  <1>1. /\ call[h].task \in Tasks /\ call[h].job \in JobIDs
        /\ Faithful(call[h].task, call[h].job, built[h])
        /\ UNCHANGED <<tasks, claims>>
    BY RequestReports DEF PutJob, TypeOK, RetryInv, HandlerFaithful
  <1>2. CASE /\ writeResp(h, call[h].task, call[h].job, built[h])
             /\ \/ jobs' = [jobs EXCEPT ![call[h].task][call[h].job] = built[h]]
                \/ UNCHANGED jobs
    <2>1. ASSUME NEW t \in Tasks, NEW j \in JobIDs, jobs'[t][j] # jobs[t][j]
          PROVE  Faithful(t, j, jobs[t][j])'
      <3>1. t = call[h].task /\ j = call[h].job /\ jobs'[t][j] = built[h]
        BY <1>1, <1>2, <2>1 DEF TypeOK
      <3> QED
        BY <1>1, <3>1 DEF Faithful
    <2>2. JobsFaithful
      BY <2>1 DEF JobsFaithful
    <2> QED
      BY <1>1, <1>2, <2>2, WriteRespFaithful
  <1>3. CASE Goto(h, "recheck") /\ UNCHANGED <<jobs, call, snap, built>>
    <2>1. pc'[h] = "recheck" /\ call'[h] = call[h] /\ snap'[h] = snap[h] /\ built'[h] = built[h]
      BY <1>3 DEF Goto, TypeOK
    <2>2. HandlerFaithful(h)
      BY DEF RetryInv
    <2>3. HandlerFaithful(h)'
      BY <1>1, <2>1, <2>2 DEF HandlerFaithful, Faithful, PutJob
    <2>4. ClaimsGrow
      BY <1>1 DEF ClaimsGrow
    <2> QED
      BY <1>1, <1>3, <2>3, <2>4, GotoFaithful
  <1> QED
    BY <1>2, <1>3 DEF PutJob

\* The second look-up answers with a stored job.
LEMMA RecheckFaithful ==
    ASSUME TypeOK, RetryInv, NEW h \in Handlers, Recheck(h)
    PROVE  RetryInv'
  <1>1. /\ call[h].task \in Tasks /\ call[h].job \in JobIDs
        /\ UNCHANGED <<tasks, claims>> /\ JobsFaithful
    BY RequestReports DEF Recheck, TypeOK, store, JobsFaithful
  <1>2. CASE SameRequest(h) /\ writeResp(h, call[h].task, call[h].job, StoredJob(h))
    <2>1. Faithful(call[h].task, call[h].job, StoredJob(h))
      BY <1>1, <1>2 DEF RetryInv, SameRequest, StoredJob
    <2> QED
      BY <1>1, <1>2, <2>1, WriteRespFaithful
  <1>3. CASE writeProblem(h, 409)
    BY <1>1, <1>3, WriteProblemFaithful
  <1> QED
    BY <1>2, <1>3 DEF Recheck

\* GET answers with a stored job.
LEMMA HandleGetFaithful ==
    ASSUME TypeOK, RetryInv, NEW h \in Handlers, NEW t \in Tasks, NEW j \in JobIDs,
           handleGet(h, t, j)
    PROVE  RetryInv'
  <1>1. UNCHANGED <<tasks, claims>> /\ JobsFaithful
    BY DEF handleGet, store, JobsFaithful
  <1>2. CASE jobs[t][j] # None /\ writeResp(h, t, j, jobs[t][j])
    <2>1. Faithful(t, j, jobs[t][j])
      BY <1>2 DEF RetryInv
    <2> QED
      BY <1>1, <1>2, <2>1, WriteRespFaithful
  <1>3. CASE writeProblem(h, 404)
    BY <1>1, <1>3, WriteProblemFaithful
  <1> QED
    BY <1>2, <1>3 DEF handleGet

\* DELETE takes a job away and leaves its claims.
LEMMA DeleteJobFaithful ==
    ASSUME TypeOK, RetryInv, NEW h \in Handlers, NEW t \in Tasks, NEW j \in JobIDs,
           DeleteJob(h, t, j)
    PROVE  RetryInv'
  <1>1. JobsFaithful
    BY DEF DeleteJob, JobsFaithful, TypeOK
  <1> QED
    BY <1>1, RespondFaithful DEF DeleteJob

\* The requests that come in carry the job ID of their route.
LEMMA RoutedCalls ==
    ASSUME NEW h \in Handlers, ServeHTTP(h)
    PROVE  \/ \E c \in Call : WellRouted(c) /\ Begin(h, c)
           \/ \E t \in Tasks, j \in JobIDs : handleGet(h, t, j)
           \/ \E t \in Tasks, j \in JobIDs : DeleteJob(h, t, j)
           \/ \E status \in {200, 404, 405, 501} : ServeUnrouted(h, status)
  <1>1. ASSUME NEW t \in Tasks, NEW b \in Bodies, handleCreate(h, t, b)
        PROVE  \E c \in Call : WellRouted(c) /\ Begin(h, c)
    <2> DEFINE c == [op |-> "create", task |-> t, job |-> DigestID[b], body |-> b]
    <2>1. c \in Call /\ WellRouted(c)
      BY BodyAssumption DEF Call, WellRouted
    <2> QED
      BY <1>1, <2>1 DEF handleCreate
  <1>2. ASSUME NEW t \in Tasks, NEW j \in LeaderJobIDs, NEW b \in Bodies,
               handleJanusInit(h, t, j, b)
        PROVE  \E c \in Call : WellRouted(c) /\ Begin(h, c)
    <2> DEFINE c == [op |-> "janus", task |-> t, job |-> j, body |-> b]
    <2>1. c \in Call /\ WellRouted(c)
      BY BodyAssumption DEF Call, WellRouted
    <2> QED
      BY <1>2, <2>1 DEF handleJanusInit
  <1>3. ASSUME NEW t \in Tasks, handleAggregateShare(h, t)
        PROVE  \E c \in Call : WellRouted(c) /\ Begin(h, c)
    <2> DEFINE c == [op |-> "share", task |-> t, job |-> None, body |-> None]
    <2>1. c \in Call /\ WellRouted(c)
      BY DEF Call, WellRouted
    <2> QED
      BY <1>3, <2>1 DEF handleAggregateShare
  <1> QED
    BY <1>1, <1>2, <1>3 DEF ServeHTTP

\* Every step keeps the invariant: one case per operation.
LEMMA RetryNext == TasksFixed /\ TypeOK /\ RetryInv /\ [Next]_vars => RetryInv'
  <1> SUFFICES ASSUME TasksFixed, TypeOK, RetryInv, [Next]_vars
               PROVE  RetryInv'
    OBVIOUS
  <1>1. CASE UNCHANGED vars
    BY <1>1 DEF vars, RetryInv, HandlerFaithful, Faithful, Admitted, Request, RouteVariant,
                KeyKnown, KeyID, ValidInit
  <1>2. CASE \E c \in Configs : AddTask(c)
    BY <1>2, AddTaskFaithful
  <1>3. ASSUME NEW h \in Handlers, ServeHTTP(h)
        PROVE  RetryInv'
    BY <1>3, RoutedCalls, BeginFaithful, HandleGetFaithful, DeleteJobFaithful, NoJobFaithful
  <1>4. ASSUME NEW h \in Handlers, Proceed(h)
        PROVE  RetryInv'
    BY <1>4, NoJobFaithful, RejectAllFaithful, LookUpFaithful, ClaimAndBuildFaithful,
       PutJobFaithful, RecheckFaithful DEF Proceed
  <1> QED
    BY <1>1, <1>2, <1>3, <1>4 DEF Next

\* The invariant holds throughout.
LEMMA RetryInvariant == TasksFixed /\ Spec => [](TasksFixed /\ TypeOK /\ RetryInv)
  <1>1. TasksFixed => TasksFixed'
    BY DEF TasksFixed
  <1> QED
    BY <1>1, TypeInit, TypeNext, RetryInit, RetryNext, PTL DEF Spec

-----------------------------------------------------------------------------
(* The results.                                                             *)

\* Two answers to one body under one job ID of a task are the same answer, however
\* the requests raced with each other, with other jobs and with deletes.
THEOREM RetriesAreIdempotent == TasksFixed /\ RoutesApart /\ Spec => []RetriesAgree
  <1>1. RoutesApart /\ TypeOK /\ RetryInv => RetriesAgree
    <2> SUFFICES ASSUME RoutesApart, TypeOK, RetryInv, NEW a \in answered, NEW b \in answered,
                        a[1] = b[1], a[2] = b[2], a[3].hash = b[3].hash
                 PROVE  a[3] = b[3]
      BY DEF RetriesAgree
    <2>1. /\ FromRequest(tasks[a[1]], claims[a[1]], a[2], a[3])
          /\ FromRequest(tasks[a[1]], claims[a[1]], a[2], b[3])
      BY DEF RetryInv, Faithful
    <2>2. a[3].hash \in Bodies
      BY DEF TypeOK, Job
    <2> QED
      BY <2>1, <2>2, OneJobPerBody
  <1>2. RoutesApart => RoutesApart'
    BY DEF RoutesApart
  <1> QED
    BY <1>1, <1>2, RetryInvariant, PTL

\* A handler that lost the race to store its job lost it to an equal one.
LEMMA LostToEqual ==
    ASSUME RoutesApart, TypeOK, RetryInv, NEW h \in Handlers, pc[h] = "put", SameRequest(h)
    PROVE  StoredJob(h) = built[h]
  <1>1. /\ call[h].task \in Tasks /\ call[h].job \in JobIDs /\ built[h] \in Job
        /\ Faithful(call[h].task, call[h].job, built[h]) /\ built[h].hash = call[h].body
    BY RequestReports DEF TypeOK, RetryInv, HandlerFaithful
  <1>2. StoredJob(h) # None /\ StoredJob(h).hash = built[h].hash /\ built[h].hash \in Bodies
    BY <1>1 DEF SameRequest, Job
  <1>3. Faithful(call[h].task, call[h].job, StoredJob(h))
    BY <1>1, <1>2 DEF RetryInv, StoredJob
  <1> QED
    BY <1>1, <1>2, <1>3, OneJobPerBody DEF Faithful

\* The job a handler answers with is the one the store holds.
LEMMA AnswersFromStore ==
    ASSUME RoutesApart, TypeOK, RetryInv, [Next]_vars, NEW a \in answered' \ answered
    PROVE  jobs'[a[1]][a[2]] = a[3]
  <1>1. ASSUME NEW h \in Handlers, NEW t, NEW j, NEW job, writeResp(h, t, j, job)
        PROVE  a[1] = t /\ a[2] = j /\ a[3] = job
    BY <1>1 DEF writeResp, writeProblem
  <1>2. ASSUME NEW h \in Handlers, NEW t \in Tasks, NEW j \in JobIDs, handleGet(h, t, j)
        PROVE  jobs'[a[1]][a[2]] = a[3]
    <2>1. writeResp(h, t, j, jobs[t][j]) /\ jobs' = jobs
      BY <1>2 DEF handleGet, writeProblem, store
    <2> QED
      BY <1>1, <2>1
  <1>3. ASSUME NEW h \in Handlers, LookUp(h) \/ Recheck(h)
        PROVE  jobs'[a[1]][a[2]] = a[3]
    <2>1. writeResp(h, call[h].task, call[h].job, StoredJob(h)) /\ jobs' = jobs
      BY <1>3 DEF LookUp, Recheck, writeProblem, Goto, store
    <2> QED
      BY <1>1, <2>1 DEF StoredJob
  <1>4. ASSUME NEW h \in Handlers, PutJob(h)
        PROVE  jobs'[a[1]][a[2]] = a[3]
    <2>1. call[h].task \in Tasks /\ call[h].job \in JobIDs /\ built[h] \in Job
      BY <1>4, RequestReports DEF PutJob, TypeOK
    <2>2. writeResp(h, call[h].task, call[h].job, built[h])
      BY <1>4 DEF PutJob, Goto
    <2>3. CASE jobs' = [jobs EXCEPT ![call[h].task][call[h].job] = built[h]]
      BY <1>1, <2>1, <2>2, <2>3 DEF TypeOK
    <2>4. CASE SameRequest(h) /\ UNCHANGED jobs
      <3>1. StoredJob(h) = built[h]
        BY <1>4, <2>4, LostToEqual DEF PutJob
      <3> QED
        BY <1>1, <2>2, <2>4, <3>1 DEF StoredJob
    <2> QED
      BY <1>4, <2>3, <2>4 DEF PutJob, Goto
  <1>5. CASE UNCHANGED vars
    BY <1>5 DEF vars
  <1>6. CASE \E c \in Configs : AddTask(c)
    BY <1>6 DEF AddTask
  <1>7. ASSUME NEW h \in Handlers,
               \/ \E c \in Call : Begin(h, c)
               \/ \E t \in Tasks, j \in JobIDs : DeleteJob(h, t, j)
               \/ \E status \in {200, 404, 405, 501} : ServeUnrouted(h, status)
               \/ ReadFails(h) \/ RejectRequest(h) \/ RejectAll(h)
               \/ ClaimAndBuild(h) \/ SumShares(h)
        PROVE  FALSE
    BY <1>7 DEF Begin, DeleteJob, ServeUnrouted, ReadFails, RejectRequest, RejectAll,
                ClaimAndBuild, SumShares, writeProblem, Goto
  <1> QED
    BY <1>2, <1>3, <1>4, <1>5, <1>6, <1>7, NextCases

\* Every answer a request gets is the job as the store holds it at that moment.
THEOREM AnswersAreStored == TasksFixed /\ RoutesApart /\ Spec => AnswerIsStored
  <1>1. RoutesApart /\ TypeOK /\ RetryInv /\ [Next]_vars =>
           [\A a \in answered' \ answered : jobs'[a[1]][a[2]] = a[3]]_vars
    BY AnswersFromStore
  <1>2. RoutesApart => RoutesApart'
    BY DEF RoutesApart
  <1> QED
    BY <1>1, <1>2, RetryInvariant, PTL DEF AnswerIsStored, Spec

-----------------------------------------------------------------------------
(* Refinement: the account of ReportLedger, kept by concurrent handlers.    *)

NoShare == reply = None \/ reply.share = None

\* A step answers with a job, which the store holds before it or from then on.
Told(t, j, job) ==
    /\ jobs[t][j] \in {None, job}
    /\ jobs' = [jobs EXCEPT ![t][j] = job]
    /\ answered' = answered \union {<<t, j, job>>}

Deleted(t, j) == jobs' = [jobs EXCEPT ![t][j] = None] /\ UNCHANGED answered

Summed(t) ==
    /\ reply'.share.task = t /\ reply'.share.terms = CommittedShares(t)
    /\ CommittedShares(t) # {}
    /\ UNCHANGED <<jobs, answered>>

\* A response with a job tells of it, if the store is left with that job.
LEMMA RespTells ==
    ASSUME NEW h \in Handlers, NEW t, NEW j, NEW job, Encodable(job), writeResp(h, t, j, job),
           jobs[t][j] \in {None, job}, jobs' = [jobs EXCEPT ![t][j] = job]
    PROVE  NoShare' /\ Told(t, j, job)
  BY DEF writeResp, Respond, NoShare, Told

\* Every step does one of four things to the account, or leaves it alone.
LEMMA AccountStep ==
    ASSUME RoutesApart, TypeOK, SafeInv, RetryInv, [Next]_vars
    PROVE  \/ UNCHANGED <<jobs, answered, reply>>
           \/ NoShare' /\ UNCHANGED <<jobs, answered>>
           \/ NoShare' /\ \E t \in Tasks, j \in JobIDs : \E job \in Job : Told(t, j, job)
           \/ NoShare' /\ \E t \in Tasks, j \in JobIDs : Deleted(t, j)
           \/ \E t \in Tasks : Summed(t)
  <1> DEFINE Tells == NoShare' /\ \E t \in Tasks, j \in JobIDs : \E job \in Job : Told(t, j, job)
             Rests == NoShare' /\ UNCHANGED <<jobs, answered>>
  <1>1. ASSUME NEW h, NEW status, writeProblem(h, status), UNCHANGED jobs
        PROVE  Rests
    BY <1>1 DEF writeProblem, Respond, NoShare
  <1>2. ASSUME NEW h, NEW label, Goto(h, label), UNCHANGED jobs
        PROVE  Rests
    BY <1>2 DEF Goto, NoShare
  <1>3. ASSUME NEW h \in Handlers, NEW t \in Tasks, NEW j \in JobIDs, jobs[t][j] # None,
               writeResp(h, t, j, jobs[t][j]), UNCHANGED jobs
        PROVE  Tells
    <2>1. jobs[t][j] \in Job /\ Encodable(jobs[t][j])
      BY <1>3 DEF TypeOK, SafeInv, StoredSound, SoundJob
    <2>2. jobs' = [jobs EXCEPT ![t][j] = jobs[t][j]]
      BY <1>3 DEF TypeOK
    <2> HIDE DEF Tells
    <2>3. NoShare' /\ Told(t, j, jobs[t][j])
      BY <1>3, <2>1, <2>2, RespTells
    <2> QED
      BY <2>1, <2>3 DEF Tells
  <1> HIDE DEF Tells, Rests
  <1>4. ASSUME NEW h \in Handlers, NEW t \in Tasks, NEW j \in JobIDs, handleGet(h, t, j)
        PROVE  Tells \/ Rests
    BY <1>1, <1>3, <1>4 DEF handleGet, store
  <1>5. ASSUME NEW h \in Handlers, LookUp(h) \/ Recheck(h)
        PROVE  Tells \/ Rests
    <2>1. call[h].task \in Tasks /\ call[h].job \in JobIDs /\ UNCHANGED jobs
      BY <1>5, RequestReports DEF LookUp, Admitted, Recheck, TypeOK, store
    <2>2. CASE SameRequest(h) /\ writeResp(h, call[h].task, call[h].job, StoredJob(h))
      BY <1>3, <2>1, <2>2 DEF SameRequest, StoredJob
    <2> QED
      BY <1>1, <1>2, <1>5, <2>1, <2>2 DEF LookUp, Recheck
  <1>6. ASSUME NEW h \in Handlers, PutJob(h)
        PROVE  Tells \/ Rests
    <2>1. /\ call[h].task \in Tasks /\ call[h].job \in JobIDs /\ built[h] \in Job
          /\ Encodable(built[h]) /\ pc[h] = "put"
      BY <1>6, RequestReports DEF PutJob, TypeOK, SafeInv, BuiltSound, SoundJob
    <2>2. CASE OtherRequest(h) /\ Goto(h, "recheck") /\ UNCHANGED jobs
      BY <1>2, <2>2
    <2>3. CASE /\ writeResp(h, call[h].task, call[h].job, built[h])
               /\ StoredJob(h) \in {None, built[h]}
               /\ jobs' = [jobs EXCEPT ![call[h].task][call[h].job] = built[h]]
      <3>1. NoShare' /\ Told(call[h].task, call[h].job, built[h])
        BY <2>1, <2>3, RespTells DEF StoredJob
      <3> QED
        BY <2>1, <3>1 DEF Tells
    <2>4. CASE SameRequest(h) /\ UNCHANGED jobs
      <3>1. StoredJob(h) = built[h]
        BY <2>1, <2>4, LostToEqual
      <3>2. jobs' = [jobs EXCEPT ![call[h].task][call[h].job] = built[h]]
        BY <2>1, <2>4, <3>1 DEF StoredJob, TypeOK
      <3>3. writeResp(h, call[h].task, call[h].job, built[h])
        BY <1>6, <2>4 DEF PutJob, OtherRequest, SameRequest
      <3> QED
        BY <2>3, <3>1, <3>2, <3>3
    <2> QED
      BY <1>6, <2>2, <2>3, <2>4 DEF PutJob
  <1>7. ASSUME NEW h \in Handlers, NEW t \in Tasks, NEW j \in JobIDs, DeleteJob(h, t, j)
        PROVE  NoShare' /\ Deleted(t, j)
    BY <1>7 DEF DeleteJob, Respond, NoShare, Deleted
  <1>8. ASSUME NEW h \in Handlers, SumShares(h)
        PROVE  Rests \/ \E t \in Tasks : Summed(t)
    <2>1. call[h].task \in Tasks
      BY <1>8 DEF SumShares, TypeOK, Call
    <2>2. Rests \/ Summed(call[h].task)
      BY <1>1, <1>8 DEF SumShares, Respond, Summed, store
    <2> QED
      BY <2>1, <2>2
  <1>9. ASSUME NEW h \in Handlers,
               \/ \E c \in Call : Begin(h, c)
               \/ \E status \in {200, 404, 405, 501} : ServeUnrouted(h, status)
               \/ ReadFails(h) \/ RejectRequest(h) \/ RejectAll(h) \/ ClaimAndBuild(h)
        PROVE  Rests
    BY <1>1, <1>2, <1>9 DEF Begin, ServeUnrouted, ReadFails, RejectRequest, RejectAll,
                            ClaimAndBuild, store
  <1>10. CASE UNCHANGED vars
    BY <1>10 DEF vars
  <1>11. CASE \E c \in Configs : AddTask(c)
    BY <1>11 DEF AddTask, Rests, NoShare
  <1> QED
    BY <1>4, <1>5, <1>6, <1>7, <1>8, <1>9, <1>10, <1>11, NextCases DEF Tells, Rests

\* The entries of a job, by their parts.
LEMMA EntriesByPart ==
    ASSUME NEW t \in Tasks, NEW j \in JobIDs, NEW S \in SUBSET Reports
    PROVE  Ledger!Entries(t, j, S) =
              {e \in Tasks \X JobIDs \X Reports : e[1] = t /\ e[2] = j /\ e[3] \in S}
  BY DEF Ledger!Entries

\* The reports a job finished are reports.
LEMMA FinishedAreReports ==
    ASSUME NEW job \in Job
    PROVE  FinishedReports(job) \in SUBSET Reports
  <1>1. job.results \in Seq([report : Reports, outcome : Outcomes])
    BY DEF Job
  <1>2. \A i \in DOMAIN job.results : job.results[i] \in [report : Reports, outcome : Outcomes]
    BY <1>1, SeqElement
  <1> QED
    BY <1>2 DEF FinishedReports

\* What a history of answers says was finished, by parts.
LEMMA CountedByPart ==
    ASSUME NEW A \in SUBSET (Tasks \X JobIDs \X Job)
    PROVE  UNION {{<<a[1], a[2], r>> : r \in FinishedReports(a[3])} : a \in A} =
              {e \in Tasks \X JobIDs \X Reports :
                  \E a \in A : a[1] = e[1] /\ a[2] = e[2] /\ e[3] \in FinishedReports(a[3])}
  <1>1. \A a \in A : /\ a[1] \in Tasks /\ a[2] \in JobIDs
                     /\ FinishedReports(a[3]) \in SUBSET Reports
    BY FinishedAreReports
  <1> QED
    BY <1>1

\* What a table of jobs holds as finished, by parts.
LEMMA LiveByPart ==
    ASSUME NEW J \in [Tasks -> [JobIDs -> Job \union {None}]]
    PROVE  UNION {{<<k[1], k[2], r>> : r \in FinishedReports(J[k[1]][k[2]])} :
                  k \in {x \in Tasks \X JobIDs : J[x[1]][x[2]] # None}} =
              {e \in Tasks \X JobIDs \X Reports :
                  J[e[1]][e[2]] # None /\ e[3] \in FinishedReports(J[e[1]][e[2]])}
  <1>1. \A t \in Tasks, j \in JobIDs :
           J[t][j] # None => FinishedReports(J[t][j]) \in SUBSET Reports
    BY FinishedAreReports
  <1> DEFINE F(t, j) == FinishedReports(J[t][j])
             K == {x \in Tasks \X JobIDs : J[x[1]][x[2]] # None}
             L == UNION {{<<k[1], k[2], r>> : r \in F(k[1], k[2])} : k \in K}
  <1>2. ASSUME NEW k \in K, NEW r \in F(k[1], k[2])
        PROVE  /\ <<k[1], k[2], r>> \in Tasks \X JobIDs \X Reports
               /\ J[k[1]][k[2]] # None
    BY <1>1
  <1>3. ASSUME NEW t \in Tasks, NEW j \in JobIDs, NEW r \in F(t, j), J[t][j] # None
        PROVE  <<t, j, r>> \in L
    <2> DEFINE k == <<t, j>>
    <2>1. k \in K /\ k[1] = t /\ k[2] = j
      BY <1>3
    <2> HIDE DEF k, K, F
    <2> QED
      BY <1>3, <2>1
  <1> HIDE DEF F, K
  <1>4. \A e \in L : \E k \in K : \E r \in F(k[1], k[2]) : e = <<k[1], k[2], r>>
    OBVIOUS
  <1> HIDE DEF L
  <1>5. L = {e \in Tasks \X JobIDs \X Reports : J[e[1]][e[2]] # None /\ e[3] \in F(e[1], e[2])}
    BY <1>2, <1>3, <1>4
  <1> QED
    BY <1>5 DEF F, K, L

\* The account by parts, before a step and after it.
LEMMA AccountByPart ==
    ASSUME TypeOK, TypeOK'
    PROVE  /\ Counted = {e \in Tasks \X JobIDs \X Reports : \E a \in answered :
                            a[1] = e[1] /\ a[2] = e[2] /\ e[3] \in FinishedReports(a[3])}
           /\ Counted' = {e \in Tasks \X JobIDs \X Reports : \E a \in answered' :
                             a[1] = e[1] /\ a[2] = e[2] /\ e[3] \in FinishedReports(a[3])}
           /\ Live = {e \in Tasks \X JobIDs \X Reports :
                         /\ jobs[e[1]][e[2]] # None
                         /\ e[3] \in FinishedReports(jobs[e[1]][e[2]])}
           /\ Live' = {e \in Tasks \X JobIDs \X Reports :
                          /\ jobs'[e[1]][e[2]] # None
                          /\ e[3] \in FinishedReports(jobs'[e[1]][e[2]])}
  <1>1. /\ answered \in SUBSET (Tasks \X JobIDs \X Job)
        /\ answered' \in SUBSET (Tasks \X JobIDs \X Job)
        /\ jobs \in [Tasks -> [JobIDs -> Job \union {None}]]
        /\ jobs' \in [Tasks -> [JobIDs -> Job \union {None}]]
    BY DEF TypeOK
  <1> QED
    BY <1>1, CountedByPart, LiveByPart DEF Counted, Live

\* An answer settles the reports its job finished.
LEMMA ToldSettles ==
    ASSUME TypeOK, TypeOK', OneJobPerReport', NoShare',
           NEW t \in Tasks, NEW j \in JobIDs, NEW job \in Job, Told(t, j, job)
    PROVE  Ledger!Settle(t, j, FinishedReports(job))
  <1> DEFINE S == FinishedReports(job)
             E == Ledger!Entries(t, j, S)
             All == Tasks \X JobIDs \X Reports
  <1>1. E = {e \in All : e[1] = t /\ e[2] = j /\ e[3] \in S}
    BY EntriesByPart, FinishedAreReports
  <1>2. job # None
    BY NoJobAssumption
  <1> HIDE DEF S, E, All
  <1>3. \A e \in Counted : e[1] = t /\ e[3] \in S => e[2] = j
    <2> SUFFICES ASSUME NEW e \in Counted, e[1] = t, e[3] \in S
                 PROVE  e[2] = j
      OBVIOUS
    <2>1. PICK a \in answered : a[1] = t /\ a[2] = e[2] /\ e[3] \in FinishedReports(a[3])
      BY AccountByPart
    <2>2. <<t, j, job>> \in answered' /\ a \in answered'
      BY DEF Told
    <2> QED
      BY <2>1, <2>2 DEF OneJobPerReport, S
  <1>4. Counted' = Counted \union E
    <2>1. \A a \in answered' : a \in answered \/ (a[1] = t /\ a[2] = j /\ a[3] = job)
      BY DEF Told
    <2>2. answered \subseteq answered' /\ <<t, j, job>> \in answered'
      BY DEF Told
    <2>3. ASSUME NEW e \in All
          PROVE  e \in Counted' <=> e \in Counted \/ e \in E
      BY <1>1, <2>1, <2>2, AccountByPart DEF S, All
    <2>4. Counted \subseteq All /\ Counted' \subseteq All /\ E \subseteq All
      BY <1>1, AccountByPart DEF All
    <2> QED
      BY <2>3, <2>4
  <1>5. \A u \in Tasks, k \in JobIDs :
           jobs'[u][k] = IF u = t /\ k = j THEN job ELSE jobs[u][k]
    BY DEF Told, TypeOK
  <1>6. Live' = Live \union E
    <2>1. ASSUME NEW e \in All
          PROVE  e \in Live' <=> e \in Live \/ e \in E
      <3>1. e[1] \in Tasks /\ e[2] \in JobIDs /\ e[3] \in Reports
        BY DEF All
      <3>2. CASE e[1] = t /\ e[2] = j
        BY <1>1, <1>2, <1>5, <3>1, <3>2, AccountByPart DEF S, All, Told
      <3>3. CASE ~(e[1] = t /\ e[2] = j)
        BY <1>1, <1>5, <3>1, <3>3, AccountByPart DEF All
      <3> QED
        BY <3>2, <3>3
    <2>2. Live \subseteq All /\ Live' \subseteq All /\ E \subseteq All
      BY <1>1, AccountByPart DEF All
    <2> QED
      BY <2>1, <2>2
  <1>7. Ledger!LiveOf(t, j) \in {{}, E}
    <2>1. CASE jobs[t][j] = None
      BY <2>1, AccountByPart DEF Ledger!LiveOf
    <2>2. CASE jobs[t][j] = job
      BY <1>1, <1>2, <2>2, AccountByPart DEF Ledger!LiveOf, S, All
    <2> QED
      BY <2>1, <2>2 DEF Told
  <1>8. Handed' = {}
    BY DEF NoShare, Handed
  <1> QED
    BY <1>3, <1>4, <1>6, <1>7, <1>8 DEF Ledger!Settle, S, E

\* DELETE drops the entries of the job.
LEMMA DeletedDrops ==
    ASSUME TypeOK, TypeOK', NoShare', NEW t \in Tasks, NEW j \in JobIDs, Deleted(t, j)
    PROVE  Ledger!Drop(t, j)
  <1>1. \A u \in Tasks, k \in JobIDs :
           jobs'[u][k] = IF u = t /\ k = j THEN None ELSE jobs[u][k]
    BY DEF Deleted, TypeOK
  <1>2. Live' = Live \ Ledger!LiveOf(t, j)
    BY <1>1, AccountByPart DEF Ledger!LiveOf
  <1>3. Counted' = Counted
    BY DEF Deleted, Counted
  <1>4. Handed' = {}
    BY DEF NoShare, Handed
  <1> QED
    BY <1>2, <1>3, <1>4 DEF Ledger!Drop

\* The terms of a sum are the finished reports of the stored jobs.
LEMMA TermsAreLive ==
    ASSUME TypeOK, NEW t \in Tasks
    PROVE  {<<t, x.job, x.report>> : x \in CommittedShares(t)} = {e \in Live : e[1] = t}
  <1> DEFINE Terms == {<<t, x.job, x.report>> : x \in CommittedShares(t)}
  <1>0. Live = {e \in Tasks \X JobIDs \X Reports :
                  jobs[e[1]][e[2]] # None /\ e[3] \in FinishedReports(jobs[e[1]][e[2]])}
    <2>1. jobs \in [Tasks -> [JobIDs -> Job \union {None}]]
      BY DEF TypeOK
    <2> QED
      BY <2>1, LiveByPart DEF Live
  <1>1. ASSUME NEW x \in CommittedShares(t)
        PROVE  <<t, x.job, x.report>> \in Live
    <2>1. PICK j \in JobIDs : \E i \in DOMAIN jobs[t][j].results :
             /\ jobs[t][j] # None /\ jobs[t][j].results[i].outcome = Finished
             /\ x = [job |-> j, ord |-> i, report |-> jobs[t][j].results[i].report]
      BY DEF CommittedShares
    <2>2. x.job = j /\ jobs[t][j] \in Job /\ x.report \in FinishedReports(jobs[t][j])
      BY <2>1 DEF FinishedReports, TypeOK
    <2> QED
      BY <1>0, <2>1, <2>2, FinishedAreReports
  <1>2. ASSUME NEW e \in Live, e[1] = t
        PROVE  e \in Terms
    <2>1. /\ e \in Tasks \X JobIDs \X Reports /\ e[2] \in JobIDs /\ jobs[t][e[2]] # None
          /\ e[3] \in FinishedReports(jobs[t][e[2]])
      BY <1>0, <1>2
    <2>2. PICK i \in DOMAIN jobs[t][e[2]].results :
             /\ jobs[t][e[2]].results[i].outcome = Finished
             /\ jobs[t][e[2]].results[i].report = e[3]
      BY <2>1 DEF FinishedReports
    <2>3. [job |-> e[2], ord |-> i, report |-> e[3]] \in CommittedShares(t)
      BY <2>1, <2>2 DEF CommittedShares
    <2> QED
      BY <1>2, <2>1, <2>3
  <1> QED
    BY <1>1, <1>2

\* An aggregate share collects them.
LEMMA SummedCollects ==
    ASSUME TypeOK, NEW t \in Tasks, Summed(t), ~NoShare'
    PROVE  Ledger!Collect(t)
  <1>1. Handed' = {<<t, x.job, x.report>> : x \in CommittedShares(t)}
    BY DEF Summed, Handed, NoShare
  <1>2. Handed' = {e \in Live : e[1] = t}
    BY <1>1, TermsAreLive
  <1>3. Handed' # {}
    BY <1>1 DEF Summed
  <1>4. Counted' = Counted /\ Live' = Live
    BY DEF Summed, Counted, Live
  <1> QED
    BY <1>2, <1>3, <1>4 DEF Ledger!Collect

\* Every step of the Helper is a step of the ledger or leaves it alone.
LEMMA LedgerStep ==
    RoutesApart /\ TypeOK /\ SafeInv /\ RetryInv /\ OneJobPerReport' /\ [Next]_vars
        => [Ledger!Next]_<<Counted, Live, Handed>>
  <1> SUFFICES ASSUME RoutesApart, TypeOK, SafeInv, RetryInv, OneJobPerReport', [Next]_vars
               PROVE  Ledger!Next \/ UNCHANGED <<Counted, Live, Handed>>
    OBVIOUS
  <1>0. TypeOK'
    BY TypeNext
  <1>1. CASE UNCHANGED <<jobs, answered, reply>>
    BY <1>1 DEF Counted, Live, Handed
  <1>2. CASE NoShare' /\ UNCHANGED <<jobs, answered>>
    <2>1. Counted' = Counted /\ Live' = Live /\ Handed' = {}
      BY <1>2 DEF Counted, Live, NoShare, Handed
    <2> QED
      BY <2>1 DEF Ledger!Next, Ledger!Pass
  <1>3. ASSUME NoShare', NEW t \in Tasks, NEW j \in JobIDs, NEW job \in Job, Told(t, j, job)
        PROVE  Ledger!Next
    BY <1>0, <1>3, ToldSettles, FinishedAreReports DEF Ledger!Next
  <1>4. ASSUME NoShare', NEW t \in Tasks, NEW j \in JobIDs, Deleted(t, j)
        PROVE  Ledger!Next
    BY <1>0, <1>4, DeletedDrops DEF Ledger!Next
  <1>5. ASSUME NEW t \in Tasks, Summed(t), ~NoShare'
        PROVE  Ledger!Next
    BY <1>5, SummedCollects DEF Ledger!Next
  <1>6. ASSUME NEW t \in Tasks, Summed(t), NoShare'
        PROVE  Ledger!Next \/ UNCHANGED <<Counted, Live, Handed>>
    BY <1>2, <1>6 DEF Summed
  <1> QED
    BY <1>1, <1>2, <1>3, <1>4, <1>5, <1>6, AccountStep

\* However handlers interleave, the Helper keeps the account of one that serves a
\* request at a time: every answer is for a job that exists from that step on with
\* exactly the reports told, and the Collector gets the sum of all such jobs.
THEOREM LedgerImplemented == TasksFixed /\ RoutesApart /\ Spec => ImplementsLedger
  <1>1. Init => Ledger!Init
    BY DEF Init, Ledger!Init, Counted, Live, Handed
  <1>2. RoutesApart => RoutesApart'
    BY DEF RoutesApart
  <1> QED
    BY <1>1, <1>2, AntiReplay, SafeInvariant, RetryInvariant, LedgerStep, PTL
    DEF Spec, ImplementsLedger, Ledger!Spec

-----------------------------------------------------------------------------
(* Claims.                                                                  *)

\* Every task speaks a dialect whose PUT route is closed.
PostOnly == \A c \in Configs : afterDraft18(c.variant)

\* The first 16 bytes of SHA-256 do not collide.
DigestsApart == \A b, c \in Bodies : DigestID[b] = DigestID[c] => b = c

\* A job decides on report r by a verdict of its own.
Decides(job, r) ==
    \E i \in DOMAIN job.results :
        /\ job.results[i].report = r
        /\ job.results[i].outcome \notin {"ReportReplayed", "UnknownVerificationKeyID"}

\* Handler h is about to store a job for task t under ID j that decides on r.
Pending(h, t, j, r) ==
    pc[h] = "put" /\ call[h].task = t /\ call[h].job = j /\ Decides(built[h], r)

Backed(t, r) ==
    \/ \E a \in answered : a[1] = t /\ a[2] = claims[t][r] /\ Decides(a[3], r)
    \/ \E h \in Handlers : Pending(h, t, claims[t][r], r)

\* From the claim on, a handler serves a POST and holds the job of its body.
OwnJob(h) ==
    /\ pc[h] # "idle" => WellRouted(call[h])
    /\ pc[h] # "recheck"
    /\ pc[h] \in {"claim", "put"} => call[h].op = "create"
    /\ pc[h] = "put" => built[h].hash = call[h].body

BackedInv ==
    /\ \A h \in Handlers : OwnJob(h)
    /\ \A t \in Tasks, j \in JobIDs : jobs[t][j] # None => j = DigestID[jobs[t][j].hash]
    /\ \A t \in Tasks, r \in Reports : claims[t][r] # None => Backed(t, r)

-----------------------------------------------------------------------------
(* One handler's view of a step.                                            *)

\* What a step can do to handler k.
Did(k) ==
    \/ Untouched(k)
    \/ pc'[k] = "idle" /\ (pc[k] = "put" => PutJob(k))
    \/ pc[k] = "idle" /\ pc'[k] = "body" /\ WellRouted(call'[k])
    \/ RejectAll(k) \/ ClaimAndBuild(k)
    \/ LookUp(k) /\ pc'[k] = "claim" /\ call'[k] = call[k]
    \/ PutJob(k) /\ OtherRequest(k)

\* Every step does one of these to each handler.
LEMMA StepOf ==
    ASSUME TypeOK, [Next]_vars, NEW k \in Handlers
    PROVE  Did(k)
  <1>1. CASE UNCHANGED vars \/ \E c \in Configs : AddTask(c)
    BY <1>1 DEF vars, AddTask, Untouched, Did
  <1>2. ASSUME NEW h \in Handlers, pc[h] # "put" \/ PutJob(h),
               \/ \E r : Respond(h, r)
               \/ \E status : writeProblem(h, status)
               \/ \E t, j, job : writeResp(h, t, j, job)
        PROVE  Did(k)
    BY <1>2, RespondTouches, WriteTouches DEF Did
  <1>3. ASSUME NEW h \in Handlers, NEW c \in Call, WellRouted(c), Begin(h, c)
        PROVE  Did(k)
    <2>1. pc[h] = "idle"
      BY <1>3 DEF Begin
    <2>2. CASE writeProblem(h, 400)
      BY <1>2, <2>1, <2>2
    <2>3. CASE /\ Goto(h, "body") /\ call' = [call EXCEPT ![h] = c]
               /\ snap' = [snap EXCEPT ![h] = tasks[c.task]] /\ UNCHANGED built
      <3>1. pc'[h] = "body" /\ call'[h] = c
        BY <2>3 DEF Goto, TypeOK
      <3>2. k # h => Untouched(k)
        BY <2>3 DEF Goto, TypeOK, Untouched
      <3> QED
        BY <1>3, <2>1, <3>1, <3>2 DEF Did
    <2> QED
      BY <1>3, <2>2, <2>3 DEF Begin
  <1>4. ASSUME NEW h \in Handlers, RejectAll(h) \/ ClaimAndBuild(h)
        PROVE  Did(k)
    BY <1>4 DEF RejectAll, ClaimAndBuild, Goto, TypeOK, Untouched, Did
  <1>5. ASSUME NEW h \in Handlers, LookUp(h)
        PROVE  Did(k)
    <2>1. pc[h] # "put"
      BY <1>5 DEF LookUp
    <2>2. CASE Goto(h, "claim") /\ UNCHANGED <<call, snap, built>>
      BY <1>5, <2>2 DEF Goto, TypeOK, Untouched, Did
    <2> QED
      BY <1>2, <1>5, <2>1, <2>2 DEF LookUp
  <1>6. ASSUME NEW h \in Handlers, PutJob(h)
        PROVE  Did(k)
    <2>1. CASE OtherRequest(h) /\ Goto(h, "recheck") /\ UNCHANGED <<call, snap, built>>
      BY <1>6, <2>1 DEF Goto, TypeOK, Untouched, Did
    <2> QED
      BY <1>2, <1>6, <2>1 DEF PutJob
  <1>7. ASSUME NEW h \in Handlers,
               \/ \E t \in Tasks, j \in JobIDs : handleGet(h, t, j)
               \/ \E t \in Tasks, j \in JobIDs : DeleteJob(h, t, j)
               \/ \E status \in {200, 404, 405, 501} : ServeUnrouted(h, status)
               \/ ReadFails(h) \/ RejectRequest(h) \/ Recheck(h) \/ SumShares(h)
        PROVE  Did(k)
    <2>1. pc[h] # "put"
      BY <1>7 DEF handleGet, DeleteJob, ServeUnrouted, ReadFails, RejectRequest, Recheck,
                  SumShares
    <2>2. \/ \E r : Respond(h, r)
          \/ \E status : writeProblem(h, status)
          \/ \E t, j, job : writeResp(h, t, j, job)
      BY <1>7 DEF handleGet, DeleteJob, ServeUnrouted, ReadFails, RejectRequest, Recheck,
                  SumShares
    <2> QED
      BY <1>2, <2>1, <2>2
  <1>8. ASSUME NEW h \in Handlers, ServeHTTP(h) \/ Proceed(h)
        PROVE  Did(k)
    BY <1>3, <1>4, <1>5, <1>6, <1>7, <1>8, RoutedCalls DEF Proceed
  <1> QED
    BY <1>1, <1>8 DEF Next

\* No answer is taken back.
LEMMA AnswersKept ==
    ASSUME TypeOK, [Next]_vars
    PROVE  answered \subseteq answered'
  BY OneAnswer

-----------------------------------------------------------------------------
(* The invariant.                                                           *)

\* A handler that has built its job finds its job ID free or taken by a job of the
\* same body.
LEMMA NoOtherRequest ==
    ASSUME DigestsApart, TypeOK, BackedInv, NEW h \in Handlers, pc[h] = "put"
    PROVE  ~OtherRequest(h)
  <1>1. /\ call[h].task \in Tasks /\ call[h].job \in JobIDs /\ call[h].body \in Bodies
        /\ call[h].job = DigestID[call[h].body]
    BY RequestReports DEF TypeOK, BackedInv, OwnJob, WellRouted
  <1>2. ASSUME StoredJob(h) # None
        PROVE  StoredJob(h).hash = call[h].body
    <2>1. StoredJob(h) \in Job /\ call[h].job = DigestID[StoredJob(h).hash]
      BY <1>1, <1>2 DEF StoredJob, TypeOK, BackedInv
    <2>2. StoredJob(h).hash \in Bodies
      BY <2>1 DEF Job
    <2> QED
      BY <1>1, <2>1, <2>2 DEF DigestsApart
  <1> QED
    BY <1>2 DEF OtherRequest, SameRequest

\* Handlers go on to claim on the POST route only and hold the job of their body.
LEMMA OwnJobNext ==
    ASSUME PostOnly, DigestsApart, TypeOK, BackedInv, [Next]_vars, NEW k \in Handlers
    PROVE  OwnJob(k)'
  <1>1. OwnJob(k)
    BY DEF BackedInv
  <1>2. CASE Untouched(k)
    BY <1>1, <1>2 DEF Untouched, OwnJob
  <1>3. CASE pc'[k] = "idle" \/ (pc'[k] = "body" /\ WellRouted(call'[k]))
    BY <1>3 DEF OwnJob
  <1>4. CASE RejectAll(k)
    <2>1. /\ pc'[k] = "put" /\ call'[k] = call[k] /\ built'[k].hash = call[k].body
          /\ pc[k] = "body" /\ call[k].op = "create"
      BY <1>4 DEF RejectAll, Goto, TypeOK, buildRejectAllJob
    <2> QED
      BY <1>1, <2>1 DEF OwnJob
  <1>5. CASE ClaimAndBuild(k)
    <2>1. /\ pc'[k] = "put" /\ call'[k] = call[k] /\ built'[k].hash = call[k].body
          /\ pc[k] = "claim"
      BY <1>5 DEF ClaimAndBuild, Goto, TypeOK, buildInitJob
    <2> QED
      BY <1>1, <2>1 DEF OwnJob
  <1>6. CASE LookUp(k) /\ pc'[k] = "claim" /\ call'[k] = call[k]
    <2>1. pc[k] = "body" /\ snap[k] \in Configs /\ call[k].op = "create"
      BY <1>6 DEF LookUp, Admitted, PostOnly, TypeOK
    <2> QED
      BY <1>1, <1>6, <2>1 DEF OwnJob
  <1>7. CASE PutJob(k) /\ OtherRequest(k)
    BY <1>7, NoOtherRequest DEF PutJob
  <1>8. Did(k)
    BY StepOf
  <1> QED
    BY <1>2, <1>3, <1>4, <1>5, <1>6, <1>7, <1>8 DEF Did

\* A job about to be stored with a verdict is answered before it is forgotten.
LEMMA PendingNext ==
    ASSUME DigestsApart, TypeOK, SafeInv, BackedInv, [Next]_vars,
           NEW h \in Handlers, NEW t \in Tasks, NEW j \in JobIDs, NEW r, Pending(h, t, j, r)
    PROVE  \/ Pending(h, t, j, r)'
           \/ \E a \in answered' : a[1] = t /\ a[2] = j /\ Decides(a[3], r)
  <1>1. CASE Untouched(h)
    BY <1>1 DEF Untouched, Pending
  <1>2. CASE PutJob(h)
    <2>1. writeResp(h, t, j, built[h])
      BY <1>2, NoOtherRequest DEF PutJob, Pending
    <2>2. Encodable(built[h])
      BY DEF SafeInv, BuiltSound, SoundJob, Pending
    <2>3. <<t, j, built[h]>> \in answered'
      BY <2>1, <2>2 DEF writeResp
    <2> QED
      BY <2>3 DEF Pending
  <1>3. pc[h] = "put" /\ Did(h)
    BY StepOf DEF Pending
  <1> QED
    BY <1>1, <1>2, <1>3 DEF Did, RejectAll, ClaimAndBuild, LookUp

\* The handler that makes a claim builds a verdict on the report with it.
LEMMA ClaimerDecides ==
    ASSUME TypeOK, NEW h \in Handlers, ClaimAndBuild(h), NEW r \in ReportIDs(Request(h).inits),
           claims[call[h].task][r] = None
    PROVE  Pending(h, call[h].task, call[h].job, r)'
  <1> DEFINE inits == Request(h).inits
             lost  == Replayed(call[h].task, call[h].job, ReportIDs(inits))
             vk    == snap[h].keys[KeyID(h)]
             v     == RouteVariant(h)
  <1>1. PICK i \in 1..Len(inits) : inits[i].report = r
    BY DEF ReportIDs
  <1>2. r \notin lost
    BY DEF Replayed
  <1>3. /\ pc'[h] = "put" /\ call'[h] = call[h]
        /\ built'[h] = buildInitJob(snap[h], vk, v, call[h].body, inits, lost)
    BY DEF ClaimAndBuild, Goto, TypeOK
  <1> HIDE DEF inits, lost, vk, v
  <1>4. /\ i \in DOMAIN built'[h].results /\ built'[h].results[i].report = r
        /\ built'[h].results[i].outcome = aggregateInit(snap[h], vk, v, inits[i])
    BY <1>1, <1>2, <1>3 DEF buildInitJob
  <1>5. built'[h].results[i].outcome \notin {"ReportReplayed", "UnknownVerificationKeyID"}
    BY <1>4, AggregateInitOutcome DEF Finished
  <1> QED
    BY <1>3, <1>4, <1>5 DEF Pending, Decides

\* Every claim stays backed, and a new one is from the start.
LEMMA BackedNext ==
    ASSUME PostOnly, DigestsApart, TypeOK, SafeInv, BackedInv, [Next]_vars
    PROVE  BackedInv'
  <1>1. \A k \in Handlers : OwnJob(k)'
    BY OwnJobNext
  <1>2. ASSUME NEW t \in Tasks, NEW j \in JobIDs, jobs'[t][j] # None
        PROVE  j = DigestID[jobs'[t][j].hash]
    <2>1. CASE jobs'[t][j] = jobs[t][j]
      BY <1>2, <2>1 DEF BackedInv
    <2>2. ASSUME NEW h \in Handlers, PutJob(h), built[h] = jobs'[t][j], call[h].job = j
          PROVE  j = DigestID[jobs'[t][j].hash]
      BY <2>2 DEF PutJob, BackedInv, OwnJob, WellRouted
    <2> QED
      BY <1>2, <2>1, <2>2, StoredFrom
  <1>3. ASSUME NEW t \in Tasks, NEW r \in Reports, claims'[t][r] # None
        PROVE  Backed(t, r)'
    <2>1. CASE claims'[t][r] = claims[t][r]
      <3>1. PICK j \in JobIDs : j = claims[t][r] /\ j = claims'[t][r]
        BY <1>3, <2>1 DEF TypeOK
      <3>2. Backed(t, r)
        BY <1>3, <2>1 DEF BackedInv
      <3>3. CASE \E a \in answered : a[1] = t /\ a[2] = j /\ Decides(a[3], r)
        BY <3>1, <3>3, AnswersKept DEF Backed
      <3>4. CASE \E h \in Handlers : Pending(h, t, j, r)
        <4>1. PICK h \in Handlers : Pending(h, t, j, r)
          BY <3>4
        <4>2. \/ Pending(h, t, j, r)'
              \/ \E a \in answered' : a[1] = t /\ a[2] = j /\ Decides(a[3], r)
          BY <4>1, PendingNext
        <4> QED
          BY <3>1, <4>2 DEF Backed, Pending
      <3> QED
        BY <3>1, <3>2, <3>3, <3>4 DEF Backed
    <2>2. CASE claims'[t][r] # claims[t][r]
      <3>1. PICK h \in Handlers : /\ ClaimAndBuild(h) /\ call[h].task = t
                                  /\ claims'[t][r] = call[h].job
                                  /\ r \in ReportIDs(Request(h).inits)
        BY <2>2, ClaimsFrom
      <3>2. claims[t][r] = None
        BY <2>2, ClaimsFrom
      <3>3. Pending(h, call[h].task, call[h].job, r)'
        BY <3>1, <3>2, ClaimerDecides
      <3>4. call'[h] = call[h]
        BY <3>1 DEF ClaimAndBuild
      <3> QED
        BY <3>1, <3>3, <3>4 DEF Backed, Pending
    <2> QED
      BY <2>1, <2>2
  <1> QED
    BY <1>1, <1>2, <1>3 DEF BackedInv

\* In the state the server starts in there is nothing to back.
LEMMA BackedInit == Init => BackedInv
  BY DEF Init, BackedInv, OwnJob

-----------------------------------------------------------------------------
(* The result.                                                              *)

\* A backed claim is one the property accepts.
LEMMA BackedGivesClaims == TypeOK /\ BackedInv => ClaimsBacked
  <1> SUFFICES ASSUME BackedInv, NEW t \in Tasks, NEW r \in Reports, claims[t][r] # None
               PROVE  \E job \in {a[3] : a \in {x \in answered : x[1] = t /\ x[2] = claims[t][r]}}
                              \union {built[h] : h \in {k \in Handlers :
                                       /\ pc[k] \in {"put", "recheck"}
                                       /\ call[k].task = t /\ call[k].job = claims[t][r]}} :
                         Decides(job, r)
    BY DEF ClaimsBacked, Decides
  <1>1. Backed(t, r)
    BY DEF BackedInv
  <1> QED
    BY <1>1 DEF Backed, Pending

\* Where tasks are served on POST only, no report is claimed for nothing: whoever
\* holds the claim has answered with a verdict on the report or is about to.
THEOREM ClaimsAreBacked == PostOnly /\ DigestsApart /\ Spec => []ClaimsBacked
  <1>1. PostOnly /\ DigestsApart => (PostOnly /\ DigestsApart)'
    BY DEF PostOnly, DigestsApart
  <1>2. PostOnly /\ DigestsApart /\ TypeOK /\ SafeInv /\ BackedInv /\ [Next]_vars => BackedInv'
    BY BackedNext
  <1> QED
    BY <1>1, <1>2, BackedInit, BackedGivesClaims, SafeInvariant, PTL DEF Spec
=============================================================================
