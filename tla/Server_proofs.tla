---------------------------- MODULE Server_proofs ----------------------------
(***************************************************************************)
(* Anti-replay across restarts, proved for every choice of the constants   *)
(* of module Server in which a report ID goes with one HPKE key.           *)
(*                                                                         *)
(* A restart empties the claims, so nothing in the store speaks against a  *)
(* report that was counted before.  What does is the new key pair: the     *)
(* report no longer opens.  The invariant therefore dates every answer by  *)
(* the start in which it was given: its finished reports were sealed to    *)
(* the key of that start, and those of the current start are claimed.      *)
(***************************************************************************)
EXTENDS Server, Helper_proofs

Shapes == {"published", "janus"}

\* A Client draws a report ID once and seals the report to the key advertised
\* then: two report shares with one ID are sealed to one key.
OneKeyPerReport ==
    \A b, c \in Bodies, s, u \in Shapes :
        \A i \in 1..Len(Decode[b][s].inits), k \in 1..Len(Decode[c][u].inits) :
            Decode[b][s].inits[i].report = Decode[c][u].inits[k].report =>
                Decode[b][s].inits[i].ct.key = Decode[c][u].inits[k].ct.key

\* Some body brings in report r sealed to key.
SealedTo(r, key) ==
    \E b \in Bodies, s \in Shapes : \E i \in 1..Len(Decode[b][s].inits) :
        Decode[b][s].inits[i].report = r /\ Decode[b][s].inits[i].ct.key = key

JobSealedTo(job, key) ==
    \A i \in DOMAIN job.results :
        job.results[i].outcome = Finished => SealedTo(job.results[i].report, key)

RecordsCurrent ==
    /\ \A t \in Tasks : tasks[t] # None => tasks[t].hpkeKey = CurrentKey
    /\ \A h \in Handlers : pc[h] # "idle" => snap[h].hpkeKey = CurrentKey

JobsCurrent ==
    /\ \A t \in Tasks, j \in JobIDs : jobs[t][j] # None => JobSealedTo(jobs[t][j], CurrentKey)
    /\ \A h \in Handlers : pc[h] \in {"put", "recheck"} => JobSealedTo(built[h], CurrentKey)

\* Answer a was given in start n.
GivenIn(a, n) ==
    /\ JobSealedTo(a[3], KeyPairs[n])
    /\ n = starts => SoundJob(claims, a[1], a[2], a[3])

History == \A a \in answered : \E n \in 1..starts : GivenIn(a, n)

KeyInv ==
    /\ starts \in 1..Len(KeyPairs)
    /\ RecordsCurrent /\ JobsCurrent /\ History

-----------------------------------------------------------------------------
(* Types and store, step by step of the server.                             *)

\* A step of a handler is a step of the Helper that registers no task.
LEMMA HandlerStep ==
    ASSUME NEW h \in Handlers, ServeHTTP(h) \/ Proceed(h)
    PROVE  Next /\ UNCHANGED tasks
  <1>1. Next
    BY DEF Next
  <1>2. ASSUME ServeHTTP(h)
        PROVE  UNCHANGED tasks
    BY <1>2 DEF ServeHTTP, handleCreate, handleJanusInit, handleAggregateShare, Begin,
                handleGet, DeleteJob, ServeUnrouted, store
  <1>3. ASSUME Proceed(h)
        PROVE  UNCHANGED tasks
    BY <1>3 DEF Proceed, ReadFails, RejectRequest, RejectAll, LookUp, ClaimAndBuild, PutJob,
                Recheck, SumShares, store
  <1> QED
    BY <1>1, <1>2, <1>3

\* The first start satisfies every invariant below.
LEMMA ServerStart ==
    ServerInit => TypeOK /\ SafeInv /\ KeyInv /\ OneJobPerReport
  <1> SUFFICES ASSUME ServerInit
               PROVE  TypeOK /\ SafeInv /\ KeyInv /\ OneJobPerReport
    OBVIOUS
  <1>1. TypeOK /\ SafeInv
    BY TypeInit, SafeInit DEF ServerInit
  <1>2. starts \in 1..Len(KeyPairs)
    BY KeyPairAssumption DEF ServerInit
  <1>3. RecordsCurrent /\ JobsCurrent /\ History /\ OneJobPerReport
    BY DEF ServerInit, Init, RecordsCurrent, JobsCurrent, History, OneJobPerReport
  <1> QED
    BY <1>1, <1>2, <1>3 DEF KeyInv

\* The store a new process starts with is well typed and safe.
LEMMA RestartFresh ==
    ASSUME TypeOK, Restart
    PROVE  TypeOK' /\ SafeInv'
  <1>1. TypeOK'
    BY DEF Restart, TypeOK
  <1>2. SafeInv'
    BY DEF Restart, SafeInv, StoredSound, BuiltSound, ClaimReady, CountedOnce
  <1> QED
    BY <1>1, <1>2

\* add_task registers a record of the types, and touches no job and no claim.
LEMMA HandleAddTaskSafe ==
    ASSUME TypeOK, SafeInv, starts \in 1..Len(KeyPairs), NEW req \in AddRequests,
           handleAddTask(req)
    PROVE  TypeOK' /\ SafeInv'
  <1>1. tasks' \in [Tasks -> Configs \union {None}]
    <2>1. CASE ~AcceptsTask(req)
      BY <2>1 DEF handleAddTask, TypeOK
    <2>2. CASE AcceptsTask(req)
      <3>1. RegisteredTask(req, CurrentKey) \in Configs
        BY <2>2, RegisteredAssumption DEF CurrentKey
      <3> QED
        BY <2>2, <3>1 DEF handleAddTask, TypeOK
    <2> QED
      BY <2>1, <2>2
  <1>2. TypeOK'
    BY <1>1 DEF handleAddTask, TypeOK
  <1>3. StoredSound' /\ BuiltSound'
    BY DEF handleAddTask, SafeInv, StoredSound, BuiltSound
  <1>4. ClaimReady'
    BY DEF handleAddTask, SafeInv, ClaimReady, Request, RouteVariant
  <1>5. CountedOnce'
    BY DEF handleAddTask, CountedOnce
  <1> QED
    BY <1>2, <1>3, <1>4, <1>5 DEF SafeInv

\* The other control routes change nothing.
LEMMA HandleReadySafe ==
    ASSUME TypeOK, SafeInv, handleReady
    PROVE  TypeOK' /\ SafeInv'
  <1>1. TypeOK'
    BY DEF handleReady, TypeOK
  <1>2. SafeInv'
    BY DEF handleReady, SafeInv, StoredSound, BuiltSound, ClaimReady, Request, RouteVariant,
           CountedOnce
  <1> QED
    BY <1>1, <1>2

\* Types and store invariants hold through restarts and registrations.
LEMMA ServerSafeNext ==
    ASSUME TypeOK, SafeInv, starts \in 1..Len(KeyPairs), [ServerNext]_serverVars
    PROVE  TypeOK' /\ SafeInv' /\ starts' \in 1..Len(KeyPairs)
  <1>1. CASE \E req \in AddRequests : handleAddTask(req)
    BY <1>1, HandleAddTaskSafe DEF handleAddTask
  <1>2. CASE handleReady
    BY <1>2, HandleReadySafe DEF handleReady
  <1>3. CASE \E h \in Handlers : (ServeHTTP(h) \/ Proceed(h)) /\ UNCHANGED starts
    BY <1>3, HandlerStep, TypeNext, SafeNext
  <1>4. CASE Restart
    BY <1>4, RestartFresh, KeyPairAssumption DEF Restart
  <1>5. CASE UNCHANGED serverVars
    <2>1. UNCHANGED vars /\ UNCHANGED starts
      BY <1>5 DEF serverVars, vars
    <2> QED
      BY <2>1, TypeNext, SafeNext
  <1> QED
    BY <1>1, <1>2, <1>3, <1>4, <1>5 DEF ServerNext

-----------------------------------------------------------------------------
(* The key of the running process.                                          *)

\* A report a handler finishes was sealed to the key of the handler's record.
LEMMA BuildSealedTo ==
    ASSUME NEW h, call[h] \in Call, call[h].op \in {"create", "janus"}, NEW vk, NEW variant,
           NEW replayed
    PROVE  JobSealedTo(buildInitJob(snap[h], vk, variant, call[h].body, Request(h).inits, replayed),
                       snap[h].hpkeKey)
  <1> DEFINE inits == Request(h).inits
             job   == buildInitJob(snap[h], vk, variant, call[h].body, inits, replayed)
  <1>1. /\ DOMAIN job.results = 1..Len(inits)
        /\ \A i \in 1..Len(inits) :
              /\ job.results[i].report = inits[i].report
              /\ job.results[i].outcome = IF inits[i].report \in replayed
                                          THEN "ReportReplayed"
                                          ELSE aggregateInit(snap[h], vk, variant, inits[i])
    BY DEF buildInitJob
  <1>2. /\ call[h].body \in Bodies /\ Shape(RouteVariant(h)) \in Shapes
        /\ inits = Decode[call[h].body][Shape(RouteVariant(h))].inits
    BY RequestReports DEF Shape, Shapes, Request
  <1> HIDE DEF job, inits
  <1>3. ASSUME NEW i \in 1..Len(inits), job.results[i].outcome = Finished
        PROVE  SealedTo(job.results[i].report, snap[h].hpkeKey)
    <2>1. aggregateInit(snap[h], vk, variant, inits[i]) = Finished
      BY <1>1, <1>3 DEF Finished
    <2>2. inits[i].ct.key = snap[h].hpkeKey
      BY <2>1 DEF aggregateInit, Finished, Opens, HpkeOpens
    <2> QED
      BY <1>1, <1>2, <2>2 DEF SealedTo
  <1>4. JobSealedTo(job, snap[h].hpkeKey)
    BY <1>1, <1>3 DEF JobSealedTo
  <1> QED
    BY <1>4 DEF job, inits

\* The records handlers read are those of the running process.
LEMMA RecordsNext ==
    ASSUME TypeOK, RecordsCurrent, [Next]_vars, UNCHANGED <<tasks, starts>>
    PROVE  RecordsCurrent'
  <1>1. CurrentKey' = CurrentKey
    BY DEF CurrentKey
  <1>2. ASSUME NEW k \in Handlers, pc'[k] # "idle"
        PROVE  snap'[k].hpkeKey = CurrentKey
    <2>1. CASE pc[k] # "idle" /\ snap'[k] = snap[k]
      BY <2>1 DEF RecordsCurrent
    <2>2. CASE /\ tasks[call'[k].task] # None
               /\ snap'[k] = tasks[call'[k].task] /\ call'[k] \in Call
      BY <2>2 DEF RecordsCurrent, Call
    <2> QED
      BY <1>2, <2>1, <2>2, SnapFrom
  <1> QED
    BY <1>1, <1>2 DEF RecordsCurrent

\* Jobs in handlers and in the store hold reports of the running process.
LEMMA JobsNext ==
    ASSUME TypeOK, RecordsCurrent, JobsCurrent, [Next]_vars, UNCHANGED <<tasks, starts>>
    PROVE  JobsCurrent'
  <1>1. CurrentKey' = CurrentKey
    BY DEF CurrentKey
  <1>2. ASSUME NEW t \in Tasks, NEW j \in JobIDs, jobs'[t][j] # None
        PROVE  JobSealedTo(jobs'[t][j], CurrentKey)
    <2>1. CASE jobs'[t][j] = jobs[t][j]
      BY <1>2, <2>1 DEF JobsCurrent
    <2>2. ASSUME NEW h \in Handlers, PutJob(h), built[h] = jobs'[t][j]
          PROVE  JobSealedTo(jobs'[t][j], CurrentKey)
      BY <2>2 DEF JobsCurrent, PutJob
    <2> QED
      BY <1>2, <2>1, <2>2, StoredFrom
  <1>3. ASSUME NEW k \in Handlers, pc'[k] \in {"put", "recheck"}
        PROVE  JobSealedTo(built'[k], CurrentKey)
    <2>1. CASE pc[k] \in {"put", "recheck"} /\ built'[k] = built[k]
      BY <2>1 DEF JobsCurrent
    <2>2. CASE RejectAll(k)
      <3>1. built'[k] = buildRejectAllJob(snap[k], call[k].body, Request(k).inits,
                                          "UnknownVerificationKeyID")
        BY <2>2 DEF RejectAll, TypeOK
      <3> QED
        BY <3>1 DEF buildRejectAllJob, JobSealedTo, Finished
    <2>3. CASE ClaimAndBuild(k)
      <3>1. /\ call[k] \in Call /\ call[k].op \in {"create", "janus"}
            /\ snap[k].hpkeKey = CurrentKey
        BY <2>3 DEF ClaimAndBuild, TypeOK, RecordsCurrent
      <3>2. \E vk, variant, replayed :
               built'[k] = buildInitJob(snap[k], vk, variant, call[k].body, Request(k).inits,
                                        replayed)
        BY <2>3 DEF ClaimAndBuild, TypeOK
      <3> QED
        BY <3>1, <3>2, BuildSealedTo
    <2> QED
      BY <1>3, <2>1, <2>2, <2>3, BuiltFrom
  <1> QED
    BY <1>1, <1>2, <1>3 DEF JobsCurrent

\* The history stays dated.
LEMMA HistoryNext ==
    ASSUME TypeOK, SafeInv, KeyInv, [Next]_vars, UNCHANGED <<tasks, starts>>
    PROVE  /\ History'
           /\ \A a \in answered' \ answered : GivenIn(a, starts)'
  <1>1. ASSUME NEW a \in answered' \ answered
        PROVE  GivenIn(a, starts)'
    <2>1. SoundJob(claims', a[1], a[2], a[3])
      BY <1>1, NewAnswersSound
    <2>2. JobSealedTo(a[3], CurrentKey)
      BY <1>1, AnsweredFrom DEF KeyInv, JobsCurrent, PutJob
    <2> QED
      BY <2>1, <2>2 DEF GivenIn, CurrentKey
  <1>2. ASSUME NEW a \in answered
        PROVE  \E n \in 1..starts' : GivenIn(a, n)'
    <2>1. PICK n \in 1..starts : GivenIn(a, n)
      BY <1>2 DEF KeyInv, History
    <2>2. a[1] \in Tasks /\ a[2] \in JobIDs /\ a[3] \in Job
      BY <1>2 DEF TypeOK
    <2>3. GivenIn(a, n)'
      BY <2>1, <2>2, ClaimsOnlyGrow, SoundJobKept DEF GivenIn
    <2> QED
      BY <2>1, <2>3
  <1>3. starts' \in 1..starts'
    BY DEF KeyInv
  <1> QED
    BY <1>1, <1>2, <1>3 DEF History

\* A key pair that two starts share makes them one start.
LEMMA SameKeySameStart ==
    ASSUME OneKeyPerReport, NEW r, NEW m \in 1..Len(KeyPairs), NEW n \in 1..Len(KeyPairs),
           SealedTo(r, KeyPairs[m]), SealedTo(r, KeyPairs[n])
    PROVE  m = n
  <1>1. PICK b \in Bodies, s \in Shapes : \E i \in 1..Len(Decode[b][s].inits) :
           Decode[b][s].inits[i].report = r /\ Decode[b][s].inits[i].ct.key = KeyPairs[m]
    BY DEF SealedTo
  <1>2. PICK c \in Bodies, u \in Shapes : \E k \in 1..Len(Decode[c][u].inits) :
           Decode[c][u].inits[k].report = r /\ Decode[c][u].inits[k].ct.key = KeyPairs[n]
    BY DEF SealedTo
  <1>3. KeyPairs[m] = KeyPairs[n]
    <2>1. PICK i \in 1..Len(Decode[b][s].inits) :
             Decode[b][s].inits[i].report = r /\ Decode[b][s].inits[i].ct.key = KeyPairs[m]
      BY <1>1
    <2>2. PICK k \in 1..Len(Decode[c][u].inits) :
             Decode[c][u].inits[k].report = r /\ Decode[c][u].inits[k].ct.key = KeyPairs[n]
      BY <1>2
    <2> DEFINE x == Decode[b][s].inits
               y == Decode[c][u].inits
    <2>3. \A p \in 1..Len(x), q \in 1..Len(y) : x[p].report = y[q].report => x[p].ct.key = y[q].ct.key
      BY Zenon DEF OneKeyPerReport
    <2>4. x[i].ct.key = y[k].ct.key
      <3> HIDE DEF x, y
      <3>1. x[i].report = y[k].report
        BY <2>1, <2>2 DEF x, y
      <3>2. i \in 1..Len(x) /\ k \in 1..Len(y)
        BY DEF x, y
      <3> QED
        BY <2>3, <3>1, <3>2
    <2> QED
      BY <2>1, <2>2, <2>4
  <1> QED
    BY <1>3, KeyPairAssumption

\* A report finished in the running start is claimed, and one finished in an earlier
\* start is sealed to another key, so no new answer repeats it under another ID.
LEMMA OneJobNext ==
    ASSUME OneKeyPerReport, TypeOK, SafeInv, KeyInv, OneJobPerReport, [Next]_vars,
           UNCHANGED <<tasks, starts>>
    PROVE  OneJobPerReport'
  <1>1. ASSUME NEW a \in answered' \ answered, NEW b \in answered', a[1] = b[1],
               NEW r \in FinishedReports(a[3]), r \in FinishedReports(b[3])
        PROVE  a[2] = b[2]
    <2>1. GivenIn(a, starts)' /\ starts' = starts /\ starts \in 1..Len(KeyPairs)
      BY HistoryNext DEF KeyInv
    <2>2. PICK n \in 1..starts : GivenIn(b, n)'
      BY <2>1, HistoryNext DEF History
    <2>3. SealedTo(r, KeyPairs[starts]) /\ SealedTo(r, KeyPairs[n])
      BY <1>1, <2>1, <2>2 DEF GivenIn, JobSealedTo, FinishedReports
    <2>4. n = starts
      <3>1. n \in 1..Len(KeyPairs)
        BY <2>1, <2>2, KeyPairAssumption
      <3> QED
        BY <2>1, <2>3, <3>1, SameKeySameStart
    <2>5. /\ SoundJob(claims', a[1], a[2], a[3])
          /\ SoundJob(claims', b[1], b[2], b[3])
      BY <2>1, <2>2, <2>4 DEF GivenIn
    <2>6. claims'[a[1]][r] = a[2] /\ claims'[b[1]][r] = b[2]
      BY <1>1, <2>5 DEF SoundJob, Owned, FinishedReports
    <2> QED
      BY <1>1, <2>6
  <1>2. ASSUME NEW a \in answered', NEW b \in answered', a[1] = b[1],
               FinishedReports(a[3]) \intersect FinishedReports(b[3]) # {}
        PROVE  a[2] = b[2]
    <2>1. CASE a \in answered /\ b \in answered
      BY <1>2, <2>1 DEF OneJobPerReport
    <2>2. CASE a \notin answered
      BY <1>1, <1>2, <2>2
    <2>3. CASE b \notin answered
      BY <1>1, <1>2, <2>3
    <2> QED
      BY <2>1, <2>2, <2>3
  <1> QED
    BY <1>2 DEF OneJobPerReport

-----------------------------------------------------------------------------
(* The server's steps, and the results.                                     *)

\* A registration under the current key leaves jobs and answers alone.
LEMMA AddTaskKeyed ==
    ASSUME TypeOK, KeyInv, NEW req \in AddRequests, handleAddTask(req)
    PROVE  KeyInv'
  <1>1. CurrentKey' = CurrentKey /\ UNCHANGED <<jobs, claims, pc, snap, built, answered, starts>>
    BY DEF handleAddTask, CurrentKey
  <1>2. ASSUME NEW t \in Tasks, tasks'[t] # None
        PROVE  tasks'[t].hpkeKey = CurrentKey
    <2>1. CASE tasks'[t] = tasks[t]
      BY <1>2, <2>1 DEF KeyInv, RecordsCurrent
    <2>2. CASE tasks'[t] = RegisteredTask(req, CurrentKey)
      BY <2>2 DEF RegisteredTask
    <2> QED
      BY <2>1, <2>2 DEF handleAddTask, AcceptsTask, TypeOK
  <1>3. RecordsCurrent'
    BY <1>1, <1>2 DEF KeyInv, RecordsCurrent
  <1>4. JobsCurrent' /\ History'
    BY <1>1 DEF KeyInv, JobsCurrent, History, GivenIn
  <1> QED
    BY <1>1, <1>3, <1>4 DEF KeyInv

\* After a restart every answer is one of an earlier start.
LEMMA RestartKeyed ==
    ASSUME KeyInv, Restart
    PROVE  KeyInv'
  <1>1. starts' = starts + 1 /\ starts \in Nat /\ starts' \in 1..Len(KeyPairs)
    BY KeyPairAssumption DEF Restart, KeyInv
  <1>2. RecordsCurrent' /\ JobsCurrent'
    BY DEF Restart, RecordsCurrent, JobsCurrent
  <1>3. ASSUME NEW a \in answered
        PROVE  \E n \in 1..starts' : GivenIn(a, n)'
    <2>1. PICK n \in 1..starts : GivenIn(a, n)
      BY DEF KeyInv, History
    <2>2. n \in 1..starts' /\ n # starts'
      BY <1>1
    <2> QED
      BY <2>1, <2>2 DEF GivenIn
  <1>4. History'
    BY <1>3 DEF Restart, History
  <1> QED
    BY <1>1, <1>2, <1>4 DEF KeyInv

\* Every step of the server keeps the invariant.
LEMMA ServerNextKeyed ==
    ASSUME OneKeyPerReport, TypeOK, SafeInv, KeyInv, OneJobPerReport, [ServerNext]_serverVars
    PROVE  KeyInv' /\ OneJobPerReport'
  <1>1. CASE \E req \in AddRequests : handleAddTask(req)
    BY <1>1, AddTaskKeyed DEF handleAddTask, OneJobPerReport
  <1>2. CASE Restart
    BY <1>2, RestartKeyed DEF Restart, OneJobPerReport
  <1>3. CASE [Next]_vars /\ UNCHANGED <<tasks, starts>>
    BY <1>3, RecordsNext, JobsNext, HistoryNext, OneJobNext DEF KeyInv
  <1>4. CASE \E h \in Handlers : (ServeHTTP(h) \/ Proceed(h)) /\ UNCHANGED starts
    BY <1>3, <1>4, HandlerStep
  <1>5. CASE UNCHANGED serverVars
    BY <1>3, <1>5 DEF serverVars, vars
  <1>6. CASE handleReady
    <2>1. UNCHANGED <<tasks, jobs, claims, pc, snap, built, answered, starts>>
      BY <1>6 DEF handleReady
    <2> QED
      BY <2>1 DEF KeyInv, RecordsCurrent, JobsCurrent, History, GivenIn, CurrentKey,
                  OneJobPerReport
  <1> QED
    BY <1>1, <1>2, <1>4, <1>5, <1>6 DEF ServerNext

\* Types hold in every state of the server, whatever is registered and however
\* often the process is started.
THEOREM ServerTypeCorrect == ServerSpec => []TypeOK
  <1>1. ServerInit => TypeOK /\ SafeInv /\ starts \in 1..Len(KeyPairs)
    BY ServerStart DEF KeyInv
  <1>2. TypeOK /\ SafeInv /\ starts \in 1..Len(KeyPairs) /\ [ServerNext]_serverVars
           => (TypeOK /\ SafeInv /\ starts \in 1..Len(KeyPairs))'
    BY ServerSafeNext
  <1> QED
    BY <1>1, <1>2, PTL DEF ServerSpec

\* No aggregate share sums two output shares of one report, through restarts and
\* replaced task records.
THEOREM ServerCountsOnce == ServerSpec => []CountedOnce
  <1>1. ServerInit => TypeOK /\ SafeInv /\ starts \in 1..Len(KeyPairs)
    BY ServerStart DEF KeyInv
  <1>2. TypeOK /\ SafeInv /\ starts \in 1..Len(KeyPairs) /\ [ServerNext]_serverVars
           => (TypeOK /\ SafeInv /\ starts \in 1..Len(KeyPairs))'
    BY ServerSafeNext
  <1>3. SafeInv => CountedOnce
    BY DEF SafeInv
  <1> QED
    BY <1>1, <1>2, <1>3, PTL DEF ServerSpec

\* The invariant of the server: types, a safe store, and answers dated by start.
ServerInv == OneKeyPerReport /\ TypeOK /\ SafeInv /\ KeyInv /\ OneJobPerReport

\* ServerInv is an invariant.
LEMMA ServerInvariant == OneKeyPerReport /\ ServerSpec => []ServerInv
  <1>1. OneKeyPerReport /\ ServerInit => ServerInv
    BY ServerStart DEF ServerInv
  <1>2. ServerInv /\ [ServerNext]_serverVars => ServerInv'
    <2> SUFFICES ASSUME ServerInv, [ServerNext]_serverVars
                 PROVE  ServerInv'
      OBVIOUS
    <2> USE DEF ServerInv
    <2>1. OneKeyPerReport'
      BY DEF OneKeyPerReport, Shapes
    <2>2. TypeOK' /\ SafeInv'
      BY ServerSafeNext DEF KeyInv
    <2>3. KeyInv' /\ OneJobPerReport'
      BY ServerNextKeyed
    <2> QED
      BY <2>1, <2>2, <2>3
  <1> QED
    BY <1>1, <1>2, PTL DEF ServerSpec

\* A report counts for one job ID of its task over all the starts of the process,
\* although each start forgets every claim.
THEOREM AntiReplayAcrossRestarts == OneKeyPerReport /\ ServerSpec => []OneJobPerReport
  <1>1. ServerInv => OneJobPerReport
    BY DEF ServerInv
  <1> QED
    BY <1>1, ServerInvariant, PTL
=============================================================================
