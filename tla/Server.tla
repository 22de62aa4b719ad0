------------------------------- MODULE Server -------------------------------
(***************************************************************************)
(* The dap-helper command: one Helper over an in-memory store, the control *)
(* API that registers its tasks, the HPKE configuration it advertises, and *)
(* the process itself, which may die at any moment and be started again.   *)
(* Nothing is kept on disk: a start makes a new HPKE key pair and an empty *)
(* store, and requests that were being served are gone.                    *)
(***************************************************************************)
EXTENDS Helper

CONSTANTS
    KeyPairs,       \* the HPKE key pair of each start of the process, a sequence
    AddRequests     \* bodies of add_task, decoded

ASSUME KeyPairAssumption ==
    /\ Len(KeyPairs) \in Nat \ {0}
    /\ \A i, k \in 1..Len(KeyPairs) : KeyPairs[i] = KeyPairs[k] => i = k

VARIABLE starts     \* how often the process has been started

serverVars == <<tasks, jobs, claims, pc, call, snap, built, reply, answered, starts>>

helperHpkeConfigID == 1

\* The key pair of the running process.
CurrentKey == KeyPairs[starts]

-----------------------------------------------------------------------------
(* The control API.  An add_task body is a record                           *)
(*   json, role, vdaf   it parses; the role and the VDAF it names           *)
(*   taskID, vk         task ID and verify key; None: not of its length     *)
(*   config, batchMode  what goes into the TaskConfiguration                *)
(*   collector          [config, decodes, suite, key]: the Collector's HPKE *)
(*                      configuration, whether it decodes, its suite is     *)
(*                      supported and its key is one of the suite           *)

AcceptsTask(req) ==
    /\ req.json /\ req.role = "helper" /\ req.vdaf = "Prio3Count"
    /\ req.taskID \in Tasks /\ req.vk # None
    /\ req.collector.decodes /\ req.collector.suite

\* task_info is always the nine bytes of "task-info"; the Collector's key is not
\* looked at before a share is sealed to it.
RegisteredTask(req, key) ==
    [id |-> req.taskID, variant |-> "Draft18",
     config |-> [bytes |-> req.config, info |-> 9],
     ctx |-> DAPVDAFContextFor("Draft18", req.taskID),
     keys |-> [k \in {0} |-> req.vk],
     hpkeConfigID |-> helperHpkeConfigID, hpkeKey |-> key,
     batchMode |-> req.batchMode,
     collector |-> req.collector.config, collectorOk |-> req.collector.key]

\* Configs holds every record the control API can register.
ASSUME RegisteredAssumption ==
    \A req \in AddRequests, i \in 1..Len(KeyPairs) :
        AcceptsTask(req) => RegisteredTask(req, KeyPairs[i]) \in Configs

\* A task is registered whole or not at all, and silently replaces one with its
\* ID.  Control responses are not kept: reply is for the DAP resources.
handleAddTask(req) ==
    /\ tasks' = IF AcceptsTask(req)
                THEN [tasks EXCEPT ![req.taskID] = RegisteredTask(req, CurrentKey)]
                ELSE tasks
    /\ reply' = None
    /\ UNCHANGED <<jobs, claims, pc, call, snap, built, answered, starts>>

\* ready, endpoint_for_task and hpke_config answer from constants.
handleReady ==
    /\ reply' = None
    /\ UNCHANGED <<tasks, jobs, claims, pc, call, snap, built, answered, starts>>

-----------------------------------------------------------------------------
\* The new process goes on with the old key pair.
Restart_KeepsKey ==
    /\ starts < Len(KeyPairs)
    /\ starts' = starts
    /\ tasks' = [t \in Tasks |-> None]
    /\ jobs' = [t \in Tasks |-> [j \in JobIDs |-> None]]
    /\ claims' = [t \in Tasks |-> [r \in Reports |-> None]]
    /\ pc' = [h \in Handlers |-> "idle"]
    /\ call' = [h \in Handlers |-> None]
    /\ snap' = [h \in Handlers |-> None]
    /\ built' = [h \in Handlers |-> None]
    /\ reply' = None
    /\ UNCHANGED answered

\* The process dies and main runs again.
Restart ==
    /\ starts < Len(KeyPairs)
    /\ starts' = starts + 1
    /\ tasks' = [t \in Tasks |-> None]
    /\ jobs' = [t \in Tasks |-> [j \in JobIDs |-> None]]
    /\ claims' = [t \in Tasks |-> [r \in Reports |-> None]]
    /\ pc' = [h \in Handlers |-> "idle"]
    /\ call' = [h \in Handlers |-> None]
    /\ snap' = [h \in Handlers |-> None]
    /\ built' = [h \in Handlers |-> None]
    /\ reply' = None
    /\ UNCHANGED answered

ServerInit == Init /\ starts = 1

ServerNext ==
    \/ \E req \in AddRequests : handleAddTask(req)
    \/ handleReady
    \/ \E h \in Handlers : (ServeHTTP(h) \/ Proceed(h)) /\ UNCHANGED starts
    \/ Restart

ServerSpec == ServerInit /\ [][ServerNext]_serverVars

=============================================================================
