---------------------------- MODULE ReportLedger ----------------------------
(***************************************************************************)
(* What the Helper promises about counting, as if it served one request at *)
(* a time: no claims, no handlers, no requests half way.  An entry is a    *)
(* task, a job and a report the job finished.                              *)
(***************************************************************************)
CONSTANTS Tasks, Reports, JobIDs

VARIABLES
    counted,    \* the entries the Leader was ever told of
    live,       \* the entries of the jobs that exist
    handed      \* the entries the last response summed for the Collector

Entries(t, j, S) == {<<t, j, r>> : r \in S}

LiveOf(t, j) == {e \in live : e[1] = t /\ e[2] = j}

Init == counted = {} /\ live = {} /\ handed = {}

\* The Leader is told that job j of task t finished the reports in S: no other job
\* counted one of them, and the job is new or exists with exactly these.
Settle(t, j, S) ==
    /\ \A e \in counted : e[1] = t /\ e[3] \in S => e[2] = j
    /\ LiveOf(t, j) \in {{}, Entries(t, j, S)}
    /\ counted' = counted \union Entries(t, j, S)
    /\ live' = live \union Entries(t, j, S)
    /\ handed' = {}

\* Job j of task t is deleted; what it counted stays counted.
Drop(t, j) ==
    /\ live' = live \ LiveOf(t, j)
    /\ handed' = {}
    /\ UNCHANGED counted

\* An aggregate share of task t sums what its jobs finished, and all of it.
Collect(t) ==
    /\ handed' = {e \in live : e[1] = t}
    /\ handed' # {}
    /\ UNCHANGED <<counted, live>>

\* Anything else the Helper does leaves the account alone.
Pass == handed' = {} /\ UNCHANGED <<counted, live>>

Next ==
    \/ Pass
    \/ \E t \in Tasks : Collect(t)
    \/ \E t \in Tasks, j \in JobIDs : Drop(t, j) \/ \E S \in SUBSET Reports : Settle(t, j, S)

Spec == Init /\ [][Next]_<<counted, live, handed>>
=============================================================================
