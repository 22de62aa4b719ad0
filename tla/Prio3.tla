------------------------------- MODULE Prio3 -------------------------------
(***************************************************************************)
(* Prio3Count between its three parties: a Client splits a measurement and *)
(* its proof into two shares, each Aggregator queries its share on its own *)
(* at the test point both derive from the verification key and the report  *)
(* ID, the verifier shares decide, and accepted output shares are added    *)
(* into one aggregate share per Aggregator.                                *)
(*                                                                         *)
(* The XOF is external: whatever it expands a seed or a key into is a free *)
(* choice here, the same one wherever the code expands the same input.     *)
(***************************************************************************)
EXTENDS Flp, FiniteSets

CONSTANTS
    MeasShares,     \* what a Helper's seed may expand into: measurement shares
    ProofShares,    \* and proof shares
    ProveRands,     \* what the proof's seed may expand into
    Forgeries,      \* [meas, proof] pairs a dishonest Client may share
    MaxReports,     \* reports verified, at most
    None

\* Shares, measurements, proofs and their randomness are made of field elements.
ASSUME ShareAssumption ==
    /\ MeasShares \subseteq Elt
    /\ ProofShares \subseteq Proofs
    /\ ProveRands \subseteq Seeds
    /\ \A f \in Forgeries : f.meas \in Elt /\ f.proof \in Proofs

VARIABLES
    phase,          \* "idle", "sharded", "queried" or "decided"
    secret,         \* the Client's measurement and proof, and whether it is honest
    leader, helper, \* the Aggregators' shares, [meas, proof]
    point,          \* the test point
    shares,         \* the verifier shares made so far, by Aggregator
    accepted,       \* the verdict of the last report, None before it
    agg,            \* the aggregate share of each Aggregator
    verified,       \* how many reports were accepted
    total           \* history: the sum of their measurements

vars == <<phase, secret, leader, helper, point, shares, accepted, agg, verified, total>>

Aggregators == {"leader", "helper"}

ShareOf(a) == IF a = "leader" THEN leader ELSE helper

-----------------------------------------------------------------------------
Encodes(measurement) == measurement \in {0, 1}

AggregateInit == 0

\* The last output share takes the place of the sum.
AggregateUpdate_Replaces(aggShare, outShare) == outShare

AggregateUpdate(aggShare, outShare) == Add(aggShare, outShare)

Unshard(aggShares) == Add(aggShares["leader"], aggShares["helper"])

Init ==
    /\ phase = "idle"
    /\ secret = None /\ leader = None /\ helper = None /\ point = None
    /\ shares = [a \in Aggregators |-> None]
    /\ accepted = None
    /\ agg = [a \in Aggregators |-> AggregateInit]
    /\ verified = 0 /\ total = 0

\* The Helper's shares come from its seed, the Leader's are what is left.
Split(meas, proof, ms, ps) ==
    /\ helper' = [meas |-> ms, proof |-> ps]
    /\ leader' = [meas |-> Sub(meas, ms), proof |-> VecSub(proof, ps)]

\* An honest Client's report.
Shard(measurement, rand, ms, ps) ==
    /\ phase = "idle" /\ verified < MaxReports
    /\ Encodes(measurement)
    /\ Split(New(measurement), Prove(New(measurement), rand), ms, ps)
    /\ secret' = [honest |-> TRUE, meas |-> measurement]
    /\ phase' = "sharded"
    /\ accepted' = None
    /\ UNCHANGED <<point, shares, agg, verified, total>>

\* A dishonest Client's report: shares of any measurement and any proof.
Forge(f, ms, ps) ==
    /\ phase = "idle" /\ verified < MaxReports
    /\ Split(f.meas, f.proof, ms, ps)
    /\ secret' = [honest |-> FALSE, meas |-> f.meas]
    /\ phase' = "sharded"
    /\ accepted' = None
    /\ UNCHANGED <<point, shares, agg, verified, total>>

\* The key and the report ID fix the test point.
DerivePoint(t) ==
    /\ phase = "sharded" /\ point = None
    /\ point' = t
    /\ UNCHANGED <<phase, secret, leader, helper, shares, accepted, agg, verified, total>>

\* An Aggregator's verification step fails on a forbidden test point, which
\* ends the report, and yields its verifier share otherwise.
VerifyInit(a) ==
    /\ phase = "sharded" /\ point # None /\ shares[a] = None
    /\ \/ /\ QueryRefused(point)
          /\ phase' = "idle"
          /\ accepted' = FALSE
          /\ shares' = [b \in Aggregators |-> None]
          /\ secret' = None /\ leader' = None /\ helper' = None /\ point' = None
       \/ /\ ~QueryRefused(point)
          /\ shares' = [shares EXCEPT ![a] = Query(ShareOf(a).meas, ShareOf(a).proof, point)]
          /\ phase' = IF \A b \in Aggregators : shares'[b] # None
                      THEN "queried" ELSE "sharded"
          /\ UNCHANGED <<secret, leader, helper, point, accepted>>
    /\ UNCHANGED <<agg, verified, total>>

\* The verifier shares add up to a verdict; an accepted report's output shares
\* are its measurement shares.
VerifierSharesToMessage ==
    /\ phase = "queried"
    /\ accepted' = Decide(VecAdd(shares["leader"], shares["helper"]))
    /\ \/ /\ accepted'
          /\ agg' = [a \in Aggregators |-> AggregateUpdate(agg[a], ShareOf(a).meas)]
          /\ verified' = verified + 1
          /\ total' = total + secret.meas
       \/ ~accepted' /\ UNCHANGED <<agg, verified, total>>
    /\ phase' = "decided"
    /\ UNCHANGED <<secret, leader, helper, point, shares>>

\* The Aggregators turn to the next report.
NextReport ==
    /\ phase = "decided"
    /\ phase' = "idle"
    /\ shares' = [a \in Aggregators |-> None]
    /\ secret' = None /\ leader' = None /\ helper' = None /\ point' = None
    /\ UNCHANGED <<accepted, agg, verified, total>>

Next ==
    \/ \E m \in Elt, r \in ProveRands, ms \in MeasShares, ps \in ProofShares :
          Shard(m, r, ms, ps)
    \/ \E f \in Forgeries, ms \in MeasShares, ps \in ProofShares : Forge(f, ms, ps)
    \/ \E t \in Elt : DerivePoint(t)
    \/ \E a \in Aggregators : VerifyInit(a)
    \/ VerifierSharesToMessage
    \/ NextReport

Spec == Init /\ [][Next]_vars

-----------------------------------------------------------------------------
\* An honest Client's report is accepted at every test point that is not
\* refused, however its shares and its proof were randomized: the query is
\* linear, so the two halves add up to a query of the whole.
HonestVerifies == phase = "decided" /\ secret.honest => accepted

\* A measurement other than 0 and 1 passes with no proof at more test points
\* than the gadget polynomial has roots.
Soundness ==
    phase = "sharded" /\ point = None /\ ~Encodes(secret.meas) =>
        Cardinality({t \in Elt :
            /\ ~QueryRefused(t)
            /\ Decide(VecAdd(Query(leader.meas, leader.proof, t),
                             Query(helper.meas, helper.proof, t)))}) =< Degree

\* The proofs an honest Client may make of m.
HonestProofs == [m \in {0, 1} |-> {Prove(m, seeds) : seeds \in Seeds}]

\* What their verifiers may be, at each test point.
Transcripts ==
    [t \in Elt |-> [m \in {0, 1} |-> {Query(m, p, t) : p \in HonestProofs[m]}]]

\* The verifiers that honest proofs of 0 may lead to are those that honest proofs
\* of 1 may lead to: at a test point that is not refused, the verification the
\* Aggregators see says nothing of the measurement.
ZeroKnowledge ==
    phase = "queried" => Transcripts[point][0] = Transcripts[point][1]

\* The Aggregators' sums, each over its own shares, unshard to the sum of the
\* measurements of the accepted reports.
AggregateExact == Unshard(agg) = total % Modulus
=============================================================================
