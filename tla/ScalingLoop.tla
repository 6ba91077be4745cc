----------------------------- MODULE ScalingLoop -----------------------------
(***************************************************************************)
(* The closed loop around scaling.Decide: passes of the operator read the  *)
(* queue, decide, store the size and then, in a write of its own, the time *)
(* of the decision, while time passes and the load changes.  A pass may    *)
(* end between the two writes.  Everything of the pass that does not touch *)
(* scaling is in module Reconciler; here the policies, the loads and the   *)
(* windows are general.                                                    *)
(***************************************************************************)
EXTENDS Scaling, FiniteSets

CONSTANTS
    Policies,     \* the policies a user may configure
    Pods,         \* the pods the metric is read from
    Metrics,      \* values a pod's metric takes, in thousandths
    Sizes,        \* initial replica counts
    Quiet,        \* the load stays as it is after this time
    Settling,     \* how long the loop may take to settle after that
    MaxLost,      \* bound on the passes that are cut short
    MaxTime       \* bound of the model

ASSUME PoliciesAssumption == \A p \in Policies : IsPolicy(p)
ASSUME LoopAssumption ==
    /\ IsFiniteSet(Pods)
    /\ Metrics \subseteq Int
    /\ Sizes \subseteq 0 .. MaxInt
    /\ Quiet \in Nat /\ Settling \in Nat /\ MaxLost \in Nat /\ MaxTime \in Nat \ {0}

VARIABLES
    policy,    \* the policy the API server holds
    replicas,  \* spec.replicas
    lastScale, \* status.lastScaleTime, 0 while unset
    pending,   \* time of a decision whose status write is outstanding, or 0
    now,
    polled,    \* a pass has completed at this time
    queue,     \* metric of each pod, Unavailable when the adapter is down
    cached,    \* the weights of the current spec are on the cache
    added,     \* replicas added for the queue's sake, ever
    removed,   \* replicas removed for the queue's sake, ever
    lost       \* passes that ended between their two writes

loopVars == <<policy, replicas, lastScale, pending, now, polled, queue, cached,
              added, removed, lost>>

\* A policy as the user wrote it, or as an Update of the operator left it.
Configured == Policies \cup {StoredPolicy(p) : p \in Policies}

LoopTypeOK ==
    /\ policy \in Configured
    /\ replicas \in 0 .. MaxInt
    /\ lastScale \in Nat /\ pending \in Nat /\ now \in Nat
    /\ polled \in BOOLEAN
    /\ queue \in [Pods -> Metrics] \cup {Unavailable}
    /\ cached \in BOOLEAN
    /\ added \in Nat /\ removed \in Nat /\ lost \in Nat

LoopInit ==
    /\ policy \in Policies
    /\ replicas \in Sizes
    /\ lastScale = 0
    /\ pending = 0
    /\ now = 1
    /\ polled = FALSE
    /\ queue \in [Pods -> Metrics]
    /\ cached \in BOOLEAN
    /\ added = 0
    /\ removed = 0
    /\ lost = 0

Reading == IF queue = Unavailable THEN Unavailable ELSE Depth(queue)

Observed(depth) ==
    [CurrentReplicas |-> replicas, QueueDepth |-> depth, WeightsCached |-> cached,
     LastScale |-> lastScale, Now |-> now]

\* A pass decides on another size and stores it.  The Update carries the whole
\* spec: its zeroes, the new size included, are defaulted.
ApplyDecision ==
    LET depth == Reading
        d == Decide(policy, Observed(depth))
        size == OrDefault(d.Replicas, 1)
    IN  /\ pending = 0
        /\ depth # Unavailable
        /\ d.Changed
        /\ replicas' = size
        /\ policy' = StoredPolicy(policy)
        /\ pending' = now
        /\ added' = IF d.Reason = "QueueAboveTarget" THEN added + size - replicas ELSE added
        /\ removed' = IF d.Reason = "QueueBelowTarget" THEN removed + replicas - size
                      ELSE removed
        /\ UNCHANGED <<lastScale, now, polled, queue, cached, lost>>

\* Mutant: the status write leaves the time of the decision out.
RecordNothing ==
    /\ pending # 0
    /\ pending' = 0
    /\ polled' = TRUE
    /\ UNCHANGED <<policy, replicas, lastScale, now, queue, cached, added, removed, lost>>

\* The same pass writes the status, with the time of the decision.
RecordTime ==
    /\ pending # 0
    /\ lastScale' = pending
    /\ pending' = 0
    /\ polled' = TRUE
    /\ UNCHANGED <<policy, replicas, now, queue, cached, added, removed, lost>>

\* An apply fails, the status write conflicts or the operator restarts: the
\* size is stored, the time is lost.
CutShort ==
    /\ pending # 0
    /\ lost < MaxLost
    /\ pending' = 0
    /\ lost' = lost + 1
    /\ UNCHANGED <<policy, replicas, lastScale, now, polled, queue, cached, added, removed>>

\* A pass that holds the size, by decision or for want of a reading.
HoldSize ==
    /\ pending = 0
    /\ ~polled
    /\ Reading # Unavailable => ~Decide(policy, Observed(Reading)).Changed
    /\ polled' = TRUE
    /\ UNCHANGED <<policy, replicas, lastScale, pending, now, queue, cached, added, removed, lost>>

ChangeLoad ==
    /\ now <= Quiet
    /\ queue' \in [Pods -> Metrics] \cup {Unavailable}
    /\ UNCHANGED <<policy, replicas, lastScale, pending, now, polled, cached, added, removed, lost>>

\* A spec with other weights arrives, or its weights do.
ChangeWeights ==
    /\ now <= Quiet
    /\ cached' = ~cached
    /\ UNCHANGED <<policy, replicas, lastScale, pending, now, polled, queue, added, removed, lost>>

\* Passes may be late while the load changes.  Afterwards one second stands
\* for the resyncInterval, and a pass completes in each.
PassTime ==
    /\ now < MaxTime
    /\ now > Quiet => polled
    /\ now' = now + 1
    /\ polled' = FALSE
    /\ UNCHANGED <<policy, replicas, lastScale, pending, queue, cached, added, removed, lost>>

Poll == ApplyDecision \/ RecordTime \/ HoldSize

LoopNext == Poll \/ CutShort \/ ChangeLoad \/ ChangeWeights \/ PassTime

LoopSpec == LoopInit /\ [][LoopNext]_loopVars

\* The operator polls for ever (resyncInterval), a pass that is not cut short
\* ends, and time does not stop.
FairLoopSpec == LoopSpec /\ WF_loopVars(Poll) /\ WF_loopVars(PassTime)

-----------------------------------------------------------------------------
(* Properties *)

\* What the queue calls for, independently of how Decide computes it: the
\* least number of replicas whose share of the waiting requests is within the
\* target, kept within the bounds.
Waiting == SumFunction(queue) \div 1000

Need ==
    LET enough == {n \in 0 .. Waiting : n * policy.TargetQueueDepth >= Waiting}
        least == CHOOSE n \in enough : \A m \in enough : n <= m
    IN  Minimum(Maximum(least, policy.MinReplicas), policy.MaxReplicas)

\* Decide never moves away from what the queue calls for and never past it:
\* every change lands strictly closer to Need, on the same side.
MovesTowardsNeed ==
    [][replicas' # replicas /\ queue # Unavailable =>
         \/ replicas < replicas' /\ replicas' <= Need
         \/ replicas > replicas' /\ replicas' >= Need]_loopVars

\* How many changes a window of w seconds leaves room for by time t.
Windows(t, w) == IF t = 0 THEN 0 ELSE 1 + (t - 1) \div w

\* A spike cannot claim the pool and a lull cannot empty it: whatever the load
\* does, by time now the queue has added at most one step per scale-up window
\* and removed at most one replica per scale-down window.  A pass cut short
\* between its two writes costs one step more, and never more than one.
RateBounded ==
    /\ policy.ScaleUpAfter > 0 =>
         added <= policy.MaxScaleUpStep * (Windows(now, policy.ScaleUpAfter) + lost)
    /\ policy.ScaleDownAfter > 0 =>
         removed <= Windows(now, policy.ScaleDownAfter) + lost

\* Cold weights freeze growth: a replica count never rises while the weights
\* of the current spec are not cached.
NoGrowthWhileCold == [][~cached => replicas' <= replicas]_loopVars

Settled == queue # Unavailable /\ cached => replicas = Need

\* Decide, polled at a steady load with cached weights: the loop settles at the
\* size the queue calls for under the policy the API server holds, within the
\* time its windows allow, and does not leave it again.
Converges == <>[]Settled /\ [](now > Quiet + Settling => Settled)

\* MinReplicas: "Zero is allowed and means the deployment scales to nothing when
\* idle".  A user's floor of zero and a queue that stays empty bring the size
\* to zero.
ReachesZero ==
    policy.MinReplicas = 0 /\ <>[](queue # Unavailable /\ Waiting = 0) => <>(replicas = 0)
=============================================================================
