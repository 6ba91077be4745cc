---------------------------- MODULE MCReconciler ----------------------------
(***************************************************************************)
(* Instances of Reconciler for TLC: the specs a user moves between in each *)
(* run.  m1 and m2 are two models, r1 and r2 two runtime settings, shared1 *)
(* and shared2 two claims that exist from the start.                       *)
(***************************************************************************)
EXTENDS Refinement, TLC

CONSTANTS vllm, m1, m2, r1, r2, shared1, shared2

MCEngines == {vllm}
OneModel == {m1}
BothModels == {m1, m2}
OneRuntime == {r1}
NoClaims == {}
OneClaim == {shared1}
BothClaims == {shared1, shared2}

ModelSymmetry == Permutations(BothModels)

SpecOf(model, weightCache, replicas) ==
    [engine |-> vllm, model |-> model, runtime |-> r1, weightCache |-> weightCache,
     replicas |-> replicas, autoscaling |-> NoAutoscaling, minAvailable |-> 1]

\* A model switch.
RolloutSpecs == {SpecOf(m1, Managed, 1), SpecOf(m2, Managed, 1)}

\* A model switch and a way back that also changes the size, so that a
\* rollout can be held with two ReplicaSets of the wrong total size; or a switch
\* to pods that fetch their own weights, which nothing holds back, so that two
\* ReplicaSets are old before either has a ready pod.
ResizeSpecs ==
    RolloutSpecs \cup {SpecOf(m1, Managed, 2), SpecOf(m1, NoCache, 1)}
SmallSpecs == {SpecOf(m1, Managed, 1)}

\* A model switch between a shared claim and the operator's own.
FailureSpecs == {SpecOf(m1, shared1, 1), SpecOf(m2, Managed, 1)}

TeardownSpecs == {SpecOf(m1, Managed, 1)}

\* kubectl scale, across the point where a budget makes sense.
ScaleSpecs == {SpecOf(m1, Managed, n) : n \in 0 .. 2}

\* A claim is lost, or a pass is cut short or other children are deleted.
OneMishap == losses = 0 \/ faults + drifts = 0

\* Up at once or after a second, down after two.
Policy(min, max) ==
    [MinReplicas |-> min, MaxReplicas |-> max, TargetQueueDepth |-> 1,
     MaxScaleUpStep |-> 1, ScaleUpAfter |-> 1, ScaleDownAfter |-> 2]

AutoscaleSpecs ==
    {[SpecOf(m1, NoCache, 1) EXCEPT !.autoscaling = Policy(1, 2)]}

\* A model switch, and objects whose size follows the queue, down again after a
\* second.
QueueSpec(model) ==
    [SpecOf(model, NoCache, 1) EXCEPT !.autoscaling = [Policy(1, 2) EXCEPT !.ScaleDownAfter = 1]]

RaceSpecs == RolloutSpecs \cup {QueueSpec(m) : m \in BothModels}

\* An autoscaled object is left to its load, any other to its user and to faults.
\* Before the first change of its size, which no window delays, all times are alike.
LoadOrUser ==
    /\ lastCommit = 0 => clock' = clock
    /\ md # None =>
         IF md.spec.autoscaling = NoAutoscaling
         THEN md'.spec.autoscaling = NoAutoscaling
         ELSE edits' = edits /\ faults' = faults

\* The same model on another claim.
ClaimSpecs == {SpecOf(m1, shared1, 1), SpecOf(m1, shared2, 1)}
=============================================================================
