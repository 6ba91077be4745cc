--------------------------------- MODULE Api ---------------------------------
(***************************************************************************)
(* The ModelDeployment resource of api/v1alpha1/modeldeployment_types.go.  *)
(*                                                                         *)
(* model stands for the model name and revision together; runtime for      *)
(* every field that changes how weights are fetched or served without      *)
(* naming them (image, arguments, secretRef, warmImage, timeouts, ...).    *)
(* weightCache is NoCache when the section is absent, Managed when the     *)
(* operator creates the claim and otherwise the name of a shared claim.    *)
(***************************************************************************)
EXTENDS Integers, Scaling

CONSTANTS
    Engines, Models, Runtimes,
    SharedClaims,      \* claims a user may name in existingClaimName
    OwnClaim,          \* "<name>-weights", the claim the operator creates
    NoCache, Managed, NoAutoscaling,
    None               \* no object, no key

ASSUME ClaimsAssumption ==
    /\ OwnClaim \notin SharedClaims
    /\ NoCache \notin SharedClaims \cup {Managed, OwnClaim}
    /\ Managed \notin SharedClaims

Counts == 0 .. MaxInt

WeightCaches == {NoCache, Managed} \cup SharedClaims

AutoscalingSpec ==
    [MinReplicas : Counts, MaxReplicas : Counts \ {0},
     TargetQueueDepth : Counts \ {0}, MaxScaleUpStep : Counts \ {0},
     ScaleUpAfter : Nat, ScaleDownAfter : Nat]

ModelDeploymentSpec ==
    [engine : Engines, model : Models, runtime : Runtimes,
     weightCache : WeightCaches, replicas : Counts,
     autoscaling : AutoscalingSpec \cup {NoAutoscaling}, minAvailable : Counts]

ASSUME AbsentAssumption == NoAutoscaling \notin AutoscalingSpec

Keys == Engines \X Models

-----------------------------------------------------------------------------
(* The zeroes of a spec are defaulted like those of a policy (Scaling):    *)
(* Stored(s) is what a full Update of s leaves in the API server.          *)

StoredAutoscaling(a) == IF a = NoAutoscaling THEN a ELSE StoredPolicy(a)

Stored(s) ==
    [s EXCEPT !.replicas = OrDefault(@, 1),
              !.minAvailable = OrDefault(@, 1),
              !.autoscaling = StoredAutoscaling(@)]

-----------------------------------------------------------------------------
(* Status.  A condition is represented by its reason, which determines its *)
(* status; None is a condition that has not been written yet.              *)

CachedReasons == {"CacheDisabled", "WarmJobFailed", "Cached", "Warming"}
ReadyReasons == {"ScaledToZero", "WaitingForWeights", "ReplicasReady",
                 "ReplicasUnavailable"}
DegradedReasons == {"WarmJobFailed", "QueueMetricUnavailable", "AsExpected"}

ModelDeploymentStatus ==
    [observed : BOOLEAN,             \* observedGeneration = metadata.generation
     cacheKey : Keys \cup {None},
     replicas : Nat, readyReplicas : Nat,
     observedQueueDepth : Nat,
     lastScaleTime : Nat,            \* 0 while unset
     weightsCached : CachedReasons \cup {None},
     ready : ReadyReasons \cup {None},
     degraded : DegradedReasons \cup {None}]

EmptyStatus ==
    [observed |-> FALSE, cacheKey |-> None, replicas |-> 0, readyReplicas |-> 0,
     observedQueueDepth |-> 0, lastScaleTime |-> 0,
     weightsCached |-> None, ready |-> None, degraded |-> None]

\* The object itself; fin is the operator's finalizer, deleting a set
\* deletionTimestamp.
ModelDeployment ==
    [spec : ModelDeploymentSpec, fin : BOOLEAN, deleting : BOOLEAN,
     status : ModelDeploymentStatus]

ASSUME NoneAssumption == None \notin Keys \cup ModelDeployment
=============================================================================
