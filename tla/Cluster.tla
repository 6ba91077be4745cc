------------------------------- MODULE Cluster -------------------------------
(***************************************************************************)
(* What surrounds the operator: the objects it keeps in the API server and *)
(* the Kubernetes controllers that act on them.  The controllers are not   *)
(* part of the repository; they are modelled by what the operator's code   *)
(* relies on.                                                              *)
(*                                                                         *)
(* ReplicaSets and serving pods are counted per pod template.  A pod of a  *)
(* Job that was deleted or ran out of time lives on among the orphans      *)
(* until it is gone, and so does a pod that failed (RestartPolicyNever).   *)
(***************************************************************************)
EXTENDS Status, FiniteSets

CONSTANTS
    Working,      \* runtime settings with which a download can succeed
    BackoffLimit  \* backoffLimit of the warm-up Job

ASSUME WarmAssumption == Working \subseteq Runtimes /\ BackoffLimit \in Nat
ASSUME FiniteAssumption == IsFiniteSet(PodTemplate)

VARIABLES
    dep,      \* the Deployment, None while absent
    jobs,     \* the warm-up Job of each cache key, None while absent
    pvcs,     \* the claims that exist
    svc,      \* whether the Service exists
    pdb,      \* minAvailable of the PodDisruptionBudget, 0 while absent
    rsets,    \* the templates that have a ReplicaSet
    want,     \* replicas asked of each ReplicaSet
    pods,     \* pods of each template
    ready,    \* pods of each template that serve traffic
    warmPod,  \* the step of warmScript the pod of each Job has reached
    orphans,  \* warm-up pods that failed or whose Job is gone or has failed
    weights,  \* <<claim, key>> pairs whose download is complete
    marker    \* <<claim, key>> pairs whose marker file exists

children == <<dep, jobs, pvcs, svc, pdb>>
workload == <<rsets, want, pods, ready>>
volume == <<weights, marker>>
clusterVars == <<children, workload, warmPod, orphans, volume>>

PodSteps == {"none", "pulling", "pulled", "done"}
OrphanSteps == {"pulling", "pulled", "done", "failed"}
OrphanPods == [key : Keys, claim : Claims, runtime : Runtimes, step : OrphanSteps]

ClusterTypeOK ==
    /\ dep \in Deployments \cup {None}
    /\ jobs \in [Keys -> Jobs \cup {None}]
    /\ pvcs \subseteq Claims
    /\ svc \in BOOLEAN
    /\ pdb \in Nat
    /\ rsets \subseteq PodTemplate
    /\ want \in [PodTemplate -> Nat]
    /\ pods \in [PodTemplate -> Nat]
    /\ ready \in [PodTemplate -> Nat]
    /\ warmPod \in [Keys -> PodSteps]
    /\ orphans \subseteq OrphanPods
    /\ weights \subseteq Claims \X Keys
    /\ marker \subseteq Claims \X Keys

ClusterInit ==
    /\ dep = None
    /\ jobs = [k \in Keys |-> None]
    /\ pvcs \in SUBSET SharedClaims
    /\ svc = FALSE
    /\ pdb = 0
    /\ rsets = {}
    /\ want = [t \in PodTemplate |-> 0]
    /\ pods = [t \in PodTemplate |-> 0]
    /\ ready = [t \in PodTemplate |-> 0]
    /\ warmPod = [k \in Keys |-> "none"]
    /\ orphans = {}
    /\ weights = {}
    /\ marker = {}

\* A template whose pods find complete weights when they start, or download
\* their own copy because no cache is configured.
Servable(t) == t.claim = NoCache \/ <<t.claim, t.key>> \in marker

PodsExist ==
    \/ \E t \in PodTemplate : pods[t] > 0
    \/ orphans # {}
    \/ \E k \in Keys : warmPod[k] # "none"

ServingPodsExist == \E t \in PodTemplate : pods[t] > 0

-----------------------------------------------------------------------------
(* The Deployment controller *)

Rolling == dep # None /\ ~dep.paused

\* A pod its ReplicaSet is about to delete is not counted on.
Available(t) == Minimum(ready[t], want[t])

NewReplicaSet ==
    /\ Rolling
    /\ dep.template \notin rsets
    /\ rsets' = rsets \cup {dep.template}
    /\ UNCHANGED <<children, want, pods, ready, warmPod, orphans, volume>>

ScaleUpNew ==
    /\ Rolling
    /\ dep.template \in rsets
    /\ want[dep.template] < dep.replicas
    /\ SumFunction(want) < dep.replicas + MaxSurge
    /\ want' = [want EXCEPT ![dep.template] = @ + 1]
    /\ UNCHANGED <<children, rsets, pods, ready, warmPod, orphans, volume>>

ScaleDownNew ==
    /\ Rolling
    /\ dep.template \in rsets
    /\ want[dep.template] > dep.replicas
    /\ want' = [want EXCEPT ![dep.template] = dep.replicas]
    /\ UNCHANGED <<children, rsets, pods, ready, warmPod, orphans, volume>>

\* An old ReplicaSet gives up a pod once enough others are available, or at
\* once when the pod it gives up is not serving.
ScaleDownOld(t) ==
    LET minAvailable == dep.replicas - MaxUnavailable
        newUnready == want[dep.template] - Available(dep.template)
    IN  /\ Rolling
        /\ dep.template \in rsets
        /\ t \in rsets \ {dep.template}
        /\ want[t] > 0
        /\ SumFunction(want) - minAvailable - newUnready > 0
        /\ \/ ready[t] < want[t]
           \/ SumFunction([u \in PodTemplate |-> Available(u)]) > minAvailable
        /\ want' = [want EXCEPT ![t] = @ - 1]
        /\ UNCHANGED <<children, rsets, pods, ready, warmPod, orphans, volume>>

\* A paused Deployment is scaled without being rolled: its one active
\* ReplicaSet (or any, if none is active) gets all replicas, several active
\* ones move towards the total the surge allows.
ScalePaused(t) ==
    LET active == {u \in rsets : want[u] > 0}
        total == SumFunction(want)
        allowed == IF dep.replicas > 0 THEN dep.replicas + MaxSurge ELSE 0
    IN  /\ dep # None /\ dep.paused
        /\ t \in rsets
        /\ \/ /\ active \subseteq {t}
              /\ want[t] # dep.replicas
              /\ want' = [want EXCEPT ![t] = dep.replicas]
           \/ /\ t \in active
              /\ active # {t}
              /\ total # allowed
              /\ want' = [want EXCEPT ![t] = IF total > allowed THEN @ - 1 ELSE @ + 1]
        /\ UNCHANGED <<children, rsets, pods, ready, warmPod, orphans, volume>>

-----------------------------------------------------------------------------
(* The ReplicaSet controller, which keeps creating pods for a ReplicaSet   *)
(* whose Deployment is already gone, and the kubelet, for which the        *)
(* wait-for-weights init container holds a pod back.                       *)

CreatePod(t) ==
    /\ t \in rsets
    /\ pods[t] < want[t]
    /\ pods' = [pods EXCEPT ![t] = @ + 1]
    /\ UNCHANGED <<children, rsets, want, ready, warmPod, orphans, volume>>

DeletePod(t) ==
    /\ pods[t] > (IF t \in rsets THEN want[t] ELSE 0)
    /\ pods' = [pods EXCEPT ![t] = @ - 1]
    /\ ready' = [ready EXCEPT ![t] = Minimum(@, pods[t] - 1)]
    /\ UNCHANGED <<children, rsets, want, warmPod, orphans, volume>>

PodReady(t) ==
    /\ ready[t] < pods[t]
    /\ Servable(t)
    /\ ready' = [ready EXCEPT ![t] = @ + 1]
    /\ UNCHANGED <<children, rsets, want, pods, warmPod, orphans, volume>>

-----------------------------------------------------------------------------
(* The Job controller and the warm-up pod *)

Active(k) == jobs[k] # None /\ ~jobs[k].succeeded /\ ~jobs[k].failed

\* The pod a Job leaves behind.
LeftBehind(k, step) ==
    [key |-> k, claim |-> jobs[k].claim, runtime |-> jobs[k].runtime, step |-> step]

Orphan(k) == IF warmPod[k] = "none" THEN {} ELSE {LeftBehind(k, warmPod[k])}

\* Background deletion of Jobs: they are gone at once, their pods follow.
DeleteAllJobs ==
    /\ jobs' = [k \in Keys |-> None]
    /\ warmPod' = [k \in Keys |-> "none"]
    /\ orphans' = orphans \cup UNION {Orphan(k) : k \in Keys}

DeleteJob(k) ==
    /\ jobs' = [jobs EXCEPT ![k] = None]
    /\ warmPod' = [warmPod EXCEPT ![k] = "none"]
    /\ orphans' = orphans \cup Orphan(k)

StartWarmPod(k) ==
    /\ Active(k)
    /\ warmPod[k] = "none"
    /\ jobs[k].claim \in pvcs
    /\ warmPod' = [warmPod EXCEPT ![k] = "pulling"]
    /\ UNCHANGED <<children, workload, orphans, volume>>

\* warmScript: the download, then the marker.
PullWeights(k) ==
    /\ Active(k)
    /\ warmPod[k] = "pulling"
    /\ jobs[k].runtime \in Working
    /\ weights' = weights \cup {<<jobs[k].claim, k>>}
    /\ warmPod' = [warmPod EXCEPT ![k] = "pulled"]
    /\ UNCHANGED <<children, workload, orphans, marker>>

WriteMarker(k) ==
    /\ Active(k)
    /\ warmPod[k] = "pulled"
    /\ marker' = marker \cup {<<jobs[k].claim, k>>}
    /\ warmPod' = [warmPod EXCEPT ![k] = "done"]
    /\ UNCHANGED <<children, workload, orphans, weights>>

CompleteJob(k) ==
    /\ Active(k)
    /\ warmPod[k] = "done"
    /\ jobs' = [jobs EXCEPT ![k].succeeded = TRUE]
    /\ UNCHANGED <<dep, pvcs, svc, pdb, workload, warmPod, orphans, volume>>

\* A failed pod stays, and is replaced until the backoff limit is used up.
FailWarmPod(k) ==
    /\ Active(k)
    /\ warmPod[k] \in {"pulling", "pulled"}
    /\ jobs' = IF jobs[k].attempts < BackoffLimit
               THEN [jobs EXCEPT ![k].attempts = @ + 1]
               ELSE [jobs EXCEPT ![k].failed = TRUE]
    /\ warmPod' = [warmPod EXCEPT ![k] = "none"]
    /\ orphans' = orphans \cup {LeftBehind(k, "failed")}
    /\ UNCHANGED <<dep, pvcs, svc, pdb, workload, volume>>

\* activeDeadlineSeconds passes.  The pod is told to stop and may still finish
\* what it is doing; one that had finished is counted as succeeded in the
\* same update that fails the Job.
DeadlineJob(k) ==
    /\ Active(k)
    /\ jobs' = [jobs EXCEPT ![k] = [@ EXCEPT !.failed = TRUE,
                                            !.succeeded = (warmPod[k] = "done")]]
    /\ warmPod' = [warmPod EXCEPT ![k] = "none"]
    /\ orphans' = orphans \cup Orphan(k)
    /\ UNCHANGED <<dep, pvcs, svc, pdb, workload, volume>>

OrphanPull(o) ==
    /\ o.step = "pulling"
    /\ o.runtime \in Working
    /\ weights' = weights \cup {<<o.claim, o.key>>}
    /\ orphans' = (orphans \ {o}) \cup {[o EXCEPT !.step = "pulled"]}
    /\ UNCHANGED <<children, workload, warmPod, marker>>

OrphanMark(o) ==
    /\ o.step = "pulled"
    /\ marker' = marker \cup {<<o.claim, o.key>>}
    /\ orphans' = (orphans \ {o}) \cup {[o EXCEPT !.step = "done"]}
    /\ UNCHANGED <<children, workload, warmPod, weights>>

\* No running pod mounts the claim, so its protection lets it go.
Unmounted(c) ==
    /\ \A t \in PodTemplate : t.claim = c => pods[t] = 0
    /\ \A k \in Keys : jobs[k] # None /\ jobs[k].claim = c => warmPod[k] \in {"none", "done"}
    /\ \A o \in orphans : o.claim = c => o.step \in {"done", "failed"}

-----------------------------------------------------------------------------
(* The garbage collector *)

\* A failed pod goes with its Job, any other as soon as it has stopped.
CollectWarmPod(o) ==
    /\ o.step = "failed" => jobs[o.key] = None
    /\ orphans' = orphans \ {o}
    /\ UNCHANGED <<children, workload, warmPod, volume>>

CollectReplicaSet(t) ==
    /\ dep = None
    /\ t \in rsets
    /\ rsets' = rsets \ {t}
    /\ want' = [want EXCEPT ![t] = 0]
    /\ UNCHANGED <<children, pods, ready, warmPod, orphans, volume>>

\* The owner is gone: the objects that carry its owner reference follow, in any
\* order, its claim not before the pods that mount it (nothing tells the
\* Service and the budget apart).  What becomes of the volume behind the claim
\* is up to its reclaim policy.
CollectChildren ==
    /\ \/ /\ dep # None
          /\ dep' = None
          /\ UNCHANGED <<jobs, pvcs, svc, pdb, warmPod, orphans>>
       \/ \E k \in Keys :
            /\ jobs[k] # None
            /\ DeleteJob(k)
            /\ UNCHANGED <<dep, pvcs, svc, pdb>>
       \/ /\ OwnClaim \in pvcs
          /\ Unmounted(OwnClaim)
          /\ pvcs' = pvcs \ {OwnClaim}
          /\ UNCHANGED <<dep, jobs, svc, pdb, warmPod, orphans>>
       \/ /\ svc \/ pdb > 0
          /\ svc' = FALSE
          /\ pdb' = 0
          /\ UNCHANGED <<dep, jobs, pvcs, warmPod, orphans>>
    /\ UNCHANGED <<workload, volume>>

DeploymentController ==
    \/ NewReplicaSet
    \/ ScaleUpNew
    \/ ScaleDownNew
    \/ \E t \in PodTemplate : ScaleDownOld(t) \/ ScalePaused(t)

Kubelet == \E t \in PodTemplate : CreatePod(t) \/ DeletePod(t) \/ PodReady(t)

WarmUp == \E k \in Keys :
    StartWarmPod(k) \/ PullWeights(k) \/ WriteMarker(k) \/ CompleteJob(k)

WarmUpFails == \E k \in Keys : FailWarmPod(k) \/ DeadlineJob(k)

OrphanRuns == \E o \in orphans : OrphanPull(o) \/ OrphanMark(o)

Collector ==
    \/ \E o \in orphans : CollectWarmPod(o)
    \/ \E t \in PodTemplate : CollectReplicaSet(t)
=============================================================================
