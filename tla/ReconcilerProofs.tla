-------------------------- MODULE ReconcilerProofs --------------------------
(***************************************************************************)
(* Theorems about the operator for every set of specs, every number of     *)
(* models, runtimes and claims, every bound and every choice of prompt     *)
(* caches.                                                                 *)
(*                                                                         *)
(* PassInv says what a running pass may rely on, types included; StatusInv *)
(* strengthens it for the agreement of status and spec.                    *)
(***************************************************************************)
EXTENDS Reconciler, ScalingTheorems

-----------------------------------------------------------------------------
(* Objects and the forms they are stored in *)

\* What the stored form of a spec keeps whatever is defaulted in it.
SameWeights(s, u) ==
    /\ s.engine = u.engine
    /\ s.model = u.model
    /\ s.runtime = u.runtime
    /\ s.weightCache = u.weightCache

LEMMA CountsFacts == Counts \subseteq Nat /\ 0 \in Counts /\ 1 \in Counts /\ 1 \in Counts \ {0}
BY MaxIntAssumption DEF Counts

LEMMA DefaultType ==
    ASSUME NEW n \in Counts
    PROVE  OrDefault(n, 1) \in Counts
BY CountsFacts DEF OrDefault

LEMMA StoredAutoscalingType ==
    ASSUME NEW a \in AutoscalingSpec \cup {NoAutoscaling}
    PROVE  StoredAutoscaling(a) \in AutoscalingSpec \cup {NoAutoscaling}
<1>1. CASE a \in AutoscalingSpec /\ a # NoAutoscaling
  <2>1. OrDefault(a.MinReplicas, 1) \in Counts
    BY <1>1, DefaultType DEF AutoscalingSpec
  <2>2. OrDefault(a.ScaleUpAfter, DefaultScaleUp) \in Nat
    BY <1>1, DefaultsAssumption DEF AutoscalingSpec, OrDefault
  <2>3. OrDefault(a.ScaleDownAfter, DefaultScaleDown) \in Nat
    BY <1>1, DefaultsAssumption DEF AutoscalingSpec, OrDefault
  <2> QED
    BY <1>1, <2>1, <2>2, <2>3, AbsentAssumption
    DEF StoredAutoscaling, StoredPolicy, AutoscalingSpec
<1> QED
  BY <1>1 DEF StoredAutoscaling

\* A typed client's Update defaults counts only: what names the weights and
\* their volume comes back as it was.
LEMMA StoredKeeps ==
    ASSUME NEW s \in ModelDeploymentSpec
    PROVE  Stored(s) \in ModelDeploymentSpec /\ SameWeights(Stored(s), s)
<1>1. OrDefault(s.replicas, 1) \in Counts /\ OrDefault(s.minAvailable, 1) \in Counts
  BY DefaultType DEF ModelDeploymentSpec
<1>2. StoredAutoscaling(s.autoscaling) \in AutoscalingSpec \cup {NoAutoscaling}
  BY StoredAutoscalingType DEF ModelDeploymentSpec
<1> QED
  BY <1>1, <1>2 DEF Stored, SameWeights, ModelDeploymentSpec

\* The same for the spec a scaling decision is written with.
LEMMA ResizedKeeps ==
    ASSUME NEW s \in ModelDeploymentSpec, NEW n \in Counts
    PROVE  /\ Stored([s EXCEPT !.replicas = n]) \in ModelDeploymentSpec
           /\ SameWeights(Stored([s EXCEPT !.replicas = n]), s)
<1> DEFINE u == [s EXCEPT !.replicas = n]
<1>1. u \in ModelDeploymentSpec /\ SameWeights(u, s)
  BY DEF ModelDeploymentSpec, SameWeights
<1>2. Stored(u) \in ModelDeploymentSpec /\ SameWeights(Stored(u), u)
  BY <1>1, StoredKeeps
<1> QED
  BY <1>1, <1>2 DEF SameWeights

LEMMA ObjectFields ==
    ASSUME NEW m \in ModelDeployment
    PROVE  /\ m.spec \in ModelDeploymentSpec
           /\ m.fin \in BOOLEAN
           /\ m.deleting \in BOOLEAN
           /\ m.status \in ModelDeploymentStatus
           /\ m # None
BY NoneAssumption DEF ModelDeployment

\* The updates the model makes of an object.
LEMMA ObjectUpdates ==
    ASSUME NEW m \in ModelDeployment
    PROVE  /\ \A s \in ModelDeploymentSpec :
                /\ [m EXCEPT !.spec = s] \in ModelDeployment
                /\ [m EXCEPT !.spec = s].spec = s
                /\ [m EXCEPT !.spec = s].status = m.status
                /\ [m EXCEPT !.spec = s].deleting = m.deleting
           /\ \A st \in ModelDeploymentStatus :
                /\ [m EXCEPT !.status = st] \in ModelDeployment
                /\ [m EXCEPT !.status = st].spec = m.spec
                /\ [m EXCEPT !.status = st].status = st
BY DEF ModelDeployment

\* The Update that adds or removes the finalizer.
LEMMA FinalizerUpdate ==
    ASSUME NEW m \in ModelDeployment, NEW b \in BOOLEAN
    PROVE  LET new == [m EXCEPT !.spec = Stored(@), !.fin = b]
           IN  /\ new \in ModelDeployment
               /\ SameWeights(new.spec, m.spec)
               /\ new.status = m.status
<1>1. m.spec \in ModelDeploymentSpec
  BY ObjectFields
<1>2. Stored(m.spec) \in ModelDeploymentSpec /\ SameWeights(Stored(m.spec), m.spec)
  BY <1>1, StoredKeeps
<1> DEFINE s == Stored(m.spec)
           new == [m EXCEPT !.spec = s, !.fin = b]
<1> HIDE DEF s
<1>3. new \in ModelDeployment /\ new.spec = s /\ new.status = m.status
  <2>1. s \in ModelDeploymentSpec
    BY <1>2 DEF s
  <2> QED
    BY <2>1 DEF ModelDeployment
<1>4. SameWeights(new.spec, m.spec)
  BY <1>2, <1>3 DEF s
<1> QED
  BY <1>3, <1>4 DEF s

\* A new generation: the status is there, but describes an older one.
LEMMA Unobserved ==
    ASSUME NEW m \in ModelDeployment
    PROVE  LET n == [m EXCEPT !.status.observed = FALSE]
           IN  /\ n \in ModelDeployment
               /\ n.spec = m.spec
               /\ n.deleting = m.deleting
               /\ ~n.status.observed
<1> DEFINE n == [m EXCEPT !.status.observed = FALSE]
<1>1. m.status \in ModelDeploymentStatus
  BY DEF ModelDeployment
<1>2. [m.status EXCEPT !.observed = FALSE] \in ModelDeploymentStatus
  BY <1>1 DEF ModelDeploymentStatus
<1>3. n = [m EXCEPT !.status = [m.status EXCEPT !.observed = FALSE]]
  OBVIOUS
<1>4. n.status.observed = FALSE
  BY <1>1, <1>3 DEF ModelDeployment, ModelDeploymentStatus
<1> QED
  BY <1>2, <1>3, <1>4 DEF ModelDeployment

\* The user's edit and deletion.
LEMMA UserUpdates ==
    ASSUME NEW m \in ModelDeployment, NEW s \in ModelDeploymentSpec
    PROVE  LET edited == [m EXCEPT !.spec = s, !.status.observed = FALSE]
               deleted == [m EXCEPT !.deleting = TRUE, !.status.observed = FALSE]
           IN  /\ edited \in ModelDeployment
               /\ edited.spec = s
               /\ ~edited.status.observed
               /\ deleted \in ModelDeployment
               /\ deleted.spec = m.spec
               /\ ~deleted.status.observed
<1> DEFINE e == [m EXCEPT !.spec = s]
           d == [m EXCEPT !.deleting = TRUE]
<1>1. e \in ModelDeployment /\ e.spec = s
  BY DEF ModelDeployment
<1>2. d \in ModelDeployment /\ d.spec = m.spec
  BY DEF ModelDeployment
<1>3. [m EXCEPT !.spec = s, !.status.observed = FALSE] = [e EXCEPT !.status.observed = FALSE]
  BY DEF ModelDeployment
<1>4. [m EXCEPT !.deleting = TRUE, !.status.observed = FALSE]
        = [d EXCEPT !.status.observed = FALSE]
  BY DEF ModelDeployment
<1> QED
  BY <1>1, <1>2, <1>3, <1>4, Unobserved

-----------------------------------------------------------------------------
(* What a pass computes *)

LEMMA PolicyType ==
    ASSUME NEW a \in AutoscalingSpec
    PROVE  IsPolicy(a)
BY MaxIntAssumption DEF AutoscalingSpec, IsPolicy, Counts

\* decideReplicas returns a replica count and a queue depth.
LEMMA OutcomeType ==
    ASSUME pmd \in ModelDeployment, clock \in Nat, NEW reading \in Counts \cup {Unavailable}
    PROVE  Outcome(reading) \in DecType
<1>1. /\ pmd.spec.replicas \in Counts
      /\ pmd.spec.autoscaling \in AutoscalingSpec \cup {NoAutoscaling}
      /\ pmd.status.observedQueueDepth \in Nat
  BY DEF ModelDeployment, ModelDeploymentSpec, ModelDeploymentStatus
<1>2. CASE pmd.spec.autoscaling = NoAutoscaling \/ reading = Unavailable
  <2>1. Outcome(reading) =
          [replicas |-> pmd.spec.replicas, lastScale |-> 0,
           depth |-> pmd.status.observedQueueDepth,
           scaleErr |-> pmd.spec.autoscaling # NoAutoscaling]
    BY <1>2 DEF Outcome
  <2> QED
    BY <1>1, <2>1 DEF DecType
<1>3. CASE ~(pmd.spec.autoscaling = NoAutoscaling \/ reading = Unavailable)
  <2> DEFINE d == Decide(pmd.spec.autoscaling, ScalingState(reading))
  <2>1. IsPolicy(pmd.spec.autoscaling)
    BY <1>1, <1>3, PolicyType
  <2>2. /\ ScalingState(reading).CurrentReplicas \in 0 .. MaxInt
        /\ ScalingState(reading).QueueDepth \in Int
    BY <1>1, <1>3, CountsFacts DEF ScalingState, Counts
  <2>3. d.Replicas \in Counts
    BY <2>1, <2>2, DecideType DEF Counts
  <2> HIDE DEF d
  <2>4. Outcome(reading) =
          [replicas |-> d.Replicas, lastScale |-> IF d.Changed THEN clock ELSE 0,
           depth |-> reading, scaleErr |-> FALSE]
    BY <1>3 DEF Outcome, d
  <2>5. reading \in Nat /\ (IF d.Changed THEN clock ELSE 0) \in Nat
    BY <1>3, CountsFacts
  <2> QED
    BY <2>3, <2>4, <2>5 DEF DecType
<1> QED
  BY <1>2, <1>3

LEMMA ReadingType == DepthReadings \subseteq Counts \cup {Unavailable}
BY DepthsAssumption, CountsFacts DEF DepthReadings

\* The status a pass writes.
LEMMA StatusType ==
    ASSUME TypeOK, pmd \in ModelDeployment
    PROVE  NextStatus \in ModelDeploymentStatus
<1>1. /\ pmd.spec \in ModelDeploymentSpec
      /\ pmd.status.lastScaleTime \in Nat
  BY DEF ModelDeployment, ModelDeploymentStatus
<1>2. CacheKey(pmd.spec) \in Keys
  BY <1>1 DEF CacheKey, Keys, ModelDeploymentSpec
<1>3. depCache.replicas \in Nat /\ depCache.readyReplicas \in Nat
  BY DEF TypeOK, DepView
<1>4. dec.depth \in Nat /\ dec.lastScale \in Nat
  BY DEF TypeOK, DecType
<1>5. WeightsCached(cache) \in CachedReasons
  BY DEF WeightsCached, CachedReasons
<1>6. Ready(pmd.spec.replicas, ObservedWorkload, Paused) \in ReadyReasons
  BY DEF Ready, ReadyReasons
<1>7. Degraded(cache, dec.scaleErr) \in DegradedReasons
  BY DEF Degraded, DegradedReasons
<1> QED
  BY <1>1, <1>2, <1>3, <1>4, <1>5, <1>6, <1>7
  DEF NextStatus, BuildStatus, LastScaleTime, ObservedWorkload, ModelDeploymentStatus

\* The Deployment's status counts pods.
LEMMA DepNowType == ClusterTypeOK => DepNow \in DepView
<1> SUFFICES ASSUME ClusterTypeOK PROVE DepNow \in DepView
  OBVIOUS
<1>1. IsSummable(Nat)
  BY DEF IsSummable
<1>2. SumFunction(pods) \in Nat /\ SumFunction(ready) \in Nat
  BY <1>1, SumClosed, FiniteAssumption DEF ClusterTypeOK
<1> QED
  BY <1>2 DEF ClusterTypeOK, DepNow, DepView

\* The objects a pass applies.
LEMMA ChildTypes ==
    ASSUME NEW s \in ModelDeploymentSpec, NEW n \in Counts, NEW paused \in BOOLEAN
    PROVE  /\ Deployment(s, CacheKey(s), n, paused) \in Deployments
           /\ Template(s, CacheKey(s)) \in PodTemplate
           /\ HasCache(s) => WarmJob(s) \in Jobs
           /\ CacheKey(s) \in Keys
           /\ PVCName(s) \in Claims
<1>1. CacheKey(s) \in Keys
  BY DEF CacheKey, Keys, ModelDeploymentSpec
<1>2. PVCName(s) \in Claims
  BY DEF PVCName, Claims
<1>3. s.runtime \in Runtimes
  BY DEF ModelDeploymentSpec
<1>4. Template(s, CacheKey(s)) \in PodTemplate
  BY <1>1, <1>2, <1>3 DEF Template, PodTemplate, WeightsVolume
<1>5. WarmJob(s) \in Jobs
  BY <1>2, <1>3 DEF WarmJob, Jobs
<1> QED
  BY <1>1, <1>2, <1>4, <1>5 DEF Deployment, Deployments

-----------------------------------------------------------------------------
(* The cluster's controllers keep their types *)

LEMMA OrphanType ==
    ASSUME ClusterTypeOK, NEW k \in Keys, warmPod[k] # "none" => jobs[k] # None
    PROVE  Orphan(k) \subseteq OrphanPods
<1>1. CASE warmPod[k] = "none"
  BY <1>1 DEF Orphan
<1>2. CASE warmPod[k] # "none"
  <2>1. jobs[k] \in Jobs /\ warmPod[k] \in PodSteps \ {"none"}
    BY <1>2 DEF ClusterTypeOK
  <2> QED
    BY <1>2, <2>1 DEF Orphan, LeftBehind, OrphanPods, OrphanSteps, PodSteps, Jobs
<1> QED
  BY <1>1, <1>2

\* A warm-up pod has a Job.
WarmPodsHaveJobs == \A k \in Keys : warmPod[k] # "none" => jobs[k] # None

ClusterInv == ClusterTypeOK /\ WarmPodsHaveJobs

LEMMA DeleteJobTypes ==
    ASSUME ClusterInv, NEW k \in Keys, DeleteJob(k)
    PROVE  /\ jobs' \in [Keys -> Jobs \cup {None}]
           /\ warmPod' \in [Keys -> PodSteps]
           /\ orphans' \subseteq OrphanPods
           /\ WarmPodsHaveJobs'
<1>1. Orphan(k) \subseteq OrphanPods
  BY OrphanType DEF ClusterInv, WarmPodsHaveJobs
<1> QED
  BY <1>1 DEF ClusterInv, ClusterTypeOK, DeleteJob, WarmPodsHaveJobs, PodSteps

LEMMA DeleteAllJobsTypes ==
    ASSUME ClusterInv, DeleteAllJobs
    PROVE  /\ jobs' \in [Keys -> Jobs \cup {None}]
           /\ warmPod' \in [Keys -> PodSteps]
           /\ orphans' \subseteq OrphanPods
           /\ WarmPodsHaveJobs'
<1>1. \A k \in Keys : Orphan(k) \subseteq OrphanPods
  BY OrphanType DEF ClusterInv, WarmPodsHaveJobs
<1> QED
  BY <1>1 DEF ClusterInv, ClusterTypeOK, DeleteAllJobs, WarmPodsHaveJobs, PodSteps

LEMMA DeploymentControllerTypes ==
    ASSUME ClusterInv, DeploymentController
    PROVE  ClusterInv'
<1> USE DEF ClusterInv, ClusterTypeOK, WarmPodsHaveJobs, children, volume
<1>1. dep # None => dep.template \in PodTemplate /\ dep.replicas \in Nat
  BY CountsFacts DEF Deployments
<1>2. CASE NewReplicaSet
  BY <1>1, <1>2 DEF NewReplicaSet, Rolling
<1>3. CASE ScaleUpNew
  BY <1>1, <1>3 DEF ScaleUpNew, Rolling
<1>4. CASE ScaleDownNew
  BY <1>1, <1>4 DEF ScaleDownNew, Rolling
<1>5. ASSUME NEW t \in PodTemplate, ScaleDownOld(t) PROVE ClusterInv'
  <2>1. want' = [want EXCEPT ![t] = @ - 1] /\ want[t] > 0
    BY <1>5 DEF ScaleDownOld
  <2>2. want' \in [PodTemplate -> Nat]
    BY <2>1
  <2> QED
    BY <1>5, <2>2 DEF ScaleDownOld
<1>6. ASSUME NEW t \in PodTemplate, ScalePaused(t) PROVE ClusterInv'
  <2>1. \E n \in Nat : want' = [want EXCEPT ![t] = n]
    <3>1. CASE want' = [want EXCEPT ![t] = dep.replicas] /\ dep # None
      BY <1>1, <3>1
    <3>2. CASE /\ want[t] > 0
               /\ \/ want' = [want EXCEPT ![t] = @ - 1]
                  \/ want' = [want EXCEPT ![t] = @ + 1]
      <4>1. want[t] - 1 \in Nat /\ want[t] + 1 \in Nat
        BY <3>2
      <4> QED
        BY <3>2, <4>1
    <3> QED
      BY <1>6, <3>1, <3>2 DEF ScalePaused
  <2>2. want' \in [PodTemplate -> Nat]
    BY <2>1
  <2> QED
    BY <1>6, <2>2 DEF ScalePaused
<1> QED
  BY <1>2, <1>3, <1>4, <1>5, <1>6 DEF DeploymentController

LEMMA KubeletTypes ==
    ASSUME ClusterInv, Kubelet
    PROVE  ClusterInv'
<1> USE DEF ClusterInv, ClusterTypeOK, WarmPodsHaveJobs, children, volume
<1>1. ASSUME NEW t \in PodTemplate, CreatePod(t) PROVE ClusterInv'
  BY <1>1 DEF CreatePod
<1>2. ASSUME NEW t \in PodTemplate, DeletePod(t) PROVE ClusterInv'
  <2>1. pods[t] - 1 \in Nat
    BY <1>2 DEF DeletePod
  <2>2. Minimum(ready[t], pods[t] - 1) \in Nat
    BY <2>1 DEF Minimum
  <2> QED
    BY <1>2, <2>1, <2>2 DEF DeletePod
<1>3. ASSUME NEW t \in PodTemplate, PodReady(t) PROVE ClusterInv'
  BY <1>3 DEF PodReady
<1> QED
  BY <1>1, <1>2, <1>3 DEF Kubelet

LEMMA WarmUpTypes ==
    ASSUME ClusterInv, WarmUp \/ WarmUpFails \/ OrphanRuns
    PROVE  ClusterInv'
<1> USE DEF ClusterInv, ClusterTypeOK, WarmPodsHaveJobs, children, workload, volume, PodSteps
<1>1. ASSUME NEW k \in Keys, Active(k) PROVE jobs[k] \in Jobs /\ jobs[k].claim \in Claims
  BY <1>1 DEF Active, Jobs
<1>2. ASSUME NEW k \in Keys, StartWarmPod(k) PROVE ClusterInv'
  BY <1>2 DEF StartWarmPod, Active
<1>3. ASSUME NEW k \in Keys, PullWeights(k) PROVE ClusterInv'
  BY <1>1, <1>3 DEF PullWeights
<1>4. ASSUME NEW k \in Keys, WriteMarker(k) PROVE ClusterInv'
  BY <1>1, <1>4 DEF WriteMarker
<1>5. ASSUME NEW k \in Keys, CompleteJob(k) PROVE ClusterInv'
  <2>1. [jobs[k] EXCEPT !.succeeded = TRUE] \in Jobs
    BY <1>1, <1>5 DEF CompleteJob, Jobs
  <2>2. jobs' = [jobs EXCEPT ![k] = [jobs[k] EXCEPT !.succeeded = TRUE]]
    BY <1>5 DEF CompleteJob
  <2> QED
    BY <1>5, <2>1, <2>2, NoChildAssumption DEF CompleteJob
<1>6. ASSUME NEW k \in Keys, FailWarmPod(k) PROVE ClusterInv'
  <2>1. [jobs[k] EXCEPT !.attempts = @ + 1] \in Jobs
    BY <1>1, <1>6 DEF FailWarmPod, Jobs
  <2>2. [jobs[k] EXCEPT !.failed = TRUE] \in Jobs
    BY <1>1, <1>6 DEF FailWarmPod, Jobs
  <2>3. \E j \in Jobs : jobs' = [jobs EXCEPT ![k] = j]
    BY <1>6, <2>1, <2>2 DEF FailWarmPod
  <2>4. LeftBehind(k, "failed") \in OrphanPods
    BY <1>1, <1>6 DEF FailWarmPod, LeftBehind, OrphanPods, OrphanSteps, Jobs
  <2> QED
    BY <1>6, <2>3, <2>4, NoChildAssumption DEF FailWarmPod
<1>7. ASSUME NEW k \in Keys, DeadlineJob(k) PROVE ClusterInv'
  <2>1. [jobs[k] EXCEPT !.failed = TRUE, !.succeeded = (warmPod[k] = "done")] \in Jobs
    BY <1>1, <1>7 DEF DeadlineJob, Jobs
  <2>2. \E j \in Jobs : jobs' = [jobs EXCEPT ![k] = j]
    BY <1>7, <2>1 DEF DeadlineJob
  <2>3. Orphan(k) \subseteq OrphanPods
    BY OrphanType
  <2> QED
    BY <1>7, <2>2, <2>3, NoChildAssumption DEF DeadlineJob
<1>8. ASSUME NEW o \in orphans, OrphanPull(o) PROVE ClusterInv'
  BY <1>8 DEF OrphanPull, OrphanPods, OrphanSteps
<1>9. ASSUME NEW o \in orphans, OrphanMark(o) PROVE ClusterInv'
  BY <1>9 DEF OrphanMark, OrphanPods, OrphanSteps
<1> QED
  BY <1>2, <1>3, <1>4, <1>5, <1>6, <1>7, <1>8, <1>9 DEF WarmUp, WarmUpFails, OrphanRuns

LEMMA CollectorTypes ==
    ASSUME ClusterInv, Collector \/ CollectChildren
    PROVE  ClusterInv'
<1> USE DEF ClusterInv, ClusterTypeOK, WarmPodsHaveJobs, children, workload, volume
<1>1. CASE \E o \in orphans : CollectWarmPod(o)
  BY <1>1 DEF CollectWarmPod
<1>2. CASE \E t \in PodTemplate : CollectReplicaSet(t)
  BY <1>2 DEF CollectReplicaSet
<1>3. CASE CollectChildren
  <2>1. ASSUME NEW k \in Keys, DeleteJob(k), UNCHANGED <<dep, pvcs, svc, pdb, workload, volume>>
        PROVE  ClusterInv'
    BY <2>1, DeleteJobTypes
  <2>2. CASE /\ dep' \in {dep, None} /\ pvcs' \subseteq pvcs
             /\ svc' \in BOOLEAN /\ pdb' \in Nat
             /\ UNCHANGED <<jobs, workload, warmPod, orphans, volume>>
    BY <2>2
  <2>3. CASE \E k \in Keys : DeleteJob(k) /\ UNCHANGED <<dep, pvcs, svc, pdb>>
    BY <1>3, <2>1, <2>3 DEF CollectChildren
  <2>4. CASE ~\E k \in Keys : DeleteJob(k) /\ UNCHANGED <<dep, pvcs, svc, pdb>>
    <3>1. /\ dep' \in {dep, None} /\ pvcs' \subseteq pvcs /\ pdb' \in Nat
          /\ UNCHANGED <<jobs, workload, warmPod, orphans, volume>>
      BY <1>3, <2>4 DEF CollectChildren
    <3>2. svc' = svc \/ svc' = FALSE
      BY <1>3, <2>4 DEF CollectChildren
    <3>3. svc' \in BOOLEAN
      BY <3>2, Zenon
    <3> QED
      BY <2>2, <3>1, <3>3
  <2> QED
    BY <2>3, <2>4
<1> QED
  BY <1>1, <1>2, <1>3 DEF Collector

-----------------------------------------------------------------------------
(* The pass and its copy of the object *)

\* A copy whose resourceVersion is current is the stored object itself; sync
\* only runs on an object that is not being deleted; a pass starts knowing
\* nothing of the cache.
PassInv ==
    /\ TypeOK
    /\ WarmPodsHaveJobs
    /\ mdFresh => mdCache = md
    /\ fresh => pc # "idle" /\ pmd = md
    /\ pc \in SyncSteps \cup {"addFin"} => ~pmd.deleting
    /\ pc = "idle" => cache = DisabledCache

LEMMA InitPass == Init => PassInv
<1> SUFFICES ASSUME Init PROVE PassInv
  OBVIOUS
<1>1. md \in ModelDeployment
  <2>1. PICK s \in FirstSpecs :
          md = [spec |-> s, fin |-> FALSE, deleting |-> FALSE, status |-> EmptyStatus]
    BY DEF Init
  <2>2. s \in ModelDeploymentSpec
    BY SpecsAssumption
  <2>3. EmptyStatus \in ModelDeploymentStatus
    BY DEF EmptyStatus, ModelDeploymentStatus
  <2> QED
    BY <2>1, <2>2, <2>3 DEF ModelDeployment
<1>2. ClusterTypeOK /\ WarmPodsHaveJobs
  BY DEF Init, ClusterInit, ClusterTypeOK, PodSteps, Claims, WarmPodsHaveJobs
<1>3. depCache \in DepView
  BY <1>2, DepNowType DEF Init
<1>4. jobsCache \in [Keys -> Jobs \cup {None}]
  BY <1>2 DEF Init, ClusterTypeOK
<1>5. cache \in CacheState /\ dec \in DecType /\ pc \in Steps
  BY CountsFacts DEF Init, CacheState, DisabledCache, DecType, NoDecision, Steps
<1>6. /\ mdFresh \in BOOLEAN /\ podsCache \in BOOLEAN /\ queued \in BOOLEAN
      /\ timer \in BOOLEAN /\ fresh \in BOOLEAN
  BY Zenon DEF Init
<1>7. /\ clock \in Nat /\ lastCommit \in Nat /\ edits \in Nat /\ deletes \in Nat
      /\ drifts \in Nat /\ losses \in Nat /\ faults \in Nat
  BY DEF Init
<1>8. TypeOK
  BY <1>1, <1>2, <1>3, <1>4, <1>5, <1>6, <1>7 DEF Init, TypeOK
<1> QED
  BY <1>2, <1>8 DEF Init, PassInv, SyncSteps

\* What ends a pass: the object is forgotten.
LEMMA ForgetKeeps ==
    ASSUME ForgetPass
    PROVE  /\ pc' = "idle" /\ pc' \in Steps
           /\ pmd' = None
           /\ fresh' = FALSE /\ fresh' \in BOOLEAN
           /\ cache' = DisabledCache /\ cache' \in CacheState
           /\ stale' \subseteq Keys
           /\ dec' \in DecType
           /\ pc' \notin SyncSteps \cup {"addFin"}
BY CountsFacts
DEF ForgetPass, Steps, SyncSteps, DisabledCache, CacheState, DecType, NoDecision

\* What an accepted Update leaves in the API server.
LEMMA PutKeeps ==
    ASSUME PassInv, NEW new \in ModelDeployment, Put(new), UNCHANGED mdCache
    PROVE  /\ md' \in ModelDeployment \cup {None}
           /\ mdFresh' \in BOOLEAN
           /\ mdFresh' => mdCache' = md'
           /\ md' = None \/ md'.spec = new.spec
           /\ ~new.deleting => md' \in ModelDeployment /\ ~md'.deleting
<1> DEFINE n == [new EXCEPT !.status.observed = FALSE]
<1>1. n \in ModelDeployment /\ n.spec = new.spec /\ n.deleting = new.deleting
  BY Unobserved
<1> HIDE DEF n
<1>2. md' = IF new.deleting /\ ~new.fin THEN None ELSE IF new.spec = md.spec THEN new ELSE n
  BY DEF Put, n
<1>3. mdFresh' = (mdFresh /\ md' = md)
  BY DEF Put
<1>4. mdFresh' \in BOOLEAN /\ (mdFresh' => mdCache' = md')
  BY <1>3 DEF PassInv
<1>5. /\ md' \in ModelDeployment \cup {None}
      /\ md' = None \/ md'.spec = new.spec
      /\ ~new.deleting => md' \in ModelDeployment /\ ~md'.deleting
  BY <1>1, <1>2
<1> QED
  BY <1>4, <1>5

LEMMA SameCluster ==
    ASSUME ClusterInv, UNCHANGED clusterVars
    PROVE  ClusterTypeOK' /\ WarmPodsHaveJobs'
BY DEF clusterVars, children, workload, volume, ClusterInv, ClusterTypeOK, WarmPodsHaveJobs

LEMMA PassStep == PassInv /\ [Next]_vars => PassInv'
<1> SUFFICES ASSUME PassInv, [Next]_vars PROVE PassInv'
  OBVIOUS
<1> USE DEF PassInv, TypeOK, SyncSteps, Steps, FinalizeSteps
<1>0. ClusterInv
  BY DEF ClusterInv
<1>1. CASE UNCHANGED vars
  BY <1>0, <1>1, SameCluster DEF vars, informers, locals, budgets
<1>2. CASE StartPass
  <2>1. ClusterTypeOK' /\ WarmPodsHaveJobs'
    BY <1>0, <1>2, SameCluster DEF StartPass
  <2>2. queued' \in BOOLEAN
    BY <1>2, Zenon DEF StartPass
  <2> QED
    BY <1>2, <2>1, <2>2, ObjectFields DEF StartPass, informers, locals, Environment, budgets
<1>3. CASE AddFinalizer
  <2> DEFINE new == [pmd EXCEPT !.spec = Stored(@), !.fin = TRUE]
  <2>1. new \in ModelDeployment
    BY <1>3, FinalizerUpdate DEF AddFinalizer
  <2>2. ClusterTypeOK' /\ WarmPodsHaveJobs'
    BY <1>0, <1>3, SameCluster DEF AddFinalizer
  <2>3. CASE Put(new) /\ Finish(FALSE)
    <3>1. /\ md' \in ModelDeployment \cup {None}
          /\ mdFresh' \in BOOLEAN
          /\ mdFresh' => mdCache' = md'
      BY <1>3, <2>1, <2>3, PutKeeps DEF AddFinalizer, Caches
    <3>2. timer' \in BOOLEAN /\ queued' \in BOOLEAN
      BY <2>3, Zenon DEF Finish
    <3> QED
      BY <1>3, <2>2, <2>3, <3>1, <3>2, ForgetKeeps
      DEF AddFinalizer, Finish, Caches, Environment, budgets
  <2>4. CASE Fail /\ UNCHANGED <<md, mdFresh>>
    BY <1>3, <2>2, <2>4, ForgetKeeps DEF AddFinalizer, Fail, Caches, Environment, budgets
  <2> QED
    BY <1>3, <2>3, <2>4 DEF AddFinalizer
<1>4. CASE EnsureClaim
  <2>1. PVCName(pmd.spec) \in Claims
    BY <1>4, ObjectFields DEF EnsureClaim, PVCName, Claims
  <2>2. ClusterTypeOK' /\ WarmPodsHaveJobs'
    BY <1>0, <1>4, <2>1
    DEF EnsureClaim, ClusterInv, ClusterTypeOK, WarmPodsHaveJobs, workload, volume
  <2>3. CASE Goto("job") /\ UNCHANGED locals
    BY <1>4, <2>2, <2>3 DEF EnsureClaim, Goto, informers, locals, Environment, budgets
  <2>4. CASE Fail
    BY <1>4, <2>2, <2>4, ForgetKeeps DEF EnsureClaim, Fail, informers, Environment, budgets
  <2> QED
    BY <1>4, <2>3, <2>4 DEF EnsureClaim
<1>5. CASE ReconcileJob
  <2> DEFINE key == CacheKey(pmd.spec)
             seen == jobsCache[key]
  <2>1. key \in Keys /\ WarmJob(pmd.spec) \in Jobs
    <3>1. pmd.spec \in ModelDeploymentSpec
      BY <1>5, ObjectFields DEF ReconcileJob
    <3>2. key \in Keys
      BY <3>1 DEF CacheKey, Keys, ModelDeploymentSpec
    <3>3. WarmJob(pmd.spec) \in Jobs
      BY <3>1 DEF WarmJob, Jobs, PVCName, Claims, ModelDeploymentSpec
    <3> QED
      BY <3>2, <3>3
  <2>2. jobs' \in [Keys -> Jobs \cup {None}] /\ WarmPodsHaveJobs'
    <3>1. jobs' = jobs \/ jobs' = [jobs EXCEPT ![key] = WarmJob(pmd.spec)]
      BY <1>5 DEF ReconcileJob
    <3>2. WarmJob(pmd.spec) # None
      BY <2>1, NoChildAssumption
    <3> HIDE DEF key
    <3>3. warmPod' = warmPod
      BY <1>5 DEF ReconcileJob
    <3> QED
      BY <2>1, <3>1, <3>2, <3>3 DEF ClusterTypeOK, WarmPodsHaveJobs
  <2>3. ClusterTypeOK'
    BY <1>5, <2>2 DEF ReconcileJob, ClusterTypeOK, workload, volume
  <2>4. cache' \in CacheState
    <3>1. ColdCache \in CacheState
      BY DEF ColdCache, CacheState
    <3>2. seen # None => JobState(seen) \in CacheState
      BY <2>1 DEF Jobs, CacheState, JobState
    <3> QED
      BY <1>5, <3>1, <3>2 DEF ReconcileJob
  <2> QED
    BY <1>5, <2>2, <2>3, <2>4 DEF ReconcileJob, Goto, informers, Environment, budgets
<1>6. CASE ListWarmJobs
  <2>1. ClusterTypeOK' /\ WarmPodsHaveJobs'
    BY <1>0, <1>6, SameCluster DEF ListWarmJobs
  <2> QED
    BY <1>6, <2>1 DEF ListWarmJobs, Goto, informers, Environment, budgets
<1>7. ASSUME NEW k \in Keys, PruneJob(k) PROVE PassInv'
  <2>1. ClusterTypeOK' /\ WarmPodsHaveJobs'
    <3>1. DeleteJob(k)
      BY <1>7 DEF PruneJob
    <3> QED
      BY <1>0, <1>7, <3>1, DeleteJobTypes DEF PruneJob, ClusterTypeOK, workload, volume
  <2> QED
    BY <1>7, <2>1 DEF PruneJob, Goto, informers, Environment, budgets
<1>8. CASE DecideReplicas
  <2>1. ClusterTypeOK' /\ WarmPodsHaveJobs'
    BY <1>0, <1>8, SameCluster DEF DecideReplicas
  <2>2. dec' \in DecType
    <3>1. PICK reading \in IF pmd.spec.autoscaling = NoAutoscaling THEN {Unavailable}
                           ELSE DepthReadings : dec' = Outcome(reading)
      BY <1>8 DEF DecideReplicas
    <3>2. reading \in Counts \cup {Unavailable}
      BY <3>1, ReadingType
    <3>3. pmd \in ModelDeployment
      BY <1>8 DEF DecideReplicas
    <3> QED
      BY <3>1, <3>2, <3>3, OutcomeType
  <2>3. pc' \in {"applyDep", "update"} /\ UNCHANGED <<queued, timer>>
    BY <1>8 DEF DecideReplicas, Goto
  <2> QED
    BY <1>8, <2>1, <2>2, <2>3 DEF DecideReplicas, informers, Environment, budgets
<1>9. CASE WriteReplicas
  <2> DEFINE new == [pmd EXCEPT !.spec = Stored([@ EXCEPT !.replicas = dec.replicas])]
  <2>1. new \in ModelDeployment /\ ~new.deleting
    <3>1. pmd \in ModelDeployment /\ ~pmd.deleting /\ dec.replicas \in Counts
      BY <1>9 DEF WriteReplicas, DecType
    <3>2. Stored([pmd.spec EXCEPT !.replicas = dec.replicas]) \in ModelDeploymentSpec
      BY <3>1, ObjectFields, ResizedKeeps
    <3> QED
      BY <3>1, <3>2, ObjectUpdates
  <2>2. ClusterTypeOK' /\ WarmPodsHaveJobs'
    BY <1>0, <1>9, SameCluster DEF WriteReplicas
  <2>3. CASE /\ Put(new) /\ pmd' = md' /\ Goto("applyDep") /\ UNCHANGED <<fresh, cache, stale, dec>>
             /\ lastCommit' = dec.lastScale
    <3>1. /\ md' \in ModelDeployment /\ ~md'.deleting
          /\ mdFresh' \in BOOLEAN
          /\ mdFresh' => mdCache' = md'
      BY <1>9, <2>1, <2>3, PutKeeps DEF WriteReplicas, Caches
    <3>2. lastCommit' \in Nat
      BY <2>3 DEF DecType
    <3> QED
      BY <1>9, <2>2, <2>3, <3>1, <3>2, ObjectFields
      DEF WriteReplicas, Goto, Caches, Environment, budgets
  <2>4. CASE Fail /\ UNCHANGED <<md, mdFresh, lastCommit>>
    BY <1>9, <2>2, <2>4, ForgetKeeps DEF WriteReplicas, Fail, Caches, Environment, budgets
  <2> QED
    BY <1>9, <2>3, <2>4 DEF WriteReplicas
<1>10. CASE ApplyDeployment
  <2>1. dep' \in Deployments
    <3>1. pmd.spec \in ModelDeploymentSpec /\ dec.replicas \in Counts
      BY <1>10, ObjectFields DEF ApplyDeployment, DecType
    <3>2. Paused \in BOOLEAN
      BY DEF Paused
    <3> QED
      BY <1>10, <3>1, <3>2, ChildTypes DEF ApplyDeployment
  <2>2. ClusterTypeOK' /\ WarmPodsHaveJobs'
    BY <1>10, <2>1 DEF ApplyDeployment, ClusterTypeOK, WarmPodsHaveJobs, workload, volume
  <2> QED
    BY <1>10, <2>2 DEF ApplyDeployment, Goto, informers, locals, Environment, budgets
<1>11. CASE ApplyService
  <2>1. ClusterTypeOK' /\ WarmPodsHaveJobs'
    BY <1>11 DEF ApplyService, ClusterTypeOK, WarmPodsHaveJobs, workload, volume
  <2> QED
    BY <1>11, <2>1 DEF ApplyService, Goto, informers, locals, Environment, budgets
<1>12. CASE ReconcilePDB
  <2>1. pdb' \in Nat
    <3>1. dec.replicas \in Nat /\ pmd.spec.minAvailable \in Nat
      BY <1>12, ObjectFields, CountsFacts DEF ReconcilePDB, DecType, ModelDeploymentSpec
    <3> QED
      BY <1>12, <3>1 DEF ReconcilePDB, PDBMinAvailable, Minimum
  <2>2. ClusterTypeOK' /\ WarmPodsHaveJobs'
    BY <1>12, <2>1 DEF ReconcilePDB, ClusterTypeOK, WarmPodsHaveJobs, workload, volume
  <2> QED
    BY <1>12, <2>2 DEF ReconcilePDB, Goto, informers, locals, Environment, budgets
<1>13. CASE WriteStatus
  <2>1. ClusterTypeOK' /\ WarmPodsHaveJobs'
    BY <1>0, <1>13, SameCluster DEF WriteStatus
  <2>2. ASSUME fresh PROVE [md EXCEPT !.status = NextStatus] \in ModelDeployment
    BY <1>13, <2>2, StatusType, ObjectUpdates
  <2>3. CASE Finish(Requeue) /\ UNCHANGED <<md, mdFresh>>
    <3>1. timer' \in BOOLEAN /\ queued' \in BOOLEAN
      BY <2>3, Zenon DEF Finish
    <3> QED
      BY <1>13, <2>1, <2>3, <3>1, ForgetKeeps DEF WriteStatus, Finish, Caches, Environment, budgets
  <2>4. CASE /\ fresh
             /\ md' = [md EXCEPT !.status = NextStatus]
             /\ mdFresh' = FALSE
             /\ Finish(Requeue)
    <3>1. timer' \in BOOLEAN /\ queued' \in BOOLEAN
      BY <2>4, Zenon DEF Finish
    <3>2. md' \in ModelDeployment /\ mdFresh' \in BOOLEAN
      BY <2>2, <2>4
    <3> QED
      BY <1>13, <2>1, <2>4, <3>1, <3>2, ForgetKeeps
      DEF WriteStatus, Finish, Caches, Environment, budgets
  <2>5. CASE Fail /\ UNCHANGED <<md, mdFresh>>
    BY <1>13, <2>1, <2>5, ForgetKeeps DEF WriteStatus, Fail, Caches, Environment, budgets
  <2> QED
    BY <1>13, <2>3, <2>4, <2>5 DEF WriteStatus
<1>14. CASE DeleteDeployment
  <2>1. ClusterTypeOK' /\ WarmPodsHaveJobs'
    BY <1>14 DEF DeleteDeployment, ClusterTypeOK, WarmPodsHaveJobs, workload, volume
  <2> QED
    BY <1>14, <2>1 DEF DeleteDeployment, Goto, informers, locals, Environment, budgets
<1>15. CASE DeleteJobs
  <2>1. ClusterTypeOK' /\ WarmPodsHaveJobs'
    <3>1. DeleteAllJobs
      BY <1>15 DEF DeleteJobs
    <3> QED
      BY <1>0, <1>15, <3>1, DeleteAllJobsTypes DEF DeleteJobs, ClusterTypeOK, workload, volume
  <2> QED
    BY <1>15, <2>1 DEF DeleteJobs, Goto, informers, locals, Environment, budgets
<1>16. CASE ListPods
  <2>1. ClusterTypeOK' /\ WarmPodsHaveJobs'
    BY <1>0, <1>16, SameCluster DEF ListPods
  <2>2. CASE Finish(TRUE)
    <3>1. timer' \in BOOLEAN /\ queued' \in BOOLEAN
      BY <2>2, Zenon DEF Finish
    <3> QED
      BY <1>16, <2>1, <2>2, <3>1, ForgetKeeps DEF ListPods, Finish, informers, Environment, budgets
  <2>3. CASE Goto("release") /\ UNCHANGED locals
    BY <1>16, <2>1, <2>3 DEF ListPods, Goto, informers, locals, Environment, budgets
  <2> QED
    BY <1>16, <2>2, <2>3 DEF ListPods
<1>17. CASE ReleaseFinalizer
  <2> DEFINE new == [pmd EXCEPT !.spec = Stored(@), !.fin = FALSE]
  <2>1. new \in ModelDeployment
    BY <1>17, FinalizerUpdate DEF ReleaseFinalizer
  <2>2. ClusterTypeOK' /\ WarmPodsHaveJobs'
    BY <1>0, <1>17, SameCluster DEF ReleaseFinalizer
  <2>3. CASE Put(new) /\ Finish(FALSE)
    <3>1. /\ md' \in ModelDeployment \cup {None}
          /\ mdFresh' \in BOOLEAN
          /\ mdFresh' => mdCache' = md'
      BY <1>17, <2>1, <2>3, PutKeeps DEF ReleaseFinalizer, Caches
    <3>2. timer' \in BOOLEAN /\ queued' \in BOOLEAN
      BY <2>3, Zenon DEF Finish
    <3> QED
      BY <1>17, <2>2, <2>3, <3>1, <3>2, ForgetKeeps
      DEF ReleaseFinalizer, Finish, Caches, Environment, budgets
  <2>4. CASE Fail /\ UNCHANGED <<md, mdFresh>>
    BY <1>17, <2>2, <2>4, ForgetKeeps DEF ReleaseFinalizer, Fail, Caches, Environment, budgets
  <2> QED
    BY <1>17, <2>3, <2>4 DEF ReleaseFinalizer
<1>18. CASE Abort
  <2>1. ClusterTypeOK' /\ WarmPodsHaveJobs'
    BY <1>0, <1>18, SameCluster DEF Abort
  <2>2. faults' \in Nat
    BY <1>18 DEF Abort
  <2>3. ForgetPass /\ queued' = TRUE /\ UNCHANGED timer
    BY <1>18 DEF Abort, Fail
  <2> QED
    BY <1>18, <2>1, <2>2, <2>3, ForgetKeeps DEF Abort, informers
<1>19. CASE SyncMD
  <2>1. ClusterTypeOK' /\ WarmPodsHaveJobs'
    BY <1>0, <1>19, SameCluster DEF SyncMD
  <2> QED
    BY <1>19, <2>1 DEF SyncMD, locals, Environment, budgets
<1>20. ASSUME NEW k \in Keys, SyncJob(k) PROVE PassInv'
  <2>1. ClusterTypeOK' /\ WarmPodsHaveJobs'
    BY <1>0, <1>20, SameCluster DEF SyncJob
  <2>2. jobsCache' \in [Keys -> Jobs \cup {None}]
    BY <1>20 DEF SyncJob, ClusterTypeOK
  <2> QED
    BY <1>20, <2>1, <2>2 DEF SyncJob, locals, Environment, budgets
<1>21. CASE SyncDep
  <2>1. ClusterTypeOK' /\ WarmPodsHaveJobs'
    BY <1>0, <1>21, SameCluster DEF SyncDep
  <2>2. depCache' \in DepView
    BY <1>21, DepNowType DEF SyncDep
  <2> QED
    BY <1>21, <2>1, <2>2 DEF SyncDep, locals, Environment, budgets
<1>22. CASE SyncPods
  <2>1. ClusterTypeOK' /\ WarmPodsHaveJobs'
    BY <1>0, <1>22, SameCluster DEF SyncPods
  <2>2. podsCache' \in BOOLEAN
    BY <1>22 DEF SyncPods, PodsExist
  <2> QED
    BY <1>22, <2>1, <2>2 DEF SyncPods, locals, Environment, budgets
<1>23. CASE TimerFires
  <2>1. ClusterTypeOK' /\ WarmPodsHaveJobs'
    BY <1>0, <1>23, SameCluster DEF TimerFires
  <2>2. timer' \in BOOLEAN /\ queued' \in BOOLEAN
    BY <1>23, Zenon DEF TimerFires
  <2> QED
    BY <1>23, <2>1, <2>2 DEF TimerFires, informers, locals, Environment, budgets
<1>24. ASSUME NEW s \in Specs, EditSpec(s) PROVE PassInv'
  <2>1. ClusterTypeOK' /\ WarmPodsHaveJobs'
    BY <1>0, <1>24, SameCluster DEF EditSpec
  <2>2. md' \in ModelDeployment
    BY <1>24, SpecsAssumption, UserUpdates DEF EditSpec
  <2>3. edits' \in Nat
    BY <1>24 DEF EditSpec
  <2> QED
    BY <1>24, <2>1, <2>2, <2>3 DEF EditSpec, Caches
<1>25. CASE DeleteMD
  <2>1. ClusterTypeOK' /\ WarmPodsHaveJobs'
    BY <1>0, <1>25, SameCluster DEF DeleteMD
  <2>2. md' \in ModelDeployment \cup {None}
    BY <1>25, ObjectFields, UserUpdates DEF DeleteMD
  <2>3. deletes' \in Nat
    BY <1>25 DEF DeleteMD
  <2> QED
    BY <1>25, <2>1, <2>2, <2>3 DEF DeleteMD, Caches
<1>26. CASE Drift
  <2>1. ClusterTypeOK' /\ WarmPodsHaveJobs'
    BY <1>26 DEF Drift, ClusterTypeOK, WarmPodsHaveJobs, workload, volume
  <2>2. drifts' \in Nat
    BY <1>26 DEF Drift
  <2> QED
    BY <1>26, <2>1, <2>2 DEF Drift, informers, locals
<1>27. ASSUME NEW c \in SharedClaims, ProvisionClaim(c) PROVE PassInv'
  <2>1. ClusterTypeOK' /\ WarmPodsHaveJobs'
    BY <1>27 DEF ProvisionClaim, ClusterTypeOK, WarmPodsHaveJobs, workload, volume, Claims
  <2> QED
    BY <1>27, <2>1 DEF ProvisionClaim, informers, locals, Environment, budgets
<1>28. ASSUME NEW c \in Claims, LoseClaim(c) PROVE PassInv'
  <2>1. ClusterTypeOK' /\ WarmPodsHaveJobs'
    BY <1>28 DEF LoseClaim, ClusterTypeOK, WarmPodsHaveJobs, workload
  <2>2. losses' \in Nat
    BY <1>28 DEF LoseClaim
  <2> QED
    BY <1>28, <2>1, <2>2 DEF LoseClaim, informers, locals
<1>29. CASE Tick
  <2>1. ClusterTypeOK' /\ WarmPodsHaveJobs'
    BY <1>0, <1>29, SameCluster DEF Tick
  <2>2. clock' \in Nat
    BY <1>29 DEF Tick
  <2> QED
    BY <1>29, <2>1, <2>2 DEF Tick, informers, locals, budgets
<1>30. CASE Others
  <2>1. ClusterTypeOK' /\ WarmPodsHaveJobs'
    BY <1>0, <1>30, DeploymentControllerTypes, KubeletTypes, WarmUpTypes, CollectorTypes
    DEF Others, ClusterInv
  <2> QED
    BY <1>30, <2>1 DEF Others, informers, locals, Environment, budgets
<1> QED
  BY <1>1, <1>2, <1>3, <1>4, <1>5, <1>6, <1>7, <1>8, <1>9, <1>10, <1>11, <1>12, <1>13,
     <1>14, <1>15, <1>16, <1>17, <1>18, <1>19, <1>20, <1>21, <1>22, <1>23, <1>24, <1>25,
     <1>26, <1>27, <1>28, <1>29, <1>30, Zenon
  DEF Next, Pass, Informers, User, PromptEvent

LEMMA PassAlways == Spec => []PassInv
BY InitPass, PassStep, PTL DEF Spec

\* Types: every object the operator, the cluster and the user leave behind is
\* well formed, and a running pass holds an object.
THEOREM TypeCorrect == Spec => []TypeOK
<1>1. PassInv => TypeOK
  BY DEF PassInv
<1> QED
  BY <1>1, PassAlways, PTL

-----------------------------------------------------------------------------
(* The status describes the spec whose generation it records *)

\* From the point on where a pass has looked at the cache, it knows whether
\* the spec it works on has one.
StatusInv ==
    /\ pc \in {"claim", "job"} => HasCache(pmd.spec)
    /\ pc \in SyncSteps \ {"claim", "job"} => (cache.enabled <=> HasCache(pmd.spec))
    /\ StatusMatchesSpec

LEMMA SameObject ==
    ASSUME StatusMatchesSpec, UNCHANGED md
    PROVE  StatusMatchesSpec'
BY DEF StatusMatchesSpec

\* An accepted Update either changes the spec, and with it the generation, or
\* leaves spec and status as they were.
LEMMA PutReports ==
    ASSUME PassInv, StatusMatchesSpec, NEW new \in ModelDeployment,
           new.status = pmd.status, Put(new)
    PROVE  StatusMatchesSpec'
<1>1. fresh /\ pmd = md /\ md \in ModelDeployment
  BY DEF Put, PassInv, TypeOK
<1>2. CASE md' = None
  BY <1>2 DEF StatusMatchesSpec
<1>3. CASE md' = new /\ new.spec = md.spec
  <2>1. md # None /\ md'.spec = md.spec /\ md'.status = md.status
    BY <1>1, <1>3, ObjectFields
  <2> QED
    BY <2>1 DEF StatusMatchesSpec
<1>4. CASE md' = [new EXCEPT !.status.observed = FALSE]
  BY <1>4, Unobserved DEF StatusMatchesSpec
<1> QED
  BY <1>2, <1>3, <1>4 DEF Put

\* The status a pass builds describes the object in its hands.
LEMMA BuiltMatches ==
    ASSUME cache.enabled <=> HasCache(pmd.spec)
    PROVE  /\ NextStatus.cacheKey = CacheKey(pmd.spec)
           /\ NextStatus.weightsCached = "CacheDisabled" <=> ~HasCache(pmd.spec)
           /\ NextStatus.ready = "ScaledToZero" <=> pmd.spec.replicas = 0
<1>1. WeightsCached(cache) = "CacheDisabled" <=> ~cache.enabled
  BY DEF WeightsCached
<1>2. Ready(pmd.spec.replicas, ObservedWorkload, Paused) = "ScaledToZero"
        <=> pmd.spec.replicas = 0
  BY DEF Ready
<1> QED
  BY <1>1, <1>2 DEF NextStatus, BuildStatus

LEMMA StatusStep == PassInv /\ PassInv' /\ StatusInv /\ [Next]_vars => StatusInv'
<1> SUFFICES ASSUME PassInv, PassInv', StatusInv, [Next]_vars PROVE StatusInv'
  OBVIOUS
<1> USE DEF StatusInv, SyncSteps
<1>1. CASE UNCHANGED vars
  BY <1>1, SameObject DEF vars, locals
<1>2. CASE StartPass
  <2>1. StatusMatchesSpec'
    BY <1>2, SameObject DEF StartPass
  <2>2. cache' = DisabledCache /\ ~DisabledCache.enabled
    BY <1>2 DEF StartPass, PassInv, locals, DisabledCache
  <2> QED
    BY <1>2, <2>1, <2>2 DEF StartPass, locals
<1>3. CASE AddFinalizer
  <2> DEFINE new == [pmd EXCEPT !.spec = Stored(@), !.fin = TRUE]
  <2>1. new \in ModelDeployment /\ new.status = pmd.status
    BY <1>3, FinalizerUpdate DEF AddFinalizer, PassInv, TypeOK
  <2>2. CASE Put(new) /\ Finish(FALSE)
    <3>1. StatusMatchesSpec'
      BY <2>1, <2>2, PutReports
    <3> QED
      BY <2>2, <3>1 DEF Finish, ForgetPass
  <2>3. CASE Fail /\ UNCHANGED <<md, mdFresh>>
    BY <2>3, SameObject DEF Fail, ForgetPass
  <2> QED
    BY <1>3, <2>2, <2>3 DEF AddFinalizer
<1>4. CASE EnsureClaim
  <2>1. StatusMatchesSpec'
    BY <1>4, SameObject DEF EnsureClaim
  <2> QED
    BY <1>4, <2>1 DEF EnsureClaim, Goto, Fail, ForgetPass, locals
<1>5. CASE ReconcileJob
  <2>1. StatusMatchesSpec'
    BY <1>5, SameObject DEF ReconcileJob
  <2>2. cache'.enabled = TRUE
    BY <1>5 DEF ReconcileJob, ColdCache, JobState
  <2> QED
    BY <1>5, <2>1, <2>2 DEF ReconcileJob, Goto
<1>6. CASE ListWarmJobs \/ (\E k \in Keys : PruneJob(k)) \/ DecideReplicas
  <2>1. StatusMatchesSpec'
    BY <1>6, SameObject DEF ListWarmJobs, PruneJob, DecideReplicas
  <2>2. /\ pc \in SyncSteps \ {"claim", "job"}
        /\ pc' \in SyncSteps \ {"claim", "job"}
        /\ UNCHANGED <<pmd, cache>>
    BY <1>6 DEF ListWarmJobs, PruneJob, DecideReplicas, Goto
  <2> QED
    BY <2>1, <2>2
<1>7. CASE WriteReplicas
  <2> DEFINE new == [pmd EXCEPT !.spec = Stored([@ EXCEPT !.replicas = dec.replicas])]
  <2>1. /\ pmd \in ModelDeployment /\ ~pmd.deleting /\ dec.replicas \in Counts
    BY <1>7 DEF WriteReplicas, PassInv, TypeOK, DecType
  <2>2. /\ Stored([pmd.spec EXCEPT !.replicas = dec.replicas]) \in ModelDeploymentSpec
        /\ SameWeights(Stored([pmd.spec EXCEPT !.replicas = dec.replicas]), pmd.spec)
    BY <2>1, ObjectFields, ResizedKeeps
  <2>3. /\ new \in ModelDeployment /\ new.status = pmd.status /\ ~new.deleting
        /\ SameWeights(new.spec, pmd.spec)
    BY <2>1, <2>2, ObjectUpdates
  <2>4. CASE Put(new) /\ pmd' = md' /\ Goto("applyDep") /\ UNCHANGED cache
    <3>1. StatusMatchesSpec'
      BY <2>3, <2>4, PutReports
    <3>2. md' # None /\ md'.spec = new.spec
      BY <1>7, <2>3, <2>4, PutKeeps, ObjectFields DEF WriteReplicas, Caches
    <3>3. HasCache(pmd'.spec) <=> HasCache(pmd.spec)
      BY <2>3, <2>4, <3>2 DEF HasCache, SameWeights
    <3> QED
      BY <1>7, <2>4, <3>1, <3>3 DEF WriteReplicas, Goto
  <2>5. CASE Fail /\ UNCHANGED <<md, mdFresh>>
    BY <2>5, SameObject DEF Fail, ForgetPass
  <2> QED
    BY <1>7, <2>4, <2>5 DEF WriteReplicas
<1>8. CASE ApplyDeployment \/ ApplyService \/ ReconcilePDB
  <2>1. StatusMatchesSpec'
    BY <1>8, SameObject DEF ApplyDeployment, ApplyService, ReconcilePDB
  <2> QED
    BY <1>8, <2>1 DEF ApplyDeployment, ApplyService, ReconcilePDB, Goto, locals
<1>9. CASE WriteStatus
  <2>1. pc' = "idle"
    BY <1>9 DEF WriteStatus, Finish, Fail, ForgetPass
  <2>2. CASE UNCHANGED md
    BY <2>1, <2>2, SameObject
  <2>3. CASE fresh /\ md' = [md EXCEPT !.status = NextStatus]
    <3>1. pmd = md /\ md \in ModelDeployment
      BY <2>3 DEF PassInv, TypeOK
    <3>2. md'.spec = pmd.spec /\ md'.status = NextStatus
      BY <2>3, <3>1, StatusType, ObjectUpdates DEF PassInv
    <3>3. cache.enabled <=> HasCache(pmd.spec)
      BY <1>9 DEF WriteStatus
    <3>4. StatusMatchesSpec'
      BY <3>2, <3>3, BuiltMatches DEF StatusMatchesSpec
    <3> QED
      BY <2>1, <3>4
  <2> QED
    BY <1>9, <2>2, <2>3 DEF WriteStatus
<1>10. CASE DeleteDeployment \/ DeleteJobs \/ ListPods
  <2>1. StatusMatchesSpec'
    BY <1>10, SameObject DEF DeleteDeployment, DeleteJobs, ListPods
  <2>2. pc' \notin SyncSteps
    BY <1>10 DEF DeleteDeployment, DeleteJobs, ListPods, Goto, Finish, ForgetPass
  <2> QED
    BY <2>1, <2>2
<1>11. CASE ReleaseFinalizer
  <2> DEFINE new == [pmd EXCEPT !.spec = Stored(@), !.fin = FALSE]
  <2>1. new \in ModelDeployment /\ new.status = pmd.status
    BY <1>11, FinalizerUpdate DEF ReleaseFinalizer, PassInv, TypeOK
  <2>2. CASE Put(new) /\ Finish(FALSE)
    <3>1. StatusMatchesSpec'
      BY <2>1, <2>2, PutReports
    <3> QED
      BY <2>2, <3>1 DEF Finish, ForgetPass
  <2>3. CASE Fail /\ UNCHANGED <<md, mdFresh>>
    BY <2>3, SameObject DEF Fail, ForgetPass
  <2> QED
    BY <1>11, <2>2, <2>3 DEF ReleaseFinalizer
<1>12. CASE Abort
  BY <1>12, SameObject DEF Abort, Fail, ForgetPass
<1>13. CASE SyncMD \/ (\E k \in Keys : SyncJob(k)) \/ SyncDep \/ SyncPods \/ TimerFires
  <2>1. UNCHANGED <<md, pc, pmd, cache>>
    BY <1>13 DEF SyncMD, SyncJob, SyncDep, SyncPods, TimerFires, locals
  <2> QED
    BY <2>1, SameObject
<1>14. CASE (\E s \in Specs : EditSpec(s)) \/ DeleteMD
  <2>1. UNCHANGED <<pc, pmd, cache>>
    BY <1>14 DEF EditSpec, DeleteMD
  <2>2. md' = None \/ ~md'.status.observed
    BY <1>14, SpecsAssumption, ObjectFields, UserUpdates DEF EditSpec, DeleteMD, PassInv, TypeOK
  <2> QED
    BY <2>1, <2>2 DEF StatusMatchesSpec
<1>15. CASE \/ Drift \/ Tick \/ Others
            \/ (\E c \in SharedClaims : ProvisionClaim(c)) \/ (\E c \in Claims : LoseClaim(c))
  <2>1. UNCHANGED <<md, pc, pmd, cache>>
    BY <1>15 DEF Drift, ProvisionClaim, LoseClaim, Tick, Others, locals
  <2> QED
    BY <2>1, SameObject
<1> QED
  BY <1>1, <1>2, <1>3, <1>4, <1>5, <1>6, <1>7, <1>8, <1>9, <1>10, <1>11, <1>12, <1>13,
     <1>14, <1>15, Zenon
  DEF Next, Pass, Informers, User, PromptEvent

LEMMA StatusAlways == Spec => []StatusInv
<1>1. Init => StatusInv
  BY DEF Init, StatusInv, SyncSteps, StatusMatchesSpec, EmptyStatus
<1> QED
  BY <1>1, StatusStep, PassAlways, PTL DEF Spec

\* A status whose observedGeneration is current describes the current spec:
\* the conflict check of writeStatus never lets a pass label what it learned
\* from an older spec with the newer generation.
THEOREM StatusIsOfItsSpec == Spec => []StatusMatchesSpec
<1>1. StatusInv => StatusMatchesSpec
  BY DEF StatusInv
<1> QED
  BY <1>1, StatusAlways, PTL
=============================================================================
