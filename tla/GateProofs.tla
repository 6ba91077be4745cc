----------------------------- MODULE GateProofs -----------------------------
(***************************************************************************)
(* The gate: no pod is created for weights that are not on the volume it   *)
(* mounts.  It holds for every ModelDeployment whose specs all keep their  *)
(* weights on one volume v, as long as v is not deleted: the warm-up Job   *)
(* of a key stands for weights on whatever volume it ran on.               *)
(* MCOtherClaim.cfg shows what happens without the first premise.  What    *)
(* holds without either is that no pod takes traffic without its weights.  *)
(* The last part turns the gate into a refinement: the operator in its     *)
(* cluster takes only steps that the service of ModelService allows.       *)
(***************************************************************************)
EXTENDS Refinement, LifecycleProofs

-----------------------------------------------------------------------------
(* The inductive invariant *)

OnVolume(v, s) == HasCache(s) => PVCName(s) = v

\* Every copy of the object asks for volume v, if for any.
ObjectsOnVolume(v) ==
    /\ md # None => OnVolume(v, md.spec)
    /\ mdCache # None => OnVolume(v, mdCache.spec)
    /\ pc # "idle" => OnVolume(v, pmd.spec)

\* A Job that succeeded, stored or in the informer's copy, left its marker.
JobsOnVolume(v, js) ==
    \A k \in Keys : js[k] # None =>
        /\ js[k].claim = v
        /\ js[k].succeeded => <<v, k>> \in marker

\* So did a warm-up pod that ran to its end.
PodsFinished(v) == \A k \in Keys : warmPod[k] = "done" => <<v, k>> \in marker

\* What a pass takes for warm is on the volume.
WarmIsReal(v) ==
    cache.warm => /\ pc # "idle"
                  /\ HasCache(pmd.spec)
                  /\ <<v, CacheKey(pmd.spec)>> \in marker

\* A Deployment that is not paused may be rolled out.
GateOpen == dep # None /\ ~dep.paused => Servable(dep.template)

\* What the status calls cached is.
CachedIsReal(v) ==
    md # None /\ md.status.observed /\ md.status.weightsCached = "Cached" =>
        HasCache(md.spec) /\ <<v, CacheKey(md.spec)>> \in marker

GateInv(v) ==
    /\ ObjectsOnVolume(v)
    /\ JobsOnVolume(v, jobs)
    /\ JobsOnVolume(v, jobsCache)
    /\ PodsFinished(v)
    /\ WarmIsReal(v)
    /\ GateOpen
    /\ ServeOnlyCachedWeights
    /\ CachedIsReal(v)

-----------------------------------------------------------------------------
(* Parts that a step leaves alone: unless a claim is lost, the marker is   *)
(* never removed                                                           *)

LEMMA MarkerGrows ==
    ASSUME [Next]_vars, \A c \in Claims : ~LoseClaim(c)
    PROVE  marker \subseteq marker'
<1> USE DEF clusterVars, volume
<1>1. CASE UNCHANGED vars
  BY <1>1 DEF vars
<1>2. CASE Pass
  BY <1>2
  DEF Pass, StartPass, AddFinalizer, EnsureClaim, ReconcileJob, ListWarmJobs, PruneJob,
      DecideReplicas, WriteReplicas, ApplyDeployment, ApplyService, ReconcilePDB, WriteStatus,
      DeleteDeployment, DeleteJobs, ListPods, ReleaseFinalizer
<1>3. CASE Abort \/ Informers \/ TimerFires \/ User \/ Tick \/ PromptEvent
  BY <1>3
  DEF Abort, Informers, TimerFires, User, Tick, PromptEvent, SyncMD, SyncJob, SyncDep, SyncPods,
      EditSpec, DeleteMD, Drift, ProvisionClaim
<1>4. CASE DeploymentController \/ Kubelet
  BY <1>4
  DEF DeploymentController, Kubelet, NewReplicaSet, ScaleUpNew, ScaleDownNew, ScaleDownOld,
      ScalePaused, CreatePod, DeletePod, PodReady
<1>5. CASE WarmUp \/ WarmUpFails \/ OrphanRuns
  BY <1>5
  DEF WarmUp, WarmUpFails, OrphanRuns, StartWarmPod, PullWeights, WriteMarker, CompleteJob,
      FailWarmPod, DeadlineJob, OrphanPull, OrphanMark
<1>6. CASE Collector \/ CollectChildren
  BY <1>6 DEF Collector, CollectWarmPod, CollectReplicaSet, CollectChildren
<1> QED
  BY <1>1, <1>2, <1>3, <1>4, <1>5, <1>6 DEF Next, Others

LEMMA NoLoss ==
    ASSUME MaxLosses = 0, PassInv
    PROVE  \A c \in Claims : ~LoseClaim(c)
BY DEF LoseClaim, PassInv, TypeOK

LEMMA SameJobs ==
    ASSUME NEW v, GateInv(v), marker \subseteq marker', UNCHANGED <<jobs, jobsCache, warmPod>>
    PROVE  JobsOnVolume(v, jobs)' /\ JobsOnVolume(v, jobsCache)' /\ PodsFinished(v)'
BY DEF GateInv, JobsOnVolume, PodsFinished

LEMMA FewerJobs ==
    ASSUME NEW v, GateInv(v), marker \subseteq marker', UNCHANGED jobsCache,
           \A k \in Keys : /\ jobs'[k] = jobs[k] \/ jobs'[k] = None
                           /\ warmPod'[k] = warmPod[k] \/ warmPod'[k] = "none"
    PROVE  JobsOnVolume(v, jobs)' /\ JobsOnVolume(v, jobsCache)' /\ PodsFinished(v)'
BY DEF GateInv, JobsOnVolume, PodsFinished

LEMMA SamePass ==
    ASSUME NEW v, GateInv(v), marker \subseteq marker', UNCHANGED <<pc, pmd, cache>>
    PROVE  WarmIsReal(v)'
BY DEF GateInv, WarmIsReal

LEMMA PassOver ==
    ASSUME NEW v, ForgetPass
    PROVE  WarmIsReal(v)'
BY DEF WarmIsReal, ForgetPass, DisabledCache

LEMMA SameRollout ==
    ASSUME NEW v, GateInv(v), marker \subseteq marker', UNCHANGED <<dep, rsets, pods>>
    PROVE  GateOpen' /\ ServeOnlyCachedWeights'
BY DEF GateInv, GateOpen, ServeOnlyCachedWeights, Servable

LEMMA SameReport ==
    ASSUME NEW v, GateInv(v), marker \subseteq marker', UNCHANGED md
    PROVE  CachedIsReal(v)'
BY DEF GateInv, CachedIsReal

LEMMA SameObjects ==
    ASSUME NEW v, GateInv(v), UNCHANGED <<md, mdCache, pmd>>, pc' # "idle" => pc # "idle"
    PROVE  ObjectsOnVolume(v)'
BY DEF GateInv, ObjectsOnVolume

-----------------------------------------------------------------------------
(* Objects *)

LEMMA SameVolume ==
    ASSUME NEW v, NEW s, NEW u, SameWeights(s, u), OnVolume(v, u)
    PROVE  /\ OnVolume(v, s)
           /\ HasCache(s) <=> HasCache(u)
           /\ CacheKey(s) = CacheKey(u)
BY DEF SameWeights, OnVolume, HasCache, PVCName, CacheKey

\* An accepted Update of the object a pass holds: it keeps its volume, and a
\* status it keeps was written for the same spec.
LEMMA PutGate ==
    ASSUME NEW v, PassInv, GateInv(v), NEW new \in ModelDeployment,
           SameWeights(new.spec, pmd.spec), new.status = pmd.status, Put(new),
           UNCHANGED mdCache, marker \subseteq marker'
    PROVE  /\ md' # None => OnVolume(v, md'.spec)
           /\ CachedIsReal(v)'
<1>1. pmd = md /\ md \in ModelDeployment /\ md # None /\ pc # "idle"
  BY ObjectFields DEF Put, PassInv, TypeOK
<1>2. OnVolume(v, new.spec)
  BY <1>1, SameVolume DEF GateInv, ObjectsOnVolume
<1>3. md' = None \/ md'.spec = new.spec
  BY PutKeeps
<1>4. CachedIsReal(v)'
  <2>1. CASE md' = None
    BY <2>1 DEF CachedIsReal
  <2>2. CASE md' = new /\ new.spec = md.spec
    BY <1>1, <2>2 DEF GateInv, CachedIsReal
  <2>3. CASE md' = [new EXCEPT !.status.observed = FALSE]
    BY <2>3, Unobserved DEF CachedIsReal
  <2> QED
    BY <2>1, <2>2, <2>3 DEF Put
<1> QED
  BY <1>2, <1>3, <1>4

\* A status that says Cached was built by a pass that took the cache for warm.
LEMMA BuiltCached ==
    ASSUME NextStatus.weightsCached = "Cached"
    PROVE  cache.warm
BY DEF NextStatus, BuildStatus, WeightsCached

-----------------------------------------------------------------------------
(* The steps of a pass *)

LEMMA PassGate ==
    ASSUME NEW v, PassInv, StatusInv, GateInv(v), Pass, marker \subseteq marker'
    PROVE  GateInv(v)'
<1>1. CASE StartPass
  <2>1. UNCHANGED <<md, mdCache, jobs, jobsCache, warmPod, dep, rsets, pods, cache>>
    BY <1>1 DEF StartPass, clusterVars, children, workload, informers, locals
  <2>2. ObjectsOnVolume(v)'
    BY <1>1, <2>1 DEF StartPass, GateInv, ObjectsOnVolume, locals
  <2>3. WarmIsReal(v)'
    BY <1>1, <2>1 DEF StartPass, PassInv, WarmIsReal, DisabledCache
  <2> QED
    BY <2>1, <2>2, <2>3, SameJobs, SameRollout, SameReport DEF GateInv
<1>2. CASE AddFinalizer
  <2> DEFINE new == [pmd EXCEPT !.spec = Stored(@), !.fin = TRUE]
  <2>1. UNCHANGED <<mdCache, jobs, jobsCache, warmPod, dep, rsets, pods>>
    BY <1>2 DEF AddFinalizer, clusterVars, children, workload, Caches
  <2>2. /\ new \in ModelDeployment
        /\ SameWeights(new.spec, pmd.spec)
        /\ new.status = pmd.status
    BY <1>2, FinalizerUpdate DEF AddFinalizer, PassInv, TypeOK
  <2>3. ForgetPass /\ (Put(new) \/ UNCHANGED md)
    BY <1>2 DEF AddFinalizer, Finish, Fail
  <2>4. (md' # None => OnVolume(v, md'.spec)) /\ CachedIsReal(v)'
    BY <2>1, <2>2, <2>3, PutGate, SameReport DEF GateInv, ObjectsOnVolume
  <2>5. ObjectsOnVolume(v)'
    BY <2>1, <2>3, <2>4 DEF GateInv, ObjectsOnVolume, ForgetPass
  <2> QED
    BY <2>1, <2>3, <2>4, <2>5, PassOver, SameJobs, SameRollout DEF GateInv
<1>3. CASE EnsureClaim
  <2>1. UNCHANGED <<md, mdCache, jobs, jobsCache, warmPod, dep, rsets, pods>>
    BY <1>3 DEF EnsureClaim, workload, informers
  <2>2. ForgetPass \/ (UNCHANGED <<pmd, cache>> /\ pc # "idle" /\ pc' # "idle")
    BY <1>3 DEF EnsureClaim, Fail, Goto, locals
  <2>3. ObjectsOnVolume(v)'
    BY <2>1, <2>2 DEF GateInv, ObjectsOnVolume, ForgetPass
  <2>4. WarmIsReal(v)'
    BY <2>2, PassOver DEF GateInv, WarmIsReal
  <2> QED
    BY <2>1, <2>3, <2>4, SameJobs, SameRollout, SameReport DEF GateInv
<1>4. CASE ReconcileJob
  <2> DEFINE key == CacheKey(pmd.spec)
             seen == jobsCache[key]
  <2>1. UNCHANGED <<md, mdCache, pmd, jobsCache, warmPod, dep, rsets, pods>>
    BY <1>4 DEF ReconcileJob, workload, informers
  <2>2. pmd \in ModelDeployment /\ pc = "job" /\ pc' = "list"
    BY <1>4 DEF ReconcileJob, Goto, PassInv, TypeOK
  <2>3. key \in Keys /\ HasCache(pmd.spec) /\ PVCName(pmd.spec) = v
    BY <2>2, ObjectFields, ChildTypes, CountsFacts
    DEF StatusInv, GateInv, ObjectsOnVolume, OnVolume
  <2>4. JobsOnVolume(v, jobs)'
    <3>1. WarmJob(pmd.spec).claim = v /\ ~WarmJob(pmd.spec).succeeded
      BY <2>3 DEF WarmJob
    <3>2. \A k \in Keys : jobs'[k] = jobs[k] \/ jobs'[k] = WarmJob(pmd.spec)
      BY <1>4, <2>3 DEF ReconcileJob, PassInv, TypeOK, ClusterTypeOK
    <3> QED
      BY <3>1, <3>2 DEF GateInv, JobsOnVolume
  <2>5. JobsOnVolume(v, jobsCache)' /\ PodsFinished(v)'
    BY <2>1 DEF GateInv, JobsOnVolume, PodsFinished
  <2>6. WarmIsReal(v)'
    <3>1. cache'.warm => seen # None /\ seen.succeeded
      BY <1>4 DEF ReconcileJob, ColdCache, JobState
    <3>2. cache'.warm => <<v, key>> \in marker
      BY <2>3, <3>1 DEF GateInv, JobsOnVolume
    <3> QED
      BY <2>1, <2>2, <2>3, <3>2 DEF WarmIsReal
  <2>7. ObjectsOnVolume(v)'
    BY <2>1, <2>2, SameObjects
  <2> QED
    BY <2>1, <2>4, <2>5, <2>6, <2>7, SameRollout, SameReport DEF GateInv
<1>5. CASE ListWarmJobs \/ DecideReplicas
  <2>1. /\ UNCHANGED <<md, mdCache, pmd, cache, jobs, jobsCache, warmPod, dep, rsets, pods>>
        /\ pc # "idle" /\ pc' # "idle"
    BY <1>5 DEF ListWarmJobs, DecideReplicas, Goto, clusterVars, children, workload, informers
  <2>2. WarmIsReal(v)'
    BY <2>1 DEF GateInv, WarmIsReal
  <2> QED
    BY <2>1, <2>2, SameObjects, SameJobs, SameRollout, SameReport DEF GateInv
<1>6. CASE \E k \in Keys : PruneJob(k)
  <2>1. /\ UNCHANGED <<md, mdCache, pmd, cache, jobsCache, dep, rsets, pods>>
        /\ pc # "idle" /\ pc' # "idle"
    BY <1>6 DEF PruneJob, Goto, workload, informers
  <2>2. PICK k \in Keys : DeleteJob(k)
    BY <1>6 DEF PruneJob
  <2>3. \A j \in Keys : /\ jobs'[j] = jobs[j] \/ jobs'[j] = None
                        /\ warmPod'[j] = warmPod[j] \/ warmPod'[j] = "none"
    BY <2>2 DEF DeleteJob, PassInv, TypeOK, ClusterTypeOK
  <2>4. WarmIsReal(v)'
    BY <2>1 DEF GateInv, WarmIsReal
  <2> QED
    BY <2>1, <2>3, <2>4, FewerJobs, SameObjects, SameRollout, SameReport DEF GateInv
<1>7. CASE WriteReplicas
  <2> DEFINE new == [pmd EXCEPT !.spec = Stored([@ EXCEPT !.replicas = dec.replicas])]
  <2>1. UNCHANGED <<mdCache, jobs, jobsCache, warmPod, dep, rsets, pods>>
    BY <1>7 DEF WriteReplicas, clusterVars, children, workload, Caches
  <2>2. pc = "update" /\ pmd \in ModelDeployment /\ ~pmd.deleting /\ dec.replicas \in Counts
    BY <1>7 DEF WriteReplicas, PassInv, TypeOK, DecType, SyncSteps
  <2>3. /\ Stored([pmd.spec EXCEPT !.replicas = dec.replicas]) \in ModelDeploymentSpec
        /\ SameWeights(Stored([pmd.spec EXCEPT !.replicas = dec.replicas]), pmd.spec)
    BY <2>2, ObjectFields, ResizedKeeps
  <2>4. /\ new \in ModelDeployment /\ new.status = pmd.status /\ ~new.deleting
        /\ SameWeights(new.spec, pmd.spec)
    BY <2>2, <2>3, ObjectUpdates
  <2>5. CASE Put(new) /\ pmd' = md' /\ Goto("applyDep") /\ UNCHANGED cache
    <3>1. (md' # None => OnVolume(v, md'.spec)) /\ CachedIsReal(v)'
      BY <2>1, <2>4, <2>5, PutGate
    <3>2. md' # None /\ md'.spec = new.spec
      BY <1>7, <2>4, <2>5, PutKeeps, ObjectFields DEF WriteReplicas, Caches
    <3>3. ObjectsOnVolume(v)'
      BY <2>1, <2>5, <3>1, <3>2 DEF GateInv, ObjectsOnVolume
    <3>4. OnVolume(v, pmd.spec)
      BY <2>2 DEF GateInv, ObjectsOnVolume
    <3>5. CacheKey(pmd'.spec) = CacheKey(pmd.spec) /\ (HasCache(pmd'.spec) <=> HasCache(pmd.spec))
      BY <2>4, <2>5, <3>2, <3>4, SameVolume
    <3>6. WarmIsReal(v)'
      BY <2>5, <3>5 DEF GateInv, WarmIsReal, Goto
    <3> QED
      BY <2>1, <3>1, <3>3, <3>6, SameJobs, SameRollout DEF GateInv
  <2>6. CASE Fail /\ UNCHANGED <<md, mdFresh>>
    <3>1. ForgetPass
      BY <2>6 DEF Fail
    <3>2. ObjectsOnVolume(v)'
      BY <2>1, <2>6, <3>1 DEF GateInv, ObjectsOnVolume, ForgetPass
    <3> QED
      BY <2>1, <2>6, <3>1, <3>2, PassOver, SameJobs, SameRollout, SameReport DEF GateInv
  <2> QED
    BY <1>7, <2>5, <2>6 DEF WriteReplicas
<1>8. CASE ApplyDeployment
  <2>1. /\ UNCHANGED <<md, mdCache, pmd, cache, jobs, jobsCache, warmPod, rsets, pods>>
        /\ pc # "idle" /\ pc' # "idle"
    BY <1>8 DEF ApplyDeployment, Goto, workload, informers, locals
  <2>2. WarmIsReal(v)'
    BY <2>1 DEF GateInv, WarmIsReal
  <2>3. GateOpen'
    <3>1. /\ dep'.paused = Paused
          /\ dep'.template.claim = WeightsVolume(pmd.spec)
          /\ dep'.template.key = CacheKey(pmd.spec)
      BY <1>8 DEF ApplyDeployment, Deployment, Template
    <3>2. CASE ~HasCache(pmd.spec)
      BY <3>1, <3>2 DEF WeightsVolume, GateOpen, Servable
    <3>3. CASE HasCache(pmd.spec) /\ ~cache.warm
      BY <3>1, <3>3 DEF Paused, GateOpen
    <3>4. CASE HasCache(pmd.spec) /\ cache.warm
      <4>1. PVCName(pmd.spec) = v /\ <<v, CacheKey(pmd.spec)>> \in marker
        BY <2>1, <3>4 DEF GateInv, ObjectsOnVolume, OnVolume, WarmIsReal
      <4> QED
        BY <3>1, <3>4, <4>1 DEF WeightsVolume, GateOpen, Servable
    <3> QED
      BY <3>2, <3>3, <3>4
  <2>4. ServeOnlyCachedWeights'
    BY <2>1 DEF GateInv, ServeOnlyCachedWeights, Servable
  <2> QED
    BY <2>1, <2>2, <2>3, <2>4, SameObjects, SameJobs, SameReport DEF GateInv
<1>9. CASE ApplyService \/ ReconcilePDB
  <2>1. /\ UNCHANGED <<md, mdCache, pmd, cache, jobs, jobsCache, warmPod, dep, rsets, pods>>
        /\ pc # "idle" /\ pc' # "idle"
    BY <1>9 DEF ApplyService, ReconcilePDB, Goto, workload, informers, locals
  <2>2. WarmIsReal(v)'
    BY <2>1 DEF GateInv, WarmIsReal
  <2> QED
    BY <2>1, <2>2, SameObjects, SameJobs, SameRollout, SameReport DEF GateInv
<1>10. CASE WriteStatus
  <2>1. /\ UNCHANGED <<mdCache, jobs, jobsCache, warmPod, dep, rsets, pods>>
        /\ ForgetPass
    BY <1>10 DEF WriteStatus, Finish, Fail, clusterVars, children, workload, Caches
  <2>2. (md' # None => OnVolume(v, md'.spec)) /\ CachedIsReal(v)'
    <3>1. CASE UNCHANGED md
      BY <3>1, SameReport DEF GateInv, ObjectsOnVolume
    <3>2. CASE fresh /\ md' = [md EXCEPT !.status = NextStatus]
      <4>1. pmd = md /\ md \in ModelDeployment /\ pc # "idle"
        BY <1>10, <3>2 DEF WriteStatus, PassInv, TypeOK
      <4>2. md'.spec = pmd.spec /\ md'.status = NextStatus
        BY <3>2, <4>1, StatusType, ObjectUpdates DEF PassInv
      <4> QED
        BY <4>1, <4>2, BuiltCached DEF GateInv, ObjectsOnVolume, WarmIsReal, CachedIsReal
    <3> QED
      BY <1>10, <3>1, <3>2 DEF WriteStatus
  <2>3. ObjectsOnVolume(v)'
    BY <2>1, <2>2 DEF GateInv, ObjectsOnVolume, ForgetPass
  <2> QED
    BY <2>1, <2>2, <2>3, PassOver, SameJobs, SameRollout DEF GateInv
<1>11. CASE DeleteDeployment
  <2>1. /\ UNCHANGED <<md, mdCache, pmd, cache, jobs, jobsCache, warmPod, rsets, pods>>
        /\ pc # "idle" /\ pc' # "idle" /\ dep' = None
    BY <1>11 DEF DeleteDeployment, Goto, workload, informers, locals
  <2>2. WarmIsReal(v)'
    BY <2>1 DEF GateInv, WarmIsReal
  <2>3. GateOpen' /\ ServeOnlyCachedWeights'
    BY <2>1 DEF GateInv, GateOpen, ServeOnlyCachedWeights, Servable
  <2> QED
    BY <2>1, <2>2, <2>3, SameObjects, SameJobs, SameReport DEF GateInv
<1>12. CASE DeleteJobs
  <2>1. /\ UNCHANGED <<md, mdCache, pmd, cache, jobsCache, dep, rsets, pods>>
        /\ pc # "idle" /\ pc' # "idle" /\ DeleteAllJobs
    BY <1>12 DEF DeleteJobs, Goto, workload, informers, locals
  <2>2. \A j \in Keys : /\ jobs'[j] = jobs[j] \/ jobs'[j] = None
                        /\ warmPod'[j] = warmPod[j] \/ warmPod'[j] = "none"
    BY <2>1 DEF DeleteAllJobs
  <2>3. WarmIsReal(v)'
    BY <2>1 DEF GateInv, WarmIsReal
  <2> QED
    BY <2>1, <2>2, <2>3, FewerJobs, SameObjects, SameRollout, SameReport DEF GateInv
<1>13. CASE ListPods
  <2>1. UNCHANGED <<md, mdCache, jobs, jobsCache, warmPod, dep, rsets, pods>>
    BY <1>13 DEF ListPods, clusterVars, children, workload, informers
  <2>2. ForgetPass \/ (UNCHANGED <<pmd, cache>> /\ pc # "idle" /\ pc' # "idle")
    BY <1>13 DEF ListPods, Finish, Goto, locals
  <2>3. ObjectsOnVolume(v)'
    BY <2>1, <2>2 DEF GateInv, ObjectsOnVolume, ForgetPass
  <2>4. WarmIsReal(v)'
    BY <2>2, PassOver DEF GateInv, WarmIsReal
  <2> QED
    BY <2>1, <2>3, <2>4, SameJobs, SameRollout, SameReport DEF GateInv
<1>14. CASE ReleaseFinalizer
  <2> DEFINE new == [pmd EXCEPT !.spec = Stored(@), !.fin = FALSE]
  <2>1. UNCHANGED <<mdCache, jobs, jobsCache, warmPod, dep, rsets, pods>>
    BY <1>14 DEF ReleaseFinalizer, clusterVars, children, workload, Caches
  <2>2. /\ new \in ModelDeployment
        /\ SameWeights(new.spec, pmd.spec)
        /\ new.status = pmd.status
    BY <1>14, FinalizerUpdate DEF ReleaseFinalizer, PassInv, TypeOK
  <2>3. ForgetPass /\ (Put(new) \/ UNCHANGED md)
    BY <1>14 DEF ReleaseFinalizer, Finish, Fail
  <2>4. (md' # None => OnVolume(v, md'.spec)) /\ CachedIsReal(v)'
    BY <2>1, <2>2, <2>3, PutGate, SameReport DEF GateInv, ObjectsOnVolume
  <2>5. ObjectsOnVolume(v)'
    BY <2>1, <2>3, <2>4 DEF GateInv, ObjectsOnVolume, ForgetPass
  <2> QED
    BY <2>1, <2>3, <2>4, <2>5, PassOver, SameJobs, SameRollout DEF GateInv
<1> QED
  BY <1>1, <1>2, <1>3, <1>4, <1>5, <1>6, <1>7, <1>8, <1>9, <1>10, <1>11, <1>12, <1>13,
     <1>14, Zenon DEF Pass

-----------------------------------------------------------------------------
(* Watches, faults, the user and time *)

LEMMA WorldGate ==
    ASSUME NEW v, \A s \in Specs : OnVolume(v, s),
           PassInv, GateInv(v), marker \subseteq marker', MaxLosses = 0,
           Abort \/ Informers \/ TimerFires \/ User \/ Tick
    PROVE  GateInv(v)'
<1>1. CASE Abort
  <2>1. UNCHANGED <<md, mdCache, jobs, jobsCache, warmPod, dep, rsets, pods>> /\ ForgetPass
    BY <1>1 DEF Abort, Fail, clusterVars, children, workload, informers
  <2>2. ObjectsOnVolume(v)'
    BY <2>1 DEF GateInv, ObjectsOnVolume, ForgetPass
  <2> QED
    BY <2>1, <2>2, PassOver, SameJobs, SameRollout, SameReport DEF GateInv
<1>2. CASE SyncMD
  <2>1. UNCHANGED <<md, jobs, jobsCache, warmPod, dep, rsets, pods, pc, pmd, cache>>
    BY <1>2 DEF SyncMD, clusterVars, children, workload, locals
  <2>2. ObjectsOnVolume(v)'
    BY <1>2, <2>1 DEF SyncMD, GateInv, ObjectsOnVolume
  <2> QED
    BY <2>1, <2>2, SamePass, SameJobs, SameRollout, SameReport DEF GateInv
<1>3. CASE \E k \in Keys : SyncJob(k)
  <2>1. UNCHANGED <<md, mdCache, jobs, warmPod, dep, rsets, pods, pc, pmd, cache>>
    BY <1>3 DEF SyncJob, clusterVars, children, workload, locals
  <2>2. \A k \in Keys : jobsCache'[k] = jobsCache[k] \/ jobsCache'[k] = jobs[k]
    BY <1>3 DEF SyncJob, PassInv, TypeOK
  <2>3. JobsOnVolume(v, jobs)' /\ JobsOnVolume(v, jobsCache)' /\ PodsFinished(v)'
    BY <2>1, <2>2 DEF GateInv, JobsOnVolume, PodsFinished
  <2> QED
    BY <2>1, <2>3, SameObjects, SamePass, SameRollout, SameReport DEF GateInv
<1>4. CASE SyncDep \/ SyncPods \/ TimerFires \/ Drift \/ Tick
           \/ \E c \in SharedClaims : ProvisionClaim(c)
  <2>1. UNCHANGED <<md, mdCache, jobs, jobsCache, warmPod, dep, rsets, pods, pc, pmd, cache>>
    BY <1>4
    DEF SyncDep, SyncPods, TimerFires, Drift, Tick, ProvisionClaim, clusterVars, children,
        workload, informers, locals
  <2> QED
    BY <2>1, SameObjects, SamePass, SameJobs, SameRollout, SameReport DEF GateInv
<1>5. CASE (\E s \in Specs : EditSpec(s)) \/ DeleteMD
  <2>1. UNCHANGED <<mdCache, jobs, jobsCache, warmPod, dep, rsets, pods, pc, pmd, cache>>
    BY <1>5 DEF EditSpec, DeleteMD, clusterVars, children, workload, Caches
  <2>2. md' = None \/ (OnVolume(v, md'.spec) /\ ~md'.status.observed)
    <3>1. md \in ModelDeployment
      BY <1>5 DEF EditSpec, DeleteMD, PassInv, TypeOK
    <3>2. ASSUME NEW s \in Specs, EditSpec(s)
          PROVE  OnVolume(v, md'.spec) /\ ~md'.status.observed
      BY <3>1, <3>2, SpecsAssumption, UserUpdates DEF EditSpec
    <3>3. ASSUME DeleteMD, md' # None
          PROVE  md'.spec = md.spec /\ ~md'.status.observed
      BY <3>1, <3>3, ObjectFields, UserUpdates DEF DeleteMD
    <3>4. OnVolume(v, md.spec)
      BY <3>1, ObjectFields DEF GateInv, ObjectsOnVolume
    <3> QED
      BY <1>5, <3>2, <3>3, <3>4
  <2>3. ObjectsOnVolume(v)' /\ CachedIsReal(v)'
    BY <2>1, <2>2 DEF GateInv, ObjectsOnVolume, CachedIsReal
  <2> QED
    BY <2>1, <2>3, SamePass, SameJobs, SameRollout DEF GateInv
<1>6. \A c \in Claims : ~LoseClaim(c)
  BY NoLoss
<1> QED
  BY <1>1, <1>2, <1>3, <1>4, <1>5, <1>6, Zenon DEF Informers, User

-----------------------------------------------------------------------------
(* The cluster's controllers *)

\* The marker of a Job is on volume v.
LEMMA JobMarks ==
    ASSUME NEW v, PassInv, GateInv(v), NEW k \in Keys, jobs[k] # None
    PROVE  jobs[k].claim = v /\ jobs[k] \in Jobs
BY DEF PassInv, TypeOK, ClusterTypeOK, GateInv, JobsOnVolume

LEMMA WarmUpGate ==
    ASSUME NEW v, PassInv, GateInv(v), marker \subseteq marker', UNCHANGED jobsCache,
           WarmUp \/ WarmUpFails
    PROVE  JobsOnVolume(v, jobs)' /\ JobsOnVolume(v, jobsCache)' /\ PodsFinished(v)'
<1>0. JobsOnVolume(v, jobsCache)'
  BY DEF GateInv, JobsOnVolume
<1>1. ASSUME NEW k \in Keys, StartWarmPod(k) \/ PullWeights(k)
      PROVE  JobsOnVolume(v, jobs)' /\ PodsFinished(v)'
  <2>1. UNCHANGED jobs
    BY <1>1 DEF StartWarmPod, PullWeights, children
  <2>2. \A j \in Keys : warmPod'[j] = warmPod[j] \/ warmPod'[j] # "done"
    BY <1>1 DEF StartWarmPod, PullWeights, PassInv, TypeOK, ClusterTypeOK
  <2> QED
    BY <2>1, <2>2 DEF GateInv, JobsOnVolume, PodsFinished
<1>2. ASSUME NEW k \in Keys, WriteMarker(k)
      PROVE  JobsOnVolume(v, jobs)' /\ PodsFinished(v)'
  <2>1. UNCHANGED jobs /\ <<v, k>> \in marker'
    BY <1>2, JobMarks DEF WriteMarker, Active, children
  <2>2. \A j \in Keys : j = k \/ warmPod'[j] = warmPod[j]
    BY <1>2 DEF WriteMarker, PassInv, TypeOK, ClusterTypeOK
  <2> QED
    BY <2>1, <2>2 DEF GateInv, JobsOnVolume, PodsFinished
<1>3. ASSUME NEW k \in Keys, CompleteJob(k)
      PROVE  JobsOnVolume(v, jobs)' /\ PodsFinished(v)'
  <2>1. UNCHANGED warmPod /\ <<v, k>> \in marker
    BY <1>3 DEF CompleteJob, GateInv, PodsFinished
  <2>2. jobs[k].claim = v /\ jobs[k] \in Jobs
    BY <1>3, JobMarks DEF CompleteJob, Active
  <2>3. \A j \in Keys : j # k => jobs'[j] = jobs[j]
    BY <1>3 DEF CompleteJob, PassInv, TypeOK, ClusterTypeOK
  <2>4. jobs'[k].claim = v
    <3>1. jobs'[k] = [jobs[k] EXCEPT !.succeeded = TRUE]
      BY <1>3 DEF CompleteJob, PassInv, TypeOK, ClusterTypeOK
    <3> QED
      BY <2>2, <3>1 DEF Jobs
  <2> QED
    BY <2>1, <2>3, <2>4 DEF GateInv, JobsOnVolume, PodsFinished
<1>4. ASSUME NEW k \in Keys, FailWarmPod(k)
      PROVE  JobsOnVolume(v, jobs)' /\ PodsFinished(v)'
  <2>1. jobs[k].claim = v /\ jobs[k] \in Jobs /\ ~jobs[k].succeeded
    BY <1>4, JobMarks DEF FailWarmPod, Active
  <2>2. /\ \A j \in Keys : j # k => jobs'[j] = jobs[j]
        /\ \A j \in Keys : warmPod'[j] = warmPod[j] \/ warmPod'[j] = "none"
    BY <1>4 DEF FailWarmPod, PassInv, TypeOK, ClusterTypeOK
  <2>3. jobs'[k].claim = v /\ ~jobs'[k].succeeded
    <3>1. \/ jobs'[k] = [jobs[k] EXCEPT !.attempts = @ + 1]
          \/ jobs'[k] = [jobs[k] EXCEPT !.failed = TRUE]
      BY <1>4 DEF FailWarmPod, PassInv, TypeOK, ClusterTypeOK
    <3> QED
      BY <2>1, <3>1 DEF Jobs
  <2> QED
    BY <2>2, <2>3 DEF GateInv, JobsOnVolume, PodsFinished
<1>5. ASSUME NEW k \in Keys, DeadlineJob(k)
      PROVE  JobsOnVolume(v, jobs)' /\ PodsFinished(v)'
  <2>1. jobs[k].claim = v /\ jobs[k] \in Jobs
    BY <1>5, JobMarks DEF DeadlineJob, Active
  <2>2. /\ \A j \in Keys : j # k => jobs'[j] = jobs[j]
        /\ \A j \in Keys : warmPod'[j] = warmPod[j] \/ warmPod'[j] = "none"
    BY <1>5 DEF DeadlineJob, PassInv, TypeOK, ClusterTypeOK
  <2>3. jobs'[k].claim = v /\ (jobs'[k].succeeded => warmPod[k] = "done")
    <3>1. jobs'[k] = [jobs[k] EXCEPT !.failed = TRUE, !.succeeded = (warmPod[k] = "done")]
      BY <1>5 DEF DeadlineJob, PassInv, TypeOK, ClusterTypeOK
    <3> QED
      BY <2>1, <3>1 DEF Jobs
  <2> QED
    BY <2>2, <2>3 DEF GateInv, JobsOnVolume, PodsFinished
<1> QED
  BY <1>0, <1>1, <1>2, <1>3, <1>4, <1>5, Zenon DEF WarmUp, WarmUpFails

LEMMA RolloutGate ==
    ASSUME NEW v, PassInv, GateInv(v), marker \subseteq marker',
           DeploymentController \/ Kubelet \/ Collector
    PROVE  GateOpen' /\ ServeOnlyCachedWeights'
<1>1. CASE NewReplicaSet
  <2>1. dep' = dep /\ pods' = pods /\ rsets' = rsets \cup {dep.template} /\ Servable(dep.template)
    BY <1>1 DEF NewReplicaSet, Rolling, GateInv, GateOpen, children
  <2> QED
    BY <2>1 DEF GateInv, GateOpen, ServeOnlyCachedWeights, Servable
<1>2. CASE \/ ScaleUpNew \/ ScaleDownNew
           \/ \E t \in PodTemplate : ScaleDownOld(t) \/ ScalePaused(t) \/ PodReady(t)
  <2>1. UNCHANGED <<dep, rsets, pods>>
    BY <1>2 DEF ScaleUpNew, ScaleDownNew, ScaleDownOld, ScalePaused, PodReady, children
  <2> QED
    BY <2>1, SameRollout
<1>3. ASSUME NEW t \in PodTemplate, CreatePod(t)
      PROVE  GateOpen' /\ ServeOnlyCachedWeights'
  <2>1. dep' = dep /\ rsets' = rsets /\ t \in rsets
    BY <1>3 DEF CreatePod, children
  <2>2. \A u \in PodTemplate : u # t => pods'[u] = pods[u]
    BY <1>3 DEF CreatePod, PassInv, TypeOK, ClusterTypeOK
  <2> QED
    BY <2>1, <2>2 DEF GateInv, GateOpen, ServeOnlyCachedWeights, Servable
<1>4. ASSUME NEW t \in PodTemplate, DeletePod(t)
      PROVE  GateOpen' /\ ServeOnlyCachedWeights'
  <2>1. dep' = dep /\ rsets' = rsets
    BY <1>4 DEF DeletePod, children
  <2>2. \A u \in PodTemplate : pods'[u] > 0 => pods[u] > 0
    <3>1. pods' = [pods EXCEPT ![t] = @ - 1] /\ pods \in [PodTemplate -> Nat]
      BY <1>4 DEF DeletePod, PassInv, TypeOK, ClusterTypeOK
    <3> QED
      BY <3>1
  <2> QED
    BY <2>1, <2>2 DEF GateInv, GateOpen, ServeOnlyCachedWeights, Servable
<1>5. CASE Collector
  <2>1. dep' = dep /\ pods' = pods /\ rsets' \subseteq rsets
    BY <1>5 DEF Collector, CollectWarmPod, CollectReplicaSet, children, workload
  <2> QED
    BY <2>1 DEF GateInv, GateOpen, ServeOnlyCachedWeights, Servable
<1> QED
  BY <1>1, <1>2, <1>3, <1>4, <1>5, Zenon DEF DeploymentController, Kubelet

LEMMA ClusterGate ==
    ASSUME NEW v, PassInv, GateInv(v), marker \subseteq marker', Others
    PROVE  GateInv(v)'
<1>1. UNCHANGED <<md, mdCache, jobsCache, pc, pmd, cache>>
  BY DEF Others, informers, locals
<1>2. ObjectsOnVolume(v)' /\ WarmIsReal(v)' /\ CachedIsReal(v)'
  BY <1>1, SameObjects, SamePass, SameReport
<1>3. CASE DeploymentController \/ Kubelet \/ Collector
  <2>1. UNCHANGED <<jobs, warmPod>>
    BY <1>3
    DEF DeploymentController, Kubelet, Collector, NewReplicaSet, ScaleUpNew, ScaleDownNew,
        ScaleDownOld, ScalePaused, CreatePod, DeletePod, PodReady, CollectWarmPod,
        CollectReplicaSet, children
  <2> QED
    BY <1>1, <1>2, <1>3, <2>1, SameJobs, RolloutGate DEF GateInv
<1>4. CASE WarmUp \/ WarmUpFails
  <2>1. UNCHANGED <<dep, rsets, pods>>
    BY <1>4
    DEF WarmUp, WarmUpFails, StartWarmPod, PullWeights, WriteMarker, CompleteJob, FailWarmPod,
        DeadlineJob, children, workload
  <2> QED
    BY <1>1, <1>2, <1>4, <2>1, WarmUpGate, SameRollout DEF GateInv
<1>5. CASE OrphanRuns
  <2>1. UNCHANGED <<dep, rsets, pods, jobs, warmPod>>
    BY <1>5 DEF OrphanRuns, OrphanPull, OrphanMark, children, workload
  <2> QED
    BY <1>1, <1>2, <2>1, SameJobs, SameRollout DEF GateInv
<1>6. CASE CollectChildren
  <2>1. (dep' = dep \/ dep' = None) /\ UNCHANGED <<rsets, pods>>
    BY <1>6 DEF CollectChildren, workload
  <2>2. \A j \in Keys : /\ jobs'[j] = jobs[j] \/ jobs'[j] = None
                        /\ warmPod'[j] = warmPod[j] \/ warmPod'[j] = "none"
    <3>1. ASSUME NEW k \in Keys, DeleteJob(k)
          PROVE  \A j \in Keys : /\ jobs'[j] = jobs[j] \/ jobs'[j] = None
                                 /\ warmPod'[j] = warmPod[j] \/ warmPod'[j] = "none"
      BY <3>1 DEF DeleteJob, PassInv, TypeOK, ClusterTypeOK
    <3> QED
      BY <1>6, <3>1 DEF CollectChildren
  <2>3. GateOpen' /\ ServeOnlyCachedWeights'
    BY <2>1 DEF GateInv, GateOpen, ServeOnlyCachedWeights, Servable
  <2> QED
    BY <1>1, <1>2, <2>2, <2>3, FewerJobs DEF GateInv
<1> QED
  BY <1>3, <1>4, <1>5, <1>6, Zenon DEF Others

-----------------------------------------------------------------------------
(* Pods that serve are counted among the pods *)

ReadyInv == \A t \in PodTemplate : ready[t] <= pods[t]

LEMMA SamePods == [Next]_vars => Kubelet \/ UNCHANGED <<pods, ready>>
<1> SUFFICES ASSUME [Next]_vars PROVE Kubelet \/ UNCHANGED <<pods, ready>>
  OBVIOUS
<1> USE DEF clusterVars, workload
<1>1. CASE UNCHANGED vars
  BY <1>1 DEF vars
<1>2. CASE Pass
  BY <1>2
  DEF Pass, StartPass, AddFinalizer, EnsureClaim, ReconcileJob, ListWarmJobs, PruneJob,
      DecideReplicas, WriteReplicas, ApplyDeployment, ApplyService, ReconcilePDB, WriteStatus,
      DeleteDeployment, DeleteJobs, ListPods, ReleaseFinalizer
<1>3. CASE Abort \/ Informers \/ TimerFires \/ User \/ Tick \/ PromptEvent
  BY <1>3
  DEF Abort, Informers, TimerFires, User, Tick, PromptEvent, SyncMD, SyncJob, SyncDep, SyncPods,
      EditSpec, DeleteMD, Drift, ProvisionClaim, LoseClaim
<1>4. CASE DeploymentController
  BY <1>4
  DEF DeploymentController, NewReplicaSet, ScaleUpNew, ScaleDownNew, ScaleDownOld, ScalePaused
<1>5. CASE WarmUp \/ WarmUpFails \/ OrphanRuns
  BY <1>5
  DEF WarmUp, WarmUpFails, OrphanRuns, StartWarmPod, PullWeights, WriteMarker, CompleteJob,
      FailWarmPod, DeadlineJob, OrphanPull, OrphanMark
<1>6. CASE Collector \/ CollectChildren
  BY <1>6 DEF Collector, CollectWarmPod, CollectReplicaSet, CollectChildren
<1> QED
  BY <1>1, <1>2, <1>3, <1>4, <1>5, <1>6 DEF Next, Others

LEMMA ReadyStep == PassInv /\ ReadyInv /\ [Next]_vars => ReadyInv'
<1> SUFFICES ASSUME PassInv, ReadyInv, [Next]_vars PROVE ReadyInv'
  OBVIOUS
<1>0. pods \in [PodTemplate -> Nat] /\ ready \in [PodTemplate -> Nat]
  BY DEF PassInv, TypeOK, ClusterTypeOK
<1>1. CASE UNCHANGED <<pods, ready>>
  BY <1>1 DEF ReadyInv
<1>2. ASSUME NEW t \in PodTemplate, CreatePod(t) \/ DeletePod(t) \/ PodReady(t) PROVE ReadyInv'
  BY <1>0, <1>2 DEF CreatePod, DeletePod, PodReady, ReadyInv, Minimum
<1> QED
  BY <1>1, <1>2, SamePods, Zenon DEF Kubelet

-----------------------------------------------------------------------------
(* The theorems *)

LEMMA GateStep ==
    ASSUME NEW v, \A s \in Specs : OnVolume(v, s), MaxLosses = 0
    PROVE  PassInv /\ StatusInv /\ GateInv(v) /\ [Next]_vars => GateInv(v)'
<1> SUFFICES ASSUME PassInv, StatusInv, GateInv(v), [Next]_vars PROVE GateInv(v)'
  OBVIOUS
<1>1. marker \subseteq marker'
  BY MarkerGrows, NoLoss
<1>2. CASE UNCHANGED vars
  <2>1. UNCHANGED <<md, mdCache, jobs, jobsCache, warmPod, dep, rsets, pods, pc, pmd, cache>>
    BY <1>2 DEF vars, clusterVars, children, workload, informers, locals
  <2> QED
    BY <1>1, <2>1, SameObjects, SamePass, SameJobs, SameRollout, SameReport DEF GateInv
<1>3. CASE Next
  BY <1>1, <1>3, PassGate, WorldGate, ClusterGate, Zenon DEF Next, PromptEvent, Informers
<1> QED
  BY <1>2, <1>3

LEMMA InitGate ==
    ASSUME NEW v, \A s \in Specs : OnVolume(v, s), Init
    PROVE  GateInv(v)
<1>1. PICK s \in FirstSpecs :
        md = [spec |-> s, fin |-> FALSE, deleting |-> FALSE, status |-> EmptyStatus]
  BY DEF Init
<1>2. md.spec = s /\ s \in Specs /\ ~md.status.observed
  BY <1>1, SpecsAssumption DEF EmptyStatus
<1>3. ObjectsOnVolume(v) /\ CachedIsReal(v)
  BY <1>2 DEF Init, ObjectsOnVolume, CachedIsReal
<1>4. JobsOnVolume(v, jobs) /\ JobsOnVolume(v, jobsCache) /\ PodsFinished(v)
  BY DEF Init, ClusterInit, JobsOnVolume, PodsFinished
<1>5. WarmIsReal(v)
  BY DEF Init, WarmIsReal, DisabledCache
<1>6. GateOpen /\ ServeOnlyCachedWeights
  BY DEF Init, ClusterInit, GateOpen, ServeOnlyCachedWeights
<1> QED
  BY <1>3, <1>4, <1>5, <1>6 DEF GateInv

LEMMA GateAlways ==
    ASSUME NEW CONSTANT v, \A s \in Specs : OnVolume(v, s), MaxLosses = 0
    PROVE  Spec => []GateInv(v)
<1>1. Init => GateInv(v)
  BY InitGate
<1>2. PassInv /\ StatusInv /\ GateInv(v) /\ [Next]_vars => GateInv(v)'
  BY GateStep
<1> QED
  BY <1>1, <1>2, PassAlways, StatusAlways, PTL DEF Spec

\* The gate of sync and render.Deployment, whatever the informer caches, the
\* warm-up Jobs and the rollout do at the same time: if every spec keeps its
\* weights on the same volume, and nobody deletes that, no ReplicaSet and no pod
\* exists for weights whose marker is missing on the volume the pod mounts.
THEOREM OnlyCachedWeightsAreServed ==
    ASSUME NEW CONSTANT v, \A s \in Specs : HasCache(s) => PVCName(s) = v, MaxLosses = 0
    PROVE  Spec => []ServeOnlyCachedWeights
<1>1. GateInv(v) => ServeOnlyCachedWeights
  BY DEF GateInv
<1>2. \A s \in Specs : OnVolume(v, s)
  BY DEF OnVolume
<1>3. Spec => []GateInv(v)
  BY <1>2, GateAlways
<1> QED
  BY <1>1, <1>3, PTL

\* Under the same premise a current status that says Cached is right: the
\* marker of the spec's weights is on the spec's volume.
THEOREM CachedIsTrue ==
    ASSUME NEW CONSTANT v, \A s \in Specs : HasCache(s) => PVCName(s) = v, MaxLosses = 0
    PROVE  Spec => []CachedIsOnDisk
<1>1. GateInv(v) => CachedIsOnDisk
  BY DEF GateInv, CachedIsReal, ObjectsOnVolume, OnVolume, CachedIsOnDisk
<1>2. \A s \in Specs : OnVolume(v, s)
  BY DEF OnVolume
<1>3. Spec => []GateInv(v)
  BY <1>2, GateAlways
<1> QED
  BY <1>1, <1>3, PTL

-----------------------------------------------------------------------------
(* The service's variables *)

LEMMA NoClaimIsNoCache == NoCache \notin Claims
BY ClaimsAssumption DEF Claims

LEMMA AskedType ==
    ASSUME md \in ModelDeployment \cup {None}
    PROVE  /\ AskedTemplate \in PodTemplate \cup {None}
           /\ AskedTemplate = None <=> ~Alive
<1>1. Alive => Template(md.spec, CacheKey(md.spec)) \in PodTemplate
  BY ObjectFields, ChildTypes, CountsFacts DEF Alive
<1> QED
  BY <1>1, NothingAssumption DEF AskedTemplate

\* What a template needs, given the volume it reads the weights from.
LEMMA NeededType ==
    ASSUME NEW t \in PodTemplate
    PROVE  NeededWeights[t] = IF t.claim = NoCache THEN {} ELSE {<<t.claim, t.key>>}
BY DEF NeededWeights

LEMMA ServableNeeds ==
    ASSUME NEW t \in PodTemplate, Servable(t)
    PROVE  NeededWeights[t] \subseteq marker
BY NeededType DEF Servable

\* Weights on a claim are weights some template needs.
LEMMA SomeoneNeeds ==
    ASSUME NEW k \in Keys, NEW c \in Claims, NEW r \in Runtimes
    PROVE  <<c, k>> \in UNION {NeededWeights[t] : t \in PodTemplate}
<1> DEFINE t == [key |-> k, claim |-> c, runtime |-> r]
<1>1. t \in PodTemplate /\ t.claim = c /\ t.key = k
  BY DEF PodTemplate
<1> HIDE DEF t
<1>2. NeededWeights[t] = {<<c, k>>}
  BY <1>1, NoClaimIsNoCache, NeededType
<1> QED
  BY <1>1, <1>2

\* Steps that leave the object, or the pods and the volume, alone.
LEMMA SameAsked ==
    ASSUME UNCHANGED md
    PROVE  UNCHANGED <<AskedTemplate, VouchedWeights>>
BY DEF AskedTemplate, VouchedWeights, Alive

LEMMA SameServing ==
    ASSUME UNCHANGED workload
    PROVE  UNCHANGED <<AdmittedTemplates, ServingTemplates>>
BY DEF workload, AdmittedTemplates, ServingTemplates, Available

\* Only the cluster's controllers, and whoever deletes a claim, touch pods,
\* ReplicaSets and volumes.
LEMMA OnlyOthers ==
    ASSUME [Next]_vars
    PROVE  \/ Others
           \/ \E c \in Claims : LoseClaim(c)
           \/ UNCHANGED <<workload, marker>>
<1> USE DEF clusterVars, volume
<1>1. CASE UNCHANGED vars
  BY <1>1 DEF vars
<1>2. CASE Pass
  BY <1>2
  DEF Pass, StartPass, AddFinalizer, EnsureClaim, ReconcileJob, ListWarmJobs, PruneJob,
      DecideReplicas, WriteReplicas, ApplyDeployment, ApplyService, ReconcilePDB, WriteStatus,
      DeleteDeployment, DeleteJobs, ListPods, ReleaseFinalizer
<1>3. CASE Abort \/ Informers \/ TimerFires \/ Tick \/ PromptEvent
  BY <1>3
  DEF Abort, Informers, TimerFires, Tick, PromptEvent, SyncMD, SyncJob, SyncDep, SyncPods
<1>4. CASE User /\ ~\E c \in Claims : LoseClaim(c)
  BY <1>4 DEF User, EditSpec, DeleteMD, Drift, ProvisionClaim
<1> QED
  BY <1>1, <1>2, <1>3, <1>4 DEF Next

-----------------------------------------------------------------------------
(* Writes of the object: Ask and Report *)

\* An Update of a pass changes neither the template nor whether it is asked
\* for; it takes back what the status said if it changes the generation.
LEMMA UpdateService ==
    ASSUME PassInv, NEW new, Updated(new), new.deleting = md.deleting
    PROVE  /\ AskedTemplate' = AskedTemplate
           /\ VouchedWeights' = VouchedWeights \/ VouchedWeights' = {}
<1>0. md \in ModelDeployment /\ md # None /\ new \in ModelDeployment
  BY ObjectFields DEF Updated, Put, PassInv, TypeOK
<1>1. SameWeights(new.spec, md.spec) /\ new.status = md.status
  BY DEF Updated
<1>2. ASSUME NEW s, NEW u, SameWeights(s, u)
      PROVE  Template(s, CacheKey(s)) = Template(u, CacheKey(u)) /\ PVCName(s) = PVCName(u)
  BY <1>2 DEF SameWeights, Template, CacheKey, WeightsVolume, HasCache, PVCName
<1>3. CASE md' = None
  <2>1. new.deleting
    BY <1>0, <1>3, ObjectFields, Unobserved DEF Updated, Put
  <2> QED
    BY <1>3, <2>1 DEF AskedTemplate, VouchedWeights, Alive
<1>4. CASE md' = new
  <2>1. md'.spec = new.spec /\ md'.status = md.status /\ md'.deleting = md.deleting /\ md' # None
    BY <1>0, <1>1, <1>4, ObjectFields
  <2>2. /\ Template(md'.spec, CacheKey(md'.spec)) = Template(md.spec, CacheKey(md.spec))
        /\ PVCName(md'.spec) = PVCName(md.spec)
    BY <1>1, <1>2, <2>1
  <2> QED
    BY <1>0, <2>1, <2>2 DEF AskedTemplate, VouchedWeights, Alive
<1>5. CASE md' = [new EXCEPT !.status.observed = FALSE]
  <2>1. /\ md'.spec = new.spec /\ ~md'.status.observed /\ md'.deleting = md.deleting
        /\ md' # None
    BY <1>0, <1>5, ObjectFields, Unobserved
  <2>2. Template(md'.spec, CacheKey(md'.spec)) = Template(md.spec, CacheKey(md.spec))
    BY <1>1, <1>2, <2>1
  <2> QED
    BY <1>0, <2>1, <2>2 DEF AskedTemplate, VouchedWeights, Alive
<1> QED
  BY <1>3, <1>4, <1>5, UpdateLeaves

\* writeStatus vouches for the weights of the template that is asked for, and
\* only when they are there.
LEMMA StatusService ==
    ASSUME NEW v, PassInv, GateInv(v), WriteStatus, fresh, pmd = md,
           md' = [md EXCEPT !.status = NextStatus]
    PROVE  /\ AskedTemplate' = AskedTemplate /\ AskedTemplate \in PodTemplate
           /\ VouchedWeights' \in {{}, NeededWeights[AskedTemplate]}
           /\ VouchedWeights' \subseteq marker
<1> DEFINE t == Template(md.spec, CacheKey(md.spec))
<1>1. pc = "status" /\ md \in ModelDeployment /\ md # None /\ ~md.deleting
  BY ObjectFields DEF WriteStatus, PassInv, TypeOK, SyncSteps
<1>2. /\ md' \in ModelDeployment /\ md' # None /\ md'.status = NextStatus
      /\ md'.spec = md.spec /\ md'.deleting = md.deleting
  <2>1. md' \in ModelDeployment /\ md'.status = NextStatus /\ md'.spec = md.spec
    BY <1>1, StatusType, ObjectUpdates DEF PassInv
  <2>2. md'.deleting = md.deleting
    BY <1>1, MarksKept
  <2> QED
    BY <2>1, <2>2, ObjectFields
<1>3. t \in PodTemplate
  BY <1>1, ObjectFields, ChildTypes, CountsFacts
<1>4. AskedTemplate = t /\ AskedTemplate' = t
  BY <1>1, <1>2 DEF AskedTemplate, Alive
<1>5. CASE VouchedWeights' = {}
  BY <1>3, <1>4, <1>5
<1>6. CASE VouchedWeights' # {}
  <2>1. /\ NextStatus.weightsCached = "Cached"
        /\ VouchedWeights' = {<<PVCName(md.spec), NextStatus.cacheKey>>}
    BY <1>2, <1>6 DEF VouchedWeights
  <2>2. NextStatus.cacheKey = CacheKey(md.spec)
    BY DEF NextStatus, BuildStatus
  <2>3. cache.warm
    BY <2>1, BuiltCached
  <2>4. HasCache(md.spec) /\ PVCName(md.spec) = v /\ <<v, CacheKey(md.spec)>> \in marker
    BY <1>1, <2>3 DEF GateInv, WarmIsReal, ObjectsOnVolume, OnVolume
  <2>5. t.claim = PVCName(md.spec) /\ t.key = CacheKey(md.spec)
    BY <2>4 DEF Template, WeightsVolume
  <2>6. t.claim # NoCache
    BY <1>1, <2>5, ObjectFields, ChildTypes, CountsFacts, NoClaimIsNoCache
  <2> HIDE DEF t
  <2>7. NeededWeights[t] = {<<PVCName(md.spec), CacheKey(md.spec)>>}
    BY <1>3, <2>5, <2>6, NeededType
  <2> QED
    BY <1>3, <1>4, <2>1, <2>2, <2>4, <2>7
<1> QED
  BY <1>5, <1>6

\* The user's writes take back what the status said of the old generation.
LEMMA UserService ==
    ASSUME PassInv, (\E s \in Specs : EditSpec(s)) \/ DeleteMD
    PROVE  /\ AskedTemplate' \in PodTemplate \cup {None}
           /\ AskedTemplate = None => AskedTemplate' = None
           /\ VouchedWeights' = {}
<1>1. md \in ModelDeployment /\ md # None
  BY ObjectFields DEF EditSpec, DeleteMD, PassInv, TypeOK
<1>2. ASSUME NEW s \in Specs, EditSpec(s)
      PROVE  md' \in ModelDeployment /\ ~md'.status.observed /\ md'.deleting = md.deleting
  BY <1>1, <1>2, SpecsAssumption, UserUpdates, MarksKept DEF EditSpec
<1>3. ASSUME DeleteMD
      PROVE  \/ md' = None
             \/ md' \in ModelDeployment /\ ~md'.status.observed /\ md'.deleting
  BY <1>1, <1>3, UserUpdates, MarksKept, ObjectFields DEF DeleteMD
<1>4. /\ md' \in ModelDeployment \cup {None}
      /\ Alive' => Alive
      /\ md' # None => ~md'.status.observed
  BY <1>1, <1>2, <1>3 DEF Alive
<1>5. VouchedWeights' = {}
  BY <1>4 DEF VouchedWeights, Alive
<1>6. AskedTemplate' \in PodTemplate \cup {None} /\ (AskedTemplate' = None <=> ~Alive')
  <2>1. Alive' => Template(md'.spec, CacheKey(md'.spec)) \in PodTemplate
    BY <1>4, ObjectFields, ChildTypes, CountsFacts DEF Alive
  <2> QED
    BY <2>1, NothingAssumption DEF AskedTemplate
<1> QED
  BY <1>1, <1>4, <1>5, <1>6, AskedType

-----------------------------------------------------------------------------
(* Steps of the cluster: Fetch, Admit, Serve and Retire *)

LEMMA FetchService ==
    ASSUME PassInv, Others, marker' # marker
    PROVE  /\ UNCHANGED workload
           /\ \E w \in UNION {NeededWeights[t] : t \in PodTemplate} : marker' = marker \cup {w}
<1>1. ASSUME NEW k \in Keys, WriteMarker(k)
      PROVE  /\ UNCHANGED workload
             /\ \E w \in UNION {NeededWeights[t] : t \in PodTemplate} : marker' = marker \cup {w}
  <2>1. jobs[k] \in Jobs
    BY <1>1 DEF WriteMarker, Active, PassInv, TypeOK, ClusterTypeOK
  <2>2. jobs[k].claim \in Claims /\ jobs[k].runtime \in Runtimes
    BY <2>1 DEF Jobs
  <2>3. <<jobs[k].claim, k>> \in UNION {NeededWeights[t] : t \in PodTemplate}
    BY <2>2, SomeoneNeeds
  <2> QED
    BY <1>1, <2>3 DEF WriteMarker
<1>2. ASSUME NEW o \in orphans, OrphanMark(o)
      PROVE  /\ UNCHANGED workload
             /\ \E w \in UNION {NeededWeights[t] : t \in PodTemplate} : marker' = marker \cup {w}
  <2>1. o \in OrphanPods
    BY <1>2 DEF PassInv, TypeOK, ClusterTypeOK
  <2>2. o.key \in Keys /\ o.claim \in Claims /\ o.runtime \in Runtimes
    BY <2>1 DEF OrphanPods
  <2>3. <<o.claim, o.key>> \in UNION {NeededWeights[t] : t \in PodTemplate}
    BY <2>2, SomeoneNeeds
  <2> QED
    BY <1>2, <2>3 DEF OrphanMark
<1>3. (\E k \in Keys : WriteMarker(k)) \/ (\E o \in orphans : OrphanMark(o))
  <2> USE DEF volume
  <2>1. ~DeploymentController /\ ~Kubelet
    BY DEF DeploymentController, Kubelet, NewReplicaSet, ScaleUpNew, ScaleDownNew, ScaleDownOld,
           ScalePaused, CreatePod, DeletePod, PodReady
  <2>2. ~WarmUpFails /\ ~Collector /\ ~CollectChildren
    BY DEF WarmUpFails, FailWarmPod, DeadlineJob, Collector, CollectWarmPod, CollectReplicaSet,
           CollectChildren
  <2>3. WarmUp => \E k \in Keys : WriteMarker(k)
    BY DEF WarmUp, StartWarmPod, PullWeights, CompleteJob
  <2>4. OrphanRuns => \E o \in orphans : OrphanMark(o)
    BY DEF OrphanRuns, OrphanPull
  <2> QED
    BY <2>1, <2>2, <2>3, <2>4, Zenon DEF Others
<1> QED
  BY <1>1, <1>2, <1>3

\* The rollout, seen as sets of templates.
LEMMA RolloutService ==
    ASSUME NEW v, PassInv, GateInv(v), ReadyInv, ReadyInv', Others, marker' = marker
    PROVE  \/ UNCHANGED <<AdmittedTemplates, ServingTemplates>>
           \/ \E t \in PodTemplate :
                /\ NeededWeights[t] \subseteq marker
                /\ AdmittedTemplates' = AdmittedTemplates \cup {t}
                /\ UNCHANGED ServingTemplates
           \/ \E t \in PodTemplate :
                /\ t \in AdmittedTemplates
                /\ ServingTemplates' = ServingTemplates \cup {t}
                /\ UNCHANGED AdmittedTemplates
           \/ \E t \in PodTemplate :
                /\ ServingTemplates' \in {ServingTemplates, ServingTemplates \ {t}}
                /\ AdmittedTemplates' \in {AdmittedTemplates, AdmittedTemplates \ {t}}
                /\ ServingTemplates' \subseteq AdmittedTemplates'
<1> USE DEF Available, Minimum
<1>0. /\ pods \in [PodTemplate -> Nat] /\ ready \in [PodTemplate -> Nat]
      /\ want \in [PodTemplate -> Nat]
      /\ rsets \subseteq PodTemplate
      /\ \A t \in PodTemplate : ready[t] <= pods[t]
  BY DEF PassInv, TypeOK, ClusterTypeOK, ReadyInv
<1>1. CASE NewReplicaSet
  <2>1. /\ dep # None /\ ~dep.paused /\ rsets' = rsets \cup {dep.template}
        /\ UNCHANGED <<want, pods, ready>>
    BY <1>1 DEF NewReplicaSet, Rolling
  <2>2. dep.template \in PodTemplate
    BY <2>1 DEF PassInv, TypeOK, ClusterTypeOK, Deployments
  <2>3. NeededWeights[dep.template] \subseteq marker
    BY <2>1, <2>2, ServableNeeds DEF GateInv, GateOpen
  <2>4. AdmittedTemplates' = AdmittedTemplates \cup {dep.template} /\ UNCHANGED ServingTemplates
    BY <2>1, <2>2 DEF AdmittedTemplates, ServingTemplates
  <2> QED
    BY <2>2, <2>3, <2>4
<1>2. ASSUME NEW t \in PodTemplate, CreatePod(t)
      PROVE  UNCHANGED <<AdmittedTemplates, ServingTemplates>>
  <2>1. t \in rsets /\ UNCHANGED <<rsets, want, ready>>
    BY <1>2 DEF CreatePod
  <2>2. \A u \in PodTemplate : u # t => pods'[u] = pods[u]
    BY <1>0, <1>2 DEF CreatePod
  <2> QED
    BY <2>1, <2>2 DEF AdmittedTemplates, ServingTemplates
<1>3. ASSUME NEW t \in PodTemplate, DeletePod(t)
      PROVE  /\ ServingTemplates' \in {ServingTemplates, ServingTemplates \ {t}}
             /\ AdmittedTemplates' \in {AdmittedTemplates, AdmittedTemplates \ {t}}
             /\ ServingTemplates' \subseteq AdmittedTemplates'
  <2>1. /\ UNCHANGED <<rsets, want>>
        /\ pods[t] > 0
        /\ \A u \in PodTemplate : u # t => pods'[u] = pods[u] /\ ready'[u] = ready[u]
    BY <1>0, <1>3 DEF DeletePod
  <2>2. ready'[t] = IF ready[t] <= pods[t] - 1 THEN ready[t] ELSE pods[t] - 1
    BY <1>0, <1>3 DEF DeletePod
  <2>3. Available(t)' > 0 => Available(t) > 0
    BY <1>0, <2>1, <2>2
  <2>4. ServingTemplates' \in {ServingTemplates, ServingTemplates \ {t}}
    BY <2>1, <2>3 DEF ServingTemplates
  <2>5. AdmittedTemplates' \in {AdmittedTemplates, AdmittedTemplates \ {t}}
    BY <2>1 DEF AdmittedTemplates
  <2>6. /\ pods' \in [PodTemplate -> Int] /\ ready' \in [PodTemplate -> Int]
        /\ \A u \in PodTemplate : ready'[u] <= pods'[u]
    BY <1>0, <1>3 DEF DeletePod, ReadyInv
  <2>7. ServingTemplates' \subseteq AdmittedTemplates'
    BY <1>0, <2>1, <2>6 DEF ServingTemplates, AdmittedTemplates
  <2> QED
    BY <2>4, <2>5, <2>7
<1>4. ASSUME NEW t \in PodTemplate, PodReady(t)
      PROVE  /\ t \in AdmittedTemplates
             /\ ServingTemplates' \in {ServingTemplates, ServingTemplates \cup {t}}
             /\ UNCHANGED AdmittedTemplates
  <2>1. UNCHANGED <<rsets, want, pods>> /\ pods[t] > 0
    BY <1>0, <1>4 DEF PodReady
  <2>2. ready'[t] = ready[t] + 1 /\ \A u \in PodTemplate : u # t => ready'[u] = ready[u]
    BY <1>0, <1>4 DEF PodReady
  <2>3. Available(t) > 0 => Available(t)' > 0
    BY <1>0, <2>1, <2>2
  <2>4. ServingTemplates' \in {ServingTemplates, ServingTemplates \cup {t}}
    BY <2>1, <2>2, <2>3 DEF ServingTemplates
  <2> QED
    BY <2>1, <2>4 DEF AdmittedTemplates
<1>5. ASSUME NEW t \in PodTemplate, CollectReplicaSet(t)
      PROVE  /\ ServingTemplates' \in {ServingTemplates, ServingTemplates \ {t}}
             /\ AdmittedTemplates' \in {AdmittedTemplates, AdmittedTemplates \ {t}}
             /\ ServingTemplates' \subseteq AdmittedTemplates'
  <2>1. /\ rsets' = rsets \ {t} /\ UNCHANGED <<pods, ready>>
        /\ want'[t] = 0 /\ \A u \in PodTemplate : u # t => want'[u] = want[u]
    BY <1>0, <1>5 DEF CollectReplicaSet
  <2>2. ServingTemplates' = ServingTemplates \ {t}
    BY <1>0, <2>1 DEF ServingTemplates
  <2>3. AdmittedTemplates' \in {AdmittedTemplates, AdmittedTemplates \ {t}}
    BY <2>1 DEF AdmittedTemplates
  <2>4. ServingTemplates' \subseteq AdmittedTemplates'
    BY <1>0, <2>1, <2>2 DEF ServingTemplates, AdmittedTemplates
  <2> QED
    BY <2>2, <2>3, <2>4
<1>6. ASSUME ScaleUpNew \/ ScaleDownNew \/ \E t \in PodTemplate : ScaleDownOld(t) \/ ScalePaused(t)
      PROVE  \E t \in PodTemplate :
               /\ t \in AdmittedTemplates
               /\ \/ ServingTemplates' \in {ServingTemplates, ServingTemplates \cup {t}}
                  \/ ServingTemplates' = ServingTemplates \ {t}
               /\ UNCHANGED AdmittedTemplates
               /\ ServingTemplates' \subseteq AdmittedTemplates'
  <2>1. /\ UNCHANGED <<rsets, pods, ready>>
        /\ \E t \in rsets : \E n : want' = [want EXCEPT ![t] = n]
    BY <1>6 DEF ScaleUpNew, ScaleDownNew, ScaleDownOld, ScalePaused
  <2>2. PICK t \in rsets : \A u \in PodTemplate : u # t => want'[u] = want[u]
    BY <1>0, <2>1
  <2>3. t \in AdmittedTemplates /\ UNCHANGED AdmittedTemplates
    BY <1>0, <2>1 DEF AdmittedTemplates
  <2>4. \/ ServingTemplates' \in {ServingTemplates, ServingTemplates \cup {t}}
        \/ ServingTemplates' = ServingTemplates \ {t}
    BY <2>1, <2>2 DEF ServingTemplates
  <2>5. ServingTemplates' \subseteq AdmittedTemplates'
    BY <1>0, <2>1, <2>2, <2>3 DEF ServingTemplates, AdmittedTemplates
  <2> QED
    BY <1>0, <2>3, <2>4, <2>5
<1>7. CASE \/ WarmUp \/ WarmUpFails \/ OrphanRuns \/ CollectChildren
           \/ (\E o \in orphans : CollectWarmPod(o))
  <2>1. UNCHANGED workload
    BY <1>7
    DEF WarmUp, WarmUpFails, OrphanRuns, CollectChildren, CollectWarmPod, StartWarmPod,
        PullWeights, WriteMarker, CompleteJob, FailWarmPod, DeadlineJob, OrphanPull, OrphanMark
  <2> QED
    BY <2>1, SameServing
<1>8. \/ NewReplicaSet
      \/ \E t \in PodTemplate : CreatePod(t)
      \/ \E t \in PodTemplate : DeletePod(t)
      \/ \E t \in PodTemplate : PodReady(t)
      \/ \E t \in PodTemplate : CollectReplicaSet(t)
      \/ ScaleUpNew \/ ScaleDownNew \/ \E t \in PodTemplate : ScaleDownOld(t) \/ ScalePaused(t)
      \/ WarmUp \/ WarmUpFails \/ OrphanRuns \/ CollectChildren
      \/ \E o \in orphans : CollectWarmPod(o)
  BY Zenon DEF Others, DeploymentController, Kubelet, Collector
<1> QED
  BY <1>1, <1>2, <1>3, <1>4, <1>5, <1>6, <1>7, <1>8

-----------------------------------------------------------------------------
(* The refinement *)

LEMMA InitService == Init => Service!Init
<1> SUFFICES ASSUME Init PROVE Service!Init
  OBVIOUS
<1>1. md \in ModelDeployment /\ md # None /\ ~md.deleting /\ ~md.status.observed
  BY InitObject, ObjectFields DEF EmptyStatus
<1>2. AskedTemplate \in PodTemplate
  BY <1>1, ObjectFields, ChildTypes, CountsFacts DEF AskedTemplate, Alive
<1>3. VouchedWeights = {}
  BY <1>1 DEF VouchedWeights
<1>4. marker = {} /\ AdmittedTemplates = {} /\ ServingTemplates = {}
  BY DEF Init, ClusterInit, AdmittedTemplates, ServingTemplates, Available, Minimum
<1> QED
  BY <1>2, <1>3, <1>4 DEF Service!Init

LEMMA ServiceStep ==
    ASSUME NEW v, MaxLosses = 0, PassInv, GateInv(v), ReadyInv, ReadyInv', [Next]_vars
    PROVE  [Service!Next]_(Service!serviceVars)
<1> USE DEF Service!serviceVars
<1>1. CASE Others
  <2>1. UNCHANGED <<AskedTemplate, VouchedWeights>>
    BY <1>1, SameAsked DEF Others
  <2>2. CASE marker' # marker
    <3>1. PICK w \in UNION {NeededWeights[t] : t \in PodTemplate} : marker' = marker \cup {w}
      BY <1>1, <2>2, FetchService
    <3>2. UNCHANGED <<AdmittedTemplates, ServingTemplates>>
      BY <1>1, <2>2, FetchService, SameServing
    <3>3. Service!Fetch(w)
      BY <2>1, <3>1, <3>2 DEF Service!Fetch
    <3> QED
      BY <3>1, <3>3 DEF Service!Next
  <2>3. CASE marker' = marker
    <3>1. CASE UNCHANGED <<AdmittedTemplates, ServingTemplates>>
      BY <2>1, <2>3, <3>1
    <3>2. ASSUME NEW t \in PodTemplate, NeededWeights[t] \subseteq marker,
                 AdmittedTemplates' = AdmittedTemplates \cup {t}, UNCHANGED ServingTemplates
          PROVE  Service!Admit(t)
      BY <2>1, <2>3, <3>2 DEF Service!Admit
    <3>3. ASSUME NEW t \in PodTemplate, t \in AdmittedTemplates,
                 ServingTemplates' = ServingTemplates \cup {t}, UNCHANGED AdmittedTemplates
          PROVE  Service!Serve(t)
      BY <2>1, <2>3, <3>3 DEF Service!Serve
    <3>4. ASSUME NEW t \in PodTemplate,
                 ServingTemplates' \in {ServingTemplates, ServingTemplates \ {t}},
                 AdmittedTemplates' \in {AdmittedTemplates, AdmittedTemplates \ {t}},
                 ServingTemplates' \subseteq AdmittedTemplates'
          PROVE  Service!Retire(t)
      BY <2>1, <2>3, <3>4 DEF Service!Retire
    <3> QED
      BY <1>1, <2>3, <3>1, <3>2, <3>3, <3>4, RolloutService, Zenon DEF Service!Next
  <2> QED
    BY <2>2, <2>3
<1>2. CASE UNCHANGED <<workload, marker>>
  <2>0. UNCHANGED <<AdmittedTemplates, ServingTemplates, marker>>
    BY <1>2, SameServing
  <2>1. CASE UNCHANGED md
    BY <2>0, <2>1, SameAsked
  <2>2. ASSUME NEW new, Updated(new), new.deleting = md.deleting
        PROVE  [Service!Next]_(Service!serviceVars)
    <3>1. /\ AskedTemplate' = AskedTemplate /\ AskedTemplate \in PodTemplate \cup {None}
          /\ VouchedWeights' = VouchedWeights \/ VouchedWeights' = {}
      BY <2>2, UpdateService, AskedType DEF PassInv, TypeOK
    <3>2. VouchedWeights' = {} => Service!Ask
      BY <2>0, <3>1 DEF Service!Ask
    <3> QED
      BY <2>0, <3>1, <3>2 DEF Service!Next
  <2>3. CASE WriteStatus /\ fresh /\ pmd = md /\ md' = [md EXCEPT !.status = NextStatus]
    <3>1. Service!Report
      BY <2>0, <2>3, StatusService, NothingAssumption DEF Service!Report
    <3> QED
      BY <3>1 DEF Service!Next
  <2>4. CASE (\E s \in Specs : EditSpec(s)) \/ DeleteMD
    <3>1. Service!Ask
      BY <2>0, <2>4, UserService DEF Service!Ask
    <3> QED
      BY <3>1 DEF Service!Next
  <2>5. ASSUME NEW b \in BOOLEAN, Updated([md EXCEPT !.spec = Stored(@), !.fin = b])
        PROVE  [Service!Next]_(Service!serviceVars)
    <3> DEFINE new == [md EXCEPT !.spec = Stored(@), !.fin = b]
    <3>1. md \in ModelDeployment /\ 0 \in Counts
      BY <2>5, CountsFacts DEF Updated, Put, PassInv, TypeOK
    <3>2. new.deleting = md.deleting
      BY <3>1, UpdateMarks, Zenon
    <3> HIDE DEF new
    <3>3. Updated(new)
      BY <2>5 DEF new
    <3> QED
      BY <2>2, <3>2, <3>3
  <2>6. CASE Updated([md EXCEPT !.spec = Stored([@ EXCEPT !.replicas = dec.replicas])])
    <3> DEFINE new == [md EXCEPT !.spec = Stored([@ EXCEPT !.replicas = dec.replicas])]
    <3>1. md \in ModelDeployment /\ dec.replicas \in Counts
      BY <2>6 DEF Updated, Put, PassInv, TypeOK, DecType
    <3>2. new.deleting = md.deleting
      BY <3>1, UpdateMarks, Zenon
    <3> HIDE DEF new
    <3>3. Updated(new)
      BY <2>6 DEF new
    <3> QED
      BY <2>2, <3>2, <3>3
  <2> QED
    BY <2>1, <2>3, <2>4, <2>5, <2>6, ObjectWrites, Zenon
<1> QED
  BY <1>1, <1>2, OnlyOthers, NoLoss

\* Reconcile, the gate, the rollout and the status together implement the
\* service they promise, for any number of models, runtimes and edits and
\* however late the caches are, if every spec keeps its weights on the same
\* volume and nobody deletes that: pods are admitted only for weights that are
\* complete, only admitted templates serve, complete weights stay complete, and
\* the status vouches only for complete weights of the spec written last.
THEOREM ImplementsGatedService ==
    ASSUME NEW CONSTANT v, \A s \in Specs : HasCache(s) => PVCName(s) = v, MaxLosses = 0
    PROVE  Spec => Service!GatedSpec
<1>1. \A s \in Specs : OnVolume(v, s)
  BY DEF OnVolume
<1>2. Spec => []GateInv(v)
  BY <1>1, GateAlways
<1>3. Init => ReadyInv
  BY DEF Init, ClusterInit, ReadyInv
<1>4. Spec => []ReadyInv
  BY <1>3, ReadyStep, PassAlways, PTL DEF Spec
<1>5. PassInv /\ GateInv(v) /\ ReadyInv /\ ReadyInv' /\ [Next]_vars =>
        [Service!Next]_(Service!serviceVars)
  BY ServiceStep
<1> QED
  BY <1>2, <1>4, <1>5, InitService, PassAlways, PTL DEF Spec, Service!GatedSpec
=============================================================================
