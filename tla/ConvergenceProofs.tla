-------------------------- MODULE ConvergenceProofs --------------------------
(***************************************************************************)
(* What a whole series of passes achieves.                                 *)
(*                                                                         *)
(* Level-triggered reconciliation: once nothing is left to do, everything  *)
(* is as the current spec calls for.                                       *)
(*                                                                         *)
(* The argument follows one pass.  As long as the pass holds the stored    *)
(* object, the informer cache agrees and no event has put the object back  *)
(* into the work queue, every call of the pass has left something that is  *)
(* still there (PassProgress).  A pass that ends that way without writing  *)
(* anything and without asking to be called again leaves a settled object  *)
(* (Settled); everything that unsettles it queues the object, makes the    *)
(* cache late, or both.                                                    *)
(*                                                                         *)
(* Capacity: what serves keeps serving through every change of the spec    *)
(* that leaves the size alone.  A ReplicaSet gives up a pod that counts    *)
(* only while more are available than the size calls for; the argument     *)
(* needs that a held rollout never has to shrink, which is where the bound *)
(* on the sum of all ReplicaSets comes in (RolloutInv).                    *)
(***************************************************************************)
EXTENDS GateProofs

-----------------------------------------------------------------------------
(* What the calls of a pass establish *)

AfterClaim == SyncSteps \ {"claim"}
AfterJob == AfterClaim \ {"job"}
AfterList == AfterJob \ {"list"}
AfterPrune == AfterList \ {"prune"}
AfterDecide == AfterPrune \ {"decide"}
AfterDep == AfterDecide \ {"update", "applyDep"}
AfterSvc == AfterDep \ {"applySvc"}

\* The outcome of a pass over an object that is not autoscaled.
NoChange(m) == [replicas |-> m.spec.replicas, lastScale |-> 0,
                depth |-> m.status.observedQueueDepth, scaleErr |-> FALSE]

\* The claim exists unless somebody has deleted one.
ClaimThere(s) == HasCache(s) /\ losses = 0 => PVCName(s) \in pvcs

\* What a pass that reads the Job's cache now would learn.
KnownCache(s) ==
    LET seen == jobsCache[CacheKey(s)]
    IN  IF ~HasCache(s) THEN DisabledCache
        ELSE IF seen = None THEN ColdCache
        ELSE JobState(seen)

Held(s) == HasCache(s) /\ ~KnownCache(s).warm

JobThere(s) == HasCache(s) /\ jobsCache[CacheKey(s)] = None => jobs[CacheKey(s)] # None

\* Of the Jobs the cache knows, those of other keys are gone or left to prune.
OthersPruned(s, left) ==
    HasCache(s) => \A k \in Keys \ {CacheKey(s)} :
                      jobsCache[k] # None => k \in left \/ jobs[k] = None

Undisturbed == mdFresh /\ ~queued

PlanInv ==
    /\ pc = "idle" => stale = {}
    /\ pc \in AfterPrune => stale = {}
    /\ pc = "prune" => CacheKey(pmd.spec) \notin stale
    /\ pc \in AfterDecide /\ pmd.spec.autoscaling = NoAutoscaling =>
         pc # "update" /\ dec = NoChange(pmd)

PassProgress ==
    Undisturbed /\ pc # "idle" =>
      /\ fresh
      /\ pc \in AfterClaim => ClaimThere(pmd.spec)
      /\ pc \in AfterJob => cache = KnownCache(pmd.spec) /\ JobThere(pmd.spec)
      /\ pc \in AfterList => OthersPruned(pmd.spec, stale)
      /\ pc \in AfterDep =>
           dep = Deployment(pmd.spec, CacheKey(pmd.spec), dec.replicas, Held(pmd.spec))
      /\ pc \in AfterSvc => svc
      /\ pc = "status" => pdb = PDBMinAvailable(pmd.spec, dec.replicas)

Settled ==
    Undisturbed /\ pc = "idle" /\ ~timer /\ md # None =>
      /\ md.fin /\ ~md.deleting
      /\ ClaimThere(md.spec) /\ JobThere(md.spec) /\ OthersPruned(md.spec, {})
      /\ dep = Deployment(md.spec, CacheKey(md.spec), md.spec.replicas, Held(md.spec))
      /\ svc
      /\ pdb = PDBMinAvailable(md.spec, md.spec.replicas)
      /\ md.status = BuildStatus(md.status, md.spec, CacheKey(md.spec), KnownCache(md.spec),
                                 ObservedWorkload, Held(md.spec), NoChange(md))

ConvInv == PlanInv /\ PassProgress /\ Settled

-----------------------------------------------------------------------------
(* Steps that leave the plan alone, and what may disturb it *)

LEMMA SamePlan ==
    ASSUME PlanInv, UNCHANGED <<pc, stale, pmd, dec>>
    PROVE  PlanInv'
BY DEF PlanInv, NoChange

LEMMA NoPlan ==
    ASSUME ForgetPass
    PROVE  PlanInv'
BY DEF ForgetPass, PlanInv, AfterPrune, AfterList, AfterJob, AfterClaim, AfterDecide, SyncSteps

\* Nothing is claimed of a disturbed pass.
LEMMA Disturbed ==
    ASSUME PlanInv', ~mdFresh' \/ queued'
    PROVE  ConvInv'
BY DEF ConvInv, PassProgress, Settled, Undisturbed

\* The cluster's controllers, and whatever else only touches what the operator
\* does not look at.
LEMMA ConvKept ==
    ASSUME PassInv, ConvInv,
           UNCHANGED <<md, mdFresh, jobsCache, depCache, queued, timer, pc, pmd, fresh, cache,
                       stale, dec, dep, svc, pdb>>,
           losses' = 0 => losses = 0 /\ pvcs \subseteq pvcs',
           \A k \in Keys : jobs'[k] = None <=> jobs[k] = None
    PROVE  ConvInv'
<1>1. PlanInv'
  BY SamePlan DEF ConvInv
<1>2. ASSUME NEW m \in ModelDeployment
      PROVE  CacheKey(m.spec) \in Keys
  BY <1>2, ChildTypes, ObjectFields, CountsFacts
<1>3. (pmd # None => pmd \in ModelDeployment) /\ (md # None => md \in ModelDeployment)
  BY DEF PassInv, TypeOK
<1>4. PassProgress'
  <2> SUFFICES ASSUME Undisturbed, pc # "idle" PROVE PassProgress'
    BY DEF PassProgress, Undisturbed
  <2>1. pmd \in ModelDeployment /\ CacheKey(pmd.spec) \in Keys
    BY <1>2, <1>3 DEF PassInv, TypeOK
  <2>2. pc \in AfterClaim => ClaimThere(pmd.spec)'
    BY DEF ConvInv, PassProgress, ClaimThere
  <2>3. pc \in AfterJob => cache' = KnownCache(pmd.spec)' /\ JobThere(pmd.spec)'
    BY <2>1 DEF ConvInv, PassProgress, KnownCache, JobThere
  <2>4. pc \in AfterList => OthersPruned(pmd.spec, stale)'
    BY DEF ConvInv, PassProgress, OthersPruned
  <2>5. Held(pmd.spec)' = Held(pmd.spec)
    BY DEF Held, KnownCache
  <2> QED
    BY <2>2, <2>3, <2>4, <2>5 DEF ConvInv, PassProgress
<1>5. Settled'
  <2> SUFFICES ASSUME Undisturbed, pc = "idle", ~timer, md # None PROVE Settled'
    BY DEF Settled, Undisturbed
  <2>1. md \in ModelDeployment /\ CacheKey(md.spec) \in Keys
    BY <1>2, <1>3
  <2>2. ClaimThere(md.spec)' /\ OthersPruned(md.spec, {})'
    BY DEF ConvInv, Settled, ClaimThere, OthersPruned
  <2>3. JobThere(md.spec)' /\ KnownCache(md.spec)' = KnownCache(md.spec)
    BY <2>1 DEF ConvInv, Settled, JobThere, KnownCache
  <2>4. Held(md.spec)' = Held(md.spec) /\ ObservedWorkload' = ObservedWorkload
    BY DEF Held, KnownCache, ObservedWorkload
  <2>5. NoChange(md)' = NoChange(md)
    BY DEF NoChange
  <2> QED
    BY <2>2, <2>3, <2>4, <2>5 DEF ConvInv, Settled
<1> QED
  BY <1>1, <1>4, <1>5 DEF ConvInv

-----------------------------------------------------------------------------
(* The steps of a pass *)

LEMMA StartConv ==
    ASSUME PassInv, CopiesInv, ConvInv, StartPass
    PROVE  ConvInv'
<1>0. /\ pc = "idle" /\ stale = {} /\ stale' = {} /\ cache = DisabledCache /\ cache' = cache
      /\ UNCHANGED <<md, mdFresh, jobsCache, jobs, timer>>
      /\ mdFresh => mdCache = md
  BY DEF StartPass, PassInv, ConvInv, PlanInv, locals, informers, clusterVars, children
<1>1. CASE mdCache = None \/ (mdCache.deleting /\ ~mdCache.fin)
  <2>1. UNCHANGED <<pc, stale, pmd, dec>>
    BY <1>1 DEF StartPass, locals
  <2>2. PlanInv'
    BY <2>1, SamePlan DEF ConvInv
  <2>3. mdFresh => md = None
    BY <1>0, <1>1 DEF CopiesInv
  <2> QED
    BY <1>0, <2>1, <2>2, <2>3 DEF ConvInv, PassProgress, Settled, Undisturbed
<1>2. CASE ~(mdCache = None \/ (mdCache.deleting /\ ~mdCache.fin))
  <2>1. /\ pc' \in {"delDep", "addFin", "claim", "decide"}
        /\ pc' = "decide" => ~HasCache(mdCache.spec)
        /\ pmd' = mdCache /\ fresh' = mdFresh
    BY <1>2 DEF StartPass
  <2>2. PlanInv'
    BY <1>0, <2>1
    DEF PlanInv, AfterDecide, AfterPrune, AfterList, AfterJob, AfterClaim, SyncSteps
  <2>3. pc' = "decide" => /\ ClaimThere(pmd.spec)' /\ JobThere(pmd.spec)'
                          /\ OthersPruned(pmd.spec, stale)'
                          /\ cache' = KnownCache(pmd.spec)'
    BY <1>0, <2>1 DEF ClaimThere, JobThere, OthersPruned, KnownCache, HasCache
  <2> QED
    BY <1>0, <2>1, <2>2, <2>3
    DEF ConvInv, PassProgress, Settled, Undisturbed, AfterDecide, AfterPrune, AfterList, AfterJob,
        AfterClaim, AfterDep, AfterSvc, SyncSteps
<1> QED
  BY <1>1, <1>2

LEMMA ClaimConv ==
    ASSUME PassInv, ConvInv, EnsureClaim
    PROVE  ConvInv'
<1>1. CASE Fail
  BY <1>1, NoPlan, Disturbed DEF Fail
<1>2. CASE Goto("job") /\ UNCHANGED locals /\ PVCName(pmd.spec) \in pvcs'
  <2>1. /\ pc = "claim" /\ pc' = "job"
        /\ UNCHANGED <<mdFresh, queued, pmd, fresh>>
    BY <1>2 DEF EnsureClaim, Goto, locals, informers
  <2>2. PlanInv'
    BY <2>1
    DEF PlanInv, AfterDecide, AfterPrune, AfterList, AfterJob, AfterClaim, SyncSteps
  <2>3. ClaimThere(pmd.spec)'
    BY <1>2, <2>1 DEF ClaimThere, PVCName
  <2> QED
    BY <2>1, <2>2, <2>3
    DEF ConvInv, PassProgress, Settled, Undisturbed, AfterDecide, AfterPrune, AfterList, AfterJob,
        AfterClaim, AfterDep, AfterSvc, SyncSteps
<1> QED
  BY <1>1, <1>2, Zenon DEF EnsureClaim

LEMMA JobConv ==
    ASSUME PassInv, StatusInv, ConvInv, ReconcileJob
    PROVE  ConvInv'
<1> DEFINE key == CacheKey(pmd.spec)
<1>1. /\ pc = "job" /\ pc' = "list"
      /\ UNCHANGED <<mdFresh, queued, pmd, fresh, jobsCache, losses, pvcs>>
  BY DEF ReconcileJob, Goto, informers, Environment, budgets
<1>2. /\ pmd \in ModelDeployment /\ pmd.spec \in ModelDeploymentSpec /\ key \in Keys
      /\ HasCache(pmd.spec)
  BY <1>1, ObjectFields, ChildTypes, CountsFacts DEF PassInv, TypeOK, StatusInv
<1>3. PlanInv'
  BY <1>1
  DEF PlanInv, AfterDecide, AfterPrune, AfterList, AfterJob, AfterClaim, SyncSteps
<1>4. JobThere(pmd.spec)'
  <2>1. WarmJob(pmd.spec) # None
    BY <1>2, ChildTypes, CountsFacts, NoChildAssumption
  <2>2. jobsCache[key] = None => jobs'[key] # None
    BY <1>2, <2>1 DEF ReconcileJob, PassInv, TypeOK, ClusterTypeOK
  <2> QED
    BY <1>1, <2>2 DEF JobThere, CacheKey
<1>5. cache' = KnownCache(pmd.spec)'
  <2>1. cache' = IF jobsCache[key] = None THEN ColdCache ELSE JobState(jobsCache[key])
    BY DEF ReconcileJob
  <2> QED
    BY <1>1, <1>2, <2>1 DEF KnownCache, CacheKey, HasCache
<1>6. ClaimThere(pmd.spec) => ClaimThere(pmd.spec)'
  BY <1>1 DEF ClaimThere, PVCName, HasCache
<1> QED
  BY <1>1, <1>3, <1>4, <1>5, <1>6
  DEF ConvInv, PassProgress, Settled, Undisturbed, AfterDecide, AfterPrune, AfterList, AfterJob,
      AfterClaim, AfterDep, AfterSvc, SyncSteps

LEMMA ListConv ==
    ASSUME PassInv, ConvInv, ListWarmJobs
    PROVE  ConvInv'
<1>1. /\ pc = "list" /\ pc' = IF stale' = {} THEN "decide" ELSE "prune"
      /\ stale' = {k \in Keys : jobsCache[k] # None} \ {CacheKey(pmd.spec)}
      /\ UNCHANGED <<mdFresh, queued, pmd, fresh, cache, jobsCache, jobs, losses, pvcs>>
  BY DEF ListWarmJobs, Goto, informers, Environment, budgets, clusterVars, children
<1>2. PlanInv'
  BY <1>1
  DEF PlanInv, AfterDecide, AfterPrune, AfterList, AfterJob, AfterClaim, SyncSteps, CacheKey
<1>3. OthersPruned(pmd.spec, stale)'
  BY <1>1 DEF OthersPruned, CacheKey
<1>4. /\ ClaimThere(pmd.spec) => ClaimThere(pmd.spec)'
      /\ JobThere(pmd.spec) => JobThere(pmd.spec)'
      /\ KnownCache(pmd.spec)' = KnownCache(pmd.spec)
  BY <1>1 DEF ClaimThere, JobThere, KnownCache
<1> QED
  BY <1>1, <1>2, <1>3, <1>4
  DEF ConvInv, PassProgress, Settled, Undisturbed, AfterDecide, AfterPrune, AfterList, AfterJob,
      AfterClaim, AfterDep, AfterSvc, SyncSteps

LEMMA PruneConv ==
    ASSUME PassInv, ConvInv, NEW k \in Keys, PruneJob(k)
    PROVE  ConvInv'
<1>1. /\ pc = "prune" /\ pc' = IF stale = {k} THEN "decide" ELSE "prune"
      /\ k \in stale /\ stale' = stale \ {k}
      /\ jobs' = [jobs EXCEPT ![k] = None]
      /\ UNCHANGED <<mdFresh, queued, pmd, fresh, cache, jobsCache, losses, pvcs>>
  BY DEF PruneJob, DeleteJob, Goto, informers, Environment, budgets
<1>2. k # CacheKey(pmd.spec)
  BY <1>1 DEF ConvInv, PlanInv
<1>3. jobs'[CacheKey(pmd.spec)] = jobs[CacheKey(pmd.spec)]
  BY <1>1, <1>2 DEF PassInv, TypeOK, ClusterTypeOK
<1>4. \A j \in Keys : jobs'[j] = IF j = k THEN None ELSE jobs[j]
  BY <1>1 DEF PassInv, TypeOK, ClusterTypeOK
<1>5. PlanInv'
  BY <1>1
  DEF ConvInv, PlanInv, AfterDecide, AfterPrune, AfterList, AfterJob, AfterClaim, SyncSteps,
      CacheKey
<1>6. OthersPruned(pmd.spec, stale) => OthersPruned(pmd.spec, stale)'
  BY <1>1, <1>4 DEF OthersPruned
<1>7. /\ ClaimThere(pmd.spec) => ClaimThere(pmd.spec)'
      /\ KnownCache(pmd.spec)' = KnownCache(pmd.spec)
      /\ JobThere(pmd.spec) => JobThere(pmd.spec)'
  BY <1>1, <1>3 DEF ClaimThere, JobThere, KnownCache
<1> QED
  BY <1>1, <1>5, <1>6, <1>7
  DEF ConvInv, PassProgress, Settled, Undisturbed, AfterDecide, AfterPrune, AfterList, AfterJob,
      AfterClaim, AfterDep, AfterSvc, SyncSteps

\* From the decision on, the claim, the Jobs and what the pass knows of them
\* are left alone.
LEMMA WeightsKept ==
    ASSUME UNCHANGED <<jobsCache, jobs, losses, pvcs, pmd, stale>>
    PROVE  /\ ClaimThere(pmd.spec) => ClaimThere(pmd.spec)'
           /\ JobThere(pmd.spec) => JobThere(pmd.spec)'
           /\ OthersPruned(pmd.spec, stale) => OthersPruned(pmd.spec, stale)'
           /\ KnownCache(pmd.spec)' = KnownCache(pmd.spec)
           /\ Held(pmd.spec)' = Held(pmd.spec)
BY DEF ClaimThere, JobThere, OthersPruned, KnownCache, Held

LEMMA DecideConv ==
    ASSUME PassInv, ConvInv, DecideReplicas
    PROVE  ConvInv'
<1>1. /\ pc = "decide"
      /\ pc' = IF dec'.replicas = pmd.spec.replicas THEN "applyDep" ELSE "update"
      /\ UNCHANGED <<mdFresh, queued, pmd, fresh, cache, stale, jobsCache, jobs, losses, pvcs>>
  BY DEF DecideReplicas, Goto, informers, Environment, budgets, clusterVars, children
<1>2. pmd.spec.autoscaling = NoAutoscaling => dec' = NoChange(pmd)
  BY DEF DecideReplicas, Outcome, NoChange
<1>3. NoChange(pmd).replicas = pmd.spec.replicas /\ NoChange(pmd)' = NoChange(pmd)
  BY <1>1 DEF NoChange
<1>4. PlanInv'
  BY <1>1, <1>2, <1>3
  DEF ConvInv, PlanInv, AfterDecide, AfterPrune, AfterList, AfterJob, AfterClaim, SyncSteps
<1> QED
  BY <1>1, <1>4, WeightsKept
  DEF ConvInv, PassProgress, Settled, Undisturbed, AfterDecide, AfterPrune, AfterList, AfterJob,
      AfterClaim, AfterDep, AfterSvc, SyncSteps

\* A write of the replica count that changes the object makes the cache late;
\* one that is defaulted back to what was stored goes on with the same object.
LEMMA UpdateConv ==
    ASSUME PassInv, ConvInv, WriteReplicas
    PROVE  ConvInv'
<1>1. CASE Fail
  BY <1>1, NoPlan, Disturbed DEF Fail
<1>2. CASE ~Fail
  <2> DEFINE u == Stored([pmd.spec EXCEPT !.replicas = dec.replicas])
             new == [pmd EXCEPT !.spec = u]
  <2>1. /\ pc = "update" /\ pc' = "applyDep" /\ fresh
        /\ Put(new) /\ pmd' = md'
        /\ UNCHANGED <<queued, timer, fresh, cache, stale, dec, jobsCache, jobs, losses, pvcs>>
    BY <1>2, Zenon
    DEF WriteReplicas, Goto, Put, Caches, Environment, budgets, clusterVars, children, new, u
  <2>2. pmd \in ModelDeployment /\ pmd = md /\ ~pmd.deleting /\ dec.replicas \in Counts
    BY <2>1 DEF PassInv, TypeOK, DecType, SyncSteps
  <2>3. u \in ModelDeploymentSpec
    BY <2>2, ObjectFields, ResizedKeeps
  <2>4. u.autoscaling # NoAutoscaling
    <3>1. /\ pmd.spec \in ModelDeploymentSpec
          /\ pmd.spec.autoscaling # NoAutoscaling
      BY <2>1, <2>2, ObjectFields
      DEF ConvInv, PlanInv, AfterDecide, AfterPrune, AfterList, AfterJob, AfterClaim, SyncSteps
    <3>2. u.autoscaling = StoredAutoscaling(pmd.spec.autoscaling)
      BY <3>1 DEF Stored, ModelDeploymentSpec
    <3>3. pmd.spec.autoscaling \in AutoscalingSpec
      BY <3>1 DEF ModelDeploymentSpec
    <3> DEFINE a == pmd.spec.autoscaling
               b == [a EXCEPT !.MinReplicas = OrDefault(@, 1),
                              !.ScaleUpAfter = OrDefault(@, DefaultScaleUp),
                              !.ScaleDownAfter = OrDefault(@, DefaultScaleDown)]
    <3>4. b \in AutoscalingSpec
      <4>1. OrDefault(a.MinReplicas, 1) \in Counts
        BY <3>3, DefaultType DEF AutoscalingSpec
      <4>2. OrDefault(a.ScaleUpAfter, DefaultScaleUp) \in Nat
        BY <3>3, DefaultsAssumption DEF AutoscalingSpec, OrDefault
      <4>3. OrDefault(a.ScaleDownAfter, DefaultScaleDown) \in Nat
        BY <3>3, DefaultsAssumption DEF AutoscalingSpec, OrDefault
      <4> QED
        BY <3>3, <4>1, <4>2, <4>3 DEF AutoscalingSpec
    <3>5. StoredAutoscaling(a) = b
      BY <3>1 DEF StoredAutoscaling, StoredPolicy
    <3> QED
      BY <3>2, <3>4, <3>5, AbsentAssumption
  <2> HIDE DEF u
  <2>5. new \in ModelDeployment /\ new.spec = u /\ ~new.deleting
    BY <2>2, <2>3, ObjectUpdates
  <2> HIDE DEF new
  <2>6. md' # None /\ md'.spec = u
    BY <2>1, <2>2, <2>5, PutMarks, ObjectFields, Unobserved DEF Put
  <2>7. PlanInv'
    BY <2>1, <2>4, <2>6
    DEF ConvInv, PlanInv, AfterDecide, AfterPrune, AfterList, AfterJob, AfterClaim, SyncSteps
  <2>8. CASE md' # md
    BY <2>1, <2>7, <2>8, Disturbed DEF Put
  <2>9. CASE md' = md
    <3>1. pmd' = pmd /\ (mdFresh' => mdFresh)
      BY <2>1, <2>2, <2>9 DEF Put
    <3> QED
      BY <2>1, <2>7, <3>1, WeightsKept
      DEF ConvInv, PassProgress, Settled, Undisturbed, AfterDecide, AfterPrune, AfterList, AfterJob,
          AfterClaim, AfterDep, AfterSvc, SyncSteps
  <2> QED
    BY <2>8, <2>9
<1> QED
  BY <1>1, <1>2

LEMMA ApplyConv ==
    ASSUME PassInv, ConvInv, ApplyDeployment \/ ApplyService \/ ReconcilePDB
    PROVE  ConvInv'
<1>1. /\ pc # "idle" /\ pc' # "idle"
      /\ UNCHANGED <<mdFresh, queued, pmd, fresh, cache, stale, dec, jobsCache, jobs, losses, pvcs>>
  BY DEF ApplyDeployment, ApplyService, ReconcilePDB, Goto, informers, locals, Environment, budgets
<1>2. \/ pc = "applyDep" /\ pc' = "applySvc"
      \/ pc = "applySvc" /\ pc' = "pdb"
      \/ pc = "pdb" /\ pc' = "status"
  BY DEF ApplyDeployment, ApplyService, ReconcilePDB, Goto
<1> USE DEF AfterDecide, AfterPrune, AfterList, AfterJob, AfterClaim, AfterDep, AfterSvc, SyncSteps
<1>3. PlanInv'
  BY <1>1, <1>2 DEF ConvInv, PlanInv, NoChange
<1>4. ASSUME Undisturbed, pc = "applyDep"
      PROVE  dep' = Deployment(pmd.spec, CacheKey(pmd.spec), dec.replicas, Held(pmd.spec))
  <2>1. cache = KnownCache(pmd.spec)
    BY <1>4 DEF ConvInv, PassProgress
  <2>2. ApplyDeployment
    BY <1>4 DEF ApplyService, ReconcilePDB
  <2> QED
    BY <2>1, <2>2 DEF ApplyDeployment, Paused, Held
<1>5. pc = "applySvc" => svc' /\ dep' = dep
  BY DEF ApplyDeployment, ApplyService, ReconcilePDB
<1>6. pc = "pdb" => svc' = svc /\ dep' = dep /\ pdb' = PDBMinAvailable(pmd.spec, dec.replicas)
  BY DEF ApplyDeployment, ApplyService, ReconcilePDB
<1>7. PassProgress'
  <2> SUFFICES ASSUME Undisturbed PROVE PassProgress'
    BY <1>1 DEF PassProgress, Undisturbed
  <2>1. /\ fresh' /\ ClaimThere(pmd.spec)' /\ JobThere(pmd.spec)'
        /\ OthersPruned(pmd.spec, stale)' /\ cache' = KnownCache(pmd.spec)'
    BY <1>1, <1>2, WeightsKept DEF ConvInv, PassProgress
  <2>2. dep' = Deployment(pmd.spec, CacheKey(pmd.spec), dec.replicas, Held(pmd.spec))
    BY <1>2, <1>4, <1>5, <1>6 DEF ConvInv, PassProgress
  <2>3. pc' \in AfterSvc => svc'
    BY <1>2, <1>5, <1>6 DEF ConvInv, PassProgress
  <2>4. pc' = "status" => pdb' = PDBMinAvailable(pmd.spec, dec.replicas)
    BY <1>2, <1>6
  <2> QED
    BY <1>1, <2>1, <2>2, <2>3, <2>4, WeightsKept DEF PassProgress
<1> QED
  BY <1>1, <1>3, <1>7 DEF ConvInv, Settled

\* The end of a pass: a status that had to be written makes the cache late, and
\* an autoscaled object is called again.
LEMMA StatusConv ==
    ASSUME PassInv, CopiesInv, ConvInv, WriteStatus
    PROVE  ConvInv'
<1> USE DEF AfterDecide, AfterPrune, AfterList, AfterJob, AfterClaim, AfterDep, AfterSvc, SyncSteps
<1>1. PlanInv' /\ pc = "status" /\ pc' = "idle"
  BY NoPlan DEF WriteStatus, Fail, Finish, ForgetPass
<1>2. CASE ~mdFresh' \/ queued'
  BY <1>1, <1>2, Disturbed
<1>3. CASE mdFresh' /\ ~queued'
  <2>1. /\ NextStatus = pmd.status
        /\ timer' = (timer \/ Requeue)
        /\ UNCHANGED <<md, mdFresh, queued, depCache, jobsCache, dep, svc, pdb, jobs, pvcs, losses>>
    BY <1>3, Zenon
    DEF WriteStatus, Fail, Finish, Caches, Environment, budgets, clusterVars, children
  <2>2. Undisturbed
    BY <1>3, <2>1 DEF Undisturbed
  <2>3. fresh /\ pmd = md /\ md.fin /\ ~md.deleting
    BY <1>1, <2>2 DEF ConvInv, PassProgress, PassInv, CopiesInv
  <2>4. CASE pmd.spec.autoscaling # NoAutoscaling
    BY <1>1, <2>1, <2>4 DEF ConvInv, PassProgress, Settled, Requeue
  <2>5. CASE pmd.spec.autoscaling = NoAutoscaling
    <3>1. dec = NoChange(md) /\ stale = {}
      BY <1>1, <2>3, <2>5 DEF ConvInv, PlanInv
    <3>2. dec.replicas = md.spec.replicas
      BY <3>1 DEF NoChange
    <3>3. /\ ClaimThere(md.spec) /\ JobThere(md.spec) /\ OthersPruned(md.spec, {})
          /\ cache = KnownCache(md.spec)
          /\ dep = Deployment(md.spec, CacheKey(md.spec), md.spec.replicas, Held(md.spec))
          /\ svc
          /\ pdb = PDBMinAvailable(md.spec, md.spec.replicas)
      BY <1>1, <2>2, <2>3, <3>1, <3>2 DEF ConvInv, PassProgress
    <3>4. Paused = Held(md.spec)
      BY <2>3, <3>3 DEF Paused, Held
    <3>5. md.status = BuildStatus(md.status, md.spec, CacheKey(md.spec), KnownCache(md.spec),
                                  ObservedWorkload, Held(md.spec), NoChange(md))
      BY <2>1, <2>3, <3>1, <3>3, <3>4 DEF NextStatus
    <3>6. /\ ClaimThere(md.spec)' /\ JobThere(md.spec)' /\ OthersPruned(md.spec, {})'
          /\ KnownCache(md.spec)' = KnownCache(md.spec)
          /\ Held(md.spec)' = Held(md.spec)
          /\ ObservedWorkload' = ObservedWorkload
          /\ NoChange(md)' = NoChange(md)
      BY <2>1, <3>3
      DEF ClaimThere, JobThere, OthersPruned, KnownCache, Held, ObservedWorkload, NoChange
    <3>7. Settled'
      BY <2>1, <2>3, <3>3, <3>5, <3>6 DEF Settled
    <3> QED
      BY <1>1, <3>7 DEF ConvInv, PassProgress
  <2> QED
    BY <2>4, <2>5
<1> QED
  BY <1>2, <1>3, Zenon

\* The finalizer's Updates change the object, and a teardown that has to wait
\* for pods asks to be called again.
LEMMA FinalizeConv ==
    ASSUME PassInv, CopiesInv, ConvInv,
           \/ AddFinalizer \/ DeleteDeployment \/ DeleteJobs \/ ListPods \/ ReleaseFinalizer
    PROVE  ConvInv'
<1> USE DEF AfterDecide, AfterPrune, AfterList, AfterJob, AfterClaim, AfterDep, AfterSvc,
            SyncSteps, FinalizeSteps
<1>1. CASE DeleteDeployment \/ DeleteJobs \/ (ListPods /\ Goto("release") /\ UNCHANGED locals)
  <2>1. /\ pc # "idle" /\ pc' \in FinalizeSteps
        /\ UNCHANGED <<mdFresh, queued, fresh>>
    BY <1>1 DEF DeleteDeployment, DeleteJobs, ListPods, Goto, locals, informers
  <2>2. PlanInv'
    BY <2>1 DEF PlanInv
  <2> QED
    BY <2>1, <2>2 DEF ConvInv, PassProgress, Settled, Undisturbed
<1>2. CASE ListPods /\ Finish(TRUE)
  <2>1. PlanInv' /\ pc' = "idle" /\ timer'
    BY <1>2, NoPlan DEF Finish, ForgetPass
  <2> QED
    BY <2>1 DEF ConvInv, PassProgress, Settled
<1>3. CASE AddFinalizer \/ ReleaseFinalizer
  <2>1. PlanInv'
    BY <1>3, NoPlan DEF AddFinalizer, ReleaseFinalizer, Finish, Fail
  <2>2. CASE Fail
    BY <2>1, <2>2, Disturbed DEF Fail
  <2>3. ASSUME NEW b \in BOOLEAN, Put([pmd EXCEPT !.spec = Stored(@), !.fin = b]),
               pmd.fin # b \/ (pmd.deleting /\ ~b)
        PROVE  ~mdFresh'
    <3> DEFINE new == [pmd EXCEPT !.spec = Stored(@), !.fin = b]
    <3>0. pmd \in ModelDeployment /\ 0 \in Counts
      BY <2>3, CountsFacts DEF Put, PassInv, TypeOK
    <3>1. pmd = md
      BY <2>3 DEF Put, PassInv
    <3>2. new \in ModelDeployment /\ new.fin = b /\ new.deleting = pmd.deleting
      BY <3>0, UpdateMarks, Zenon
    <3> HIDE DEF new
    <3>3. Put(new)
      BY <2>3 DEF new
    <3>4. md' # md
      BY <2>3, <3>0, <3>1, <3>2, <3>3, PutMarks, ObjectFields
    <3> QED
      BY <3>3, <3>4 DEF Put
  <2>4. CASE AddFinalizer
    <3>1. ~pmd.fin /\ pmd \in ModelDeployment
      BY <2>4 DEF AddFinalizer, CopiesInv, PassInv, TypeOK
    <3>2. pmd.fin # TRUE
      BY <3>1, ObjectFields
    <3>3. Fail \/ Put([pmd EXCEPT !.spec = Stored(@), !.fin = TRUE])
      BY <2>4, Zenon DEF AddFinalizer
    <3> QED
      BY <2>1, <2>2, <2>3, <3>2, <3>3, Disturbed
  <2>5. CASE ReleaseFinalizer
    <3>1. pmd.deleting
      BY <2>5 DEF ReleaseFinalizer, CopiesInv
    <3>2. Fail \/ Put([pmd EXCEPT !.spec = Stored(@), !.fin = FALSE])
      BY <2>5, Zenon DEF ReleaseFinalizer
    <3> QED
      BY <2>1, <2>2, <2>3, <3>1, <3>2, Disturbed
  <2> QED
    BY <1>3, <2>4, <2>5
<1> QED
  BY <1>1, <1>2, <1>3, Zenon DEF ListPods

-----------------------------------------------------------------------------
(* Convergence *)

LEMMA InitConv == Init => ConvInv
BY DEF Init, ConvInv, PlanInv, PassProgress, Settled, Undisturbed, AfterDecide, AfterPrune,
       AfterList, AfterJob, AfterClaim, SyncSteps

LEMMA ConvStep == PassInv /\ StatusInv /\ CopiesInv /\ ConvInv /\ [Next]_vars => ConvInv'
<1> SUFFICES ASSUME PassInv, StatusInv, CopiesInv, ConvInv, [Next]_vars PROVE ConvInv'
  OBVIOUS
<1>1. CASE \/ UNCHANGED vars \/ SyncPods \/ Tick
           \/ (\E c \in SharedClaims : ProvisionClaim(c)) \/ (\E c \in Claims : LoseClaim(c))
  <2>1. UNCHANGED <<md, mdFresh, jobsCache, depCache, queued, timer, pc, pmd, fresh, cache,
                    stale, dec, dep, svc, pdb, jobs>>
    BY <1>1
    DEF vars, SyncPods, Tick, ProvisionClaim, LoseClaim, clusterVars, children, informers, locals
  <2>2. losses' = 0 => losses = 0 /\ pvcs \subseteq pvcs'
    <3>1. CASE \E c \in Claims : LoseClaim(c)
      <4>1. losses' = losses + 1 /\ losses \in Nat
        BY <3>1 DEF LoseClaim, PassInv, TypeOK
      <4> QED
        BY <4>1
    <3>2. CASE ~\E c \in Claims : LoseClaim(c)
      BY <1>1, <3>2
      DEF vars, SyncPods, Tick, ProvisionClaim, clusterVars, children, Environment, budgets
    <3> QED
      BY <3>1, <3>2
  <2> QED
    BY <2>1, <2>2, ConvKept
<1>2. CASE Others
  <2>1. UNCHANGED <<md, mdFresh, jobsCache, depCache, queued, timer, pc, pmd, fresh, cache,
                    stale, dec, losses>>
    BY <1>2 DEF Others, informers, locals, Environment, budgets
  <2>2. CASE /\ UNCHANGED <<dep, svc, pdb, pvcs>>
             /\ \A k \in Keys : jobs'[k] = None <=> jobs[k] = None
    BY <2>1, <2>2, ConvKept
  <2>3. CASE md = None
    <3>1. pc \notin SyncSteps /\ PlanInv'
      BY <2>1, <2>3, SamePlan DEF CopiesInv, ConvInv
    <3> QED
      BY <2>1, <2>3, <3>1
      DEF ConvInv, PassProgress, Settled, Undisturbed, AfterDecide, AfterPrune, AfterList,
          AfterJob, AfterClaim, AfterDep, AfterSvc, SyncSteps
  <2> QED
    BY <1>2, <2>2, <2>3, ClusterChildren
<1>3. CASE SyncMD \/ (\E k \in Keys : SyncJob(k)) \/ SyncDep \/ TimerFires \/ Drift
  <2>1. queued' /\ UNCHANGED <<pc, stale, pmd, dec>>
    BY <1>3 DEF SyncMD, SyncJob, SyncDep, TimerFires, Drift, locals
  <2> QED
    BY <2>1, SamePlan, Disturbed DEF ConvInv
<1>4. CASE (\E s \in Specs : EditSpec(s)) \/ DeleteMD
  <2>1. ~mdFresh' /\ UNCHANGED <<pc, stale, pmd, dec>>
    BY <1>4 DEF EditSpec, DeleteMD
  <2> QED
    BY <2>1, SamePlan, Disturbed DEF ConvInv
<1>5. CASE Abort
  BY <1>5, NoPlan, Disturbed DEF Abort, Fail
<1>6. CASE Pass
  BY <1>6, StartConv, ClaimConv, JobConv, ListConv, PruneConv, DecideConv, UpdateConv, ApplyConv,
     StatusConv, FinalizeConv, Zenon
  DEF Pass
<1> QED
  BY <1>1, <1>2, <1>3, <1>4, <1>5, <1>6, Zenon DEF Next, Informers, User, PromptEvent

\* A settled object whose caches are current is what the spec calls for.
LEMMA SettledConverged ==
    ASSUME PassInv, Settled
    PROVE  QuiescentIsConverged
<1> SUFFICES ASSUME Quiescent, md # None PROVE QuiescentIsConverged
  BY DEF QuiescentIsConverged
<1> DEFINE key == CacheKey(md.spec)
           warm == jobs[key] # None /\ jobs[key].succeeded
           failed == jobs[key] # None /\ jobs[key].failed
           held == HasCache(md.spec) /\ ~warm
           c == IF HasCache(md.spec)
                THEN [enabled |-> TRUE, warm |-> warm, failed |-> failed]
                ELSE DisabledCache
           d == [NoDecision EXCEPT !.depth = md.status.observedQueueDepth]
<1>1. /\ md.fin /\ ~md.deleting
      /\ ClaimThere(md.spec) /\ JobThere(md.spec) /\ OthersPruned(md.spec, {})
      /\ dep = Deployment(md.spec, key, md.spec.replicas, Held(md.spec))
      /\ svc
      /\ pdb = PDBMinAvailable(md.spec, md.spec.replicas)
      /\ md.status = BuildStatus(md.status, md.spec, key, KnownCache(md.spec), ObservedWorkload,
                                 Held(md.spec), NoChange(md))
  BY DEF Quiescent, Settled, Undisturbed
<1>2. jobsCache = jobs /\ key \in Keys /\ jobs[key] \in Jobs \cup {None}
  BY ObjectFields, ChildTypes, CountsFacts DEF Quiescent, PassInv, TypeOK, ClusterTypeOK
<1>3. HasCache(md.spec) => jobs[key] # None
  BY <1>1, <1>2 DEF JobThere
<1>4. HasCache(md.spec) => {k \in Keys : jobs[k] # None} = {key}
  BY <1>1, <1>2, <1>3 DEF OthersPruned
<1>5. KnownCache(md.spec) = c
  BY <1>2, <1>3, NoChildAssumption DEF KnownCache, JobState, Jobs
<1>6. Held(md.spec) = held
  BY <1>2, <1>3, NoChildAssumption DEF Held, KnownCache, JobState, Jobs, DisabledCache
<1>7. BuildStatus(md.status, md.spec, key, c, ObservedWorkload, held, NoChange(md))
        = BuildStatus(md.status, md.spec, key, c, ObservedWorkload, held, d)
  BY DEF BuildStatus, NoChange, NoDecision, LastScaleTime
<1>8. HasCache(md.spec) /\ losses = 0 => PVCName(md.spec) \in pvcs
  BY <1>1 DEF ClaimThere
<1> HIDE DEF key, warm, failed, held, c, d
<1>9. QuiescentIsConverged <=>
        /\ md.fin /\ ~md.deleting
        /\ HasCache(md.spec) => {k \in Keys : jobs[k] # None} = {key}
        /\ HasCache(md.spec) /\ losses = 0 => PVCName(md.spec) \in pvcs
        /\ dep = Deployment(md.spec, key, md.spec.replicas, held)
        /\ svc
        /\ pdb = PDBMinAvailable(md.spec, md.spec.replicas)
        /\ md.status = BuildStatus(md.status, md.spec, key, c, ObservedWorkload, held, d)
  BY Zenon DEF QuiescentIsConverged, key, warm, failed, held, c, d
<1> QED
  BY <1>1, <1>4, <1>5, <1>6, <1>7, <1>8, <1>9

\* The reconciler is level-triggered: whatever edits, faults, conflicts, lost
\* claims, drift and late or merged events led there, and for every number of
\* models, runtimes and claims: once no pass runs or is due and the caches are
\* current, the children and the status are the ones the current spec calls for,
\* and no deletion is stuck.
THEOREM Converged == Spec => []QuiescentIsConverged
<1>1. PassInv /\ ConvInv => QuiescentIsConverged
  BY SettledConverged DEF ConvInv
<1>2. LifeInv => CopiesInv
  BY DEF LifeInv
<1> QED
  BY <1>1, <1>2, InitConv, ConvStep, PassAlways, StatusAlways, LifeAlways, PTL DEF Spec

-----------------------------------------------------------------------------
(* Capacity, for a user who switches models but keeps the size n *)

Sized(n, s) == s.replicas = n /\ s.autoscaling = NoAutoscaling

\* Whatever is asked for, and whatever copy of it is in use, is of size n.
SizeInv(n) ==
    /\ md # None => Sized(n, md.spec)
    /\ mdCache # None => Sized(n, mdCache.spec)
    /\ pc # "idle" => Sized(n, pmd.spec)
    /\ dep # None => dep.replicas = n

\* The ReplicaSets together never ask for more than the surge allows, one that
\* is gone asks for none, and while the object is there they do not outlive the
\* Deployment.
RolloutInv(n) ==
    /\ SumFunction(want) <= n + MaxSurge
    /\ \A t \in PodTemplate \ rsets : want[t] = 0
    /\ dep = None /\ Alive => rsets = {}

-----------------------------------------------------------------------------
(* Sums over templates *)

LEMMA WorkloadTypes ==
    ASSUME PassInv
    PROVE  /\ want \in [PodTemplate -> Nat] /\ ready \in [PodTemplate -> Nat]
           /\ pods \in [PodTemplate -> Nat] /\ rsets \subseteq PodTemplate
           /\ SumFunction(want) \in Nat
           /\ dep # None => dep.template \in PodTemplate /\ dep.replicas \in Nat
<1>1. want \in [PodTemplate -> Nat]
  BY DEF PassInv, TypeOK, ClusterTypeOK
<1>2. SumFunction(want) \in Nat
  BY <1>1, FiniteAssumption, SumOfNaturals
<1> QED
  BY <1>1, <1>2, CountsFacts DEF PassInv, TypeOK, ClusterTypeOK, Deployments

LEMMA WantMoves ==
    ASSUME PassInv, PassInv', NEW t \in PodTemplate,
           \A u \in PodTemplate \ {t} : want'[u] = want[u]
    PROVE  SumFunction(want)' = SumFunction(want) - want[t] + want'[t]
<1>1. want \in [PodTemplate -> Int] /\ want' \in [PodTemplate -> Int]
  BY DEF PassInv, TypeOK, ClusterTypeOK
<1> QED
  BY <1>1, FiniteAssumption, SumUpdated

\* The one ReplicaSet that asks for pods.
LEMMA OnlyWant ==
    ASSUME PassInv, NEW t \in PodTemplate, \A u \in PodTemplate \ {t} : want[u] = 0
    PROVE  SumFunction(want) = want[t]
<1> DEFINE none == [u \in PodTemplate |-> 0]
<1>1. /\ none \in [PodTemplate -> Nat] /\ none \in [PodTemplate -> Int]
      /\ want \in [PodTemplate -> Int] /\ want[t] \in Nat
      /\ \A u \in PodTemplate : none[u] = 0
      /\ \A u \in PodTemplate \ {t} : want[u] = none[u]
  BY DEF PassInv, TypeOK, ClusterTypeOK
<1> HIDE DEF none
<1>2. SumFunction(none) = 0
  BY <1>1, FiniteAssumption, SumOfNaturals
<1>3. SumFunction(want) = SumFunction(none) - none[t] + want[t]
  BY <1>1, FiniteAssumption, SumUpdated
<1> QED
  BY <1>1, <1>2, <1>3

\* What is served, as a number and as a set of templates.
CapacityOK ==
    /\ ServingCapacity \in Nat
    /\ \A t \in PodTemplate : Available(t) \in Nat /\ Available(t) <= ServingCapacity
    /\ ServingCapacity > 0 <=> ServingTemplates # {}

LEMMA CapacityTypes == PassInv => CapacityOK
<1> SUFFICES ASSUME PassInv PROVE CapacityOK
  OBVIOUS
<1> DEFINE avail == [t \in PodTemplate |-> Available(t)]
<1>1. \A t \in PodTemplate : Available(t) \in Nat
  BY WorkloadTypes DEF Available, Minimum
<1>2. avail \in [PodTemplate -> Nat] /\ \A t \in PodTemplate : avail[t] = Available(t)
  BY <1>1
<1>3. ServingCapacity = SumFunction(avail)
  BY DEF ServingCapacity
<1> HIDE DEF avail
<1>4. /\ SumFunction(avail) \in Nat
      /\ \A t \in PodTemplate : avail[t] <= SumFunction(avail)
      /\ (\A t \in PodTemplate : avail[t] = 0) => SumFunction(avail) = 0
  BY <1>2, FiniteAssumption, SumOfNaturals
<1>5. ServingCapacity > 0 <=> \E t \in PodTemplate : Available(t) > 0
  BY <1>1, <1>2, <1>3, <1>4
<1> QED
  BY <1>1, <1>2, <1>3, <1>4, <1>5 DEF CapacityOK, ServingTemplates

LEMMA CapacityTypesNext == PassInv' => CapacityOK'
BY CapacityTypes, PTL

LEMMA CapacityMoves ==
    ASSUME PassInv, PassInv', NEW t \in PodTemplate,
           \A u \in PodTemplate \ {t} : ready'[u] = ready[u] /\ want'[u] = want[u]
    PROVE  ServingCapacity' = ServingCapacity - Available(t) + Available(t)'
<1> DEFINE f == [u \in PodTemplate |-> Available(u)]
           g == [u \in PodTemplate |-> Available(u)']
<1>1. \A u \in PodTemplate : Available(u) \in Int /\ Available(u)' \in Int
  <2>1. /\ want \in [PodTemplate -> Nat] /\ ready \in [PodTemplate -> Nat]
        /\ want' \in [PodTemplate -> Nat] /\ ready' \in [PodTemplate -> Nat]
    BY DEF PassInv, TypeOK, ClusterTypeOK
  <2> QED
    BY <2>1 DEF Available, Minimum
<1>2. \A u \in PodTemplate \ {t} : Available(u)' = Available(u)
  BY DEF Available
<1>3. /\ f \in [PodTemplate -> Int] /\ g \in [PodTemplate -> Int]
      /\ \A u \in PodTemplate \ {t} : g[u] = f[u]
      /\ f[t] = Available(t) /\ g[t] = Available(t)'
  BY <1>1, <1>2
<1>4. ServingCapacity = SumFunction(f) /\ ServingCapacity' = SumFunction(g)
  BY DEF ServingCapacity
<1> HIDE DEF f, g
<1>5. SumFunction(g) = SumFunction(f) - f[t] + g[t]
  BY <1>3, FiniteAssumption, SumUpdated
<1> QED
  BY <1>3, <1>4, <1>5

LEMMA SameCapacity ==
    ASSUME UNCHANGED <<ready, want>>
    PROVE  ServingCapacity' = ServingCapacity
BY DEF ServingCapacity, Available

-----------------------------------------------------------------------------
(* What the cluster's controllers leave of the capacity *)

\* A resized ReplicaSet: the sum of all sizes and the capacity move with it.
LEMMA Resized ==
    ASSUME NEW n \in Nat, PassInv, PassInv', RolloutInv(n), NEW t \in rsets, NEW k,
           UNCHANGED <<md, dep, rsets, ready>>, want' = [want EXCEPT ![t] = k]
    PROVE  /\ t \in PodTemplate /\ k \in Nat /\ want'[t] = k
           /\ \A u \in PodTemplate \ {t} : want'[u] = want[u]
           /\ SumFunction(want)' = SumFunction(want) - want[t] + k
           /\ SumFunction(want)' <= n + MaxSurge => RolloutInv(n)'
           /\ ServingCapacity' = ServingCapacity - Available(t) + Available(t)'
           /\ Available(t) = Minimum(ready[t], want[t]) /\ Available(t)' = Minimum(ready[t], k)
<1>1. t \in PodTemplate /\ want \in [PodTemplate -> Nat]
  BY WorkloadTypes
<1>2. want'[t] = k /\ \A u \in PodTemplate \ {t} : want'[u] = want[u]
  BY <1>1
<1>3. k \in Nat
  <2>1. want' \in [PodTemplate -> Nat]
    BY DEF PassInv, TypeOK, ClusterTypeOK
  <2> QED
    BY <1>1, <1>2, <2>1
<1>4. SumFunction(want)' = SumFunction(want) - want[t] + k
  BY <1>1, <1>2, WantMoves
<1>5. ServingCapacity' = ServingCapacity - Available(t) + Available(t)'
  BY <1>1, <1>2, CapacityMoves
<1>6. \A u \in PodTemplate \ rsets : want'[u] = 0
  BY <1>1, <1>2 DEF RolloutInv
<1>7. SumFunction(want)' <= n + MaxSurge => RolloutInv(n)'
  BY <1>6 DEF RolloutInv, Alive
<1> QED
  BY <1>1, <1>2, <1>3, <1>4, <1>5, <1>7 DEF Available

LEMMA ScaleCapacity ==
    ASSUME NEW n \in Nat \ {0}, NEW m \in Nat, m <= n, PassInv, PassInv', SizeInv(n),
           RolloutInv(n), DeploymentController, UNCHANGED md, ServingCapacity >= m
    PROVE  RolloutInv(n)' /\ ServingCapacity' >= m
<1> USE DEF Minimum, MaxSurge, MaxUnavailable
<1>0. /\ want \in [PodTemplate -> Nat] /\ ready \in [PodTemplate -> Nat]
      /\ rsets \subseteq PodTemplate
      /\ SumFunction(want) \in Nat /\ SumFunction(want) <= n + 1
      /\ ServingCapacity \in Nat /\ ServingCapacity' \in Nat
      /\ \A t \in PodTemplate : Available(t) \in Nat /\ Available(t)' <= ServingCapacity'
      /\ dep # None => dep.template \in PodTemplate /\ dep.replicas = n
  BY WorkloadTypes, CapacityTypes, CapacityTypesNext DEF SizeInv, RolloutInv, CapacityOK
<1>1. CASE NewReplicaSet
  <2>1. /\ dep # None /\ rsets' = rsets \cup {dep.template} /\ UNCHANGED <<dep, want, ready>>
    BY <1>1 DEF NewReplicaSet, Rolling, children
  <2>2. RolloutInv(n)'
    BY <2>1 DEF RolloutInv
  <2> QED
    BY <2>1, <2>2, SameCapacity
<1>2. CASE ScaleUpNew
  <2>1. PICK t \in rsets : /\ want' = [want EXCEPT ![t] = want[t] + 1]
                           /\ SumFunction(want) < n + 1
                           /\ UNCHANGED <<dep, rsets, ready>>
    BY <1>0, <1>2 DEF ScaleUpNew, Rolling, children
  <2>2. /\ t \in PodTemplate
        /\ SumFunction(want)' = SumFunction(want) - want[t] + (want[t] + 1)
        /\ SumFunction(want)' <= n + 1 => RolloutInv(n)'
        /\ ServingCapacity' = ServingCapacity - Available(t) + Available(t)'
        /\ Available(t) = Minimum(ready[t], want[t])
        /\ Available(t)' = Minimum(ready[t], want[t] + 1)
    BY <2>1, Resized
  <2> QED
    BY <1>0, <2>1, <2>2
<1>3. CASE ScaleDownNew
  <2>1. PICK t \in rsets : /\ want[t] > n /\ want' = [want EXCEPT ![t] = n]
                           /\ UNCHANGED <<dep, rsets, ready>>
    BY <1>0, <1>3 DEF ScaleDownNew, Rolling, children
  <2>2. /\ t \in PodTemplate
        /\ SumFunction(want)' = SumFunction(want) - want[t] + n
        /\ SumFunction(want)' <= n + 1 => RolloutInv(n)'
        /\ ServingCapacity' = ServingCapacity - Available(t) + Available(t)'
        /\ Available(t) = Minimum(ready[t], want[t])
        /\ Available(t)' = Minimum(ready[t], n)
    BY <2>1, Resized
  <2> QED
    BY <1>0, <2>1, <2>2
<1>4. ASSUME NEW t \in PodTemplate, ScaleDownOld(t)
      PROVE  RolloutInv(n)' /\ ServingCapacity' >= m
  <2>1. /\ t \in rsets /\ want[t] > 0 /\ want' = [want EXCEPT ![t] = want[t] - 1]
        /\ ready[t] < want[t] \/ ServingCapacity > n
        /\ UNCHANGED <<dep, rsets, ready>>
    BY <1>0, <1>4 DEF ScaleDownOld, Rolling, children, ServingCapacity
  <2>2. /\ SumFunction(want)' = SumFunction(want) - want[t] + (want[t] - 1)
        /\ SumFunction(want)' <= n + 1 => RolloutInv(n)'
        /\ ServingCapacity' = ServingCapacity - Available(t) + Available(t)'
        /\ Available(t) = Minimum(ready[t], want[t])
        /\ Available(t)' = Minimum(ready[t], want[t] - 1)
    BY <2>1, Resized
  <2> QED
    BY <1>0, <2>1, <2>2
<1>5. ASSUME NEW t \in PodTemplate, ScalePaused(t)
      PROVE  RolloutInv(n)' /\ ServingCapacity' >= m
  <2>1. dep # None /\ t \in rsets /\ UNCHANGED <<dep, rsets, ready>>
    BY <1>5 DEF ScalePaused, children
  <2>2. CASE {u \in rsets : want[u] > 0} \subseteq {t} /\ want' = [want EXCEPT ![t] = n]
    <3>1. \A u \in PodTemplate \ {t} : want[u] = 0
      BY <1>0, <2>2 DEF RolloutInv
    <3>2. SumFunction(want) = want[t]
      BY <3>1, OnlyWant
    <3>3. /\ SumFunction(want)' = SumFunction(want) - want[t] + n
          /\ SumFunction(want)' <= n + 1 => RolloutInv(n)'
          /\ ServingCapacity' = ServingCapacity - Available(t) + Available(t)'
          /\ Available(t) = Minimum(ready[t], want[t])
          /\ Available(t)' = Minimum(ready[t], n)
      BY <2>1, <2>2, Resized
    <3> QED
      BY <1>0, <3>2, <3>3
  <2>3. CASE /\ SumFunction(want) # n + 1
             /\ want' = [want EXCEPT ![t] = IF SumFunction(want) > n + 1 THEN @ - 1 ELSE @ + 1]
    <3>0. SumFunction(want) < n + 1 /\ ~(SumFunction(want) > n + 1)
      BY <1>0, <2>3
    <3>1. want' = [want EXCEPT ![t] = want[t] + 1]
      BY <2>3, <3>0, Zenon
    <3>2. /\ SumFunction(want)' = SumFunction(want) - want[t] + (want[t] + 1)
          /\ SumFunction(want)' <= n + 1 => RolloutInv(n)'
          /\ ServingCapacity' = ServingCapacity - Available(t) + Available(t)'
          /\ Available(t) = Minimum(ready[t], want[t])
          /\ Available(t)' = Minimum(ready[t], want[t] + 1)
      BY <2>1, <3>1, Resized
    <3> QED
      BY <1>0, <3>0, <3>2
  <2> QED
    BY <1>0, <1>5, <2>1, <2>2, <2>3 DEF ScalePaused
<1> QED
  BY <1>1, <1>2, <1>3, <1>4, <1>5, Zenon DEF DeploymentController

\* Pods come and go without a change of capacity, or add to it.
LEMMA KubeletCapacity ==
    ASSUME NEW n \in Nat \ {0}, NEW m \in Nat, PassInv, PassInv',
           RolloutInv(n), Kubelet, UNCHANGED md, ServingCapacity >= m
    PROVE  RolloutInv(n)' /\ ServingCapacity' >= m
<1> USE DEF Minimum
<1>0. /\ want \in [PodTemplate -> Nat] /\ ready \in [PodTemplate -> Nat]
      /\ pods \in [PodTemplate -> Nat]
      /\ ServingCapacity \in Nat
      /\ \A t \in PodTemplate : Available(t) \in Nat
  BY WorkloadTypes, CapacityTypes DEF CapacityOK
<1>1. UNCHANGED <<dep, rsets, want>>
  BY DEF Kubelet, CreatePod, DeletePod, PodReady, children
<1>2. RolloutInv(n)'
  BY <1>1 DEF RolloutInv, Alive
<1>3. ASSUME NEW t \in PodTemplate, CreatePod(t) PROVE ServingCapacity' >= m
  BY <1>1, <1>3, SameCapacity DEF CreatePod
<1>4. ASSUME NEW t \in PodTemplate, DeletePod(t) PROVE ServingCapacity' >= m
  <2>1. pods[t] > want[t]
    BY <1>0, <1>4 DEF DeletePod, RolloutInv
  <2>2. /\ ready'[t] = Minimum(ready[t], pods[t] - 1)
        /\ \A u \in PodTemplate \ {t} : ready'[u] = ready[u]
    BY <1>0, <1>4 DEF DeletePod
  <2>3. Available(t)' = Available(t)
    BY <1>0, <1>1, <2>1, <2>2 DEF Available
  <2>4. ServingCapacity' = ServingCapacity - Available(t) + Available(t)'
    BY <1>1, <2>2, CapacityMoves
  <2> QED
    BY <1>0, <2>3, <2>4
<1>5. ASSUME NEW t \in PodTemplate, PodReady(t) PROVE ServingCapacity' >= m
  <2>1. ready'[t] = ready[t] + 1 /\ \A u \in PodTemplate \ {t} : ready'[u] = ready[u]
    BY <1>0, <1>5 DEF PodReady
  <2>2. Available(t)' \in Nat /\ Available(t)' >= Available(t)
    BY <1>0, <1>1, <2>1 DEF Available
  <2>3. ServingCapacity' = ServingCapacity - Available(t) + Available(t)'
    BY <1>1, <2>1, CapacityMoves
  <2> QED
    BY <1>0, <2>2, <2>3
<1> QED
  BY <1>2, <1>3, <1>4, <1>5, Zenon DEF Kubelet

-----------------------------------------------------------------------------
(* What is asked for stays of size n, and what is being deleted stays so *)

LEMMA StoredSize ==
    ASSUME NEW n \in Nat \ {0}, NEW s \in ModelDeploymentSpec, Sized(n, s)
    PROVE  Sized(n, Stored(s))
<1>1. Stored(s).replicas = OrDefault(n, 1)
  BY DEF Sized, Stored, ModelDeploymentSpec
<1>2. Stored(s).autoscaling = NoAutoscaling
  BY DEF Sized, Stored, StoredAutoscaling, StoredPolicy, ModelDeploymentSpec
<1> QED
  BY <1>1, <1>2 DEF Sized, OrDefault

\* A write of the object keeps its size, and does not take its deletion back.
LEMMA ObjectSize ==
    ASSUME NEW n \in Nat \ {0}, \A s \in Specs : Sized(n, s),
           PassInv, PlanInv, SizeInv(n), [Next]_vars
    PROVE  /\ md' # None => Sized(n, md'.spec)
           /\ Alive' => Alive
<1>0. /\ md # None => md \in ModelDeployment /\ Sized(n, md.spec)
      /\ pc # "idle" => pmd \in ModelDeployment
  BY DEF PassInv, TypeOK, SizeInv
<1>1. CASE UNCHANGED md
  BY <1>0, <1>1 DEF Alive
<1>2. ASSUME NEW b \in BOOLEAN, Updated([md EXCEPT !.spec = Stored(@), !.fin = b])
      PROVE  /\ md' # None => Sized(n, md'.spec)
             /\ Alive' => Alive
  <2> DEFINE u == Stored(md.spec)
             new == [md EXCEPT !.spec = u, !.fin = b]
  <2>1. md \in ModelDeployment /\ md # None
    BY <1>0, <1>2, ObjectFields DEF Updated, Put, PassInv, TypeOK
  <2>2. Sized(n, u)
    BY <1>0, <2>1, ObjectFields, StoredSize
  <2> HIDE DEF u
  <2>3. new.spec = u /\ new.deleting = md.deleting
    BY <2>1 DEF ModelDeployment
  <2>4. Updated(new)
    BY <1>2 DEF u
  <2> HIDE DEF new
  <2>5. new \in ModelDeployment
    BY <2>4 DEF Updated
  <2>6. md' = None \/ (md'.spec = u /\ md'.deleting = md.deleting)
    BY <2>3, <2>4, <2>5, UpdateLeaves, Unobserved
  <2> QED
    BY <2>1, <2>2, <2>6 DEF Alive
<1>3. pc # "update"
  BY <1>0
  DEF PlanInv, SizeInv, Sized, AfterDecide, AfterPrune, AfterList, AfterJob, AfterClaim, SyncSteps
<1>4. CASE WriteStatus /\ fresh /\ pmd = md /\ md' = [md EXCEPT !.status = NextStatus]
  <2>1. md \in ModelDeployment /\ md # None
    BY <1>0, <1>4, ObjectFields DEF WriteStatus
  <2>2. md'.spec = md.spec /\ md'.deleting = md.deleting
    BY <1>4, <2>1 DEF ModelDeployment
  <2> QED
    BY <1>0, <2>1, <2>2 DEF Alive
<1>5. ASSUME NEW s \in Specs, EditSpec(s)
      PROVE  /\ md' # None => Sized(n, md'.spec)
             /\ Alive' => Alive
  <2>1. md \in ModelDeployment /\ md # None
    BY <1>0, <1>5 DEF EditSpec
  <2>2. md'.spec = s /\ md'.deleting = md.deleting
    BY <1>5, <2>1, SpecsAssumption, UserUpdates, MarksKept DEF EditSpec
  <2> QED
    BY <2>1, <2>2 DEF Alive
<1>6. CASE DeleteMD
  <2>1. md \in ModelDeployment /\ md # None
    BY <1>0, <1>6 DEF DeleteMD
  <2>2. md' = None \/ (md'.spec = md.spec /\ md'.deleting)
    BY <1>6, <2>1, ObjectFields, UserUpdates, MarksKept DEF DeleteMD
  <2> QED
    BY <1>0, <2>1, <2>2 DEF Alive
<1> QED
  BY <1>1, <1>2, <1>3, <1>4, <1>5, <1>6, ObjectWrites, Zenon

\* Who writes the Deployment.
LEMMA DeploymentWrites ==
    ASSUME [Next]_vars
    PROVE  \/ UNCHANGED dep
           \/ ApplyDeployment
           \/ DeleteDeployment
           \/ md = None /\ dep' = None /\ UNCHANGED <<md, workload>>
<1> USE DEF clusterVars, children
<1>1. CASE UNCHANGED vars
  BY <1>1 DEF vars
<1>2. CASE Pass
  BY <1>2
  DEF Pass, StartPass, AddFinalizer, EnsureClaim, ReconcileJob, ListWarmJobs, PruneJob,
      DecideReplicas, WriteReplicas, ApplyService, ReconcilePDB, WriteStatus, DeleteJobs,
      ListPods, ReleaseFinalizer
<1>3. CASE Abort \/ Informers \/ TimerFires \/ User \/ Tick \/ PromptEvent
  BY <1>3
  DEF Abort, Informers, TimerFires, User, Tick, PromptEvent, SyncMD, SyncJob, SyncDep, SyncPods,
      EditSpec, DeleteMD, Drift, ProvisionClaim, LoseClaim
<1>4. CASE Others /\ ~(md = None /\ CollectChildren)
  BY <1>4
  DEF Others, DeploymentController, Kubelet, WarmUp, WarmUpFails, OrphanRuns, Collector,
      NewReplicaSet, ScaleUpNew, ScaleDownNew, ScaleDownOld, ScalePaused, CreatePod, DeletePod,
      PodReady, StartWarmPod, PullWeights, WriteMarker, CompleteJob, FailWarmPod, DeadlineJob,
      OrphanPull, OrphanMark, CollectWarmPod, CollectReplicaSet
<1>5. CASE Others /\ md = None /\ CollectChildren
  BY <1>5 DEF Others, CollectChildren
<1> QED
  BY <1>1, <1>2, <1>3, <1>4, <1>5, Zenon DEF Next

\* Who reads the object: a pass takes the informer's copy, the informer the
\* stored one.
LEMMA CopiesTaken ==
    ASSUME [Next]_vars
    PROVE  /\ mdCache' = mdCache \/ mdCache' = md
           /\ \/ pc' = "idle"
              \/ pmd' = pmd /\ pc # "idle"
              \/ pmd' = mdCache /\ mdCache # None
              \/ pc = "update"
<1> USE DEF informers, locals
<1>1. CASE UNCHANGED vars
  BY <1>1 DEF vars
<1>2. CASE Pass
  <2>1. UNCHANGED mdCache
    BY <1>2
    DEF Pass, StartPass, AddFinalizer, EnsureClaim, ReconcileJob, ListWarmJobs, PruneJob,
        DecideReplicas, WriteReplicas, ApplyDeployment, ApplyService, ReconcilePDB, WriteStatus,
        DeleteDeployment, DeleteJobs, ListPods, ReleaseFinalizer, Caches
  <2>2. CASE StartPass
    BY <2>1, <2>2 DEF StartPass
  <2>3. CASE ~StartPass
    BY <1>2, <2>1, <2>3
    DEF Pass, AddFinalizer, EnsureClaim, ReconcileJob, ListWarmJobs, PruneJob,
        DecideReplicas, WriteReplicas, ApplyDeployment, ApplyService, ReconcilePDB, WriteStatus,
        DeleteDeployment, DeleteJobs, ListPods, ReleaseFinalizer, Goto, Finish, Fail, ForgetPass
  <2> QED
    BY <2>2, <2>3
<1>3. CASE Abort \/ Informers \/ TimerFires \/ User \/ Tick \/ PromptEvent
  BY <1>3
  DEF Abort, Fail, ForgetPass, Informers, TimerFires, User, Tick, PromptEvent, SyncMD, SyncJob,
      SyncDep, SyncPods, EditSpec, DeleteMD, Drift, ProvisionClaim, LoseClaim, Caches
<1>4. CASE Others
  BY <1>4 DEF Others
<1> QED
  BY <1>1, <1>2, <1>3, <1>4 DEF Next

-----------------------------------------------------------------------------
(* The invariant and the theorems *)

LEMMA SizeStep ==
    ASSUME NEW n \in Nat \ {0}, \A s \in Specs : Sized(n, s),
           PassInv, PlanInv, SizeInv(n), [Next]_vars
    PROVE  SizeInv(n)'
<1>1. md' # None => Sized(n, md'.spec)
  BY ObjectSize
<1>2. pc # "update"
  BY DEF PlanInv, SizeInv, Sized, AfterDecide, AfterPrune, AfterList, AfterJob, AfterClaim,
         SyncSteps
<1>3. /\ mdCache' # None => Sized(n, mdCache'.spec)
      /\ pc' # "idle" => Sized(n, pmd'.spec)
  BY <1>2, CopiesTaken DEF SizeInv
<1>4. dep' # None => dep'.replicas = n
  <2>1. CASE ApplyDeployment
    <3>1. pc = "applyDep" /\ dep'.replicas = dec.replicas
      BY <2>1 DEF ApplyDeployment, Deployment
    <3>2. dec.replicas = pmd.spec.replicas /\ pmd.spec.replicas = n
      BY <3>1
      DEF PlanInv, SizeInv, Sized, NoChange, AfterDecide, AfterPrune, AfterList, AfterJob,
          AfterClaim, SyncSteps
    <3> QED
      BY <3>1, <3>2
  <2>2. CASE DeleteDeployment
    BY <2>2 DEF DeleteDeployment
  <2> QED
    BY <2>1, <2>2, DeploymentWrites DEF SizeInv
<1> QED
  BY <1>1, <1>3, <1>4 DEF SizeInv, Sized

LEMMA CapacityStep ==
    ASSUME NEW n \in Nat \ {0}, \A s \in Specs : Sized(n, s), NEW m \in Nat, m <= n,
           PassInv, PassInv', CopiesInv, PlanInv, SizeInv(n), RolloutInv(n), [Next]_vars
    PROVE  /\ RolloutInv(n)'
           /\ ServingCapacity >= m /\ Alive' => ServingCapacity' >= m
<1>0. Alive' => Alive
  BY ObjectSize
<1>8. 0 \in Nat /\ 0 <= n /\ ServingCapacity >= 0
  BY CapacityTypes DEF CapacityOK
<1>1. CASE UNCHANGED workload
  <2>1. UNCHANGED <<rsets, want, ready>>
    BY <1>1 DEF workload
  <2>2. dep' = None /\ Alive' => dep = None
    <3>1. CASE ApplyDeployment
      <4>1. PassInv /\ dec.replicas \in Counts /\ pmd \in ModelDeployment
        BY <3>1 DEF ApplyDeployment, PassInv, TypeOK, DecType
      <4>2. dep' \in Deployments
        BY <3>1, <4>1, ObjectFields, ChildTypes DEF ApplyDeployment, Paused
      <4> QED
        BY <4>2, NoChildAssumption
    <3>2. CASE DeleteDeployment
      BY <3>2 DEF DeleteDeployment, CopiesInv, FinalizeSteps, Alive
    <3>3. CASE md = None /\ UNCHANGED md
      BY <3>3 DEF Alive
    <3> QED
      BY <3>1, <3>2, <3>3, DeploymentWrites
  <2>3. RolloutInv(n)'
    BY <1>0, <2>1, <2>2 DEF RolloutInv
  <2> QED
    BY <2>1, <2>3, SameCapacity
<1>2. CASE DeploymentController /\ UNCHANGED md
  <2>1. RolloutInv(n)'
    BY <1>2, <1>8, ScaleCapacity
  <2> QED
    BY <1>2, <2>1, ScaleCapacity
<1>3. CASE Kubelet /\ UNCHANGED md
  <2>1. RolloutInv(n)'
    BY <1>3, <1>8, KubeletCapacity
  <2> QED
    BY <1>3, <2>1, KubeletCapacity
<1>4. ASSUME NEW t \in PodTemplate, CollectReplicaSet(t), UNCHANGED md
      PROVE  RolloutInv(n)' /\ ~Alive'
  <2>1. /\ dep = None /\ t \in rsets /\ rsets' = rsets \ {t} /\ dep' = None
        /\ want' = [want EXCEPT ![t] = 0] /\ want \in [PodTemplate -> Nat]
    BY <1>4, WorkloadTypes DEF CollectReplicaSet, children
  <2>2. ~Alive'
    BY <1>4, <2>1 DEF RolloutInv, Alive
  <2>3. \A u \in PodTemplate \ rsets' : want'[u] = 0
    BY <2>1 DEF RolloutInv
  <2>4. SumFunction(want)' = SumFunction(want) - want[t] + want'[t]
    BY <2>1, WantMoves
  <2>5. SumFunction(want)' <= n + MaxSurge
    BY <2>1, <2>4, WorkloadTypes DEF RolloutInv, MaxSurge
  <2> QED
    BY <2>2, <2>3, <2>5 DEF RolloutInv
<1>5. CASE Others
  <2>1. CASE \/ WarmUp \/ WarmUpFails \/ OrphanRuns \/ CollectChildren
             \/ (\E o \in orphans : CollectWarmPod(o))
    <3>1. UNCHANGED workload
      BY <2>1
      DEF WarmUp, WarmUpFails, OrphanRuns, CollectChildren, CollectWarmPod, StartWarmPod,
          PullWeights, WriteMarker, CompleteJob, FailWarmPod, DeadlineJob, OrphanPull, OrphanMark
    <3> QED
      BY <1>1, <3>1
  <2>2. UNCHANGED md
    BY <1>5 DEF Others
  <2> QED
    BY <1>2, <1>3, <1>4, <1>5, <2>1, <2>2, Zenon DEF Others, Collector
<1>6. CASE \E c \in Claims : LoseClaim(c)
  BY <1>1, <1>6 DEF LoseClaim
<1> QED
  BY <1>1, <1>5, <1>6, OnlyOthers

CapacityInv(n) == PassInv /\ CopiesInv /\ PlanInv /\ SizeInv(n) /\ RolloutInv(n)

LEMMA CapacityAlways ==
    ASSUME NEW CONSTANT n \in Counts \ {0}, \A s \in Specs : Sized(n, s)
    PROVE  Spec => []CapacityInv(n)
<1>0. n \in Nat \ {0}
  BY CountsFacts
<1>1. Init => SizeInv(n) /\ RolloutInv(n)
  <2> SUFFICES ASSUME Init PROVE SizeInv(n) /\ RolloutInv(n)
    OBVIOUS
  <2>1. PICK s \in Specs : md.spec = s
    BY SpecsAssumption DEF Init
  <2>2. SizeInv(n)
    BY <2>1 DEF Init, ClusterInit, SizeInv
  <2>3. want \in [PodTemplate -> Nat] /\ \A t \in PodTemplate : want[t] = 0
    BY DEF Init, ClusterInit
  <2>4. SumFunction(want) = 0
    BY <2>3, FiniteAssumption, SumOfNaturals
  <2>5. RolloutInv(n)
    BY <1>0, <2>3, <2>4 DEF Init, ClusterInit, RolloutInv, MaxSurge
  <2> QED
    BY <2>2, <2>5
<1>2. PassInv /\ PassInv' /\ CopiesInv /\ PlanInv /\ SizeInv(n) /\ RolloutInv(n) /\ [Next]_vars =>
        SizeInv(n)' /\ RolloutInv(n)'
  <2>1. 0 \in Nat /\ 0 <= n
    BY <1>0
  <2> QED
    BY <1>0, <2>1, SizeStep, CapacityStep
<1>3. /\ LifeInv => CopiesInv
      /\ ConvInv => PlanInv
  BY DEF LifeInv, ConvInv
<1> QED
  BY <1>1, <1>2, <1>3, InitConv, ConvStep, PassAlways, StatusAlways, LifeAlways, PTL
  DEF Spec, CapacityInv

\* maxUnavailable = 0 in render.Deployment and the pause in sync, for a user who
\* switches models, runtimes and claims but keeps the size: once all replicas
\* serve, no edit, no held rollout, no number of ReplicaSets left over from
\* earlier edits, no fault and no late cache takes one away again before the
\* object is deleted.
THEOREM CapacityIsKept ==
    ASSUME NEW CONSTANT n \in Counts \ {0}, \A s \in Specs : Sized(n, s)
    PROVE  Spec => CapacityKept
<1>0. n \in Nat \ {0} /\ n <= n
  BY CountsFacts
<1>1. CapacityInv(n) /\ CapacityInv(n)' /\ [Next]_vars => [KeepsCapacity]_vars
  <2>1. \A k \in {s.replicas : s \in Specs} : k = n
    BY DEF Sized
  <2>2. ASSUME CapacityInv(n), CapacityInv(n)', [Next]_vars
        PROVE  ServingCapacity >= n /\ md' # None /\ ~md'.deleting => ServingCapacity' >= n
    BY <1>0, <2>2, CapacityStep DEF Alive, CapacityInv
  <2> QED
    BY <2>1, <2>2 DEF KeepsCapacity
<1>2. Spec => []CapacityInv(n)
  BY CapacityAlways
<1> QED
  BY <1>1, <1>2, PTL DEF Spec, CapacityKept

\* The whole service, KeepsServing included: whatever the user switches to, once
\* something is served something stays served until the object is deleted.
THEOREM ImplementsService ==
    ASSUME NEW CONSTANT n \in Counts \ {0}, \A s \in Specs : Sized(n, s),
           NEW CONSTANT v, \A s \in Specs : HasCache(s) => PVCName(s) = v, MaxLosses = 0
    PROVE  Spec => ImplementsModelService
<1>0. n \in Nat \ {0} /\ 1 \in Nat /\ 1 <= n
  BY CountsFacts
<1>1. CapacityInv(n) /\ CapacityInv(n)' /\ [Next]_vars =>
        [ServingTemplates # {} /\ AskedTemplate' # None =>
           ServingTemplates' # {}]_(Service!serviceVars)
  <2> SUFFICES ASSUME CapacityInv(n), CapacityInv(n)', [Next]_vars,
                      ServingTemplates # {}, AskedTemplate' # None
               PROVE  ServingTemplates' # {}
    OBVIOUS
  <2> USE DEF CapacityInv
  <2>1. Alive'
    BY DEF AskedTemplate
  <2>2. ServingCapacity \in Nat /\ ServingCapacity > 0
    BY CapacityTypes DEF CapacityOK
  <2>3. ServingCapacity' >= 1
    BY <1>0, <2>1, <2>2, CapacityStep
  <2> QED
    BY <2>3, CapacityTypesNext DEF CapacityOK
<1>2. Spec => []CapacityInv(n)
  BY CapacityAlways
<1>3. Spec => Service!KeepsServing
  BY <1>1, <1>2, PTL DEF Spec, Service!KeepsServing
<1>4. Spec => Service!GatedSpec
  BY ImplementsGatedService
<1> QED
  BY <1>3, <1>4, PTL DEF ImplementsModelService, Service!Spec
=============================================================================
