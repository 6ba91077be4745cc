----------------------------- MODULE Reconciler -----------------------------
(***************************************************************************)
(* The operator (internal/controller) at work on one ModelDeployment, in   *)
(* the cluster of module Cluster and in the hands of a user.               *)
(*                                                                         *)
(* A pass of Reconcile is a sequence of steps, one per call to the API     *)
(* server; everything else in the cluster may move between two of them.    *)
(* pc names the next call.  Reads go through informer caches (mdCache,     *)
(* jobsCache, depCache, podsCache) that the watches bring up to date at    *)
(* any later time.                                                         *)
(*                                                                         *)
(* resourceVersion: an Update succeeds iff the version it carries is the   *)
(* current one.  fresh says that of the object the pass holds, mdFresh of  *)
(* the object in the informer cache.                                       *)
(***************************************************************************)
EXTENDS Cluster

CONSTANTS
    Specs,      \* the specs the user writes
    FirstSpecs, \* those the object may be created with
    Depths,     \* the queue depths the metrics adapter may report
    MaxEdits, MaxDeletes, MaxDrifts, MaxLosses, MaxFaults, MaxTime,  \* bounds of the model
    WarmFails,  \* whether a warm-up may fail
    Prompt      \* the informer caches that lag behind nothing

ASSUME SpecsAssumption == Specs \subseteq ModelDeploymentSpec /\ FirstSpecs \subseteq Specs
ASSUME DepthsAssumption == Depths \subseteq Counts
ASSUME BoundsAssumption ==
    /\ {MaxEdits, MaxDeletes, MaxDrifts, MaxLosses, MaxFaults, MaxTime} \subseteq Nat
    /\ WarmFails \in BOOLEAN
    /\ Prompt \subseteq {"md", "jobs", "dep", "pods"}

VARIABLES
    md,         \* the ModelDeployment in the API server, None while absent
    mdCache, mdFresh, jobsCache, depCache, podsCache,   \* informer caches
    queued,     \* the work queue holds the object
    timer,      \* a RequeueAfter is pending
    pc,         \* the next call of the running pass
    pmd, fresh, \* md of the pass and whether its resourceVersion is current
    cache,      \* cacheState
    stale,      \* warm-up Jobs still to prune
    dec,        \* the scaling outcome
    clock,      \* the time, in seconds from 1
    edits, deletes, drifts, losses, faults,  \* how much of each bound is used
    lastCommit  \* decision time of the last replica count the operator wrote

informers == <<mdCache, mdFresh, jobsCache, depCache, podsCache>>
locals == <<pmd, fresh, cache, stale, dec>>
budgets == <<edits, deletes, drifts, losses, faults>>
vars == <<clusterVars, md, informers, queued, timer, pc, locals, clock, budgets, lastCommit>>

DecType == [replicas : Counts, lastScale : Nat, depth : Nat, scaleErr : BOOLEAN]
NoDecision == [replicas |-> 0, lastScale |-> 0, depth |-> 0, scaleErr |-> FALSE]

DepView == [obj : Deployments \cup {None}, replicas : Nat, readyReplicas : Nat]

\* What the Deployment's watch reports: the object with its status.
DepNow == IF dep = None
          THEN [obj |-> None, replicas |-> 0, readyReplicas |-> 0]
          ELSE [obj |-> dep, replicas |-> SumFunction(pods),
                readyReplicas |-> SumFunction(ready)]

SyncSteps == {"claim", "job", "list", "prune", "decide", "update", "applyDep",
              "applySvc", "pdb", "status"}
FinalizeSteps == {"delDep", "delJobs", "listPods", "release"}
Steps == {"idle", "addFin"} \cup SyncSteps \cup FinalizeSteps

TypeOK ==
    /\ ClusterTypeOK
    /\ md \in ModelDeployment \cup {None}
    /\ mdCache \in ModelDeployment \cup {None}
    /\ jobsCache \in [Keys -> Jobs \cup {None}]
    /\ depCache \in DepView
    /\ mdFresh \in BOOLEAN /\ podsCache \in BOOLEAN
    /\ queued \in BOOLEAN /\ timer \in BOOLEAN /\ fresh \in BOOLEAN
    /\ pc \in Steps
    /\ pmd \in ModelDeployment \cup {None}
    /\ pc # "idle" => pmd # None
    /\ cache \in CacheState
    /\ stale \subseteq Keys
    /\ dec \in DecType
    /\ clock \in Nat /\ lastCommit \in Nat
    /\ edits \in Nat /\ deletes \in Nat /\ drifts \in Nat /\ losses \in Nat /\ faults \in Nat

Init ==
    /\ ClusterInit
    /\ \E s \in FirstSpecs :
         md = [spec |-> s, fin |-> FALSE, deleting |-> FALSE, status |-> EmptyStatus]
    /\ mdCache = None
    /\ mdFresh = FALSE
    /\ jobsCache = jobs
    /\ depCache = DepNow
    /\ podsCache = FALSE
    /\ queued = FALSE
    /\ timer = FALSE
    /\ pc = "idle"
    /\ pmd = None
    /\ fresh = FALSE
    /\ cache = DisabledCache
    /\ stale = {}
    /\ dec = NoDecision
    /\ clock = 1
    /\ edits = 0
    /\ deletes = 0
    /\ drifts = 0
    /\ losses = 0
    /\ faults = 0
    /\ lastCommit = 0

-----------------------------------------------------------------------------
(* Ends of a pass *)

ForgetPass ==
    /\ pc' = "idle"
    /\ pmd' = None
    /\ fresh' = FALSE
    /\ cache' = DisabledCache
    /\ stale' = {}
    /\ dec' = NoDecision

\* Mutant: the error is swallowed.
FailQuietly ==
    /\ ForgetPass
    /\ UNCHANGED <<queued, timer>>

\* Reconcile returns an error: the work queue takes the object back.
Fail ==
    /\ ForgetPass
    /\ queued' = TRUE
    /\ UNCHANGED timer

\* Reconcile returns without error, with or without RequeueAfter.
Finish(requeueAfter) ==
    /\ ForgetPass
    /\ timer' = (timer \/ requeueAfter)
    /\ UNCHANGED queued

Goto(step) == pc' = step /\ UNCHANGED <<queued, timer>>

\* Mutant: the object is written without a resourceVersion.
PutUnchecked(new) ==
    /\ md' = IF new.deleting /\ ~new.fin THEN None
             ELSE IF new.spec = md.spec THEN new
             ELSE [new EXCEPT !.status.observed = FALSE]
    /\ mdFresh' = (mdFresh /\ md' = md)

\* A full Update of the object the pass holds.  An Update that changes nothing
\* keeps the resourceVersion, one that changes the spec bumps the generation.
Put(new) ==
    /\ fresh
    /\ md' = IF new.deleting /\ ~new.fin THEN None
             ELSE IF new.spec = md.spec THEN new
             ELSE [new EXCEPT !.status.observed = FALSE]
    /\ mdFresh' = (mdFresh /\ md' = md)

Environment == <<clock, budgets>>
Caches == <<mdCache, jobsCache, depCache, podsCache>>

-----------------------------------------------------------------------------
(* Reconcile *)

\* The Get that opens a pass, and the branch it decides.
StartPass ==
    /\ pc = "idle"
    /\ queued
    /\ queued' = FALSE
    /\ IF mdCache = None \/ (mdCache.deleting /\ ~mdCache.fin)
       THEN UNCHANGED <<pc, locals>>
       ELSE /\ pc' = IF mdCache.deleting THEN "delDep"
                     ELSE IF ~mdCache.fin THEN "addFin"
                     ELSE IF HasCache(mdCache.spec) THEN "claim"
                     ELSE "decide"
            /\ pmd' = mdCache
            /\ fresh' = mdFresh
            /\ UNCHANGED <<cache, stale, dec>>
    /\ UNCHANGED <<clusterVars, md, informers, timer, Environment, lastCommit>>

AddFinalizer ==
    /\ pc = "addFin"
    /\ \/ /\ Put([pmd EXCEPT !.spec = Stored(@), !.fin = TRUE])
          /\ Finish(FALSE)
       \/ /\ ~fresh
          /\ Fail
          /\ UNCHANGED <<md, mdFresh>>
    /\ UNCHANGED <<clusterVars, Caches, Environment, lastCommit>>

-----------------------------------------------------------------------------
(* reconcileWeightCache *)

EnsureClaim ==
    /\ pc = "claim"
    /\ \/ /\ PVCName(pmd.spec) \in pvcs
          /\ Goto("job")
          /\ UNCHANGED <<pvcs, locals>>
       \/ /\ PVCName(pmd.spec) \notin pvcs
          /\ OwnsPVC(pmd.spec)
          /\ pvcs' = pvcs \cup {PVCName(pmd.spec)}
          /\ Goto("job")
          /\ UNCHANGED locals
       \/ /\ PVCName(pmd.spec) \notin pvcs
          /\ ~OwnsPVC(pmd.spec)
          /\ Fail
          /\ UNCHANGED pvcs
    /\ UNCHANGED <<dep, jobs, svc, pdb, workload, warmPod, orphans, volume, md, informers,
                   Environment, lastCommit>>

\* Mutant: a Job that has not failed is taken for one that succeeded.
JobStateUnlessFailed(job) == [enabled |-> TRUE, warm |-> ~job.failed, failed |-> job.failed]

\* What the pass learns from the Job of its key.
JobState(job) == [enabled |-> TRUE, warm |-> job.succeeded, failed |-> job.failed]

\* Get the Job of the current key; create it if the cache does not know it
\* (AlreadyExists counts as created).
ReconcileJob ==
    LET key == CacheKey(pmd.spec)
        seen == jobsCache[key]
    IN  /\ pc = "job"
        /\ \/ /\ seen = None
              /\ jobs' = IF jobs[key] # None THEN jobs
                         ELSE [jobs EXCEPT ![key] = WarmJob(pmd.spec)]
              /\ cache' = ColdCache
           \/ /\ seen # None
              /\ cache' = JobState(seen)
              /\ UNCHANGED jobs
        /\ Goto("list")
        /\ UNCHANGED <<dep, pvcs, svc, pdb, workload, warmPod, orphans, volume, md, informers,
                       pmd, fresh, stale, dec, Environment, lastCommit>>

\* pruneStaleWarmJobs: list, then delete one Job per call.
ListWarmJobs ==
    LET others == {k \in Keys : jobsCache[k] # None} \ {CacheKey(pmd.spec)}
    IN  /\ pc = "list"
        /\ stale' = others
        /\ Goto(IF others = {} THEN "decide" ELSE "prune")
        /\ UNCHANGED <<clusterVars, md, informers, pmd, fresh, cache, dec, Environment, lastCommit>>

PruneJob(k) ==
    /\ pc = "prune"
    /\ k \in stale
    /\ stale' = stale \ {k}
    /\ DeleteJob(k)
    /\ Goto(IF stale = {k} THEN "decide" ELSE "prune")
    /\ UNCHANGED <<dep, pvcs, svc, pdb, workload, volume, md, informers,
                   pmd, fresh, cache, dec, Environment, lastCommit>>

-----------------------------------------------------------------------------
(* decideReplicas and the write of its decision *)

ScalingState(depth) ==
    [CurrentReplicas |-> pmd.spec.replicas, QueueDepth |-> depth,
     WeightsCached |-> cache.warm \/ ~HasCache(pmd.spec),
     LastScale |-> pmd.status.lastScaleTime, Now |-> clock]

\* What the metrics adapter may answer: no pod, no metric.
DepthReadings ==
    {Unavailable} \cup (IF ServingPodsExist THEN Depths ELSE {0})

\* The scaling outcome of the pass for a reading of the queue.
Outcome(reading) ==
    IF pmd.spec.autoscaling = NoAutoscaling \/ reading = Unavailable
    THEN [replicas |-> pmd.spec.replicas, lastScale |-> 0,
          depth |-> pmd.status.observedQueueDepth,
          scaleErr |-> pmd.spec.autoscaling # NoAutoscaling]
    ELSE LET d == Decide(pmd.spec.autoscaling, ScalingState(reading))
         IN  [replicas |-> d.Replicas, lastScale |-> IF d.Changed THEN clock ELSE 0,
              depth |-> reading, scaleErr |-> FALSE]

DecideReplicas ==
    /\ pc = "decide"
    /\ \E reading \in IF pmd.spec.autoscaling = NoAutoscaling THEN {Unavailable}
                      ELSE DepthReadings :
         /\ dec' = Outcome(reading)
         /\ Goto(IF dec'.replicas = pmd.spec.replicas THEN "applyDep" ELSE "update")
    /\ UNCHANGED <<clusterVars, md, informers, pmd, fresh, cache, stale, Environment, lastCommit>>

\* The Update decodes the stored object back into the one the pass holds.
WriteReplicas ==
    /\ pc = "update"
    /\ \/ /\ Put([pmd EXCEPT !.spec = Stored([@ EXCEPT !.replicas = dec.replicas])])
          /\ pmd' = md'
          /\ lastCommit' = dec.lastScale
          /\ Goto("applyDep")
          /\ UNCHANGED <<fresh, cache, stale, dec>>
       \/ /\ ~fresh
          /\ Fail
          /\ UNCHANGED <<md, mdFresh, lastCommit>>
    /\ UNCHANGED <<clusterVars, Caches, Environment>>

-----------------------------------------------------------------------------
(* Children and status *)

\* Mutant: only the first rollout is held back.
PausedAtFirst == HasCache(pmd.spec) /\ ~cache.warm /\ depCache.obj = None

Paused == HasCache(pmd.spec) /\ ~cache.warm

ApplyDeployment ==
    /\ pc = "applyDep"
    /\ dep' = Deployment(pmd.spec, CacheKey(pmd.spec), dec.replicas, Paused)
    /\ Goto("applySvc")
    /\ UNCHANGED <<jobs, pvcs, svc, pdb, workload, warmPod, orphans, volume, md, informers, locals,
                   Environment, lastCommit>>

ApplyService ==
    /\ pc = "applySvc"
    /\ svc' = TRUE
    /\ Goto("pdb")
    /\ UNCHANGED <<dep, jobs, pvcs, pdb, workload, warmPod, orphans, volume, md, informers, locals,
                   Environment, lastCommit>>

\* Mutant: a budget that is no longer wanted stays.
KeepPDB ==
    /\ pc = "pdb"
    /\ pdb' = OrDefault(PDBMinAvailable(pmd.spec, dec.replicas), pdb)
    /\ Goto("status")
    /\ UNCHANGED <<dep, jobs, pvcs, svc, workload, warmPod, orphans, volume, md, informers, locals,
                   Environment, lastCommit>>

ReconcilePDB ==
    /\ pc = "pdb"
    /\ pdb' = PDBMinAvailable(pmd.spec, dec.replicas)
    /\ Goto("status")
    /\ UNCHANGED <<dep, jobs, pvcs, svc, workload, warmPod, orphans, volume, md, informers, locals,
                   Environment, lastCommit>>

\* observeDeployment reads the cache, writeStatus writes what differs.
ObservedWorkload ==
    [exists |-> depCache.obj # None, replicas |-> depCache.replicas,
     readyReplicas |-> depCache.readyReplicas]

NextStatus ==
    BuildStatus(pmd.status, pmd.spec, CacheKey(pmd.spec), cache, ObservedWorkload, Paused, dec)

\* Mutant: every pass asks to be called again.
RequeueAlways == TRUE

\* resyncInterval: only an autoscaled object is polled.
Requeue == pmd.spec.autoscaling # NoAutoscaling

\* Mutant: the status is patched without a resourceVersion.
WriteStatusUnchecked ==
    /\ pc = "status"
    /\ md' = [md EXCEPT !.status = NextStatus]
    /\ mdFresh' = FALSE
    /\ Finish(Requeue)
    /\ UNCHANGED <<clusterVars, Caches, Environment, lastCommit>>

WriteStatus ==
    /\ pc = "status"
    /\ \/ /\ NextStatus = pmd.status
          /\ Finish(Requeue)
          /\ UNCHANGED <<md, mdFresh>>
       \/ /\ NextStatus # pmd.status
          /\ fresh
          /\ md' = [md EXCEPT !.status = NextStatus]
          /\ mdFresh' = FALSE
          /\ Finish(Requeue)
       \/ /\ NextStatus # pmd.status
          /\ ~fresh
          /\ Fail
          /\ UNCHANGED <<md, mdFresh>>
    /\ UNCHANGED <<clusterVars, Caches, Environment, lastCommit>>

-----------------------------------------------------------------------------
(* finalize *)

DeleteDeployment ==
    /\ pc = "delDep"
    /\ dep' = None
    /\ Goto("delJobs")
    /\ UNCHANGED <<jobs, pvcs, svc, pdb, workload, warmPod, orphans, volume, md, informers, locals,
                   Environment, lastCommit>>

\* Mutant: the Jobs are listed first, from the informer's cache.
DeleteListedJobs ==
    LET listed == {k \in Keys : jobsCache[k] # None}
    IN  /\ pc = "delJobs"
        /\ jobs' = [k \in Keys |-> IF k \in listed THEN None ELSE jobs[k]]
        /\ warmPod' = [k \in Keys |-> IF k \in listed THEN "none" ELSE warmPod[k]]
        /\ orphans' = orphans \cup UNION {Orphan(k) : k \in listed}
        /\ Goto("listPods")
        /\ UNCHANGED <<dep, pvcs, svc, pdb, workload, volume, md, informers, locals,
                       Environment, lastCommit>>

DeleteJobs ==
    /\ pc = "delJobs"
    /\ DeleteAllJobs
    /\ Goto("listPods")
    /\ UNCHANGED <<dep, pvcs, svc, pdb, workload, volume, md, informers, locals,
                   Environment, lastCommit>>

\* Mutant: no RequeueAfter while pods are left.
ListPodsOnce ==
    /\ pc = "listPods"
    /\ \/ /\ podsCache
          /\ Finish(FALSE)
       \/ /\ ~podsCache
          /\ Goto("release")
          /\ UNCHANGED locals
    /\ UNCHANGED <<clusterVars, md, informers, Environment, lastCommit>>

ListPods ==
    /\ pc = "listPods"
    /\ \/ /\ podsCache
          /\ Finish(TRUE)
       \/ /\ ~podsCache
          /\ Goto("release")
          /\ UNCHANGED locals
    /\ UNCHANGED <<clusterVars, md, informers, Environment, lastCommit>>

ReleaseFinalizer ==
    /\ pc = "release"
    /\ \/ /\ Put([pmd EXCEPT !.spec = Stored(@), !.fin = FALSE])
          /\ Finish(FALSE)
       \/ /\ ~fresh
          /\ Fail
          /\ UNCHANGED <<md, mdFresh>>
    /\ UNCHANGED <<clusterVars, Caches, Environment, lastCommit>>

Pass ==
    \/ StartPass \/ AddFinalizer
    \/ EnsureClaim \/ ReconcileJob \/ ListWarmJobs \/ (\E k \in Keys : PruneJob(k))
    \/ DecideReplicas \/ WriteReplicas
    \/ ApplyDeployment \/ ApplyService \/ ReconcilePDB \/ WriteStatus
    \/ DeleteDeployment \/ DeleteJobs \/ ListPods \/ ReleaseFinalizer

\* A call fails, its answer is lost, or the operator dies and is restarted:
\* the pass is over, whatever it wrote stays, the object is reconciled again.
Abort ==
    /\ pc # "idle"
    /\ faults < MaxFaults
    /\ faults' = faults + 1
    /\ Fail
    /\ UNCHANGED <<clusterVars, md, informers, clock, edits, deletes, drifts, losses, lastCommit>>

-----------------------------------------------------------------------------
(* Watches.  For and Owns queue the object on every event they deliver;    *)
(* pods are not watched by the controller.                                 *)

SyncMD ==
    /\ ~mdFresh
    /\ mdCache' = md
    /\ mdFresh' = TRUE
    /\ queued' = TRUE
    /\ UNCHANGED <<clusterVars, md, jobsCache, depCache, podsCache, timer, pc, locals,
                   Environment, lastCommit>>

\* Mutant: the controller does not own Jobs.
SyncJobUnwatched(k) ==
    /\ jobsCache[k] # jobs[k]
    /\ jobsCache' = [jobsCache EXCEPT ![k] = jobs[k]]
    /\ UNCHANGED <<clusterVars, md, mdCache, mdFresh, depCache, podsCache, queued, timer, pc,
                   locals, Environment, lastCommit>>

SyncJob(k) ==
    /\ jobsCache[k] # jobs[k]
    /\ jobsCache' = [jobsCache EXCEPT ![k] = jobs[k]]
    /\ queued' = TRUE
    /\ UNCHANGED <<clusterVars, md, mdCache, mdFresh, depCache, podsCache, timer, pc, locals,
                   Environment, lastCommit>>

SyncDep ==
    /\ depCache # DepNow
    /\ depCache' = DepNow
    /\ queued' = TRUE
    /\ UNCHANGED <<clusterVars, md, mdCache, mdFresh, jobsCache, podsCache, timer, pc, locals,
                   Environment, lastCommit>>

SyncPods ==
    /\ podsCache # PodsExist
    /\ podsCache' = PodsExist
    /\ UNCHANGED <<clusterVars, md, mdCache, mdFresh, jobsCache, depCache, queued, timer, pc,
                   locals, Environment, lastCommit>>

TimerFires ==
    /\ timer
    /\ timer' = FALSE
    /\ queued' = TRUE
    /\ UNCHANGED <<clusterVars, md, informers, pc, locals, Environment, lastCommit>>

-----------------------------------------------------------------------------
(* The user and time *)

\* kubectl apply, edit or scale.
EditSpec(s) ==
    /\ md # None
    /\ s # md.spec
    /\ edits < MaxEdits
    /\ edits' = edits + 1
    /\ md' = [md EXCEPT !.spec = s, !.status.observed = FALSE]
    /\ mdFresh' = FALSE
    /\ fresh' = FALSE
    /\ UNCHANGED <<clusterVars, Caches, queued, timer, pc, pmd, cache, stale, dec,
                   clock, deletes, drifts, losses, faults, lastCommit>>

DeleteMD ==
    /\ md # None
    /\ ~md.deleting
    /\ deletes < MaxDeletes
    /\ deletes' = deletes + 1
    /\ md' = IF md.fin THEN [md EXCEPT !.deleting = TRUE, !.status.observed = FALSE] ELSE None
    /\ mdFresh' = FALSE
    /\ fresh' = FALSE
    /\ UNCHANGED <<clusterVars, Caches, queued, timer, pc, pmd, cache, stale, dec,
                   clock, edits, drifts, losses, faults, lastCommit>>

\* Somebody deletes the Service and the budget; Owns reports it.
Drift ==
    /\ svc \/ pdb > 0
    /\ drifts < MaxDrifts
    /\ drifts' = drifts + 1
    /\ svc' = FALSE
    /\ pdb' = 0
    /\ queued' = TRUE
    /\ UNCHANGED <<dep, jobs, pvcs, workload, warmPod, orphans, volume, md, informers, timer,
                   pc, locals, clock, edits, deletes, losses, faults, lastCommit>>

\* A claim the operator does not own comes into being; nothing reports it.
ProvisionClaim(c) ==
    /\ c \in SharedClaims \ pvcs
    /\ pvcs' = pvcs \cup {c}
    /\ UNCHANGED <<dep, jobs, svc, pdb, workload, warmPod, orphans, volume, md, informers,
                   queued, timer, pc, locals, Environment, lastCommit>>

\* Somebody deletes a claim that no pod mounts, and with it what it holds;
\* nothing reports it.
LoseClaim(c) ==
    /\ c \in pvcs
    /\ Unmounted(c)
    /\ losses < MaxLosses
    /\ losses' = losses + 1
    /\ pvcs' = pvcs \ {c}
    /\ weights' = {w \in weights : w[1] # c}
    /\ marker' = {w \in marker : w[1] # c}
    /\ UNCHANGED <<dep, jobs, svc, pdb, workload, warmPod, orphans, md, informers, queued, timer,
                   pc, locals, clock, edits, deletes, drifts, faults, lastCommit>>

Tick ==
    /\ clock < MaxTime
    /\ clock' = clock + 1
    /\ UNCHANGED <<clusterVars, md, informers, queued, timer, pc, locals, budgets, lastCommit>>

Informers == SyncMD \/ (\E k \in Keys : SyncJob(k)) \/ SyncDep \/ SyncPods

User ==
    \/ \E s \in Specs : EditSpec(s)
    \/ DeleteMD
    \/ Drift
    \/ \E c \in SharedClaims : ProvisionClaim(c)
    \/ \E c \in Claims : LoseClaim(c)

Others ==
    /\ \/ DeploymentController
       \/ Kubelet
       \/ WarmUp
       \/ WarmFails /\ WarmUpFails
       \/ OrphanRuns
       \/ Collector
       \/ md = None /\ CollectChildren
    /\ UNCHANGED <<md, informers, queued, timer, pc, locals, Environment, lastCommit>>

\* A prompt cache is brought up to date before anything else happens.
PromptEvent ==
    \/ "md" \in Prompt /\ SyncMD
    \/ "jobs" \in Prompt /\ \E k \in Keys : SyncJob(k)
    \/ "dep" \in Prompt /\ SyncDep
    \/ "pods" \in Prompt /\ SyncPods

UpToDate ==
    /\ "md" \in Prompt => mdFresh
    /\ "jobs" \in Prompt => jobsCache = jobs
    /\ "dep" \in Prompt => depCache = DepNow
    /\ "pods" \in Prompt => podsCache = PodsExist

Next ==
    \/ PromptEvent
    \/ UpToDate /\ (Pass \/ Abort \/ Informers \/ TimerFires \/ User \/ Tick \/ Others)

Spec == Init /\ [][Next]_vars

-----------------------------------------------------------------------------
(* Fairness: the work queue hands out what it holds, watches deliver, timers *)
(* fire, and the cluster's controllers keep working.  Nothing is assumed of  *)
(* the user, of faults, of failing downloads or of pods that outlive their   *)
(* Job.                                                                      *)

Rest == <<md, informers, queued, timer, pc, locals, Environment, lastCommit>>

Fairness ==
    /\ WF_vars(Pass)
    /\ WF_vars(SyncMD)
    /\ \A k \in Keys : WF_vars(SyncJob(k))
    /\ WF_vars(SyncDep)
    /\ WF_vars(SyncPods)
    /\ WF_vars(TimerFires)
    /\ WF_vars(Tick)
    /\ WF_vars(DeploymentController /\ UNCHANGED Rest)
    /\ WF_vars(Kubelet /\ UNCHANGED Rest)
    /\ \A k \in Keys : WF_vars((StartWarmPod(k) \/ PullWeights(k) \/ WriteMarker(k)
                                 \/ CompleteJob(k)) /\ UNCHANGED Rest)
    /\ WF_vars(Collector /\ UNCHANGED Rest)
    /\ WF_vars(md = None /\ CollectChildren /\ UNCHANGED Rest)

FairSpec == Spec /\ Fairness

-----------------------------------------------------------------------------
(* Safety *)

\* The pods that take traffic and that their ReplicaSets keep.  One that is
\* about to be deleted may still become ready for a moment.
ServingCapacity == SumFunction([t \in PodTemplate |-> Available(t)])

\* The gate of sync and render.Deployment: a pod, or a ReplicaSet that could
\* create one, exists only for a template whose weights are complete on the
\* claim it mounts, or that mounts no claim.
ServeOnlyCachedWeights ==
    \A t \in PodTemplate : t \in rsets \/ pods[t] > 0 => Servable(t)

\* Reconcile puts the finalizer in place before the first child exists, and
\* finalize removes the Deployment and every warm-up Job before it releases
\* it: a live object with children carries the finalizer, and an object that
\* is gone has left no Deployment and no Job behind.
NoLeftovers ==
    LET workloads == dep # None \/ \E k \in Keys : jobs[k] # None
    IN  IF md = None THEN ~workloads
        ELSE workloads \/ svc \/ pdb > 0 \/ OwnClaim \in pvcs => md.fin

\* A status whose observedGeneration is current describes the current spec:
\* writeStatus never labels what a pass learned from an older spec with the
\* newer generation.
StatusMatchesSpec ==
    md # None /\ md.status.observed =>
        /\ md.status.cacheKey = CacheKey(md.spec)
        /\ md.status.weightsCached = "CacheDisabled" <=> ~HasCache(md.spec)
        /\ md.status.ready = "ScaledToZero" <=> md.spec.replicas = 0

\* WeightsCached=True is never reported for weights that are not there.
CachedIsOnDisk ==
    md # None /\ md.status.observed /\ md.status.weightsCached = "Cached" =>
        <<PVCName(md.spec), CacheKey(md.spec)>> \in marker

\* statusBuilder's conditions do not contradict each other: Ready=True is not
\* reported beside a warm-up that is still running.
ReadyNotWhileWarming ==
    md # None /\ md.status.ready = "ReplicasReady" => md.status.weightsCached # "Warming"

\* The operator's full Updates (finalizer, replica decision) change nothing of
\* the spec but the replica count: no edit of the user is overwritten.
OperatorWritesOnlyReplicas ==
    [][md # None /\ md' # None /\ edits' = edits =>
         md'.spec = [md.spec EXCEPT !.replicas = md'.spec.replicas]]_vars

\* finalize releases the finalizer, and with it the cache claim, only once no
\* pod is left: a claim is never taken from under a pod that mounts it.
ClaimOutlivesPods ==
    \A t \in PodTemplate : pods[t] > 0 /\ t.claim = OwnClaim => OwnClaim \in pvcs

\* A step that gives up no replica of a full size, unless the object goes.
KeepsCapacity ==
    \A n \in {s.replicas : s \in Specs} :
      /\ \A s \in Specs : n <= s.replicas
      /\ ServingCapacity >= n
      /\ md' # None /\ ~md'.deleting
      => ServingCapacity' >= n

\* maxUnavailable = 0 in render.Deployment and the pause in sync: once the
\* least capacity any spec asks for is serving, neither a model switch nor a
\* held rollout takes it away again.  (Teardown does.)
CapacityKept == [][KeepsCapacity]_vars

\* Nothing is left to do: no pass runs or is due, every cache is current.
Quiescent ==
    /\ pc = "idle" /\ ~queued /\ ~timer
    /\ mdFresh /\ jobsCache = jobs /\ depCache = DepNow

\* The reconciler is level-triggered: whatever interleaving of edits, faults
\* and late events led there, once nothing is left to do the children and the
\* status are the ones the current spec calls for, and no deletion is stuck.
QuiescentIsConverged ==
    Quiescent /\ md # None =>
        LET key == CacheKey(md.spec)
            warm == jobs[key] # None /\ jobs[key].succeeded
            failed == jobs[key] # None /\ jobs[key].failed
            held == HasCache(md.spec) /\ ~warm
            c == IF HasCache(md.spec)
                 THEN [enabled |-> TRUE, warm |-> warm, failed |-> failed]
                 ELSE DisabledCache
        IN  /\ md.fin /\ ~md.deleting
            /\ HasCache(md.spec) => {k \in Keys : jobs[k] # None} = {key}
            /\ HasCache(md.spec) /\ losses = 0 => PVCName(md.spec) \in pvcs
            /\ dep = Deployment(md.spec, key, md.spec.replicas, held)
            /\ svc
            /\ pdb = PDBMinAvailable(md.spec, md.spec.replicas)
            /\ md.status = BuildStatus(md.status, md.spec, key, c, ObservedWorkload, held,
                                      [NoDecision EXCEPT !.depth = md.status.observedQueueDepth])

-----------------------------------------------------------------------------
(* Scaling *)

\* The window a change from one replica count to another has to wait for;
\* leaving the bounds of the policy waits for none.
Window(p, from, to) ==
    IF from < p.MinReplicas \/ from > p.MaxReplicas THEN 0
    ELSE IF to > from THEN p.ScaleUpAfter ELSE p.ScaleDownAfter

\* decideReplicas, lastScaleTime and the conflict check of Update together:
\* two replica counts the operator writes are decided at least the window of
\* the later one apart, although every pass reads lastScaleTime from a cache
\* that may be behind.
WindowBetweenWrites ==
    [][pc = "update" /\ pc' = "applyDep" /\ md' # md /\ lastCommit # 0 =>
         dec.lastScale >= lastCommit
             + Window(md.spec.autoscaling, md.spec.replicas, md'.spec.replicas)]_vars

-----------------------------------------------------------------------------
(* Liveness *)

\* The new model is served by as many ready pods as the spec asks for and no
\* pod of another template is left.
RolledOut ==
    /\ dep # None /\ ~dep.paused
    /\ dep.template = Template(md.spec, CacheKey(md.spec))
    /\ \A t \in PodTemplate : pods[t] = (IF t = dep.template THEN md.spec.replicas ELSE 0)
    /\ ready = pods

\* The status says so, for the model that is served.
ReportedServing ==
    /\ md.status.observed
    /\ md.status.cacheKey = dep.template.key
    /\ md.status.ready = (IF md.spec.replicas = 0 THEN "ScaledToZero" ELSE "ReplicasReady")
    /\ md.status.readyReplicas = md.spec.replicas

\* The spec names a claim that nobody has created yet.
ClaimMissing ==
    md # None /\ HasCache(md.spec) /\ ~OwnsPVC(md.spec) /\ PVCName(md.spec) \notin pvcs

\* sync, the watches, the gate and the status together: once the user stops,
\* the current spec is rolled out and the status, whose cache key ran ahead of
\* the pods while the rollout was held, has caught up with them, unless the
\* claim never appears, or the warm-up failed and that is reported.
EventuallyServed ==
    <>[](md # None /\ ~md.deleting =>
           \/ RolledOut /\ ReportedServing
           \/ ClaimMissing
           \/ md.status.degraded = "WarmJobFailed")

\* writeStatus and the unchanged applies do not feed the watches for ever:
\* without autoscaling the operator comes to rest, and only a missing claim
\* keeps it trying.
EventuallyQuiescent == <>[](Quiescent \/ ClaimMissing)

\* finalize polls until the pods are gone: a deleted object disappears, and
\* everything it owned with it.
TeardownCompletes ==
    (md # None /\ md.deleting) ~>
        /\ md = None /\ dep = None
        /\ \A k \in Keys : jobs[k] = None
        /\ ~svc /\ pdb = 0 /\ OwnClaim \notin pvcs
        /\ ~PodsExist

=============================================================================
