--------------------------- MODULE LifecycleProofs ---------------------------
(***************************************************************************)
(* From the first finalizer to the last Job: what holds of the operator's  *)
(* own writes over the whole life of an object.                            *)
(***************************************************************************)
EXTENDS ReconcilerProofs

-----------------------------------------------------------------------------
(* Finalizer and deletion mark of the object and of its copies *)

LEMMA MarksKept ==
    ASSUME NEW m \in ModelDeployment
    PROVE  /\ LET n == [m EXCEPT !.status.observed = FALSE]
              IN  n.fin = m.fin /\ n.deleting = m.deleting
           /\ LET n == [m EXCEPT !.deleting = TRUE, !.status.observed = FALSE]
              IN  n.fin = m.fin /\ n.deleting
           /\ \A s : LET n == [m EXCEPT !.spec = s, !.status.observed = FALSE]
                     IN  n.fin = m.fin /\ n.deleting = m.deleting
           /\ \A st : LET n == [m EXCEPT !.status = st]
                      IN  n.fin = m.fin /\ n.deleting = m.deleting
BY DEF ModelDeployment

\* An accepted Update removes the object if it was waiting for that, and else
\* leaves its marks as they were sent.
LEMMA PutMarks ==
    ASSUME PassInv, NEW new \in ModelDeployment, Put(new)
    PROVE  /\ pmd = md /\ md \in ModelDeployment
           /\ new.deleting /\ ~new.fin => md' = None
           /\ ~(new.deleting /\ ~new.fin) => /\ md' \in ModelDeployment
                                             /\ md'.fin = new.fin
                                             /\ md'.deleting = new.deleting
<1> DEFINE n == [new EXCEPT !.status.observed = FALSE]
<1>1. n \in ModelDeployment /\ n.fin = new.fin /\ n.deleting = new.deleting
  BY Unobserved, MarksKept, ObjectFields
<1> HIDE DEF n
<1>2. md' = IF new.deleting /\ ~new.fin THEN None ELSE IF new.spec = md.spec THEN new ELSE n
  BY DEF Put, n
<1> QED
  BY <1>1, <1>2 DEF Put, PassInv, TypeOK

\* The three Updates of a pass.
LEMMA UpdateMarks ==
    ASSUME NEW m \in ModelDeployment, NEW b \in BOOLEAN, NEW n \in Counts
    PROVE  /\ LET new == [m EXCEPT !.spec = Stored(@), !.fin = b]
              IN  new \in ModelDeployment /\ new.fin = b /\ new.deleting = m.deleting
           /\ LET new == [m EXCEPT !.spec = Stored([@ EXCEPT !.replicas = n])]
              IN  new \in ModelDeployment /\ new.fin = m.fin /\ new.deleting = m.deleting
<1>1. m.spec \in ModelDeploymentSpec /\ m.status \in ModelDeploymentStatus
  BY ObjectFields
<1>2. Stored(m.spec) \in ModelDeploymentSpec
  BY <1>1, StoredKeeps
<1>3. Stored([m.spec EXCEPT !.replicas = n]) \in ModelDeploymentSpec
  BY <1>1, ResizedKeeps
<1> DEFINE s == Stored(m.spec)
           u == Stored([m.spec EXCEPT !.replicas = n])
<1> HIDE DEF s, u
<1>4. LET new == [m EXCEPT !.spec = s, !.fin = b]
      IN  new \in ModelDeployment /\ new.fin = b /\ new.deleting = m.deleting
  BY <1>2 DEF ModelDeployment, s
<1>5. LET new == [m EXCEPT !.spec = u]
      IN  new \in ModelDeployment /\ new.fin = m.fin /\ new.deleting = m.deleting
  BY <1>3 DEF ModelDeployment, u
<1> QED
  BY <1>4, <1>5 DEF s, u

-----------------------------------------------------------------------------
(* Teardown leaves nothing behind *)

\* A copy never has a mark the object has lost, with one exception: the object
\* may be gone, and then no copy is left that a pass would take for live.
CopiesInv ==
    /\ pc \in SyncSteps => md # None /\ md.fin /\ pmd.fin
    /\ pc = "addFin" => ~pmd.fin
    /\ pc \in FinalizeSteps => /\ pmd.deleting
                               /\ mdCache = None \/ mdCache.deleting
                               /\ md = None \/ md.deleting
    /\ mdCache # None /\ mdCache.fin /\ ~mdCache.deleting => md # None
    /\ md # None /\ mdCache # None => /\ mdCache.fin => md.fin
                                      /\ mdCache.deleting => md.deleting
    /\ md # None /\ md.deleting => md.fin

\* What finalize has removed stays removed while it runs.
TornDown ==
    /\ pc \in {"delJobs", "listPods", "release"} => dep = None
    /\ pc \in {"listPods", "release"} => \A k \in Keys : jobs[k] = None

LifeInv == CopiesInv /\ TornDown /\ NoLeftovers

\* The cluster's controllers create and remove no child while the object is
\* there; once it is gone they only remove.
LEMMA ClusterChildren ==
    ASSUME PassInv, Others
    PROVE  \/ /\ UNCHANGED <<dep, svc, pdb, pvcs>>
              /\ \A k \in Keys : jobs'[k] = None <=> jobs[k] = None
           \/ /\ md = None /\ dep' \in {dep, None} /\ pvcs' \subseteq pvcs
              /\ svc' => svc
              /\ pdb' \in {pdb, 0}
              /\ \A k \in Keys : jobs[k] = None => jobs'[k] = None
<1> USE DEF children, workload, PassInv, TypeOK, ClusterTypeOK
<1>1. CASE DeploymentController \/ Kubelet \/ OrphanRuns \/ Collector
  <2>1. UNCHANGED children
    BY <1>1
    DEF DeploymentController, Kubelet, OrphanRuns, Collector, NewReplicaSet, ScaleUpNew,
        ScaleDownNew, ScaleDownOld, ScalePaused, CreatePod, DeletePod, PodReady, OrphanPull,
        OrphanMark, CollectWarmPod, CollectReplicaSet
  <2> QED
    BY <2>1
<1>2. ASSUME NEW k \in Keys, StartWarmPod(k) \/ PullWeights(k) \/ WriteMarker(k)
      PROVE  UNCHANGED children
  BY <1>2 DEF StartWarmPod, PullWeights, WriteMarker
<1>3. ASSUME NEW k \in Keys, CompleteJob(k) \/ FailWarmPod(k) \/ DeadlineJob(k)
      PROVE  /\ UNCHANGED <<dep, svc, pdb, pvcs>>
             /\ \A j \in Keys : jobs'[j] = None <=> jobs[j] = None
  <2>1. jobs[k] \in Jobs /\ UNCHANGED <<dep, svc, pdb, pvcs>>
    BY <1>3 DEF CompleteJob, FailWarmPod, DeadlineJob, Active
  <2>2. \E job \in Jobs : jobs' = [jobs EXCEPT ![k] = job]
    <3>1. [jobs[k] EXCEPT !.succeeded = TRUE] \in Jobs
      BY <2>1 DEF Jobs
    <3>2. [jobs[k] EXCEPT !.attempts = @ + 1] \in Jobs
      BY <2>1 DEF Jobs
    <3>3. [jobs[k] EXCEPT !.failed = TRUE] \in Jobs
      BY <2>1 DEF Jobs
    <3>4. [jobs[k] EXCEPT !.failed = TRUE, !.succeeded = (warmPod[k] = "done")] \in Jobs
      BY <2>1 DEF Jobs
    <3> QED
      BY <1>3, <3>1, <3>2, <3>3, <3>4 DEF CompleteJob, FailWarmPod, DeadlineJob
  <2> QED
    BY <2>1, <2>2, NoChildAssumption
<1>4. CASE md = None /\ CollectChildren
  <2>1. ASSUME NEW k \in Keys, DeleteJob(k)
        PROVE  \A j \in Keys : jobs[j] = None => jobs'[j] = None
    BY <2>1 DEF DeleteJob
  <2> QED
    BY <1>4, <2>1 DEF CollectChildren
<1> QED
  BY <1>1, <1>2, <1>3, <1>4 DEF Others, WarmUp, WarmUpFails

\* Steps that leave the object, its copies and the pass alone.
LEMMA SameCopies ==
    ASSUME CopiesInv, UNCHANGED <<md, mdCache, pmd, pc>>
    PROVE  CopiesInv'
BY DEF CopiesInv

\* The end of a pass that wrote nothing.
LEMMA CopiesForgotten ==
    ASSUME CopiesInv, ForgetPass, UNCHANGED <<md, mdCache>>
    PROVE  CopiesInv' /\ TornDown'
BY DEF CopiesInv, TornDown, ForgetPass, SyncSteps, FinalizeSteps

LEMMA SameChildren ==
    ASSUME NoLeftovers, UNCHANGED <<md, dep, jobs, svc, pdb, pvcs>>
    PROVE  NoLeftovers'
BY DEF NoLeftovers

\* An Update that keeps the finalizer, or sets it.
LEMMA FinalizerStays ==
    ASSUME NoLeftovers, md # None, md' # None, md.fin => md'.fin,
           UNCHANGED <<dep, jobs, svc, pdb, pvcs>>
    PROVE  NoLeftovers'
BY DEF NoLeftovers

\* What a call of a running pass does to the marks: AddFinalizer adds the
\* finalizer, ReleaseFinalizer is the end of an object that is being deleted, and
\* every other write leaves both marks alone.
LEMMA PassMarks ==
    ASSUME PassInv, Pass, pc # "idle"
    PROVE  /\ \/ UNCHANGED md
              \/ pc = "release" /\ pmd = md /\ (pmd.deleting => md' = None)
              \/ /\ pc \in SyncSteps \cup {"addFin"} /\ pmd = md
                 /\ md \in ModelDeployment /\ md' \in ModelDeployment
                 /\ ~md.deleting /\ ~md'.deleting
                 /\ md.fin \/ pc = "addFin" => md'.fin
           /\ UNCHANGED <<mdCache, losses>>
           /\ pvcs \subseteq pvcs'
           /\ pc' \in FinalizeSteps => pc \in FinalizeSteps /\ UNCHANGED pmd
<1> USE DEF SyncSteps, FinalizeSteps
<1>0. /\ pmd \in ModelDeployment
      /\ fresh => pmd = md
      /\ dec.replicas \in Counts
      /\ pc \in SyncSteps \cup {"addFin"} => ~pmd.deleting
  BY DEF PassInv, TypeOK, DecType
<1>1. CASE AddFinalizer
  <2> DEFINE new == [pmd EXCEPT !.spec = Stored(@), !.fin = TRUE]
  <2>1. new \in ModelDeployment /\ new.fin /\ new.deleting = pmd.deleting
    BY <1>0, UpdateMarks
  <2>2. /\ Put(new) \/ UNCHANGED md
        /\ pc = "addFin" /\ pc' = "idle" /\ UNCHANGED <<mdCache, losses, pvcs>>
    BY <1>1
    DEF AddFinalizer, Finish, Fail, ForgetPass, Caches, Environment, budgets, clusterVars, children
  <2> HIDE DEF new
  <2> QED
    BY <1>0, <2>1, <2>2, PutMarks
<1>2. CASE WriteReplicas
  <2> DEFINE new == [pmd EXCEPT !.spec = Stored([@ EXCEPT !.replicas = dec.replicas])]
  <2>1. new \in ModelDeployment /\ new.fin = pmd.fin /\ new.deleting = pmd.deleting
    BY <1>0, UpdateMarks
  <2>2. /\ Put(new) \/ UNCHANGED md
        /\ pc = "update" /\ pc' \in {"idle", "applyDep"} /\ UNCHANGED <<mdCache, losses, pvcs>>
    BY <1>2
    DEF WriteReplicas, Goto, Fail, ForgetPass, Caches, Environment, budgets, clusterVars, children
  <2> HIDE DEF new
  <2> QED
    BY <1>0, <2>1, <2>2, PutMarks
<1>3. CASE WriteStatus
  <2>1. /\ UNCHANGED md \/ (fresh /\ md' = [md EXCEPT !.status = NextStatus])
        /\ pc = "status" /\ pc' = "idle" /\ UNCHANGED <<mdCache, losses, pvcs>>
    BY <1>3
    DEF WriteStatus, Finish, Fail, ForgetPass, Caches, Environment, budgets, clusterVars, children
  <2>2. ASSUME pmd = md, md' = [md EXCEPT !.status = NextStatus]
        PROVE  /\ md' \in ModelDeployment
               /\ md'.fin = md.fin /\ md'.deleting = md.deleting
    BY <1>0, <2>2, StatusType, ObjectUpdates, MarksKept DEF PassInv
  <2> QED
    BY <1>0, <2>1, <2>2
<1>4. CASE ReleaseFinalizer
  <2> DEFINE new == [pmd EXCEPT !.spec = Stored(@), !.fin = FALSE]
  <2>1. new \in ModelDeployment /\ ~new.fin /\ new.deleting = pmd.deleting
    BY <1>0, UpdateMarks
  <2>2. /\ Put(new) \/ UNCHANGED md
        /\ pc = "release" /\ pc' = "idle" /\ UNCHANGED <<mdCache, losses, pvcs>>
    BY <1>4
    DEF ReleaseFinalizer, Finish, Fail, ForgetPass, Caches, Environment, budgets, clusterVars,
        children
  <2> HIDE DEF new
  <2> QED
    BY <2>1, <2>2, PutMarks
<1>5. CASE EnsureClaim
  BY <1>5 DEF EnsureClaim, Goto, Fail, ForgetPass, informers, Environment, budgets
<1>6. CASE \/ ReconcileJob \/ ListWarmJobs \/ (\E k \in Keys : PruneJob(k)) \/ DecideReplicas
           \/ ApplyDeployment \/ ApplyService \/ ReconcilePDB
           \/ DeleteDeployment \/ DeleteJobs \/ ListPods
  BY <1>6
  DEF ReconcileJob, ListWarmJobs, PruneJob, DecideReplicas, ApplyDeployment, ApplyService,
      ReconcilePDB, DeleteDeployment, DeleteJobs, ListPods, Goto, Finish, ForgetPass, informers,
      locals, Environment, budgets, clusterVars, children
<1> QED
  BY <1>1, <1>2, <1>3, <1>4, <1>5, <1>6, Zenon DEF Pass, StartPass

\* The marks do not depend on the children.
LEMMA CopiesStep == PassInv /\ CopiesInv /\ [Next]_vars => CopiesInv'
<1> SUFFICES ASSUME PassInv, CopiesInv, [Next]_vars PROVE CopiesInv'
  OBVIOUS
<1> USE DEF SyncSteps, FinalizeSteps
<1>0. /\ md # None => md \in ModelDeployment
      /\ pc # "idle" => pmd \in ModelDeployment
      /\ dec.replicas \in Counts
  BY DEF PassInv, TypeOK, DecType
<1>1. CASE \/ UNCHANGED vars \/ (\E k \in Keys : SyncJob(k)) \/ SyncDep \/ SyncPods \/ TimerFires
           \/ Tick \/ Drift \/ (\E c \in SharedClaims : ProvisionClaim(c))
           \/ (\E c \in Claims : LoseClaim(c)) \/ Others
  <2>1. UNCHANGED <<md, mdCache, pmd, pc>>
    BY <1>1
    DEF vars, SyncJob, SyncDep, SyncPods, TimerFires, Tick, Drift, ProvisionClaim, LoseClaim,
        Others, informers, locals
  <2> QED
    BY <2>1, SameCopies
<1>2. CASE StartPass
  BY <1>2 DEF StartPass, CopiesInv, locals, informers
<1>3. CASE Pass /\ pc # "idle"
  <2>1. \/ pc' = "idle"
        \/ pc' \in SyncSteps /\ pc \in SyncSteps /\ (pmd' = pmd \/ (pmd' = md' /\ fresh))
        \/ pc' \in FinalizeSteps
    BY <1>3
    DEF Pass, StartPass, AddFinalizer, EnsureClaim, ReconcileJob, ListWarmJobs, PruneJob,
        DecideReplicas, WriteReplicas, Put, ApplyDeployment, ApplyService, ReconcilePDB,
        WriteStatus, DeleteDeployment, DeleteJobs, ListPods, ReleaseFinalizer, Goto, Finish,
        Fail, ForgetPass, locals
  <2>2. CASE UNCHANGED md
    BY <1>0, <1>3, <2>1, <2>2, PassMarks DEF CopiesInv, PassInv
  <2>3. CASE pc = "release" /\ pmd = md /\ (pmd.deleting => md' = None)
    BY <1>3, <2>1, <2>3, PassMarks DEF CopiesInv
  <2>4. CASE /\ pc \in SyncSteps \cup {"addFin"} /\ pmd = md
             /\ md \in ModelDeployment /\ md' \in ModelDeployment
             /\ ~md.deleting /\ ~md'.deleting
             /\ md.fin \/ pc = "addFin" => md'.fin
    <3>1. md # None /\ md' # None
      BY <2>4, ObjectFields
    <3> QED
      BY <1>3, <2>1, <2>4, <3>1, PassMarks DEF CopiesInv
  <2> QED
    BY <1>3, <2>2, <2>3, <2>4, PassMarks
<1>4. CASE Abort
  BY <1>4, CopiesForgotten DEF Abort, Fail, informers
<1>5. CASE SyncMD
  <2>1. UNCHANGED <<md, pmd, pc>> /\ mdCache' = md
    BY <1>5 DEF SyncMD, locals
  <2> QED
    BY <2>1 DEF CopiesInv
<1>6. ASSUME NEW s \in Specs, EditSpec(s) PROVE CopiesInv'
  <2>1. UNCHANGED <<mdCache, pmd, pc>> /\ md \in ModelDeployment
    BY <1>0, <1>6 DEF EditSpec, Caches
  <2>2. md' \in ModelDeployment /\ md'.fin = md.fin /\ md'.deleting = md.deleting
    <3>1. md' = [md EXCEPT !.spec = s, !.status.observed = FALSE]
      BY <1>6 DEF EditSpec
    <3>2. md' \in ModelDeployment
      BY <2>1, <3>1, SpecsAssumption, UserUpdates
    <3> QED
      BY <2>1, <3>1, <3>2, MarksKept
  <2>3. md # None /\ md' # None
    BY <2>1, <2>2, ObjectFields
  <2> QED
    BY <2>1, <2>2, <2>3 DEF CopiesInv
<1>7. CASE DeleteMD
  <2>1. UNCHANGED <<mdCache, pmd, pc>> /\ md \in ModelDeployment /\ md # None
    BY <1>0, <1>7 DEF DeleteMD, Caches
  <2>2. CASE md.fin
    <3>1. md' \in ModelDeployment /\ md'.fin /\ md'.deleting
      BY <1>7, <2>1, <2>2, UserUpdates, MarksKept, ObjectFields DEF DeleteMD
    <3>2. md' # None
      BY <3>1, ObjectFields
    <3> QED
      BY <2>1, <3>1, <3>2 DEF CopiesInv
  <2>3. CASE ~md.fin
    BY <1>7, <2>1, <2>3 DEF DeleteMD, CopiesInv
  <2> QED
    BY <2>2, <2>3
<1>8. CASE Pass
  <2>1. StartPass \/ pc # "idle"
    BY <1>8
    DEF Pass, AddFinalizer, EnsureClaim, ReconcileJob, ListWarmJobs, PruneJob, DecideReplicas,
        WriteReplicas, ApplyDeployment, ApplyService, ReconcilePDB, WriteStatus,
        DeleteDeployment, DeleteJobs, ListPods, ReleaseFinalizer
  <2> QED
    BY <1>2, <1>3, <1>8, <2>1
<1> QED
  BY <1>1, <1>4, <1>5, <1>6, <1>7, <1>8, Zenon
  DEF Next, Informers, User, PromptEvent

LEMMA LifeStep == PassInv /\ LifeInv /\ [Next]_vars => LifeInv'
<1> SUFFICES ASSUME PassInv, LifeInv, [Next]_vars PROVE TornDown' /\ NoLeftovers'
  BY CopiesStep DEF LifeInv
<1> USE DEF LifeInv, SyncSteps, FinalizeSteps
<1>0. /\ md # None => md \in ModelDeployment
      /\ pc # "idle" => pmd \in ModelDeployment
      /\ dec.replicas \in Counts
      /\ CopiesInv'
  BY CopiesStep DEF PassInv, TypeOK, DecType
<1>1. CASE UNCHANGED vars
  <2>1. UNCHANGED <<md, pc, dep, jobs, svc, pdb, pvcs>>
    BY <1>1 DEF vars, clusterVars, children
  <2> QED
    BY <2>1, SameChildren DEF TornDown
<1>2. CASE StartPass
  <2>1. UNCHANGED <<md, dep, jobs, svc, pdb, pvcs>>
    BY <1>2 DEF StartPass, clusterVars, children
  <2>2. TornDown'
    BY <1>2 DEF StartPass, TornDown
  <2> QED
    BY <2>1, <2>2, SameChildren
<1>3. CASE AddFinalizer
  <2> DEFINE new == [pmd EXCEPT !.spec = Stored(@), !.fin = TRUE]
  <2>1. UNCHANGED <<mdCache, dep, jobs, svc, pdb, pvcs>>
    BY <1>3 DEF AddFinalizer, clusterVars, children, Caches
  <2>2. CASE Put(new) /\ ForgetPass
    <3>1. new \in ModelDeployment /\ new.fin /\ new.deleting = pmd.deleting /\ ~pmd.deleting
      BY <1>0, <1>3, UpdateMarks DEF AddFinalizer, PassInv
    <3> HIDE DEF new
    <3>2. md \in ModelDeployment /\ md' \in ModelDeployment /\ md'.fin
      BY <2>2, <3>1, PutMarks
    <3>3. md # None /\ md' # None
      BY <3>2, ObjectFields
    <3>4. TornDown'
      BY <2>2 DEF TornDown, ForgetPass
    <3> QED
      BY <2>1, <3>2, <3>3, <3>4, FinalizerStays
  <2>3. CASE ForgetPass /\ UNCHANGED md
    BY <2>1, <2>3, CopiesForgotten, SameChildren
  <2> QED
    BY <1>3, <2>2, <2>3 DEF AddFinalizer, Finish, Fail
<1>4. CASE EnsureClaim
  <2>1. UNCHANGED <<md, dep, jobs, svc, pdb>> /\ pc = "claim" /\ pc' \in {"job", "idle"}
    BY <1>4 DEF EnsureClaim, Goto, Fail, ForgetPass
  <2> QED
    BY <2>1 DEF CopiesInv, TornDown, NoLeftovers
<1>5. CASE \/ ReconcileJob \/ ListWarmJobs \/ (\E k \in Keys : PruneJob(k)) \/ DecideReplicas
           \/ ApplyDeployment \/ ApplyService \/ ReconcilePDB
  <2>1. UNCHANGED md /\ pc \in SyncSteps /\ pc' \in SyncSteps
    BY <1>5
    DEF ReconcileJob, ListWarmJobs, PruneJob, DecideReplicas, ApplyDeployment, ApplyService,
        ReconcilePDB, Goto
  <2> QED
    BY <2>1 DEF CopiesInv, TornDown, NoLeftovers
<1>6. CASE WriteReplicas
  <2>1. UNCHANGED <<dep, jobs, svc, pdb, pvcs>> /\ pc = "update" /\ pc' \in {"applyDep", "idle"}
    BY <1>6 DEF WriteReplicas, clusterVars, children, Goto, Fail, ForgetPass
  <2>2. md # None /\ md.fin /\ TornDown'
    BY <2>1 DEF CopiesInv, TornDown
  <2>3. UNCHANGED md \/ (md' # None /\ md'.fin)
    BY <1>0, <1>6 DEF WriteReplicas, Goto, CopiesInv
  <2> QED
    BY <2>1, <2>2, <2>3, FinalizerStays, SameChildren
<1>7. CASE WriteStatus
  <2>1. UNCHANGED <<mdCache, dep, jobs, svc, pdb, pvcs>> /\ pc = "status" /\ ForgetPass
    BY <1>7 DEF WriteStatus, Finish, Fail, clusterVars, children, Caches
  <2>2. CASE fresh /\ md' = [md EXCEPT !.status = NextStatus]
    <3>1. pmd = md /\ md \in ModelDeployment
      BY <1>0, <2>1, <2>2 DEF PassInv
    <3>2. md' \in ModelDeployment /\ md'.fin = md.fin
      BY <2>2, <3>1, StatusType, ObjectUpdates, ObjectFields, MarksKept DEF PassInv
    <3>3. md # None /\ md' # None /\ TornDown'
      BY <2>1, <3>1, <3>2, ObjectFields DEF TornDown, ForgetPass
    <3> QED
      BY <2>1, <3>2, <3>3, FinalizerStays
  <2>3. CASE UNCHANGED md
    BY <2>1, <2>3, CopiesForgotten, SameChildren
  <2> QED
    BY <1>7, <2>2, <2>3 DEF WriteStatus
<1>8. CASE DeleteDeployment
  <2>1. /\ UNCHANGED <<md, jobs, svc, pdb, pvcs>>
        /\ dep' = None
        /\ pc' = "delJobs"
    BY <1>8 DEF DeleteDeployment, Goto
  <2> QED
    BY <2>1 DEF TornDown, NoLeftovers
<1>9. CASE DeleteJobs
  <2>1. /\ UNCHANGED <<md, dep, svc, pdb, pvcs>>
        /\ \A k \in Keys : jobs'[k] = None
        /\ pc = "delJobs" /\ pc' = "listPods"
    BY <1>9 DEF DeleteJobs, DeleteAllJobs, Goto
  <2> QED
    BY <2>1 DEF TornDown, NoLeftovers
<1>10. CASE ListPods
  <2>1. /\ UNCHANGED <<md, dep, jobs, svc, pdb, pvcs>>
        /\ pc = "listPods" /\ pc' \in {"release", "idle"}
    BY <1>10 DEF ListPods, clusterVars, children, Goto, Finish, ForgetPass
  <2> QED
    BY <2>1, SameChildren DEF TornDown
<1>11. CASE ReleaseFinalizer
  <2> DEFINE new == [pmd EXCEPT !.spec = Stored(@), !.fin = FALSE]
  <2>1. UNCHANGED <<mdCache, dep, jobs, svc, pdb, pvcs>> /\ pc = "release"
    BY <1>11 DEF ReleaseFinalizer, clusterVars, children, Caches
  <2>2. CASE Put(new) /\ ForgetPass
    <3>1. new \in ModelDeployment /\ ~new.fin /\ new.deleting = pmd.deleting /\ pmd.deleting
      BY <1>0, <2>1, UpdateMarks DEF CopiesInv
    <3> HIDE DEF new
    <3>2. md' = None
      BY <2>2, <3>1, PutMarks
    <3> QED
      BY <2>1, <2>2, <3>2 DEF TornDown, ForgetPass, NoLeftovers
  <2>3. CASE ForgetPass /\ UNCHANGED md
    BY <2>1, <2>3, CopiesForgotten, SameChildren
  <2> QED
    BY <1>11, <2>2, <2>3 DEF ReleaseFinalizer, Finish, Fail
<1>12. CASE Abort
  <2>1. UNCHANGED <<md, mdCache, dep, jobs, svc, pdb, pvcs>> /\ ForgetPass
    BY <1>12 DEF Abort, Fail, clusterVars, children, informers
  <2> QED
    BY <2>1, CopiesForgotten, SameChildren
<1>13. CASE Informers \/ PromptEvent \/ TimerFires \/ Tick
  <2>1. UNCHANGED <<md, pc, dep, jobs, svc, pdb, pvcs>>
    BY <1>13
    DEF Informers, PromptEvent, SyncMD, SyncJob, SyncDep, SyncPods, TimerFires, Tick, clusterVars,
        children
  <2> QED
    BY <2>1, SameChildren DEF TornDown
<1>14. ASSUME NEW s \in Specs, EditSpec(s) PROVE TornDown' /\ NoLeftovers'
  <2>1. UNCHANGED <<pc, dep, jobs, svc, pdb, pvcs>> /\ md \in ModelDeployment
    BY <1>0, <1>14 DEF EditSpec, clusterVars, children
  <2>2. md' = [md EXCEPT !.spec = s, !.status.observed = FALSE] /\ md' \in ModelDeployment
    BY <1>14, <2>1, SpecsAssumption, UserUpdates DEF EditSpec
  <2>3. md'.fin = md.fin
    BY <2>1, <2>2, MarksKept
  <2>4. md # None /\ md' # None /\ TornDown'
    BY <2>1, <2>2, ObjectFields DEF TornDown
  <2> QED
    BY <2>1, <2>3, <2>4, FinalizerStays
<1>15. CASE DeleteMD
  <2>1. UNCHANGED <<pc, dep, jobs, svc, pdb, pvcs>> /\ md \in ModelDeployment /\ md # None
    BY <1>0, <1>15 DEF DeleteMD, clusterVars, children
  <2>2. TornDown'
    BY <2>1 DEF TornDown
  <2>3. CASE md.fin
    <3>1. md' \in ModelDeployment /\ md'.fin
      BY <1>15, <2>1, <2>3, UserUpdates, MarksKept, ObjectFields DEF DeleteMD
    <3>2. md' # None
      BY <3>1, ObjectFields
    <3> QED
      BY <2>1, <2>2, <3>1, <3>2, FinalizerStays
  <2>4. CASE ~md.fin
    BY <1>15, <2>1, <2>2, <2>4 DEF DeleteMD, NoLeftovers
  <2> QED
    BY <2>3, <2>4
<1>16. CASE Drift
  <2>1. UNCHANGED <<md, pc, dep, jobs, pvcs>> /\ ~svc' /\ pdb' = 0
    BY <1>16 DEF Drift
  <2> QED
    BY <2>1 DEF TornDown, NoLeftovers
<1>17. CASE (\E c \in SharedClaims : ProvisionClaim(c)) \/ (\E c \in Claims : LoseClaim(c))
  <2>1. /\ UNCHANGED <<md, pc, dep, jobs, svc, pdb>>
        /\ OwnClaim \in pvcs' => OwnClaim \in pvcs
    BY <1>17, ClaimsAssumption DEF ProvisionClaim, LoseClaim
  <2> QED
    BY <2>1 DEF TornDown, NoLeftovers
<1>18. CASE Others
  <2>1. UNCHANGED <<md, pc>>
    BY <1>18 DEF Others
  <2> QED
    BY <1>18, <2>1, ClusterChildren DEF TornDown, NoLeftovers
<1> QED
  BY <1>1, <1>2, <1>3, <1>4, <1>5, <1>6, <1>7, <1>8, <1>9, <1>10, <1>11, <1>12, <1>13, <1>14,
     <1>15, <1>16, <1>17, <1>18, Zenon
  DEF Next, Pass, User

\* The object as the user created it.
LEMMA InitObject ==
    ASSUME Init
    PROVE  /\ md \in ModelDeployment /\ ~md.fin /\ ~md.deleting
           /\ md.spec \in Specs /\ md.status = EmptyStatus
<1>1. PICK s \in FirstSpecs :
        md = [spec |-> s, fin |-> FALSE, deleting |-> FALSE, status |-> EmptyStatus]
  BY DEF Init
<1>2. s \in Specs /\ s \in ModelDeploymentSpec
  BY SpecsAssumption
<1>3. EmptyStatus \in ModelDeploymentStatus
  BY DEF EmptyStatus, ModelDeploymentStatus
<1> QED
  BY <1>1, <1>2, <1>3 DEF ModelDeployment

LEMMA LifeAlways == Spec => []LifeInv
<1>1. Init => LifeInv
  <2> SUFFICES ASSUME Init PROVE LifeInv
    OBVIOUS
  <2>1. md # None /\ ~md.deleting
    BY InitObject, ObjectFields
  <2>2. CopiesInv /\ TornDown
    BY <2>1 DEF Init, CopiesInv, TornDown, SyncSteps, FinalizeSteps
  <2>3. NoLeftovers
    BY <2>1, ClaimsAssumption DEF Init, ClusterInit, NoLeftovers
  <2> QED
    BY <2>2, <2>3 DEF LifeInv
<1> QED
  BY <1>1, LifeStep, PassAlways, PTL DEF Spec

\* The finalizer protocol of Reconcile and finalize, for every interleaving of
\* passes that work on old copies, faults, edits and the deletion itself: a
\* live object with children carries the finalizer, and an object that is gone
\* has left no Deployment and no Job behind.
THEOREM NothingIsLeftBehind == Spec => []NoLeftovers
<1>1. LifeInv => NoLeftovers
  BY DEF LifeInv
<1> QED
  BY <1>1, LifeAlways, PTL

-----------------------------------------------------------------------------
(* Who writes the object *)

\* An accepted Update of the object the pass holds, which is the stored one:
\* the status comes back as it was sent, and the weights are the same.
Updated(new) ==
    /\ new \in ModelDeployment
    /\ SameWeights(new.spec, md.spec)
    /\ new.status = md.status
    /\ fresh /\ pmd = md
    /\ Put(new)

LEMMA ObjectWrites ==
    ASSUME PassInv, [Next]_vars
    PROVE  \/ UNCHANGED md
           \/ /\ pc \in {"addFin", "release"}
              /\ \E b \in BOOLEAN : Updated([md EXCEPT !.spec = Stored(@), !.fin = b])
           \/ /\ pc = "update"
              /\ WriteReplicas
              /\ Updated([md EXCEPT !.spec = Stored([@ EXCEPT !.replicas = dec.replicas])])
           \/ WriteStatus /\ fresh /\ pmd = md /\ md' = [md EXCEPT !.status = NextStatus]
           \/ \E s \in Specs : EditSpec(s)
           \/ DeleteMD
<1>0. /\ pc # "idle" => pmd \in ModelDeployment
      /\ fresh => pmd = md
      /\ dec.replicas \in Counts
  BY DEF PassInv, TypeOK, DecType
<1>1. CASE UNCHANGED vars
  BY <1>1 DEF vars
<1>2. CASE AddFinalizer \/ ReleaseFinalizer
  <2>1. pc \in {"addFin", "release"} /\ pmd \in ModelDeployment
    BY <1>0, <1>2 DEF AddFinalizer, ReleaseFinalizer
  <2>2. \/ \E b \in BOOLEAN : fresh /\ Put([pmd EXCEPT !.spec = Stored(@), !.fin = b])
        \/ UNCHANGED md
    BY <1>2 DEF AddFinalizer, ReleaseFinalizer, Put
  <2>3. ASSUME NEW b \in BOOLEAN, fresh, Put([pmd EXCEPT !.spec = Stored(@), !.fin = b])
        PROVE  Updated([md EXCEPT !.spec = Stored(@), !.fin = b])
    <3>1. pmd = md
      BY <1>0, <2>3
    <3>2. LET new == [pmd EXCEPT !.spec = Stored(@), !.fin = b]
          IN  /\ new \in ModelDeployment
              /\ SameWeights(new.spec, pmd.spec)
              /\ new.status = pmd.status
      BY <2>1, FinalizerUpdate
    <3> QED
      BY <2>3, <3>1, <3>2, Zenon DEF Updated
  <2> QED
    BY <2>1, <2>2, <2>3, Zenon
<1>3. CASE WriteReplicas
  <2>1. pc = "update" /\ pmd \in ModelDeployment
    BY <1>0, <1>3 DEF WriteReplicas
  <2> DEFINE u == Stored([pmd.spec EXCEPT !.replicas = dec.replicas])
             new == [pmd EXCEPT !.spec = u]
  <2>2. u \in ModelDeploymentSpec /\ SameWeights(u, pmd.spec)
    BY <1>0, <2>1, ObjectFields, ResizedKeeps
  <2> HIDE DEF u
  <2>3. /\ new \in ModelDeployment /\ new.status = pmd.status
        /\ SameWeights(new.spec, pmd.spec)
    BY <2>1, <2>2, ObjectUpdates
  <2>4. (fresh /\ Put(new)) \/ UNCHANGED md
    BY <1>3, Zenon DEF WriteReplicas, Put, new, u
  <2>5. ASSUME fresh, Put(new) PROVE Updated([md EXCEPT !.spec = u])
    <3>1. pmd = md
      BY <1>0, <2>5
    <3> QED
      BY <2>3, <2>5, <3>1, Zenon DEF Updated
  <2>6. ASSUME fresh PROVE u = Stored([md.spec EXCEPT !.replicas = dec.replicas])
    BY <1>0, <2>6 DEF u
  <2> QED
    BY <1>3, <2>1, <2>4, <2>5, <2>6, Zenon DEF Put
<1>4. CASE WriteStatus
  BY <1>0, <1>4, Zenon DEF WriteStatus
<1>5. CASE (\E s \in Specs : EditSpec(s)) \/ DeleteMD
  BY <1>5
<1>6. CASE \/ StartPass \/ EnsureClaim \/ ReconcileJob \/ ListWarmJobs
           \/ (\E k \in Keys : PruneJob(k)) \/ DecideReplicas
           \/ ApplyDeployment \/ ApplyService \/ ReconcilePDB
           \/ DeleteDeployment \/ DeleteJobs \/ ListPods
  BY <1>6
  DEF StartPass, EnsureClaim, ReconcileJob, ListWarmJobs, PruneJob, DecideReplicas,
      ApplyDeployment, ApplyService, ReconcilePDB, DeleteDeployment, DeleteJobs, ListPods
<1>7. CASE \/ Abort \/ SyncMD \/ (\E k \in Keys : SyncJob(k)) \/ SyncDep \/ SyncPods \/ TimerFires
           \/ Drift \/ (\E c \in SharedClaims : ProvisionClaim(c))
           \/ (\E c \in Claims : LoseClaim(c)) \/ Tick \/ Others
  BY <1>7
  DEF Abort, SyncMD, SyncJob, SyncDep, SyncPods, TimerFires, Drift, ProvisionClaim, LoseClaim,
      Tick, Others
<1> QED
  BY <1>1, <1>2, <1>3, <1>4, <1>5, <1>6, <1>7, Zenon DEF Next, Pass, Informers, User, PromptEvent

\* What an accepted Update leaves behind.
LEMMA UpdateLeaves ==
    ASSUME PassInv, NEW new, Updated(new)
    PROVE  \/ md' = None
           \/ md' = new
           \/ md' = [new EXCEPT !.status.observed = FALSE] /\ md'.spec = new.spec
BY Unobserved DEF Updated, Put

-----------------------------------------------------------------------------
(* Conditions do not contradict each other *)

\* The conditions of an object, which every write but that of writeStatus keeps.
Agree(st) == st.ready = "ReplicasReady" => st.weightsCached # "Warming"

\* What the builder reports of one pass.
LEMMA BuiltAgrees ==
    ASSUME cache.enabled <=> HasCache(pmd.spec)
    PROVE  Agree(NextStatus)
<1>1. Ready(pmd.spec.replicas, ObservedWorkload, Paused) = "ReplicasReady" => ~Paused
  BY DEF Ready
<1>2. WeightsCached(cache) = "Warming" => cache.enabled /\ ~cache.warm
  BY DEF WeightsCached
<1> QED
  BY <1>1, <1>2 DEF NextStatus, BuildStatus, Agree, Paused

LEMMA UnobservedAgrees ==
    ASSUME NEW m \in ModelDeployment, Agree(m.status)
    PROVE  /\ Agree([m EXCEPT !.status.observed = FALSE].status)
           /\ Agree([m EXCEPT !.deleting = TRUE, !.status.observed = FALSE].status)
           /\ \A s : Agree([m EXCEPT !.spec = s, !.status.observed = FALSE].status)
BY DEF Agree, ModelDeployment, ModelDeploymentStatus

LEMMA AgreeStep ==
    PassInv /\ StatusInv /\ ReadyNotWhileWarming /\ [Next]_vars => ReadyNotWhileWarming'
<1> SUFFICES ASSUME PassInv, StatusInv, ReadyNotWhileWarming, [Next]_vars, md' # None
             PROVE  Agree(md'.status)
  BY DEF ReadyNotWhileWarming, Agree
<1>0. md # None => md \in ModelDeployment /\ Agree(md.status)
  BY DEF PassInv, TypeOK, ReadyNotWhileWarming, Agree
<1>1. CASE UNCHANGED md
  BY <1>0, <1>1
<1>2. ASSUME NEW new, Updated(new) PROVE Agree(md'.status)
  <2>1. new \in ModelDeployment /\ new.status = md.status /\ md # None
    BY <1>2, ObjectFields DEF Updated, PassInv, TypeOK, Put
  <2> QED
    BY <1>0, <1>2, <2>1, UpdateLeaves, UnobservedAgrees
<1>3. CASE WriteStatus /\ fresh /\ pmd = md /\ md' = [md EXCEPT !.status = NextStatus]
  <2>1. pc = "status" /\ md \in ModelDeployment /\ pmd \in ModelDeployment
    BY <1>3 DEF WriteStatus, PassInv, TypeOK
  <2>2. md'.status = NextStatus
    BY <1>3, <2>1, StatusType, ObjectUpdates DEF PassInv
  <2>3. cache.enabled <=> HasCache(pmd.spec)
    BY <2>1 DEF StatusInv, SyncSteps
  <2> QED
    BY <2>2, <2>3, BuiltAgrees
<1>4. ASSUME NEW s \in Specs, EditSpec(s) PROVE Agree(md'.status)
  BY <1>0, <1>4, UnobservedAgrees DEF EditSpec
<1>5. CASE DeleteMD
  BY <1>0, <1>5, UnobservedAgrees DEF DeleteMD
<1> QED
  BY <1>1, <1>2, <1>3, <1>4, <1>5, ObjectWrites, Zenon

\* statusBuilder's conditions, whatever a pass learned from caches of different
\* ages: Ready=True is never reported beside a warm-up that is still running.
THEOREM ConditionsAgree == Spec => []ReadyNotWhileWarming
<1>1. Init => ReadyNotWhileWarming
  BY InitObject DEF ReadyNotWhileWarming, EmptyStatus
<1> QED
  BY <1>1, AgreeStep, PassAlways, StatusAlways, PTL DEF Spec

-----------------------------------------------------------------------------
(* The operator's Updates and the user's edits *)

\* Nothing but the replica count would be defaulted on the way to the API
\* server: no other integer is zero.
NoZeroes(s) ==
    /\ s.minAvailable # 0
    /\ s.autoscaling # NoAutoscaling => /\ s.autoscaling.MinReplicas # 0
                                        /\ s.autoscaling.ScaleUpAfter # 0
                                        /\ s.autoscaling.ScaleDownAfter # 0

LEMMA NothingDefaulted ==
    ASSUME NEW s \in ModelDeploymentSpec, NoZeroes(s), NEW n \in Counts
    PROVE  /\ Stored(s) = [s EXCEPT !.replicas = OrDefault(s.replicas, 1)]
           /\ Stored([s EXCEPT !.replicas = n]) = [s EXCEPT !.replicas = OrDefault(n, 1)]
<1>1. StoredAutoscaling(s.autoscaling) = s.autoscaling
  BY DEF StoredAutoscaling, StoredPolicy, OrDefault, NoZeroes, ModelDeploymentSpec, AutoscalingSpec
<1>2. OrDefault(s.minAvailable, 1) = s.minAvailable
  BY DEF OrDefault, NoZeroes
<1>3. Stored(s) = [s EXCEPT !.replicas = OrDefault(s.replicas, 1)]
  BY <1>1, <1>2 DEF Stored, ModelDeploymentSpec
<1> DEFINE u == [s EXCEPT !.replicas = n]
<1>4. /\ u.replicas = n /\ u.minAvailable = s.minAvailable /\ u.autoscaling = s.autoscaling
      /\ u \in ModelDeploymentSpec
  BY DEF ModelDeploymentSpec
<1>5. Stored(u) = [u EXCEPT !.replicas = OrDefault(n, 1)]
  <2> HIDE DEF u
  <2>1. Stored(u) = [u EXCEPT !.replicas = OrDefault(n, 1), !.minAvailable = u.minAvailable,
                              !.autoscaling = u.autoscaling]
    BY <1>1, <1>2, <1>4 DEF Stored
  <2> QED
    BY <1>4, <2>1 DEF ModelDeploymentSpec
<1>6. [u EXCEPT !.replicas = OrDefault(n, 1)] = [s EXCEPT !.replicas = OrDefault(n, 1)]
  BY DEF ModelDeploymentSpec
<1> QED
  BY <1>3, <1>5, <1>6

\* The stored object was last written by the user, or by an Update that
\* changed the replica count alone.
PlainInv == md # None => NoZeroes(md.spec)

LEMMA PlainStep ==
    ASSUME \A s \in Specs : NoZeroes(s), PassInv, PlainInv, [Next]_vars
    PROVE  /\ PlainInv'
           /\ md # None /\ md' # None /\ edits' = edits =>
                md'.spec = [md.spec EXCEPT !.replicas = md'.spec.replicas]
<1> DEFINE Only == md'.spec = [md.spec EXCEPT !.replicas = md'.spec.replicas]
<1> SUFFICES ASSUME md' # None
             PROVE  /\ NoZeroes(md'.spec)
                    /\ md # None /\ edits' = edits => Only
  BY DEF PlainInv
<1>0. md # None => /\ md \in ModelDeployment
                   /\ md.spec \in ModelDeploymentSpec
                   /\ NoZeroes(md.spec)
  BY ObjectFields DEF PassInv, TypeOK, PlainInv
<1>1. ASSUME md # None, md'.spec = md.spec PROVE NoZeroes(md'.spec) /\ Only
  BY <1>0, <1>1 DEF ModelDeploymentSpec
<1>2. ASSUME md # None, NEW n, md'.spec = [md.spec EXCEPT !.replicas = n]
      PROVE  NoZeroes(md'.spec) /\ Only
  <2>1. /\ md'.spec.replicas = n
        /\ md'.spec.minAvailable = md.spec.minAvailable
        /\ md'.spec.autoscaling = md.spec.autoscaling
    BY <1>0, <1>2 DEF ModelDeploymentSpec
  <2> QED
    BY <1>0, <1>2, <2>1 DEF NoZeroes
<1>3. CASE UNCHANGED md
  BY <1>1, <1>3
<1>4. ASSUME NEW b \in BOOLEAN, Updated([md EXCEPT !.spec = Stored(@), !.fin = b])
      PROVE  NoZeroes(md'.spec) /\ Only
  <2> DEFINE u == Stored(md.spec)
             new == [md EXCEPT !.spec = u, !.fin = b]
  <2>1. md # None
    BY <1>4, ObjectFields DEF Updated, PassInv, TypeOK, Put
  <2>2. u = [md.spec EXCEPT !.replicas = OrDefault(md.spec.replicas, 1)]
    BY <1>0, <2>1, NothingDefaulted, CountsFacts
  <2> HIDE DEF u
  <2>3. new.spec = u
    BY <1>0, <2>1 DEF ModelDeployment
  <2>4. md'.spec = u
    <3>1. Updated(new)
      BY <1>4 DEF u
    <3> HIDE DEF new
    <3> QED
      BY <2>3, <3>1, UpdateLeaves
  <2> QED
    BY <1>2, <2>1, <2>2, <2>4
<1>5. CASE Updated([md EXCEPT !.spec = Stored([@ EXCEPT !.replicas = dec.replicas])])
  <2> DEFINE u == Stored([md.spec EXCEPT !.replicas = dec.replicas])
             new == [md EXCEPT !.spec = u]
  <2>1. md # None /\ dec.replicas \in Counts
    BY <1>5, ObjectFields DEF Updated, PassInv, TypeOK, Put, DecType
  <2>2. u = [md.spec EXCEPT !.replicas = OrDefault(dec.replicas, 1)]
    BY <1>0, <2>1, NothingDefaulted
  <2> HIDE DEF u
  <2>3. new.spec = u
    BY <1>0, <2>1 DEF ModelDeployment
  <2>4. md'.spec = u
    <3>1. Updated(new)
      BY <1>5 DEF u
    <3> HIDE DEF new
    <3> QED
      BY <2>3, <3>1, UpdateLeaves
  <2> QED
    BY <1>2, <2>1, <2>2, <2>4
<1>6. CASE WriteStatus /\ fresh /\ pmd = md /\ md' = [md EXCEPT !.status = NextStatus]
  <2>1. md \in ModelDeployment /\ md # None
    BY <1>6, ObjectFields DEF WriteStatus, PassInv, TypeOK
  <2>2. md'.spec = md.spec
    BY <1>6, <2>1 DEF ModelDeployment
  <2> QED
    BY <1>1, <2>1, <2>2
<1>7. ASSUME NEW s \in Specs, EditSpec(s) PROVE NoZeroes(md'.spec) /\ edits' # edits
  <2>1. md'.spec = s
    BY <1>0, <1>7, SpecsAssumption, UserUpdates DEF EditSpec
  <2> QED
    BY <1>7, <2>1 DEF EditSpec, PassInv, TypeOK
<1>8. CASE DeleteMD
  <2>1. md # None /\ md' = [md EXCEPT !.deleting = TRUE, !.status.observed = FALSE]
    BY <1>8 DEF DeleteMD
  <2>2. md'.spec = md.spec
    BY <1>0, <2>1, UserUpdates
  <2> QED
    BY <1>1, <2>1, <2>2
<1> HIDE DEF Only
<1> QED
  BY <1>3, <1>4, <1>5, <1>6, <1>7, <1>8, ObjectWrites, Zenon

\* The full Updates of a typed client (finalizer, replica decision): as long as
\* no spec uses a zero that the API server would default, they change nothing
\* of the spec but the replica count, whatever edits they race with.
THEOREM EditsAreKept ==
    ASSUME \A s \in Specs : NoZeroes(s)
    PROVE  Spec => OperatorWritesOnlyReplicas
<1>1. Init => PlainInv
  BY InitObject DEF PlainInv
<1>2. PassInv /\ PlainInv /\ [Next]_vars => PlainInv'
  BY PlainStep
<1>3. PassInv /\ PlainInv /\ [Next]_vars =>
        [md # None /\ md' # None /\ edits' = edits =>
           md'.spec = [md.spec EXCEPT !.replicas = md'.spec.replicas]]_vars
  BY PlainStep
<1> QED
  BY <1>1, <1>2, <1>3, PassAlways, PTL DEF Spec, OperatorWritesOnlyReplicas

-----------------------------------------------------------------------------
(* Stabilization windows across passes *)

\* A pass decides on a new size only once the window since the time it read as
\* lastScaleTime is over; it records the time of such a decision and of no other.
LEMMA OutcomeWindow ==
    ASSUME pmd \in ModelDeployment, clock \in Nat \ {0},
           NEW reading \in Counts \cup {Unavailable}
    PROVE  LET d == Outcome(reading)
               last == pmd.status.lastScaleTime
           IN  /\ d.lastScale = IF d.replicas = pmd.spec.replicas THEN 0 ELSE clock
               /\ d.replicas # pmd.spec.replicas /\ last # 0 /\ last <= clock =>
                    clock >= last
                      + Window(pmd.spec.autoscaling, pmd.spec.replicas, OrDefault(d.replicas, 1))
<1> DEFINE p == pmd.spec.autoscaling
           s == ScalingState(reading)
           last == pmd.status.lastScaleTime
           cur == pmd.spec.replicas
<1>1. /\ cur \in 0 .. MaxInt
      /\ p \in AutoscalingSpec \cup {NoAutoscaling}
      /\ last \in Nat
  BY DEF ModelDeployment, ModelDeploymentSpec, ModelDeploymentStatus, Counts
<1>2. CASE p = NoAutoscaling \/ reading = Unavailable
  BY <1>2 DEF Outcome
<1>3. CASE ~(p = NoAutoscaling \/ reading = Unavailable)
  <2> DEFINE d == Decide(p, s)
             target == Target(p, s)
  <2>1. IsPolicy(p)
    BY <1>1, <1>3, PolicyType
  <2>2. /\ s.CurrentReplicas = cur /\ s.QueueDepth \in Int
        /\ s.LastScale = last /\ s.Now = clock
    BY <1>3, CountsFacts DEF ScalingState
  <2>3. Outcome(reading) = [replicas |-> d.Replicas, lastScale |-> IF d.Changed THEN clock ELSE 0,
                            depth |-> reading, scaleErr |-> FALSE]
    BY <1>3 DEF Outcome
  <2>4. d.Replicas \in 0 .. MaxInt /\ (d.Changed <=> d.Replicas # cur)
    BY <1>1, <2>1, <2>2, DecideType
  <2>5. /\ p.MaxReplicas \in 1 .. MaxInt /\ p.MinReplicas \in 0 .. MaxInt
        /\ p.MaxScaleUpStep \in 1 .. MaxInt
        /\ p.ScaleUpAfter \in Nat /\ p.ScaleDownAfter \in Nat
        /\ target \in Int
    BY <2>1, <2>2, TargetType DEF IsPolicy
  <2>6. ASSUME d.Changed, last # 0, last <= clock
        PROVE  clock >= last + Window(p, cur, OrDefault(d.Replicas, 1))
    <3>1. \/ \E reason \in Reasons : d = Decision(cur, FALSE, reason)
          \/ cur > p.MaxReplicas
          \/ cur < p.MinReplicas
          \/ /\ target > cur
             /\ Elapsed(s, p.ScaleUpAfter)
             /\ d = Decision(cur + Minimum(target - cur, p.MaxScaleUpStep), TRUE,
                             "QueueAboveTarget")
          \/ /\ target < cur
             /\ Elapsed(s, p.ScaleDownAfter)
             /\ d = Decision(cur - 1, TRUE, "QueueBelowTarget")
      BY <1>1, <2>1, <2>2, DecideCases, Zenon
    <3> HIDE DEF d, target, s, p, cur, last
    <3>2. CASE \E reason \in Reasons : d = Decision(cur, FALSE, reason)
      BY <2>6, <3>2 DEF Decision
    <3>3. CASE cur > p.MaxReplicas \/ cur < p.MinReplicas
      <4>1. Window(p, cur, OrDefault(d.Replicas, 1)) = 0
        BY <3>3 DEF Window
      <4> QED
        BY <1>1, <2>6, <4>1
    <3>4. CASE /\ target > cur
               /\ Elapsed(s, p.ScaleUpAfter)
               /\ d = Decision(cur + Minimum(target - cur, p.MaxScaleUpStep), TRUE,
                               "QueueAboveTarget")
      <4>1. d.Replicas = cur + Minimum(target - cur, p.MaxScaleUpStep)
        BY <3>4 DEF Decision
      <4>2. OrDefault(d.Replicas, 1) > cur
        <5>1. target - cur \in Nat \ {0} /\ p.MaxScaleUpStep \in Nat \ {0}
          BY <1>1, <2>5, <3>4, MaxIntAssumption
        <5>2. Minimum(target - cur, p.MaxScaleUpStep) \in Nat \ {0}
          BY <5>1 DEF Minimum
        <5> QED
          BY <1>1, <4>1, <5>2, MaxIntAssumption DEF OrDefault
      <4>3. Window(p, cur, OrDefault(d.Replicas, 1)) \in {0, p.ScaleUpAfter}
        BY <4>2 DEF Window
      <4>4. clock >= last + p.ScaleUpAfter
        BY <2>2, <2>6, <3>4 DEF Elapsed
      <4> QED
        BY <1>1, <2>5, <4>3, <4>4
    <3>5. CASE /\ target < cur
               /\ Elapsed(s, p.ScaleDownAfter)
               /\ d = Decision(cur - 1, TRUE, "QueueBelowTarget")
      <4>1. d.Replicas = cur - 1
        BY <3>5 DEF Decision
      <4>2. ~(OrDefault(d.Replicas, 1) > cur)
        BY <1>1, <2>4, <4>1 DEF OrDefault
      <4>3. Window(p, cur, OrDefault(d.Replicas, 1)) \in {0, p.ScaleDownAfter}
        BY <4>2 DEF Window
      <4>4. clock >= last + p.ScaleDownAfter
        BY <2>2, <2>6, <3>5 DEF Elapsed
      <4> QED
        BY <1>1, <2>5, <4>3, <4>4
    <3> QED
      BY <3>1, <3>2, <3>3, <3>4, <3>5
  <2> HIDE DEF d
  <2> QED
    BY <2>3, <2>4, <2>6
<1> QED
  BY <1>2, <1>3

\* The calls between the write of a replica count and that of its time.
BetweenWrites == {"applyDep", "applySvc", "pdb", "status"}

\* lastScaleTime is the time of the last count the operator wrote, except while
\* the pass that wrote it is on its way to the status; a count about to be
\* written was decided on once the window since then was over.
WindowInv ==
    /\ clock > 0 /\ lastCommit <= clock /\ dec.lastScale <= clock
    /\ md # None /\ ~md.deleting =>
         \/ md.status.lastScaleTime = lastCommit
         \/ fresh /\ pc \in BetweenWrites /\ dec.lastScale = lastCommit /\ lastCommit # 0
    /\ pc \in BetweenWrites /\ fresh => dec.lastScale \in {0, lastCommit}
    /\ pc = "update" => dec.lastScale # 0
    /\ pc = "update" /\ fresh /\ lastCommit # 0 =>
         dec.lastScale >= lastCommit
             + Window(pmd.spec.autoscaling, pmd.spec.replicas, OrDefault(dec.replicas, 1))

LEMMA InitWindow == Init => WindowInv
<1> SUFFICES ASSUME Init PROVE WindowInv
  OBVIOUS
<1>1. md.status.lastScaleTime = 0
  BY InitObject DEF EmptyStatus
<1> QED
  BY <1>1 DEF Init, WindowInv, NoDecision, BetweenWrites

\* The time an accepted Update leaves in the status.
LEMMA UpdateKeepsTime ==
    ASSUME PassInv, NEW new, Updated(new), md' # None
    PROVE  /\ md'.status.lastScaleTime = md.status.lastScaleTime
           /\ md'.deleting = new.deleting
<1>1. new \in ModelDeployment /\ new.status = md.status
  BY DEF Updated
<1> DEFINE n == [new EXCEPT !.status.observed = FALSE]
<1>2. n.status.lastScaleTime = new.status.lastScaleTime /\ n.deleting = new.deleting
  BY <1>1 DEF ModelDeployment, ModelDeploymentStatus
<1> HIDE DEF n
<1>3. md' = new \/ md' = n
  BY UpdateLeaves DEF n
<1> QED
  BY <1>1, <1>2, <1>3

\* The steps outside the two writes end or continue a pass that has committed
\* nothing.
LEMMA WindowKept ==
    ASSUME PassInv, WindowInv, UNCHANGED <<md, lastCommit, clock>>,
           \/ pc \notin BetweenWrites /\ pc' \notin BetweenWrites \cup {"update"}
              /\ (UNCHANGED dec \/ dec' = NoDecision)
           \/ pc \in BetweenWrites /\ pc' \in BetweenWrites /\ UNCHANGED <<dec, fresh>>
           \/ pc' = pc /\ UNCHANGED <<dec, fresh, pmd>>
    PROVE  WindowInv'
<1>1. dec.lastScale \in Nat /\ clock \in Nat /\ lastCommit \in Nat
  BY DEF PassInv, TypeOK, DecType
<1>2. NoDecision.lastScale = 0
  BY DEF NoDecision
<1>3. pc' \in BetweenWrites => pc' # "update"
  BY DEF BetweenWrites
<1> QED
  BY <1>1, <1>2, <1>3 DEF WindowInv

LEMMA WindowStep ==
    ASSUME MaxEdits = 0, MaxFaults = 0, PassInv, WindowInv, [Next]_vars
    PROVE  WindowInv'
<1>0. /\ dec.lastScale \in Nat /\ clock \in Nat /\ lastCommit \in Nat
      /\ edits \in Nat /\ faults \in Nat
      /\ pc # "idle" => pmd \in ModelDeployment
      /\ md # None => md \in ModelDeployment
      /\ fresh => pmd = md
  BY DEF PassInv, TypeOK, DecType
<1>1. CASE \/ UNCHANGED vars \/ SyncMD \/ (\E k \in Keys : SyncJob(k)) \/ SyncDep \/ SyncPods
           \/ TimerFires \/ Drift \/ (\E c \in SharedClaims : ProvisionClaim(c))
           \/ (\E c \in Claims : LoseClaim(c)) \/ Others
  <2>1. UNCHANGED <<md, lastCommit, clock, pc, dec, fresh, pmd>>
    BY <1>1
    DEF vars, SyncMD, SyncJob, SyncDep, SyncPods, TimerFires, Drift, ProvisionClaim, LoseClaim,
        Others, Environment, locals
  <2> QED
    BY <2>1, WindowKept
<1>2. CASE Tick
  <2>1. UNCHANGED <<md, lastCommit, pc, dec, fresh, pmd>> /\ clock' = clock + 1
    BY <1>2 DEF Tick, locals
  <2> QED
    BY <1>0, <2>1 DEF WindowInv
<1>3. CASE \/ StartPass \/ EnsureClaim \/ ReconcileJob \/ ListWarmJobs
           \/ (\E k \in Keys : PruneJob(k)) \/ DeleteDeployment \/ DeleteJobs \/ ListPods
  <2>1. UNCHANGED <<md, lastCommit, clock>>
    BY <1>3
    DEF StartPass, EnsureClaim, ReconcileJob, ListWarmJobs, PruneJob, DeleteDeployment, DeleteJobs,
        ListPods, Environment
  <2>2. pc \notin BetweenWrites /\ pc' \notin BetweenWrites \cup {"update"}
    BY <1>3
    DEF StartPass, EnsureClaim, ReconcileJob, ListWarmJobs, PruneJob, DeleteDeployment, DeleteJobs,
        ListPods, BetweenWrites, Goto, Fail, Finish, ForgetPass
  <2>3. UNCHANGED dec \/ dec' = NoDecision
    BY <1>3
    DEF StartPass, EnsureClaim, ReconcileJob, ListWarmJobs, PruneJob, DeleteDeployment, DeleteJobs,
        ListPods, locals, Fail, Finish, ForgetPass
  <2> QED
    BY <2>1, <2>2, <2>3, WindowKept
<1>4. CASE ApplyDeployment \/ ApplyService \/ ReconcilePDB
  <2>1. /\ pc \in BetweenWrites /\ pc' \in BetweenWrites
        /\ UNCHANGED <<md, lastCommit, clock, dec, fresh>>
    BY <1>4
    DEF ApplyDeployment, ApplyService, ReconcilePDB, BetweenWrites, Goto, locals, Environment
  <2> QED
    BY <2>1, WindowKept
<1>5. CASE DecideReplicas
  <2>1. PICK reading \in Counts \cup {Unavailable} : dec' = Outcome(reading)
    BY <1>5, ReadingType DEF DecideReplicas
  <2>2. /\ pc = "decide" /\ pmd \in ModelDeployment
        /\ pc' = IF dec'.replicas = pmd.spec.replicas THEN "applyDep" ELSE "update"
        /\ UNCHANGED <<md, lastCommit, clock, fresh, pmd>>
    BY <1>0, <1>5 DEF DecideReplicas, Goto, Environment
  <2>3. clock \in Nat \ {0}
    BY <1>0 DEF WindowInv
  <2> DEFINE last == pmd.status.lastScaleTime
             w == Window(pmd.spec.autoscaling, pmd.spec.replicas, OrDefault(dec'.replicas, 1))
  <2>4. /\ dec'.lastScale = IF dec'.replicas = pmd.spec.replicas THEN 0 ELSE clock
        /\ dec'.replicas # pmd.spec.replicas /\ last # 0 /\ last <= clock => clock >= last + w
    BY <2>1, <2>2, <2>3, OutcomeWindow
  <2>5. fresh => last = lastCommit
    <3>1. fresh => pmd = md /\ ~md.deleting /\ md # None
      BY <1>0, <2>2, ObjectFields DEF PassInv, SyncSteps
    <3> QED
      BY <2>2, <3>1 DEF WindowInv, BetweenWrites
  <2> HIDE DEF last, w
  <2>6. pc' = "update" /\ fresh' /\ lastCommit # 0 => dec'.lastScale >= lastCommit + w
    BY <1>0, <2>2, <2>4, <2>5 DEF WindowInv
  <2>7. /\ pc' = "update" => dec'.lastScale = clock
        /\ pc' # "update" => dec'.lastScale = 0
        /\ pc \notin BetweenWrites
    BY <2>2, <2>4 DEF BetweenWrites
  <2> QED
    BY <1>0, <2>2, <2>3, <2>6, <2>7 DEF WindowInv, BetweenWrites, w
<1>6. CASE WriteReplicas
  <2>1. CASE UNCHANGED md
    <3>1. CASE ForgetPass /\ UNCHANGED lastCommit
      BY <1>6, <2>1, <3>1, WindowKept DEF WriteReplicas, ForgetPass, BetweenWrites, Environment
    <3>2. CASE fresh /\ Goto("applyDep") /\ lastCommit' = dec.lastScale /\ UNCHANGED <<fresh, dec>>
      BY <1>0, <1>6, <2>1, <3>2 DEF WriteReplicas, Goto, WindowInv, BetweenWrites, Environment
    <3> QED
      BY <1>6, <3>1, <3>2, Zenon DEF WriteReplicas, Fail, Put
  <2>2. CASE ~UNCHANGED md
    BY <1>0, <1>6, <2>2 DEF WriteReplicas, Goto, WindowInv, BetweenWrites, Environment, Put
  <2> QED
    BY <2>1, <2>2
<1>7. CASE AddFinalizer \/ ReleaseFinalizer
  <2>1. /\ pc \in {"addFin", "release"} /\ pc' = "idle" /\ dec' = NoDecision
        /\ UNCHANGED <<lastCommit, clock>>
    BY <1>7 DEF AddFinalizer, ReleaseFinalizer, Finish, Fail, ForgetPass, Environment
  <2>2. CASE UNCHANGED md
    BY <2>1, <2>2, WindowKept DEF BetweenWrites
  <2>3. ASSUME NEW b \in BOOLEAN, Updated([md EXCEPT !.spec = Stored(@), !.fin = b]), md' # None
        PROVE  /\ md # None /\ md'.deleting = md.deleting
               /\ md'.status.lastScaleTime = md.status.lastScaleTime
    <3>1. md \in ModelDeployment /\ md # None
      BY <1>0, <2>1, <2>3, ObjectFields DEF Updated
    <3> DEFINE new == [md EXCEPT !.spec = Stored(@), !.fin = b]
    <3>2. new.deleting = md.deleting
      BY <3>1, UpdateMarks, CountsFacts
    <3> HIDE DEF new
    <3>3. Updated(new)
      BY <2>3 DEF new
    <3> QED
      BY <2>3, <3>1, <3>2, <3>3, UpdateKeepsTime
  <2>4. md' # None /\ ~md'.deleting => md'.status.lastScaleTime = lastCommit
    <3>1. \/ UNCHANGED md
          \/ \E b \in BOOLEAN : Updated([md EXCEPT !.spec = Stored(@), !.fin = b])
      <4>1. ~WriteStatus /\ ~DeleteMD /\ ~(\E s \in Specs : EditSpec(s)) /\ pc # "update"
        BY <1>0, <2>1 DEF WriteStatus, DeleteMD, EditSpec
      <4> QED
        BY <4>1, ObjectWrites, Zenon
    <3> QED
      BY <2>1, <2>3, <3>1 DEF WindowInv, BetweenWrites
  <2> QED
    BY <1>0, <2>1, <2>4 DEF WindowInv, BetweenWrites, NoDecision
<1>8. CASE WriteStatus
  <2>1. /\ pc = "status" /\ pc' = "idle" /\ dec' = NoDecision
        /\ UNCHANGED <<lastCommit, clock>>
        /\ pmd \in ModelDeployment
    BY <1>0, <1>8 DEF WriteStatus, Finish, Fail, ForgetPass, Environment
  <2>2. NextStatus.lastScaleTime =
          IF dec.lastScale = 0 THEN pmd.status.lastScaleTime ELSE dec.lastScale
    BY DEF NextStatus, BuildStatus, LastScaleTime
  <2>3. md' # None /\ ~md'.deleting => md'.status.lastScaleTime = lastCommit
    <3>1. CASE UNCHANGED md /\ ~fresh
      BY <3>1 DEF WindowInv
    <3>2. CASE UNCHANGED md /\ fresh /\ NextStatus = pmd.status
      BY <1>0, <2>1, <2>2, <3>2 DEF WindowInv, BetweenWrites
    <3>3. CASE fresh /\ md' = [md EXCEPT !.status = NextStatus]
      <4>1. pmd = md
        BY <1>0, <3>3
      <4>2. md'.status = NextStatus /\ ~md.deleting /\ md # None
        BY <2>1, <3>3, <4>1, StatusType, ObjectUpdates, ObjectFields DEF PassInv, SyncSteps
      <4> QED
        BY <2>1, <2>2, <3>3, <4>1, <4>2 DEF WindowInv, BetweenWrites
    <3> QED
      BY <1>8, <3>1, <3>2, <3>3, Zenon DEF WriteStatus
  <2> QED
    BY <1>0, <2>1, <2>3 DEF WindowInv, BetweenWrites, NoDecision
<1>9. CASE DeleteMD
  <2>1. /\ md' = None \/ md'.deleting
        /\ fresh' = FALSE
        /\ UNCHANGED <<lastCommit, clock, dec, pc>>
    BY <1>0, <1>9, MarksKept DEF DeleteMD
  <2> QED
    BY <1>0, <2>1 DEF WindowInv
<1>10. CASE Abort \/ (\E s \in Specs : EditSpec(s))
  <2>1. faults < 0 \/ edits < 0
    BY <1>10 DEF Abort, EditSpec
  <2> QED
    BY <1>0, <2>1
<1> QED
  BY <1>1, <1>2, <1>3, <1>4, <1>5, <1>6, <1>7, <1>8, <1>9, <1>10, Zenon
  DEF Next, Pass, Informers, User, PromptEvent

\* decideReplicas, lastScaleTime and the conflict check of Update together: as
\* long as no pass is cut short between its two writes, by a fault or by an edit
\* that makes the second one conflict, two replica counts the operator writes are
\* decided at least the window of the later one apart, however late the caches
\* are and for every policy, load and length of run.  The run window_lost shows
\* that the premise on faults is needed.
THEOREM WindowsHold ==
    ASSUME MaxEdits = 0, MaxFaults = 0
    PROVE  Spec => WindowBetweenWrites
<1> DEFINE Waited == pc = "update" /\ pc' = "applyDep" /\ md' # md /\ lastCommit # 0 =>
                       dec.lastScale >= lastCommit
                         + Window(md.spec.autoscaling, md.spec.replicas, md'.spec.replicas)
<1>1. PassInv /\ WindowInv /\ [Next]_vars => WindowInv'
  BY WindowStep
<1>2. ASSUME PassInv, WindowInv, [Next]_vars PROVE Waited
  <2> SUFFICES ASSUME pc = "update", pc' = "applyDep", md' # md, lastCommit # 0
               PROVE  dec.lastScale >= lastCommit
                        + Window(md.spec.autoscaling, md.spec.replicas, md'.spec.replicas)
    OBVIOUS
  <2> DEFINE u == Stored([md.spec EXCEPT !.replicas = dec.replicas])
             new == [md EXCEPT !.spec = u]
  <2>1. Updated(new)
    <3>1. ~WriteStatus /\ ~DeleteMD /\ ~(\E s \in Specs : EditSpec(s))
      BY DEF WriteStatus, DeleteMD, EditSpec
    <3> QED
      BY <1>2, <3>1, ObjectWrites, Zenon
  <2>2. md \in ModelDeployment /\ fresh /\ pmd = md /\ dec.replicas \in Counts
    BY <1>2, <2>1, ObjectFields DEF Updated, PassInv, TypeOK, DecType
  <2>3. u.replicas = OrDefault(dec.replicas, 1)
    BY <2>2, ObjectFields DEF Stored, ModelDeploymentSpec
  <2> HIDE DEF u
  <2>4. new.spec = u /\ new.deleting = md.deleting
    BY <2>2 DEF ModelDeployment
  <2> HIDE DEF new
  <2>5. ~md.deleting
    BY <1>2, <2>2 DEF PassInv, SyncSteps
  <2>6. md' # None
    BY <2>1, <2>2, <2>4, <2>5, Unobserved, ObjectFields DEF Updated, Put
  <2>7. md'.spec = u
    BY <1>2, <2>1, <2>4, <2>6, UpdateLeaves
  <2> QED
    BY <1>2, <2>2, <2>3, <2>7 DEF WindowInv
<1>3. PassInv /\ WindowInv /\ [Next]_vars => [Waited]_vars
  BY <1>2
<1> QED
  BY <1>1, <1>3, InitWindow, PassAlways, PTL DEF Spec, WindowBetweenWrites
=============================================================================
