---------------------------- MODULE ManagerProofs ----------------------------
(***************************************************************************)
(* Two managers at once.  What the conflict checks, the watches and the    *)
(* list a new leader starts with keep true while a deposed leader finishes *)
(* its pass over the work of its successor.                                *)
(*                                                                         *)
(* The deposed leader's pass is a pass of module Reconciler like any       *)
(* other, with caches that nobody brings up to date: Former is the theory  *)
(* of such a pass, so that what is proved of the steps of one pass is      *)
(* proved of his.  What is left is that neither manager's steps take away  *)
(* what the other one relies on.                                           *)
(***************************************************************************)
EXTENDS Manager, GateProofs, ConvergenceProofs

Former == INSTANCE GateProofs WITH
    pc <- opc, pmd <- opmd, fresh <- ofresh, cache <- ocache, stale <- ostale, dec <- odec,
    mdCache <- omdCache, mdFresh <- omdFresh, jobsCache <- ojobsCache, depCache <- odepCache,
    podsCache <- opodsCache, queued <- oqueued, timer <- otimer, Prompt <- {}

-----------------------------------------------------------------------------
(* The two vocabularies *)

\* What does not mention the pass is the same for both.
LEMMA SameSets ==
    /\ Former!Counts = Counts
    /\ Former!Keys = Keys
    /\ Former!Claims = Claims
    /\ Former!AutoscalingSpec = AutoscalingSpec
    /\ Former!ModelDeploymentSpec = ModelDeploymentSpec
    /\ Former!ModelDeployment = ModelDeployment
    /\ Former!PodTemplate = PodTemplate
    /\ Former!Deployments = Deployments
    /\ Former!Jobs = Jobs
<1>1. Former!Counts = Counts /\ Former!Keys = Keys /\ Former!Claims = Claims
  BY DEF Former!Counts, Counts, Former!Keys, Keys, Former!Claims, Claims
<1>2. Former!AutoscalingSpec = AutoscalingSpec
  BY <1>1 DEF Former!AutoscalingSpec, AutoscalingSpec
<1>3. Former!ModelDeploymentSpec = ModelDeploymentSpec
  BY <1>1, <1>2
  DEF Former!ModelDeploymentSpec, ModelDeploymentSpec, Former!WeightCaches, WeightCaches
<1>4. Former!ModelDeploymentStatus = ModelDeploymentStatus
  BY <1>1
  DEF Former!ModelDeploymentStatus, ModelDeploymentStatus, Former!CachedReasons, CachedReasons,
      Former!ReadyReasons, ReadyReasons, Former!DegradedReasons, DegradedReasons
<1>5. Former!ModelDeployment = ModelDeployment
  BY <1>3, <1>4 DEF Former!ModelDeployment, ModelDeployment
<1>6. Former!PodTemplate = PodTemplate
  BY <1>1 DEF Former!PodTemplate, PodTemplate
<1>7. Former!Deployments = Deployments
  BY <1>1, <1>6 DEF Former!Deployments, Deployments
<1>8. Former!Jobs = Jobs
  BY <1>1 DEF Former!Jobs, Jobs
<1> QED
  BY <1>1, <1>2, <1>3, <1>5, <1>6, <1>7, <1>8

\* The assumptions on the constants hold for the theory of the deposed pass.
LEMMA FormerAssumptions ==
    /\ MaxInt \in Nat \ {0}
    /\ Unavailable \notin Int
    /\ /\ OwnClaim \notin SharedClaims
       /\ NoCache \notin SharedClaims \cup {Managed, OwnClaim}
       /\ Managed \notin SharedClaims
    /\ DefaultScaleUp \in Nat \ {0} /\ DefaultScaleDown \in Nat \ {0}
    /\ NoAutoscaling \notin Former!AutoscalingSpec
    /\ None \notin Former!Keys \cup Former!ModelDeployment
    /\ None \notin Former!Deployments \cup Former!Jobs
    /\ Working \subseteq Runtimes /\ BackoffLimit \in Nat
    /\ Former!IsFiniteSet(Former!PodTemplate)
    /\ Specs \subseteq Former!ModelDeploymentSpec /\ FirstSpecs \subseteq Specs
    /\ Depths \subseteq Former!Counts
    /\ /\ {MaxEdits, MaxDeletes, MaxDrifts, MaxLosses, MaxFaults, MaxTime} \subseteq Nat
       /\ WarmFails \in BOOLEAN
       /\ {} \subseteq {"md", "jobs", "dep", "pods"}
    /\ None \notin Former!PodTemplate
<1>1. Former!IsFiniteSet(PodTemplate)
  BY FiniteAssumption DEF Former!IsFiniteSet, IsFiniteSet
<1> QED
  BY <1>1, SameSets, MaxIntAssumption, UnavailableAssumption, ClaimsAssumption,
     DefaultsAssumption, AbsentAssumption, NoneAssumption, NoChildAssumption, WarmAssumption,
     SpecsAssumption, DepthsAssumption, BoundsAssumption, NothingAssumption, Zenon

LEMMA FormerPassStep == Former!PassInv /\ [Former!Next]_(Former!vars) => Former!PassInv'
BY Former!PassStep, FormerAssumptions, Zenon

\* The calls of module Manager are calls of the deposed pass.
LEMMA DeposedIsPass == DeposedPass => Former!Pass
<1> USE DEF Old!Goto, Former!Goto, Old!Finish, Former!Finish, Old!Fail, Former!Fail,
            Old!ForgetPass, Former!ForgetPass, Old!DisabledCache, Former!DisabledCache,
            Old!NoDecision, Former!NoDecision, Old!clusterVars, Former!clusterVars, Old!children,
            Former!children, Old!workload, Former!workload, Old!volume, Former!volume,
            Old!informers, Former!informers, Old!locals, Former!locals, Old!Caches, Former!Caches,
            Old!Environment, Former!Environment, Old!budgets, Former!budgets, Old!Keys,
            Former!Keys, Old!CacheKey, Former!CacheKey, Old!HasCache, Former!HasCache,
            Old!PVCName, Former!PVCName, Old!Put, Former!Put, Old!Stored, Former!Stored,
            Old!OrDefault, Former!OrDefault, Old!StoredPolicy, Former!StoredPolicy,
            Old!StoredAutoscaling, Former!StoredAutoscaling
<1>1. Old!AddFinalizer => Former!AddFinalizer
  BY DEF Old!AddFinalizer, Former!AddFinalizer
<1>2. Old!EnsureClaim => Former!EnsureClaim
  BY DEF Old!EnsureClaim, Former!EnsureClaim, Old!OwnsPVC, Former!OwnsPVC
<1>3. Old!ReconcileJob => Former!ReconcileJob
  BY Zenon
  DEF Old!ReconcileJob, Former!ReconcileJob, Old!WarmJob, Former!WarmJob, Old!ColdCache,
      Former!ColdCache, Old!JobState, Former!JobState
<1>4. Old!ListWarmJobs => Former!ListWarmJobs
  BY DEF Old!ListWarmJobs, Former!ListWarmJobs
<1>5. (\E k \in Keys : Old!PruneJob(k)) => \E k \in Former!Keys : Former!PruneJob(k)
  BY DEF Old!PruneJob, Former!PruneJob, Old!DeleteJob, Former!DeleteJob, Old!Orphan,
         Former!Orphan, Old!LeftBehind, Former!LeftBehind, Keys
<1>6. Old!DecideReplicas => Former!DecideReplicas
  BY Zenon
  DEF Old!DecideReplicas, Former!DecideReplicas, Old!DepthReadings, Former!DepthReadings,
      Old!ServingPodsExist, Former!ServingPodsExist, Old!PodTemplate, Former!PodTemplate,
      Old!Claims, Former!Claims, Old!Outcome, Former!Outcome, Old!Decide, Former!Decide,
      Old!Target, Former!Target, Old!Clamp, Former!Clamp, Old!Minimum, Former!Minimum,
      Old!Maximum, Former!Maximum, Old!CeilDiv, Former!CeilDiv, Old!Quo, Former!Quo, Old!Wrap,
      Former!Wrap, Old!Decision, Former!Decision,
      Old!Hold, Former!Hold, Old!Grow, Former!Grow, Old!Elapsed, Former!Elapsed, Old!Shrink,
      Former!Shrink, Old!ScalingState, Former!ScalingState
<1>7. Old!WriteReplicas => Former!WriteReplicas
  BY DEF Old!WriteReplicas, Former!WriteReplicas
<1>8. Old!ApplyDeployment => Former!ApplyDeployment
  BY Zenon
  DEF Old!ApplyDeployment, Former!ApplyDeployment, Old!Deployment, Former!Deployment,
      Old!Template, Former!Template, Old!WeightsVolume, Former!WeightsVolume, Old!Paused,
      Former!Paused
<1>9. Old!ApplyService => Former!ApplyService
  BY DEF Old!ApplyService, Former!ApplyService
<1>10. Old!ReconcilePDB => Former!ReconcilePDB
  BY Zenon
  DEF Old!ReconcilePDB, Former!ReconcilePDB, Old!PDBMinAvailable, Former!PDBMinAvailable,
      Old!Minimum, Former!Minimum
<1>11. Old!WriteStatus => Former!WriteStatus
  BY Zenon
  DEF Old!WriteStatus, Former!WriteStatus, Old!NextStatus, Former!NextStatus, Old!BuildStatus,
      Former!BuildStatus, Old!LastScaleTime, Former!LastScaleTime, Old!WeightsCached,
      Former!WeightsCached, Old!Ready, Former!Ready, Old!Degraded, Former!Degraded,
      Old!ObservedWorkload, Former!ObservedWorkload, Old!Paused, Former!Paused, Old!Requeue,
      Former!Requeue
<1>12. Old!DeleteDeployment => Former!DeleteDeployment
  BY DEF Old!DeleteDeployment, Former!DeleteDeployment
<1>13. Old!DeleteJobs => Former!DeleteJobs
  BY Zenon
  DEF Old!DeleteJobs, Former!DeleteJobs, Old!DeleteAllJobs, Former!DeleteAllJobs, Old!Orphan,
      Former!Orphan, Old!LeftBehind, Former!LeftBehind
<1>14. Old!ListPods => Former!ListPods
  BY DEF Old!ListPods, Former!ListPods
<1>15. Old!ReleaseFinalizer => Former!ReleaseFinalizer
  BY DEF Old!ReleaseFinalizer, Former!ReleaseFinalizer
<1> QED
  BY <1>1, <1>2, <1>3, <1>4, <1>5, <1>6, <1>7, <1>8, <1>9, <1>10, <1>11, <1>12,
     <1>13, <1>14, <1>15, Zenon DEF DeposedPass, Former!Pass

\* His caches lag behind nothing that he would wait for.
LEMMA DeposedIsNext == DeposedPass => Former!Next
BY DeposedIsPass DEF Former!Next, Former!UpToDate

-----------------------------------------------------------------------------
(* What each of the two passes may rely on *)

\* Types of what the managers share.
SharedInv ==
    /\ ClusterTypeOK
    /\ WarmPodsHaveJobs
    /\ md \in ModelDeployment \cup {None}
    /\ clock \in Nat /\ lastCommit \in Nat
    /\ edits \in Nat /\ deletes \in Nat /\ drifts \in Nat /\ losses \in Nat /\ faults \in Nat

\* The deposed leader starts no pass: nobody feeds his copy of the object and
\* his work queue.
QuietInv == omdCache = None /\ omdFresh = FALSE /\ oqueued = TRUE /\ otimer = TRUE

\* PassInv of the deposed leader.
DeposedInv ==
    /\ QuietInv
    /\ ojobsCache \in [Keys -> Jobs \cup {None}]
    /\ odepCache \in DepView
    /\ opodsCache \in BOOLEAN /\ ofresh \in BOOLEAN
    /\ opc \in Steps
    /\ opmd \in ModelDeployment \cup {None}
    /\ opc # "idle" => opmd # None
    /\ ocache \in CacheState
    /\ ostale \subseteq Keys
    /\ odec \in DecType
    /\ ofresh => opc # "idle" /\ opmd = md
    /\ opc \in SyncSteps \cup {"addFin"} => ~opmd.deleting
    /\ opc = "idle" => ocache = DisabledCache

PairInv == PassInv /\ DeposedInv

LEMMA PassShares == PassInv => SharedInv
BY DEF PassInv, TypeOK, SharedInv

LEMMA SameClusterTypes ==
    /\ Former!ClusterTypeOK <=> ClusterTypeOK
    /\ Former!WarmPodsHaveJobs <=> WarmPodsHaveJobs
    /\ (Former!ClusterTypeOK <=> ClusterTypeOK)'
    /\ (Former!WarmPodsHaveJobs <=> WarmPodsHaveJobs)'
<1>1. Former!OrphanPods = OrphanPods /\ Former!PodSteps = PodSteps
  BY SameSets
  DEF Former!OrphanPods, OrphanPods, Former!OrphanSteps, OrphanSteps, Former!PodSteps, PodSteps
<1> QED
  BY <1>1, SameSets
  DEF Former!ClusterTypeOK, ClusterTypeOK, Former!WarmPodsHaveJobs, WarmPodsHaveJobs

LEMMA SameTypes ==
    /\ Former!DepView = DepView
    /\ Former!Steps = Steps
    /\ Former!SyncSteps = SyncSteps
    /\ Former!CacheState = CacheState
    /\ Former!DecType = DecType
    /\ Former!DisabledCache = DisabledCache
BY SameSets
DEF Former!DepView, DepView, Former!Steps, Steps, Former!SyncSteps, SyncSteps,
    Former!FinalizeSteps, FinalizeSteps, Former!CacheState, CacheState, Former!DecType, DecType,
    Former!DisabledCache, DisabledCache

LEMMA FormerPassInv == QuietInv => (Former!PassInv <=> SharedInv /\ DeposedInv)
BY SameSets, SameClusterTypes, SameTypes
DEF Former!PassInv, Former!TypeOK, SharedInv, DeposedInv, QuietInv

LEMMA FormerPassInvNext == QuietInv' => (Former!PassInv' <=> SharedInv' /\ DeposedInv')
BY SameSets, SameClusterTypes, SameTypes
DEF Former!PassInv, Former!TypeOK, SharedInv, DeposedInv, QuietInv

\* The other's step, as a manager sees it: its own pass is where it was, and
\* its copies of the object are no longer current if the object was written.
LEMMA LeaderKept ==
    ASSUME PassInv, SharedInv', queued' \in BOOLEAN,
           fresh' = (fresh /\ md' = md), mdFresh' = (mdFresh /\ md' = md),
           UNCHANGED <<mdCache, jobsCache, depCache, podsCache, timer, pc, pmd, cache, stale, dec>>
    PROVE  PassInv'
<1>1. /\ fresh' \in BOOLEAN /\ mdFresh' \in BOOLEAN
      /\ fresh' => pc # "idle" /\ pmd = md'
      /\ mdFresh' => mdCache = md'
  BY Zenon DEF PassInv, TypeOK
<1> QED
  BY <1>1 DEF PassInv, TypeOK, SharedInv

LEMMA DeposedKept ==
    ASSUME DeposedInv, ofresh' = (ofresh /\ md' = md),
           UNCHANGED <<opc, opmd, ocache, ostale, odec, deposedCaches>>
    PROVE  DeposedInv'
<1>1. ofresh' \in BOOLEAN /\ (ofresh' => opc # "idle" /\ opmd = md')
  BY Zenon DEF DeposedInv
<1> QED
  BY <1>1 DEF DeposedInv, QuietInv, deposedCaches

\* What is left of a pass that is over.
LEMMA NothingHeld ==
    /\ DisabledCache \in CacheState
    /\ NoDecision \in DecType
    /\ NoJobs \in [Keys -> Jobs \cup {None}]
    /\ NoDep \in DepView
    /\ "idle" \in Steps /\ "idle" \notin SyncSteps \cup {"addFin"}
BY CountsFacts
DEF DisabledCache, CacheState, NoDecision, DecType, NoJobs, NoDep, DepView, Steps, SyncSteps

LEMMA InitPair == ManagerInit => PairInv
<1> SUFFICES ASSUME ManagerInit PROVE PairInv
  OBVIOUS
<1>1. PassInv
  BY InitPass DEF ManagerInit
<1>2. DeposedInv
  BY NothingHeld DEF ManagerInit, DeposedInv, QuietInv
<1> QED
  BY <1>1, <1>2 DEF PairInv

\* The new leader has listed everything and holds nothing; the deposed one has
\* the pass and the caches the leader had.
LEMMA TakeoverPair ==
    ASSUME PairInv, Takeover
    PROVE  PairInv'
<1>1. PassInv /\ DeposedInv /\ SharedInv
  BY PassShares DEF PairInv
<1>2. UNCHANGED <<clusterVars, md, clock, budgets, lastCommit>>
  BY DEF Takeover
<1>3. SharedInv'
  <2>1. ClusterTypeOK' /\ WarmPodsHaveJobs'
    BY <1>1, <1>2, SameCluster DEF SharedInv, ClusterInv
  <2> QED
    BY <1>1, <1>2, <2>1 DEF SharedInv, budgets
<1>4. depCache' \in DepView /\ jobsCache' \in [Keys -> Jobs \cup {None}] /\ podsCache' \in BOOLEAN
  BY <1>1, DepNowType DEF Takeover, ListAll, SharedInv, ClusterTypeOK, PodsExist
<1>5. /\ mdCache' = md' /\ mdCache' \in ModelDeployment \cup {None}
      /\ mdFresh' \in BOOLEAN /\ queued' \in BOOLEAN /\ timer' \in BOOLEAN
  BY <1>1, <1>2, Zenon DEF Takeover, ListAll, SharedInv
<1>6. ForgetPass
  BY DEF Takeover
<1>7. PassInv'
  BY <1>3, <1>4, <1>5, <1>6, NothingHeld DEF PassInv, TypeOK, SharedInv, ForgetPass
<1>8. /\ opc' = pc /\ opmd' = pmd /\ ofresh' = fresh /\ ocache' = cache /\ ostale' = stale
      /\ odec' = dec /\ ojobsCache' = jobsCache /\ odepCache' = depCache
      /\ opodsCache' = podsCache /\ md' = md /\ UNCHANGED <<omdCache, omdFresh, oqueued, otimer>>
  BY DEF Takeover
<1>9. DeposedInv'
  BY <1>1, <1>8 DEF DeposedInv, QuietInv, PassInv, TypeOK
<1> QED
  BY <1>7, <1>9 DEF PairInv

LEMMA PairStep == PairInv /\ [ManagerNext]_managerVars => PairInv'
<1> SUFFICES ASSUME PairInv, [ManagerNext]_managerVars PROVE PairInv'
  OBVIOUS
<1>0. PassInv /\ DeposedInv /\ SharedInv
  BY PassShares DEF PairInv
<1>1. CASE UNCHANGED managerVars
  <2>1. UNCHANGED vars /\ UNCHANGED <<deposed, deposedCaches>>
    BY <1>1 DEF managerVars
  <2>2. PassInv'
    BY <1>0, <2>1, PassStep
  <2>3. md' = md /\ UNCHANGED <<opc, opmd, ofresh, ocache, ostale, odec>>
    BY <2>1 DEF vars, deposed
  <2>4. ofresh \in BOOLEAN
    BY <1>0 DEF DeposedInv
  <2>5. ofresh' = (ofresh /\ md' = md)
    BY <2>3, <2>4, Zenon
  <2>6. DeposedInv'
    BY <1>0, <2>1, <2>3, <2>5, DeposedKept
  <2> QED
    BY <2>2, <2>6 DEF PairInv
<1>2. CASE LeaderStep
  <2>1. PassInv'
    BY <1>0, <1>2, PassStep DEF LeaderStep
  <2>2. DeposedInv'
    BY <1>0, <1>2, DeposedKept DEF LeaderStep
  <2> QED
    BY <2>1, <2>2 DEF PairInv
<1>3. CASE Takeover
  BY <1>3, TakeoverPair
<1>4. CASE DeposedStep
  <2>1. QuietInv /\ QuietInv'
    BY <1>0, <1>4 DEF DeposedInv, QuietInv, DeposedStep, deposedCaches
  <2>2. Former!PassInv
    BY <1>0, <2>1, FormerPassInv
  <2>3. Former!PassInv'
    BY <1>4, <2>2, DeposedIsNext, FormerPassStep DEF DeposedStep
  <2>4. SharedInv' /\ DeposedInv'
    BY <2>1, <2>3, FormerPassInvNext
  <2>5. queued' \in BOOLEAN
    BY <1>4, Zenon DEF DeposedStep
  <2>6. PassInv'
    BY <1>0, <1>4, <2>4, <2>5, LeaderKept DEF DeposedStep
  <2> QED
    BY <2>4, <2>6 DEF PairInv
<1>5. CASE DeposedExits
  <2>1. PassInv'
    BY <1>0, <1>5, PassStep DEF DeposedExits
  <2>2. DeposedInv'
    BY <1>0, <1>5, NothingHeld
    DEF DeposedExits, DeposedInv, QuietInv, Old!ForgetPass, Old!DisabledCache, DisabledCache,
        Old!NoDecision, NoDecision
  <2> QED
    BY <2>1, <2>2 DEF PairInv
<1> QED
  BY <1>1, <1>2, <1>3, <1>4, <1>5 DEF ManagerNext

LEMMA PairAlways == ManagerSpec => []PairInv
BY InitPair, PairStep, PTL DEF ManagerSpec

\* A step is the leader's, or nobody's as far as the leader can see; a takeover;
\* or a call of the deposed leader.  Only in the last two does he hold anything
\* that he did not hold before.
DeposedWaits ==
    \/ UNCHANGED <<opc, opmd, ocache, ojobsCache>>
    \/ opc' = "idle" /\ ocache' = DisabledCache /\ ojobsCache' = NoJobs

LEMMA WhoMoves ==
    ASSUME [ManagerNext]_managerVars
    PROVE  \/ [Next]_vars /\ DeposedWaits
           \/ Takeover
           \/ DeposedStep
BY DEF ManagerNext, managerVars, LeaderStep, DeposedExits, DeposedWaits, deposed, deposedCaches,
       Old!ForgetPass, Old!DisabledCache, DisabledCache

LEMMA DeposedMoves ==
    ASSUME PairInv, DeposedStep
    PROVE  Former!PassInv /\ Former!PassInv' /\ Former!Next
<1>1. QuietInv /\ SharedInv /\ DeposedInv
  BY PassShares DEF PairInv, DeposedInv
<1>2. Former!PassInv
  BY <1>1, FormerPassInv
<1> QED
  BY <1>2, DeposedIsNext, FormerPassStep DEF DeposedStep

\* Types hold for both managers, whoever writes what over whose work.
THEOREM PairTypes == ManagerSpec => [](TypeOK /\ DeposedInv)
<1>1. PairInv => TypeOK /\ DeposedInv
  BY DEF PairInv, PassInv
<1> QED
  BY <1>1, PairAlways, PTL

-----------------------------------------------------------------------------
(* The status describes the spec *)

\* StatusInv of the deposed leader.
DeposedStatus ==
    /\ opc \in {"claim", "job"} => HasCache(opmd.spec)
    /\ opc \in SyncSteps \ {"claim", "job"} => (ocache.enabled <=> HasCache(opmd.spec))

StatusPair == StatusInv /\ DeposedStatus

LEMMA FormerStatusInv ==
    /\ Former!StatusInv <=> DeposedStatus /\ StatusMatchesSpec
    /\ (Former!StatusInv <=> DeposedStatus /\ StatusMatchesSpec)'
BY Zenon
DEF Former!StatusInv, DeposedStatus, Former!StatusMatchesSpec, StatusMatchesSpec,
    Former!SyncSteps, SyncSteps, Former!HasCache, HasCache, Former!CacheKey, CacheKey

LEMMA FormerStatusStep ==
    Former!PassInv /\ Former!PassInv' /\ Former!StatusInv /\ Former!Next => Former!StatusInv'
BY Former!StatusStep, FormerAssumptions, Zenon

LEMMA StatusPairStep ==
    PairInv /\ PairInv' /\ StatusPair /\ [ManagerNext]_managerVars => StatusPair'
<1> SUFFICES ASSUME PairInv, PairInv', StatusPair, [ManagerNext]_managerVars PROVE StatusPair'
  OBVIOUS
<1>0. PassInv /\ PassInv' /\ StatusInv /\ DeposedStatus /\ StatusMatchesSpec
  BY DEF PairInv, StatusPair, StatusInv
<1>1. CASE [Next]_vars /\ DeposedWaits
  <2>1. StatusInv'
    BY <1>0, <1>1, StatusStep
  <2>2. DeposedStatus'
    BY <1>0, <1>1 DEF DeposedStatus, DeposedWaits, SyncSteps
  <2> QED
    BY <2>1, <2>2 DEF StatusPair
<1>2. CASE Takeover
  <2>1. UNCHANGED md /\ pc' = "idle" /\ opc' = pc /\ opmd' = pmd /\ ocache' = cache
    BY <1>2 DEF Takeover, ForgetPass
  <2> QED
    BY <1>0, <2>1, SameObject DEF StatusPair, StatusInv, DeposedStatus, SyncSteps
<1>3. CASE DeposedStep
  <2>1. Former!PassInv /\ Former!PassInv' /\ Former!Next
    BY <1>3, DeposedMoves
  <2>2. DeposedStatus' /\ StatusMatchesSpec'
    BY <1>0, <2>1, FormerStatusInv, FormerStatusStep
  <2>3. UNCHANGED <<pc, pmd, cache>>
    BY <1>3 DEF DeposedStep
  <2> QED
    BY <1>0, <2>2, <2>3 DEF StatusPair, StatusInv
<1> QED
  BY <1>1, <1>2, <1>3, WhoMoves

LEMMA StatusPairAlways == ManagerSpec => []StatusPair
<1>1. ManagerInit => StatusPair
  BY DEF ManagerInit, Init, StatusPair, StatusInv, DeposedStatus, SyncSteps, StatusMatchesSpec,
         EmptyStatus
<1> QED
  BY <1>1, StatusPairStep, PairAlways, PTL DEF ManagerSpec

\* The conflict check of writeStatus stands in for the missing fence: neither
\* the leader nor a deposed leader labels what it learned from an older spec
\* with the generation of a newer one.
THEOREM PairStatusIsOfItsSpec == ManagerSpec => []StatusMatchesSpec
<1>1. StatusPair => StatusMatchesSpec
  BY DEF StatusPair, StatusInv
<1> QED
  BY <1>1, StatusPairAlways, PTL

\* Ready=True beside a warm-up that is still running: the deposed leader reports
\* no such thing either.
LEMMA FormerAgreeStep ==
    Former!PassInv /\ Former!StatusInv /\ Former!ReadyNotWhileWarming /\ Former!Next
      => Former!ReadyNotWhileWarming'
BY Former!AgreeStep, FormerAssumptions, Zenon

\* statusBuilder's conditions agree with each other while two managers write the
\* status in turn.
THEOREM PairConditionsAgree == ManagerSpec => []ReadyNotWhileWarming
<1>1. ManagerInit => ReadyNotWhileWarming
  BY InitObject DEF ManagerInit, ReadyNotWhileWarming, EmptyStatus
<1>2. PairInv /\ StatusPair /\ ReadyNotWhileWarming /\ [ManagerNext]_managerVars
        => ReadyNotWhileWarming'
  <2> SUFFICES ASSUME PairInv, StatusPair, ReadyNotWhileWarming, [ManagerNext]_managerVars
               PROVE  ReadyNotWhileWarming'
    OBVIOUS
  <2>1. CASE [Next]_vars
    BY <2>1, AgreeStep DEF PairInv, StatusPair
  <2>2. CASE Takeover
    BY <2>2 DEF Takeover, ReadyNotWhileWarming
  <2>3. CASE DeposedStep
    <3>1. Former!PassInv /\ Former!Next
      BY <2>3, DeposedMoves
    <3>2. Former!StatusInv
      BY FormerStatusInv DEF StatusPair, StatusInv
    <3> QED
      BY <3>1, <3>2, FormerAgreeStep DEF Former!ReadyNotWhileWarming, ReadyNotWhileWarming
  <2> QED
    BY <2>1, <2>2, <2>3, WhoMoves
<1> QED
  BY <1>1, <1>2, PairAlways, StatusPairAlways, PTL DEF ManagerSpec

-----------------------------------------------------------------------------
(* The user's edits *)

LEMMA FormerPlainStep ==
    ASSUME \A s \in Specs : Former!NoZeroes(s), Former!PassInv, Former!PlainInv, Former!Next
    PROVE  /\ Former!PlainInv'
           /\ md # None /\ md' # None /\ edits' = edits =>
                md'.spec = [md.spec EXCEPT !.replicas = md'.spec.replicas]
BY Former!PlainStep, FormerAssumptions, Zenon

LEMMA PlainPairStep ==
    ASSUME \A s \in Specs : NoZeroes(s), PairInv, PlainInv, [ManagerNext]_managerVars
    PROVE  /\ PlainInv'
           /\ md # None /\ md' # None /\ edits' = edits =>
                md'.spec = [md.spec EXCEPT !.replicas = md'.spec.replicas]
<1>0. md # None => md.spec \in ModelDeploymentSpec
  BY ObjectFields DEF PairInv, PassInv, TypeOK
<1>1. CASE [Next]_vars
  BY <1>1, PlainStep DEF PairInv
<1>2. CASE Takeover
  BY <1>0, <1>2 DEF Takeover, PlainInv, ModelDeploymentSpec
<1>3. CASE DeposedStep
  <2>1. Former!PassInv /\ Former!Next
    BY <1>3, DeposedMoves
  <2>2. (\A s \in Specs : Former!NoZeroes(s)) /\ Former!PlainInv
    BY DEF Former!NoZeroes, NoZeroes, Former!PlainInv, PlainInv
  <2> QED
    BY <2>1, <2>2, FormerPlainStep DEF Former!NoZeroes, NoZeroes, Former!PlainInv, PlainInv
<1> QED
  BY <1>1, <1>2, <1>3, WhoMoves

\* The resourceVersion protects the user's edits from both managers: as long as
\* no spec uses a zero that the API server would default, the Updates of the
\* leader and of the deposed leader change nothing of the spec but the replica
\* count.
THEOREM PairEditsAreKept ==
    ASSUME \A s \in Specs : NoZeroes(s)
    PROVE  ManagerSpec => OperatorWritesOnlyReplicas
<1>1. ManagerInit => PlainInv
  BY InitObject DEF ManagerInit, PlainInv
<1>2. PairInv /\ PlainInv /\ [ManagerNext]_managerVars => PlainInv'
  BY PlainPairStep
<1>3. PairInv /\ PlainInv /\ [ManagerNext]_managerVars =>
        [md # None /\ md' # None /\ edits' = edits =>
           md'.spec = [md.spec EXCEPT !.replicas = md'.spec.replicas]]_vars
  BY PlainPairStep
<1> QED
  BY <1>1, <1>2, <1>3, PairAlways, PTL DEF ManagerSpec, OperatorWritesOnlyReplicas

-----------------------------------------------------------------------------
(* The gate *)

\* What GateInv says of what the managers share, and of the deposed leader.
SharedGate(v) ==
    /\ md # None => OnVolume(v, md.spec)
    /\ JobsOnVolume(v, jobs)
    /\ PodsFinished(v)
    /\ GateOpen
    /\ ServeOnlyCachedWeights
    /\ CachedIsReal(v)

DeposedGate(v) ==
    /\ opc # "idle" => OnVolume(v, opmd.spec)
    /\ JobsOnVolume(v, ojobsCache)
    /\ ocache.warm => /\ opc # "idle"
                      /\ HasCache(opmd.spec)
                      /\ <<v, CacheKey(opmd.spec)>> \in marker

GatePair(v) == GateInv(v) /\ DeposedGate(v)

LEMMA FormerGateInv ==
    ASSUME NEW v
    PROVE  /\ QuietInv => (Former!GateInv(v) <=> SharedGate(v) /\ DeposedGate(v))
           /\ (QuietInv => (Former!GateInv(v) <=> SharedGate(v) /\ DeposedGate(v)))'
<1> USE DEF Former!GateInv, SharedGate, DeposedGate, QuietInv, Former!ObjectsOnVolume,
            Former!OnVolume, OnVolume, Former!JobsOnVolume, JobsOnVolume, Former!PodsFinished,
            PodsFinished, Former!WarmIsReal, Former!GateOpen, GateOpen,
            Former!ServeOnlyCachedWeights, ServeOnlyCachedWeights, Former!Servable, Servable,
            Former!CachedIsReal, CachedIsReal, Former!HasCache, HasCache, Former!PVCName, PVCName,
            Former!CacheKey, CacheKey
<1>1. QuietInv => (Former!GateInv(v) <=> SharedGate(v) /\ DeposedGate(v))
  BY SameSets, Zenon
<1>2. (QuietInv => (Former!GateInv(v) <=> SharedGate(v) /\ DeposedGate(v)))'
  BY SameSets, Zenon
<1> QED
  BY <1>1, <1>2

LEMMA FormerGateStep ==
    ASSUME NEW v, \A s \in Specs : OnVolume(v, s), MaxLosses = 0,
           Former!PassInv, Former!StatusInv, Former!GateInv(v), Former!Next
    PROVE  Former!GateInv(v)' /\ marker \subseteq marker'
<1>1. \A s \in Specs : Former!OnVolume(v, s)
  BY DEF Former!OnVolume, OnVolume, Former!HasCache, HasCache, Former!PVCName, PVCName
<1>2. Former!GateInv(v)'
  BY <1>1, Former!GateStep, FormerAssumptions, Zenon
<1>3. \A c \in Former!Claims : ~Former!LoseClaim(c)
  BY Former!NoLoss, FormerAssumptions, Zenon
<1>4. marker \subseteq marker'
  BY <1>3, Former!MarkerGrows, FormerAssumptions, Zenon
<1> QED
  BY <1>2, <1>4

LEMMA GatePairStep ==
    ASSUME NEW v, \A s \in Specs : OnVolume(v, s), MaxLosses = 0
    PROVE  PairInv /\ StatusPair /\ GatePair(v) /\ [ManagerNext]_managerVars => GatePair(v)'
<1> SUFFICES ASSUME PairInv, StatusPair, GatePair(v), [ManagerNext]_managerVars
             PROVE  GatePair(v)'
  OBVIOUS
<1>0. /\ PassInv /\ StatusInv /\ GateInv(v) /\ DeposedGate(v) /\ QuietInv /\ SharedGate(v)
      /\ ObjectsOnVolume(v) /\ JobsOnVolume(v, jobsCache) /\ WarmIsReal(v)
  BY DEF PairInv, DeposedInv, StatusPair, GatePair, GateInv, SharedGate, ObjectsOnVolume
<1>1. CASE [Next]_vars /\ DeposedWaits
  <2>1. GateInv(v)' /\ marker \subseteq marker'
    BY <1>0, <1>1, GateStep, MarkerGrows, NoLoss
  <2>2. CASE UNCHANGED <<opc, opmd, ocache, ojobsCache>>
    BY <1>0, <2>1, <2>2 DEF GatePair, DeposedGate, JobsOnVolume
  <2>3. CASE opc' = "idle" /\ ocache' = DisabledCache /\ ojobsCache' = NoJobs
    BY <2>1, <2>3 DEF GatePair, DeposedGate, JobsOnVolume, DisabledCache, NoJobs
  <2> QED
    BY <1>1, <2>2, <2>3 DEF DeposedWaits
<1>2. CASE Takeover
  <2>1. /\ UNCHANGED <<clusterVars, md>> /\ pc' = "idle" /\ cache' = DisabledCache
        /\ mdCache' = md /\ jobsCache' = jobs
        /\ opc' = pc /\ opmd' = pmd /\ ocache' = cache /\ ojobsCache' = jobsCache
    BY <1>2 DEF Takeover, ForgetPass, ListAll
  <2>2. UNCHANGED <<md, jobs, warmPod, marker, dep, rsets, pods>>
    BY <2>1 DEF clusterVars, children, workload, volume
  <2>3. /\ JobsOnVolume(v, jobs)' /\ JobsOnVolume(v, jobsCache)' /\ PodsFinished(v)'
        /\ JobsOnVolume(v, ojobsCache)'
    BY <1>0, <2>1, <2>2 DEF SharedGate, JobsOnVolume, PodsFinished
  <2>4. GateOpen' /\ ServeOnlyCachedWeights' /\ CachedIsReal(v)'
    BY <1>0, <2>2, SameRollout, SameReport
  <2>5. ObjectsOnVolume(v)' /\ WarmIsReal(v)'
    BY <1>0, <2>1, <2>2 DEF ObjectsOnVolume, SharedGate, WarmIsReal, DisabledCache
  <2>6. DeposedGate(v)'
    BY <1>0, <2>1, <2>2, <2>3 DEF DeposedGate, ObjectsOnVolume, WarmIsReal
  <2> QED
    BY <2>3, <2>4, <2>5, <2>6 DEF GatePair, GateInv
<1>3. CASE DeposedStep
  <2>1. Former!PassInv /\ Former!Next
    BY <1>3, DeposedMoves
  <2>2. Former!StatusInv /\ Former!GateInv(v)
    BY <1>0, FormerStatusInv, FormerGateInv DEF StatusPair, StatusInv
  <2>3. Former!GateInv(v)' /\ marker \subseteq marker'
    BY <2>1, <2>2, FormerGateStep
  <2>4. QuietInv' /\ UNCHANGED <<pc, pmd, cache, mdCache, jobsCache>>
    BY <1>0, <1>3 DEF DeposedStep, QuietInv, deposedCaches
  <2>5. SharedGate(v)' /\ DeposedGate(v)'
    BY <2>3, <2>4, FormerGateInv
  <2>6. ObjectsOnVolume(v)'
    BY <1>0, <2>4, <2>5 DEF ObjectsOnVolume, SharedGate
  <2>7. JobsOnVolume(v, jobsCache)' /\ WarmIsReal(v)'
    BY <1>0, <2>3, <2>4 DEF JobsOnVolume, WarmIsReal
  <2> QED
    BY <2>5, <2>6, <2>7 DEF GatePair, GateInv, SharedGate
<1> QED
  BY <1>1, <1>2, <1>3, WhoMoves

LEMMA GatePairAlways ==
    ASSUME NEW CONSTANT v, \A s \in Specs : OnVolume(v, s), MaxLosses = 0
    PROVE  ManagerSpec => []GatePair(v)
<1>1. ManagerInit => GatePair(v)
  <2> SUFFICES ASSUME ManagerInit PROVE GatePair(v)
    OBVIOUS
  <2>1. GateInv(v)
    BY InitGate DEF ManagerInit
  <2>2. DeposedGate(v)
    BY DEF ManagerInit, DeposedGate, JobsOnVolume, DisabledCache, NoJobs
  <2> QED
    BY <2>1, <2>2 DEF GatePair
<1>2. PairInv /\ StatusPair /\ GatePair(v) /\ [ManagerNext]_managerVars => GatePair(v)'
  BY GatePairStep
<1> QED
  BY <1>1, <1>2, PairAlways, StatusPairAlways, PTL DEF ManagerSpec

\* The gate needs no fence: if every spec keeps its weights on the same volume
\* and nobody deletes that, no pod exists for weights that are not there, and no
\* current status says Cached of them, although a deposed leader may still
\* apply a Deployment and write a status it decided on before the takeover.
THEOREM PairServesOnlyCachedWeights ==
    ASSUME NEW CONSTANT v, \A s \in Specs : HasCache(s) => PVCName(s) = v, MaxLosses = 0
    PROVE  ManagerSpec => [](ServeOnlyCachedWeights /\ CachedIsOnDisk)
<1>1. GatePair(v) => ServeOnlyCachedWeights /\ CachedIsOnDisk
  BY DEF GatePair, GateInv, CachedIsReal, ObjectsOnVolume, OnVolume, CachedIsOnDisk
<1>2. \A s \in Specs : OnVolume(v, s)
  BY DEF OnVolume
<1>3. ManagerSpec => []GatePair(v)
  BY <1>2, GatePairAlways
<1> QED
  BY <1>1, <1>3, PTL

LEMMA FormerReadyInv ==
    /\ Former!ReadyInv <=> ReadyInv
    /\ (Former!ReadyInv <=> ReadyInv)'
BY SameSets, Zenon DEF Former!ReadyInv, ReadyInv

LEMMA FormerReadyStep == Former!PassInv /\ Former!ReadyInv /\ Former!Next => Former!ReadyInv'
BY Former!ReadyStep, FormerAssumptions, Zenon

LEMMA ReadyPairStep == PairInv /\ ReadyInv /\ [ManagerNext]_managerVars => ReadyInv'
<1> SUFFICES ASSUME PairInv, ReadyInv, [ManagerNext]_managerVars PROVE ReadyInv'
  OBVIOUS
<1>1. CASE [Next]_vars
  BY <1>1, ReadyStep DEF PairInv
<1>2. CASE Takeover
  BY <1>2 DEF Takeover, clusterVars, workload, ReadyInv
<1>3. CASE DeposedStep
  BY <1>3, DeposedMoves, FormerReadyInv, FormerReadyStep
<1> QED
  BY <1>1, <1>2, <1>3, WhoMoves

LEMMA ReadyPairAlways == ManagerSpec => []ReadyInv
<1>1. ManagerInit => ReadyInv
  BY DEF ManagerInit, Init, ClusterInit, ReadyInv
<1> QED
  BY <1>1, ReadyPairStep, PairAlways, PTL DEF ManagerSpec

-----------------------------------------------------------------------------
(* The service, offered by two managers *)

LEMMA SameService ==
    /\ Former!AskedTemplate = AskedTemplate
    /\ Former!AdmittedTemplates = AdmittedTemplates
    /\ Former!ServingTemplates = ServingTemplates
    /\ Former!VouchedWeights = VouchedWeights
    /\ Former!NeededWeights = NeededWeights
    /\ (Former!AskedTemplate = AskedTemplate)'
    /\ (Former!AdmittedTemplates = AdmittedTemplates)'
    /\ (Former!ServingTemplates = ServingTemplates)'
    /\ (Former!VouchedWeights = VouchedWeights)'
<1>1. Former!Alive = Alive /\ (Former!Alive = Alive)'
  BY DEF Former!Alive, Alive
<1> QED
  BY <1>1, SameSets
  DEF Former!AskedTemplate, AskedTemplate, Former!AdmittedTemplates, AdmittedTemplates,
      Former!ServingTemplates, ServingTemplates, Former!VouchedWeights, VouchedWeights,
      Former!NeededWeights, NeededWeights, Former!Template, Template, Former!WeightsVolume,
      WeightsVolume, Former!CacheKey, CacheKey, Former!PVCName, PVCName, Former!HasCache, HasCache,
      Former!Available, Available, Former!Minimum, Minimum

LEMMA SameServiceStep ==
    [Former!Service!Next]_(Former!Service!serviceVars) => [Service!Next]_(Service!serviceVars)
BY SameService, SameSets
DEF Former!Service!Next, Service!Next, Former!Service!serviceVars, Service!serviceVars,
    Former!Service!Ask, Service!Ask, Former!Service!Report, Service!Report,
    Former!Service!Fetch, Service!Fetch, Former!Service!Admit, Service!Admit,
    Former!Service!Serve, Service!Serve, Former!Service!Retire, Service!Retire

LEMMA FormerServiceStep ==
    ASSUME NEW v, MaxLosses = 0, Former!PassInv, Former!GateInv(v), Former!ReadyInv,
           Former!ReadyInv', Former!Next
    PROVE  [Former!Service!Next]_(Former!Service!serviceVars)
BY Former!ServiceStep, FormerAssumptions, Zenon

LEMMA ServicePairStep ==
    ASSUME NEW v, MaxLosses = 0, PairInv, GatePair(v), ReadyInv, ReadyInv',
           [ManagerNext]_managerVars
    PROVE  [Service!Next]_(Service!serviceVars)
<1>1. CASE [Next]_vars
  BY <1>1, ServiceStep DEF PairInv, GatePair
<1>2. CASE Takeover
  <2>1. UNCHANGED <<md, workload, marker>>
    BY <1>2 DEF Takeover, clusterVars, volume
  <2> QED
    BY <2>1, SameAsked, SameServing DEF Service!serviceVars
<1>3. CASE DeposedStep
  <2>1. Former!PassInv /\ Former!Next
    BY <1>3, DeposedMoves
  <2>2. QuietInv /\ SharedGate(v) /\ DeposedGate(v)
    BY DEF PairInv, DeposedInv, GatePair, GateInv, SharedGate, ObjectsOnVolume
  <2>3. Former!GateInv(v) /\ Former!ReadyInv /\ Former!ReadyInv'
    BY <2>2, FormerGateInv, FormerReadyInv
  <2> QED
    BY <2>1, <2>3, FormerServiceStep, SameServiceStep
<1> QED
  BY <1>1, <1>2, <1>3, WhoMoves

\* Two managers implement the same service as one: every call of the leader and
\* of the deposed leader, and the takeover between them, is a step of the
\* abstract service or leaves it alone.
THEOREM PairImplementsGatedService ==
    ASSUME NEW CONSTANT v, \A s \in Specs : HasCache(s) => PVCName(s) = v, MaxLosses = 0
    PROVE  ManagerSpec => Service!GatedSpec
<1>1. \A s \in Specs : OnVolume(v, s)
  BY DEF OnVolume
<1>2. ManagerSpec => []GatePair(v)
  BY <1>1, GatePairAlways
<1>3. PairInv /\ GatePair(v) /\ ReadyInv /\ ReadyInv' /\ [ManagerNext]_managerVars =>
        [Service!Next]_(Service!serviceVars)
  BY ServicePairStep
<1>4. ManagerInit => Service!Init
  BY InitService DEF ManagerInit
<1> QED
  BY <1>2, <1>3, <1>4, ReadyPairAlways, PairAlways, PTL DEF ManagerSpec, Service!GatedSpec

-----------------------------------------------------------------------------
(* Deletion, seen by two managers *)

\* A deposed leader that is tearing the object down has seen the deletion; so has
\* his successor, who therefore has no pass that would build it up again.
Doomed ==
    /\ md = None \/ md.deleting
    /\ mdCache = None \/ mdCache.deleting
    /\ pc \in FinalizeSteps \cup {"idle"}

DeposedMarks == opc \in FinalizeSteps => opmd.deleting /\ Doomed

MarksPair == CopiesInv /\ DeposedMarks

LEMMA FormerPassMarks ==
    ASSUME Former!PassInv, Former!Pass, opc # "idle"
    PROVE  /\ \/ UNCHANGED md
              \/ opc = "release" /\ opmd = md /\ (opmd.deleting => md' = None)
              \/ /\ opc \in SyncSteps \cup {"addFin"}
                 /\ md \in ModelDeployment /\ md' \in ModelDeployment
                 /\ ~md.deleting /\ ~md'.deleting
                 /\ md.fin => md'.fin
           /\ UNCHANGED losses
           /\ pvcs \subseteq pvcs'
           /\ opc' \in FinalizeSteps => opc \in FinalizeSteps /\ UNCHANGED opmd
<1>1. Former!SyncSteps = SyncSteps /\ Former!FinalizeSteps = FinalizeSteps
  BY DEF Former!SyncSteps, SyncSteps, Former!FinalizeSteps, FinalizeSteps
<1>2. /\ \/ UNCHANGED md
         \/ opc = "release" /\ opmd = md /\ (opmd.deleting => md' = None)
         \/ /\ opc \in Former!SyncSteps \cup {"addFin"} /\ opmd = md
            /\ md \in Former!ModelDeployment /\ md' \in Former!ModelDeployment
            /\ ~md.deleting /\ ~md'.deleting
            /\ md.fin \/ opc = "addFin" => md'.fin
      /\ UNCHANGED <<omdCache, losses>>
      /\ pvcs \subseteq pvcs'
      /\ opc' \in Former!FinalizeSteps => opc \in Former!FinalizeSteps /\ UNCHANGED opmd
  BY Former!PassMarks, FormerAssumptions, Zenon
<1> QED
  BY <1>1, <1>2, SameSets

LEMMA DeposedWrites ==
    ASSUME PairInv, DeposedStep
    PROVE  Former!PassInv /\ Former!Pass /\ opc # "idle"
BY DeposedMoves, DeposedIsPass DEF DeposedStep

\* No step of the leader takes the deletion back.
LEMMA DoomedStays ==
    ASSUME PassInv, CopiesInv, Doomed, [Next]_vars
    PROVE  Doomed'
<1> USE DEF SyncSteps, FinalizeSteps
<1>0. md # None => md \in ModelDeployment
  BY DEF PassInv, TypeOK
<1>1. CASE \/ UNCHANGED vars \/ (\E k \in Keys : SyncJob(k)) \/ SyncDep \/ SyncPods \/ TimerFires
           \/ Tick \/ Drift \/ (\E c \in SharedClaims : ProvisionClaim(c))
           \/ (\E c \in Claims : LoseClaim(c)) \/ Others
  <2>1. UNCHANGED <<md, mdCache, pc>>
    BY <1>1
    DEF vars, SyncJob, SyncDep, SyncPods, TimerFires, Tick, Drift, ProvisionClaim, LoseClaim,
        Others, informers, locals
  <2> QED
    BY <2>1 DEF Doomed
<1>2. CASE StartPass
  BY <1>2 DEF StartPass, Doomed, locals, informers
<1>3. CASE Pass /\ pc # "idle"
  <2>1. pc \in FinalizeSteps
    BY <1>3 DEF Doomed
  <2>2. pc' \in FinalizeSteps \cup {"idle"}
    BY <1>3, <2>1
    DEF Pass, StartPass, AddFinalizer, EnsureClaim, ReconcileJob, ListWarmJobs, PruneJob,
        DecideReplicas, WriteReplicas, ApplyDeployment, ApplyService, ReconcilePDB,
        WriteStatus, DeleteDeployment, DeleteJobs, ListPods, ReleaseFinalizer, Goto, Finish,
        Fail, ForgetPass
  <2>3. pmd.deleting
    BY <2>1 DEF CopiesInv
  <2>4. UNCHANGED mdCache /\ (UNCHANGED md \/ md' = None)
    BY <1>3, <2>1, <2>3, PassMarks
  <2> QED
    BY <2>2, <2>4 DEF Doomed
<1>4. CASE Abort
  BY <1>4 DEF Abort, Fail, ForgetPass, informers, Doomed
<1>5. CASE SyncMD
  BY <1>5 DEF SyncMD, Doomed
<1>6. ASSUME NEW s \in Specs, EditSpec(s) PROVE Doomed'
  <2>1. UNCHANGED <<mdCache, pc>> /\ md \in ModelDeployment
    BY <1>0, <1>6 DEF EditSpec, Caches
  <2>2. md'.deleting = md.deleting
    BY <1>6, <2>1, MarksKept DEF EditSpec
  <2> QED
    BY <1>0, <2>1, <2>2, ObjectFields DEF Doomed
<1>7. CASE DeleteMD
  <2>1. UNCHANGED <<mdCache, pc>> /\ md \in ModelDeployment
    BY <1>0, <1>7 DEF DeleteMD, Caches
  <2>2. md' = None \/ md'.deleting
    BY <1>7, <2>1, MarksKept DEF DeleteMD
  <2> QED
    BY <2>1, <2>2 DEF Doomed
<1>8. CASE Pass
  <2>1. StartPass \/ pc # "idle"
    BY <1>8
    DEF Pass, AddFinalizer, EnsureClaim, ReconcileJob, ListWarmJobs, PruneJob, DecideReplicas,
        WriteReplicas, ApplyDeployment, ApplyService, ReconcilePDB, WriteStatus,
        DeleteDeployment, DeleteJobs, ListPods, ReleaseFinalizer
  <2> QED
    BY <1>2, <1>3, <1>8, <2>1
<1> QED
  BY <1>1, <1>4, <1>5, <1>6, <1>7, <1>8, Zenon
  DEF Next, Informers, User, PromptEvent

LEMMA MarksPairStep ==
    PairInv /\ MarksPair /\ [ManagerNext]_managerVars => MarksPair'
<1> SUFFICES ASSUME PairInv, MarksPair, [ManagerNext]_managerVars PROVE MarksPair'
  OBVIOUS
<1> USE DEF SyncSteps, FinalizeSteps
<1>0. PassInv /\ CopiesInv /\ DeposedMarks
  BY DEF PairInv, MarksPair
<1>1. CASE [Next]_vars /\ DeposedWaits
  <2>1. CopiesInv'
    BY <1>0, <1>1, CopiesStep
  <2>2. DeposedMarks'
    BY <1>0, <1>1, DoomedStays DEF DeposedMarks, DeposedWaits
  <2> QED
    BY <2>1, <2>2 DEF MarksPair
<1>2. CASE Takeover
  <2>1. UNCHANGED md /\ mdCache' = md /\ pc' = "idle" /\ opc' = pc /\ opmd' = pmd
    BY <1>2 DEF Takeover, ForgetPass, ListAll
  <2> QED
    BY <1>0, <2>1 DEF MarksPair, CopiesInv, DeposedMarks, Doomed
<1>3. CASE DeposedStep
  <2>1. UNCHANGED <<pc, pmd, mdCache>>
    BY <1>3 DEF DeposedStep
  <2>2. Former!PassInv /\ Former!Pass /\ opc # "idle"
    BY <1>3, DeposedWrites
  <2>3. CASE UNCHANGED md
    BY <1>0, <2>1, <2>2, <2>3, FormerPassMarks, SameCopies DEF MarksPair, DeposedMarks, Doomed
  <2>4. CASE opc = "release" /\ md' = None
    <3>1. Doomed /\ opmd.deleting
      BY <1>0, <2>4 DEF DeposedMarks
    <3>2. CopiesInv'
      BY <1>0, <2>1, <2>4, <3>1 DEF CopiesInv, Doomed
    <3> QED
      BY <2>1, <2>2, <2>4, <3>1, <3>2, FormerPassMarks DEF MarksPair, DeposedMarks, Doomed
  <2>5. CASE /\ opc \in SyncSteps \cup {"addFin"}
             /\ md \in ModelDeployment /\ md' \in ModelDeployment
             /\ ~md.deleting /\ ~md'.deleting
             /\ md.fin => md'.fin
    <3>1. md # None /\ md' # None
      BY <2>5, ObjectFields
    <3>2. CopiesInv'
      BY <1>0, <2>1, <2>5, <3>1 DEF CopiesInv
    <3>3. opc' \notin FinalizeSteps
      BY <2>2, <2>5, FormerPassMarks
    <3> QED
      BY <3>2, <3>3 DEF MarksPair, DeposedMarks
  <2>6. opc = "release" => opmd.deleting
    BY <1>0 DEF DeposedMarks
  <2> QED
    BY <2>2, <2>3, <2>4, <2>5, <2>6, FormerPassMarks
<1> QED
  BY <1>1, <1>2, <1>3, WhoMoves

LEMMA MarksPairAlways == ManagerSpec => []MarksPair
<1>1. ManagerInit => MarksPair
  BY InitObject
  DEF ManagerInit, Init, MarksPair, CopiesInv, DeposedMarks, SyncSteps, FinalizeSteps
<1> QED
  BY <1>1, MarksPairStep, PairAlways, PTL DEF ManagerSpec

-----------------------------------------------------------------------------
(* Convergence *)

\* The leader's copies of the children are those the cluster has.  A late copy
\* is a change that the leader's watch is still to deliver, so that nothing is
\* claimed before it does.
Current == jobsCache = jobs /\ depCache = DepNow

ConvPair == PlanInv /\ (Current => ConvInv)

LEMMA UpToDateIsCurrent ==
    ASSUME {"jobs", "dep"} \subseteq Prompt, UpToDate
    PROVE  Current
BY DEF UpToDate, Current

\* While a child changes back and forth under a late copy the leader could miss
\* both changes: the copy of the Jobs and of the Deployment is brought up to date
\* before anything else happens.
LEMMA LeaderConv ==
    ASSUME {"jobs", "dep"} \subseteq Prompt, PassInv, StatusInv, CopiesInv, ConvPair, [Next]_vars
    PROVE  ConvPair'
<1>1. CASE Current
  <2>1. ConvInv'
    BY <1>1, ConvStep DEF ConvPair
  <2> QED
    BY <2>1 DEF ConvPair, ConvInv
<1>2. CASE ~Current
  <2>1. UNCHANGED vars \/ PromptEvent
    BY <1>2, UpToDateIsCurrent DEF Next
  <2>2. CASE SyncMD \/ (\E k \in Keys : SyncJob(k)) \/ SyncDep
    <3>1. queued' = TRUE /\ UNCHANGED <<pc, stale, pmd, dec>>
      BY <2>2 DEF SyncMD, SyncJob, SyncDep, locals
    <3>2. PlanInv'
      BY <3>1, SamePlan DEF ConvPair
    <3> QED
      BY <3>1, <3>2, Disturbed DEF ConvPair
  <2>3. CASE UNCHANGED vars \/ SyncPods
    <3>1. UNCHANGED <<pc, stale, pmd, dec, jobs, jobsCache, dep, pods, ready, depCache>>
      BY <2>3 DEF vars, SyncPods, locals, informers, clusterVars, children, workload
    <3>2. PlanInv'
      BY <3>1, SamePlan DEF ConvPair
    <3>3. DepNow' = DepNow
      BY <3>1 DEF DepNow
    <3>4. ~Current'
      BY <1>2, <3>1, <3>3 DEF Current
    <3> QED
      BY <3>2, <3>4 DEF ConvPair
  <2> QED
    BY <2>1, <2>2, <2>3 DEF PromptEvent
<1> QED
  BY <1>1, <1>2

\* The list a new leader starts with is an event for every object.
LEMMA TakeoverConv ==
    ASSUME Takeover
    PROVE  ConvPair'
<1>1. PlanInv'
  BY NoPlan DEF Takeover
<1>2. CASE md # None
  <2>1. queued'
    BY <1>2 DEF Takeover, ListAll
  <2> QED
    BY <1>1, <2>1, Disturbed DEF ConvPair
<1>3. CASE md = None
  <2>1. md' = None /\ pc' = "idle"
    BY <1>3 DEF Takeover, ForgetPass
  <2> QED
    BY <1>1, <2>1 DEF ConvPair, ConvInv, PassProgress, Settled
<1> QED
  BY <1>2, <1>3

\* What the deposed leader changes is seen: a write of the object makes the
\* leader's copy late, one of a Job or of the Deployment the copy of that child,
\* and the watches on the Service and the budget queue the object at once.
LEMMA DeposedConv ==
    ASSUME {"jobs", "dep"} \subseteq Prompt, PairInv, ConvPair, DeposedStep
    PROVE  ConvPair'
<1>0. /\ Current /\ PassInv
      /\ Former!PassInv /\ Former!Pass /\ opc # "idle"
      /\ UNCHANGED <<mdCache, jobsCache, depCache, podsCache, timer, pc, pmd, cache, stale, dec>>
  BY UpToDateIsCurrent, DeposedWrites DEF DeposedStep, PairInv
<1>1. PlanInv'
  BY <1>0, SamePlan DEF ConvPair
<1>2. CASE ~Current' \/ ~mdFresh' \/ queued'
  BY <1>1, <1>2, Disturbed DEF ConvPair
<1>3. CASE Current' /\ mdFresh' /\ ~queued'
  <2>1. mdFresh /\ md' = md /\ UNCHANGED mdFresh /\ UNCHANGED fresh /\ UNCHANGED queued
    BY <1>0, <1>3, Zenon DEF DeposedStep, PassInv, TypeOK
  <2>2. UNCHANGED <<svc, pdb>>
    BY <1>3 DEF DeposedStep
  <2>3. UNCHANGED jobs
    BY <1>0, <1>3 DEF Current
  <2>4. UNCHANGED dep
    <3>1. DepNow.obj = dep /\ DepNow'.obj = dep'
      BY DEF DepNow
    <3>2. DepNow' = DepNow
      BY <1>0, <1>3 DEF Current
    <3> QED
      BY <3>1, <3>2
  <2>5. UNCHANGED losses /\ pvcs \subseteq pvcs'
    BY <1>0, FormerPassMarks
  <2>6. ConvInv
    BY <1>0 DEF ConvPair
  <2>7. ConvInv'
    BY <1>0, <2>1, <2>2, <2>3, <2>4, <2>5, <2>6, ConvKept
  <2> QED
    BY <1>1, <2>7 DEF ConvPair
<1> QED
  BY <1>2, <1>3

LEMMA ConvPairAlways ==
    ASSUME {"jobs", "dep"} \subseteq Prompt
    PROVE  ManagerSpec => []ConvPair
<1>1. ManagerInit => ConvPair
  BY InitConv DEF ManagerInit, ConvPair, ConvInv
<1>2. PairInv /\ StatusPair /\ MarksPair /\ ConvPair /\ [ManagerNext]_managerVars => ConvPair'
  BY LeaderConv, TakeoverConv, DeposedConv, WhoMoves DEF PairInv, StatusPair, MarksPair
<1> QED
  BY <1>1, <1>2, PairAlways, StatusPairAlways, MarksPairAlways, PTL DEF ManagerSpec

\* The lease that elects the leader fences nothing, and need not: whatever a
\* deposed leader still writes over the work of its successor, once the successor
\* has nothing left to do the children and the status are the ones the current
\* spec calls for, and no deletion is stuck.  That holds even before the deposed
\* leader is gone.  The leader's caches of the Jobs and of the Deployment are
\* taken to keep up, as the copies are compared by their values.
THEOREM PairConverges ==
    ASSUME {"jobs", "dep"} \subseteq Prompt
    PROVE  ManagerSpec => [](QuiescentIsConverged /\ TakeoverConverges)
<1>1. PairInv /\ ConvPair => QuiescentIsConverged /\ TakeoverConverges
  <2> SUFFICES ASSUME PairInv, ConvPair PROVE QuiescentIsConverged
    BY DEF TakeoverConverges
  <2>1. CASE Quiescent
    <3>1. Settled
      BY <2>1 DEF Quiescent, ConvPair, Current, ConvInv
    <3> QED
      BY <3>1, SettledConverged DEF PairInv
  <2>2. CASE ~Quiescent
    BY <2>2 DEF QuiescentIsConverged
  <2> QED
    BY <2>1, <2>2
<1> QED
  BY <1>1, PairAlways, ConvPairAlways, PTL
=============================================================================
