------------------------------- MODULE Manager -------------------------------
(***************************************************************************)
(* cmd/main.go: two managers, one of which leads.  The lease that elects   *)
(* the leader fences nothing: a leader that has lost it may still finish   *)
(* the pass it is in, from caches of its own, while its successor works.   *)
(*                                                                         *)
(* The variables of module Reconciler are the leader's; those declared     *)
(* here belong to the deposed leader, who starts no further pass: what he  *)
(* still queues for himself is of no consequence.                          *)
(***************************************************************************)
EXTENDS Reconciler

CONSTANT MaxTakeovers
ASSUME TakeoversAssumption == MaxTakeovers \in Nat

VARIABLES
    opc, opmd, ofresh, ocache, ostale, odec,  \* the deposed leader's pass
    omdCache, omdFresh, ojobsCache, odepCache, opodsCache, oqueued, otimer,
    takeovers

deposed == <<opc, opmd, ofresh, ocache, ostale, odec>>
deposedCaches == <<omdCache, omdFresh, ojobsCache, odepCache, opodsCache, oqueued, otimer>>
managerVars == <<vars, deposed, deposedCaches, takeovers>>

Old == INSTANCE Reconciler WITH
    pc <- opc, pmd <- opmd, fresh <- ofresh, cache <- ocache, stale <- ostale, dec <- odec,
    mdCache <- omdCache, mdFresh <- omdFresh, jobsCache <- ojobsCache, depCache <- odepCache,
    podsCache <- opodsCache, queued <- oqueued, timer <- otimer

\* Empty caches; those of a manager without a pass do not matter.
NoJobs == [k \in Keys |-> None]
NoDep == [obj |-> None, replicas |-> 0, readyReplicas |-> 0]
NoCaches == ojobsCache = NoJobs /\ odepCache = NoDep /\ ~opodsCache

ManagerInit ==
    /\ Init
    /\ opc = "idle" /\ opmd = None /\ ofresh = FALSE
    /\ ocache = DisabledCache /\ ostale = {} /\ odec = NoDecision
    /\ omdCache = None /\ omdFresh = FALSE
    /\ ojobsCache = NoJobs /\ odepCache = NoDep /\ opodsCache = FALSE
    /\ oqueued = TRUE /\ otimer = TRUE
    /\ takeovers = 0

\* Whoever writes the object makes the other's copy of it old.
LeaderStep ==
    /\ Next
    /\ ofresh' = (ofresh /\ md' = md)
    /\ UNCHANGED <<opc, opmd, ocache, ostale, odec, deposedCaches, takeovers>>

\* Mutant: the list is not an event.
ListQuietly ==
    /\ mdCache' = md /\ mdFresh' = TRUE
    /\ jobsCache' = jobs /\ depCache' = DepNow /\ podsCache' = PodsExist
    /\ queued' = FALSE /\ timer' = FALSE

\* The informers of a manager that starts to lead list every object, which
\* queues this one.
ListAll ==
    /\ mdCache' = md /\ mdFresh' = TRUE
    /\ jobsCache' = jobs /\ depCache' = DepNow /\ podsCache' = PodsExist
    /\ queued' = (md # None) /\ timer' = FALSE

\* The standby acquires the lease in the middle of a pass of the leader.
Takeover ==
    /\ UpToDate
    /\ takeovers < MaxTakeovers
    /\ pc # "idle" /\ opc = "idle"
    /\ takeovers' = takeovers + 1
    /\ opc' = pc /\ opmd' = pmd /\ ofresh' = fresh
    /\ ocache' = cache /\ ostale' = stale /\ odec' = dec
    /\ ojobsCache' = jobsCache /\ odepCache' = depCache /\ opodsCache' = podsCache
    /\ ForgetPass
    /\ ListAll
    /\ UNCHANGED <<clusterVars, md, clock, budgets, lastCommit,
                   omdCache, omdFresh, oqueued, otimer>>

\* The calls a pass makes after its opening Get.
DeposedPass ==
    \/ Old!AddFinalizer
    \/ Old!EnsureClaim \/ Old!ReconcileJob \/ Old!ListWarmJobs
    \/ \E k \in Keys : Old!PruneJob(k)
    \/ Old!DecideReplicas \/ Old!WriteReplicas
    \/ Old!ApplyDeployment \/ Old!ApplyService \/ Old!ReconcilePDB \/ Old!WriteStatus
    \/ Old!DeleteDeployment \/ Old!DeleteJobs \/ Old!ListPods \/ Old!ReleaseFinalizer

\* What the deposed leader writes reaches the leader like anybody's change:
\* through its watches, of which those on the Service and the budget do not lag.
DeposedStep ==
    /\ UpToDate
    /\ opc # "idle"
    /\ DeposedPass
    /\ fresh' = (fresh /\ md' = md)
    /\ mdFresh' = (mdFresh /\ md' = md)
    /\ queued' = (queued \/ <<svc, pdb>>' # <<svc, pdb>>)
    /\ UNCHANGED <<mdCache, jobsCache, depCache, podsCache, timer, pc, pmd, cache, stale, dec,
                   deposedCaches, takeovers>>

\* The process notices that the lease is gone and exits, in the middle of its
\* pass or at its end.
DeposedExits ==
    /\ UpToDate
    /\ opc # "idle" \/ ~NoCaches
    /\ Old!ForgetPass
    /\ ojobsCache' = NoJobs /\ odepCache' = NoDep /\ opodsCache' = FALSE
    /\ UNCHANGED <<vars, omdCache, omdFresh, oqueued, otimer, takeovers>>

ManagerNext ==
    \/ DeposedExits
    \/ (opc = "idle" => NoCaches) /\ (LeaderStep \/ Takeover \/ DeposedStep)

\* The conflict checks, the watches and the list a new leader starts with make
\* up for the missing fence: whatever the deposed leader still writes over the
\* work of its successor, once both have nothing left to do the children and
\* the status are the ones the current spec calls for.
TakeoverConverges == opc = "idle" => QuiescentIsConverged

ManagerSpec == ManagerInit /\ [][ManagerNext]_managerVars
=============================================================================
