------------------------------- MODULE Render -------------------------------
(***************************************************************************)
(* internal/render: the children of a ModelDeployment as functions of its  *)
(* spec.  A pod template is reduced to what tells two templates apart: the *)
(* cache key it is annotated with, the volume the weights are read from    *)
(* and the runtime settings.                                               *)
(***************************************************************************)
EXTENDS Api

Claims == SharedClaims \cup {OwnClaim}

\* The hash covers the engine, the model name and the revision only.
CacheKey(s) == <<s.engine, s.model>>

HasCache(s) == s.weightCache # NoCache

PVCName(s) == IF s.weightCache \in SharedClaims THEN s.weightCache ELSE OwnClaim

OwnsPVC(s) == s.weightCache = Managed

\* NoCache as the claim is an emptyDir: every pod downloads its own copy.
PodTemplate == [key : Keys, claim : Claims \cup {NoCache}, runtime : Runtimes]

WeightsVolume(s) == IF HasCache(s) THEN PVCName(s) ELSE NoCache

Template(s, cacheKey) ==
    [key |-> cacheKey, claim |-> WeightsVolume(s), runtime |-> s.runtime]

Deployments == [template : PodTemplate, replicas : Counts, paused : BOOLEAN]

Deployment(s, cacheKey, replicas, paused) ==
    [template |-> Template(s, cacheKey), replicas |-> replicas, paused |-> paused]

\* Mutant: a pod may be missing during a rollout, which is what Kubernetes
\* rounds its own default of 25% to for a handful of replicas.
MaxUnavailableOne == 1

\* The rolling update the Deployment asks for.
MaxUnavailable == 0
MaxSurge == 1

\* Mutant: a budget for a single replica and for none.
PDBMinAvailableAlways(s, replicas) ==
    IF s.minAvailable < 1 THEN 0 ELSE Minimum(s.minAvailable, replicas - 1)

\* The budget of the PodDisruptionBudget; 0 when none is wanted.
PDBMinAvailable(s, replicas) ==
    IF replicas < 2 \/ s.minAvailable < 1 THEN 0
    ELSE Minimum(s.minAvailable, replicas - 1)

\* A warm-up Job with the status its controller keeps: a pod has succeeded,
\* the Job has failed, the number of failed pods.
Jobs == [claim : Claims, runtime : Runtimes, succeeded : BOOLEAN,
         failed : BOOLEAN, attempts : Nat]

WarmJob(s) ==
    [claim |-> PVCName(s), runtime |-> s.runtime, succeeded |-> FALSE,
     failed |-> FALSE, attempts |-> 0]

ASSUME NoChildAssumption == None \notin Deployments \cup Jobs
=============================================================================
