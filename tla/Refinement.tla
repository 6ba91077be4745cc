----------------------------- MODULE Refinement -----------------------------
(***************************************************************************)
(* The operator in its cluster implements ModelService.                    *)
(***************************************************************************)
EXTENDS Reconciler

ASSUME NothingAssumption == None \notin PodTemplate

\* The object is there and not on its way out.
Alive == md # None /\ ~md.deleting

AskedTemplate == IF Alive THEN Template(md.spec, CacheKey(md.spec)) ELSE None

AdmittedTemplates == {t \in PodTemplate : t \in rsets \/ pods[t] > 0}

\* Pods that take traffic and that their ReplicaSet keeps: one that is about to be
\* deleted serves nobody for long.
ServingTemplates == {t \in PodTemplate : Available(t) > 0}

\* What WeightsCached=True says of the current generation.
VouchedWeights ==
    IF Alive /\ md.status.observed /\ md.status.weightsCached = "Cached"
    THEN {<<PVCName(md.spec), md.status.cacheKey>>}
    ELSE {}

NeededWeights ==
    [t \in PodTemplate |-> IF t.claim = NoCache THEN {} ELSE {<<t.claim, t.key>>}]

Service == INSTANCE ModelService WITH
    Templates <- PodTemplate, Needs <- NeededWeights, Nothing <- None,
    asked <- AskedTemplate, cached <- marker, admitted <- AdmittedTemplates,
    serving <- ServingTemplates, vouched <- VouchedWeights

\* Reconcile, the gate, the rollout and the status together implement the
\* service they promise: every step of a pass, of an informer, of a controller
\* or of the user is a step of ModelService or leaves it alone.
ImplementsModelService == Service!Spec
=============================================================================
