------------------------------- MODULE Status -------------------------------
(***************************************************************************)
(* internal/controller/status.go: the status one pass persists, computed   *)
(* in one place from what the pass observed.                               *)
(*                                                                         *)
(*   c         cacheState: enabled, warm, failed                           *)
(*   w         workloadState: exists, replicas, readyReplicas              *)
(*   d         the scaling outcome: lastScale (0 for nil), depth and       *)
(*             scaleErr                                                    *)
(***************************************************************************)
EXTENDS Render

CacheState == [enabled : BOOLEAN, warm : BOOLEAN, failed : BOOLEAN]
ColdCache == [enabled |-> TRUE, warm |-> FALSE, failed |-> FALSE]
DisabledCache == [enabled |-> FALSE, warm |-> FALSE, failed |-> FALSE]

WorkloadState == [exists : BOOLEAN, replicas : Nat, readyReplicas : Nat]

WeightsCached(c) ==
    CASE ~c.enabled -> "CacheDisabled"
      [] c.enabled /\ c.failed -> "WarmJobFailed"
      [] c.enabled /\ ~c.failed /\ c.warm -> "Cached"
      [] OTHER -> "Warming"

\* Mutant: the pods of the old template count while the new one is held back.
ReadyUnheld(desired, w, paused) ==
    CASE desired = 0 -> "ScaledToZero"
      [] desired # 0 /\ w.exists /\ w.readyReplicas >= desired -> "ReplicasReady"
      [] OTHER -> "ReplicasUnavailable"

Ready(desired, w, paused) ==
    CASE desired = 0 -> "ScaledToZero"
      [] desired # 0 /\ paused -> "WaitingForWeights"
      [] desired # 0 /\ ~paused /\ w.exists /\ w.readyReplicas >= desired -> "ReplicasReady"
      [] OTHER -> "ReplicasUnavailable"

Degraded(c, scaleErr) ==
    CASE c.failed -> "WarmJobFailed"
      [] ~c.failed /\ scaleErr -> "QueueMetricUnavailable"
      [] OTHER -> "AsExpected"

\* Mutant: a pass without a decision forgets the time of the last one.
LastScaleTimeOfPass(prev, d) == d.lastScale

LastScaleTime(prev, d) ==
    IF d.lastScale = 0 THEN prev.lastScaleTime ELSE d.lastScale

\* statusBuilder.build: the next status of an object with spec s and previous
\* status prev.  The generation it records is the one of the object in hand.
BuildStatus(prev, s, cacheKey, c, w, paused, d) ==
    [observed |-> TRUE,
     cacheKey |-> cacheKey,
     replicas |-> w.replicas,
     readyReplicas |-> w.readyReplicas,
     observedQueueDepth |-> d.depth,
     lastScaleTime |-> LastScaleTime(prev, d),
     weightsCached |-> WeightsCached(c),
     ready |-> Ready(s.replicas, w, paused),
     degraded |-> Degraded(c, d.scaleErr)]
=============================================================================
