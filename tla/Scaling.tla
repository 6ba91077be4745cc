------------------------------- MODULE Scaling -------------------------------
(***************************************************************************)
(* The scaling decision of internal/scaling/scaling.go and the queue       *)
(* reading of internal/queue/queue.go, as pure operators.                  *)
(*                                                                         *)
(* A policy is the resolved user configuration, a state what one pass      *)
(* observed.  Times are whole seconds counted from 1; LastScale = 0 is     *)
(* Go's zero time, "never scaled".  Quantities are int32 in the code:      *)
(* MaxInt stands for 2^31 - 1 and Wrap for two's complement wraparound.    *)
(***************************************************************************)
EXTENDS Integers, Functions

CONSTANTS
    MaxInt,           \* the largest int32
    Unavailable,      \* the queue depth could not be read
    DefaultScaleUp,   \* scaleUpStabilizationSeconds' default, 60 s
    DefaultScaleDown  \* scaleDownStabilizationSeconds' default, 900 s

ASSUME MaxIntAssumption == MaxInt \in Nat \ {0}
ASSUME UnavailableAssumption == Unavailable \notin Int
ASSUME DefaultsAssumption ==
    DefaultScaleUp \in Nat \ {0} /\ DefaultScaleDown \in Nat \ {0}

Minimum(a, b) == IF a <= b THEN a ELSE b
Maximum(a, b) == IF a >= b THEN a ELSE b

\* int32 arithmetic keeps the low 32 bits of the result.
Wrap(n) == ((n + MaxInt + 1) % (2 * (MaxInt + 1))) - (MaxInt + 1)

\* Go's division truncates towards zero; b is positive.
Quo(a, b) == IF a >= 0 THEN a \div b ELSE -((-a) \div b)

-----------------------------------------------------------------------------
(* Policies and decisions *)

\* What the CRD's own validation accepts: targetQueueDepth and maxScaleUpStep
\* are at least 1.  Nothing there relates minReplicas to maxReplicas.
IsPolicy(p) ==
    p \in [MinReplicas : 0 .. MaxInt, MaxReplicas : 1 .. MaxInt,
          TargetQueueDepth : 1 .. MaxInt, MaxScaleUpStep : 1 .. MaxInt,
          ScaleUpAfter : Nat, ScaleDownAfter : Nat]

\* These integers are "omitempty" and have a default in the CRD: a zero is left
\* out of the JSON a typed client sends, and the API server fills the hole with
\* the default.  StoredPolicy(p) is what a full Update leaves of a policy.
OrDefault(value, default) == IF value = 0 THEN default ELSE value

StoredPolicy(p) ==
    [p EXCEPT !.MinReplicas = OrDefault(@, 1),
              !.ScaleUpAfter = OrDefault(@, DefaultScaleUp),
              !.ScaleDownAfter = OrDefault(@, DefaultScaleDown)]

Reasons == {"QueueAtTarget", "QueueAboveTarget", "QueueBelowTarget",
            "ScaleUpStabilizing", "ScaleDownStabilizing", "WeightsNotCached",
            "BelowMinReplicas", "AboveMaxReplicas"}

Decision(replicas, changed, reason) ==
    [Replicas |-> replicas, Changed |-> changed, Reason |-> reason]

Elapsed(s, window) == s.LastScale = 0 \/ s.Now >= s.LastScale + window

\* Mutant: rounds down.
FloorDiv(a, b) == IF a <= 0 THEN 0 ELSE Quo(a, b)

CeilDiv(a, b) == IF a <= 0 THEN 0 ELSE Quo(Wrap(Wrap(a + b) - 1), b)

\* Mutant: forgets the floor.
ClampBelow(v, lo, hi) == Minimum(v, hi)

Clamp(v, lo, hi) == Minimum(Maximum(v, lo), hi)

Target(p, s) ==
    Clamp(CeilDiv(s.QueueDepth, p.TargetQueueDepth), p.MinReplicas, p.MaxReplicas)

Hold(s, reason) == Decision(s.CurrentReplicas, FALSE, reason)

\* Mutant: grows while the weights are cold.
GrowCold(p, s) ==
    IF ~Elapsed(s, p.ScaleUpAfter) THEN Hold(s, "ScaleUpStabilizing")
    ELSE Decision(s.CurrentReplicas
                    + Minimum(Target(p, s) - s.CurrentReplicas, p.MaxScaleUpStep),
                  TRUE, "QueueAboveTarget")

Grow(p, s) ==
    IF ~s.WeightsCached THEN Hold(s, "WeightsNotCached")
    ELSE IF ~Elapsed(s, p.ScaleUpAfter) THEN Hold(s, "ScaleUpStabilizing")
    ELSE Decision(s.CurrentReplicas
                    + Minimum(Target(p, s) - s.CurrentReplicas, p.MaxScaleUpStep),
                  TRUE, "QueueAboveTarget")

\* Mutant: shrinks by the step that growth is capped with.
ShrinkByStep(p, s) ==
    IF ~Elapsed(s, p.ScaleDownAfter) THEN Hold(s, "ScaleDownStabilizing")
    ELSE Decision(s.CurrentReplicas - p.MaxScaleUpStep, TRUE, "QueueBelowTarget")

Shrink(p, s) ==
    IF ~Elapsed(s, p.ScaleDownAfter) THEN Hold(s, "ScaleDownStabilizing")
    ELSE Decision(s.CurrentReplicas - 1, TRUE, "QueueBelowTarget")

\* Decide: bounds are enforced at once, growth needs cached weights and the
\* scale-up window and is capped, shrinking needs the scale-down window and
\* moves by one.
Decide(p, s) ==
    LET cur == s.CurrentReplicas
        target == Target(p, s)
    IN  CASE cur > p.MaxReplicas ->
               Decision(p.MaxReplicas, TRUE, "AboveMaxReplicas")
          [] cur <= p.MaxReplicas /\ cur < p.MinReplicas ->
               IF s.WeightsCached
               THEN Decision(p.MinReplicas, TRUE, "BelowMinReplicas")
               ELSE Hold(s, "WeightsNotCached")
          [] OTHER ->
               CASE target > cur -> Grow(p, s)
                 [] target < cur -> Shrink(p, s)
                 [] OTHER -> Hold(s, "QueueAtTarget")

-----------------------------------------------------------------------------
(* Queue.Depth: values maps each selected pod to its metric in thousandths *)

Depth(values) ==
    LET total == SumFunction([pod \in DOMAIN values |-> Quo(values[pod], 1000)])
    IN  IF total < 0 THEN Unavailable ELSE Minimum(total, MaxInt)
=============================================================================
