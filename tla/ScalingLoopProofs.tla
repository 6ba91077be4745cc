-------------------------- MODULE ScalingLoopProofs --------------------------
(***************************************************************************)
(* Theorems about the scaling loop for every set of policies the CRD       *)
(* accepts, every number of pods and every load.                           *)
(***************************************************************************)
EXTENDS ScalingLoop, ScalingTheorems

-----------------------------------------------------------------------------
(* Arithmetic of the windows *)

LEMMA DivFacts ==
    ASSUME NEW a \in Nat, NEW b \in Nat, NEW u \in Nat \ {0}, a <= b
    PROVE  /\ a \div u \in Nat
           /\ a \div u <= b \div u
           /\ a + u <= b => a \div u + 1 <= b \div u
<1> DEFINE q == a \div u
           r == b \div u
<1>1. q \in Int /\ u * q <= a /\ a < u * q + u
  OBVIOUS
<1>2. r \in Int /\ u * r <= b /\ b < u * r + u
  OBVIOUS
<1> HIDE DEF q, r
<1>3. q >= 0
  <2> SUFFICES ASSUME q <= -1 PROVE FALSE
    BY <1>1
  <2>1. u * q <= u * (-1)
    BY <1>1
  <2> QED
    BY <1>1, <2>1
<1>4. q <= r
  <2> SUFFICES ASSUME r + 1 <= q PROVE FALSE
    BY <1>1, <1>2
  <2>1. u * (r + 1) <= u * q
    BY <1>1, <1>2
  <2>2. u * (r + 1) = u * r + u
    BY <1>2
  <2> QED
    BY <1>1, <1>2, <2>1, <2>2
<1>5. a + u <= b => q + 1 <= r
  <2> SUFFICES ASSUME a + u <= b, r <= q PROVE FALSE
    BY <1>1, <1>2
  <2>1. u * r <= u * q
    BY <1>1, <1>2
  <2> QED
    BY <1>1, <1>2, <2>1
<1> QED
  BY <1>1, <1>3, <1>4, <1>5 DEF q, r

\* The room the windows leave grows with time, by one change per window.
LEMMA WindowsFacts ==
    ASSUME NEW a \in Nat, NEW b \in Nat, NEW w \in Nat \ {0}, a <= b
    PROVE  /\ Windows(a, w) \in Nat /\ Windows(b, w) \in Nat
           /\ Windows(a, w) <= Windows(b, w)
           /\ b > 0 /\ (a = 0 \/ a + w <= b) => Windows(a, w) + 1 <= Windows(b, w)
<1>1. CASE a = 0
  <2>1. Windows(a, w) = 0
    BY <1>1 DEF Windows
  <2>2. b > 0 => b - 1 \in Nat
    OBVIOUS
  <2>3. b > 0 => (b - 1) \div w \in Nat
    BY <2>2, DivFacts
  <2>4. /\ b > 0 => Windows(b, w) = 1 + (b - 1) \div w
        /\ b = 0 => Windows(b, w) = 0
    BY DEF Windows
  <2>5. Windows(b, w) \in Nat /\ (b > 0 => Windows(b, w) >= 1)
    BY <2>3, <2>4
  <2> QED
    BY <2>1, <2>5
<1>2. CASE a > 0
  <2>1. a - 1 \in Nat /\ b - 1 \in Nat /\ a - 1 <= b - 1 /\ b # 0
        /\ (a + w <= b => (a - 1) + w <= b - 1)
    BY <1>2
  <2> DEFINE q == (a - 1) \div w
             r == (b - 1) \div w
  <2>2. q \in Nat /\ r \in Nat /\ q <= r /\ ((a - 1) + w <= b - 1 => q + 1 <= r)
    BY <2>1, DivFacts
  <2>3. Windows(a, w) = 1 + q /\ Windows(b, w) = 1 + r
    BY <1>2, <2>1 DEF Windows
  <2> HIDE DEF q, r
  <2> QED
    BY <1>2, <2>1, <2>2, <2>3
<1> QED
  BY <1>1, <1>2

LEMMA TimesFacts ==
    ASSUME NEW c \in Nat, NEW m \in Int, NEW n \in Int
    PROVE  /\ c * n \in Int
           /\ c * (n + 1) = c * n + c
           /\ m <= n => c * m <= c * n
OBVIOUS

-----------------------------------------------------------------------------
(* Types *)

\* Queue.Depth answers with a count or not at all, whatever the pods report.
LEMMA DepthType ==
    ASSUME NEW q \in [Pods -> Metrics]
    PROVE  Depth(q) \in (0 .. MaxInt) \cup {Unavailable}
<1> DEFINE whole == [pod \in DOMAIN q |-> Quo(q[pod], 1000)]
<1>1. whole \in [Pods -> Int]
  <2>1. \A pod \in Pods : q[pod] \in Int
    BY LoopAssumption
  <2>2. \A pod \in Pods : Quo(q[pod], 1000) \in Int
    BY <2>1, QuoType
  <2> QED
    BY <2>2
<1>2. IsSummable(Int)
  BY DEF IsSummable
<1>3. SumFunction(whole) \in Int
  BY <1>1, <1>2, SumClosed, LoopAssumption
<1> HIDE DEF whole
<1>4. Depth(q) = IF SumFunction(whole) < 0 THEN Unavailable
                 ELSE Minimum(SumFunction(whole), MaxInt)
  BY DEF Depth, whole
<1> QED
  BY <1>3, <1>4, MaxIntAssumption DEF Minimum

\* What the API server holds is a policy the user configured, up to zeroes.
LEMMA ConfiguredFacts ==
    ASSUME NEW c \in Configured
    PROVE  /\ IsPolicy(c)
           /\ StoredPolicy(c) \in Configured
           /\ StoredPolicy(c).MaxScaleUpStep = c.MaxScaleUpStep
           /\ StoredPolicy(c).ScaleUpAfter = OrDefault(c.ScaleUpAfter, DefaultScaleUp)
           /\ StoredPolicy(c).ScaleDownAfter = OrDefault(c.ScaleDownAfter, DefaultScaleDown)
           /\ \E p \in Policies : /\ c.TargetQueueDepth = p.TargetQueueDepth
                                  /\ c.MaxReplicas = p.MaxReplicas
                                  /\ c.MinReplicas = p.MinReplicas \/ c.MinReplicas = 1
<1>1. ASSUME NEW p, IsPolicy(p)
      PROVE  /\ IsPolicy(StoredPolicy(p))
             /\ StoredPolicy(p).MinReplicas = OrDefault(p.MinReplicas, 1)
             /\ StoredPolicy(p).MaxReplicas = p.MaxReplicas
             /\ StoredPolicy(p).TargetQueueDepth = p.TargetQueueDepth
             /\ StoredPolicy(p).MaxScaleUpStep = p.MaxScaleUpStep
             /\ StoredPolicy(p).ScaleUpAfter = OrDefault(p.ScaleUpAfter, DefaultScaleUp)
             /\ StoredPolicy(p).ScaleDownAfter = OrDefault(p.ScaleDownAfter, DefaultScaleDown)
  <2>1. /\ OrDefault(p.MinReplicas, 1) \in 0 .. MaxInt
        /\ OrDefault(p.ScaleUpAfter, DefaultScaleUp) \in Nat
        /\ OrDefault(p.ScaleDownAfter, DefaultScaleDown) \in Nat
    BY <1>1, MaxIntAssumption, DefaultsAssumption DEF IsPolicy, OrDefault
  <2> QED
    BY <1>1, <2>1 DEF IsPolicy, StoredPolicy
<1>2. CASE c \in Policies
  <2>1. IsPolicy(c)
    BY <1>2, PoliciesAssumption
  <2>2. StoredPolicy(c) \in Configured
    BY <1>2 DEF Configured
  <2> QED
    BY <1>1, <1>2, <2>1, <2>2
<1>3. CASE c \notin Policies
  <2>1. PICK p \in Policies : c = StoredPolicy(p)
    BY <1>3 DEF Configured
  <2>2. IsPolicy(p)
    BY PoliciesAssumption
  <2>3. /\ IsPolicy(c)
        /\ c.MinReplicas = OrDefault(p.MinReplicas, 1)
        /\ c.MaxReplicas = p.MaxReplicas
        /\ c.TargetQueueDepth = p.TargetQueueDepth
        /\ c.ScaleUpAfter = OrDefault(p.ScaleUpAfter, DefaultScaleUp)
        /\ c.ScaleDownAfter = OrDefault(p.ScaleDownAfter, DefaultScaleDown)
    BY <1>1, <2>1, <2>2
  <2>4. c.MinReplicas # 0 /\ c.ScaleUpAfter # 0 /\ c.ScaleDownAfter # 0
    BY <2>3, DefaultsAssumption DEF OrDefault
  <2>5. StoredPolicy(c) = c
    BY <2>3, <2>4 DEF StoredPolicy, OrDefault, IsPolicy
  <2> QED
    BY <1>1, <2>1, <2>3, <2>5 DEF OrDefault
<1> QED
  BY <1>2, <1>3

\* A pass with a reading decides from well-formed inputs.
LEMMA PollDecides ==
    ASSUME LoopTypeOK, ApplyDecision
    PROVE  LET s == Observed(Reading)
           IN  /\ IsPolicy(policy)
               /\ s.CurrentReplicas \in 0 .. MaxInt
               /\ s.QueueDepth \in Int
               /\ Decide(policy, s).Changed
               /\ replicas' = OrDefault(Decide(policy, s).Replicas, 1)
<1>1. Reading \in 0 .. MaxInt
  BY DepthType DEF LoopTypeOK, ApplyDecision, Reading
<1> QED
  BY <1>1, ConfiguredFacts DEF LoopTypeOK, ApplyDecision, Observed

\* A queue-driven decision moves in its direction and by at most what its
\* reason allows.
LEMMA QueueSteps ==
    ASSUME LoopTypeOK, ApplyDecision
    PROVE  LET d == Decide(policy, Observed(Reading))
           IN  /\ replicas' \in 0 .. MaxInt
               /\ d.Reason = "QueueAboveTarget" =>
                    /\ replicas' - replicas \in 0 .. policy.MaxScaleUpStep
                    /\ cached
                    /\ lastScale = 0 \/ now >= lastScale + policy.ScaleUpAfter
               /\ d.Reason = "QueueBelowTarget" =>
                    /\ replicas' \in (replicas - 1) .. replicas
                    /\ lastScale = 0 \/ now >= lastScale + policy.ScaleDownAfter
               /\ ~cached => replicas' <= replicas
<1> DEFINE s == Observed(Reading)
           d == Decide(policy, s)
           target == Target(policy, s)
<1>1. /\ IsPolicy(policy)
      /\ s.CurrentReplicas \in 0 .. MaxInt
      /\ s.QueueDepth \in Int
      /\ d.Changed
      /\ replicas' = OrDefault(d.Replicas, 1)
  BY PollDecides
<1>2. /\ s.CurrentReplicas = replicas
      /\ s.WeightsCached = cached
      /\ s.LastScale = lastScale
      /\ s.Now = now
  BY DEF Observed
<1> HIDE DEF s
<1>3. d.Replicas \in 0 .. MaxInt /\ replicas' \in 0 .. MaxInt
  BY <1>1, DecideType, MaxIntAssumption DEF OrDefault
<1>4. target \in 0 .. policy.MaxReplicas
  BY <1>1, TargetType
<1>5. \/ \E reason \in Reasons : d = Decision(replicas, FALSE, reason)
      \/ /\ replicas > policy.MaxReplicas
         /\ d = Decision(policy.MaxReplicas, TRUE, "AboveMaxReplicas")
      \/ cached /\ d = Decision(policy.MinReplicas, TRUE, "BelowMinReplicas")
      \/ /\ target > replicas
         /\ cached
         /\ Elapsed(s, policy.ScaleUpAfter)
         /\ d = Decision(replicas + Minimum(target - replicas, policy.MaxScaleUpStep), TRUE,
                         "QueueAboveTarget")
      \/ /\ Elapsed(s, policy.ScaleDownAfter)
         /\ d = Decision(replicas - 1, TRUE, "QueueBelowTarget")
  <2>1. (s.WeightsCached <=> TRUE) => cached
    BY <1>2
  <2> QED
    BY <1>1, <1>2, <2>1, DecideCases, Zenon
<1>6. policy.MaxScaleUpStep \in 1 .. MaxInt /\ replicas \in 0 .. MaxInt
      /\ policy.MaxReplicas \in 1 .. MaxInt
  BY <1>1, <1>2 DEF IsPolicy
<1> HIDE DEF d, target
<1>7. CASE \E reason \in Reasons : d = Decision(replicas, FALSE, reason)
  BY <1>1, <1>7 DEF Decision
<1>8. CASE replicas > policy.MaxReplicas
           /\ d = Decision(policy.MaxReplicas, TRUE, "AboveMaxReplicas")
  <2>1. d.Replicas = policy.MaxReplicas /\ d.Reason = "AboveMaxReplicas"
    BY <1>8 DEF Decision
  <2>2. replicas' = policy.MaxReplicas
    BY <1>1, <1>6, <2>1, MaxIntAssumption DEF OrDefault
  <2>3. replicas' <= replicas
    BY <1>6, <1>8, <2>2, MaxIntAssumption
  <2> QED
    BY <1>3, <2>1, <2>3 DEF d, s
<1>9. CASE cached /\ d = Decision(policy.MinReplicas, TRUE, "BelowMinReplicas")
  <2>1. d.Reason = "BelowMinReplicas"
    BY <1>9 DEF Decision
  <2> QED
    BY <1>3, <1>9, <2>1 DEF d, s
<1>10. CASE /\ target > replicas
            /\ cached
            /\ Elapsed(s, policy.ScaleUpAfter)
            /\ d = Decision(replicas + Minimum(target - replicas, policy.MaxScaleUpStep), TRUE,
                            "QueueAboveTarget")
  <2>1. d.Replicas = replicas + Minimum(target - replicas, policy.MaxScaleUpStep)
        /\ d.Reason = "QueueAboveTarget"
    BY <1>10 DEF Decision
  <2>2. replicas' - replicas \in 0 .. policy.MaxScaleUpStep
    <3> DEFINE more == Minimum(target - replicas, policy.MaxScaleUpStep)
    <3>1. more \in 1 .. policy.MaxScaleUpStep
      BY <1>4, <1>6, <1>10, MaxIntAssumption DEF Minimum
    <3>2. replicas' = OrDefault(replicas + more, 1)
      BY <1>1, <2>1
    <3> HIDE DEF more
    <3>3. replicas' = replicas + more
      BY <1>6, <3>1, <3>2, MaxIntAssumption DEF OrDefault
    <3> QED
      BY <1>6, <3>1, <3>3, MaxIntAssumption
  <2>3. lastScale = 0 \/ now >= lastScale + policy.ScaleUpAfter
    BY <1>2, <1>10 DEF Elapsed
  <2> QED
    BY <1>3, <1>10, <2>1, <2>2, <2>3 DEF d, s
<1>11. CASE /\ Elapsed(s, policy.ScaleDownAfter)
            /\ d = Decision(replicas - 1, TRUE, "QueueBelowTarget")
  <2>1. d.Replicas = replicas - 1 /\ d.Reason = "QueueBelowTarget"
    BY <1>11 DEF Decision
  <2>2. replicas' \in (replicas - 1) .. replicas /\ replicas' <= replicas
    BY <1>1, <1>3, <1>6, <2>1, MaxIntAssumption DEF OrDefault
  <2>3. lastScale = 0 \/ now >= lastScale + policy.ScaleDownAfter
    BY <1>2, <1>11 DEF Elapsed
  <2> QED
    BY <1>3, <2>1, <2>2, <2>3 DEF d, s
<1> QED
  BY <1>5, <1>7, <1>8, <1>9, <1>10, <1>11

-----------------------------------------------------------------------------
(* Invariants of the loop *)

LEMMA InitTypes == LoopInit => LoopTypeOK
<1> SUFFICES ASSUME LoopInit PROVE LoopTypeOK
  OBVIOUS
<1>1. replicas \in 0 .. MaxInt
  BY LoopAssumption DEF LoopInit
<1>2. cached \in BOOLEAN /\ polled \in BOOLEAN
  BY Zenon DEF LoopInit
<1>3. queue \in [Pods -> Metrics] \cup {Unavailable}
  BY DEF LoopInit
<1>4. /\ lastScale \in Nat /\ pending \in Nat /\ now \in Nat
      /\ added \in Nat /\ removed \in Nat /\ lost \in Nat
  BY DEF LoopInit
<1>5. policy \in Configured
  BY DEF LoopInit, Configured
<1> QED
  BY <1>1, <1>2, <1>3, <1>4, <1>5, Zenon DEF LoopTypeOK

LEMMA StepTypes == LoopTypeOK /\ [LoopNext]_loopVars => LoopTypeOK'
<1> SUFFICES ASSUME LoopTypeOK, [LoopNext]_loopVars PROVE LoopTypeOK'
  OBVIOUS
<1>1. CASE ApplyDecision
  <2>1. replicas' \in 0 .. MaxInt
    BY <1>1, QueueSteps
  <2>2. added' \in Nat
    BY <1>1, <2>1, QueueSteps, MaxIntAssumption DEF ApplyDecision, LoopTypeOK
  <2>3. removed' \in Nat
    BY <1>1, <2>1, QueueSteps, MaxIntAssumption DEF ApplyDecision, LoopTypeOK
  <2>4. policy' \in Configured
    BY <1>1, ConfiguredFacts DEF ApplyDecision, LoopTypeOK
  <2> QED
    BY <1>1, <2>1, <2>2, <2>3, <2>4 DEF ApplyDecision, LoopTypeOK
<1>2. CASE HoldSize
  BY <1>2 DEF HoldSize, LoopTypeOK
<1>7. CASE RecordTime
  BY <1>7 DEF RecordTime, LoopTypeOK
<1>8. CASE CutShort
  BY <1>8 DEF CutShort, LoopTypeOK
<1>3. CASE ChangeLoad
  BY <1>3 DEF ChangeLoad, LoopTypeOK
<1>4. CASE ChangeWeights
  BY <1>4 DEF ChangeWeights, LoopTypeOK
<1>5. CASE PassTime
  <2>1. now' \in Nat
    BY <1>5 DEF PassTime, LoopTypeOK
  <2>2. polled' \in BOOLEAN
    BY <1>5, Zenon DEF PassTime
  <2> QED
    BY <1>5, <2>1, <2>2, Zenon DEF PassTime, LoopTypeOK
<1>6. CASE UNCHANGED loopVars
  BY <1>6 DEF loopVars, LoopTypeOK
<1> QED
  BY <1>1, <1>2, <1>3, <1>4, <1>5, <1>6, <1>7, <1>8 DEF LoopNext, Poll

\* Types: the replica count stays an int32 that is not negative, whatever the
\* policy and the readings.
THEOREM LoopTypes == LoopSpec => []LoopTypeOK
<1> QED
  BY InitTypes, StepTypes, PTL DEF LoopSpec

\* Decide never grows a deployment whose weights are not cached.
THEOREM ColdNeverGrows == LoopSpec => NoGrowthWhileCold
<1>1. LoopTypeOK /\ [LoopNext]_loopVars => [~cached => replicas' <= replicas]_loopVars
  <2> SUFFICES ASSUME LoopTypeOK, LoopNext PROVE ~cached => replicas' <= replicas
    OBVIOUS
  <2>1. CASE ApplyDecision
    BY <2>1, QueueSteps
  <2>2. CASE HoldSize \/ RecordTime \/ CutShort \/ ChangeLoad \/ ChangeWeights \/ PassTime
    <3>1. replicas' = replicas /\ replicas \in Nat
      BY <2>2, MaxIntAssumption
      DEF HoldSize, RecordTime, CutShort, ChangeLoad, ChangeWeights, PassTime, LoopTypeOK
    <3> QED
      BY <3>1
  <2> QED
    BY <2>1, <2>2 DEF LoopNext, Poll
<1> QED
  BY <1>1, LoopTypes, PTL DEF LoopSpec, NoGrowthWhileCold

\* A total that is charged at most c per window of w seconds.  It is charged up
\* to the last change rather than up to now: that is what the next change, one
\* window later, adds to.  While the time of a decision is outstanding, it has
\* been charged in two ways: to the windows up to that decision, in case the
\* time is written, and as one change beyond the last recorded one, in case it
\* is lost.
WithinRate(total, c, w) ==
    /\ pending = 0 => total <= c * (Windows(lastScale, w) + lost)
    /\ pending # 0 => /\ total <= c * (Windows(lastScale, w) + (lost + 1))
                      /\ total <= c * (Windows(pending, w) + lost)

\* The inductive form of RateBounded.  A window of zero is a window of a policy
\* that no Update of the operator has stored yet.
RateInv ==
    /\ LoopTypeOK
    /\ 1 <= now
    /\ lastScale <= now
    /\ pending <= now
    /\ policy.ScaleUpAfter > 0 => WithinRate(added, policy.MaxScaleUpStep, policy.ScaleUpAfter)
    /\ policy.ScaleDownAfter > 0 => WithinRate(removed, 1, policy.ScaleDownAfter)
    /\ policy.ScaleUpAfter = 0 \/ policy.ScaleDownAfter = 0 =>
         lastScale = 0 /\ pending = 0 /\ added = 0 /\ removed = 0

LEMMA InitRate == LoopInit => RateInv
<1> SUFFICES ASSUME LoopInit PROVE RateInv
  OBVIOUS
<1>1. LoopTypeOK
  BY InitTypes
<1>2. now = 1 /\ lastScale = 0 /\ pending = 0 /\ added = 0 /\ removed = 0 /\ lost = 0
  BY DEF LoopInit
<1>3. policy.MaxScaleUpStep \in Nat
  BY <1>1, ConfiguredFacts, MaxIntAssumption DEF LoopTypeOK, IsPolicy
<1>4. \A c \in Nat : \A w : WithinRate(0, c, w)
  BY <1>2 DEF WithinRate, Windows
<1> QED
  BY <1>1, <1>2, <1>3, <1>4 DEF RateInv

\* A change at time t is charged to the windows up to t, or as one beyond the
\* windows up to the change before.
LEMMA Charge ==
    ASSUME NEW c \in Nat, NEW w \in Nat \ {0}, NEW l \in Nat, NEW t \in Nat \ {0}, l <= t,
           NEW k \in Nat, NEW before \in Nat, NEW after \in Nat,
           before <= c * (Windows(l, w) + k),
           after <= before + c,
           after <= before \/ l = 0 \/ t >= l + w
    PROVE  /\ after <= c * (Windows(l, w) + (k + 1))
           /\ after <= c * (Windows(t, w) + k)
<1> DEFINE a == Windows(l, w)
           b == Windows(t, w)
<1>1. a \in Nat /\ b \in Nat /\ a <= b /\ (l = 0 \/ l + w <= t => a + 1 <= b)
  <2>1. t \in Nat /\ t > 0
    OBVIOUS
  <2> QED
    BY <2>1, WindowsFacts
<1> HIDE DEF a, b
<1>2. c * (a + k) \in Int /\ c * (b + k) \in Int /\ c * ((a + k) + 1) = c * (a + k) + c
  BY <1>1, TimesFacts
<1>3. before <= c * (a + k)
  BY DEF a
<1>4. after <= c * (a + (k + 1))
  <2>1. (a + k) + 1 = a + (k + 1)
    BY <1>1
  <2> QED
    BY <1>2, <1>3, <2>1
<1>5. after <= c * (b + k)
  <2>1. CASE after <= before
    <3>1. c * (a + k) <= c * (b + k)
      BY <1>1, TimesFacts
    <3> QED
      BY <1>2, <1>3, <2>1, <3>1
  <2>2. CASE l = 0 \/ t >= l + w
    <3>1. (a + k) + 1 <= b + k
      BY <1>1, <2>2
    <3>2. c * ((a + k) + 1) <= c * (b + k)
      BY <1>1, <3>1, TimesFacts
    <3> QED
      BY <1>2, <1>3, <3>2
  <2> QED
    BY <2>1, <2>2
<1> QED
  BY <1>4, <1>5 DEF a, b

\* The same as a step of the loop, for a window that may only now have got its
\* default.
LEMMA ChargeStep ==
    ASSUME RateInv, ApplyDecision, NEW c \in Nat, NEW w \in Nat, NEW v \in Nat \ {0},
           w # 0 => v = w,
           NEW before \in Nat, NEW after \in Nat,
           w > 0 => WithinRate(before, c, w),
           w = 0 => lastScale = 0 /\ before = 0,
           after <= before + c,
           after <= before \/ lastScale = 0 \/ now >= lastScale + w
    PROVE  /\ after <= c * (Windows(lastScale, v) + (lost + 1))
           /\ after <= c * (Windows(now, v) + lost)
<1>1. /\ lastScale \in Nat /\ now \in Nat \ {0} /\ lastScale <= now /\ lost \in Nat
      /\ pending = 0
  BY DEF RateInv, LoopTypeOK, ApplyDecision
<1>2. before <= c * (Windows(lastScale, v) + lost)
  <2>1. CASE w = 0
    <3>1. Windows(lastScale, v) \in Nat
      BY <1>1, WindowsFacts
    <3>2. c * (Windows(lastScale, v) + lost) >= c * 0
      BY <1>1, <3>1, TimesFacts
    <3>3. c * 0 = 0 /\ c * (Windows(lastScale, v) + lost) \in Int
      BY <1>1, <3>1, TimesFacts
    <3> QED
      BY <2>1, <3>2, <3>3
  <2>2. CASE w # 0
    BY <1>1, <2>2 DEF WithinRate
  <2> QED
    BY <2>1, <2>2
<1>3. after <= before \/ lastScale = 0 \/ now >= lastScale + v
  BY <1>1
<1> QED
  BY <1>1, <1>2, <1>3, Charge

LEMMA StepRate == RateInv /\ [LoopNext]_loopVars => RateInv'
<1> SUFFICES ASSUME RateInv, [LoopNext]_loopVars PROVE RateInv'
  OBVIOUS
<1>1. LoopTypeOK /\ LoopTypeOK'
  BY StepTypes DEF RateInv
<1> DEFINE c == policy.MaxScaleUpStep
           u == policy.ScaleUpAfter
           v == policy.ScaleDownAfter
<1>2. /\ c \in Nat /\ u \in Nat /\ v \in Nat
      /\ added \in Nat /\ added' \in Nat /\ removed \in Nat /\ removed' \in Nat
      /\ replicas \in Nat /\ replicas' \in Nat
      /\ lastScale \in Nat /\ pending \in Nat /\ now \in Nat /\ lost \in Nat
  BY <1>1, ConfiguredFacts, MaxIntAssumption DEF LoopTypeOK, IsPolicy
<1>3. CASE ApplyDecision
  <2> DEFINE d == Decide(policy, Observed(Reading))
             size == OrDefault(d.Replicas, 1)
  <2>1. /\ pending' = now /\ now' = now /\ policy' = StoredPolicy(policy)
        /\ lastScale' = lastScale /\ lost' = lost
        /\ added' = IF d.Reason = "QueueAboveTarget" THEN added + size - replicas ELSE added
        /\ removed' = IF d.Reason = "QueueBelowTarget" THEN removed + replicas - size
                      ELSE removed
        /\ replicas' = size
    BY <1>3 DEF ApplyDecision
  <2>2. /\ d.Reason = "QueueAboveTarget" =>
             /\ replicas' - replicas \in 0 .. c
             /\ lastScale = 0 \/ now >= lastScale + u
        /\ d.Reason = "QueueBelowTarget" =>
             /\ replicas' \in (replicas - 1) .. replicas
             /\ lastScale = 0 \/ now >= lastScale + v
    BY <1>1, <1>3, QueueSteps
  <2> HIDE DEF d, size
  <2>3. added' <= added + c /\ (added' <= added \/ lastScale = 0 \/ now >= lastScale + u)
    <3>1. CASE d.Reason = "QueueAboveTarget"
      <4>1. added' = added + size - replicas /\ size - replicas <= c /\ size \in Nat
        BY <1>2, <2>1, <2>2, <3>1
      <4>2. added' <= added + c
        BY <1>2, <4>1
      <4> QED
        BY <2>2, <3>1, <4>2, Zenon
    <3>2. CASE d.Reason # "QueueAboveTarget"
      <4>1. added' = added
        BY <2>1, <3>2
      <4> QED
        BY <1>2, <4>1
    <3> QED
      BY <3>1, <3>2
  <2>4. removed' <= removed + 1 /\ (removed' <= removed \/ lastScale = 0 \/ now >= lastScale + v)
    <3>1. CASE d.Reason = "QueueBelowTarget"
      <4>1. removed' = removed + replicas - size
        BY <2>1, <3>1
      <4>2. replicas \in Nat /\ size \in Nat /\ removed \in Nat
        BY <1>2, <2>1
      <4>3. size \in (replicas - 1) .. replicas
        BY <2>1, <2>2, <3>1
      <4>4. removed' <= removed + 1
        BY <4>1, <4>2, <4>3
      <4> QED
        BY <2>2, <3>1, <4>4, Zenon
    <3>2. CASE d.Reason # "QueueBelowTarget"
      <4>1. removed' = removed
        BY <2>1, <3>2
      <4> QED
        BY <1>2, <4>1
    <3> QED
      BY <3>1, <3>2
  <2>5. /\ policy'.MaxScaleUpStep = c
        /\ policy'.ScaleUpAfter = OrDefault(u, DefaultScaleUp)
        /\ policy'.ScaleDownAfter = OrDefault(v, DefaultScaleDown)
    BY <1>1, <2>1, ConfiguredFacts DEF LoopTypeOK
  <2> DEFINE u2 == policy'.ScaleUpAfter
             v2 == policy'.ScaleDownAfter
  <2>6. /\ u2 \in Nat \ {0} /\ (u # 0 => u2 = u)
        /\ v2 \in Nat \ {0} /\ (v # 0 => v2 = v)
    BY <1>2, <2>5, DefaultsAssumption DEF OrDefault
  <2>7. /\ u > 0 => WithinRate(added, c, u)
        /\ v > 0 => WithinRate(removed, 1, v)
        /\ u = 0 \/ v = 0 => lastScale = 0 /\ added = 0 /\ removed = 0
    BY DEF RateInv
  <2>8. 1 <= now /\ lastScale <= now
    BY DEF RateInv
  <2> HIDE DEF c, u, v, u2, v2
  <2>9. /\ added' <= c * (Windows(lastScale, u2) + (lost + 1))
        /\ added' <= c * (Windows(now, u2) + lost)
    BY <1>2, <1>3, <2>3, <2>6, <2>7, ChargeStep
  <2>10. /\ removed' <= 1 * (Windows(lastScale, v2) + (lost + 1))
         /\ removed' <= 1 * (Windows(now, v2) + lost)
    BY <1>2, <1>3, <2>4, <2>6, <2>7, ChargeStep
  <2>11. pending' # 0 /\ pending' <= now'
    BY <1>2, <2>1, <2>8
  <2>12. WithinRate(added, policy.MaxScaleUpStep, policy.ScaleUpAfter)'
    BY <2>1, <2>5, <2>9, <2>11 DEF WithinRate, u2
  <2>13. WithinRate(removed, 1, policy.ScaleDownAfter)'
    BY <2>1, <2>10, <2>11 DEF WithinRate, v2
  <2>14. policy'.ScaleUpAfter # 0 /\ policy'.ScaleDownAfter # 0
    BY <2>6 DEF u2, v2
  <2> QED
    BY <1>1, <2>1, <2>8, <2>11, <2>12, <2>13, <2>14 DEF RateInv
<1>4. CASE RecordTime
  <2>1. /\ pending # 0 /\ pending' = 0 /\ lastScale' = pending
        /\ UNCHANGED <<policy, now, added, removed, lost>>
    BY <1>4 DEF RecordTime
  <2>2. u # 0 /\ v # 0 /\ 1 <= now /\ lastScale' <= now' /\ pending' <= now'
    BY <1>2, <2>1 DEF RateInv
  <2>3. WithinRate(added, policy.MaxScaleUpStep, policy.ScaleUpAfter)'
    BY <1>2, <2>1, <2>2 DEF WithinRate, RateInv
  <2>4. WithinRate(removed, 1, policy.ScaleDownAfter)'
    BY <1>2, <2>1, <2>2 DEF WithinRate, RateInv
  <2> QED
    BY <1>1, <2>1, <2>2, <2>3, <2>4 DEF RateInv
<1>5. CASE CutShort
  <2>1. /\ pending # 0 /\ pending' = 0 /\ lost' = lost + 1
        /\ UNCHANGED <<policy, lastScale, now, added, removed>>
    BY <1>5 DEF CutShort
  <2>2. u # 0 /\ v # 0 /\ 1 <= now /\ lastScale' <= now' /\ pending' <= now'
    BY <1>2, <2>1 DEF RateInv
  <2>3. WithinRate(added, policy.MaxScaleUpStep, policy.ScaleUpAfter)'
    BY <1>2, <2>1, <2>2 DEF WithinRate, RateInv
  <2>4. WithinRate(removed, 1, policy.ScaleDownAfter)'
    BY <1>2, <2>1, <2>2 DEF WithinRate, RateInv
  <2> QED
    BY <1>1, <2>1, <2>2, <2>3, <2>4 DEF RateInv
<1>6. CASE PassTime
  <2>1. now' = now + 1 /\ UNCHANGED <<policy, lastScale, pending, added, removed, lost>>
    BY <1>6 DEF PassTime
  <2>2. 1 <= now' /\ lastScale' <= now' /\ pending' <= now'
    BY <1>2, <2>1 DEF RateInv
  <2> QED
    BY <1>1, <2>1, <2>2 DEF RateInv, WithinRate
<1>7. CASE HoldSize \/ ChangeLoad \/ ChangeWeights \/ UNCHANGED loopVars
  <2>1. UNCHANGED <<policy, now, lastScale, pending, added, removed, lost>>
    BY <1>7 DEF HoldSize, ChangeLoad, ChangeWeights, loopVars
  <2> QED
    BY <1>1, <2>1 DEF RateInv, WithinRate
<1> QED
  BY <1>3, <1>4, <1>5, <1>6, <1>7 DEF LoopNext, Poll

\* The stabilization windows and the step bound together: however the load
\* moves, the queue adds at most one step per scale-up window and removes at
\* most one replica per scale-down window, and each pass that ends between the
\* write of its size and the write of its time costs at most one step more.
THEOREM RateIsBounded == LoopSpec => []RateBounded
<1>1. RateInv => RateBounded
  <2> SUFFICES ASSUME RateInv PROVE RateBounded
    OBVIOUS
  <2>1. LoopTypeOK /\ 1 <= now /\ lastScale <= now /\ pending <= now
    BY DEF RateInv
  <2>2. /\ added \in Nat /\ removed \in Nat /\ lost \in Nat
        /\ lastScale \in Nat /\ pending \in Nat /\ now \in Nat
        /\ policy.MaxScaleUpStep \in Nat /\ policy.ScaleUpAfter \in Nat
        /\ policy.ScaleDownAfter \in Nat
    BY <2>1, ConfiguredFacts, MaxIntAssumption DEF LoopTypeOK, IsPolicy
  <2>3. ASSUME NEW total \in Nat, NEW c \in Nat, NEW w \in Nat \ {0}, WithinRate(total, c, w)
        PROVE  total <= c * (Windows(now, w) + lost)
    <3> DEFINE t == IF pending = 0 THEN lastScale ELSE pending
    <3>1. t \in Nat /\ t <= now
      BY <2>1, <2>2
    <3>2. total <= c * (Windows(t, w) + lost)
      BY <2>3 DEF WithinRate
    <3> HIDE DEF t
    <3>3. Windows(t, w) \in Nat /\ Windows(now, w) \in Nat /\ Windows(t, w) <= Windows(now, w)
      BY <2>2, <3>1, WindowsFacts
    <3> DEFINE a == Windows(t, w)
               b == Windows(now, w)
    <3> HIDE DEF a, b
    <3>4. c * (a + lost) <= c * (b + lost) /\ c * (a + lost) \in Int /\ c * (b + lost) \in Int
      BY <2>2, <3>3, TimesFacts DEF a, b
    <3>5. total <= c * (a + lost)
      BY <3>2 DEF a
    <3> QED
      BY <3>4, <3>5 DEF b
  <2>4. policy.ScaleUpAfter > 0 =>
          added <= policy.MaxScaleUpStep * (Windows(now, policy.ScaleUpAfter) + lost)
    BY <2>2, <2>3 DEF RateInv
  <2>5. policy.ScaleDownAfter > 0 =>
          removed <= 1 * (Windows(now, policy.ScaleDownAfter) + lost)
    BY <2>2, <2>3 DEF RateInv
  <2>6. policy.ScaleDownAfter > 0 => Windows(now, policy.ScaleDownAfter) \in Nat
    BY <2>2, WindowsFacts
  <2>7. policy.ScaleDownAfter > 0 => removed <= Windows(now, policy.ScaleDownAfter) + lost
    BY <2>2, <2>5, <2>6
  <2> QED
    BY <2>4, <2>7 DEF RateBounded
<1> QED
  BY <1>1, InitRate, StepRate, PTL DEF LoopSpec

-----------------------------------------------------------------------------
(* Where the loop heads *)

\* What Depth needs to report what is waiting: pods that report whole requests
\* (each value is cut to an integer before the sum).
WholeRequests == \A v \in Metrics : \E n \in Nat : v = 1000 * n

\* What ceilDiv needs: a sum of depth and target that an int32 holds.
NoOverflow ==
    \A q \in [Pods -> Metrics], p \in Policies :
      Depth(q) # Unavailable => Depth(q) + p.TargetQueueDepth <= MaxInt

\* What Decide needs: a floor that is not above the ceiling.
OrderedBounds == \A p \in Policies : p.MinReplicas <= p.MaxReplicas

LEMMA DepthIsWaiting ==
    ASSUME LoopTypeOK, queue # Unavailable, WholeRequests, NoOverflow
    PROVE  Depth(queue) = Waiting /\ Waiting \in Nat
<1> DEFINE whole == [pod \in DOMAIN queue |-> Quo(queue[pod], 1000)]
           total == SumFunction(whole)
<1>1. queue \in [Pods -> Metrics]
  BY DEF LoopTypeOK
<1>2. \A pod \in Pods : Quo(queue[pod], 1000) \in Nat
                        /\ queue[pod] = 1000 * Quo(queue[pod], 1000)
  BY <1>1 DEF WholeRequests, Quo
<1>3. whole \in [Pods -> Nat] /\ whole \in [Pods -> Int] /\ queue \in [Pods -> Int]
      /\ IsMultiple(queue, 1000, whole)
  BY <1>1, <1>2, LoopAssumption DEF IsMultiple
<1>4. IsSummable(Nat) /\ IsSummable(Int) /\ Distributes(1000, Int)
  BY DEF IsSummable, Distributes
<1>5. total \in Nat
  <2> HIDE DEF whole
  <2> QED
    BY <1>3, <1>4, SumClosed, LoopAssumption
<1>6. SumFunction(queue) = 1000 * total
  <2> HIDE DEF whole
  <2> QED
    BY <1>3, <1>4, SumScaled, LoopAssumption
<1>7. Waiting = total
  <2> HIDE DEF total
  <2> QED
    BY <1>5, <1>6 DEF Waiting
<1>8. Depth(queue) = Minimum(total, MaxInt)
  <2>1. Depth(queue) = IF total < 0 THEN Unavailable ELSE Minimum(total, MaxInt)
    BY DEF Depth
  <2> HIDE DEF total
  <2> QED
    BY <1>5, <2>1
<1> HIDE DEF total
<1>9. Depth(queue) \in 0 .. MaxInt /\ Depth(queue) # Unavailable
  BY <1>5, <1>8, MaxIntAssumption, UnavailableAssumption DEF Minimum
<1>10. Depth(queue) + policy.TargetQueueDepth <= MaxInt
       /\ policy.TargetQueueDepth \in 1 .. MaxInt
  <2>1. PICK p \in Policies : policy.TargetQueueDepth = p.TargetQueueDepth
    BY ConfiguredFacts DEF LoopTypeOK
  <2>2. policy.TargetQueueDepth \in 1 .. MaxInt
    BY ConfiguredFacts DEF LoopTypeOK, IsPolicy
  <2> QED
    BY <1>1, <1>9, <2>1, <2>2 DEF NoOverflow
<1>11. Depth(queue) = total
  BY <1>5, <1>8, <1>9, <1>10, MaxIntAssumption DEF Minimum
<1> QED
  BY <1>5, <1>7, <1>11

\* The target Decide computes is the size the queue calls for.
LEMMA TargetIsNeed ==
    ASSUME LoopTypeOK, queue # Unavailable, WholeRequests, NoOverflow
    PROVE  Target(policy, Observed(Reading)) = Need
<1> DEFINE t == policy.TargetQueueDepth
           w == Waiting
           c == CeilDiv(w, t)
           enough == {n \in 0 .. w : n * t >= w}
           least == CHOOSE n \in enough : \A m \in enough : n <= m
<1>1. Depth(queue) = w /\ w \in Nat
  BY DepthIsWaiting
<1>2. Observed(Reading).QueueDepth = w
  BY <1>1 DEF Observed, Reading
<1>3. t \in 1 .. MaxInt /\ w + t <= MaxInt
  <2>1. w # Unavailable /\ queue \in [Pods -> Metrics]
    BY <1>1, UnavailableAssumption DEF LoopTypeOK
  <2>2. PICK p \in Policies : t = p.TargetQueueDepth
    BY ConfiguredFacts DEF LoopTypeOK
  <2>3. t \in 1 .. MaxInt
    BY ConfiguredFacts DEF LoopTypeOK, IsPolicy
  <2> QED
    BY <1>1, <2>1, <2>2, <2>3 DEF NoOverflow
<1> HIDE DEF w, t
<1>4. c \in 0 .. w /\ c * t >= w /\ \A m \in Nat : m * t >= w => c <= m
  BY <1>1, <1>3, CeilDivLeast
<1> HIDE DEF c
<1>5. c \in enough /\ \A m \in enough : c <= m
  BY <1>1, <1>4
<1>6. least \in enough /\ \A m \in enough : least <= m
  <2> HIDE DEF enough
  <2> QED
    BY <1>5
<1>7. least = c
  <2>1. least \in 0 .. w /\ c \in 0 .. w
    BY <1>5, <1>6
  <2>2. least <= c /\ c <= least
    BY <1>5, <1>6
  <2> HIDE DEF least
  <2> QED
    BY <1>1, <2>1, <2>2
<1>8. Need = Minimum(Maximum(least, policy.MinReplicas), policy.MaxReplicas)
  BY DEF Need, w, t
<1>9. Target(policy, Observed(Reading)) = Clamp(c, policy.MinReplicas, policy.MaxReplicas)
  BY <1>2 DEF Target, c, t
<1> HIDE DEF least
<1> QED
  BY <1>7, <1>8, <1>9 DEF Clamp

\* Every change Decide makes lands strictly closer to what the queue calls for
\* and not past it, for every ordered policy, number of pods and load of whole
\* requests that ceilDiv can round.
THEOREM HeadsForNeed ==
    ASSUME WholeRequests, NoOverflow, OrderedBounds
    PROVE  LoopSpec => MovesTowardsNeed
<1> DEFINE Closer == replicas' # replicas /\ queue # Unavailable =>
                       \/ replicas < replicas' /\ replicas' <= Need
                       \/ replicas > replicas' /\ replicas' >= Need
<1>1. LoopTypeOK /\ [LoopNext]_loopVars => [Closer]_loopVars
  <2> SUFFICES ASSUME LoopTypeOK, LoopNext, replicas' # replicas, queue # Unavailable
               PROVE  \/ replicas < replicas' /\ replicas' <= Need
                      \/ replicas > replicas' /\ replicas' >= Need
    OBVIOUS
  <2>1. ApplyDecision
    BY DEF LoopNext, Poll, HoldSize, RecordTime, CutShort, ChangeLoad, ChangeWeights, PassTime
  <2> DEFINE s == Observed(Reading)
             d == Decide(policy, s)
             target == Target(policy, s)
             max == policy.MaxReplicas
             min == policy.MinReplicas
             step == policy.MaxScaleUpStep
  <2>2. /\ IsPolicy(policy)
        /\ s.CurrentReplicas \in 0 .. MaxInt
        /\ s.QueueDepth \in Int
        /\ replicas' = OrDefault(d.Replicas, 1)
    BY <2>1, PollDecides
  <2>3. s.CurrentReplicas = replicas
    BY DEF Observed
  <2>4. target = Need
    BY TargetIsNeed
  <2> HIDE DEF s
  <2>5. target \in 0 .. max
    BY <2>2, TargetType
  <2>6. /\ max \in 1 .. MaxInt /\ min \in 0 .. MaxInt /\ step \in 1 .. MaxInt
        /\ min <= max /\ replicas \in 0 .. MaxInt
    <3>1. max \in 1 .. MaxInt /\ min \in 0 .. MaxInt /\ step \in 1 .. MaxInt
      BY <2>2 DEF IsPolicy
    <3>2. PICK p \in Policies : max = p.MaxReplicas /\ (min = p.MinReplicas \/ min = 1)
      BY ConfiguredFacts DEF LoopTypeOK
    <3> QED
      BY <3>1, <3>2 DEF OrderedBounds, LoopTypeOK
  <2>7. min <= target
    <3>1. CeilDiv(s.QueueDepth, policy.TargetQueueDepth) \in Int
      <4>1. policy.TargetQueueDepth \in 1 .. MaxInt
        BY <2>2 DEF IsPolicy
      <4>2. policy.TargetQueueDepth \in Nat \ {0}
        BY <4>1, MaxIntAssumption
      <4> QED
        BY <2>2, <4>2, CeilDivType
    <3> QED
      BY <2>6, <3>1, MaxIntAssumption DEF Target, Clamp, Minimum, Maximum
  <2>8. \/ \E reason \in Reasons : d = Decision(replicas, FALSE, reason)
        \/ replicas > max /\ d = Decision(max, TRUE, "AboveMaxReplicas")
        \/ replicas < min /\ d = Decision(min, TRUE, "BelowMinReplicas")
        \/ /\ target > replicas
           /\ d = Decision(replicas + Minimum(target - replicas, step), TRUE, "QueueAboveTarget")
        \/ target < replicas /\ d = Decision(replicas - 1, TRUE, "QueueBelowTarget")
    BY <2>2, <2>3, DecideCases, Zenon
  <2> HIDE DEF d, target, max, min, step
  <2>9. \/ replicas' = replicas
        \/ replicas > max /\ replicas' = max
        \/ replicas < min /\ replicas' = min
        \/ target > replicas /\ replicas' = replicas + Minimum(target - replicas, step)
        \/ target < replicas /\ replicas' = OrDefault(replicas - 1, 1)
    <3>1. \/ replicas' = OrDefault(replicas, 1) /\ ~d.Changed
          \/ replicas > max /\ replicas' = OrDefault(max, 1)
          \/ replicas < min /\ replicas' = OrDefault(min, 1)
          \/ /\ target > replicas
             /\ replicas' = OrDefault(replicas + Minimum(target - replicas, step), 1)
          \/ target < replicas /\ replicas' = OrDefault(replicas - 1, 1)
      BY <2>2, <2>8 DEF Decision
    <3> QED
      BY <2>1, <2>5, <2>6, <3>1, MaxIntAssumption
      DEF OrDefault, Minimum, ApplyDecision, d, s
  <2>10. \/ replicas < replicas' /\ replicas' <= target
         \/ replicas > replicas' /\ replicas' >= target
    BY <2>5, <2>6, <2>7, <2>9, MaxIntAssumption DEF Minimum, OrDefault
  <2> QED
    BY <2>4, <2>10
<1> QED
  BY <1>1, LoopTypes, PTL DEF LoopSpec, MovesTowardsNeed
=============================================================================
