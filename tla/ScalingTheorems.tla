--------------------------- MODULE ScalingTheorems ---------------------------
(***************************************************************************)
(* The sums of the model, and what scaling.Decide guarantees of a single   *)
(* decision, for every policy the CRD accepts (crossed bounds included)    *)
(* and every reading of the queue (the ones that overflow ceilDiv          *)
(* included).                                                              *)
(***************************************************************************)
EXTENDS Scaling, FiniteSets, FiniteSetTheorems, TLAPS

-----------------------------------------------------------------------------
(* SumFunction of the community modules adds up pods and templates.  It is *)
(* a fold, a recursive function that is known only by the equation CHOOSE  *)
(* picks it by, so the proofs show first that the equation has a solution. *)

\* A set of values that sums of its members stay in: Nat, Int.
IsSummable(V) == 0 \in V /\ \A a, b \in V : a + b \in V

\* The element the fold takes out of a set next.
Pick(s) == CHOOSE x \in s : TRUE

\* The recursive function the fold is defined by: the sum over every subset.
PartialSums(f) ==
    CHOOSE sum : sum = [s \in SUBSET DOMAIN f |->
        IF s = {} THEN 0 ELSE f[Pick(s)] + sum[s \ {Pick(s)}]]

LEMMA SumUnfolds ==
    ASSUME NEW f
    PROVE  SumFunction(f) = PartialSums(f)[DOMAIN f]
BY DEF SumFunction, SumFunctionOnSet, FoldFunctionOnSet, MapThenFoldSet, PartialSums, Pick

\* Induction over Nat, stated with a set of numbers for the property.
LEMMA SetInduction ==
    ASSUME NEW T \in SUBSET Nat, 0 \in T, \A n \in T : n + 1 \in T
    PROVE  T = Nat
<1> SUFFICES ASSUME Nat \ T # {} PROVE FALSE
  OBVIOUS
<1>1. PICK m \in Nat \ T : \A n \in Nat \ T : ~ (<<n, m>> \in OpToRel(<, Nat))
  <2> HIDE DEF OpToRel
  <2> QED BY WFMin, NatLessThanWellFounded, Zenon
<1>2. \A n \in Nat \ T : ~(n < m)
  BY <1>1 DEF OpToRel
<1>3. m # 0 /\ m - 1 \in Nat
  OBVIOUS
<1> QED
  BY <1>2, <1>3

\* The recursion equation for sets of at most n elements.
SumsUpTo(f, g, n) ==
    \A s \in SUBSET DOMAIN f : Cardinality(s) <= n =>
        g[s] = IF s = {} THEN 0 ELSE f[Pick(s)] + g[s \ {Pick(s)}]

LEMMA PickSmaller ==
    ASSUME NEW s, IsFiniteSet(s), s # {}
    PROVE  /\ Pick(s) \in s
           /\ IsFiniteSet(s \ {Pick(s)})
           /\ Cardinality(s) \in Nat
           /\ Cardinality(s \ {Pick(s)}) = Cardinality(s) - 1
<1>1. Pick(s) \in s
  BY DEF Pick
<1> QED
  BY <1>1, FS_RemoveElement, FS_CardinalityType

LEMMA SumsExist ==
    ASSUME NEW S, IsFiniteSet(S), NEW V, IsSummable(V), NEW f \in [S -> V]
    PROVE  \A n \in Nat : \E g \in [SUBSET S -> V] : SumsUpTo(f, g, n)
<1> DEFINE T == {n \in Nat : \E g \in [SUBSET S -> V] : SumsUpTo(f, g, n)}
<1>0. \A s \in SUBSET S : IsFiniteSet(s) /\ Cardinality(s) \in Nat
  BY FS_Subset, FS_CardinalityType
<1>1. 0 \in T
  <2> DEFINE g == [s \in SUBSET S |-> 0]
  <2>1. g \in [SUBSET S -> V]
    BY DEF IsSummable
  <2>2. \A s \in SUBSET S : Cardinality(s) <= 0 => s = {}
    BY <1>0, FS_EmptySet
  <2>3. SumsUpTo(f, g, 0)
    BY <2>2 DEF SumsUpTo
  <2> QED
    BY <2>1, <2>3
<1>2. ASSUME NEW n \in T PROVE n + 1 \in T
  <2>1. PICK g \in [SUBSET S -> V] : SumsUpTo(f, g, n)
    OBVIOUS
  <2> DEFINE h == [s \in SUBSET S |->
                     IF s = {} THEN 0 ELSE f[Pick(s)] + g[s \ {Pick(s)}]]
  <2>2. ASSUME NEW s \in SUBSET S, s # {}
        PROVE  /\ Pick(s) \in S
               /\ s \ {Pick(s)} \in SUBSET S
               /\ Cardinality(s \ {Pick(s)}) = Cardinality(s) - 1
               /\ Cardinality(s) \in Nat
    BY <1>0, <2>2, PickSmaller
  <2>3. h \in [SUBSET S -> V]
    <3>1. ASSUME NEW s \in SUBSET S
          PROVE  (IF s = {} THEN 0 ELSE f[Pick(s)] + g[s \ {Pick(s)}]) \in V
      <4>1. CASE s = {}
        BY <4>1 DEF IsSummable
      <4>2. CASE s # {}
        <5>1. f[Pick(s)] \in V /\ g[s \ {Pick(s)}] \in V
          BY <2>2, <4>2
        <5> QED
          BY <4>2, <5>1 DEF IsSummable
      <4> QED
        BY <4>1, <4>2
    <3> QED
      BY <3>1
  <2>4. ASSUME NEW s \in SUBSET S, Cardinality(s) <= n PROVE h[s] = g[s]
    BY <2>1, <2>4 DEF SumsUpTo
  <2>5. ASSUME NEW s \in SUBSET S, Cardinality(s) <= n + 1, s # {}
        PROVE  h[s] = f[Pick(s)] + h[s \ {Pick(s)}]
    <3> HIDE DEF h
    <3>1. h[s \ {Pick(s)}] = g[s \ {Pick(s)}]
      BY <2>2, <2>4, <2>5
    <3> QED
      BY <3>1, <2>5 DEF h
  <2>6. SumsUpTo(f, h, n + 1)
    BY <2>5 DEF SumsUpTo
  <2> HIDE DEF h
  <2> QED
    BY <2>3, <2>6
<1>3. T = Nat
  <2> HIDE DEF T
  <2>1. T \in SUBSET Nat
    BY DEF T
  <2> QED
    BY <1>1, <1>2, <2>1, SetInduction
<1> QED
  BY <1>3

\* The library's fold computes the recursion it is defined by.
LEMMA SumsDefined ==
    ASSUME NEW S, IsFiniteSet(S), NEW V, IsSummable(V), NEW f \in [S -> V]
    PROVE  PartialSums(f) = [s \in SUBSET S |->
               IF s = {} THEN 0 ELSE f[Pick(s)] + PartialSums(f)[s \ {Pick(s)}]]
<1>1. Cardinality(S) \in Nat
  BY FS_CardinalityType
<1>2. PICK g \in [SUBSET S -> V] : SumsUpTo(f, g, Cardinality(S))
  BY <1>1, SumsExist
<1>3. \A s \in SUBSET S : Cardinality(s) <= Cardinality(S)
  BY FS_Subset
<1>4. g = [s \in SUBSET S |-> IF s = {} THEN 0 ELSE f[Pick(s)] + g[s \ {Pick(s)}]]
  BY <1>2, <1>3 DEF SumsUpTo
<1>5. DOMAIN f = S
  OBVIOUS
<1> QED
  BY <1>4, <1>5 DEF PartialSums

LEMMA SumEquation ==
    ASSUME NEW S, IsFiniteSet(S), NEW V, IsSummable(V), NEW f \in [S -> V]
    PROVE  \A s \in SUBSET S :
             PartialSums(f)[s] =
               IF s = {} THEN 0 ELSE f[Pick(s)] + PartialSums(f)[s \ {Pick(s)}]
<1> DEFINE sums == PartialSums(f)
<1>1. sums = [s \in SUBSET S |->
                IF s = {} THEN 0 ELSE f[Pick(s)] + sums[s \ {Pick(s)}]]
  BY SumsDefined
<1> HIDE DEF sums
<1>2. \A s \in SUBSET S : sums[s] = IF s = {} THEN 0 ELSE f[Pick(s)] + sums[s \ {Pick(s)}]
  BY <1>1
<1> QED
  BY <1>2 DEF sums

\* A sum over finitely many pods or templates (queue.Depth, the replica counts
\* of a Deployment's status) is an integer, or a natural number if all its
\* terms are.
LEMMA SumClosed ==
    ASSUME NEW S, IsFiniteSet(S), NEW V, IsSummable(V), NEW f \in [S -> V]
    PROVE  SumFunction(f) \in V
<1> DEFINE sums == PartialSums(f)
           T == {n \in Nat : \A s \in SUBSET S : Cardinality(s) <= n => sums[s] \in V}
<1>0. \A s \in SUBSET S : IsFiniteSet(s) /\ Cardinality(s) \in Nat
  BY FS_Subset, FS_CardinalityType
<1>1. \A s \in SUBSET S : sums[s] = IF s = {} THEN 0 ELSE f[Pick(s)] + sums[s \ {Pick(s)}]
  BY SumEquation
<1> HIDE DEF sums
<1>2. 0 \in T
  <2>1. \A s \in SUBSET S : Cardinality(s) <= 0 => s = {}
    BY <1>0, FS_EmptySet
  <2>2. sums[{}] \in V
    BY <1>1 DEF IsSummable
  <2> QED
    BY <2>1, <2>2
<1>3. ASSUME NEW n \in T PROVE n + 1 \in T
  <2> SUFFICES ASSUME NEW s \in SUBSET S, Cardinality(s) <= n + 1, s # {}
               PROVE  sums[s] \in V
    <3>1. sums[{}] \in V
      BY <1>1 DEF IsSummable
    <3>2. \A s \in SUBSET S : Cardinality(s) <= n + 1 => sums[s] \in V
      BY <3>1
    <3> QED
      BY <1>3, <3>2
  <2>1. /\ Pick(s) \in S
        /\ s \ {Pick(s)} \in SUBSET S
        /\ Cardinality(s \ {Pick(s)}) <= n
    BY <1>0, PickSmaller
  <2>2. sums[s \ {Pick(s)}] \in V
    BY <2>1
  <2> QED
    <3>1. f[Pick(s)] \in V
      BY <2>1
    <3>2. f[Pick(s)] + sums[s \ {Pick(s)}] \in V
      BY <2>2, <3>1 DEF IsSummable
    <3> QED
      BY <1>1, <3>2
<1>4. T = Nat
  <2> HIDE DEF T
  <2>1. T \in SUBSET Nat
    BY DEF T
  <2> QED
    BY <1>2, <1>3, <2>1, SetInduction
<1>5. sums[S] \in V
  BY <1>0, <1>4
<1> QED
  BY <1>5, SumUnfolds DEF sums

\* The numbers that are multiplied by c term by term.
Distributes(c, V) == c * 0 = 0 /\ \A a, b \in V : c * (a + b) = c * a + c * b

\* g is c times f.
IsMultiple(g, c, f) == \A x \in DOMAIN f : g[x] = c * f[x]

\* The sum of the multiples is the multiple of the sum.
LEMMA SumScaled ==
    ASSUME NEW S, IsFiniteSet(S), NEW V, IsSummable(V), NEW c, Distributes(c, V),
           NEW f \in [S -> V], NEW g \in [S -> V], IsMultiple(g, c, f)
    PROVE  SumFunction(g) = c * SumFunction(f)
<1> DEFINE sums == PartialSums(f)
           scaled == PartialSums(g)
           Holds(s) == sums[s] \in V /\ scaled[s] = c * sums[s]
           T == {n \in Nat : \A s \in SUBSET S : Cardinality(s) <= n => Holds(s)}
<1>0. \A s \in SUBSET S : IsFiniteSet(s) /\ Cardinality(s) \in Nat
  BY FS_Subset, FS_CardinalityType
<1>1. ASSUME NEW h \in [S -> V]
      PROVE  \A s \in SUBSET S :
               PartialSums(h)[s] =
                 IF s = {} THEN 0 ELSE h[Pick(s)] + PartialSums(h)[s \ {Pick(s)}]
  BY SumEquation
<1>2. \A s \in SUBSET S :
        /\ sums[s] = IF s = {} THEN 0 ELSE f[Pick(s)] + sums[s \ {Pick(s)}]
        /\ scaled[s] = IF s = {} THEN 0 ELSE g[Pick(s)] + scaled[s \ {Pick(s)}]
  BY <1>1
<1> HIDE DEF sums, scaled
<1>3. Holds({})
  <2>1. {} \in SUBSET S
    OBVIOUS
  <2>2. sums[{}] = 0 /\ scaled[{}] = 0
    BY <1>2, <2>1, Zenon
  <2> QED
    BY <2>2 DEF IsSummable, Distributes
<1>4. 0 \in T
  <2>1. \A s \in SUBSET S : Cardinality(s) <= 0 => s = {}
    BY <1>0, FS_EmptySet
  <2> QED
    BY <1>3, <2>1
<1>5. ASSUME NEW n \in T PROVE n + 1 \in T
  <2> SUFFICES ASSUME NEW s \in SUBSET S, Cardinality(s) <= n + 1, s # {}
               PROVE  Holds(s)
    <3> HIDE DEF Holds
    <3>1. \A s \in SUBSET S : Cardinality(s) <= n + 1 => Holds(s)
      BY <1>3
    <3> QED
      BY <1>5, <3>1
  <2> DEFINE x == Pick(s)
             r == s \ {x}
  <2>1. x \in S /\ r \in SUBSET S /\ Cardinality(r) <= n
    BY <1>0, PickSmaller
  <2>2. sums[r] \in V /\ scaled[r] = c * sums[r]
    BY <2>1
  <2>3. f[x] \in V /\ g[x] = c * f[x]
    BY <2>1 DEF IsMultiple
  <2>4. sums[s] = f[x] + sums[r] /\ scaled[s] = g[x] + scaled[r]
    BY <1>2
  <2> HIDE DEF x, r
  <2>5. f[x] + sums[r] \in V /\ c * (f[x] + sums[r]) = c * f[x] + c * sums[r]
    BY <2>2, <2>3 DEF IsSummable, Distributes
  <2> QED
    BY <2>2, <2>3, <2>4, <2>5, Zenon
<1>6. T = Nat
  <2> HIDE DEF T
  <2>1. T \in SUBSET Nat
    BY DEF T
  <2> QED
    BY <1>4, <1>5, <2>1, SetInduction
<1>7. Holds(S)
  BY <1>0, <1>6
<1> QED
  BY <1>7, SumUnfolds DEF sums, scaled

\* One term changes.
LEMMA SumUpdated ==
    ASSUME NEW S, IsFiniteSet(S), NEW f \in [S -> Int], NEW g \in [S -> Int],
           NEW y \in S, \A x \in S \ {y} : g[x] = f[x]
    PROVE  SumFunction(g) = SumFunction(f) - f[y] + g[y]
<1> DEFINE sums == PartialSums(f)
           changed == PartialSums(g)
           Holds(s) == /\ sums[s] \in Int
                       /\ changed[s] = sums[s] + (IF y \in s THEN g[y] - f[y] ELSE 0)
           T == {n \in Nat : \A s \in SUBSET S : Cardinality(s) <= n => Holds(s)}
<1>0. \A s \in SUBSET S : IsFiniteSet(s) /\ Cardinality(s) \in Nat
  BY FS_Subset, FS_CardinalityType
<1>1. ASSUME NEW h \in [S -> Int]
      PROVE  \A s \in SUBSET S :
               PartialSums(h)[s] =
                 IF s = {} THEN 0 ELSE h[Pick(s)] + PartialSums(h)[s \ {Pick(s)}]
  BY SumEquation DEF IsSummable
<1>2. \A x \in S : f[x] \in Int /\ g[x] \in Int /\ (x # y => g[x] = f[x])
  OBVIOUS
<1>3. \A s \in SUBSET S :
        /\ sums[s] = IF s = {} THEN 0 ELSE f[Pick(s)] + sums[s \ {Pick(s)}]
        /\ changed[s] = IF s = {} THEN 0 ELSE g[Pick(s)] + changed[s \ {Pick(s)}]
  BY <1>1, <1>2
<1> HIDE DEF sums, changed
<1>4. Holds({})
  <2>1. {} \in SUBSET S
    OBVIOUS
  <2>2. sums[{}] = 0 /\ changed[{}] = 0
    BY <1>3, <2>1, Zenon
  <2> QED
    BY <2>2
<1>5. 0 \in T
  <2>1. \A s \in SUBSET S : Cardinality(s) <= 0 => s = {}
    BY <1>0, FS_EmptySet
  <2> QED
    BY <1>4, <2>1
<1>6. ASSUME NEW n \in T PROVE n + 1 \in T
  <2> SUFFICES ASSUME NEW s \in SUBSET S, Cardinality(s) <= n + 1, s # {}
               PROVE  Holds(s)
    <3> HIDE DEF Holds
    <3>1. \A s \in SUBSET S : Cardinality(s) <= n + 1 => Holds(s)
      BY <1>4
    <3> QED
      BY <1>6, <3>1
  <2> DEFINE x == Pick(s)
             r == s \ {x}
  <2>1. x \in s /\ x \in S /\ r \in SUBSET S /\ Cardinality(r) <= n
    BY <1>0, PickSmaller
  <2>2. sums[r] \in Int /\ changed[r] = sums[r] + (IF y \in r THEN g[y] - f[y] ELSE 0)
    BY <2>1
  <2>3. sums[s] = f[x] + sums[r] /\ changed[s] = g[x] + changed[r]
    BY <1>3
  <2>4. y \in r <=> y \in s /\ y # x
    OBVIOUS
  <2> HIDE DEF x, r
  <2> QED
    BY <1>2, <2>1, <2>2, <2>3, <2>4
<1>7. T = Nat
  <2> HIDE DEF T
  <2>1. T \in SUBSET Nat
    BY DEF T
  <2> QED
    BY <1>5, <1>6, <2>1, SetInduction
<1>8. Holds(S)
  BY <1>0, <1>7
<1>9. SumFunction(f) = sums[S] /\ SumFunction(g) = changed[S]
  BY SumUnfolds DEF sums, changed
<1> QED
  BY <1>2, <1>8, <1>9

\* What the sum of natural numbers says of its terms.
LEMMA SumOfNaturals ==
    ASSUME NEW S, IsFiniteSet(S), NEW f \in [S -> Nat]
    PROVE  /\ SumFunction(f) \in Nat
           /\ \A x \in S : f[x] <= SumFunction(f)
           /\ (\A x \in S : f[x] = 0) => SumFunction(f) = 0
<1>0. ASSUME NEW h \in [S -> Nat] PROVE SumFunction(h) \in Nat
  <2>1. IsSummable(Nat)
    BY DEF IsSummable
  <2> QED
    BY <2>1, SumClosed
<1>1. SumFunction(f) \in Nat
  BY <1>0
<1>2. ASSUME NEW x \in S PROVE f[x] <= SumFunction(f)
  <2> DEFINE h == [f EXCEPT ![x] = 0]
  <2>1. /\ h \in [S -> Nat] /\ h \in [S -> Int] /\ f \in [S -> Int] /\ f[x] \in Nat
        /\ h[x] = 0 /\ \A y \in S \ {x} : h[y] = f[y]
    OBVIOUS
  <2> HIDE DEF h
  <2>2. SumFunction(h) = SumFunction(f) - f[x] + h[x]
    BY <2>1, SumUpdated
  <2>3. SumFunction(h) \in Nat
    BY <1>0, <2>1
  <2> QED
    BY <1>1, <2>1, <2>2, <2>3
<1>3. ASSUME \A x \in S : f[x] = 0 PROVE SumFunction(f) = 0
  <2>1. IsMultiple(f, 0, f) /\ Distributes(0, Nat) /\ IsSummable(Nat)
    BY <1>3 DEF IsMultiple, Distributes, IsSummable
  <2>2. SumFunction(f) = 0 * SumFunction(f)
    BY <2>1, SumScaled
  <2> QED
    BY <1>1, <2>2
<1> QED
  BY <1>1, <1>2, <1>3

-----------------------------------------------------------------------------
(* A single decision *)

LEMMA WrapType ==
    ASSUME NEW n \in Int
    PROVE  Wrap(n) \in Int
<1> DEFINE w == 2 * (MaxInt + 1)
<1>1. w \in Nat \ {0}
  BY MaxIntAssumption
<1> HIDE DEF w
<1>2. (n + MaxInt + 1) % w \in Int
  BY <1>1, MaxIntAssumption
<1> QED
  BY <1>2, MaxIntAssumption DEF Wrap, w

LEMMA QuoType ==
    ASSUME NEW a \in Int, NEW b \in Nat \ {0}
    PROVE  Quo(a, b) \in Int
BY DEF Quo

LEMMA CeilDivType ==
    ASSUME NEW a \in Int, NEW b \in Nat \ {0}
    PROVE  CeilDiv(a, b) \in Int
<1>1. Wrap(a + b) \in Int
  BY WrapType
<1>2. Wrap(Wrap(a + b) - 1) \in Int
  BY <1>1, WrapType
<1>3. Quo(Wrap(Wrap(a + b) - 1), b) \in Int
  BY <1>2, QuoType
<1> QED
  BY <1>3 DEF CeilDiv

\* The target stays between zero and the ceiling, whatever ceilDiv made of the reading.
LEMMA TargetType ==
    ASSUME NEW p, IsPolicy(p), NEW s, s.QueueDepth \in Int
    PROVE  Target(p, s) \in 0 .. p.MaxReplicas
<1>1. CeilDiv(s.QueueDepth, p.TargetQueueDepth) \in Int
  <2>1. p.TargetQueueDepth \in 1 .. MaxInt
    BY DEF IsPolicy
  <2> QED
    BY <2>1, CeilDivType, MaxIntAssumption
<1> QED
  BY <1>1, MaxIntAssumption DEF IsPolicy, Target, Clamp, Minimum, Maximum

\* The decisions Decide can come to, each with the conditions it came through.
LEMMA DecideCases ==
    ASSUME NEW p, IsPolicy(p),
           NEW s, s.CurrentReplicas \in 0 .. MaxInt, s.QueueDepth \in Int
    PROVE  LET cur == s.CurrentReplicas
               target == Target(p, s)
               d == Decide(p, s)
           IN  \/ \E reason \in Reasons : d = Decision(cur, FALSE, reason)
               \/ cur > p.MaxReplicas /\ d = Decision(p.MaxReplicas, TRUE, "AboveMaxReplicas")
               \/ /\ cur < p.MinReplicas
                  /\ s.WeightsCached
                  /\ d = Decision(p.MinReplicas, TRUE, "BelowMinReplicas")
               \/ /\ target > cur
                  /\ s.WeightsCached
                  /\ Elapsed(s, p.ScaleUpAfter)
                  /\ d = Decision(cur + Minimum(target - cur, p.MaxScaleUpStep), TRUE,
                                  "QueueAboveTarget")
               \/ /\ target < cur
                  /\ cur >= p.MinReplicas
                  /\ Elapsed(s, p.ScaleDownAfter)
                  /\ d = Decision(cur - 1, TRUE, "QueueBelowTarget")
<1> DEFINE cur == s.CurrentReplicas
           target == Target(p, s)
<1>1. target \in Int /\ cur \in Int /\ p.MaxReplicas \in Int /\ p.MinReplicas \in Int
  BY TargetType, MaxIntAssumption DEF IsPolicy
<1> HIDE DEF target
<1>2. CASE cur > p.MaxReplicas
  <2>1. Decide(p, s) = Decision(p.MaxReplicas, TRUE, "AboveMaxReplicas")
    BY <1>1, <1>2 DEF Decide, Grow, Shrink, Hold, Decision
  <2> QED
    BY <1>2, <2>1 DEF Decision
<1>3. CASE cur <= p.MaxReplicas /\ cur < p.MinReplicas
  <2>1. Decide(p, s) = IF s.WeightsCached
                       THEN Decision(p.MinReplicas, TRUE, "BelowMinReplicas")
                       ELSE Decision(cur, FALSE, "WeightsNotCached")
    BY <1>1, <1>3 DEF Decide, Grow, Shrink, Hold, Decision
  <2> QED
    BY <1>3, <2>1 DEF Reasons, Decision
<1>4. CASE cur <= p.MaxReplicas /\ cur >= p.MinReplicas /\ target > cur
  <2>1. Decide(p, s) =
          IF ~s.WeightsCached THEN Decision(cur, FALSE, "WeightsNotCached")
          ELSE IF ~Elapsed(s, p.ScaleUpAfter) THEN Decision(cur, FALSE, "ScaleUpStabilizing")
          ELSE Decision(cur + Minimum(target - cur, p.MaxScaleUpStep), TRUE, "QueueAboveTarget")
    BY <1>1, <1>4 DEF Decide, Grow, Shrink, Hold, Decision, target
  <2> QED
    BY <1>4, <2>1 DEF Reasons, Decision, target
<1>5. CASE cur <= p.MaxReplicas /\ cur >= p.MinReplicas /\ target < cur
  <2>1. Decide(p, s) =
          IF ~Elapsed(s, p.ScaleDownAfter) THEN Decision(cur, FALSE, "ScaleDownStabilizing")
          ELSE Decision(cur - 1, TRUE, "QueueBelowTarget")
    BY <1>1, <1>5 DEF Decide, Grow, Shrink, Hold, Decision, target
  <2> QED
    BY <1>5, <2>1 DEF Reasons, Decision, target
<1>6. CASE cur <= p.MaxReplicas /\ cur >= p.MinReplicas /\ target = cur
  <2>1. Decide(p, s) = Decision(cur, FALSE, "QueueAtTarget")
    BY <1>1, <1>6 DEF Decide, Grow, Shrink, Hold, Decision, target
  <2> QED
    BY <2>1 DEF Reasons, Decision
<1>7. \/ cur > p.MaxReplicas
      \/ cur <= p.MaxReplicas /\ cur < p.MinReplicas
      \/ cur <= p.MaxReplicas /\ cur >= p.MinReplicas /\ target > cur
      \/ cur <= p.MaxReplicas /\ cur >= p.MinReplicas /\ target < cur
      \/ cur <= p.MaxReplicas /\ cur >= p.MinReplicas /\ target = cur
  BY <1>1
<1> HIDE DEF cur
<1> QED
  BY <1>2, <1>3, <1>4, <1>5, <1>6, <1>7, Zenon

\* Decide returns a replica count; a decision that changes nothing returns the
\* current one, and one that changes something returns another.
THEOREM DecideType ==
    ASSUME NEW p, IsPolicy(p),
           NEW s, s.CurrentReplicas \in 0 .. MaxInt, s.QueueDepth \in Int
    PROVE  LET d == Decide(p, s)
           IN  /\ d.Replicas \in 0 .. MaxInt
               /\ d.Changed \in BOOLEAN
               /\ d.Changed <=> d.Replicas # s.CurrentReplicas
<1> DEFINE cur == s.CurrentReplicas
           target == Target(p, s)
<1>1. /\ target \in Int
      /\ 0 <= target /\ target <= p.MaxReplicas
      /\ cur \in 0 .. MaxInt
      /\ p.MaxReplicas \in 1 .. MaxInt
      /\ p.MinReplicas \in 0 .. MaxInt
      /\ p.MaxScaleUpStep \in 1 .. MaxInt
  BY TargetType DEF IsPolicy
<1> HIDE DEF target
<1>2. target > cur => cur + Minimum(target - cur, p.MaxScaleUpStep) \in (cur + 1) .. MaxInt
  BY <1>1, MaxIntAssumption DEF Minimum
<1>3. target < cur => cur - 1 \in 0 .. MaxInt
  BY <1>1, MaxIntAssumption
<1> DEFINE d == Decide(p, s)
<1>4. \/ \E reason \in Reasons : d = Decision(cur, FALSE, reason)
      \/ cur > p.MaxReplicas /\ d = Decision(p.MaxReplicas, TRUE, "AboveMaxReplicas")
      \/ cur < p.MinReplicas /\ d = Decision(p.MinReplicas, TRUE, "BelowMinReplicas")
      \/ target > cur /\ d = Decision(cur + Minimum(target - cur, p.MaxScaleUpStep), TRUE,
                                      "QueueAboveTarget")
      \/ target < cur /\ d = Decision(cur - 1, TRUE, "QueueBelowTarget")
  BY DecideCases, Zenon DEF target
<1> HIDE DEF d, cur
<1>5. CASE \E reason \in Reasons : d = Decision(cur, FALSE, reason)
  BY <1>1, <1>5 DEF Decision, d, cur
<1>6. CASE cur > p.MaxReplicas /\ d = Decision(p.MaxReplicas, TRUE, "AboveMaxReplicas")
  BY <1>1, <1>6, MaxIntAssumption DEF Decision, d, cur
<1>7. CASE cur < p.MinReplicas /\ d = Decision(p.MinReplicas, TRUE, "BelowMinReplicas")
  BY <1>1, <1>7, MaxIntAssumption DEF Decision, d, cur
<1>8. CASE target > cur /\ d = Decision(cur + Minimum(target - cur, p.MaxScaleUpStep), TRUE,
                                        "QueueAboveTarget")
  <2> DEFINE n == cur + Minimum(target - cur, p.MaxScaleUpStep)
  <2>1. d.Replicas = n /\ d.Changed = TRUE
    BY <1>8 DEF Decision
  <2>2. n \in 0 .. MaxInt /\ n # cur
    BY <1>1, <1>2, <1>8, MaxIntAssumption
  <2> QED
    BY <2>1, <2>2 DEF d, cur
<1>9. CASE target < cur /\ d = Decision(cur - 1, TRUE, "QueueBelowTarget")
  BY <1>1, <1>3, <1>9, MaxIntAssumption DEF Decision, d, cur
<1> QED
  BY <1>4, <1>5, <1>6, <1>7, <1>8, <1>9

LEMMA WrapInRange ==
    ASSUME NEW n \in 0 .. MaxInt
    PROVE  Wrap(n) = n
<1> DEFINE w == 2 * (MaxInt + 1)
           a == n + MaxInt + 1
<1>1. a \in Nat /\ a < w /\ w \in Nat \ {0}
  BY MaxIntAssumption
<1>2. a % w = a
  <2> HIDE DEF a, w
  <2> QED
    BY <1>1
<1> QED
  BY <1>2, MaxIntAssumption DEF Wrap

\* ceilDiv is the least number of replicas whose share of the depth is within
\* the target, as long as its sum does not overflow.
LEMMA CeilDivLeast ==
    ASSUME NEW a \in Nat, NEW b \in 1 .. MaxInt, a + b <= MaxInt
    PROVE  /\ CeilDiv(a, b) \in 0 .. a
           /\ CeilDiv(a, b) * b >= a
           /\ \A m \in Nat : m * b >= a => CeilDiv(a, b) <= m
<1>0. b \in Nat \ {0}
  BY MaxIntAssumption
<1>1. CASE a = 0
  <2>1. CeilDiv(a, b) = 0
    BY <1>1 DEF CeilDiv
  <2> QED
    BY <1>0, <1>1, <2>1
<1>2. CASE a > 0
  <2> DEFINE c == a + b - 1
             q == c \div b
  <2>1. CeilDiv(a, b) = q
    <3>1. Wrap(a + b) = a + b
      BY <1>0, WrapInRange, MaxIntAssumption
    <3>2. Wrap(Wrap(a + b) - 1) = c
      BY <1>0, <3>1, WrapInRange, MaxIntAssumption
    <3> QED
      BY <1>0, <1>2, <3>2 DEF CeilDiv, Quo
  <2>2. c \in Nat /\ c >= b
    BY <1>0, <1>2
  <2>3. q \in Int /\ b * q <= c /\ c < b * q + b
    BY <1>0, <2>2
  <2>4. ASSUME NEW i \in Int, NEW j \in Int, i <= j PROVE b * i <= b * j
    BY <1>0, <2>4
  <2> HIDE DEF q
  <2>5. \A i \in Int : b * (i + 1) = b * i + b /\ b * i = i * b /\ b * i \in Int
    BY <1>0
  <2>6. b * q >= a
    BY <1>0, <2>3, <2>5
  <2>7. q >= 0
    <3> SUFFICES ASSUME q <= -1 PROVE FALSE
      BY <2>3
    <3>1. b * q <= b * (-1)
      BY <2>3, <2>4
    <3> QED
      BY <1>0, <2>3, <2>5, <2>6, <3>1
  <2>8. ASSUME NEW m \in Nat, m * b >= a PROVE q <= m
    <3> SUFFICES ASSUME m + 1 <= q PROVE FALSE
      BY <2>3
    <3>1. b * (m + 1) <= b * q
      BY <2>3, <2>4
    <3>2. b * m >= a /\ b * (m + 1) = b * m + b
      BY <2>5, <2>8
    <3> QED
      BY <1>0, <2>3, <2>5, <3>1, <3>2
  <2>9. q <= a
    <3>1. a * b >= a
      <4>1. b * a >= 1 * a
        BY <1>0
      <4> QED
        BY <2>5, <4>1
    <3> QED
      BY <2>8, <3>1
  <2>10. q * b >= a
    BY <2>3, <2>5, <2>6
  <2> QED
    BY <2>1, <2>3, <2>7, <2>8, <2>9, <2>10
<1> QED
  BY <1>1, <1>2
=============================================================================
