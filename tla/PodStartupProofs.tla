-------------------------- MODULE PodStartupProofs --------------------------
(***************************************************************************)
(* The safety properties of PodStartup for both engines, every load        *)
(* timeout, boot and load time and any number of hangs.                    *)
(***************************************************************************)
EXTENDS PodStartup, TLAPS

\* The clock of the kubelet stays on the grid.
OnBeat == beat \in {0, 5, 10, 15}

\* Every failure of the startup probe but the first stands for ten seconds.
FailuresTakeTime ==
    container = "server" /\ ~started /\ termFor < 0 =>
        age >= 10 * startFails - (IF beat \in {0, 10} THEN 0 ELSE 5)

\* What has to be true before a pod is ready.
ReadyInv ==
    /\ container = "server" /\ cached => visible
    /\ container = "init" => ~started /\ hungFor < 0
    /\ started => age > AnswersFrom(HealthPath(engine))
    /\ ready => started

\* Both probes keep count of a hang.
HangInv ==
    started /\ hungFor >= 0 =>
        /\ readyFails = FailureThreshold \/ hungFor <= 5 * readyFails
        /\ termFor < 0 => hungFor + 5 <= 20 * liveFails + (IF beat = 0 THEN 20 ELSE beat)

\* Who is sent SIGTERM: a server that used up its startup budget, or one that
\* has been hanging for a minute.
TermInv ==
    IF termFor < 0 THEN liveFails < FailureThreshold
    ELSE /\ container = "server"
         /\ started => hungFor >= 0 /\ hungFor + 5 <= 60 + termFor
         /\ ~started => age + 19 >= loadTimeout

PodInv ==
    /\ PodTypeOK
    /\ OnBeat
    /\ FailuresTakeTime
    /\ ReadyInv
    /\ HangInv
    /\ TermInv
    /\ readyFails = FailureThreshold => ~ready

\* The threshold is the load timeout in whole periods.
LEMMA ThresholdBounds ==
    ASSUME NEW t \in Nat, t >= 30
    PROVE  /\ StartupThreshold(t) \in Nat
           /\ StartupThreshold(t) >= 1
           /\ 10 * StartupThreshold(t) <= t
           /\ 10 * StartupThreshold(t) + 9 >= t
BY DEF StartupThreshold, StartupPeriod

\* The settings of a pod satisfy the assumptions on the constants.
LEMMA Settings ==
    ASSUME PodTypeOK
    PROVE  /\ loadTimeout \in Nat /\ loadTimeout >= 30 /\ loadTimeout < MaxAge
           /\ AnswersFrom(HealthPath(engine)) \in Nat
           /\ AnswersFrom(HealthPath(engine)) < MaxAge
           /\ MaxAge \in Nat /\ MaxHangs \in Nat
           /\ StartupThreshold(loadTimeout) \in Nat
           /\ StartupThreshold(loadTimeout) >= 1
           /\ 10 * StartupThreshold(loadTimeout) <= loadTimeout
           /\ 10 * StartupThreshold(loadTimeout) + 9 >= loadTimeout
<1>1. /\ loadTimeout \in Nat /\ loadTimeout >= 30 /\ loadTimeout < MaxAge
      /\ bootTime \in Nat /\ bootTime < MaxAge /\ loadTime \in Nat /\ loadTime < MaxAge
      /\ MaxAge \in Nat /\ MaxHangs \in Nat
  BY TimesAssumption DEF PodTypeOK
<1> QED  BY <1>1, ThresholdBounds DEF AnswersFrom

\* A container that has just started satisfies the invariant.
LEMMA RestartKeeps ==
    ASSUME PodInv, NEW c \in {"init", "server"}, Restart(c),
           c = "server" /\ cached => visible,
           UNCHANGED settings, visible' \in BOOLEAN, visible => visible',
           hangs' \in 0 .. MaxHangs, beat' \in {0, 5, 10, 15}
    PROVE  PodInv'
<1>1. StartupThreshold(loadTimeout') \in Nat /\ StartupThreshold(loadTimeout') >= 1
      /\ MaxAge \in Nat
  BY Settings DEF PodInv, settings
<1>2. PodTypeOK'
  <2>1. /\ loadTimeout' \in LoadTimeouts /\ engine' \in Engines /\ bootTime' \in BootTimes
        /\ loadTime' \in LoadTimes /\ cached' \in BOOLEAN
    BY DEF PodInv, PodTypeOK, settings
  <2>2. /\ container' \in {"init", "server"} /\ started' \in BOOLEAN /\ ready' \in BOOLEAN
    BY DEF Restart
  <2>3. /\ age' \in 0 .. MaxAge /\ startFails' \in 0 .. StartupThreshold(loadTimeout') - 1
        /\ readyFails' \in 0 .. FailureThreshold /\ liveFails' \in 0 .. FailureThreshold
        /\ hungFor' \in Nat \cup {-1} /\ termFor' \in Step .. GracePeriod \cup {-1}
    BY <1>1 DEF Restart, FailureThreshold
  <2>4. beat' \in 0 .. LivenessPeriod - 1
    BY DEF LivenessPeriod
  <2> QED  BY <2>1, <2>2, <2>3, <2>4 DEF PodTypeOK
<1> QED  BY <1>2 DEF PodInv, PodTypeOK, OnBeat, FailuresTakeTime, ReadyInv, HangInv, TermInv,
                     Restart, settings, FailureThreshold

\* Ages that move on stay in their range.
LEMMA ContinueAges ==
    ASSUME PodTypeOK, Continue
    PROVE  /\ age' \in 0 .. MaxAge /\ age' >= age
           /\ age' = age + 5 \/ age' = MaxAge
           /\ hungFor' \in Nat \cup {-1}
           /\ hungFor < 0 => hungFor' = hungFor
           /\ hungFor >= 0 => hungFor' = hungFor + 5
           /\ container' = container
<1>1. MaxAge \in Nat /\ age \in 0 .. MaxAge /\ hungFor \in Nat \cup {-1}
  BY Settings DEF PodTypeOK
<1>2. age' \in 0 .. MaxAge /\ age' >= age /\ (age' = age + 5 \/ age' = MaxAge)
  BY <1>1 DEF Continue, Capped, Step
<1> QED  BY <1>1, <1>2 DEF Continue, Step

\* The beat goes round.
LEMMA NextBeat ==
    ASSUME OnBeat, beat' = (beat + Step) % LivenessPeriod
    PROVE  /\ beat' \in {0, 5, 10, 15}
           /\ beat = 0 => beat' = 5
           /\ beat = 5 => beat' = 10
           /\ beat = 10 => beat' = 15
           /\ beat = 15 => beat' = 0
BY DEF OnBeat, Step, LivenessPeriod

\* The readiness probe keeps count of a hang, and takes the pod out at the third
\* failure.
LEMMA ReadinessCounts ==
    ASSUME PodTypeOK, ReadinessProbe
    PROVE  /\ readyFails' \in 0 .. FailureThreshold /\ ready' \in BOOLEAN
           /\ readyFails' = FailureThreshold => ~ready'
           /\ hungFor >= 0 => readyFails' = FailureThreshold \/ readyFails' = readyFails + 1
<1>1. CASE Answers
  BY <1>1 DEF PodTypeOK, ReadinessProbe, Answers, FailureThreshold
<1>2. CASE ~Answers
  <2>1. readyFails' = IF readyFails < 3 THEN readyFails + 1 ELSE readyFails
    BY <1>2 DEF ReadinessProbe, FailureThreshold
  <2>2. ready' = (ready /\ readyFails' < 3)
    BY <1>2 DEF ReadinessProbe, FailureThreshold
  <2>3. readyFails \in 0 .. 3
    BY DEF PodTypeOK, FailureThreshold
  <2>4. readyFails' \in 0 .. 3 /\ (readyFails' = 3 \/ readyFails' = readyFails + 1)
    BY <2>1, <2>3
  <2>5. ready' \in BOOLEAN
    BY <2>2
  <2>6. readyFails' = 3 => ~(readyFails' < 3)
    OBVIOUS
  <2> QED  BY <2>2, <2>4, <2>5, <2>6 DEF FailureThreshold
<1> QED  BY <1>1, <1>2

\* One step of time.
LEMMA ElapseKeeps ==
    ASSUME PodInv, Elapse
    PROVE  PodInv'
<1> USE DEF PodInv
<1>0. /\ beat' \in {0, 5, 10, 15} /\ UNCHANGED <<settings, visible, hangs>>
      /\ beat = 0 => beat' = 5
      /\ beat = 5 => beat' = 10
      /\ beat = 10 => beat' = 15
      /\ beat = 15 => beat' = 0
      /\ beat \in {0, 5, 10, 15}
  BY NextBeat DEF Elapse, OnBeat
<1>1. visible' \in BOOLEAN /\ hangs' \in 0 .. MaxHangs /\ (visible => visible')
  BY <1>0 DEF PodTypeOK
<1>2. CASE WaitForWeights
  <2>1. CASE visible
    BY <1>0, <1>1, <1>2, <2>1, RestartKeeps DEF WaitForWeights
  <2>2. CASE ~visible /\ age >= loadTimeout
    BY <1>0, <1>1, <1>2, <2>2, RestartKeeps DEF WaitForWeights
  <2>3. CASE ~visible /\ ~(age >= loadTimeout)
    <3>1. Continue /\ UNCHANGED <<probes, termFor>> /\ container = "init"
      BY <1>2, <2>3 DEF WaitForWeights
    <3> QED
      BY <1>0, <3>1, ContinueAges
      DEF PodTypeOK, OnBeat, FailuresTakeTime, ReadyInv, HangInv, TermInv, probes, settings,
          LivenessPeriod
  <2> QED  BY <2>1, <2>2, <2>3
<1>3. CASE StartupProbe
  <2>0. /\ container = "server" /\ ~started /\ termFor < 0 /\ Continue
        /\ UNCHANGED <<readyFails, ready, liveFails>>
        /\ container' = "server"
    BY <1>3, ContinueAges DEF StartupProbe
  <2>1. CASE ~Due(StartupPeriod) /\ UNCHANGED <<startFails, started, termFor>>
    <3>1. beat \in {5, 15}
      BY <1>0, <2>1 DEF Due, StartupPeriod
    <3>2. PodTypeOK'
      BY <1>0, <2>0, <2>1, ContinueAges DEF PodTypeOK, settings, LivenessPeriod
    <3>3. FailuresTakeTime'
      BY <1>0, <2>0, <2>1, <3>1, ContinueAges, Settings DEF PodTypeOK, FailuresTakeTime
    <3> QED
      BY <1>0, <2>0, <2>1, <3>2, <3>3 DEF OnBeat, ReadyInv, HangInv, TermInv, settings
  <2>2. CASE /\ Due(StartupPeriod) /\ Answers /\ started' = TRUE
             /\ UNCHANGED <<startFails, termFor>>
    <3>1. age >= AnswersFrom(HealthPath(engine)) /\ hungFor < 0
      BY <2>2 DEF Answers
    <3>2. PodTypeOK'
      BY <1>0, <2>0, <2>2, ContinueAges DEF PodTypeOK, settings, LivenessPeriod
    <3>3. AnswersFrom(HealthPath(engine))' = AnswersFrom(HealthPath(engine))
      BY <1>0 DEF AnswersFrom, settings
    <3>4. age' > AnswersFrom(HealthPath(engine))
      BY <2>0, <3>1, ContinueAges, Settings DEF PodTypeOK
    <3>5. hungFor' < 0
      BY <2>0, <3>1, ContinueAges
    <3>6. ReadyInv'
      BY <1>0, <2>0, <2>2, <3>3, <3>4 DEF ReadyInv, settings
    <3>7. HangInv'
      BY <3>2, <3>5 DEF PodTypeOK, HangInv
    <3>8. FailuresTakeTime' /\ OnBeat' /\ TermInv'
      BY <1>0, <2>0, <2>2 DEF FailuresTakeTime, OnBeat, TermInv
    <3> QED
      BY <2>0, <3>2, <3>6, <3>7, <3>8
  <2>3. CASE /\ Due(StartupPeriod) /\ ~Answers
             /\ startFails + 1 < StartupThreshold(loadTimeout)
             /\ startFails' = startFails + 1
             /\ UNCHANGED <<started, termFor>>
    <3>1. beat \in {0, 10} /\ beat' \in {5, 15}
      BY <1>0, <2>3 DEF Due, StartupPeriod
    <3>2. PodTypeOK'
      BY <1>0, <2>0, <2>3, ContinueAges, Settings DEF PodTypeOK, settings, LivenessPeriod
    <3>3. FailuresTakeTime'
      BY <1>0, <2>0, <2>3, <3>1, ContinueAges, Settings DEF PodTypeOK, FailuresTakeTime
    <3> QED
      BY <1>0, <2>0, <2>3, <3>2, <3>3 DEF OnBeat, ReadyInv, HangInv, TermInv, settings
  <2>4. CASE /\ Due(StartupPeriod) /\ ~Answers
             /\ startFails + 1 >= StartupThreshold(loadTimeout)
             /\ termFor' = Step
             /\ UNCHANGED <<startFails, started>>
    <3>1. beat \in {0, 10}
      BY <1>0, <2>4 DEF Due, StartupPeriod
    <3>2. PodTypeOK'
      BY <1>0, <2>0, <2>4, ContinueAges
      DEF PodTypeOK, settings, LivenessPeriod, Step, GracePeriod
    <3>3. age + 19 >= loadTimeout
      BY <2>0, <2>4, <3>1, Settings DEF PodTypeOK, FailuresTakeTime
    <3>4. TermInv'
      BY <1>0, <2>0, <2>4, <3>3, ContinueAges, Settings DEF PodTypeOK, TermInv, settings, Step
    <3> QED
      BY <1>0, <2>0, <2>4, <3>2, <3>4
      DEF OnBeat, ReadyInv, HangInv, FailuresTakeTime, settings, Step
  <2> QED  BY <1>3, <2>1, <2>2, <2>3, <2>4 DEF StartupProbe
<1>4. ASSUME container = "server", started, Continue, ReadinessProbe,
             UNCHANGED <<startFails, started>>
      PROVE  /\ ReadyInv' /\ OnBeat' /\ FailuresTakeTime'
             /\ hungFor' >= 0 => readyFails' = FailureThreshold \/ hungFor' <= 5 * readyFails'
  <2>1. AnswersFrom(HealthPath(engine))' = AnswersFrom(HealthPath(engine))
    BY <1>0 DEF AnswersFrom, settings
  <2>2. ReadyInv'
    BY <1>0, <1>4, <2>1, ContinueAges, Settings DEF PodTypeOK, ReadyInv, settings
  <2>3. hungFor' >= 0 => readyFails' = FailureThreshold \/ hungFor' <= 5 * readyFails'
    BY <1>4, ContinueAges, ReadinessCounts DEF PodTypeOK, HangInv, FailureThreshold
  <2> QED  BY <1>0, <1>4, <2>2, <2>3 DEF OnBeat, FailuresTakeTime
<1>5. CASE Probes
  <2>1. /\ container = "server" /\ started /\ termFor < 0 /\ Continue /\ ReadinessProbe
        /\ liveFails' = LiveFails /\ UNCHANGED <<startFails, started>>
        /\ termFor' = IF LiveFails >= FailureThreshold THEN Step ELSE termFor
    BY <1>5 DEF Probes
  <2>2. /\ liveFails' \in 0 .. FailureThreshold
        /\ beat # 0 => liveFails' = liveFails
        /\ beat = 0 /\ hungFor >= 0 => liveFails' = liveFails + 1
        /\ liveFails' >= FailureThreshold => beat = 0 /\ hungFor >= 0
    <3>1. liveFails \in 0 .. 2
      BY <2>1 DEF PodTypeOK, TermInv, FailureThreshold
    <3>2. beat = 0 <=> Due(LivenessPeriod)
      BY <1>0 DEF Due, LivenessPeriod
    <3>3. CASE beat # 0
      BY <2>1, <3>1, <3>2, <3>3 DEF LiveFails, FailureThreshold
    <3>4. CASE beat = 0 /\ hungFor >= 0
      <4>1. ~Answers
        BY <3>4 DEF PodTypeOK, Answers
      <4> QED  BY <2>1, <3>1, <3>2, <3>4, <4>1 DEF LiveFails, FailureThreshold
    <3>5. CASE beat = 0 /\ hungFor < 0
      <4>1. age > AnswersFrom(HealthPath(engine))
        BY <2>1 DEF ReadyInv
      <4>2. Answers
        BY <3>5, <4>1, Settings DEF PodTypeOK, Answers
      <4>3. liveFails' = 0
        BY <2>1, <3>2, <3>5, <4>2 DEF LiveFails
      <4> QED  BY <3>5, <4>3 DEF PodTypeOK, FailureThreshold
    <3> QED  BY <3>3, <3>4, <3>5 DEF PodTypeOK
  <2>3. PodTypeOK'
    <3>1. termFor' \in Step .. GracePeriod \cup {-1}
      BY <2>1 DEF PodTypeOK, Step, GracePeriod
    <3> QED
      BY <1>0, <2>1, <2>2, <3>1, ContinueAges, ReadinessCounts
      DEF PodTypeOK, settings, LivenessPeriod
  <2>4. TermInv'
    BY <1>0, <2>1, <2>2, ContinueAges
    DEF PodTypeOK, TermInv, HangInv, FailureThreshold, Step
  <2>5. HangInv'
    BY <1>0, <1>4, <2>1, <2>2, ContinueAges DEF PodTypeOK, HangInv, FailureThreshold, Step
  <2> QED  BY <1>4, <2>1, <2>3, <2>4, <2>5, ReadinessCounts
<1>6. CASE Terminating
  <2>1. CASE Restart("server")
    BY <1>0, <1>1, <1>6, <2>1, RestartKeeps DEF Terminating, ReadyInv
  <2>2. CASE /\ termFor + Step <= GracePeriod /\ Continue /\ termFor' = termFor + Step
             /\ IF started THEN ReadinessProbe ELSE UNCHANGED <<readyFails, ready>>
             /\ UNCHANGED <<startFails, started, liveFails>>
    <3>1. /\ container = "server" /\ container' = "server" /\ termFor >= 0
          /\ termFor' \in Step .. GracePeriod /\ termFor' = termFor + 5
      BY <1>6, <2>2, ContinueAges DEF Terminating, PodTypeOK, Step, GracePeriod
    <3>2. PodTypeOK' /\ (readyFails' = FailureThreshold => ~ready')
      <4>1. /\ readyFails' \in 0 .. FailureThreshold /\ ready' \in BOOLEAN
            /\ readyFails' = FailureThreshold => ~ready'
        BY <2>2, ReadinessCounts DEF PodTypeOK
      <4> QED
        BY <1>0, <2>2, <3>1, <4>1, ContinueAges DEF PodTypeOK, settings, LivenessPeriod
    <3>3. TermInv'
      BY <1>0, <2>2, <3>1, ContinueAges, Settings DEF PodTypeOK, TermInv, settings
    <3>4. ReadyInv' /\ OnBeat' /\ FailuresTakeTime' /\ HangInv'
      <4>1. CASE started
        BY <1>4, <2>2, <3>1, <4>1 DEF PodTypeOK, HangInv
      <4>2. CASE ~started
        BY <1>0, <2>2, <3>1, <4>2
        DEF PodTypeOK, ReadyInv, OnBeat, FailuresTakeTime, HangInv, settings
      <4> QED  BY <4>1, <4>2
    <3> QED  BY <3>2, <3>3, <3>4
  <2> QED  BY <1>6, <2>1, <2>2 DEF Terminating
<1> QED  BY <1>2, <1>3, <1>5, <1>6 DEF Elapse

\* The invariant is inductive.
LEMMA PodInvariant == PodSpec => []PodInv
<1>1. PodInit => PodInv
  <2> SUFFICES ASSUME PodInit PROVE PodInv
    OBVIOUS
  <2>1. /\ loadTimeout \in Nat /\ loadTimeout >= 30 /\ MaxAge \in Nat /\ MaxHangs \in Nat
    BY TimesAssumption DEF PodInit
  <2>2. StartupThreshold(loadTimeout) \in Nat /\ StartupThreshold(loadTimeout) >= 1
    BY <2>1, ThresholdBounds
  <2>3. OnBeat
    BY DEF PodInit, OnBeat, Step, LivenessPeriod
  <2>4. PodTypeOK
    <3>1. /\ age \in 0 .. MaxAge /\ startFails \in 0 .. StartupThreshold(loadTimeout) - 1
          /\ readyFails \in 0 .. FailureThreshold /\ liveFails \in 0 .. FailureThreshold
          /\ hungFor \in Nat \cup {-1} /\ termFor \in Step .. GracePeriod \cup {-1}
          /\ hangs \in 0 .. MaxHangs
      BY <2>1, <2>2 DEF PodInit, FailureThreshold
    <3>2. beat \in 0 .. LivenessPeriod - 1
      BY DEF PodInit
    <3>3. /\ container \in {"init", "server"} /\ started \in BOOLEAN /\ ready \in BOOLEAN
          /\ loadTimeout \in LoadTimeouts /\ engine \in Engines
          /\ bootTime \in BootTimes /\ loadTime \in LoadTimes
          /\ cached \in BOOLEAN /\ visible \in BOOLEAN
      BY DEF PodInit
    <3> QED  BY <3>1, <3>2, <3>3 DEF PodTypeOK
  <2> QED
    BY <2>3, <2>4
    DEF PodInit, PodInv, PodTypeOK, FailuresTakeTime, ReadyInv, HangInv, TermInv,
        FailureThreshold
<1>2. PodInv /\ [PodNext]_podVars => PodInv'
  <2> SUFFICES ASSUME PodInv, [PodNext]_podVars PROVE PodInv'
    OBVIOUS
  <2>1. CASE Elapse
    BY <2>1, ElapseKeeps
  <2>2. CASE MarkerAppears
    BY <2>2 DEF MarkerAppears, PodInv, PodTypeOK, OnBeat, FailuresTakeTime, ReadyInv, HangInv,
                TermInv, AnswersFrom, settings, probes
  <2>3. CASE Hang
    <3>1. /\ container = "server" /\ hungFor' = 0 /\ hangs' = hangs + 1 /\ hangs < MaxHangs
          /\ UNCHANGED <<settings, visible, container, age, probes, termFor, beat>>
          /\ hungFor < 0
      BY <2>3 DEF Hang, Answers
    <3>2. hungFor' \in Nat \cup {-1} /\ hangs' \in 0 .. MaxHangs
      BY <3>1, Settings DEF PodInv, PodTypeOK
    <3>3. PodTypeOK'
      BY <3>1, <3>2 DEF PodInv, PodTypeOK, settings, probes
    <3>4. HangInv' /\ TermInv'
      BY <3>1 DEF PodInv, PodTypeOK, OnBeat, HangInv, TermInv, probes, settings, FailureThreshold
    <3>5. ReadyInv' /\ OnBeat' /\ FailuresTakeTime'
      BY <3>1 DEF PodInv, OnBeat, ReadyInv, FailuresTakeTime, AnswersFrom, settings, probes
    <3> QED  BY <3>1, <3>3, <3>4, <3>5 DEF PodInv, probes
  <2>4. CASE Crash
    <3>1. hangs' \in 0 .. MaxHangs /\ beat' \in {0, 5, 10, 15} /\ visible' \in BOOLEAN
      BY <2>4, Settings DEF Crash, PodInv, PodTypeOK, OnBeat
    <3> QED  BY <2>4, <3>1, RestartKeeps DEF Crash, PodInv, ReadyInv
  <2>5. CASE UNCHANGED podVars
    BY <2>5 DEF podVars, settings, probes, PodInv, PodTypeOK, OnBeat, FailuresTakeTime, ReadyInv,
                HangInv, TermInv, AnswersFrom
  <2> QED  BY <2>1, <2>2, <2>3, <2>4, <2>5 DEF PodNext
<1> QED  BY <1>1, <1>2, PTL DEF PodSpec

\* For every load timeout of at least 30 seconds, a server that has not
\* answered yet is sent SIGTERM or killed only after the load timeout less 19
\* seconds.
THEOREM TimeIsGranted == PodSpec => LoadTimeGranted
<1>1. PodInv /\ [PodNext]_podVars
      => [Elapse /\ container = "server" /\ ~started /\ (termFor' >= 0 \/ age' = 0) =>
            age + 19 >= loadTimeout]_podVars
  <2> SUFFICES ASSUME PodInv, Elapse, container = "server", ~started, termFor' >= 0 \/ age' = 0
               PROVE  age + 19 >= loadTimeout
    OBVIOUS
  <2>1. CASE termFor >= 0
    BY <2>1 DEF PodInv, PodTypeOK, TermInv
  <2>2. CASE termFor < 0
    <3>1. StartupProbe
      BY <2>2 DEF Elapse, WaitForWeights, Probes, Terminating, PodInv, PodTypeOK
    <3>2. age' # 0
      BY <3>1, Settings, ContinueAges DEF StartupProbe, PodInv, PodTypeOK
    <3>3. Due(StartupPeriod) /\ startFails + 1 >= StartupThreshold(loadTimeout)
      <4>1. termFor' # termFor
        BY <2>2, <3>2 DEF PodInv, PodTypeOK
      <4> QED  BY <3>1, <4>1 DEF StartupProbe
    <3>4. beat \in {0, 10}
      BY <3>3 DEF PodInv, OnBeat, Due, StartupPeriod
    <3> QED
      BY <2>2, <3>3, <3>4, Settings DEF PodInv, PodTypeOK, FailuresTakeTime
  <2> QED  BY <2>1, <2>2 DEF PodInv, PodTypeOK
<1> QED  BY <1>1, PodInvariant, PTL DEF PodSpec, LoadTimeGranted

\* Whatever the boot and load times: a pod takes traffic only with its weights
\* in sight, and loaded by the container that runs now if vLLM serves them.
THEOREM TrafficIsLoaded == PodSpec => []TrafficOnlyWhenLoaded
<1>1. PodInv => TrafficOnlyWhenLoaded
  BY DEF PodInv, PodTypeOK, ReadyInv, TrafficOnlyWhenLoaded, AnswersFrom, HealthPath, Engines
<1> QED  BY <1>1, PodInvariant, PTL

\* A server that hangs loses its traffic within 15 seconds and is replaced
\* within 180, the grace period included.
THEOREM HangsAreCutOff == PodSpec => []HungServerIsCutOff
<1>1. PodInv => HungServerIsCutOff
  BY DEF PodInv, PodTypeOK, OnBeat, HangInv, TermInv, HungServerIsCutOff, FailureThreshold,
         Step, GracePeriod
<1> QED  BY <1>1, PodInvariant, PTL
=============================================================================
