----------------------------- MODULE PodStartup -----------------------------
(***************************************************************************)
(* The life of one serving pod, as the init container and the probes that  *)
(* render.Deployment writes into it make the kubelet drive it.             *)
(*                                                                         *)
(* Time moves in steps of Step seconds, which divides every period below.  *)
(* A server is up bootTime and has its weights loaded loadTime seconds     *)
(* after it started; which of the two its health endpoint tells depends on *)
(* the engine.  It answers until it hangs.  The kubelet probes at its own  *)
(* beat: the first probe may come right after the start.  A server that    *)
(* fails its startup or liveness probe is sent SIGTERM, and killed if it   *)
(* has not exited when the grace period is over.  A container that is gone *)
(* is started again; how long the kubelet backs off does not matter here.  *)
(***************************************************************************)
EXTENDS Integers

CONSTANTS
    LoadTimeouts,  \* values of runtime.loadTimeoutSeconds
    BootTimes,     \* seconds a server may need until it is up
    LoadTimes,     \* seconds it may need to load its weights
    MaxAge,        \* ages are not told apart beyond this one
    MaxHangs       \* how often the server hangs

Step == 5
StartupPeriod == 10
LivenessPeriod == 20

\* terminationGracePeriodSeconds.
GracePeriod == 120

\* Mutant: ten failures.
LooseFailureThreshold == 10

\* failureThreshold of readiness and liveness.
FailureThreshold == 3

\* The CRD's minimum of loadTimeoutSeconds is 30.
ASSUME TimesAssumption ==
    /\ LoadTimeouts \subseteq {t \in Nat : t >= 30}
    /\ BootTimes \subseteq Nat /\ LoadTimes \subseteq Nat
    /\ MaxAge \in Nat
    /\ \A t \in LoadTimeouts \cup BootTimes \cup LoadTimes : t < MaxAge
    /\ MaxHangs \in Nat

\* Mutant: the period of the liveness probe.
StartupThresholdOfLiveness(t) == t \div LivenessPeriod

\* failureThreshold of the startup probe.
StartupThreshold(t) == IF t \div StartupPeriod > 1 THEN t \div StartupPeriod ELSE 1

Engines == {"vllm", "ollama"}

\* Mutant: one endpoint for both engines.
TagsPath(engine) == "/api/tags"

\* The endpoint the probes ask.
HealthPath(engine) == IF engine = "ollama" THEN "/api/tags" ELSE "/health"

VARIABLES
    loadTimeout, engine, bootTime, loadTime,
    cached,       \* the pod mounts the cache and has the init container
    visible,      \* the marker can be seen on this node
    container,    \* the running container, "init" or "server"
    age,          \* seconds since it started
    startFails, started,   \* startup probe: failures, whether it has passed
    readyFails, ready,     \* readiness probe; ready pods are in the endpoints
    liveFails,             \* liveness probe
    hungFor,      \* seconds since the server last could answer, -1 before
    termFor,      \* seconds since it was sent SIGTERM, -1 before
    hangs,
    beat          \* the kubelet's clock, up to the longest period

settings == <<loadTimeout, engine, bootTime, loadTime, cached>>
probes == <<startFails, started, readyFails, ready, liveFails>>
podVars == <<settings, visible, container, age, probes, hungFor, termFor, hangs, beat>>

Capped(n) == IF n > MaxAge THEN MaxAge ELSE n

PodTypeOK ==
    /\ loadTimeout \in LoadTimeouts
    /\ engine \in Engines /\ bootTime \in BootTimes /\ loadTime \in LoadTimes
    /\ cached \in BOOLEAN /\ visible \in BOOLEAN
    /\ container \in {"init", "server"}
    /\ age \in 0 .. MaxAge
    /\ startFails \in 0 .. StartupThreshold(loadTimeout) - 1 /\ started \in BOOLEAN
    /\ readyFails \in 0 .. FailureThreshold /\ ready \in BOOLEAN
    /\ liveFails \in 0 .. FailureThreshold
    /\ hungFor \in Nat \cup {-1}
    /\ termFor \in Step .. GracePeriod \cup {-1}
    /\ hangs \in 0 .. MaxHangs
    /\ beat \in 0 .. LivenessPeriod - 1

PodInit ==
    /\ loadTimeout \in LoadTimeouts
    /\ engine \in Engines /\ bootTime \in BootTimes /\ loadTime \in LoadTimes
    /\ bootTime <= loadTime
    /\ cached \in BOOLEAN /\ visible \in BOOLEAN
    /\ container = IF cached THEN "init" ELSE "server"
    /\ age = 0
    /\ startFails = 0 /\ started = FALSE
    /\ readyFails = 0 /\ ready = FALSE
    /\ liveFails = 0
    /\ hungFor = -1
    /\ termFor = -1
    /\ hangs = 0
    /\ beat \in {b \in 0 .. LivenessPeriod - 1 : b % Step = 0}

Restart(c) ==
    /\ container' = c
    /\ age' = 0
    /\ startFails' = 0 /\ started' = FALSE
    /\ readyFails' = 0 /\ ready' = FALSE
    /\ liveFails' = 0
    /\ hungFor' = -1
    /\ termFor' = -1

Continue ==
    /\ age' = Capped(age + Step)
    /\ hungFor' = IF hungFor < 0 THEN hungFor ELSE hungFor + Step
    /\ UNCHANGED container

-----------------------------------------------------------------------------

\* Mutant: after its deadline the init container waits on, without looking.
WaitForWeightsOnce ==
    /\ container = "init"
    /\ IF visible /\ age < loadTimeout THEN Restart("server")
       ELSE Continue /\ UNCHANGED <<probes, termFor>>

\* waitForWeights: look for the marker, give up at the deadline, sleep.
WaitForWeights ==
    /\ container = "init"
    /\ IF visible THEN Restart("server")
       ELSE IF age >= loadTimeout THEN Restart("init")
       ELSE Continue /\ UNCHANGED <<probes, termFor>>

\* When an endpoint begins to answer: Ollama's list of models as soon as the
\* server is up, vLLM's health once the engine has loaded.
AnswersFrom(path) == IF path = "/api/tags" THEN bootTime ELSE loadTime

\* The health endpoint answers a probe.
Answers == age >= AnswersFrom(HealthPath(engine)) /\ hungFor < 0

Due(period) == beat % period = 0

\* Until the startup probe has passed no other probe runs.
StartupProbe ==
    /\ container = "server" /\ ~started /\ termFor < 0
    /\ Continue
    /\ UNCHANGED <<readyFails, ready, liveFails>>
    /\ \/ /\ ~Due(StartupPeriod)
          /\ UNCHANGED <<startFails, started, termFor>>
       \/ /\ Due(StartupPeriod) /\ Answers
          /\ started' = TRUE
          /\ UNCHANGED <<startFails, termFor>>
       \/ /\ Due(StartupPeriod) /\ ~Answers
          /\ startFails + 1 < StartupThreshold(loadTimeout)
          /\ startFails' = startFails + 1
          /\ UNCHANGED <<started, termFor>>
       \/ /\ Due(StartupPeriod) /\ ~Answers
          /\ startFails + 1 >= StartupThreshold(loadTimeout)
          /\ termFor' = Step
          /\ UNCHANGED <<startFails, started>>

\* The period of the readiness probe is Step.
ReadinessProbe ==
    IF Answers
    THEN readyFails' = 0 /\ ready' = TRUE
    ELSE /\ readyFails' = IF readyFails < FailureThreshold THEN readyFails + 1 ELSE readyFails
         /\ ready' = (ready /\ readyFails' < FailureThreshold)

LiveFails ==
    IF ~Due(LivenessPeriod) THEN liveFails ELSE IF Answers THEN 0 ELSE liveFails + 1

Probes ==
    /\ container = "server" /\ started /\ termFor < 0
    /\ Continue
    /\ ReadinessProbe
    /\ liveFails' = LiveFails
    /\ termFor' = IF LiveFails >= FailureThreshold THEN Step ELSE termFor
    /\ UNCHANGED <<startFails, started>>

\* The server has been sent SIGTERM.  It exits, or is killed at the end of the
\* grace period; until then only readiness is probed.
Terminating ==
    /\ container = "server" /\ termFor >= 0
    /\ \/ Restart("server")
       \/ /\ termFor + Step <= GracePeriod
          /\ Continue
          /\ termFor' = termFor + Step
          /\ IF started THEN ReadinessProbe ELSE UNCHANGED <<readyFails, ready>>
          /\ UNCHANGED <<startFails, started, liveFails>>

Elapse ==
    /\ WaitForWeights \/ StartupProbe \/ Probes \/ Terminating
    /\ beat' = (beat + Step) % LivenessPeriod
    /\ UNCHANGED <<settings, visible, hangs>>

-----------------------------------------------------------------------------
(* The environment *)

\* The shared volume makes the marker visible on this node.
MarkerAppears ==
    /\ ~visible
    /\ visible' = TRUE
    /\ UNCHANGED <<settings, container, age, probes, hungFor, termFor, hangs, beat>>

\* The server stops answering.
Hang ==
    /\ container = "server" /\ Answers
    /\ hangs < MaxHangs
    /\ hangs' = hangs + 1
    /\ hungFor' = 0
    /\ UNCHANGED <<settings, visible, container, age, probes, termFor, beat>>

\* The server exits.
Crash ==
    /\ container = "server"
    /\ hangs < MaxHangs
    /\ hangs' = hangs + 1
    /\ Restart("server")
    /\ UNCHANGED <<settings, visible, beat>>

PodNext == Elapse \/ MarkerAppears \/ Hang \/ Crash

PodSpec == PodInit /\ [][PodNext]_podVars

\* Time passes, and the volume shows the marker in the end.
FairPodSpec == PodSpec /\ WF_podVars(Elapse) /\ WF_podVars(MarkerAppears)

-----------------------------------------------------------------------------

\* The startup probe keeps liveness from killing a pod that is still loading:
\* a server that has not answered yet is sent SIGTERM, or killed, only after
\* the load timeout less the 19 seconds that rounding down to whole periods and
\* an early first probe cost.
LoadTimeGranted ==
    [][Elapse /\ container = "server" /\ ~started /\ (termFor' >= 0 \/ age' = 0) =>
         age + 19 >= loadTimeout]_podVars

\* "Making readiness mean what it should": a pod takes traffic only with its
\* weights in sight, and only after the server that runs now has loaded them
\* (vLLM) or is at least up (Ollama, whose endpoint does not tell more).
TrafficOnlyWhenLoaded ==
    ready => /\ container = "server"
             /\ cached => visible
             /\ age > (IF engine = "vllm" THEN loadTime ELSE bootTime)

\* A server that hangs is out of the endpoints 15 seconds later, although it is
\* left the grace period to finish what it is doing, and is replaced within 180.
\* (The hang began up to Step seconds before hungFor = 0; a probe that has to
\* time out takes 3 seconds more.)
HungServerIsCutOff ==
    started /\ hungFor >= 15 => ~ready /\ hungFor + Step <= 180

\* A server that answers within the granted time takes traffic in the end and
\* for good, however late the marker became visible and although it hung or
\* crashed; waitForWeights gives up again and again without giving up for good.
EventuallyTakesTraffic ==
    AnswersFrom(HealthPath(engine)) + 19 < loadTimeout => <>[]ready
=============================================================================
