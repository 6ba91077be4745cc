# TLA+ models of the model-serving operator

This directory models the operator of this repository, which turns a
`ModelDeployment` into a weight cache, a warm-up Job, a gated Deployment, a
Service and a disruption budget, and scales the Deployment by queue depth.
TLC checks the models on small instances; TLAPS proves the central properties
for every value of the constants.

## 1. The system

| Component | Code | State | Operations | Modules |
|---|---|---|---|---|
| API types | `api/v1alpha1` | spec, status, finalizer, deletion | create, edit, scale, delete; defaulting | `Api` |
| Scaling rules | `internal/scaling` | none (a function of `State`) | `Decide` | `Scaling`, `ScalingLoop` |
| Queue depth source | `internal/queue` | none | `Depth` | `Scaling` |
| Renderer | `internal/render` | none (a function of the spec) | cache key, template, Job, budget; the init container and the probes of a pod | `Render`, `Cluster`, `PodStartup` |
| Status builder | `controller/status.go` | none | `build` | `Status` |
| Weight cache reconciler | `controller/weightcache.go` | a claim, one Job per cache key | ensure claim, create or read the Job, prune others | `Reconciler` |
| Controller | `controller/modeldeployment_controller.go` | work queue, timers, informer caches, the running pass | `Reconcile`, `sync`, `finalize` | `Reconciler`; `ModelService`, `Refinement` |
| Kubernetes | external | ReplicaSets, pods, Job status, volumes | rollouts, pods, downloads, garbage collection | `Cluster` |
| Manager | `cmd/main.go` | the lease, through leader election | leads, is deposed, exits | `Manager` (flags and wiring are not modelled) |
| Generated code | `zz_generated.deepcopy.go` | none | | not modelled |

How they interact. Events of the object and of what it owns put its name in
the work queue. A pass reads the object from an informer cache, then makes one
API call after the other: the finalizer, the claim, the Job of the current
cache key, the Jobs of other keys, the replica decision (an `Update` of the
spec), the Deployment, the Service, the budget, and last the status. Between
two of these calls the user may edit or delete the object, downloads finish or
fail, rollouts move and caches catch up. The Deployment is *paused* while the
weights of the current spec are not known to be cached; that pause is the only
thing between a new template and its pods. Nothing is locked: the operator
relies on `resourceVersion` for its `Update`s, on idempotent applies for its
children, and on being called again for everything else.

What is hard about it, and what makes each part correct:

* **Controller and weight cache**: every read is of a cache that may be behind,
  and a pass may end between any two calls. It is correct if no pod is ever
  created for weights that are not there (`ServeOnlyCachedWeights`), the status
  belongs to the spec it claims to describe (`StatusMatchesSpec`,
  `CachedIsOnDisk`), no edit is lost (`OperatorWritesOnlyReplicas`), coming to
  rest means having converged (`QuiescentIsConverged`), and it does come to
  rest (`EventuallyQuiescent`) with the model served (`EventuallyServed`).
* **Teardown**: it races with creation, and pods are not watched. Nothing may
  be left behind (`NoLeftovers`), and it ends (`TeardownCompletes`).
* **Rollout**: a switch may be taken back while it is held or half done.
  Capacity is not given up (`CapacityKept`).
* **All of it together** implements the small service of `ModelService`: pods
  only for complete weights, a model served until the object is deleted, a
  status that vouches for nothing else (`ImplementsModelService`).
* **Lost volumes**: a claim deleted by hand takes the weights with it, while the
  Job that filled it still says they are there. The operator has to come to rest
  all the same (`QuiescentIsConverged`); the code does not notice the loss
  (section 3).
* **Pods**: the init container, three probes, their endpoint and thresholds and
  the termination grace period together decide when a pod takes traffic
  (`TrafficOnlyWhenLoaded`), how long it may load (`LoadTimeGranted`), when a
  hang is noticed and when it ends (`HungServerIsCutOff`), and that the pod does
  take traffic (`EventuallyTakesTraffic`).
* **Manager**: leader election does not fence. What a deposed leader still
  writes must do no lasting harm (`TakeoverConverges`).
* **Scaling**: windows are measured from a time that is stored apart from the
  decision (`WindowBetweenWrites`); rules interact over many passes
  (`RateBounded`, `MovesTowardsNeed`, `NoGrowthWhileCold`, `Converges`); zeroes
  do not survive the operator's own `Update` (`ReachesZero`).
* **Status builder**: conditions computed from several observations must not
  contradict each other (`ReadyNotWhileWarming`).

The hazards, each at its line, are listed in `PROJECT.json`.

## 2. Modules

```
Scaling <- ScalingLoop <- MCScalingLoop
   ^           ^--- ScalingLoopProofs (with ScalingTheorems)
  Api <- Render <- Status <- Cluster <- Reconciler <- Refinement <- MCReconciler
                                          ^  ^------- Manager <- MCManager
                                          |
  ReconcilerProofs (with ScalingTheorems) <- LifecycleProofs
      <- GateProofs (with Refinement) <- ConvergenceProofs
      <- ManagerProofs (with Manager)
  PodStartup <- MCPodStartup
      ^--- PodStartupProofs
```

`Scaling` holds `Decide` and `Depth` as operators. `MaxInt` stands for
`math.MaxInt32`; additions go through `Wrap`, which wraps around as Go's int32
does, and `Quo` truncates towards zero. `Hold`, `Grow` and `Shrink` are the
three branches of `Decide` in the order of the code.

`StoredPolicy` and `OrDefault` are what is left of a policy and of a count after
a full `Update` by a typed client: a zero with `omitempty` is not sent, and the
API server puts the default in its place.

`ScalingLoop` closes the loop: a pass reads the queue, decides and stores the
size (`ApplyDecision`, the `Update` of the spec, with its defaulted zeroes), and
then stores the time in a write of its own (`RecordTime`, the status). The pass
may end between the two (`CutShort`), which keeps the size and loses the time.
The load, the weights and the clock move in between. `added`, `removed` and
`lost` are history variables.

`Api` is the resource. A spec keeps the fields that name weights (`engine`,
`model`), that choose the volume (`weightCache`) and that steer control flow
(`replicas`, `autoscaling`, `minAvailable`); all other fields are one value,
`runtime`. A condition is represented by its reason. `Stored` is what a full
`Update` leaves of a spec.

`Render` maps a spec to its children. A pod template keeps what distinguishes
two templates: cache key, weights volume, runtime.

`Status` is `statusBuilder.build` and the three conditions.

`Cluster` is the world around the operator, written from what the operator's
code relies on: a paused Deployment is scaled but not rolled; `maxSurge` 1 and
`maxUnavailable` 0 bound a rollout; `wait-for-weights` holds a pod until the
marker exists; the warm-up script writes the marker after the download; a Job
fails after its backoff limit or deadline, and its failed pods stay until the
Job is gone; deletion of Deployments and Jobs is in the background, so
ReplicaSets and pods live on for a while; children follow their owner one by
one, in any order. A claim, whether deleted by hand or with its owner, goes only
once no running pod mounts it (`Unmounted`); pods created later find an empty one and
wait for its marker.

`Reconciler` is the operator. `pc` names the next API call of the running pass,
and there is one action per call:

| `pc` | Action | Code |
|---|---|---|
| `idle` | `StartPass` | `Reconcile`: Get and the branch on deletion and finalizer |
| `addFin` | `AddFinalizer` | `controllerutil.AddFinalizer`, `Update` |
| `claim` | `EnsureClaim` | `ensureClaim` |
| `job` | `ReconcileJob` | `reconcileWeightCache`: Get or Create |
| `list`, `prune` | `ListWarmJobs`, `PruneJob` | `pruneStaleWarmJobs` |
| `decide` | `DecideReplicas` | `decideReplicas` |
| `update` | `WriteReplicas` | the `Update` of `spec.replicas` |
| `applyDep`, `applySvc`, `pdb` | `ApplyDeployment`, `ApplyService`, `ReconcilePDB` | the applies of `sync` |
| `status` | `WriteStatus` | `observeDeployment`, `build`, `writeStatus` |
| `delDep` ... `release` | `DeleteDeployment`, `DeleteJobs`, `ListPods`, `ReleaseFinalizer` | `finalize` |

`pmd`, `cache`, `stale` and `dec` are the local variables of a pass. Informer
caches are variables of their own (`mdCache`, `jobsCache`, `depCache`,
`podsCache`), brought up to date by `SyncMD`, `SyncJob`, `SyncDep`, `SyncPods`,
which also queue the object where the controller watches the kind.
`resourceVersion` is abstracted to two bits: whether the object the pass holds
(`fresh`) and the one in the cache (`mdFresh`) are current. `Abort` ends a pass
anywhere: a failed call, a lost answer or the death of the process.
`LoseClaim` is a claim deleted by hand, with the volume behind it; the next pass
creates an empty one. `lastCommit` is a history variable.

`ModelService` is the abstract specification: what the user asks for, which
weights are complete, which pod templates have been admitted, which serve, and
what the status vouches for. It knows no passes, caches, Jobs or counts.
`Refinement` maps the state of `Reconciler` to it: a template is admitted when
it has a ReplicaSet or a pod, it serves when it has a ready pod that its
ReplicaSet keeps, and the status vouches for weights when it is of the current
generation and says `Cached`. A pod of a ReplicaSet that has already been scaled
down may become ready for a moment before it is deleted; it is not counted,
here and in `ServingCapacity`, as nothing promises to keep it.

`Manager` runs two managers. The variables of `Reconciler` are the leader's. At
a `Takeover` the running pass, with its locals and caches, becomes the deposed
leader's (variables with an `o`), and the successor starts from a fresh list of
everything (`ListAll`). The deposed leader finishes its pass, call by call
(`DeposedStep`, through an instance `Old` of `Reconciler` on its own
variables), or exits at any point (`DeposedExits`). Both meet only in the API
server: a write by one makes the other's copy of the object old, and reaches
the leader through its watches.

`PodStartup` is one pod of either engine. `WaitForWeights` is the init
container's loop with its deadline; `StartupProbe` and `Probes` are the kubelet
acting on the endpoint (`HealthPath`), the periods and the thresholds that
`render.Deployment` writes. vLLM's endpoint answers when the weights are loaded
(`loadTime`), Ollama's when the server is up (`bootTime`). A server that failed
its startup or liveness probe is sent SIGTERM; `Terminating` lets it exit at any
point of the 120 seconds of grace, during which only readiness is probed, and
kills it at their end. `Hang`, `Crash` and `MarkerAppears` are the environment.
Time moves in steps of five seconds, the shortest period.

The modules hold next to some definitions a variant marked *Mutant*: the
definition with a plausible bug. `PROJECT.json` pairs every property of every
passing run with a mutant under which TLC finds it violated, which shows that
the property depends on the code it is about.

## 3. Runs

Passing runs:

| Run | What happens in it | What it shows |
|---|---|---|
| `scaling_loop` | ten policies, with zero floors and zero windows among them, two pods, changing load, an adapter that fails, weights that come and go, a pass cut short between its two writes | `LoopTypeOK`, `RateBounded`, `MovesTowardsNeed`, `NoGrowthWhileCold`, `Converges` |
| `rollout_race` | a model switch, late object and Job caches, an aborted pass; or an autoscaled object under load that comes and goes, with a late object cache | `ServeOnlyCachedWeights`, `CachedIsOnDisk`, `StatusMatchesSpec`, `OperatorWritesOnlyReplicas`, `ImplementsModelService`, `WindowBetweenWrites` |
| `rollout_back` | two edits: a switch, taken back, resized or followed by one to a third template while held or rolling | `QuiescentIsConverged`, `CapacityKept` |
| `drift` | `kubectl scale` across 0, 1, 2, late caches, and either a deleted claim, or a deleted Service and budget and an aborted pass | `TypeOK`, `QuiescentIsConverged` |
| `live_rollout` | a switch between a shared claim (present, late or never there) and the own one, failing and late warm-ups, an aborted pass | `ReadyNotWhileWarming`, `EventuallyServed`, `EventuallyQuiescent` |
| `teardown` | a deletion at any moment, late caches, failing and retried warm-ups, an aborted pass | `NoLeftovers`, `TeardownCompletes` |
| `takeover` | the lease changes hands in the middle of any pass; the deposed leader writes on or dies; the user edits or deletes the object | `ServeOnlyCachedWeights`, `StatusMatchesSpec`, `TakeoverConverges`, `OperatorWritesOnlyReplicas` |
| `pod_startup` | both engines, four load timeouts, two boot times, six load times, a late marker, two hangs or crashes, a server that ignores SIGTERM | `TrafficOnlyWhenLoaded`, `HungServerIsCutOff`, `LoadTimeGranted`, `EventuallyTakesTraffic` |

Runs that TLC ends with a violation, each of which is a finding in
`PROJECT.json` with the line of the repository it contradicts:

| Run | Property | Shows |
|---|---|---|
| `window_lost` | `WindowBetweenWrites` | a pass that ends between the replica write and the status write loses `lastScaleTime` |
| `other_claim` | `ServeOnlyCachedWeights` | the same model on another claim is rolled out without a download |
| `early_release` | `ClaimOutlivesPods` | the finalizer is released while a ReplicaSet still creates pods |
| `zero_lost` | `ReachesZero` | the decision to scale to zero is stored as one, and the floor of zero with it |

Deviations without a run, met while modelling:

* What `zero_lost` shows of autoscaling holds of a fixed size too: `replicas: 0`
  becomes 1 when the finalizer is added. `QuiescentIsConverged` compares with
  the stored spec, and `OperatorWritesOnlyReplicas` leaves the count out, so
  neither sees it.
* After the claim is deleted and created again, the finished Job still stands
  for its contents (`weightcache.go:59`): `Cached` stays reported, no download is
  started, and new pods wait for the marker for ever.
* The pause follows `job.Status.Succeeded`, the report the `Failed` condition.
  When the deadline passes after the pod finished and before the Job was
  completed, both are set: the failure is reported and the rollout released,
  although `README.md:377` of the repository says that a failed Job does not
  lift the pause.
* A failed warm-up Job is found again by every later pass with the same cache
  key: a corrected `secretRef`, `warmImage` or timeout is not tried.
* The repository's README says of the startup probe that
  `failureThreshold × periodSeconds` is not less than `loadTimeoutSeconds`. The
  threshold is rounded down (39 seconds give 3 periods), and the first probe may
  come right after the start, so up to 19 seconds are missing. `LoadTimeGranted`
  states what is granted.
* `minReadySeconds` is 15, which is also the time readiness needs to notice that
  a server hangs (three failures, five seconds apart). Which comes first depends
  on fractions of a period.
* `config/manager/manager.yaml` says the standby takes over "without two
  managers ever writing to the same object". A deposed leader may still write
  for the rest of its pass; `takeover` shows that this is repaired.
* The health endpoint of Ollama answers before a model is loaded, as the comment
  of `HealthPath` says; an Ollama pod takes traffic from then on.
  `TrafficOnlyWhenLoaded` therefore asks for the weights of vLLM pods only.
* A server that hangs and ignores SIGTERM runs for the 120 seconds of grace
  after the third failure of liveness. It is out of the endpoints after 15
  seconds, but is replaced only within 180 (`HungServerIsCutOff`).
* While a rollout is held, `status.cacheKey` names weights that no pod serves,
  although its comment says "currently being served".
* A pass on a late copy of the object applies the previous replica count to
  the Deployment until the next pass; the apply carries no `resourceVersion`.
* With `minReplicas` above `maxReplicas`, which nothing rejects, the size
  alternates between the two for ever, and no window slows it down.
* A queue depth near the largest int32 makes `ceilDiv` wrap around, and the
  deployment shrinks.
* A resize while a rollout is held with two active ReplicaSets is proportional
  and may take ready pods; `CapacityKept` is stated for edits that do not
  shrink such a Deployment.

### Bounds

* `MaxEdits`, `MaxDeletes`, `MaxDrifts`, `MaxFaults` limit how often the user
  or a fault interferes. One edit meets every point of a pass; two are needed
  to take a switch back (`rollout_back`). One fault reaches every partial pass.
* `MaxLosses` is 1 in `drift` and 0 elsewhere: the gate theorems' premise that
  nobody deletes the claim. `OneMishap` keeps a lost claim out of the
  behaviours of `drift` with an aborted pass or other deleted children, for the
  size of the run; the theorems about its two properties have no such bound.
* `MaxTakeovers` is 1: a third manager would start from the same list. The user
  acts once in `takeover` (`OneIntervention`); caches are prompt for the leader,
  while the deposed leader's stay as they were when it lost the lease.
* `MCLoadTimeouts` and `MCLoadTimes` lie on both sides of a whole number of
  startup periods and of what they grant; `MCBootTimes` are a server that is up
  at once and one that fails a startup probe first. `MaxAge` is beyond all of
  them: older ages behave alike. How long a hang lasts has no bound of its own;
  the probes and the grace period bound it. `MaxHangs` is 2, so that a server
  hangs again after it was restarted for hanging.
* `Prompt` names the caches that are up to date before anything else happens.
  A run leaves late the caches its question is about: object and Jobs for the
  gate, object and Deployment for drift, everything but the Deployment for
  teardown.
* `MaxTime` is 1 where time plays no role. `window_lost` has three seconds: a
  scale-up at the first, and the scale-down window of two after it.
  `rollout_race` has two, and a window of one. `LoadOrUser` keeps its two
  questions apart, for the size of the run: the user edits, and faults hit, only
  objects of a fixed size (`window_lost` shows what a fault does to a window),
  and time passes only after the first change of size, which no window delays.
* `MaxInt` is 3 in `MCReconciler` (sizes up to two and a surge) and 15 in
  `scaling_loop`, above every sum that occurs there: no run wraps around, and
  what wraparound may do is left to `DecideType` and `LoopTypes`, which are
  proved for every `MaxInt`.
* `MaxLost` is 1 in `scaling_loop`: one pass that loses the time of its
  decision, at any point of it. `RateBounded` counts such passes, so a second
  one repeats the first.
* `DefaultScaleUp`, `DefaultScaleDown` are the CRD's 60 and 900 in small;
  only their being positive and different matters.
* `BackoffLimit` is 1 in `teardown`, which has a retried download, and 0
  elsewhere.
* `Quiet` ends the changes of the load in `scaling_loop`, so that convergence
  has something to converge to. After it, a pass completes every second, which
  stands for the resync interval; before it, passes may be missed. `Settling`
  is the longest way down, from above the ceiling to zero at one replica per
  window; `MaxTime` leaves three seconds beyond it in which the loop could
  leave the size again.
* `ModelSymmetry` permutes the two models in `rollout_race`; its specs are
  closed under the permutation and it checks no liveness.

`CHECK_DEADLOCK FALSE` is set everywhere but in `pod_startup`, where time always
passes: with bounded edits the system may and
should come to rest. That it does so only after converging is
`QuiescentIsConverged`.

### Fairness

`FairSpec` assumes weak fairness of a pass (the work queue hands out what it
holds, and a worker runs), of each watch, of timers and the clock, of the
Deployment controller, the kubelet, the warm-up pods of each Job and the
garbage collector. Nothing is assumed of the user, of faults, of failing
downloads, of missing claims, or of pods that outlive their Job except that
they are collected. The controller-runtime work queue retries with back-off
after an error for ever, and informers resume after a lost connection, which is
what these assumptions rest on. `FairLoopSpec` assumes that the operator polls
(`resyncInterval`) and that time passes. `FairPodSpec` assumes that time
passes, and that the shared volume shows the marker in the end; the gate has
seen to it that the marker was written before the pod was created.

## 4. Proofs

All theorems hold for every value of the constants that satisfies the named
assumptions (`ASSUME` in `Scaling`, `ScalingLoop`, `Api`, `Render`, `Cluster`,
`Reconciler`, `PodStartup`), that is, for every number of models, claims, runtimes and edits.

| Theorem | Module | Statement |
|---|---|---|
| `DecideType` | `ScalingTheorems` | `Decide` returns a legal size, and `Changed` is exact, in spite of wraparound |
| `LoopTypes`, `ColdNeverGrows` | `ScalingLoopProofs` | `LoopTypeOK`, `NoGrowthWhileCold` |
| `RateIsBounded` | `ScalingLoopProofs` | `RateBounded`, with any number of passes cut short between their two writes |
| `HeadsForNeed` | `ScalingLoopProofs` | `MovesTowardsNeed`, for ordered bounds, whole requests and sums an int32 holds |
| `TypeCorrect` | `ReconcilerProofs` | `TypeOK` |
| `StatusIsOfItsSpec` | `ReconcilerProofs` | `StatusMatchesSpec` |
| `OnlyCachedWeightsAreServed`, `CachedIsTrue` | `GateProofs` | `ServeOnlyCachedWeights`, `CachedIsOnDisk`, for one volume that is not deleted |
| `NothingIsLeftBehind` | `LifecycleProofs` | `NoLeftovers`, without a premise |
| `ConditionsAgree` | `LifecycleProofs` | `ReadyNotWhileWarming`, without a premise |
| `EditsAreKept` | `LifecycleProofs` | `OperatorWritesOnlyReplicas`, for specs without a zero that the API server defaults |
| `WindowsHold` | `LifecycleProofs` | `WindowBetweenWrites`, without faults and edits |
| `Converged` | `ConvergenceProofs` | `QuiescentIsConverged`, without a premise |
| `ImplementsGatedService` | `GateProofs` | `Spec => Service!GatedSpec`, for one volume that is not deleted |
| `CapacityIsKept` | `ConvergenceProofs` | `CapacityKept`, for specs of one size, at least one, without autoscaling |
| `ImplementsService` | `ConvergenceProofs` | `ImplementsModelService`, under the premises of the two above |
| `PairTypes`, `PairStatusIsOfItsSpec`, `PairConditionsAgree` | `ManagerProofs` | `TypeOK`, `StatusMatchesSpec`, `ReadyNotWhileWarming` of `ManagerSpec`, without a premise |
| `PairEditsAreKept` | `ManagerProofs` | `OperatorWritesOnlyReplicas` of `ManagerSpec`, for specs without a zero that the API server defaults |
| `PairServesOnlyCachedWeights`, `PairImplementsGatedService` | `ManagerProofs` | `ServeOnlyCachedWeights` and `CachedIsOnDisk`, and `Service!GatedSpec`, of `ManagerSpec`, for one volume that is not deleted |
| `PairConverges` | `ManagerProofs` | `TakeoverConverges` and `QuiescentIsConverged` of `ManagerSpec`, for prompt caches of Jobs and Deployment |
| `TimeIsGranted`, `HangsAreCutOff`, `TrafficIsLoaded` | `PodStartupProofs` | `LoadTimeGranted`, `HungServerIsCutOff`, `TrafficOnlyWhenLoaded` |

The inductive invariants and why they are needed:

* `RateInv`. `RateBounded` counts against the clock, but a window is measured
  from the last change on record. The invariant bounds what was added and
  removed by the number of windows up to that change (`WithinRate`), and allows
  one change more for every pass cut short, as it leaves no record, and for the
  pass whose record is outstanding. An `Update` also replaces the policy, by one
  whose zero windows are defaulted (`ConfiguredFacts`).
* `PassInv`. `TypeOK` is not inductive: that an `Update` finds an object to
  replace, and a status write one to label, depends on what the freshness bits
  mean. `PassInv` adds that a fresh copy (of the cache, of the pass) equals the
  object in the API server, that a pass of `sync` holds an object that is not
  being deleted, that a warm-up pod has a Job, and that no pass leaves its
  locals behind.
* `StatusInv`. A status is computed from the copy the pass holds and from what
  the weight cache told it earlier in the same pass. The invariant adds that
  the two agree on whether a cache is configured at all; that the copy is still
  the current object when the status is written is `PassInv`'s part.
* `GateInv(v)`. A pod needs a ReplicaSet, which needs an unpaused Deployment,
  which needs a pass that saw a succeeded Job in its cache, which needs a Job
  that succeeded, which needs its pod to have written the marker. The invariant
  is that chain, link by link, including what is remembered in caches and in
  the locals of a pass, for the one volume `v`. Markers are never removed
  unless the claim is, which makes every remembered link remain true.
* `ReadyInv` of `GateProofs` says that no more pods are ready than exist; the
  refinement needs it to know that what serves has been admitted.
* `LifeInv`. Whether a pass may create a child depends on marks of the object
  (finalizer, deletion) that it read some time ago. `CopiesInv` says how old
  copies relate to the object: marks are only ever added, a copy that looks live
  has an object, and a finalizing pass has seen the deletion that the API server
  also shows. `TornDown` says that what finalize has removed is not created
  again while it runs: only a pass of `sync` creates, and there is one worker.
* `PlainInv`, the premise of `EditsAreKept`, holds of the stored object and not
  only of the specs users write; that an Update starts from the current object
  is the conflict check, `PassInv`'s part. `ConditionsAgree` follows from
  `StatusInv` in the same way: `ObjectWrites` lists who writes the object.
* `WindowInv`. The count and its time are two writes of one pass. The invariant
  says that the stored `lastScaleTime` is the time of the last count written,
  except while the pass that wrote it is between the two; and that a count about
  to be written was decided on after the window. Its weak spot is what the
  premise excludes: a pass that ends in between (`window_lost`), or whose second
  write an edit makes conflict.
* `ConvInv`. That rest implies convergence is the claim that every reason for
  work leads to an event, and it is proved by saying what a pass that nothing
  has disturbed has achieved after each of its calls (`PassProgress`), measured
  against the caches and not against the cluster, and what therefore holds after
  its last one (`Settled`). A step that spoils any of it sets `queued`, makes a
  cached object old, or leaves a cache behind; the last of these is what
  `QuiescentIsConverged` excludes by asking for current caches.
* The refinement maps the object to `asked`, the markers to `cached`, the
  ReplicaSets and pods to `admitted`, the ready ones to `serving` and a current
  `Cached` to `vouched`. A step that touches none of these stutters; `GateInv`
  gives the guard of `Admit` and of `Report`, `ReadyInv` that of `Serve`, and
  `ObjectWrites` shows that only users change what is asked for (a changed
  replica count is not part of a template).
* `CapacityInv(n)`. A ReplicaSet gives up a pod that serves only when a rollout
  finds more available than the size calls for, or when a held Deployment is too
  large. The second must not happen: `SizeInv` says that every copy of the spec
  and the Deployment have size `n`, and `RolloutInv` that all ReplicaSets
  together never ask for more than `n + maxSurge`, that one which is gone asks
  for nothing, and that none is there without its Deployment as long as the
  object is alive. The rest is the arithmetic of sums in which one template
  changes (`SumUpdated`). That the operator deletes the Deployment only of an
  object on its way out comes from `CopiesInv`, and that a pass writes no other
  count from `PlanInv`. `KeepsServing`, the half of `ImplementsModelService` that
  `ImplementsGatedService` leaves out, is the same argument for one pod.
* `PairInv`, `StatusPair`, `GatePair(v)`. A deposed leader's pass is a pass like
  any other, on caches that nobody brings up to date. `Former` is therefore an
  instance of the whole theory of `GateProofs` on his variables, with no prompt
  cache, and every lemma about the steps of one pass is a lemma about his. What
  is left to show is that each of the two keeps what the other one relies on:
  for freshness that a write by one makes the other's copy old, for the gate
  that what either has in his hands was once true and, as markers stay, still
  is.
* `MarksPair`. A deposed leader that is tearing the object down has seen the
  deletion, so the successor, who listed everything afterwards, has too
  (`Doomed`): he is never in the middle of building up what the other one
  removes.
* `ConvPair` asks for `ConvInv` only while the leader's copies of Jobs and
  Deployment are the cluster's. A write by the deposed leader makes them late,
  at which nothing is claimed; the watch that brings them up to date also queues
  the object, after which `Settled` claims nothing either.
* `HeadsForNeed` needs no invariant but the types. It rests on three facts:
  `ceilDiv` is the least size whose share is within the target (`CeilDivLeast`),
  the sum of whole requests is what `Depth` reports (`SumScaled`), and the cases
  of `Decide` (`DecideCases`).
* `PodInv` ties counters to time. Every failure of the startup probe but the
  first stands for ten seconds of age (`FailuresTakeTime`), and both running
  probes bound from their counts, and from the kubelet's beat, how long a hang
  has lasted (`HangInv`). Once SIGTERM is sent the liveness probe no longer
  bounds a hang; `TermInv` does, by how long the hang had lasted before and by
  the grace period. The properties mention no counter, so they are not inductive
  without these.

The premises, and what happens without them:

* One volume, and nobody deletes the claim (`MaxLosses = 0`), for the gate
  theorems and the refinement. `other_claim` is the counterexample without the
  first; without the second the gate is open on an empty claim (section 3).
* One size of at least one and no autoscaling, for `CapacityIsKept` and
  `ImplementsService`. When a held rollout has to shrink, the real controller
  does so in proportion, and `ScalePaused` leaves open which ReplicaSet loses a
  replica. A spec that goes from one replica to two, has a pod that is not ready
  yet, and goes back to one while the next model is held, may lose the pod that
  serves. For zero replicas there is nothing to keep.
* `{"jobs", "dep"}` prompt, for `PairConverges`. The model compares copies by
  value. If a deposed leader changes a child and the leader changes it back
  before the leader's cache shows the first change, a late cache would equal the
  cluster again without an event. Real watches deliver both changes; the premise
  makes up for the abstraction. The cache of the object itself may lag.
* `MaxEdits = 0` and `MaxFaults = 0` for `WindowsHold`: `window_lost`.
* No zero that the API server defaults, for `EditsAreKept`: `zero_lost`.
* `OrderedBounds`, `WholeRequests` and `NoOverflow` for `HeadsForNeed`. Crossed
  bounds alternate and a wrapped sum shrinks (section 3). `Depth` cuts every
  pod's value to an integer before it adds them up: three pods that report half
  a request each count as none, and the deployment shrinks below what the sum
  calls for.

Only model-checked:

* Everything temporal beyond `[]` and `[][A]_v` (`Converges`,
  `EventuallyServed`, `EventuallyQuiescent`, `TeardownCompletes`,
  `EventuallyTakesTraffic`): liveness under fairness is out of the prover's
  reach.
* `CapacityKept` and `KeepsServing` while sizes change (`rollout_back`,
  `rollout_race`): see the premises. An invariant would have to be about the
  rounding of code outside this repository.
* `CapacityKept` and `WindowBetweenWrites` are not stated for two managers. Nor
  is `NoLeftovers`: a deposed pass of `sync` may create children after its
  successor has removed them and released the finalizer; only the garbage
  collector removes those.

## 5. What is left out

* Informer caches jump to the current state; intermediate versions that a cache
  may also show are skipped. Claims, the Service and the budget are read
  without delay, although the code reads claims through a cache too. A deposed
  leader's caches stand still.
* In `Cluster` pods do not become unready again, and nodes do not fail; a pod
  that hangs or crashes is the subject of `PodStartup`, on its own.
* Nobody creates an object again under the name of one that was deleted.
* Leader election itself is controller-runtime's. `Manager` assumes of it that a
  lease can be lost in the middle of a pass, and that the loser exits.
* Two managers without leader election (the flag's default; the manifests turn
  it on): `Manager` lets the second finish one pass, not start others.
* The cache key is injective; collisions of the truncated hash are ignored.
* Time is in whole seconds; that `lastScaleTime` is stored without fractions
  is not modelled, nor are the timeouts of single probes and the kubelet's
  back-off between restarts.
* A Deployment's proportional scaling is modelled while it is paused, where the
  operator makes it happen, one replica at a time. `minReadySeconds` is not
  modelled.
* Events, log messages, condition messages, labels, arguments and environment
  of containers, the flags and health endpoints of `main.go`, the construction
  of the metrics client, and generated code: they hold no state that another
  part depends on.

## 6. Plan

Done: `Scaling` and its loop, then `Api`, `Render`, `Status`, `Cluster` and
`Reconciler`, with the type invariants, the status theorem and the gate
theorems; then lost claims, `ModelService` and the refinement, `Manager`, and
`PodStartup` with its theorems; then the theorems about teardown, conditions,
edits, windows, convergence and the direction of scaling, and the gated half of
the refinement; then the manager with two passes at a time, and capacity with
the whole refinement for a fixed size.

Next, in order of importance:

1. Pods that become unready in `Cluster`, and `CapacityKept` relative to what
   was ready.
2. Capacity for sizes that change, with the proportional scaling of the
   Deployment controller in place of `ScalePaused`'s open choice.
3. Versions instead of values in the caches of Jobs and Deployment, which would
   make the premise of `PairConverges` unnecessary.
