# A TLA+ development of Odigos

Odigos instruments the workloads of a Kubernetes cluster without code changes.
This directory models the parts of it that keep state and run concurrently, from
the Source a user writes to the configuration of the collectors, checks them with
TLC and proves theorems about them with TLAPS. The source is the
reference for every definition; `PROJECT.json` maps each definition to its lines.

## The system

A user marks workloads with `Source` objects. From there:

1. the **sourceinstrumentation** controllers of the instrumentor create one
   `InstrumentationConfig` per workload that is to be instrumented;
2. **odiglet**, on every node, inspects the running processes and writes the
   runtime details (language, version) into its status;
3. the **agentenabled** controllers choose an agent for every container, write
   the spec with a hash of these agents, and **restart** the workload so that the
   **pods webhook** injects or removes them; a limiter bounds how many workloads
   restart at once, and a crashing workload is **rolled back**;
4. on the node the **instrumentation manager** of odiglet loads eBPF
   instrumentations into processes and keeps them configured; agents that run in
   the process talk to the **opamp server** instead;
5. telemetry flows through the node and the cluster **collectors** (gateway), which
   the instrumentor describes in two CollectorsGroups and the autoscaler configures,
   to the destinations; the frontend keeps recent profiles in its **profile cache**.

All components communicate through objects in the Kubernetes API: each reads a
cached copy, computes, and writes back, and a write is refused if the copy was
out of date. A refused write or a returned error queues the object again. Within
the instrumentor all controllers share one process and one limiter.

### Inventory

| component | state | operations | what is hard | what makes it correct |
|---|---|---|---|---|
| instrumentation manager (`instrumentation/manager.go`) | three maps of tracked processes, loaded instrumentations, goroutines of `Run`, metrics | exec and exit events; instrument, un-instrument and retry requests; configuration updates; shutdown | retries over partial failures, goroutines beside the loop, pids used again, a cleanup with a deadline | what is attached is what is tracked; the indexes agree; every exit is cleaned up |
| odiglet binding (`odiglet/pkg/ebpf`, `kube/instrumentation_ebpf`) | `InstrumentationInstance` records, two bounded channels | reports, requests, configuration updates | API calls fail; channels are full | records tell the truth; configuration arrives in the end |
| agentenabled (`instrumentor/controllers/agentenabled`) | `InstrumentationConfig` spec and conditions | six reconcilers that all run the same three steps | API calls between the steps; conflicts; two controllers on one workload | no write undoes a decision of another |
| rollout (`agentenabled/rollout`) | saved hash, rollback latch, recovery annotations | restart, wait, roll back, recover, un-instrument | every step may fail or be repeated; pods are created meanwhile | a workload runs the agents of its hash in the end and stays rolled back |
| concurrency limiter | the set of workloads in flight | acquire, release | released only by a later reconcile; in memory only | never more than the limit, and no slot is lost |
| pods webhook | none | label and mutate a pod at creation | reads the `InstrumentationConfig` of that moment | pods match the spec |
| sourceinstrumentation (`controllers/sourceinstrumentation`) | `InstrumentationConfig` objects, finalizers of Sources | create, update, delete from Sources; four controllers | Source precedence, a lagging cache, workloads deleted and created again | exactly the marked workloads have one; deleted Sources go |
| runtime detection (`odiglet/pkg/kube/runtime_details`) | runtime details | inspect pods | several odiglets write one object | details are of running pods |
| opamp server (`opampserver/pkg`) | cache of connections, update channel, `InstrumentationInstance` records | messages, configuration push, expiry, shutdown | requests that overlap; configuration read before the connection is cached; a full or closed channel | an agent ends up with its configuration; dead instances go |
| collectors groups, autoscaler (`clustercollectorsgroup`, `nodecollectorsgroup`, `autoscaler/controllers`) | two groups, two ConfigMaps, a delayed call | reconcile, render, announce signals | many controllers on one object, reads from caches, a call that runs later | no node collectors before the gateway; agents send what is received |
| profile cache (`common/profilecache`, `frontend`) | slots with bounded buffers, limits, ingest gate | add, read, sweep, reconfigure | limits that change under load and arrive twice | memory stays within the limits; edits are not lost |
| odigosconfiguration (`instrumentor/controllers`) | effective configuration | merge, apply | two controllers, neither of which looks before it writes | the last edit wins |
| collector components | bounded stores, sampling decisions | process telemetry | limits, expiry | decisions follow the rules |
| frontend, cli, operator, helm, status | - | I/O | - | - |

`PROJECT.json` lists the components with the reason for each that is left out and
the hazards with the line at which each bites.

### Plan

Done: `InstrumentationManager`, `Rollout` (with the abstract `RolloutLimiter` it
implements), `SourceInstrumentation`, `OpampServer`, `ProfileCache` with the
controllers of the effective configuration, `Collectors`.

Every safety property that a run checks is also a theorem (see Proofs), except
`FinishedRunsTheHash`; the rest of the plan, in this order:

1. `FinishedRunsTheHash` as a theorem; `RecordsCorrect` of the manager with calls that
   fail and a weaker conclusion.
2. An abstract specification of the rollback with its recovery, which `RollbackIsKept`
   and `RecoveryHappens` (stated, and refuted, see below) would follow from.
3. Runtime detection: several odiglets that write the details of one object.
4. The service graph store (bounded, with expiry) and the combined decision of the
   tail sampling processor against a reference definition.

## InstrumentationManager

One handler of `runEventLoop` is one action, since only the loop touches the
maps: `HandleExecEvent`, `HandleExitEvent`, `HandleInstrumentRequest`,
`HandleRetryRequest`, `HandleUnInstrumentRequest`, `HandleConfigUpdate`. They are
built from `TryInstrument` (tryInstrument with loadGenericInstrumentations and
startTrackInstrumentation) and `CleanInstrumentation`. `StopEventLoop` and the
`Shutdown...` actions are the deferred cleanup with its timeout, one process at a
time, while the rest of the system goes on. Beside the loop run the goroutines of
`Run` (`RunReturns`), processes and the detector (`Spawn`, `ReExec`, `Exit`,
external) and the reconciler and odiglet that fill the channels (`Send...`).

- `attached[p][k]` counts loads minus closes: a double load or close shows.
- `detailsByPid`, `detailsByConfigGroup`, `detailsByProcessGroup` are the maps;
  the latter two hold copies of the details, as pointers in the code.
- `instances` are the `InstrumentationInstance` records of the reporter, whose
  writes may be lost (`ApiMayFail`); `instConfig` is what an instrumentation was
  last given; `staleConfig` marks a refused configuration.
- The outcome of factories, `Load` and reports is a free choice (`Outcomes`).
- `moved` and `unseen` are history: pids that were tracked again in another group or
  pod while an entry of the old one remains, and processes whose exit the detector does
  not report. Each is a disagreement below; the properties are stated for all others,
  and the runs have both.

## Rollout

One reconcile of `reconcileWorkload` is three steps with API calls between them:
`StartReconcile` (read configuration and object, compute the spec, `Update`), one
of the ways through `rollout.Do`, and `WriteStatus`. Each controller has its own
`busy` entry with its copy of the object; `stale` is set when another writer
changes it, and a write of a stale copy is refused. `IcController` reconciles one
workload, the others list all of them (`Requeued`). The ways through `Do` are
actions of their own: `DoWithoutWorkload`, `RecoverFromRollback`,
`RolloutNotNeeded`, `WaitBeforeRollback`, `TriggerRollback`, `AwaitRollout`,
`RolloutFinished`, `PreviousRolloutOngoing`, `WaitInQueue`, `RestartForHash`; and
`UnInstrument`, `NothingToUnInstrument` when the object is gone.

- The agents of a workload are abstracted to their hash; `desired[w]` is what
  runtime details, rules and configuration call for.
- A workload is the pods of the last finished rollout and of the present one,
  each by the hash label the webhook gave it (`PodLabel`), and whether they back
  off. `stamp` is the time in its restart annotation, and `time` that at which the hash
  changed. A restart patches the time of the reconcile's own copy, so that the same one
  twice changes nothing, one from an older copy restarts the pods once more, and one
  for a second hash of the same second does not (`"second"` in `Env`). Only times that
  some object still holds are told apart.
- `slot` says of a rollout whether it started on a slot of the limiter and still has it
  (`"held"`), has lost it before its end (`"early"`) or never had one.
- The informer cache may still hold the workload from before a restart (`seen`).
- Grace time and stability window are a free choice (`RollbackDecisions`).
- The recovery annotations are abstracted to how they compare.
- `Env` selects the environment's events of a run, `MaxEvents` bounds them;
  `Failing` and `MaxFailures` do the same for API calls. `hist` is history: whether the
  last reconcile that could release the slot ended without a requeue (`dropped`),
  whether the present hash was given no restart of its own (`missed`).

`RolloutLimiter` is what the limiter promises: at most `Limit` slots are held, a rollout
starts on one, and a slot is free as soon as it is given back, which leaves a rollout
that goes on without it (`early`). `Rollout` implements it (`ImplementsLimiter`) with the
in-flight set as `held`: every step of every controller, with or without the limiter, of
the webhook and of Kubernetes is an admission (`Admit`), a release of a slot and nothing
else (`Release`), the end of a rollout (`Finish`), a rollback or un-instrumentation that
takes its place (`TakeOver`), a restart of the instrumentor with an empty limiter
(`Restart`) or a stutter. So the bound is one on rollouts that still have their slot;
the ways to lose it early are named in `RolloutsWithinLimit`.

Left out: static pods, jobs and cronjobs, which only get a condition
(rollout.go:64-85); a webhook that fails or reads an outdated cache; the
WorkloadRollout condition set for pods in backoff (sync.go:166), which the
following `Update` overwrites with the server's copy; a `kubectl rollout restart`
by the user, which overwrites the restart annotation; a configuration read once
for a whole `reconcileAll` (here once per workload).

## SourceInstrumentation

Users write Sources for a workload, a pattern of names or a namespace
(`WriteSource`, with the webhook's uniqueness check as guard: it allows patterns that
overlap, and since it reads a cached list, two equal Sources may pass it at once,
`"race"` in `Env`). The same webhook sees the removal of a finalizer and may refuse it.
The four controllers
reconcile the objects in `queue`, one each at a time. A reconcile lists workloads
(`todo`); for each, `syncWorkload` is two steps, `SyncWorkloadReads`, which decides,
and one that deletes, creates or updates the object; `FinishReconcile` removes the
finalizer of a terminating Source. The InstrumentationConfig is read from `cached`,
which lags behind `ic`; Sources and workloads are read at once. `missed` are
creations and deletions not yet delivered: the only ones the controller of
InstrumentationConfigs wants to know of.

Static pods (`StaticPods`) are synced with their Source or namespace, but no controller
watches for their creation; `overlooked` are those that came later. The run has none:
`SyncCorrect` is about them too.

Service name, overrides and recovery request are one value, `settings`; kinds of
workloads that are ignored, and migrations of old labels, are left out.

## OpampServer

A request is a goroutine (`handler[h]`) whose steps end where the code takes the
cache's lock, calls the API or sends on the channel: `GetConnection`,
`OnNewConnection`, `CacheConnection`, `Enqueue`, `FinishRequest`. Beside them run
the ticker (`CleanupStaleConnections`, `SendDeletion`, then `CloseChannel` and
`ShutdownServer`), the worker (`ProcessInstrumentationUpdates`) and the reconciler
(`Reconcile`, in the random order of a Go map). Agents are external: they start, send
messages with or without a description and health, and die; replies may be lost.

- A configuration is its hash; `LastMessageTime` is unset, recent or stale.
- `hist` records the kinds of mishap after which a property no longer holds, each of
  which is a disagreement below; properties are stated for all other behaviours.

## ProfileCache

One action is one critical section of the store or of a buffer. `consumer` is a
goroutine in the middle of a batch, which may hold a buffer that has left the store;
`sweep` is a sweep between the computation of its cutoff and its lock. Time is the
age of a slot up to `MaxAge`. The way of the settings is modelled to its end:
resolver -> remote configuration -> controllers that merge (`MergeConfigs`) and apply
(`PersistEffectiveConfig`) -> informer events -> watcher -> `Reconfigure`, beside the
direct `ApplyLimits` of the resolver. An edit writes every limit it supplies, 0 and
negative ones included; a merge takes for each limit the local value before the remote
before the helm-managed one, skips a remote configuration that cannot be read, and may
end with an error that is not retried (`"refused"`). A chunk is its size. `hist` records
what may keep a limit out of force: another edit got in between the two steps of one, or
a limit was taken back (`contested`), a controller is about to write an outdated merge
(`behind`), or has (`astray`).

## Collectors

A controller reads everything it needs in one step and writes in the following ones.
Both packages of the instrumentor apply specs of groups, both of the autoscaler write
a ConfigMap and announce in a group's status which signals it takes; `timer` is the
delayed call of the DelayManager, which reads the ConfigMap from the cache when it
fires. The `On...` sets are the watches with their predicates. A ConfigMap is the set
of signals with a pipeline for agents; that of the gateway may be missing, and is then
created. A destination has demands (`DestDemands`): traces, metrics, and the settings by
which metrics are made from spans or collected by agents. Logs are left out of the
signals, since they pass through as traces do, and so are profiles and insights. The
cluster group exists from the start: the instrumentor applies it when it starts and
never deletes it, so that the early return for a missing one (sync.go:31) lies before
`Init`. Objects are read at once except for those whose staleness can be seen: both
ConfigMaps, and whether the node group exists. Controllers that repeat
a reconcile on events of objects not modelled are left out.

## Runs

| run | bounds | shows |
|---|---|---|
| `mgr_safety` | 2 processes of 2 workloads, one pid used in both, 4 programs, 2 spawns, 2 requests | attached, indexes, metrics, records, clean shutdown, un-instrumentation of the right group |
| `mgr_live` | 1 process, 1 program, 2 spawns, 1 request, 2 configuration changes, channel of 1, failing reports | types, configuration is fresh or on its way; cleanup, convergence and end of shutdown under fairness |
| `rollout_limit` | 2 workloads, limit 1, a controller with and one without the limiter, 2 events (rules, lagging informer, restart) | the limit and the refinement of `RolloutLimiter` |
| `rollout_environment` | 1 workload, 2 controllers, 2 hashes, 3 configurations, 2 events of 9 kinds, 2 failed calls | types, no slot forgotten and no hash missed but as named, the rollback latch |
| `rollout_live` | 2 workloads, limit 1, lagging informer, 1 event, 1 failed status write | every workload is rolled out in the end |
| `opamp_safety` | 2 agents of one process, 2 requests at once, channel of 1, 2 faults | one connection per process, records follow connections |
| `opamp_live` | 1 agent, 2 requests at once, 1 change of configuration, 1 fault | types, configuration is fresh or on its way; agents are served under fairness |
| `opamp_two_namespaces` | 2 agents in pods of one name in 2 namespaces, no fault | **violated**: agents that expel each other are not served |
| `sources` | 1 workload with 4 Sources of all kinds, 2 of them overlapping patterns, 3 events | types, what is out of sync is pending; in sync in the end, deleted Sources go unless blocked |
| `profile_cache` | 2 sources, chunks of 1 or 2 bytes, slots 2 -> 1 -> 2, 2 events | types, memory bound, byte count, slots kept while requested |
| `profile_live` | 1 source, 2 settings pages, 2 merging controllers, 2 events of 7 kinds | settings are pending; idle slots are swept, limits end up in force |
| `collectors` | 6 controllers, 1 change and 1 fault that overlap | types, node group after the gateway, out of sync is pending, node collectors follow the gateway |

Why these bounds are enough: an event loop and per-pid maps interact through at
most two processes and one request between an event and its handling, and a pid that
is used again needs two spawns; a slot is
contended by two workloads; a race of reconciles needs two controllers; every
hazard of the rollout takes at most two events of the environment beside failing
calls. Two requests at
once are the most that touch one connection differently. Processes of one pod only
meet at the limit of objects per pod, which two processes reach: `opamp_safety` also
holds with `Identities <- MCOnePod` and one fault, an instance too large to keep.
Sources interact only
through the workloads they share, so one workload with one Source of each kind and a
second pattern, plus creation, deletion and a failure, reaches every precedence.
Two slots of two bytes
are full, evicted from and shrunk. In `collectors` a change is followed through three
controllers while a fault happens anywhere on its way; the node group's controllers
for destinations and for the configuration are left out there, so the spec of a group
that exists does not change in it (`NodeSyncCorrect` covers that for any set of
controllers), and the one fault is below the three retries of the delayed call.
`NodeFollowsGateway` compares the node collectors with the signals that the gateway
group reports, which after a hand edit of its ConfigMap may not be those it takes.
Counters are bounded
in the guards of the environment only; the code's own actions are never cut off.
Deadlock is checked for the profile cache, which never rests; elsewhere, once the
bounded environment is exhausted and the work queues are empty, the system does.
Workloads are symmetric in `rollout_limit`, agents and goroutines in `opamp_safety`;
neither checks liveness. The runs reach between 28 thousand (`rollout_live`) and
2.1 million distinct states (`profile_cache`).

Fairness. The manager's loop is a `select` over its channels: Go picks a ready
case at random, so each kind of input is received in the end, and a reconcile that
returned an error is queued again. In `Rollout` a controller finishes what it has
started (weak fairness of `Do` and `WriteStatus`) and work queues are first in,
first out, so that an item that is queued again and again is served: strong
fairness of starting a reconcile, as for Sources, whose controller may serve others
in between. Kubernetes replaces healthy pods, collects garbage, and informers
deliver. The opamp server serves every request it has accepted, and an agent is a
loop that sends: strong fairness of `Heartbeat`, since the finitely many goroutines of
the model are not a limit of the server. Its ticker need not expire connections. A
stopped odiglet is started again. The sweeper's ticker fires, time passes. Nothing is
assumed of users, crashes, silences, pods in backoff, lost replies or failing calls.

### Known disagreements

The violated run shows the code breaking what a comment in the repository says;
`PROJECT.json` quotes it. The modules show more of the same kind, for which no run is
kept (constants as in the runs unless given).

Instrumentation manager:

- A process that fails to load through an instrumentation request, or has exited by the
  time the request is handled, is tracked by the manager and not followed by the
  detector, so its exit is not reported (manager.go:338;
  manager.go:630 says "we need to notify the reporter once that PID exits"):
  `ExitedProcessIsCleaned` without `unseen`.
- The goroutine of `Run` reports after the exit was handled and creates the record
  again (manager.go:644): `ExitedProcessLosesRecord` under `FairSpec`.
- A pid that changes its process group stays in the old index (manager.go:710), so that
  requests and updates for the old group reach it and its record in the old pod stays:
  `IndexesAgree`, `UnInstrumentsOwnGroup`, `ConfigIsFreshOrPending` and
  `RecordsMatchTracked` without `moved`.

Rollout:

- The reconciler of instrumentation rules is set up without a limiter (agentenabled
  manager.go:65), and restarts a workload while another holds the only slot, although
  "`maxConcurrentRollouts` setting limits how many workloads Odigos rolls out at once"
  (status/instrumentationconfig/podsmanifestinjection.yaml:167). Such rollouts have no
  slot and `RolloutsWithinLimit` does not count them; counted, two workloads exceed it.
- With rollback disabled a workload that is still rolling is not queued again and
  keeps its slot (rollout.go:215); so does one whose rollback met a conflict, which
  drops the requeue (rollout.go:578), and one deleted while rolling (rollout.go:61):
  `SlotHolderIsReconciled` without `dropped`, `SlotOfDeletedIsReleased` under `FairSpec`
  with `Env = {"workload"}`.
- The hash changes and comes back while the workload is rolling: equal hashes are taken
  for a finished rollout (rollout.go:207; line 201 says "at this point, we know that
  rollout happened"). A failed restart (a paused deployment) is recorded as done
  (rollout.go:286-291). Two changes of the hash within a second have the same restart
  time, and the second patch changes nothing. `FinishedRunsTheHash` without `missed`.
- A reconcile with an outdated copy patches the older time of its hash
  (rollout.go:279-286) and so restarts a workload again that was restarted for the
  newer one. Its status write is refused, and the next reconcile finds the hash.
- The processed annotation of a recovery is written before the latch is cleared, and
  the request is lost if that second write fails (rollout.go:147): `RecoveryHappens`
  under `FairSpec` with one failed status write.
- Between spec and status write of a rollback another controller gives the workload
  its agents back (rollout.go:582): `RollbackIsKept` with two controllers.
- A recovery requested before a rollback undoes it (rollout.go:538):
  `RollbackIsKept` with `Env = {"backoff", "recover"}`, one controller.
- A slot is released while the rollout goes on: by a cached workload from before its
  restart (rollout.go:178), because no rollout is needed any more (rollout.go:158, 168),
  or by a restart of the instrumentor, which empties the limiter. Such rollouts are
  `"early"`; counted, they exceed the limit in `rollout_limit`.

Sources:

- The status update of an InstrumentationConfig that was created again after an
  accidental deletion fails: the next reconcile finds the object and only checks it,
  so it never gets its conditions (instrumentationconfig_controller.go:43-50,
  common.go:377): `MarkedInTheEnd`.
- The webhook allows overlapping patterns (sources_webhooks.go:337, "If both use regex,
  we allow them"), but source_types.go:132 says of `GetSources` "this should only ever
  return at most 1 Namespace and/or 1 Workload Source": with two it fails, and neither
  Source can be deleted. Two equal Sources that pass the webhook at once block each other
  too, there and because the webhook refuses the removal of a finalizer:
  `DeletedSourceGoes` without `Stuck`.
- A static pod created after its Source is not synced until the Source, its namespace or
  the instrumentor changes: `OutOfSyncIsPending` without `overlooked`.
- The data stream labels of a terminating Source are still merged (source.go:80), and a
  sync that has read older Sources may write its settings after a newer one.

OpAMP server:

- A change of the configuration between `OnNewConnection` and `AddConnection`
  (server.go:84) reaches no connection, and an update gives up at the first container
  without a configuration (conncache.go:127): `ConfigIsFreshOrPending` without its
  exception.
- A connection has no `LastMessageTime` until its first message is finished; a tick in
  between expires it. A full channel drops the deletion of a dead instance
  (server.go:207). A last message without health, or a status "no connection" that was
  never cleared (server.go:279), leaves the object. `RecordsFollowConnections` without
  its exception.
- server.go:175 says "a single server.Shutdown drains both", but the context it gets is
  cancelled already, so it returns at once: `ShutdownDrains`. A handler that is still
  running sends on the closed channel and panics (server.go:195), and the worker's
  calls fail.

Profile cache and configuration:

- A batch that has passed the gate, or a poll that opens a slot after the clearing,
  leaves profiles in a disabled cache: `DisabledHoldsNothing`.
- An editor applies its limits after another has persisted newer ones
  (profiling.resolvers.go:119), and a limit that is set to 0 before it was merged stays
  in force, since neither the page nor the watcher takes 0 for a limit:
  `SettingsArePending` and `LimitsArePersisted` without `contested`.
- The two merging controllers do not look before they write, so that an older merge can
  be applied last (odigosconfiguration_controller.go:442); a remote configuration that
  cannot be read is left out without a retry (66-68), and settings that are refused end
  in a terminal error (134-137): without `astray`. A deleted effective configuration is
  not created again until something else changes.
- A TTL that is raised while a sweep waits for the lock is not seen by that sweep
  (store.go:277). Polling more sources than `maxSlots` makes them evict each other.

Collectors (all under `FairSpec`):

- A hand-edited gateway ConfigMap stays: it has no generation, so its predicate drops
  updates, contrary to clustercollector/manager.go:22 ("in case the configmap is
  deleted or modified for any reason, this will reconcile and recreate it");
  two changes of destinations while the cache lags leave the older one, since the
  cached copy says that nothing is to be written (configmap.go:350):
  `GatewayFollowsDestinations`.
- A stale "no workloads" of one controller deletes the node group another has applied:
  `AppsGetNodeCollectors` with `Controllers = {"nodegroup-clustergroup",
  "nodegroup-ics", "nodegroup-destinations"}` and `MaxChanges = 2`. A lookup in the cache
  skips the deletion of a group that was just created (collectorgroup_util.go:51).
- The deletion of the node ConfigMap is not reconciled (nodecollector/manager.go:57),
  although the comment at line 53 says "modified or deleted, this will reconcile it".
- A delayed call that fails three times in a row is given up and leaves the group ready
  without its signals (daemonset.go:64): `NodeFollowsGateway` with `MaxFaults = 3`.

## Proofs

One proof module per component (`...Proofs`) extends the component's module; the
slots of the rollout have one of their own. All theorems hold for every set of
processes, workloads, controllers, keys, messages and configurations and every bound,
under the named ASSUMEs of the modules: types of the constants, `nil` outside the sets
it is added to, finitely many pids, the controllers a module names are there, a
namespace Source matches every workload. Where a theorem has a hypothesis of its own,
it is what the code needs: without it the property is false, and the reason is given
here or under the disagreements.

`InstrumentationManagerProofs`:

- `TypeCorrect`: `Spec => []TypeOK`. `TypeOK` is inductive; one lemma per building
  block (`TryInstrumentType`, `CleanInstrumentationType`) serves all handlers.
- `AttachedCorrect`: `Spec => []AttachedMatchesTracked`. Inductive relative to
  `TypeOK`. The two lemmas `TryInstrumentAttaches` and
  `CleanInstrumentationDetaches` say that an attempt loads exactly what it adds to
  the tracked details, and a cleanup closes exactly what they held.
- `IndexesCorrect`: `Spec => []IndexesAgree`, for every use of pids; inductive relative
  to `TypeOK` because `moved` is part of it: whatever the maps held of a pid, the entries
  of its present groups are its present details, and an entry elsewhere is one that a
  tracking in another group left.
- `UnInstrumentCorrect`: `Spec => UnInstrumentsOwnGroup`, an action property, from
  `IndexesAgree`.
- `ShutdownCorrect`: `Spec => []CleanShutdownClosesAll`. `ShutdownInv` adds that
  during the cleanup the processes it has visited have nothing attached, and the others
  what is tracked.
- `MetricsCorrect`: `Spec => []MetricsMatchTracked`. `MetricsInv` adds that a process
  that is not tracked has its failure counter reset, without which the process that
  uses the pid next would be counted wrongly.
- `RecordsCorrect`: `Spec => []RecordsMatchTracked` if no report is lost (`~ApiMayFail`): a
  lost deletion leaves a record behind.
- `ConfigCorrect`: `Spec => []ConfigIsFreshOrPending`, for every use of pids.
  `QueueInv` adds that the last update in the channel for a container is the present
  one unless another is owed, so that the update that leaves none behind brings it.

`RolloutProofs`:

- `RolloutTypeCorrect`: `Spec => []TypeOK`, which is inductive. `ContinueType` and
  `EndDoType` serve all the ways through `rollout.Do`.
- `LatchCorrect`: `Spec => RollbackLatchHolds`, an action property. It rests on
  `LatchInv`: the latch excludes injection in the API server and in every copy that
  could still be written back, and such a copy agrees with the API server on
  injection and on the recovery request. The one difference allowed is a recovery
  whose second write failed; its copy has the latch cleared and the recovery
  already recorded as processed. `ContinueLatch` is the optimistic concurrency
  argument: a write makes every other copy of the object stale. `LatchInv` was checked
  with TLC on the instance of `rollout_environment` before it was proved.

`RolloutLimiterProofs` has the lemma `LimitCorrect`: the abstract limiter keeps
the rollouts that have their slot within `Limit`, which is not inductive alone;
`RollingHoldSlots`, that each of them holds one of the bounded slots, is. It is no result
by itself, and reaches the code through `LimiterCorrect`.

`RolloutSlotProofs`, in every environment, for every configuration and whichever
controllers have the limiter:

- `SlotCorrect`: `Spec => []SlotHolderIsReconciled`. `Attended` is the inductive form: the
  holder of a slot is queued for a controller that can release it, or one of them is
  reconciling it and will queue it again, release it or end on one of the paths that
  `dropped` records; nothing else clears `dropped` but the start of another reconcile.
- `LimiterCorrect`: `Spec => ImplementsLimiter`, the refinement of `RolloutLimiter`.
  `LimiterInv` says that only a workload that is rolling has a slot of a rollout, so that
  the next one starts afresh, and that finitely many hold one. Each way through `rollout.Do` is shown to be
  one step of the limiter, a restart of the instrumentor is `Restart`.
- `LimitKept`: `Spec => []RolloutsWithinLimit`, from the refinement and `LimitCorrect`.

`OpampServerProofs`:

- `TypeCorrect`: `Spec => []TypeOK`.
- `OneConnectionCorrect`: `Spec => []OneConnectionPerProcess`, inductive relative to
  `TypeOK`: `CacheConnection` removes the others of its process in the same critical
  section.
- `ConfigCorrect`: `Spec => []ConfigIsFreshOrPending`. The inductive form also speaks of
  the connections that requests are about to cache (`NewConnectionsFresh`).
- `RecordsCorrect`: `Spec => []RecordsFollowConnections` if pods of two namespaces do not
  share a name (`PodNamesUnique`; `RemoveMatchingConnections` compares pod names only, see
  `opamp_two_namespaces`). `Orderly` relates connections, requests under way, tasks in
  the channel and objects. What a channel full of tasks leaves of an object is what the
  last task for it leaves (`Outcome`), so that no induction over the channel is needed.

`SourceInstrumentationProofs`:

- `TypeCorrect`: `Spec => []TypeOK`.
- `SyncCorrect`: `Spec => []OutOfSyncIsPending`. `SyncInv` separates missing objects from
  those that are one too many, since a decision to delete that was taken before the
  Sources changed does not help against the former; it adds that the informer has still
  to see what it does not know, and that a Source stays until its controller is done.
  Overlapping patterns, Sources that race past the webhook and static pods are included.

`CollectorsProofs`:

- `TypeCorrect`: `Spec => []TypeOK`.
- `NodeGroupCorrect`: `Spec => []NodeGroupWaitsForGateway`; inductive with the plans of
  controllers that are about to create the group (`GatewayFirst`).
- `NodeSyncCorrect`: `Spec => []NodeOutOfSyncIsPending` if the delayed call does not use up
  its retries (`CallsSucceed`). `NodeCatchesUp` has a clause for each stage between the
  gateway's signals and the group's status: done, or some work that does it is under way.

`ProfileCacheProofs`:

- `BytesCorrect`: `Spec => []BytesAreCounted`, and `TypeCorrect`: `Spec => []TypeOK`, both from
  `CacheInv`: slots are counted, within their own budget, and that budget is the one in
  force; a consumer that holds a live slot holds that of its key; every TTL in any
  configuration is one the settings page asks for. `trimLocked` drops the oldest chunks,
  so this needs what a sum over a sequence is for a prefix and the rest (`SumFacts`).
  The fold is recursive; its facts are proved by induction on the length, in the form of
  the least counterexample (`LeastNat`, `UpTo`), for which the library's theorem on
  well-founded relations that takes a set and no operator suffices.
- `BudgetCorrect`: `Spec => []WithinBudget` for finitely many sources. `EnsureSlot` evicts
  one slot at most, so that the number of slots is only bounded because `Reconfigure`
  evicts down to a smaller limit in the same critical section.
- `KeptCorrect`: `Spec => KeptWhileRequested`, an action property, for finitely many sources
  if no configuration has another TTL than one, not longer than the default (`OneTTL`), so
  that the TTL never rises while the UI runs: a sweep has computed its cutoff before it
  has the lock. `SweepInv` says that this cutoff is not below the TTL in force.
- `SettingsCorrect`: `Spec => []SettingsArePending`, for any number of editors and merging
  controllers. Inductive: the last version on the way to the watcher is the effective one
  (`Latest`), once the controller has nothing to look at, what is merged and what is
  effective are what the configurations ask for, or are astray (`Merged`), and each limit asked for is in force, contested
  or on its way through an editor, a merge, an event or the watcher (`Delivered`).

Only model-checked: the liveness properties (`ExitedProcessIsCleaned`,
`ConfigConverges`, `ShutdownEnds`, `RolledOutInTheEnd`, `AgentsAreServed`,
`InSyncInTheEnd`, `DeletedSourceGoes`, `IdleSlotIsSwept`, `LimitsArePersisted`,
`NodeFollowsGateway`), which rest on fairness and so on ENABLED, out of this prover's
reach; `FinishedRunsTheHash`; and safety where a hypothesis above fails but the bounded
instance of a run does not meet the bad case.

## Not modelled

More than half of the repository is generated (`frontend/graph/generated.go` alone is
123 thousand lines, beside models, protobufs and deep copies) or renders data:
GraphQL conversions, pipelines and manifests, conditions and their wording, language
detection on binaries, installation. It has no state of its own that steps of several
actors could disturb. Of the rest, runtime detection, the custom metrics handler, the
service graph store and tail sampling are candidates of the plan; forks of upstream
collector components, the device plugin, CLI, operator and UI are left aside.
`PROJECT.json` gives the reason for each component.
