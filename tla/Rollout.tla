------------------------------ MODULE Rollout ------------------------------
(***************************************************************************)
(* The agentenabled controllers of the instrumentor                        *)
(* (instrumentor/controllers/agentenabled): they keep the                  *)
(* InstrumentationConfig of every workload up to date, restart workloads   *)
(* so that the pods webhook can inject or remove the agents, limit how     *)
(* many restart at once, and roll a workload back when its instrumented    *)
(* pods crash.                                                             *)
(*                                                                         *)
(* Several controllers reconcile the same workload.  One reconcile is      *)
(* three steps with API calls between them: write the spec, run            *)
(* rollout.Do, write the status.  Each holds a copy of the                 *)
(* InstrumentationConfig whose write is refused when another writer came   *)
(* in between.                                                             *)
(***************************************************************************)
EXTENDS Integers, FiniteSets

CONSTANTS
    Workloads,
    Hashes, none,     \* agents meta hashes; none is ""
    Desires,          \* what the containers of a workload may call for
    Controllers,      \* the reconcilers
    IcController,     \* the one that reconciles a single workload
    NoLimiter,        \* the reconcilers set up without a limiter
    Confs,            \* effective configurations, the first being ...
    InitialConf,
    MaxLimit,         \* the largest limit any of them sets
    nil,
    Env,              \* which kinds of environment events happen
    MaxEvents,        \* bound on their number
    Failing,          \* which API calls may fail
    MaxFailures       \* bound on the failures

ASSUME RolloutAssumption ==
    /\ IcController \in Controllers
    /\ NoLimiter \subseteq Controllers
    /\ none \notin Hashes
    /\ Desires \subseteq [ready : BOOLEAN, hash : Hashes \cup {none}, optional : BOOLEAN]
    /\ InitialConf \in Confs
    /\ Confs \subseteq [automaticRolloutDisabled : BOOLEAN, rollbackDisabled : BOOLEAN,
                        maxConcurrentRollouts : Nat]
    /\ MaxLimit \in Nat
    /\ \A c \in Confs : c.maxConcurrentRollouts <= MaxLimit
    /\ MaxEvents \in Nat /\ MaxFailures \in Nat

VARIABLES
    ic,        \* ic[w]: the InstrumentationConfig in the API server, or nil
    wl,        \* wl[w]: the workload object and its pods, or nil
    inFlightRollouts,   \* the limiter's set
    queue,     \* <<controller, workload>> to be reconciled
    busy,      \* busy[r]: the reconcile r is in the middle of, or nil
    conf,      \* the effective configuration
    desired,   \* desired[w]: what the present runtime details and rules call for
    source,    \* source[w]: "none", "enabled", or "recover" (with a recovery request)
    orphaned,  \* workloads whose InstrumentationConfig is owned by a deleted object
    hist,      \* hist[w]: history of w, for the properties only
    used       \* environment events and API failures so far

vars == <<ic, wl, inFlightRollouts, queue, busy, conf, desired, source, orphaned, hist, used>>

-----------------------------------------------------------------------------
(* Types *)

\* The fields of InstrumentationConfig that the controllers read or write.
\* recovery compares the two recovery annotations: "requested" when they differ.
InstrumentationConfigs ==
    [hash : Hashes \cup {none},         \* Spec.AgentsMetaHash
     time : Nat,                        \* Spec.AgentsMetaHashChangedTime, 0 when unset
     injection : BOOLEAN,               \* Spec.AgentInjectionEnabled
     optional : BOOLEAN,                \* Spec.PodManifestInjectionOptional
     saved : Hashes \cup {none},        \* Status.WorkloadRolloutHash
     instrumentationTime : BOOLEAN,     \* whether Status.InstrumentationTime is set
     rollbackOccurred : BOOLEAN,
     recovery : {"none", "requested", "processed"},
     agentEnabled : {"Initial", "Enabled", "Disabled", "Backoff"},
     rollout : {"Initial", "NotRequired", "RolloutDisabled", "Finished", "Ongoing",
                "WaitingInQueue", "Triggered", "FailedToPatch"}]

\* A workload and its pods: those of the last finished rollout (old) and, while
\* rolling, those of the present one (new), each by its agents-meta-hash label.
\* Without pods of its own a rollout has new = nil.
WorkloadObjects ==
    [rolling : BOOLEAN,
     slot : {"none", "held", "early"},   \* whether its rollout has a slot of the
                          \* limiter, or had one that was given back before its end
     stamp : Nat,         \* restartedAt, 0 for a time that is of no hash
     seen : BOOLEAN,      \* the informer cache holds the last restart
     paused : BOOLEAN,
     old : Hashes \cup {none},
     new : Hashes \cup {none, nil},
     backoff : SUBSET {"old", "new"}]

Reconciles ==
    [w : Workloads, conf : Confs, ic : InstrumentationConfigs, stale : BOOLEAN, changed : BOOLEAN,
     requeue : BOOLEAN, step : {"do", "status"}]

\* What the properties remember of a workload:
Histories ==
    [rolledBack : BOOLEAN,   \* rolled back, and no recovery requested since
     dropped : BOOLEAN,      \* the last reconcile ended without a requeue on one of the
                             \* paths that keep the slot
     missed : BOOLEAN]       \* the present hash was given no restart of its own

\* An object that is missing is none of the objects, and no controller.
ASSUME NilAssumption ==
    /\ nil \notin InstrumentationConfigs \cup WorkloadObjects
    /\ nil \notin Reconciles
    /\ nil \notin Controllers

\* Every variable has its type, and no reconcile works on the copy of an
\* InstrumentationConfig that was never read.
TypeOK ==
    /\ ic \in [Workloads -> InstrumentationConfigs \cup {nil}]
    /\ wl \in [Workloads -> WorkloadObjects \cup {nil}]
    /\ inFlightRollouts \subseteq Workloads
    /\ queue \subseteq Controllers \X Workloads
    /\ busy \in [Controllers -> Reconciles \cup {nil}]
    /\ conf \in Confs
    /\ desired \in [Workloads -> Desires]
    /\ source \in [Workloads -> {"none", "enabled", "recover"}]
    /\ orphaned \subseteq Workloads
    /\ hist \in [Workloads -> Histories]
    /\ used \in [{"events", "failures"} -> Nat]

-----------------------------------------------------------------------------
(* Initial state: every workload runs without agents, and those with a Source *)
(* have a new InstrumentationConfig                                           *)

NewInstrumentationConfig(w) ==
    [hash |-> none, time |-> 0, injection |-> FALSE, optional |-> FALSE, saved |-> none,
     instrumentationTime |-> FALSE, rollbackOccurred |-> FALSE,
     recovery |-> IF source[w] = "recover" THEN "requested" ELSE "none",
     agentEnabled |-> "Initial", rollout |-> "Initial"]

NewWorkload(label) ==
    [rolling |-> FALSE, slot |-> "none", stamp |-> 0, seen |-> TRUE,
     paused |-> FALSE, old |-> label, new |-> nil, backoff |-> {}]

Init ==
    /\ desired \in [Workloads -> Desires]
    /\ source = [w \in Workloads |-> "enabled"]
    /\ ic = [w \in Workloads |-> NewInstrumentationConfig(w)]
    /\ wl = [w \in Workloads |-> NewWorkload(none)]
    /\ inFlightRollouts = {}
    /\ queue = {IcController} \X Workloads
    /\ busy = [r \in Controllers |-> nil]
    /\ conf = InitialConf
    /\ orphaned = {}
    /\ hist = [w \in Workloads |-> [rolledBack |-> FALSE, dropped |-> FALSE, missed |-> FALSE]]
    /\ used = [b \in {"events", "failures"} |-> 0]

-----------------------------------------------------------------------------
(* The limiter *)

\* Mutant: an off-by-one at the limit.
TryAcquireAtLimit(r, w) ==
    \/ r \in NoLimiter
    \/ busy[r].conf.maxConcurrentRollouts = 0
    \/ w \in inFlightRollouts
    \/ Cardinality(inFlightRollouts) <= busy[r].conf.maxConcurrentRollouts

\* RolloutConcurrencyLimiter.TryAcquire; a nil limiter and the limit 0 let
\* everything through.
TryAcquire(r, w) ==
    \/ r \in NoLimiter
    \/ busy[r].conf.maxConcurrentRollouts = 0
    \/ w \in inFlightRollouts
    \/ Cardinality(inFlightRollouts) < busy[r].conf.maxConcurrentRollouts

AcquireSlot(r, w) ==
    IF r \in NoLimiter \/ busy[r].conf.maxConcurrentRollouts = 0
    THEN inFlightRollouts ELSE inFlightRollouts \cup {w}

ReleaseWorkloadRolloutSlot(r, w) ==
    IF r \in NoLimiter THEN inFlightRollouts ELSE inFlightRollouts \ {w}

\* The workload x after r has given back its slot, which its rollout may still need.
GivenBack(r, x) ==
    IF r \notin NoLimiter /\ x.slot = "held" THEN [x EXCEPT !.slot = "early"] ELSE x

-----------------------------------------------------------------------------
(* The workload as rollout.Do sees and changes it *)

\* Mutant: done as soon as the new pods exist.
RolloutDoneOnceUpdated(x) == (~x.rolling \/ x.new # nil) /\ "old" \notin x.backoff

RolloutDone(x) == ~x.rolling /\ "old" \notin x.backoff

\* IsWorkloadRolloutDone on the object of the informer cache, which may be the
\* one from before the last restart.
IsWorkloadRolloutDone(x) == ~x.seen \/ RolloutDone(x)

WorkloadHasOdigosAgents(x) == x.old # none \/ x.new \notin {none, nil}

\* podBackOffDuration > 0: an instrumented pod is in backoff.
InstrumentedPodInBackoff(x) ==
    \/ "old" \in x.backoff /\ x.old # none
    \/ "new" \in x.backoff /\ x.new # none

WorkloadHasNonInstrumentedPodInBackoff(x) ==
    \/ "old" \in x.backoff /\ x.old = none
    \/ "new" \in x.backoff /\ x.new = none

\* The patch of rolloutRestartWorkload changed the pod template.
Restarted(x, slot, stamp, seen) ==
    [x EXCEPT !.rolling = TRUE, !.slot = slot, !.stamp = stamp,
              !.seen = seen, !.new = nil, !.backoff = @ \ {"new"}]

\* The next object in the cache after a restart: the informer may lag behind.
SeenAfterRestart(x) == {TRUE} \cup (IF "lag" \in Env THEN {~RolloutDone(x)} ELSE {})

\* Mutant: a workload that has the annotation is not restarted again.
PatchChangesTemplateOnce(x, c) == x.stamp = 0

\* Restarting at the AgentsMetaHashChangedTime of the reconcile's own copy c is
\* idempotent: the annotation of an earlier restart at this time is the same, and
\* the template does not change.  That of any other time, later ones too, does.
PatchChangesTemplate(x, c) == c.time = 0 \/ x.stamp # c.time

\* rolloutRestartWorkload returns an error.
RestartFails(x) == x.paused

\* shouldTriggerRollback: "wait" within the grace time, "rollback" after it, and
\* "no" also when the stability window is over.
RollbackDecisions(c, x) ==
    IF InstrumentedPodInBackoff(x) /\ c.instrumentationTime /\ c.injection
    THEN {"no", "wait", "rollback"} ELSE {"no"}

-----------------------------------------------------------------------------
(* Bookkeeping of a reconcile *)

\* A reconcile of one of the other controllers lists every InstrumentationConfig.
Requeued(r, w) == IF r = IcController THEN {<<r, w>>} ELSE {r} \X Workloads

\* r continues with v; copies of ic[w] held by others are stale once it is written.
Continue(r, w, v) ==
    busy' = [q \in Controllers |->
        IF q = r THEN v
        ELSE IF busy[q] # nil /\ busy[q].w = w /\ ic'[w] # ic[w]
             THEN [busy[q] EXCEPT !.stale = TRUE]
             ELSE busy[q]]

\* rollout.Do returns with the copy c; the status is written if it or the
\* AgentEnabled condition has changed.
EndDo(r, c, statusChanged, requeue) ==
    LET m == busy[r]
        write == statusChanged \/ m.changed
    IN  /\ Continue(r, m.w,
              IF write THEN [m EXCEPT !.step = "status", !.ic = c, !.requeue = requeue]
              ELSE nil)
        /\ queue' = queue \cup (IF requeue /\ ~write THEN Requeued(r, m.w) ELSE {})

\* SetStatusCondition for the WorkloadRollout condition, then return.
EndDoWithCondition(r, c, cond, requeue) ==
    EndDo(r, [c EXCEPT !.rollout = cond], c.rollout # cond, requeue)

\* For the properties: r's reconcile of w ends without a requeue and releases nothing.
Dropped(r, w) ==
    IF r \in NoLimiter THEN hist ELSE [hist EXCEPT ![w].dropped = TRUE]

Fail(call) ==
    /\ call \in Failing
    /\ used["failures"] < MaxFailures
    /\ used' = [used EXCEPT !["failures"] = @ + 1]

-----------------------------------------------------------------------------
(* reconcileWorkload, first step: compute and write the spec *)

\* The hash of the enabled containers: none without prerequisites, without a
\* container to instrument, or after a rollback.
WantedHash(w, c) ==
    IF desired[w].ready /\ ~c.rollbackOccurred THEN desired[w].hash ELSE none

\* The times that the objects of w, and copies of them, hold.
TimesInUse(w) ==
    (IF ic[w] # nil THEN {ic[w].time} ELSE {}) \cup (IF wl[w] # nil THEN {wl[w].stamp} ELSE {})
      \cup {busy[q].ic.time : q \in {p \in Controllers : busy[p] # nil /\ busy[p].w = w}}

\* The present time.  Times are only compared for equality, so that the first one
\* not in use will do; the API keeps seconds, and a second change may be in the
\* second of the first.
PresentTimes(w) ==
    {t \in 1 .. (Cardinality(Controllers) + 2) :
        t \notin TimesInUse(w) /\ 1 .. (t - 1) \subseteq TimesInUse(w)}
      \cup (IF "second" \in Env /\ ic[w].time # 0 THEN {ic[w].time} ELSE {})

\* updateInstrumentationConfigSpec at time t: the new spec.  It is left alone when
\* pods without agents are in backoff.
UpdatedSpec(w, c, t) ==
    IF wl[w] # nil /\ WorkloadHasNonInstrumentedPodInBackoff(wl[w]) THEN c
    ELSE LET h == WantedHash(w, c)
         IN  [c EXCEPT !.hash = h, !.time = IF h = c.hash THEN @ ELSE t,
                       !.injection = (h # none),
                       !.optional = IF desired[w].ready
                                    THEN h # none /\ desired[w].optional ELSE @]

AgentEnabledCondition(w, c) ==
    IF wl[w] # nil /\ WorkloadHasNonInstrumentedPodInBackoff(wl[w]) THEN "Backoff"
    ELSE IF WantedHash(w, c) # none THEN "Enabled"
    ELSE IF desired[w].ready /\ desired[w].hash # none THEN "Backoff"
    ELSE "Disabled"

\* For the properties: the new spec calls for agents that no restart will bring.
\* Either its hash is the one that is saved as rolled out, or has the old time.
Misses(w, spec) ==
    IF spec.hash = ic[w].hash /\ spec.injection = ic[w].injection THEN hist[w].missed
    ELSE spec.hash = ic[w].saved \/ spec.time = ic[w].time

\* Read the configuration and the InstrumentationConfig, compute its spec and
\* write it.  A reconcile whose Update is refused is queued again and has changed
\* nothing, so that it is no step here.
StartReconcile(r, w) ==
    /\ busy[r] = nil
    /\ <<r, w>> \in queue
    /\ ic[w] # nil
    /\ \E t \in PresentTimes(w) :
         LET spec == UpdatedSpec(w, ic[w], t)
             cond == AgentEnabledCondition(w, ic[w])
         IN  /\ ic' = [ic EXCEPT ![w] = spec]
             /\ Continue(r, w, [w |-> w, conf |-> conf, ic |-> [spec EXCEPT !.agentEnabled = cond],
                                stale |-> FALSE, changed |-> ic[w].agentEnabled # cond,
                                requeue |-> FALSE, step |-> "do"])
             /\ hist' = [hist EXCEPT ![w].dropped = @ /\ r \in NoLimiter,
                                     ![w].missed = Misses(w, spec)]
    /\ queue' = queue \ {<<r, w>>}
    /\ UNCHANGED <<wl, inFlightRollouts, conf, desired, source, orphaned, used>>

-----------------------------------------------------------------------------
(* rollout.Do without an InstrumentationConfig: remove the agents *)

MustUnInstrument(w) ==
    /\ wl[w] # nil
    /\ WorkloadHasOdigosAgents(wl[w])
    /\ source[w] = "none"
    /\ ~conf.automaticRolloutDisabled

\* The early returns, and the other controllers, which list what exists.
NothingToUnInstrument(r, w) ==
    /\ busy[r] = nil
    /\ <<r, w>> \in queue
    /\ ic[w] = nil
    /\ ~MustUnInstrument(w) \/ r # IcController
    /\ queue' = queue \ {<<r, w>>}
    /\ hist' = Dropped(r, w)
    /\ UNCHANGED <<ic, wl, inFlightRollouts, busy, conf, desired, source, orphaned, used>>

\* A failed restart is an error: the reconcile is queued again.
UnInstrument(r, w) ==
    /\ busy[r] = nil
    /\ <<r, w>> \in queue
    /\ ic[w] = nil
    /\ MustUnInstrument(w)
    /\ inFlightRollouts' = ReleaseWorkloadRolloutSlot(r, w)
    /\ \/ /\ ~RestartFails(wl[w])
          /\ \E seen \in SeenAfterRestart(wl[w]) :
                wl' = [wl EXCEPT ![w] = Restarted(@, "none", 0, seen)]
          /\ queue' = queue \ {<<r, w>>}
          /\ UNCHANGED used
       \/ /\ \/ RestartFails(wl[w]) /\ UNCHANGED used
             \/ Fail("patch")
          /\ queue' = queue \cup Requeued(r, w)
          /\ wl' = [wl EXCEPT ![w] = GivenBack(r, @)]
    /\ UNCHANGED <<ic, busy, conf, desired, source, orphaned, hist>>

-----------------------------------------------------------------------------
(* rollout.Do with an InstrumentationConfig, one action per way through it *)

Doing(r) == busy[r] # nil /\ busy[r].step = "do"

DoWithoutWorkload(r) ==
    /\ Doing(r)
    /\ wl[busy[r].w] = nil
    /\ UNCHANGED ic
    /\ EndDo(r, busy[r].ic, FALSE, FALSE)
    /\ hist' = Dropped(r, busy[r].w)
    /\ UNCHANGED <<wl, inFlightRollouts, conf, desired, source, orphaned, used>>

\* Mutant: recover again and again, without looking at the processed annotation.
NeedsRecoveryAlways(c) == c.rollbackOccurred

\* recoverFromRollback
NeedsRecovery(c) == c.rollbackOccurred /\ c.recovery = "requested"

\* A write of the copy r holds is refused.
Refused(r) == busy[r].stale \/ ic[busy[r].w] = nil

\* The annotation is written first and the latch after it; either can fail.
RecoverFromRollback(r) ==
    /\ Doing(r)
    /\ wl[busy[r].w] # nil
    /\ NeedsRecovery(busy[r].ic)
    /\ LET w == busy[r].w
           processed == [ic[w] EXCEPT !.recovery = "processed"]
           recovered == [processed EXCEPT !.rollbackOccurred = FALSE]
       IN  \/ /\ Refused(r)
              /\ UNCHANGED <<ic, used>>
              /\ EndDo(r, busy[r].ic, FALSE, ic[w] # nil)
              /\ hist' = IF ic[w] = nil THEN Dropped(r, w) ELSE hist
           \/ /\ ~Refused(r)
              /\ ic' = [ic EXCEPT ![w] = recovered]
              /\ EndDo(r, recovered, FALSE, TRUE)
              /\ UNCHANGED <<hist, used>>
           \/ /\ ~Refused(r)
              /\ Fail("latch")
              /\ ic' = [ic EXCEPT ![w] = processed]
              /\ EndDo(r, recovered, FALSE, TRUE)
              /\ UNCHANGED hist
    /\ UNCHANGED <<wl, inFlightRollouts, conf, desired, source, orphaned>>

\* No restart is needed, or none is allowed.
RolloutNotNeeded(r) ==
    /\ Doing(r)
    /\ wl[busy[r].w] # nil
    /\ ~NeedsRecovery(busy[r].ic)
    /\ busy[r].ic.optional \/ busy[r].conf.automaticRolloutDisabled
    /\ inFlightRollouts' = ReleaseWorkloadRolloutSlot(r, busy[r].w)
    /\ UNCHANGED ic
    /\ EndDoWithCondition(r, busy[r].ic,
          IF busy[r].ic.optional THEN "NotRequired" ELSE "RolloutDisabled", FALSE)
    /\ wl' = [wl EXCEPT ![busy[r].w] = GivenBack(r, @)]
    /\ UNCHANGED <<conf, desired, source, orphaned, hist, used>>

\* Do compares the saved hash with the present one.
Comparing(r) ==
    /\ Doing(r)
    /\ wl[busy[r].w] # nil
    /\ ~NeedsRecovery(busy[r].ic)
    /\ ~busy[r].ic.optional
    /\ ~busy[r].conf.automaticRolloutDisabled

\* The copy with InstrumentationTime set for pods injected before any rollout.
ForRollbackCheck(r) ==
    LET c == busy[r].ic
    IN  IF c.saved = none /\ c.hash # none /\ ~busy[r].conf.rollbackDisabled /\ c.injection
        THEN [c EXCEPT !.instrumentationTime = TRUE] ELSE c

\* Whether this way through Do asks shouldTriggerRollback.
RollbackIsChecked(r, c, x) ==
    /\ ~busy[r].conf.rollbackDisabled
    /\ IF c.saved = c.hash THEN ~IsWorkloadRolloutDone(x) ELSE c.hash # none /\ c.injection

WaitBeforeRollback(r) ==
    /\ Comparing(r)
    /\ LET c == ForRollbackCheck(r)
           x == wl[busy[r].w]
       IN  /\ RollbackIsChecked(r, c, x)
           /\ "wait" \in RollbackDecisions(c, x)
           /\ UNCHANGED ic
           /\ EndDo(r, c, FALSE, TRUE)
    /\ UNCHANGED <<wl, inFlightRollouts, conf, desired, source, orphaned, hist, used>>

\* triggerRollback.  A refused write ends the reconcile without a requeue.  A
\* failed restart returns the error before StatusChanged is set.
TriggerRollback(r) ==
    /\ Comparing(r)
    /\ LET w == busy[r].w
           c == ForRollbackCheck(r)
           disabled == [ic[w] EXCEPT !.injection = FALSE]
           rolledBack == [disabled EXCEPT !.rollbackOccurred = TRUE]
       IN  /\ RollbackIsChecked(r, c, wl[w])
           /\ "rollback" \in RollbackDecisions(c, wl[w])
           /\ \/ /\ Refused(r)
                 /\ UNCHANGED <<ic, wl, inFlightRollouts, used>>
                 /\ EndDo(r, c, FALSE, FALSE)
                 /\ hist' = Dropped(r, w)
              \/ /\ ~Refused(r)
                 /\ ic' = [ic EXCEPT ![w] = disabled]
                 /\ hist' = [hist EXCEPT ![w].rolledBack = TRUE]
                 /\ inFlightRollouts' = ReleaseWorkloadRolloutSlot(r, w)
                 /\ \/ /\ ~RestartFails(wl[w])
                       /\ \E seen \in SeenAfterRestart(wl[w]) :
                             wl' = [wl EXCEPT ![w] = Restarted(@, "none", 0, seen)]
                       /\ EndDo(r, [rolledBack EXCEPT !.rollout = "Triggered",
                                                      !.agentEnabled = "Backoff"], TRUE, TRUE)
                       /\ UNCHANGED used
                    \/ /\ \/ RestartFails(wl[w]) /\ UNCHANGED used
                          \/ Fail("patch")
                       /\ EndDo(r, rolledBack, FALSE, TRUE)
                       /\ wl' = [wl EXCEPT ![w] = GivenBack(r, @)]
    /\ UNCHANGED <<conf, desired, source, orphaned>>

\* Mutant: the wait for the rollout is not queued again.
AwaitRolloutOnce(r) ==
    /\ Comparing(r)
    /\ LET c == busy[r].ic
       IN  /\ c.saved = c.hash
           /\ ~IsWorkloadRolloutDone(wl[busy[r].w])
           /\ UNCHANGED ic
           /\ EndDo(r, c, FALSE, FALSE)
    /\ UNCHANGED <<wl, inFlightRollouts, conf, desired, source, orphaned, hist, used>>

\* The hashes agree and the rollout goes on: look again later, unless rollback
\* is disabled.
AwaitRollout(r) ==
    /\ Comparing(r)
    /\ LET c == busy[r].ic
       IN  /\ c.saved = c.hash
           /\ ~IsWorkloadRolloutDone(wl[busy[r].w])
           /\ UNCHANGED ic
           /\ EndDo(r, c, FALSE, ~busy[r].conf.rollbackDisabled)
    /\ hist' = IF busy[r].conf.rollbackDisabled THEN Dropped(r, busy[r].w) ELSE hist
    /\ UNCHANGED <<wl, inFlightRollouts, conf, desired, source, orphaned, used>>

RolloutFinished(r) ==
    /\ Comparing(r)
    /\ LET c == busy[r].ic
       IN  /\ c.saved = c.hash
           /\ IsWorkloadRolloutDone(wl[busy[r].w])
           /\ inFlightRollouts' = ReleaseWorkloadRolloutSlot(r, busy[r].w)
           /\ UNCHANGED ic
           /\ EndDoWithCondition(r, c, "Finished", FALSE)
           /\ wl' = IF wl[busy[r].w].seen THEN wl
                    ELSE [wl EXCEPT ![busy[r].w] = GivenBack(r, @)]
    /\ UNCHANGED <<conf, desired, source, orphaned, hist, used>>

PreviousRolloutOngoing(r) ==
    /\ Comparing(r)
    /\ LET c == ForRollbackCheck(r)
       IN  /\ c.saved # c.hash
           /\ ~IsWorkloadRolloutDone(wl[busy[r].w])
           /\ UNCHANGED ic
           /\ EndDoWithCondition(r, c, "Ongoing", TRUE)
    /\ UNCHANGED <<wl, inFlightRollouts, conf, desired, source, orphaned, hist, used>>

\* Mutant: a workload without a slot is not queued again.
WaitInQueueOnce(r) ==
    /\ Comparing(r)
    /\ LET c == ForRollbackCheck(r)
       IN  /\ c.saved # c.hash
           /\ IsWorkloadRolloutDone(wl[busy[r].w])
           /\ ~TryAcquire(r, busy[r].w)
           /\ UNCHANGED ic
           /\ EndDoWithCondition(r, c, "WaitingInQueue", FALSE)
    /\ UNCHANGED <<wl, inFlightRollouts, conf, desired, source, orphaned, hist, used>>

WaitInQueue(r) ==
    /\ Comparing(r)
    /\ LET c == ForRollbackCheck(r)
       IN  /\ c.saved # c.hash
           /\ IsWorkloadRolloutDone(wl[busy[r].w])
           /\ ~TryAcquire(r, busy[r].w)
           /\ UNCHANGED ic
           /\ EndDoWithCondition(r, c, "WaitingInQueue", TRUE)
    /\ UNCHANGED <<wl, inFlightRollouts, conf, desired, source, orphaned, hist, used>>

\* The restart for the present hash.  A failed restart is only logged: the hash
\* is saved all the same.
RestartForHash(r) ==
    /\ Comparing(r)
    /\ LET w == busy[r].w
           c == ForRollbackCheck(r)
           done == [c EXCEPT !.saved = c.hash,
                             !.instrumentationTime = @ \/ c.injection]
           slot == IF w \in AcquireSlot(r, w) THEN "held" ELSE "none"
       IN  /\ c.saved # c.hash
           /\ IsWorkloadRolloutDone(wl[w])
           /\ TryAcquire(r, w)
           /\ inFlightRollouts' = AcquireSlot(r, w)
           /\ UNCHANGED ic
           /\ \/ /\ ~RestartFails(wl[w])
                 /\ EndDo(r, [done EXCEPT !.rollout = "Triggered"], TRUE, TRUE)
                 /\ IF PatchChangesTemplate(wl[w], c)
                    THEN /\ \E seen \in SeenAfterRestart(wl[w]) :
                              wl' = [wl EXCEPT ![w] = Restarted(@, slot, c.time, seen)]
                         /\ hist' = [hist EXCEPT ![w].missed = FALSE]
                    ELSE UNCHANGED <<wl, hist>>
                 /\ UNCHANGED used
              \/ /\ \/ RestartFails(wl[w]) /\ UNCHANGED used
                    \/ Fail("patch")
                 /\ EndDo(r, [done EXCEPT !.rollout = "FailedToPatch"], TRUE, TRUE)
                 /\ hist' = [hist EXCEPT ![w].missed = TRUE]
                 /\ UNCHANGED wl
    /\ UNCHANGED <<conf, desired, source, orphaned>>

-----------------------------------------------------------------------------
(* reconcileWorkload, last step: write the status *)

\* Not found ends the reconcile, a conflict or an error queues it again.
WriteStatus(r) ==
    /\ busy[r] # nil
    /\ busy[r].step = "status"
    /\ LET w == busy[r].w
           again(b) == queue' = queue \cup (IF b THEN Requeued(r, w) ELSE {})
       IN  \/ /\ Refused(r)
              /\ again(ic[w] # nil)
              /\ hist' = IF ic[w] = nil THEN Dropped(r, w) ELSE hist
              /\ UNCHANGED <<ic, used>>
           \/ /\ ~Refused(r)
              /\ ic' = [ic EXCEPT ![w] = busy[r].ic]
              /\ again(busy[r].requeue)
              /\ UNCHANGED <<hist, used>>
           \/ /\ ~Refused(r)
              /\ Fail("status")
              /\ again(TRUE)
              /\ UNCHANGED <<ic, hist>>
    /\ Continue(r, busy[r].w, nil)
    /\ UNCHANGED <<wl, inFlightRollouts, conf, desired, source, orphaned>>

-----------------------------------------------------------------------------
(* The cluster: informers, workload controllers, kubelet, pods webhook *)

\* Mutant: a pod without agents is given a label without a value.
PodLabelUnset(w) == IF ic[w] # nil /\ ic[w].injection THEN ic[w].hash ELSE nil

\* PodsWebhook.injectOdigos: the label of a pod created now.
PodLabel(w) == IF ic[w] # nil /\ ic[w].injection THEN ic[w].hash ELSE none

Cluster(w, x) ==
    /\ wl' = [wl EXCEPT ![w] = x]
    /\ UNCHANGED <<ic, inFlightRollouts, queue, busy, conf, desired, source, orphaned, hist>>

\* The informer delivers the restarted object.
InformerSync(w) ==
    /\ wl[w] # nil /\ ~wl[w].seen
    /\ Cluster(w, [wl[w] EXCEPT !.seen = TRUE])
    /\ UNCHANGED used

CreatePods(w) ==
    /\ wl[w] # nil /\ wl[w].rolling /\ wl[w].new = nil
    /\ Cluster(w, [wl[w] EXCEPT !.new = PodLabel(w)])
    /\ UNCHANGED used

\* The new pods are available and the old ones gone.
CompleteRollout(w) ==
    /\ wl[w] # nil /\ wl[w].rolling /\ wl[w].new # nil /\ "new" \notin wl[w].backoff
    /\ Cluster(w, [wl[w] EXCEPT !.rolling = FALSE, !.slot = "none", !.old = wl[w].new,
                                !.new = nil, !.backoff = {}])
    /\ UNCHANGED used

Event(kind) ==
    /\ kind \in Env
    /\ used["events"] < MaxEvents
    /\ used' = [used EXCEPT !["events"] = @ + 1]

\* Pods with an agent enter CrashLoopBackOff or ImagePullBackOff.
PodsEnterBackoff(w) ==
    /\ Event("backoff")
    /\ wl[w] # nil
    /\ \/ /\ wl[w].new \in Hashes
          /\ Cluster(w, [wl[w] EXCEPT !.backoff = @ \cup {"new"}])
       \/ /\ ~wl[w].rolling
          /\ Cluster(w, [wl[w] EXCEPT !.backoff = @ \cup {"old"}])

\* Pods are rescheduled, or the user changes the pod template.
ReplacePods(w) ==
    /\ Event("replace")
    /\ wl[w] # nil /\ ~wl[w].rolling
    /\ \/ Cluster(w, [wl[w] EXCEPT !.old = PodLabel(w), !.backoff = {}])
       \/ Cluster(w, [wl[w] EXCEPT !.rolling = TRUE])

PauseDeployment(w) ==
    /\ Event("pause")
    /\ wl[w] # nil
    /\ Cluster(w, [wl[w] EXCEPT !.paused = ~@])

-----------------------------------------------------------------------------
(* Users and the other controllers of odigos *)

\* odiglet writes new runtime details into the status, or the overrides change.
ChangeRuntimeDetails(w, d) ==
    /\ Event("details")
    /\ ic[w] # nil /\ d # desired[w]
    /\ desired' = [desired EXCEPT ![w] = d]
    /\ queue' = queue \cup {<<IcController, w>>}
    /\ busy' = [q \in Controllers |-> IF busy[q] # nil /\ busy[q].w = w
                                      THEN [busy[q] EXCEPT !.stale = TRUE] ELSE busy[q]]
    /\ UNCHANGED <<ic, wl, inFlightRollouts, conf, source, orphaned, hist>>

\* A rule, action, sampling or collectors group that r watches changes.
ChangeRules(r, w, d) ==
    /\ Event("rules")
    /\ r # IcController
    /\ desired' = [desired EXCEPT ![w] = d]
    /\ queue' = queue \cup Requeued(r, w)
    /\ UNCHANGED <<ic, wl, inFlightRollouts, busy, conf, source, orphaned, hist>>

ChangeConf(r, c) ==
    /\ Event("conf")
    /\ r # IcController
    /\ c # conf
    /\ conf' = c
    /\ queue' = queue \cup ({r} \X Workloads)
    /\ UNCHANGED <<ic, wl, inFlightRollouts, busy, desired, source, orphaned, hist>>

\* Another controller writes w's InstrumentationConfig: c, or nil to delete it.
WriteInstrumentationConfig(w, c) ==
    /\ ic' = [ic EXCEPT ![w] = c]
    /\ Continue(nil, w, nil)
    /\ queue' = queue \cup {<<IcController, w>>}
    /\ UNCHANGED <<inFlightRollouts, conf, desired>>

\* The user asks to recover: the Source is annotated, syncWorkload copies it.
RequestRecovery(w) ==
    /\ Event("recover")
    /\ ic[w] # nil /\ source[w] # "none"
    /\ source' = [source EXCEPT ![w] = "recover"]
    /\ WriteInstrumentationConfig(w, [ic[w] EXCEPT !.recovery = "requested"])
    /\ hist' = [hist EXCEPT ![w].rolledBack = FALSE]
    /\ UNCHANGED <<wl, orphaned>>

\* The Source is deleted, and syncWorkload deletes the InstrumentationConfig.
DeleteSource(w) ==
    /\ Event("source")
    /\ ic[w] # nil /\ source[w] # "none"
    /\ source' = [source EXCEPT ![w] = "none"]
    /\ WriteInstrumentationConfig(w, nil)
    /\ hist' = [hist EXCEPT ![w].rolledBack = FALSE]
    /\ UNCHANGED <<wl, orphaned>>

CreateSource(w) ==
    /\ Event("source")
    /\ source[w] = "none"
    /\ source' = [source EXCEPT ![w] = "enabled"]
    /\ UNCHANGED <<ic, wl, inFlightRollouts, queue, busy, conf, desired, orphaned, hist>>

\* syncWorkload creates the InstrumentationConfig that is missing.
CreateInstrumentationConfig(w) ==
    /\ source[w] # "none" /\ wl[w] # nil /\ ic[w] = nil
    /\ WriteInstrumentationConfig(w, NewInstrumentationConfig(w))
    /\ UNCHANGED <<wl, source, orphaned, hist, used>>

DeleteWorkload(w) ==
    /\ Event("workload")
    /\ wl[w] # nil
    /\ wl' = [wl EXCEPT ![w] = nil]
    /\ orphaned' = IF ic[w] # nil THEN orphaned \cup {w} ELSE orphaned
    /\ UNCHANGED <<ic, inFlightRollouts, queue, busy, conf, desired, source, hist>>

\* A workload of the same name is created, perhaps before the garbage collector
\* has removed the InstrumentationConfig of the old one.
CreateWorkload(w) ==
    /\ wl[w] = nil
    /\ Cluster(w, NewWorkload(PodLabel(w)))
    /\ UNCHANGED used

CollectGarbage(w) ==
    /\ w \in orphaned
    /\ orphaned' = orphaned \ {w}
    /\ IF ic[w] # nil
       THEN WriteInstrumentationConfig(w, nil)
       ELSE UNCHANGED <<ic, busy, queue, inFlightRollouts, conf, desired>>
    /\ hist' = [hist EXCEPT ![w].rolledBack = FALSE]
    /\ UNCHANGED <<wl, source, used>>

\* The instrumentor restarts: the limiter is empty, and every object that exists is
\* a new event.  One that was deleted meanwhile is not.
RestartInstrumentor ==
    /\ Event("crash")
    /\ inFlightRollouts' = {}
    /\ busy' = [r \in Controllers |-> nil]
    /\ queue' = Controllers \X {w \in Workloads : ic[w] # nil}
    /\ wl' = [w \in Workloads |-> IF wl[w] # nil /\ wl[w].slot = "held"
                                  THEN [wl[w] EXCEPT !.slot = "early"] ELSE wl[w]]
    /\ UNCHANGED <<ic, conf, desired, source, orphaned, hist>>

-----------------------------------------------------------------------------
(* Specification *)

Do(r) ==
    \/ DoWithoutWorkload(r) \/ RecoverFromRollback(r) \/ RolloutNotNeeded(r)
    \/ WaitBeforeRollback(r) \/ TriggerRollback(r)
    \/ AwaitRollout(r) \/ RolloutFinished(r)
    \/ PreviousRolloutOngoing(r) \/ WaitInQueue(r) \/ RestartForHash(r)

Reconcile(r) ==
    \/ \E w \in Workloads : StartReconcile(r, w) \/ NothingToUnInstrument(r, w)
                              \/ UnInstrument(r, w)
    \/ Do(r)
    \/ WriteStatus(r)

Kubernetes(w) ==
    \/ InformerSync(w) \/ CreatePods(w) \/ CompleteRollout(w)
    \/ PodsEnterBackoff(w) \/ ReplacePods(w) \/ PauseDeployment(w)
    \/ DeleteWorkload(w) \/ CreateWorkload(w) \/ CollectGarbage(w)

Users(w) ==
    \/ \E d \in Desires : \/ ChangeRuntimeDetails(w, d)
                          \/ \E r \in Controllers : ChangeRules(r, w, d)
    \/ RequestRecovery(w) \/ DeleteSource(w) \/ CreateSource(w)
    \/ CreateInstrumentationConfig(w)

Next ==
    \/ \E r \in Controllers : Reconcile(r)
    \/ \E w \in Workloads : Kubernetes(w) \/ Users(w)
    \/ \E r \in Controllers, c \in Confs : ChangeConf(r, c)
    \/ RestartInstrumentor

Spec == Init /\ [][Next]_vars

\* The work queues are first in, first out, and a worker finishes what it has
\* started.  Informers deliver, and workload controllers replace healthy pods.
Fairness ==
    /\ \A r \in Controllers : WF_vars(Do(r)) /\ WF_vars(WriteStatus(r))
    /\ \A r \in Controllers, w \in Workloads :
          SF_vars(StartReconcile(r, w) \/ NothingToUnInstrument(r, w) \/ UnInstrument(r, w))
    /\ \A w \in Workloads : /\ WF_vars(InformerSync(w))
                            /\ WF_vars(CreatePods(w) \/ CompleteRollout(w))
                            /\ WF_vars(CreateInstrumentationConfig(w))

FairSpec == Spec /\ Fairness

-----------------------------------------------------------------------------
(* Properties *)

\* No more rollouts than the largest maxConcurrentRollouts have a slot at once, though
\* reconciles of several controllers take and release slots while the cluster starts
\* and finishes rollouts.  Rollouts outside this bound have no slot: those the rule
\* controller starts, which is set up without the limiter, those under a limit of 0,
\* rollbacks and un-instrumentations, and those whose slot was given back before
\* their end (slot = "early"): on the word of a cached object older than the restart,
\* because no rollout is wanted any more, by a rollback whose restart failed, or
\* with the memory of an instrumentor that restarts.
RolloutsWithinLimit ==
    Cardinality({w \in Workloads : wl[w] # nil /\ wl[w].slot = "held"}) <= MaxLimit

\* The limiter as the cluster sees it.
Limiter == INSTANCE RolloutLimiter WITH
    Limit <- MaxLimit,
    held <- inFlightRollouts,
    rolling <- {w \in Workloads : wl[w] # nil /\ wl[w].slot # "none"},
    early <- {w \in Workloads : wl[w] # nil /\ wl[w].slot = "early"}

\* The controllers implement the limiter of module RolloutLimiter: a rollout that was
\* given a slot runs without it only in the cases that GivenBack and
\* RestartInstrumentor record, whatever the controllers, with or without the
\* limiter, do to each other's workloads.
ImplementsLimiter == Limiter!Spec

\* A workload that holds a slot is about to be reconciled by a controller that can
\* release it, unless the last such reconcile ended on one of the paths that keep
\* the slot and ask for no other reconcile: rollback is disabled and the rollout
\* goes on, the write of a rollback is refused, or the workload or its
\* InstrumentationConfig is gone.  On no other path a slot is forgotten.
SlotHolderIsReconciled ==
    \A w \in inFlightRollouts :
        \/ hist[w].dropped
        \/ \E r \in Controllers \ NoLimiter :
              <<r, w>> \in queue \/ (busy[r] # nil /\ busy[r].w = w)

\* While the rollback latch is set no agent is injected, and the latch is only
\* cleared when the user has asked to recover, whoever reconciles meanwhile.
RollbackLatchHolds ==
    [][ \A w \in Workloads :
          ic[w] # nil /\ ic'[w] # nil /\ ic[w].rollbackOccurred =>
             /\ ~ic'[w].injection
             /\ ~ic'[w].rollbackOccurred => ic[w].recovery # "none" ]_vars

\* A workload that was rolled back gets no agents until the user asks for it.
RollbackIsKept ==
    \A w \in Workloads : hist[w].rolledBack /\ ic[w] # nil => ~ic[w].injection

\* Nothing is left to be done for w.
Settled(w) ==
    /\ \A r \in Controllers : <<r, w>> \notin queue /\ (busy[r] = nil \/ busy[r].w # w)
    /\ ic[w] # nil /\ wl[w] # nil /\ RolloutDone(wl[w])

\* A workload whose rollout is reported as finished, with nothing left to be done,
\* runs the agents of its hash, unless no restart was made for it: the restart
\* failed and the hash was saved all the same, or the hash came back to the saved
\* one, or changed twice in a second, while pods were created with the other.
FinishedRunsTheHash ==
    \A w \in Workloads :
        Settled(w) /\ ic[w].rollout = "Finished" /\ ic[w].injection /\ ~hist[w].missed
          => wl[w].old = ic[w].hash

\* A workload that needs a restart gets it in the end: its pods run the hash of
\* its InstrumentationConfig, though it may have to wait for a slot.
RolledOutInTheEnd ==
    \A w \in Workloads :
        <>[](ic[w] # nil /\ wl[w] # nil) =>
            []<>(RolloutDone(wl[w]) /\ wl[w].old = ic[w].hash)

\* The slot of a workload that is gone is released.
SlotOfDeletedIsReleased ==
    \A w \in Workloads :
        (w \in inFlightRollouts /\ wl[w] = nil) ~> (w \notin inFlightRollouts \/ wl[w] # nil)

\* A recovery request clears the rollback latch.
RecoveryHappens ==
    \A w \in Workloads :
        (ic[w] # nil /\ ic[w].rollbackOccurred /\ ic[w].recovery = "requested")
          ~> (ic[w] = nil \/ ~ic[w].rollbackOccurred)
=============================================================================
