--------------------------- MODULE RolloutProofs ---------------------------
(***************************************************************************)
(* Theorems about Rollout, for every set of workloads, hashes, controllers *)
(* and configurations and for every bound.                                 *)
(***************************************************************************)
EXTENDS Rollout, TLAPS

-----------------------------------------------------------------------------
(* Lemmas about the helpers *)

\* A reconcile in progress works on a workload, with a copy that was read.
LEMMA BusyType ==
    ASSUME TypeOK, NEW r \in Controllers, busy[r] # nil
    PROVE  /\ busy[r] \in Reconciles
           /\ busy[r].w \in Workloads
           /\ busy[r].ic \in InstrumentationConfigs
           /\ busy[r].conf \in Confs
<1>1. busy[r] \in Reconciles
  BY DEF TypeOK
<1> QED
  BY <1>1 DEF Reconciles

\* Continuing with a reconcile, or with none, keeps the type of busy.
LEMMA ContinueType ==
    ASSUME TypeOK, NEW r, NEW w, NEW v \in Reconciles \cup {nil}, Continue(r, w, v)
    PROVE  busy' \in [Controllers -> Reconciles \cup {nil}]
<1>1. \A q \in Controllers : busy[q] # nil => [busy[q] EXCEPT !.stale = TRUE] \in Reconciles
  BY BusyType DEF Reconciles
<1>2. \A q \in Controllers : busy[q] \in Reconciles \cup {nil}
  BY DEF TypeOK
<1> QED
  BY <1>1, <1>2 DEF Continue

\* The pairs a reconcile is queued again for are pairs of the queue.
LEMMA RequeuedType ==
    ASSUME NEW r \in Controllers, NEW w \in Workloads
    PROVE  Requeued(r, w) \subseteq Controllers \X Workloads
BY DEF Requeued

\* rollout.Do ends with a typed reconcile and a typed queue.
LEMMA EndDoType ==
    ASSUME TypeOK, NEW r \in Controllers, busy[r] # nil, NEW c \in InstrumentationConfigs,
           NEW statusChanged, NEW requeue \in BOOLEAN, EndDo(r, c, statusChanged, requeue)
    PROVE  /\ busy' \in [Controllers -> Reconciles \cup {nil}]
           /\ queue' \subseteq Controllers \X Workloads
<1> DEFINE m == busy[r]
           write == statusChanged \/ m.changed
           v == IF write THEN [m EXCEPT !.step = "status", !.ic = c, !.requeue = requeue]
                ELSE nil
<1>1. [m EXCEPT !.step = "status", !.ic = c, !.requeue = requeue] \in Reconciles
  BY BusyType DEF Reconciles
<1>2. v \in Reconciles \cup {nil}
  BY <1>1
<1>3. Continue(r, m.w, v)
  BY DEF EndDo
<1>4. busy' \in [Controllers -> Reconciles \cup {nil}]
  <2> HIDE DEF v, m
  <2> QED
    BY <1>2, <1>3, ContinueType
<1>5. queue' \subseteq Controllers \X Workloads
  BY BusyType, RequeuedType DEF EndDo, TypeOK
<1> QED
  BY <1>4, <1>5

\* The same with the WorkloadRollout condition set.
LEMMA EndDoWithConditionType ==
    ASSUME TypeOK, NEW r \in Controllers, busy[r] # nil, NEW c \in InstrumentationConfigs,
           NEW cond \in {"NotRequired", "RolloutDisabled", "Finished", "Ongoing",
                         "WaitingInQueue"},
           NEW requeue \in BOOLEAN, EndDoWithCondition(r, c, cond, requeue)
    PROVE  /\ busy' \in [Controllers -> Reconciles \cup {nil}]
           /\ queue' \subseteq Controllers \X Workloads
<1>1. [c EXCEPT !.rollout = cond] \in InstrumentationConfigs
  BY DEF InstrumentationConfigs
<1> QED
  BY <1>1, EndDoType DEF EndDoWithCondition

\* The copy used for the rollback check is an InstrumentationConfig that differs
\* from the one read in its instrumentation time only.
LEMMA ForRollbackCheckType ==
    ASSUME TypeOK, NEW r \in Controllers, busy[r] # nil
    PROVE  /\ ForRollbackCheck(r) \in InstrumentationConfigs
           /\ ForRollbackCheck(r).injection = busy[r].ic.injection
           /\ ForRollbackCheck(r).rollbackOccurred = busy[r].ic.rollbackOccurred
           /\ ForRollbackCheck(r).recovery = busy[r].ic.recovery
<1>1. busy[r].ic \in InstrumentationConfigs
  BY BusyType
<1>2. CASE ForRollbackCheck(r) = busy[r].ic
  BY <1>1, <1>2
<1>3. CASE ForRollbackCheck(r) = [busy[r].ic EXCEPT !.instrumentationTime = TRUE]
  BY <1>1, <1>3 DEF InstrumentationConfigs
<1> QED
  BY <1>2, <1>3 DEF ForRollbackCheck

\* A restart keeps the type of the workload, and so does giving back its slot.
LEMMA RestartedType ==
    ASSUME NEW x \in WorkloadObjects, NEW slot \in {"none", "held", "early"}, NEW stamp \in Nat,
           NEW seen \in SeenAfterRestart(x)
    PROVE  Restarted(x, slot, stamp, seen) \in WorkloadObjects
<1>1. seen \in BOOLEAN
  BY DEF SeenAfterRestart, RolloutDone
<1>2. x.backoff \ {"new"} \in SUBSET {"old", "new"}
  BY DEF WorkloadObjects
<1> QED
  BY <1>1, <1>2 DEF Restarted, WorkloadObjects

LEMMA GivenBackType ==
    ASSUME NEW r, NEW x \in WorkloadObjects
    PROVE  GivenBack(r, x) \in WorkloadObjects
BY DEF GivenBack, WorkloadObjects

\* The spec computed for a workload is typed.
LEMMA UpdatedSpecType ==
    ASSUME TypeOK, NEW w \in Workloads, NEW c \in InstrumentationConfigs, NEW t \in Nat
    PROVE  UpdatedSpec(w, c, t) \in InstrumentationConfigs
<1>1. desired[w] \in [ready : BOOLEAN, hash : Hashes \cup {none}, optional : BOOLEAN]
  BY RolloutAssumption DEF TypeOK
<1>2. WantedHash(w, c) \in Hashes \cup {none}
  BY <1>1 DEF WantedHash
<1> DEFINE h == WantedHash(w, c)
           opt == IF desired[w].ready THEN h # none /\ desired[w].optional ELSE c.optional
           time == IF h = c.hash THEN c.time ELSE t
<1>3. opt \in BOOLEAN /\ (h # none) \in BOOLEAN /\ time \in Nat
  BY DEF InstrumentationConfigs
<1>4. [c EXCEPT !.hash = h, !.time = time, !.injection = (h # none), !.optional = opt]
         \in InstrumentationConfigs
  <2> HIDE DEF opt, h, time
  <2> QED
    BY <1>2, <1>3 DEF InstrumentationConfigs, h
<1>5. \/ UpdatedSpec(w, c, t) = c
      \/ UpdatedSpec(w, c, t) = [c EXCEPT !.hash = h, !.time = time, !.injection = (h # none),
                                         !.optional = opt]
  BY DEF UpdatedSpec
<1> QED
  BY <1>4, <1>5

\* The present time is a time.
LEMMA PresentTimesType ==
    ASSUME TypeOK, NEW w \in Workloads, ic[w] # nil, NEW t \in PresentTimes(w)
    PROVE  t \in Nat
<1>1. ic[w].time \in Nat
  BY DEF TypeOK, InstrumentationConfigs
<1>2. CASE t \in 1 .. (Cardinality(Controllers) + 2)
  <2> DEFINE n == Cardinality(Controllers) + 2
  <2> HIDE DEF n
  <2>1. t \in 1 .. n
    BY <1>2 DEF n
  <2> QED
    BY <2>1
<1>3. CASE t = ic[w].time
  BY <1>1, <1>3
<1> QED
  BY <1>2, <1>3 DEF PresentTimes

\* The AgentEnabled condition is one of the known ones.
LEMMA AgentEnabledConditionType ==
    ASSUME NEW w, NEW c
    PROVE  AgentEnabledCondition(w, c) \in {"Enabled", "Disabled", "Backoff"}
BY DEF AgentEnabledCondition

-----------------------------------------------------------------------------
(* Type correctness *)

\* A failure or an event only counts.
LEMMA UsedType ==
    ASSUME TypeOK, NEW k, UNCHANGED used \/ Fail(k) \/ Event(k)
    PROVE  used' \in [{"events", "failures"} -> Nat]
BY DEF TypeOK, Fail, Event

\* The histories keep their type, whatever a step notes in them.
LEMMA HistType ==
    ASSUME TypeOK, NEW w \in Workloads, NEW b \in BOOLEAN,
           \/ UNCHANGED hist
           \/ hist' = [hist EXCEPT ![w].rolledBack = b]
           \/ hist' = [hist EXCEPT ![w].dropped = b]
           \/ hist' = [hist EXCEPT ![w].missed = b]
    PROVE  hist' \in [Workloads -> Histories]
<1>1. hist[w] \in Histories
  BY DEF TypeOK
<1>2. CASE hist' = [hist EXCEPT ![w].rolledBack = b]
  BY <1>1, <1>2 DEF TypeOK, Histories
<1>3. CASE hist' = [hist EXCEPT ![w].dropped = b]
  BY <1>1, <1>3 DEF TypeOK, Histories
<1>4. CASE hist' = [hist EXCEPT ![w].missed = b]
  BY <1>1, <1>4 DEF TypeOK, Histories
<1> QED
  BY <1>2, <1>3, <1>4 DEF TypeOK

LEMMA DroppedType ==
    ASSUME TypeOK, NEW r, NEW w \in Workloads, hist' = hist \/ hist' = Dropped(r, w)
    PROVE  hist' \in [Workloads -> Histories]
BY HistType DEF Dropped

\* A restart, or none, leaves the workloads typed.
LEMMA RestartType ==
    ASSUME TypeOK, NEW w \in Workloads, wl[w] # nil, NEW r,
           NEW slot \in {"none", "held", "early"}, NEW stamp \in Nat,
           \/ UNCHANGED wl
           \/ wl' = [wl EXCEPT ![w] = GivenBack(r, @)]
           \/ \E seen \in SeenAfterRestart(wl[w]) :
                 wl' = [wl EXCEPT ![w] = Restarted(@, slot, stamp, seen)]
    PROVE  wl' \in [Workloads -> WorkloadObjects \cup {nil}]
<1>1. wl[w] \in WorkloadObjects
  BY DEF TypeOK
<1>2. CASE \E seen \in SeenAfterRestart(wl[w]) :
             wl' = [wl EXCEPT ![w] = Restarted(@, slot, stamp, seen)]
  <2>1. PICK seen \in SeenAfterRestart(wl[w]) :
             wl' = [wl EXCEPT ![w] = Restarted(wl[w], slot, stamp, seen)]
    BY <1>2
  <2>2. Restarted(wl[w], slot, stamp, seen) \in WorkloadObjects
    BY <1>1, RestartedType
  <2> QED
    BY <2>1, <2>2 DEF TypeOK
<1>3. CASE wl' = [wl EXCEPT ![w] = GivenBack(r, @)]
  BY <1>1, <1>3, GivenBackType DEF TypeOK
<1> QED
  BY <1>2, <1>3 DEF TypeOK

\* The first step of a reconcile, with the time t at which it computes the spec.
SpecWritten(r, w, t) ==
    LET spec == UpdatedSpec(w, ic[w], t)
        cond == AgentEnabledCondition(w, ic[w])
    IN  /\ ic' = [ic EXCEPT ![w] = spec]
        /\ Continue(r, w, [w |-> w, conf |-> conf, ic |-> [spec EXCEPT !.agentEnabled = cond],
                           stale |-> FALSE, changed |-> ic[w].agentEnabled # cond,
                           requeue |-> FALSE, step |-> "do"])
        /\ hist' = [hist EXCEPT ![w].dropped = @ /\ r \in NoLimiter,
                                ![w].missed = Misses(w, spec)]

LEMMA StartReconcileStep ==
    ASSUME TypeOK, NEW r \in Controllers, NEW w \in Workloads, StartReconcile(r, w)
    PROVE  \E t \in Nat : SpecWritten(r, w, t)
<1>1. PICK t \in PresentTimes(w) : SpecWritten(r, w, t)
  BY DEF StartReconcile, SpecWritten
<1>2. t \in Nat
  BY PresentTimesType DEF StartReconcile
<1> QED
  BY <1>1, <1>2

\* The first step of a reconcile keeps the types.
LEMMA StartReconcileType ==
    ASSUME TypeOK, NEW r \in Controllers, NEW w \in Workloads, StartReconcile(r, w)
    PROVE  TypeOK'
<1>0. PICK t \in Nat : SpecWritten(r, w, t)
  BY StartReconcileStep
<1> DEFINE spec == UpdatedSpec(w, ic[w], t)
           cond == AgentEnabledCondition(w, ic[w])
           copy == [spec EXCEPT !.agentEnabled = cond]
           v == [w |-> w, conf |-> conf, ic |-> copy,
                 stale |-> FALSE, changed |-> ic[w].agentEnabled # cond,
                 requeue |-> FALSE, step |-> "do"]
<1>1. ic[w] \in InstrumentationConfigs
  BY DEF TypeOK, StartReconcile
<1>2. spec \in InstrumentationConfigs
  BY <1>1, UpdatedSpecType
<1>3. copy \in InstrumentationConfigs
  <2> HIDE DEF spec, cond
  <2>1. cond \in {"Enabled", "Disabled", "Backoff"}
    BY AgentEnabledConditionType DEF cond
  <2> QED
    BY <1>2, <2>1 DEF InstrumentationConfigs
<1>4. v \in Reconciles
  <2>1. (ic[w].agentEnabled # cond) \in BOOLEAN
    OBVIOUS
  <2> HIDE DEF copy, cond
  <2> QED
    BY <1>3, <2>1 DEF Reconciles, TypeOK
<1>5. Continue(r, w, v) /\ ic' = [ic EXCEPT ![w] = spec]
  BY <1>0 DEF SpecWritten
<1>6. hist' \in [Workloads -> Histories]
  <2>1. hist[w] \in Histories
    BY DEF TypeOK
  <2>2. Misses(w, spec) \in BOOLEAN
    BY <2>1 DEF Misses, Histories
  <2>3. (hist[w].dropped /\ r \in NoLimiter) \in BOOLEAN
    OBVIOUS
  <2> DEFINE misses == Misses(w, spec)
             dropped == hist[w].dropped /\ r \in NoLimiter
  <2>4. hist' = [hist EXCEPT ![w] = [hist[w] EXCEPT !.dropped = dropped, !.missed = misses]]
    BY <1>0 DEF TypeOK, SpecWritten
  <2> HIDE DEF misses, dropped
  <2>5. [hist[w] EXCEPT !.dropped = dropped, !.missed = misses] \in Histories
    BY <2>1, <2>2, <2>3 DEF Histories, misses, dropped
  <2> QED
    BY <2>4, <2>5 DEF TypeOK
<1> HIDE DEF v, spec
<1>7. busy' \in [Controllers -> Reconciles \cup {nil}]
  BY <1>4, <1>5, ContinueType
<1>8. ic' \in [Workloads -> InstrumentationConfigs \cup {nil}]
  BY <1>2, <1>5 DEF TypeOK
<1> QED
  BY <1>6, <1>7, <1>8 DEF StartReconcile, TypeOK

\* Removing the agents keeps the types.
LEMMA UnInstrumentType ==
    ASSUME TypeOK, NEW r \in Controllers, NEW w \in Workloads, UnInstrument(r, w)
    PROVE  TypeOK'
<1>1. wl[w] # nil
  BY DEF UnInstrument, MustUnInstrument
<1>2. wl' \in [Workloads -> WorkloadObjects \cup {nil}]
  BY <1>1, RestartType DEF UnInstrument
<1>3. hist' \in [Workloads -> Histories]
  BY HistType DEF UnInstrument
<1>4. used' \in [{"events", "failures"} -> Nat]
  BY UsedType DEF UnInstrument
<1>5. queue' \subseteq Controllers \X Workloads
  BY RequeuedType DEF UnInstrument, TypeOK
<1>6. inFlightRollouts' \subseteq Workloads
  BY DEF UnInstrument, ReleaseWorkloadRolloutSlot, TypeOK
<1> QED
  BY <1>2, <1>3, <1>4, <1>5, <1>6 DEF UnInstrument, TypeOK

\* The recovery keeps the types.
LEMMA RecoverFromRollbackType ==
    ASSUME TypeOK, NEW r \in Controllers, RecoverFromRollback(r)
    PROVE  TypeOK'
<1> DEFINE w == busy[r].w
           processed == [ic[w] EXCEPT !.recovery = "processed"]
           recovered == [processed EXCEPT !.rollbackOccurred = FALSE]
<1>1. busy[r] # nil /\ w \in Workloads /\ busy[r].ic \in InstrumentationConfigs
  BY BusyType DEF RecoverFromRollback, Doing
<1>2. ~Refused(r) => /\ processed \in InstrumentationConfigs
                     /\ recovered \in InstrumentationConfigs
  <2> SUFFICES ASSUME ~Refused(r)
               PROVE  processed \in InstrumentationConfigs /\ recovered \in InstrumentationConfigs
    OBVIOUS
  <2>1. ic[w] \in InstrumentationConfigs
    BY <1>1 DEF Refused, TypeOK
  <2> QED
    BY <2>1 DEF InstrumentationConfigs
<1>3. \/ ic' = ic
      \/ ~Refused(r) /\ (ic' = [ic EXCEPT ![w] = processed] \/ ic' = [ic EXCEPT ![w] = recovered])
  BY DEF RecoverFromRollback
<1>4. \/ EndDo(r, busy[r].ic, FALSE, ic[w] # nil)
      \/ ~Refused(r) /\ EndDo(r, recovered, FALSE, TRUE)
  BY DEF RecoverFromRollback
<1>5. UNCHANGED used \/ Fail("latch")
  BY DEF RecoverFromRollback
<1>8. hist' \in [Workloads -> Histories]
  BY <1>1, DroppedType DEF RecoverFromRollback
<1> HIDE DEF processed, recovered
<1>6. ic' \in [Workloads -> InstrumentationConfigs \cup {nil}]
  BY <1>1, <1>2, <1>3 DEF TypeOK
<1>7. /\ busy' \in [Controllers -> Reconciles \cup {nil}]
      /\ queue' \subseteq Controllers \X Workloads
  <2>1. CASE EndDo(r, busy[r].ic, FALSE, ic[w] # nil)
    BY <1>1, <2>1, EndDoType
  <2>2. CASE ~Refused(r) /\ EndDo(r, recovered, FALSE, TRUE)
    BY <1>1, <1>2, <2>2, EndDoType
  <2> QED
    BY <1>4, <2>1, <2>2
<1> QED
  BY <1>5, <1>6, <1>7, <1>8, UsedType DEF RecoverFromRollback, TypeOK

\* The rollback keeps the types.
LEMMA TriggerRollbackType ==
    ASSUME TypeOK, NEW r \in Controllers, TriggerRollback(r)
    PROVE  TypeOK'
<1> DEFINE w == busy[r].w
           c == ForRollbackCheck(r)
           disabled == [ic[w] EXCEPT !.injection = FALSE]
           rolledBack == [disabled EXCEPT !.rollbackOccurred = TRUE]
           triggered == [rolledBack EXCEPT !.rollout = "Triggered", !.agentEnabled = "Backoff"]
<1>1. /\ busy[r] # nil /\ w \in Workloads /\ busy[r].ic \in InstrumentationConfigs
      /\ wl[w] # nil
  BY BusyType DEF TriggerRollback, Comparing, Doing
<1>2. c \in InstrumentationConfigs
  BY <1>1, ForRollbackCheckType
<1>3. ~Refused(r) => /\ disabled \in InstrumentationConfigs
                     /\ rolledBack \in InstrumentationConfigs
                     /\ triggered \in InstrumentationConfigs
  <2> SUFFICES ASSUME ~Refused(r)
               PROVE  /\ disabled \in InstrumentationConfigs
                      /\ rolledBack \in InstrumentationConfigs
                      /\ triggered \in InstrumentationConfigs
    OBVIOUS
  <2>1. ic[w] \in InstrumentationConfigs
    BY <1>1 DEF Refused, TypeOK
  <2> QED
    BY <2>1 DEF InstrumentationConfigs
<1>4. ic' = ic \/ (~Refused(r) /\ ic' = [ic EXCEPT ![w] = disabled])
  BY DEF TriggerRollback
<1>5. \/ EndDo(r, c, FALSE, FALSE)
      \/ ~Refused(r) /\ EndDo(r, triggered, TRUE, TRUE)
      \/ ~Refused(r) /\ EndDo(r, rolledBack, FALSE, TRUE)
  BY DEF TriggerRollback
<1>6. UNCHANGED used \/ Fail("patch")
  BY DEF TriggerRollback
<1>7. wl' \in [Workloads -> WorkloadObjects \cup {nil}]
  BY <1>1, RestartType DEF TriggerRollback
<1>8. hist' \in [Workloads -> Histories]
  BY <1>1, HistType, DroppedType DEF TriggerRollback
<1>9. inFlightRollouts' \subseteq Workloads
  BY DEF TriggerRollback, ReleaseWorkloadRolloutSlot, TypeOK
<1> HIDE DEF disabled, rolledBack, triggered, c
<1>10. ic' \in [Workloads -> InstrumentationConfigs \cup {nil}]
  BY <1>1, <1>3, <1>4 DEF TypeOK
<1>11. /\ busy' \in [Controllers -> Reconciles \cup {nil}]
       /\ queue' \subseteq Controllers \X Workloads
  BY <1>1, <1>2, <1>3, <1>5, EndDoType
<1> QED
  BY <1>6, <1>7, <1>8, <1>9, <1>10, <1>11, UsedType DEF TriggerRollback, TypeOK

\* The restart for the present hash keeps the types.
LEMMA RestartForHashType ==
    ASSUME TypeOK, NEW r \in Controllers, RestartForHash(r)
    PROVE  TypeOK'
<1> DEFINE w == busy[r].w
           c == ForRollbackCheck(r)
           done == [c EXCEPT !.saved = c.hash, !.instrumentationTime = @ \/ c.injection]
           triggered == [done EXCEPT !.rollout = "Triggered"]
           failed == [done EXCEPT !.rollout = "FailedToPatch"]
<1>1. busy[r] # nil /\ w \in Workloads /\ wl[w] # nil
  BY BusyType DEF RestartForHash, Comparing, Doing
<1>2. triggered \in InstrumentationConfigs /\ failed \in InstrumentationConfigs
  <2>1. c \in InstrumentationConfigs
    BY <1>1, ForRollbackCheckType
  <2>2. (c.instrumentationTime \/ c.injection) \in BOOLEAN
    OBVIOUS
  <2> HIDE DEF c
  <2> QED
    BY <2>1, <2>2 DEF InstrumentationConfigs
<1>3. EndDo(r, triggered, TRUE, TRUE) \/ EndDo(r, failed, TRUE, TRUE)
  BY DEF RestartForHash
<1>4. UNCHANGED used \/ Fail("patch")
  BY DEF RestartForHash
<1>5. wl' \in [Workloads -> WorkloadObjects \cup {nil}]
  <2> DEFINE slot == IF w \in AcquireSlot(r, w) THEN "held" ELSE "none"
  <2>1. slot \in {"none", "held", "early"}
    OBVIOUS
  <2>2. c.time \in Nat
    BY <1>1, ForRollbackCheckType DEF InstrumentationConfigs
  <2>3. \/ UNCHANGED wl
        \/ \E seen \in SeenAfterRestart(wl[w]) :
              wl' = [wl EXCEPT ![w] = Restarted(@, slot, c.time, seen)]
    BY DEF RestartForHash
  <2> HIDE DEF slot, c
  <2> QED
    BY <1>1, <2>1, <2>2, <2>3, RestartType
<1>6. hist' \in [Workloads -> Histories]
  BY <1>1, HistType DEF RestartForHash
<1>7. inFlightRollouts' \subseteq Workloads
  BY <1>1 DEF RestartForHash, AcquireSlot, TypeOK
<1> HIDE DEF triggered, failed
<1>8. /\ busy' \in [Controllers -> Reconciles \cup {nil}]
      /\ queue' \subseteq Controllers \X Workloads
  BY <1>1, <1>2, <1>3, EndDoType
<1> QED
  BY <1>4, <1>5, <1>6, <1>7, <1>8, UsedType DEF RestartForHash, TypeOK

\* Every way through rollout.Do keeps the types.
LEMMA DoType ==
    ASSUME TypeOK, NEW r \in Controllers, Do(r)
    PROVE  TypeOK'
<1>1. busy[r] # nil /\ busy[r].w \in Workloads /\ busy[r].ic \in InstrumentationConfigs
  BY BusyType DEF Do, DoWithoutWorkload, RecoverFromRollback, RolloutNotNeeded,
       WaitBeforeRollback, TriggerRollback, AwaitRollout, RolloutFinished,
       PreviousRolloutOngoing, WaitInQueue, RestartForHash, Comparing, Doing
<1>2. ForRollbackCheck(r) \in InstrumentationConfigs
  BY <1>1, ForRollbackCheckType
<1>3. CASE DoWithoutWorkload(r)
  <2>1. EndDo(r, busy[r].ic, FALSE, FALSE)
    BY <1>3 DEF DoWithoutWorkload
  <2>2. hist' \in [Workloads -> Histories]
    BY <1>1, <1>3, DroppedType DEF DoWithoutWorkload
  <2> QED
    BY <1>1, <1>3, <2>1, <2>2, EndDoType DEF DoWithoutWorkload, TypeOK
<1>4. CASE RolloutNotNeeded(r)
  <2>1. \/ EndDoWithCondition(r, busy[r].ic, "NotRequired", FALSE)
        \/ EndDoWithCondition(r, busy[r].ic, "RolloutDisabled", FALSE)
    BY <1>4 DEF RolloutNotNeeded
  <2>2. /\ busy' \in [Controllers -> Reconciles \cup {nil}]
        /\ queue' \subseteq Controllers \X Workloads
    BY <1>1, <2>1, EndDoWithConditionType
  <2>3. wl' \in [Workloads -> WorkloadObjects \cup {nil}]
    BY <1>1, <1>4, GivenBackType DEF RolloutNotNeeded, TypeOK
  <2> QED
    BY <1>4, <2>2, <2>3 DEF RolloutNotNeeded, ReleaseWorkloadRolloutSlot, TypeOK
<1>5. CASE WaitBeforeRollback(r)
  <2>1. EndDo(r, ForRollbackCheck(r), FALSE, TRUE)
    BY <1>5 DEF WaitBeforeRollback
  <2> QED
    BY <1>1, <1>2, <1>5, <2>1, EndDoType DEF WaitBeforeRollback, TypeOK
<1>6. CASE AwaitRollout(r)
  <2>1. EndDo(r, busy[r].ic, FALSE, ~busy[r].conf.rollbackDisabled)
    BY <1>6 DEF AwaitRollout
  <2>2. (~busy[r].conf.rollbackDisabled) \in BOOLEAN
    OBVIOUS
  <2>3. hist' \in [Workloads -> Histories]
    BY <1>1, <1>6, DroppedType DEF AwaitRollout
  <2> QED
    BY <1>1, <1>6, <2>1, <2>2, <2>3, EndDoType DEF AwaitRollout, TypeOK
<1>7. CASE RolloutFinished(r)
  <2>1. EndDoWithCondition(r, busy[r].ic, "Finished", FALSE)
    BY <1>7 DEF RolloutFinished
  <2>2. /\ busy' \in [Controllers -> Reconciles \cup {nil}]
        /\ queue' \subseteq Controllers \X Workloads
    BY <1>1, <2>1, EndDoWithConditionType
  <2>3. wl' \in [Workloads -> WorkloadObjects \cup {nil}]
    BY <1>1, <1>7, GivenBackType DEF RolloutFinished, Comparing, TypeOK
  <2> QED
    BY <1>7, <2>2, <2>3 DEF RolloutFinished, ReleaseWorkloadRolloutSlot, TypeOK
<1>8. CASE PreviousRolloutOngoing(r)
  <2>1. EndDoWithCondition(r, ForRollbackCheck(r), "Ongoing", TRUE)
    BY <1>8 DEF PreviousRolloutOngoing
  <2> QED
    BY <1>1, <1>2, <1>8, <2>1, EndDoWithConditionType DEF PreviousRolloutOngoing, TypeOK
<1>9. CASE WaitInQueue(r)
  <2>1. EndDoWithCondition(r, ForRollbackCheck(r), "WaitingInQueue", TRUE)
    BY <1>9 DEF WaitInQueue
  <2> QED
    BY <1>1, <1>2, <1>9, <2>1, EndDoWithConditionType DEF WaitInQueue, TypeOK
<1> QED
  BY <1>3, <1>4, <1>5, <1>6, <1>7, <1>8, <1>9, RecoverFromRollbackType,
     TriggerRollbackType, RestartForHashType DEF Do

\* Writing the status keeps the types.
LEMMA WriteStatusType ==
    ASSUME TypeOK, NEW r \in Controllers, WriteStatus(r)
    PROVE  TypeOK'
<1>1. busy[r] # nil /\ busy[r].w \in Workloads /\ busy[r].ic \in InstrumentationConfigs
  BY BusyType DEF WriteStatus
<1>2. busy' \in [Controllers -> Reconciles \cup {nil}]
  BY ContinueType DEF WriteStatus
<1>3. ic' \in [Workloads -> InstrumentationConfigs \cup {nil}]
  BY <1>1 DEF WriteStatus, TypeOK
<1>4. queue' \subseteq Controllers \X Workloads
  BY <1>1, RequeuedType DEF WriteStatus, TypeOK
<1>5. used' \in [{"events", "failures"} -> Nat]
  BY UsedType DEF WriteStatus
<1>6. hist' \in [Workloads -> Histories]
  BY <1>1, DroppedType DEF WriteStatus
<1> QED
  BY <1>2, <1>3, <1>4, <1>5, <1>6 DEF WriteStatus, TypeOK

\* The label of a new pod is the hash of an InstrumentationConfig, or none.
LEMMA PodLabelType ==
    ASSUME TypeOK, NEW w \in Workloads
    PROVE  PodLabel(w) \in Hashes \cup {none}
<1>1. ic[w] # nil => ic[w].hash \in Hashes \cup {none}
  BY DEF TypeOK, InstrumentationConfigs
<1> QED
  BY <1>1 DEF PodLabel

\* A step of the cluster keeps the type of a workload.
LEMMA KubernetesObjectType ==
    ASSUME TypeOK, NEW w \in Workloads, NEW x,
           \/ InformerSync(w) /\ x = [wl[w] EXCEPT !.seen = TRUE]
           \/ CreatePods(w) /\ x = [wl[w] EXCEPT !.new = PodLabel(w)]
           \/ CompleteRollout(w) /\ x = [wl[w] EXCEPT !.rolling = FALSE, !.slot = "none",
                                           !.old = wl[w].new, !.new = nil, !.backoff = {}]
           \/ PodsEnterBackoff(w) /\ x = [wl[w] EXCEPT !.backoff = @ \cup {"new"}]
           \/ PodsEnterBackoff(w) /\ x = [wl[w] EXCEPT !.backoff = @ \cup {"old"}]
           \/ ReplacePods(w) /\ x = [wl[w] EXCEPT !.old = PodLabel(w), !.backoff = {}]
           \/ ReplacePods(w) /\ x = [wl[w] EXCEPT !.rolling = TRUE]
           \/ PauseDeployment(w) /\ x = [wl[w] EXCEPT !.paused = ~@]
    PROVE  x \in WorkloadObjects
<1>1. wl[w] \in WorkloadObjects
  BY DEF TypeOK, InformerSync, CreatePods, CompleteRollout, PodsEnterBackoff, ReplacePods,
       PauseDeployment
<1>2. wl[w].backoff \cup {"new"} \in SUBSET {"old", "new"}
  BY <1>1 DEF WorkloadObjects
<1>3. wl[w].backoff \cup {"old"} \in SUBSET {"old", "new"}
  BY <1>1 DEF WorkloadObjects
<1>4. (~wl[w].paused) \in BOOLEAN
  OBVIOUS
<1>5. CASE x = [wl[w] EXCEPT !.seen = TRUE]
  BY <1>1, <1>5 DEF WorkloadObjects
<1>6. CASE x = [wl[w] EXCEPT !.new = PodLabel(w)]
  BY <1>1, <1>6, PodLabelType DEF WorkloadObjects
<1>7. CASE CompleteRollout(w) /\ x = [wl[w] EXCEPT !.rolling = FALSE, !.slot = "none",
                                           !.old = wl[w].new, !.new = nil, !.backoff = {}]
  <2>1. wl[w].new \in Hashes \cup {none}
    BY <1>1, <1>7 DEF CompleteRollout, WorkloadObjects
  <2> QED
    BY <1>1, <1>7, <2>1 DEF WorkloadObjects
<1>8. CASE x = [wl[w] EXCEPT !.backoff = @ \cup {"new"}]
  BY <1>1, <1>2, <1>8 DEF WorkloadObjects
<1>9. CASE x = [wl[w] EXCEPT !.backoff = @ \cup {"old"}]
  BY <1>1, <1>3, <1>9 DEF WorkloadObjects
<1>10. CASE x = [wl[w] EXCEPT !.old = PodLabel(w), !.backoff = {}]
  BY <1>1, <1>10, PodLabelType DEF WorkloadObjects
<1>11. CASE x = [wl[w] EXCEPT !.rolling = TRUE]
  BY <1>1, <1>11 DEF WorkloadObjects
<1>12. CASE x = [wl[w] EXCEPT !.paused = ~@]
  BY <1>1, <1>4, <1>12 DEF WorkloadObjects
<1> QED
  BY <1>5, <1>6, <1>7, <1>8, <1>9, <1>10, <1>11, <1>12

\* What the steps of the cluster do to an existing workload.
LEMMA KubernetesStep ==
    ASSUME TypeOK, NEW w \in Workloads,
           \/ InformerSync(w) \/ CreatePods(w) \/ CompleteRollout(w)
           \/ PodsEnterBackoff(w) \/ ReplacePods(w) \/ PauseDeployment(w)
    PROVE  /\ wl[w] # nil
           /\ \E x \in WorkloadObjects : Cluster(w, x)
           /\ UNCHANGED used \/ \E k : Event(k)
<1>1. CASE InformerSync(w)
  BY <1>1, KubernetesObjectType DEF InformerSync
<1>2. CASE CreatePods(w)
  BY <1>2, KubernetesObjectType DEF CreatePods
<1>3. CASE CompleteRollout(w)
  BY <1>3, KubernetesObjectType DEF CompleteRollout
<1>4. CASE PodsEnterBackoff(w)
  BY <1>4, KubernetesObjectType DEF PodsEnterBackoff
<1>5. CASE ReplacePods(w)
  BY <1>5, KubernetesObjectType DEF ReplacePods
<1>6. CASE PauseDeployment(w)
  BY <1>6, KubernetesObjectType DEF PauseDeployment
<1> QED
  BY <1>1, <1>2, <1>3, <1>4, <1>5, <1>6

\* A new workload is typed.
LEMMA NewWorkloadType ==
    ASSUME NEW label \in Hashes \cup {none}
    PROVE  NewWorkload(label) \in WorkloadObjects
BY DEF NewWorkload, WorkloadObjects

\* A new InstrumentationConfig is typed, and not rolled back.
LEMMA NewInstrumentationConfigType ==
    ASSUME NEW w
    PROVE  /\ NewInstrumentationConfig(w) \in InstrumentationConfigs
           /\ NewInstrumentationConfig(w).rollbackOccurred = FALSE
BY DEF NewInstrumentationConfig, InstrumentationConfigs

\* The steps of the cluster keep the types.
LEMMA KubernetesType ==
    ASSUME TypeOK, NEW w \in Workloads, Kubernetes(w)
    PROVE  TypeOK'
<1>1. CASE \/ InformerSync(w) \/ CreatePods(w) \/ CompleteRollout(w)
           \/ PodsEnterBackoff(w) \/ ReplacePods(w) \/ PauseDeployment(w)
  <2>1. used' \in [{"events", "failures"} -> Nat]
    BY <1>1, KubernetesStep, UsedType
  <2> QED
    BY <1>1, <2>1, KubernetesStep DEF Cluster, TypeOK
<1>2. CASE DeleteWorkload(w)
  BY <1>2, UsedType DEF DeleteWorkload, TypeOK
<1>3. CASE CreateWorkload(w)
  BY <1>3, PodLabelType, NewWorkloadType DEF CreateWorkload, Cluster, TypeOK
<1>4. CASE CollectGarbage(w)
  <2>1. hist' \in [Workloads -> Histories]
    BY <1>4, HistType DEF CollectGarbage
  <2>2. busy' \in [Controllers -> Reconciles \cup {nil}]
    BY <1>4, ContinueType DEF CollectGarbage, WriteInstrumentationConfig, TypeOK
  <2> QED
    BY <1>4, <2>1, <2>2, RolloutAssumption
    DEF CollectGarbage, WriteInstrumentationConfig, TypeOK
<1> QED
  BY <1>1, <1>2, <1>3, <1>4 DEF Kubernetes

\* The steps of the users and of the other controllers keep the types.
LEMMA UsersType ==
    ASSUME TypeOK, NEW w \in Workloads, Users(w)
    PROVE  TypeOK'
<1>1. CASE \E d \in Desires : ChangeRuntimeDetails(w, d)
  <2>1. PICK d \in Desires : ChangeRuntimeDetails(w, d)
    BY <1>1
  <2>2. \A q \in Controllers : busy[q] # nil => [busy[q] EXCEPT !.stale = TRUE] \in Reconciles
    BY BusyType DEF Reconciles
  <2>3. busy' \in [Controllers -> Reconciles \cup {nil}]
    BY <2>1, <2>2 DEF ChangeRuntimeDetails, TypeOK
  <2> QED
    BY <2>1, <2>3, UsedType, RolloutAssumption DEF ChangeRuntimeDetails, TypeOK
<1>2. CASE \E d \in Desires, r \in Controllers : ChangeRules(r, w, d)
  BY <1>2, UsedType, RequeuedType DEF ChangeRules, TypeOK
<1>3. CASE RequestRecovery(w)
  <2>1. [ic[w] EXCEPT !.recovery = "requested"] \in InstrumentationConfigs
    <3>1. ic[w] \in InstrumentationConfigs
      BY <1>3 DEF RequestRecovery, TypeOK
    <3> QED
      BY <3>1 DEF InstrumentationConfigs
  <2>2. hist' \in [Workloads -> Histories]
    BY <1>3, HistType DEF RequestRecovery
  <2>3. busy' \in [Controllers -> Reconciles \cup {nil}]
    BY <1>3, ContinueType DEF RequestRecovery, WriteInstrumentationConfig
  <2> QED
    BY <1>3, <2>1, <2>2, <2>3, UsedType, RolloutAssumption
    DEF RequestRecovery, WriteInstrumentationConfig, TypeOK
<1>4. CASE DeleteSource(w)
  <2>1. hist' \in [Workloads -> Histories]
    BY <1>4, HistType DEF DeleteSource
  <2>2. busy' \in [Controllers -> Reconciles \cup {nil}]
    BY <1>4, ContinueType DEF DeleteSource, WriteInstrumentationConfig
  <2> QED
    BY <1>4, <2>1, <2>2, UsedType, RolloutAssumption
    DEF DeleteSource, WriteInstrumentationConfig, TypeOK
<1>5. CASE CreateSource(w)
  BY <1>5, UsedType DEF CreateSource, TypeOK
<1>6. CASE CreateInstrumentationConfig(w)
  <2>1. busy' \in [Controllers -> Reconciles \cup {nil}]
    BY <1>6, ContinueType DEF CreateInstrumentationConfig, WriteInstrumentationConfig
  <2>2. ic' \in [Workloads -> InstrumentationConfigs \cup {nil}]
    BY <1>6, NewInstrumentationConfigType
    DEF CreateInstrumentationConfig, WriteInstrumentationConfig, TypeOK
  <2> QED
    BY <1>6, <2>1, <2>2, RolloutAssumption
    DEF CreateInstrumentationConfig, WriteInstrumentationConfig, TypeOK
<1> QED
  BY <1>1, <1>2, <1>3, <1>4, <1>5, <1>6 DEF Users

\* Type correctness is inductive.
LEMMA TypeStep ==
    ASSUME TypeOK, [Next]_vars
    PROVE  TypeOK'
<1>1. CASE \E r \in Controllers : Reconcile(r)
  <2>1. PICK r \in Controllers : Reconcile(r)
    BY <1>1
  <2>2. CASE \E w \in Workloads : NothingToUnInstrument(r, w)
    BY <2>2, DroppedType DEF NothingToUnInstrument, TypeOK
  <2> QED
    BY <2>1, <2>2, StartReconcileType, UnInstrumentType, DoType, WriteStatusType
    DEF Reconcile
<1>2. CASE \E w \in Workloads : Kubernetes(w) \/ Users(w)
  BY <1>2, KubernetesType, UsersType
<1>3. CASE \E r \in Controllers, c \in Confs : ChangeConf(r, c)
  BY <1>3, UsedType DEF ChangeConf, TypeOK
<1>4. CASE RestartInstrumentor
  <2>1. \A w \in Workloads : wl[w] # nil => [wl[w] EXCEPT !.slot = "early"] \in WorkloadObjects
    BY DEF TypeOK, WorkloadObjects
  <2> QED
    BY <1>4, <2>1, UsedType DEF RestartInstrumentor, TypeOK
<1>5. CASE UNCHANGED vars
  BY <1>5 DEF vars, TypeOK
<1> QED
  BY <1>1, <1>2, <1>3, <1>4, <1>5 DEF Next

\* Every InstrumentationConfig, workload and reconcile of the agentenabled
\* controllers is well formed in every reachable state.
THEOREM RolloutTypeCorrect == Spec => []TypeOK
<1>1. Init => TypeOK
  <2> SUFFICES ASSUME Init PROVE TypeOK
    OBVIOUS
  <2>1. ic \in [Workloads -> InstrumentationConfigs \cup {nil}]
    BY NewInstrumentationConfigType DEF Init
  <2>2. wl \in [Workloads -> WorkloadObjects \cup {nil}]
    BY NewWorkloadType DEF Init
  <2>3. queue \subseteq Controllers \X Workloads
    BY RolloutAssumption DEF Init
  <2>4. hist \in [Workloads -> Histories]
    BY DEF Init, Histories
  <2> QED
    BY <2>1, <2>2, <2>3, <2>4, RolloutAssumption DEF Init, TypeOK
<1> QED
  BY <1>1, TypeStep, PTL DEF Spec

-----------------------------------------------------------------------------
(* The rollback latch *)

\* No agent is injected while the latch is set.
LatchKept(c) == c.rollbackOccurred => ~c.injection

\* The copy c of a reconcile agrees with d, the object its writes are compared
\* with: only a recovery whose second write failed has cleared the latch in c alone.
Agrees(c, d) ==
    /\ d # nil
    /\ c.injection = d.injection
    /\ c.recovery = d.recovery
    /\ LatchKept(c)
    /\ d.rollbackOccurred /\ ~c.rollbackOccurred => d.recovery = "processed"

\* The latch is kept in the API server, and in every copy that can still be
\* written back.
LatchInv ==
    /\ \A w \in Workloads : ic[w] # nil => LatchKept(ic[w])
    /\ \A r \in Controllers : busy[r] # nil /\ ~busy[r].stale => Agrees(busy[r].ic, ic[busy[r].w])

\* Continuing after a write of ic[w] keeps the invariant: every other copy of
\* ic[w] is stale now, or the write changed nothing.
LEMMA ContinueLatch ==
    ASSUME TypeOK, LatchInv, NEW r, NEW w \in Workloads, NEW v, Continue(r, w, v),
           \A u \in Workloads \ {w} : ic'[u] = ic[u],
           ic'[w] # nil => LatchKept(ic'[w]),
           v # nil /\ ~v.stale => v.w = w /\ Agrees(v.ic, ic'[w])
    PROVE  LatchInv'
<1>1. \A u \in Workloads : ic'[u] # nil => LatchKept(ic'[u])
  BY DEF LatchInv
<1>2. ASSUME NEW q \in Controllers, busy'[q] # nil, ~busy'[q].stale
      PROVE  Agrees(busy'[q].ic, ic'[busy'[q].w])
  <2>1. CASE q = r
    <3>1. busy'[q] = v
      BY <2>1 DEF Continue
    <3> QED
      BY <1>2, <3>1
  <2>2. CASE q # r /\ busy[q] # nil /\ busy[q].w = w /\ ic'[w] # ic[w]
    <3>1. busy'[q] = [busy[q] EXCEPT !.stale = TRUE]
      BY <2>2 DEF Continue
    <3>2. busy[q] \in Reconciles
      BY <2>2, BusyType
    <3>3. busy'[q].stale = TRUE
      BY <3>1, <3>2 DEF Reconciles
    <3> QED
      BY <1>2, <3>3
  <2>3. CASE q # r /\ ~(busy[q] # nil /\ busy[q].w = w /\ ic'[w] # ic[w])
    <3>1. busy'[q] = busy[q]
      BY <2>3 DEF Continue
    <3>2. busy[q] # nil /\ busy[q].w \in Workloads
      BY <1>2, <3>1, BusyType
    <3>3. ic'[busy[q].w] = ic[busy[q].w]
      BY <2>3, <3>2
    <3>4. Agrees(busy[q].ic, ic[busy[q].w])
      BY <1>2, <3>1 DEF LatchInv
    <3> QED
      BY <3>1, <3>3, <3>4
  <2> QED
    BY <2>1, <2>2, <2>3
<1> QED
  BY <1>1, <1>2 DEF LatchInv, LatchKept, Agrees

\* The same for the end of rollout.Do with the copy c.
LEMMA EndDoLatch ==
    ASSUME TypeOK, LatchInv, NEW r \in Controllers, busy[r] # nil,
           NEW c, NEW statusChanged, NEW requeue, EndDo(r, c, statusChanged, requeue),
           \A u \in Workloads \ {busy[r].w} : ic'[u] = ic[u],
           ic'[busy[r].w] # nil => LatchKept(ic'[busy[r].w]),
           ~busy[r].stale => Agrees(c, ic'[busy[r].w])
    PROVE  LatchInv'
<1> DEFINE m == busy[r]
           next == [m EXCEPT !.step = "status", !.ic = c, !.requeue = requeue]
           v == IF statusChanged \/ m.changed THEN next ELSE nil
<1>1. m.w \in Workloads /\ m \in Reconciles
  BY BusyType
<1>2. next.w = m.w /\ next.stale = m.stale /\ next.ic = c
  BY <1>1 DEF Reconciles
<1>3. Continue(r, m.w, v)
  BY DEF EndDo
<1>4. v # nil /\ ~v.stale => v.w = m.w /\ Agrees(v.ic, ic'[m.w])
  <2> HIDE DEF next
  <2> QED
    BY <1>2
<1> HIDE DEF v
<1> QED
  BY <1>1, <1>3, <1>4, ContinueLatch

\* The same when nothing has been written and c differs from the copy that was
\* read in no field the latch depends on.
LEMMA EndDoLatchUnchanged ==
    ASSUME TypeOK, LatchInv, NEW r \in Controllers, busy[r] # nil,
           NEW c, NEW statusChanged, NEW requeue, EndDo(r, c, statusChanged, requeue),
           UNCHANGED ic,
           /\ c.injection = busy[r].ic.injection
           /\ c.recovery = busy[r].ic.recovery
           /\ c.rollbackOccurred = busy[r].ic.rollbackOccurred
    PROVE  LatchInv'
<1>1. busy[r].w \in Workloads
  BY BusyType
<1>2. ~busy[r].stale => Agrees(busy[r].ic, ic[busy[r].w])
  BY DEF LatchInv
<1>3. ~busy[r].stale => Agrees(c, ic'[busy[r].w])
  BY <1>2 DEF Agrees, LatchKept
<1>4. ic'[busy[r].w] # nil => LatchKept(ic'[busy[r].w])
  BY <1>1 DEF LatchInv, LatchKept
<1> QED
  BY <1>3, <1>4, EndDoLatch

\* What a step may do to a rolled back InstrumentationConfig.
LatchRule ==
    \A w \in Workloads :
        ic[w] # nil /\ ic'[w] # nil /\ ic[w].rollbackOccurred =>
           /\ ~ic'[w].injection
           /\ ~ic'[w].rollbackOccurred => ic[w].recovery # "none"

\* A step that writes no InstrumentationConfig.
LEMMA LatchRuleUnchanged ==
    ASSUME LatchInv, UNCHANGED ic
    PROVE  LatchRule
BY DEF LatchInv, LatchKept, LatchRule

\* A step that writes one.
LEMMA LatchRuleWrite ==
    ASSUME LatchInv, NEW w \in Workloads,
           \A u \in Workloads \ {w} : ic'[u] = ic[u],
           ic[w] # nil /\ ic'[w] # nil /\ ic[w].rollbackOccurred =>
              /\ ~ic'[w].injection
              /\ ~ic'[w].rollbackOccurred => ic[w].recovery # "none"
    PROVE  LatchRule
BY DEF LatchInv, LatchKept, LatchRule

\* updateInstrumentationConfigSpec injects nothing while the latch is set, and
\* leaves the latch and the recovery request alone.
LEMMA UpdatedSpecLatch ==
    ASSUME TypeOK, NEW w \in Workloads, NEW c \in InstrumentationConfigs, LatchKept(c), NEW t
    PROVE  /\ LatchKept(UpdatedSpec(w, c, t))
           /\ UpdatedSpec(w, c, t).rollbackOccurred = c.rollbackOccurred
           /\ UpdatedSpec(w, c, t).recovery = c.recovery
<1> DEFINE h == WantedHash(w, c)
           opt == IF desired[w].ready THEN h # none /\ desired[w].optional ELSE c.optional
           time == IF h = c.hash THEN c.time ELSE t
           new == [c EXCEPT !.hash = h, !.time = time, !.injection = (h # none), !.optional = opt]
<1>1. UpdatedSpec(w, c, t) = c \/ UpdatedSpec(w, c, t) = new
  BY DEF UpdatedSpec
<1>2. c.rollbackOccurred => h = none
  BY DEF WantedHash
<1> HIDE DEF h, opt, time
<1>3. /\ new.injection = (h # none)
      /\ new.rollbackOccurred = c.rollbackOccurred
      /\ new.recovery = c.recovery
  BY DEF InstrumentationConfigs
<1> HIDE DEF new
<1> QED
  BY <1>1, <1>2, <1>3 DEF LatchKept

\* The first step of a reconcile keeps the latch.
LEMMA StartReconcileLatch ==
    ASSUME TypeOK, LatchInv, NEW r \in Controllers, NEW w \in Workloads, StartReconcile(r, w)
    PROVE  LatchInv' /\ LatchRule
<1>0. PICK t \in Nat : SpecWritten(r, w, t)
  BY StartReconcileStep
<1> DEFINE spec == UpdatedSpec(w, ic[w], t)
           cond == AgentEnabledCondition(w, ic[w])
           copy == [spec EXCEPT !.agentEnabled = cond]
           v == [w |-> w, conf |-> conf, ic |-> copy,
                 stale |-> FALSE, changed |-> ic[w].agentEnabled # cond,
                 requeue |-> FALSE, step |-> "do"]
<1>1. ic[w] # nil /\ ic[w] \in InstrumentationConfigs /\ LatchKept(ic[w])
  BY DEF TypeOK, StartReconcile, LatchInv
<1>2. /\ spec \in InstrumentationConfigs
      /\ LatchKept(spec)
      /\ spec.rollbackOccurred = ic[w].rollbackOccurred
  BY <1>1, UpdatedSpecType, UpdatedSpecLatch
<1>3. ic' = [ic EXCEPT ![w] = spec] /\ Continue(r, w, v)
  BY <1>0 DEF SpecWritten
<1> HIDE DEF spec, cond
<1>4. ic'[w] = spec /\ \A u \in Workloads \ {w} : ic'[u] = ic[u]
  BY <1>3 DEF TypeOK
<1>5. /\ copy.injection = spec.injection
      /\ copy.recovery = spec.recovery
      /\ copy.rollbackOccurred = spec.rollbackOccurred
  BY <1>2 DEF InstrumentationConfigs
<1>6. spec # nil
  BY <1>2, NilAssumption
<1>7. Agrees(copy, spec)
  BY <1>2, <1>5, <1>6 DEF Agrees, LatchKept
<1>8. v.w = w /\ v.ic = copy
  OBVIOUS
<1> HIDE DEF v, copy
<1>9. v # nil /\ ~v.stale => v.w = w /\ Agrees(v.ic, ic'[w])
  BY <1>4, <1>7, <1>8
<1>10. LatchInv'
  <2>1. ic'[w] # nil => LatchKept(ic'[w])
    BY <1>2, <1>4
  <2> QED
    BY <1>3, <1>4, <1>9, <2>1, ContinueLatch
<1>11. LatchRule
  <2>1. ic[w].rollbackOccurred => ~ic'[w].injection /\ ic'[w].rollbackOccurred
    BY <1>2, <1>4 DEF LatchKept
  <2> QED
    BY <1>4, <2>1, LatchRuleWrite
<1> QED
  BY <1>10, <1>11

\* The recovery only clears a latch whose recovery was requested.
LEMMA RecoverFromRollbackLatch ==
    ASSUME TypeOK, LatchInv, NEW r \in Controllers, RecoverFromRollback(r)
    PROVE  LatchInv' /\ LatchRule
<1> DEFINE w == busy[r].w
           processed == [ic[w] EXCEPT !.recovery = "processed"]
           recovered == [processed EXCEPT !.rollbackOccurred = FALSE]
<1>1. busy[r] # nil /\ w \in Workloads
  BY BusyType DEF RecoverFromRollback, Doing
<1>2. CASE UNCHANGED ic /\ EndDo(r, busy[r].ic, FALSE, ic[w] # nil)
  BY <1>1, <1>2, EndDoLatchUnchanged, LatchRuleUnchanged
<1>3. CASE /\ ~Refused(r)
           /\ \/ ic' = [ic EXCEPT ![w] = processed]
              \/ ic' = [ic EXCEPT ![w] = recovered]
           /\ EndDo(r, recovered, FALSE, TRUE)
  <2>1. ic[w] # nil /\ ~busy[r].stale
    BY <1>3 DEF Refused
  <2>2. ic[w] \in InstrumentationConfigs /\ LatchKept(ic[w])
    BY <1>1, <2>1 DEF TypeOK, LatchInv
  <2>3. ic[w].recovery = "requested"
    BY <1>1, <2>1 DEF RecoverFromRollback, NeedsRecovery, LatchInv, Agrees
  <2>4. /\ processed \in InstrumentationConfigs
        /\ processed.injection = ic[w].injection
        /\ processed.recovery = "processed"
        /\ processed.rollbackOccurred = ic[w].rollbackOccurred
    BY <2>2 DEF InstrumentationConfigs
  <2>5. /\ recovered \in InstrumentationConfigs
        /\ recovered.injection = ic[w].injection
        /\ recovered.recovery = "processed"
        /\ recovered.rollbackOccurred = FALSE
    BY <2>2 DEF InstrumentationConfigs
  <2>6. \A u \in Workloads \ {w} : ic'[u] = ic[u]
    BY <1>1, <1>3 DEF TypeOK
  <2>7. ic'[w] = processed \/ ic'[w] = recovered
    BY <1>1, <1>3 DEF TypeOK
  <2> HIDE DEF processed, recovered
  <2>8. LatchKept(ic'[w]) /\ Agrees(recovered, ic'[w])
    BY <2>2, <2>4, <2>5, <2>7, NilAssumption DEF LatchKept, Agrees
  <2>9. LatchInv'
    BY <1>1, <1>3, <2>6, <2>8, EndDoLatch
  <2>10. LatchRule
    <3>1. ic[w].rollbackOccurred => ~ic'[w].injection
      BY <2>2, <2>4, <2>5, <2>7 DEF LatchKept
    <3> QED
      BY <1>1, <2>3, <2>6, <3>1, LatchRuleWrite
  <2> QED
    BY <2>9, <2>10
<1> QED
  BY <1>2, <1>3 DEF RecoverFromRollback

\* The rollback sets the latch only after the injection is off.
LEMMA TriggerRollbackLatch ==
    ASSUME TypeOK, LatchInv, NEW r \in Controllers, TriggerRollback(r)
    PROVE  LatchInv' /\ LatchRule
<1> DEFINE w == busy[r].w
           c == ForRollbackCheck(r)
           disabled == [ic[w] EXCEPT !.injection = FALSE]
           rolledBack == [disabled EXCEPT !.rollbackOccurred = TRUE]
           triggered == [rolledBack EXCEPT !.rollout = "Triggered", !.agentEnabled = "Backoff"]
<1>1. busy[r] # nil /\ w \in Workloads
  BY BusyType DEF TriggerRollback, Comparing, Doing
<1>2. CASE UNCHANGED ic /\ EndDo(r, c, FALSE, FALSE)
  <2>1. LatchInv'
    BY <1>1, <1>2, ForRollbackCheckType, EndDoLatchUnchanged
  <2> QED
    BY <1>2, <2>1, LatchRuleUnchanged
<1>3. CASE /\ ~Refused(r)
           /\ ic' = [ic EXCEPT ![w] = disabled]
           /\ EndDo(r, triggered, TRUE, TRUE) \/ EndDo(r, rolledBack, FALSE, TRUE)
  <2>1. ic[w] \in InstrumentationConfigs
    BY <1>1, <1>3 DEF Refused, TypeOK
  <2>2. /\ disabled \in InstrumentationConfigs
        /\ disabled.injection = FALSE
        /\ disabled.recovery = ic[w].recovery
        /\ disabled.rollbackOccurred = ic[w].rollbackOccurred
    BY <2>1 DEF InstrumentationConfigs
  <2>3. /\ rolledBack.injection = FALSE
        /\ rolledBack.recovery = ic[w].recovery
        /\ rolledBack.rollbackOccurred = TRUE
    BY <2>1 DEF InstrumentationConfigs
  <2>4. /\ triggered.injection = FALSE
        /\ triggered.recovery = ic[w].recovery
        /\ triggered.rollbackOccurred = TRUE
    BY <2>1 DEF InstrumentationConfigs
  <2>5. ic'[w] = disabled /\ \A u \in Workloads \ {w} : ic'[u] = ic[u]
    BY <1>1, <1>3 DEF TypeOK
  <2> HIDE DEF disabled, rolledBack, triggered
  <2>6. LatchKept(ic'[w]) /\ Agrees(triggered, ic'[w]) /\ Agrees(rolledBack, ic'[w])
    BY <2>2, <2>3, <2>4, <2>5, NilAssumption DEF LatchKept, Agrees
  <2>7. LatchInv'
    BY <1>1, <1>3, <2>5, <2>6, EndDoLatch
  <2>8. LatchRule
    BY <1>1, <2>2, <2>5, LatchRuleWrite
  <2> QED
    BY <2>7, <2>8
<1> QED
  BY <1>2, <1>3 DEF TriggerRollback

\* The ways through rollout.Do that write nothing keep the latch.
LEMMA DoLatch ==
    ASSUME TypeOK, LatchInv, NEW r \in Controllers, Do(r)
    PROVE  LatchInv' /\ LatchRule
<1> DEFINE c == ForRollbackCheck(r)
           done == [c EXCEPT !.saved = c.hash, !.instrumentationTime = @ \/ c.injection]
           same(x) == /\ x.injection = busy[r].ic.injection
                      /\ x.recovery = busy[r].ic.recovery
                      /\ x.rollbackOccurred = busy[r].ic.rollbackOccurred
<1>1. busy[r] # nil /\ busy[r].ic \in InstrumentationConfigs
  BY BusyType DEF Do, DoWithoutWorkload, RecoverFromRollback, RolloutNotNeeded,
       WaitBeforeRollback, TriggerRollback, AwaitRollout, RolloutFinished,
       PreviousRolloutOngoing, WaitInQueue, RestartForHash, Comparing, Doing
<1>2. c \in InstrumentationConfigs /\ same(c) /\ same(busy[r].ic)
  BY <1>1, ForRollbackCheckType
<1>3. \A cond : same([busy[r].ic EXCEPT !.rollout = cond])
  BY <1>1 DEF InstrumentationConfigs
<1>4. \A cond : same([c EXCEPT !.rollout = cond]) /\ same([done EXCEPT !.rollout = cond])
  <2> HIDE DEF c
  <2> QED
    BY <1>2 DEF InstrumentationConfigs
<1> HIDE DEF c, done
<1>5. ASSUME \/ DoWithoutWorkload(r) \/ RolloutNotNeeded(r) \/ WaitBeforeRollback(r)
             \/ AwaitRollout(r) \/ RolloutFinished(r) \/ PreviousRolloutOngoing(r)
             \/ WaitInQueue(r) \/ RestartForHash(r)
      PROVE  UNCHANGED ic /\ \E x, changed, requeue : same(x) /\ EndDo(r, x, changed, requeue)
  <2> HIDE DEF same
  <2>1. CASE DoWithoutWorkload(r) \/ AwaitRollout(r)
    BY <1>2, <2>1 DEF DoWithoutWorkload, AwaitRollout
  <2>2. CASE RolloutNotNeeded(r) \/ RolloutFinished(r)
    BY <1>3, <2>2 DEF RolloutNotNeeded, RolloutFinished, EndDoWithCondition
  <2>3. CASE WaitBeforeRollback(r)
    BY <1>2, <2>3 DEF WaitBeforeRollback, c
  <2>4. CASE PreviousRolloutOngoing(r) \/ WaitInQueue(r)
    BY <1>4, <2>4 DEF PreviousRolloutOngoing, WaitInQueue, EndDoWithCondition, c
  <2>5. CASE RestartForHash(r)
    BY <1>4, <2>5 DEF RestartForHash, c, done
  <2> QED
    BY <1>5, <2>1, <2>2, <2>3, <2>4, <2>5
<1>6. ASSUME UNCHANGED ic, NEW x, NEW changed, NEW requeue, same(x),
             EndDo(r, x, changed, requeue)
      PROVE  LatchInv' /\ LatchRule
  BY <1>1, <1>6, EndDoLatchUnchanged, LatchRuleUnchanged
<1> HIDE DEF same
<1> QED
  BY <1>5, <1>6, RecoverFromRollbackLatch, TriggerRollbackLatch DEF Do

\* Writing the status keeps the latch: a copy that is written is not stale, and
\* what it knows of the latch agrees with the API server.
LEMMA WriteStatusLatch ==
    ASSUME TypeOK, LatchInv, NEW r \in Controllers, WriteStatus(r)
    PROVE  LatchInv' /\ LatchRule
<1> DEFINE w == busy[r].w
<1>1. busy[r] # nil /\ w \in Workloads
  BY BusyType DEF WriteStatus
<1>2. Continue(r, w, nil)
  BY DEF WriteStatus
<1>3. CASE UNCHANGED ic
  <2>1. ic'[w] # nil => LatchKept(ic'[w])
    BY <1>1, <1>3 DEF LatchInv, LatchKept
  <2>2. LatchInv'
    BY <1>1, <1>2, <1>3, <2>1, ContinueLatch
  <2> QED
    BY <1>3, <2>2, LatchRuleUnchanged
<1>4. CASE ~Refused(r) /\ ic' = [ic EXCEPT ![w] = busy[r].ic]
  <2>1. Agrees(busy[r].ic, ic[w])
    BY <1>1, <1>4 DEF Refused, LatchInv
  <2>2. ic'[w] = busy[r].ic /\ \A u \in Workloads \ {w} : ic'[u] = ic[u]
    BY <1>1, <1>4 DEF TypeOK
  <2>3. LatchKept(ic'[w])
    BY <2>1, <2>2 DEF Agrees
  <2>4. LatchInv'
    BY <1>1, <1>2, <2>2, <2>3, ContinueLatch
  <2>5. LatchRule
    <3>1. ic[w] # nil /\ ic[w].rollbackOccurred =>
            /\ ~ic'[w].injection
            /\ ~ic'[w].rollbackOccurred => ic[w].recovery # "none"
      BY <1>1, <2>1, <2>2 DEF Agrees, LatchInv, LatchKept
    <3> QED
      BY <1>1, <2>2, <3>1, LatchRuleWrite
  <2> QED
    BY <2>4, <2>5
<1> QED
  BY <1>3, <1>4 DEF WriteStatus

\* The other writers delete the InstrumentationConfig, create one that is missing,
\* or only change its recovery request.
LEMMA OtherWritersLatch ==
    ASSUME TypeOK, LatchInv, NEW w \in Workloads, NEW c, WriteInstrumentationConfig(w, c),
           \/ c = nil
           \/ ic[w] = nil /\ c = NewInstrumentationConfig(w)
           \/ ic[w] # nil /\ c = [ic[w] EXCEPT !.recovery = "requested"]
    PROVE  LatchInv' /\ LatchRule
<1>1. ic'[w] = c /\ (\A u \in Workloads \ {w} : ic'[u] = ic[u]) /\ Continue(nil, w, nil)
  BY DEF WriteInstrumentationConfig, TypeOK
<1>2. ic[w] # nil /\ c = [ic[w] EXCEPT !.recovery = "requested"]
        => c.injection = ic[w].injection /\ c.rollbackOccurred = ic[w].rollbackOccurred
  <2> SUFFICES ASSUME ic[w] # nil, c = [ic[w] EXCEPT !.recovery = "requested"]
               PROVE  c.injection = ic[w].injection /\ c.rollbackOccurred = ic[w].rollbackOccurred
    OBVIOUS
  <2>1. ic[w] \in InstrumentationConfigs
    BY DEF TypeOK
  <2> QED
    BY <2>1 DEF InstrumentationConfigs
<1>3. c # nil => LatchKept(c)
  BY <1>2, NewInstrumentationConfigType DEF LatchInv, LatchKept
<1>4. LatchInv'
  BY <1>1, <1>3, ContinueLatch
<1>5. LatchRule
  <2>1. ic[w] # nil /\ c # nil /\ ic[w].rollbackOccurred => ~c.injection /\ c.rollbackOccurred
    BY <1>2 DEF LatchInv, LatchKept
  <2> QED
    BY <1>1, <2>1, LatchRuleWrite
<1> QED
  BY <1>4, <1>5

\* The latch is inductive, and every step obeys the rule.
LEMMA LatchStep ==
    ASSUME TypeOK, LatchInv, [Next]_vars
    PROVE  LatchInv' /\ LatchRule
<1>1. CASE UNCHANGED <<ic, busy>>
  BY <1>1, LatchRuleUnchanged DEF LatchInv, Agrees, LatchKept
<1>2. ASSUME NEW r \in Controllers, Reconcile(r)
      PROVE  LatchInv' /\ LatchRule
  BY <1>1, <1>2, StartReconcileLatch, DoLatch, WriteStatusLatch
  DEF Reconcile, NothingToUnInstrument, UnInstrument
<1>3. ASSUME NEW w \in Workloads, NEW d \in Desires, ChangeRuntimeDetails(w, d)
      PROVE  LatchInv' /\ LatchRule
  <2>1. ASSUME NEW q \in Controllers, busy'[q] # nil, ~busy'[q].stale
        PROVE  busy'[q] = busy[q]
    <3>1. CASE busy[q] # nil /\ busy[q].w = w
      <4>1. busy'[q] = [busy[q] EXCEPT !.stale = TRUE]
        BY <1>3, <3>1 DEF ChangeRuntimeDetails
      <4>2. busy[q] \in Reconciles
        BY <3>1, BusyType
      <4>3. busy'[q].stale = TRUE
        BY <4>1, <4>2 DEF Reconciles
      <4> QED
        BY <2>1, <4>3
    <3> QED
      BY <1>3, <3>1 DEF ChangeRuntimeDetails
  <2>2. UNCHANGED ic
    BY <1>3 DEF ChangeRuntimeDetails
  <2> QED
    BY <2>1, <2>2, LatchRuleUnchanged DEF LatchInv, Agrees, LatchKept
<1>4. ASSUME NEW w \in Workloads, Kubernetes(w)
      PROVE  LatchInv' /\ LatchRule
  <2>1. CASE CollectGarbage(w)
    BY <1>1, <2>1, OtherWritersLatch DEF CollectGarbage
  <2> QED
    BY <1>1, <1>4, <2>1
    DEF Kubernetes, InformerSync, CreatePods, CompleteRollout, PodsEnterBackoff, ReplacePods,
        PauseDeployment, DeleteWorkload, CreateWorkload, Cluster
<1>5. ASSUME NEW w \in Workloads, Users(w)
      PROVE  LatchInv' /\ LatchRule
  <2>1. CASE RequestRecovery(w) \/ DeleteSource(w) \/ CreateInstrumentationConfig(w)
    BY <2>1, OtherWritersLatch DEF RequestRecovery, DeleteSource, CreateInstrumentationConfig
  <2> QED
    BY <1>1, <1>3, <1>5, <2>1 DEF Users, ChangeRules, CreateSource
<1>6. CASE RestartInstrumentor
  BY <1>6, LatchRuleUnchanged DEF RestartInstrumentor, LatchInv, Agrees, LatchKept
<1> QED
  BY <1>1, <1>2, <1>4, <1>5, <1>6 DEF Next, vars, ChangeConf

\* No interleaving of the controllers, of lost or refused writes and of crashes
\* injects agents into a rolled back workload or clears its latch without a
\* recovery request.
THEOREM LatchCorrect == Spec => RollbackLatchHolds
<1>1. Init => LatchInv
  <2> SUFFICES ASSUME Init PROVE LatchInv
    OBVIOUS
  <2>1. \A w \in Workloads : LatchKept(ic[w])
    BY NewInstrumentationConfigType DEF Init, LatchKept
  <2>2. \A r \in Controllers : busy[r] = nil
    BY DEF Init
  <2> QED
    BY <2>1, <2>2 DEF LatchInv
<1>2. TypeOK /\ LatchInv /\ [Next]_vars => LatchInv' /\ [LatchRule]_vars
  BY LatchStep
<1> QED
  BY <1>1, <1>2, RolloutTypeCorrect, PTL DEF Spec, RollbackLatchHolds, LatchRule
=============================================================================
