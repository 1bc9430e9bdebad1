------------------------- MODULE RolloutSlotProofs -------------------------
(***************************************************************************)
(* Theorems about the slots of the rollout concurrency limiter in Rollout: *)
(* which of them may be forgotten, and that the controllers implement      *)
(* RolloutLimiter, for every set of workloads and controllers, every       *)
(* configuration, and whatever the environment does.                       *)
(***************************************************************************)
EXTENDS RolloutProofs, FiniteSetTheorems

-----------------------------------------------------------------------------
(* No slot is forgotten on another path than those that Dropped records *)

\* r has w to do: it is queued, or r is about to look at it or will queue it again.
Attends(r, w) ==
    \/ <<r, w>> \in queue
    \/ busy[r] # nil /\ busy[r].w = w /\ (busy[r].step = "do" \/ busy[r].requeue)

\* Every slot is attended to by a controller that can release it, or was dropped.
Attended ==
    \A w \in inFlightRollouts :
        hist[w].dropped \/ \E r \in Controllers \ NoLimiter : Attends(r, w)

\* All that the controllers have to do stays, short of r's work on w.
AttendsElsewhere(r, w) ==
    \A q \in Controllers, u \in Workloads :
        Attends(q, u) /\ (q # r \/ u # w) => Attends(q, u)'

\* What is on record as dropped stays so.
DroppedStays(u) == hist[u].dropped => hist'[u].dropped

\* Only the first step of a reconcile takes a workload off this record.
LEMMA DroppedKept ==
    ASSUME TypeOK, NEW w \in Workloads, NEW r,
           \/ UNCHANGED hist
           \/ hist' = Dropped(r, w)
           \/ \E b \in BOOLEAN : \/ hist' = [hist EXCEPT ![w].rolledBack = b]
                               \/ hist' = [hist EXCEPT ![w].missed = b]
    PROVE  \A u \in Workloads : DroppedStays(u)
<1>1. hist[w] \in Histories
  BY DEF TypeOK
<1>2. CASE hist' = Dropped(r, w)
  BY <1>1, <1>2 DEF TypeOK, Dropped, DroppedStays, Histories
<1>3. ASSUME NEW b \in BOOLEAN, \/ hist' = [hist EXCEPT ![w].rolledBack = b]
                                \/ hist' = [hist EXCEPT ![w].missed = b]
      PROVE  \A u \in Workloads : DroppedStays(u)
  BY <1>1, <1>3 DEF TypeOK, DroppedStays, Histories
<1> QED
  BY <1>2, <1>3 DEF DroppedStays

\* A controller with the limiter that drops a workload is recorded.
LEMMA DroppedRecorded ==
    ASSUME TypeOK, NEW w \in Workloads, NEW r, r \notin NoLimiter, hist' = Dropped(r, w)
    PROVE  hist'[w].dropped
<1>1. hist[w] \in Histories
  BY DEF TypeOK
<1> QED
  BY <1>1 DEF TypeOK, Dropped, Histories

\* A step of r about w keeps the slots attended to if r still has w to do, has
\* dropped it, has released its slot, or works without the limiter.
LEMMA AttendedKept ==
    ASSUME TypeOK, Attended, NEW r \in Controllers, NEW w \in Workloads,
           AttendsElsewhere(r, w),
           \A u \in Workloads : u = w \/ DroppedStays(u),
           inFlightRollouts' \subseteq inFlightRollouts \cup {w},
           \/ /\ r \in NoLimiter /\ DroppedStays(w)
              /\ inFlightRollouts' \subseteq inFlightRollouts
           \/ r \notin NoLimiter /\ Attends(r, w)'
           \/ hist'[w].dropped
           \/ w \notin inFlightRollouts'
    PROVE  Attended'
<1> SUFFICES ASSUME NEW u \in inFlightRollouts'
             PROVE  hist'[u].dropped \/ \E q \in Controllers \ NoLimiter : Attends(q, u)'
  BY DEF Attended
<1>1. CASE u = w /\ (hist'[w].dropped \/ (r \notin NoLimiter /\ Attends(r, w)'))
  BY <1>1
<1>2. CASE u \in inFlightRollouts /\ (u # w \/ (r \in NoLimiter /\ DroppedStays(w)))
  <2>1. u \in Workloads /\ DroppedStays(u)
    BY <1>2 DEF TypeOK
  <2>2. CASE hist[u].dropped
    BY <2>1, <2>2 DEF DroppedStays
  <2>3. ASSUME NEW q \in Controllers \ NoLimiter, Attends(q, u)
        PROVE  Attends(q, u)'
    BY <1>2, <2>1, <2>3 DEF AttendsElsewhere
  <2> QED
    BY <1>2, <2>2, <2>3 DEF Attended
<1> QED
  BY <1>1, <1>2

\* A write of an InstrumentationConfig leaves what the others have to do.
LEMMA ContinueAttends ==
    ASSUME TypeOK, NEW r, NEW w, NEW v, Continue(r, w, v), NEW q \in Controllers, q # r,
           NEW u, Attends(q, u), queue \subseteq queue' \cup {<<r, w>>}
    PROVE  Attends(q, u)'
<1>1. CASE <<q, u>> \in queue
  BY <1>1 DEF Attends
<1>2. CASE busy[q] # nil /\ busy[q].w = u /\ (busy[q].step = "do" \/ busy[q].requeue)
  <2> DEFINE m == [busy[q] EXCEPT !.stale = TRUE]
  <2>1. busy[q] \in Reconciles
    BY <1>2, BusyType
  <2>2. m \in Reconciles /\ m.w = u /\ (m.step = "do" \/ m.requeue)
    BY <1>2, <2>1 DEF Reconciles
  <2>3. busy'[q] = m \/ busy'[q] = busy[q]
    BY DEF Continue
  <2>4. m # nil
    BY <2>2, NilAssumption
  <2> HIDE DEF m
  <2> QED
    BY <1>2, <2>2, <2>3, <2>4 DEF Attends
<1> QED
  BY <1>1, <1>2 DEF Attends

\* At the end of rollout.Do all other work stays; so does r's if it is to be
\* queued again.
LEMMA EndDoAttends ==
    ASSUME TypeOK, NEW r \in Controllers, Doing(r), NEW w \in Workloads, w = busy[r].w,
           NEW c \in InstrumentationConfigs,
           NEW statusChanged, NEW requeue \in BOOLEAN, EndDo(r, c, statusChanged, requeue)
    PROVE  /\ AttendsElsewhere(r, w)
           /\ requeue => Attends(r, w)'
<1> DEFINE m == busy[r]
           write == statusChanged \/ m.changed
           n == [m EXCEPT !.step = "status", !.ic = c, !.requeue = requeue]
           v == IF write THEN n ELSE nil
<1>1. /\ Continue(r, w, v)
      /\ queue' = queue \cup (IF requeue /\ ~write THEN Requeued(r, w) ELSE {})
  BY DEF EndDo
<1>2. m \in Reconciles /\ m # nil
  BY BusyType DEF Doing
<1>3. n.w = w /\ n.requeue = requeue
  BY <1>2 DEF Reconciles
<1>4. n # nil
  BY <1>2, NilAssumption DEF Reconciles
<1>5. busy'[r] = v
  BY <1>1 DEF Continue
<1>6. AttendsElsewhere(r, w)
  <2> SUFFICES ASSUME NEW q \in Controllers, NEW u \in Workloads, Attends(q, u),
                      q # r \/ u # w
               PROVE  Attends(q, u)'
    BY DEF AttendsElsewhere
  <2>1. CASE q # r
    <3> HIDE DEF v
    <3> QED
      BY <1>1, <2>1, ContinueAttends
  <2>2. CASE q = r /\ u # w
    BY <1>1, <2>2 DEF Attends
  <2> QED
    BY <2>1, <2>2
<1>7. ASSUME requeue PROVE Attends(r, w)'
  <2>1. CASE write
    <3> HIDE DEF n
    <3> QED
      BY <1>3, <1>4, <1>5, <1>7, <2>1 DEF Attends
  <2>2. CASE ~write
    <3>1. <<r, w>> \in queue'
      BY <1>1, <1>2, <1>7, <2>2 DEF Requeued
    <3> QED
      BY <3>1 DEF Attends
  <2> QED
    BY <2>1, <2>2
<1> QED
  BY <1>6, <1>7
\* A step that leaves all the work and takes no slot keeps the slots attended to.
LEMMA AttendedUnchanged ==
    ASSUME TypeOK, Attended, inFlightRollouts' \subseteq inFlightRollouts,
           \A u \in Workloads : DroppedStays(u),
           \A q \in Controllers, u \in Workloads : Attends(q, u) => Attends(q, u)'
    PROVE  Attended'
<1> SUFFICES ASSUME NEW u \in inFlightRollouts'
             PROVE  hist'[u].dropped \/ \E q \in Controllers \ NoLimiter : Attends(q, u)'
  BY DEF Attended
<1>1. u \in Workloads
  BY DEF TypeOK
<1> QED
  BY <1>1 DEF Attended, DroppedStays

\* The first step of a reconcile.
LEMMA StartReconcileAttended ==
    ASSUME TypeOK, Attended, NEW r \in Controllers, NEW w \in Workloads, StartReconcile(r, w)
    PROVE  Attended'
<1>0. PICK t \in Nat : SpecWritten(r, w, t)
  BY StartReconcileStep
<1> DEFINE spec == UpdatedSpec(w, ic[w], t)
           cond == AgentEnabledCondition(w, ic[w])
           missed == Misses(w, spec)
           m == [w |-> w, conf |-> conf, ic |-> [spec EXCEPT !.agentEnabled = cond],
                 stale |-> FALSE, changed |-> ic[w].agentEnabled # cond,
                 requeue |-> FALSE, step |-> "do"]
<1>1. /\ Continue(r, w, m) /\ queue' = queue \ {<<r, w>>} /\ busy[r] = nil
      /\ inFlightRollouts' = inFlightRollouts
      /\ hist' = [hist EXCEPT ![w].dropped = @ /\ r \in NoLimiter, ![w].missed = missed]
  BY <1>0 DEF StartReconcile, SpecWritten
<1>2. m \in Reconciles
  <2>1. spec \in InstrumentationConfigs
    BY UpdatedSpecType DEF StartReconcile, TypeOK
  <2>2. [spec EXCEPT !.agentEnabled = cond] \in InstrumentationConfigs
    <3>1. cond \in {"Initial", "Enabled", "Disabled", "Backoff"}
      BY DEF AgentEnabledCondition
    <3> HIDE DEF spec, cond
    <3> QED
      BY <2>1, <3>1 DEF InstrumentationConfigs
  <2> HIDE DEF spec, cond
  <2> QED
    BY <2>2 DEF Reconciles, TypeOK
<1>3. m.w = w /\ m.step = "do" /\ m # nil
  BY <1>2, NilAssumption
<1> HIDE DEF m, missed
<1>4. Attends(r, w)'
  BY <1>1, <1>3 DEF Attends, Continue
<1>5. AttendsElsewhere(r, w)
  <2> SUFFICES ASSUME NEW q \in Controllers, NEW u \in Workloads, Attends(q, u),
                      q # r \/ u # w
               PROVE  Attends(q, u)'
    BY DEF AttendsElsewhere
  <2>1. CASE q # r
    BY <1>1, <2>1, ContinueAttends
  <2>2. CASE q = r /\ u # w
    BY <1>1, <2>2 DEF Attends
  <2> QED
    BY <2>1, <2>2
<1>6. \A u \in Workloads : u = w \/ DroppedStays(u)
  BY <1>1 DEF DroppedStays, TypeOK
<1>7. r \in NoLimiter => DroppedStays(w)
  <2>1. hist[w] \in Histories
    BY DEF TypeOK
  <2> QED
    BY <1>1, <2>1 DEF DroppedStays, TypeOK, Histories
<1> QED
  BY <1>1, <1>4, <1>5, <1>6, <1>7, AttendedKept

\* A reconcile of a workload without an InstrumentationConfig drops it, or
\* releases its slot, or is queued again.
LEMMA UnInstrumentAttended ==
    ASSUME TypeOK, Attended, NEW r \in Controllers, NEW w \in Workloads,
           NothingToUnInstrument(r, w) \/ UnInstrument(r, w)
    PROVE  Attended'
<1>1. UNCHANGED busy /\ queue \subseteq queue' \cup {<<r, w>>}
  BY DEF NothingToUnInstrument, UnInstrument
<1>2. AttendsElsewhere(r, w)
  BY <1>1 DEF AttendsElsewhere, Attends
<1>3. CASE NothingToUnInstrument(r, w)
  <2>1. hist' = Dropped(r, w) /\ inFlightRollouts' = inFlightRollouts
    BY <1>3 DEF NothingToUnInstrument
  <2> QED
    BY <1>2, <2>1, DroppedKept, DroppedRecorded, AttendedKept
<1>4. CASE UnInstrument(r, w)
  <2>1. UNCHANGED hist /\ inFlightRollouts' = ReleaseWorkloadRolloutSlot(r, w)
    BY <1>4 DEF UnInstrument
  <2>2. /\ inFlightRollouts' \subseteq inFlightRollouts
        /\ r \in NoLimiter \/ w \notin inFlightRollouts'
    BY <2>1 DEF ReleaseWorkloadRolloutSlot
  <2>3. \A u \in Workloads : DroppedStays(u)
    BY <2>1 DEF DroppedStays
  <2> QED
    BY <1>2, <2>2, <2>3, AttendedKept
<1> QED
  BY <1>3, <1>4

\* The second step: rollout.Do.
LEMMA DoAttended ==
    ASSUME TypeOK, Attended, NEW r \in Controllers, Do(r)
    PROVE  Attended'
<1>0. Doing(r)
  BY DEF Do, DoWithoutWorkload, RecoverFromRollback, RolloutNotNeeded, WaitBeforeRollback,
         TriggerRollback, AwaitRollout, RolloutFinished, PreviousRolloutOngoing, WaitInQueue,
         RestartForHash, Comparing
<1> PICK w \in Workloads : w = busy[r].w
  BY <1>0, BusyType DEF Doing
<1>1. /\ busy[r].ic \in InstrumentationConfigs /\ ForRollbackCheck(r) \in InstrumentationConfigs
      /\ busy[r].conf \in Confs
  BY <1>0, BusyType, ForRollbackCheckType DEF Doing
<1>2. ic[w] # nil => ic[w] \in InstrumentationConfigs
  BY DEF TypeOK
<1> DEFINE HistOK == \A u \in Workloads : DroppedStays(u)
<1>3. ASSUME NEW c \in InstrumentationConfigs, NEW b, EndDo(r, c, b, TRUE), HistOK,
             \/ inFlightRollouts' = inFlightRollouts
             \/ inFlightRollouts' = AcquireSlot(r, w)
             \/ inFlightRollouts' = ReleaseWorkloadRolloutSlot(r, w)
      PROVE  Attended'
  <2>1. AttendsElsewhere(r, w) /\ Attends(r, w)'
    BY <1>0, <1>3, EndDoAttends
  <2>2. /\ inFlightRollouts' \subseteq inFlightRollouts \cup {w}
        /\ r \in NoLimiter => inFlightRollouts' \subseteq inFlightRollouts
    BY <1>3 DEF AcquireSlot, ReleaseWorkloadRolloutSlot
  <2> QED
    BY <1>3, <2>1, <2>2, AttendedKept
<1>4. ASSUME NEW c \in InstrumentationConfigs, NEW b, EndDo(r, c, b, FALSE), HistOK,
             inFlightRollouts' = ReleaseWorkloadRolloutSlot(r, w)
      PROVE  Attended'
  <2>1. AttendsElsewhere(r, w)
    BY <1>0, <1>4, EndDoAttends
  <2>2. /\ inFlightRollouts' \subseteq inFlightRollouts
        /\ r \in NoLimiter \/ w \notin inFlightRollouts'
    BY <1>4 DEF ReleaseWorkloadRolloutSlot
  <2> QED
    BY <1>4, <2>1, <2>2, AttendedKept
<1>5. ASSUME NEW c \in InstrumentationConfigs, NEW b, EndDo(r, c, b, FALSE),
             inFlightRollouts' = inFlightRollouts, hist' = Dropped(r, w)
      PROVE  Attended'
  <2>1. AttendsElsewhere(r, w)
    BY <1>0, <1>5, EndDoAttends
  <2> QED
    BY <1>5, <2>1, DroppedKept, DroppedRecorded, AttendedKept
<1>6. ASSUME NEW c \in InstrumentationConfigs,
             NEW cond \in {"NotRequired", "RolloutDisabled", "Finished", "Ongoing",
                           "WaitingInQueue", "Triggered", "FailedToPatch"}
      PROVE  [c EXCEPT !.rollout = cond] \in InstrumentationConfigs
  BY DEF InstrumentationConfigs
<1>7. UNCHANGED hist => HistOK
  BY DEF DroppedStays
<1>8. CASE DoWithoutWorkload(r)
  BY <1>1, <1>5, <1>8 DEF DoWithoutWorkload
<1>9. CASE RecoverFromRollback(r)
  <2> DEFINE recovered == [[ic[w] EXCEPT !.recovery = "processed"] EXCEPT !.rollbackOccurred = FALSE]
  <2>1. inFlightRollouts' = inFlightRollouts
    BY <1>9 DEF RecoverFromRollback
  <2>2. CASE ic[w] = nil
    <3>1. EndDo(r, busy[r].ic, FALSE, FALSE) /\ hist' = Dropped(r, w)
      BY <1>9, <2>2 DEF RecoverFromRollback, Refused
    <3> QED
      BY <1>1, <1>5, <2>1, <3>1
  <2>3. CASE ic[w] # nil
    <3>1. recovered \in InstrumentationConfigs
      BY <1>2, <2>3 DEF InstrumentationConfigs
    <3>2. /\ EndDo(r, busy[r].ic, FALSE, TRUE) \/ EndDo(r, recovered, FALSE, TRUE)
          /\ UNCHANGED hist
      BY <1>9, <2>3 DEF RecoverFromRollback
    <3> HIDE DEF recovered
    <3> QED
      BY <1>1, <1>3, <1>7, <2>1, <3>1, <3>2
  <2> QED
    BY <2>2, <2>3
<1>10. CASE RolloutNotNeeded(r)
  BY <1>1, <1>4, <1>6, <1>7, <1>10 DEF RolloutNotNeeded, EndDoWithCondition
<1>11. CASE WaitBeforeRollback(r)
  BY <1>1, <1>3, <1>7, <1>11 DEF WaitBeforeRollback
<1>12. CASE TriggerRollback(r)
  <2>1. CASE Refused(r)
    <3>1. /\ EndDo(r, ForRollbackCheck(r), FALSE, FALSE)
          /\ inFlightRollouts' = inFlightRollouts /\ hist' = Dropped(r, w)
      BY <1>12, <2>1 DEF TriggerRollback
    <3> QED
      BY <1>1, <1>5, <3>1
  <2>2. CASE ~Refused(r)
    <3> DEFINE rolledBack == [[ic[w] EXCEPT !.injection = FALSE] EXCEPT !.rollbackOccurred = TRUE]
               triggered == [rolledBack EXCEPT !.rollout = "Triggered", !.agentEnabled = "Backoff"]
    <3>1. rolledBack \in InstrumentationConfigs
      BY <1>2, <2>2 DEF Refused, InstrumentationConfigs
    <3>2. triggered \in InstrumentationConfigs
      <4> HIDE DEF rolledBack
      <4> QED
        BY <3>1 DEF InstrumentationConfigs
    <3>3. /\ EndDo(r, triggered, TRUE, TRUE) \/ EndDo(r, rolledBack, FALSE, TRUE)
          /\ inFlightRollouts' = ReleaseWorkloadRolloutSlot(r, w)
          /\ hist' = [hist EXCEPT ![w].rolledBack = TRUE]
      BY <1>12, <2>2 DEF TriggerRollback
    <3> HIDE DEF rolledBack, triggered
    <3>4. HistOK
      BY <3>3, DroppedKept
    <3> QED
      BY <1>3, <3>1, <3>2, <3>3, <3>4
  <2> QED
    BY <2>1, <2>2
<1>13. CASE AwaitRollout(r)
  <2>1. CASE busy[r].conf.rollbackDisabled
    <3>1. /\ EndDo(r, busy[r].ic, FALSE, FALSE)
          /\ inFlightRollouts' = inFlightRollouts /\ hist' = Dropped(r, w)
      BY <1>13, <2>1 DEF AwaitRollout
    <3> QED
      BY <1>1, <1>5, <3>1
  <2>2. CASE ~busy[r].conf.rollbackDisabled
    <3>1. /\ EndDo(r, busy[r].ic, FALSE, TRUE)
          /\ inFlightRollouts' = inFlightRollouts /\ UNCHANGED hist
      BY <1>13, <2>2 DEF AwaitRollout
    <3> QED
      BY <1>1, <1>3, <1>7, <3>1
  <2> QED
    BY <2>1, <2>2
<1>14. CASE RolloutFinished(r)
  BY <1>1, <1>4, <1>6, <1>7, <1>14 DEF RolloutFinished, EndDoWithCondition
<1>15. CASE PreviousRolloutOngoing(r)
  BY <1>1, <1>3, <1>6, <1>7, <1>15 DEF PreviousRolloutOngoing, EndDoWithCondition
<1>16. CASE WaitInQueue(r)
  BY <1>1, <1>3, <1>6, <1>7, <1>16 DEF WaitInQueue, EndDoWithCondition
<1>17. CASE RestartForHash(r)
  <2> DEFINE c == ForRollbackCheck(r)
             done == [c EXCEPT !.saved = c.hash,
                               !.instrumentationTime = @ \/ c.injection]
  <2>1. done \in InstrumentationConfigs
    <3>0. c \in InstrumentationConfigs
      BY <1>1
    <3> HIDE DEF c
    <3> QED
      BY <3>0 DEF InstrumentationConfigs
  <2>2. /\ \/ EndDo(r, [done EXCEPT !.rollout = "Triggered"], TRUE, TRUE)
           \/ EndDo(r, [done EXCEPT !.rollout = "FailedToPatch"], TRUE, TRUE)
        /\ inFlightRollouts' = AcquireSlot(r, w)
        /\ UNCHANGED hist \/ \E b \in BOOLEAN : hist' = [hist EXCEPT ![w].missed = b]
    BY <1>17 DEF RestartForHash
  <2> HIDE DEF done
  <2>3. HistOK
    BY <2>2, DroppedKept
  <2> QED
    BY <1>3, <1>6, <2>1, <2>2, <2>3
<1> QED
  BY <1>8, <1>9, <1>10, <1>11, <1>12, <1>13, <1>14, <1>15, <1>16, <1>17 DEF Do

\* The last step: a refused, failed or unfinished reconcile is queued again, or
\* dropped with its InstrumentationConfig.
LEMMA WriteStatusAttended ==
    ASSUME TypeOK, Attended, NEW r \in Controllers, WriteStatus(r)
    PROVE  Attended'
<1> PICK w \in Workloads : w = busy[r].w
  BY BusyType DEF WriteStatus
<1>1. /\ busy[r].step = "status" /\ Continue(r, w, nil)
      /\ inFlightRollouts' = inFlightRollouts
  BY DEF WriteStatus
<1>2. \/ queue' = queue \cup Requeued(r, w) /\ UNCHANGED hist
      \/ ~busy[r].requeue /\ queue' = queue /\ UNCHANGED hist
      \/ queue' = queue /\ hist' = Dropped(r, w)
  BY <1>1 DEF WriteStatus
<1>3. queue \subseteq queue'
  BY <1>2
<1>4. AttendsElsewhere(r, w)
  <2> SUFFICES ASSUME NEW q \in Controllers, NEW u \in Workloads, Attends(q, u),
                      q # r \/ u # w
               PROVE  Attends(q, u)'
    BY DEF AttendsElsewhere
  <2>1. CASE q # r
    BY <1>1, <1>3, <2>1, ContinueAttends
  <2>2. CASE q = r /\ u # w
    BY <1>3, <2>2 DEF Attends
  <2> QED
    BY <2>1, <2>2
<1>5. CASE hist' = Dropped(r, w)
  BY <1>1, <1>4, <1>5, DroppedKept, DroppedRecorded, AttendedKept
<1>6. CASE /\ UNCHANGED hist
           /\ queue' = queue \cup Requeued(r, w) \/ (~busy[r].requeue /\ queue' = queue)
  <2>1. \A u \in Workloads : DroppedStays(u)
    BY <1>6 DEF DroppedStays
  <2>2. <<r, w>> \in Requeued(r, w)
    BY DEF Requeued
  <2>3. Attends(r, w) => Attends(r, w)'
    BY <1>1, <1>3, <1>6, <2>2 DEF Attends
  <2> QED
    BY <1>1, <1>4, <2>1, <2>3, AttendedUnchanged DEF AttendsElsewhere
<1> QED
  BY <1>2, <1>5, <1>6

\* Everyone else adds to the work of the controllers.
LEMMA OthersAttended ==
    ASSUME TypeOK, Attended, [Next]_vars, ~\E r \in Controllers : Reconcile(r)
    PROVE  Attended'
<1>1. CASE RestartInstrumentor
  BY <1>1 DEF RestartInstrumentor, Attended
<1>2. ASSUME queue \subseteq queue', inFlightRollouts' = inFlightRollouts,
             \A u \in Workloads : DroppedStays(u),
             UNCHANGED busy \/ (\E w \in Workloads : Continue(nil, w, nil))
      PROVE  Attended'
  <2>1. ASSUME NEW q \in Controllers, NEW u \in Workloads, Attends(q, u)
        PROVE  Attends(q, u)'
    <3>1. CASE UNCHANGED busy
      BY <1>2, <2>1, <3>1 DEF Attends
    <3>2. ASSUME NEW w \in Workloads, Continue(nil, w, nil) PROVE Attends(q, u)'
      BY <1>2, <2>1, <3>2, ContinueAttends, NilAssumption
    <3> QED
      BY <1>2, <3>1, <3>2
  <2> QED
    BY <1>2, <2>1, AttendedUnchanged
<1>3. ASSUME NEW w \in Workloads, Kubernetes(w) PROVE Attended'
  <2>1. /\ queue \subseteq queue' /\ inFlightRollouts' = inFlightRollouts
        /\ UNCHANGED busy \/ Continue(nil, w, nil)
        /\ UNCHANGED hist \/ hist' = [hist EXCEPT ![w].rolledBack = FALSE]
    BY <1>3 DEF Kubernetes, InformerSync, CreatePods,
         CompleteRollout, PodsEnterBackoff, ReplacePods, PauseDeployment, Cluster,
         DeleteWorkload, CreateWorkload, CollectGarbage, WriteInstrumentationConfig
  <2>2. \A u \in Workloads : DroppedStays(u)
    BY <2>1, DroppedKept
  <2> QED
    BY <1>2, <2>1, <2>2
<1>4. ASSUME NEW w \in Workloads, NEW d \in Desires, ChangeRuntimeDetails(w, d) PROVE Attended'
  <2>1. ASSUME NEW q \in Controllers, NEW u \in Workloads, Attends(q, u)
        PROVE  Attends(q, u)'
    <3>1. CASE <<q, u>> \in queue
      BY <1>4, <3>1 DEF Attends, ChangeRuntimeDetails
    <3>2. CASE busy[q] # nil /\ busy[q].w = u /\ (busy[q].step = "do" \/ busy[q].requeue)
      <4> DEFINE m == [busy[q] EXCEPT !.stale = TRUE]
      <4>1. busy[q] \in Reconciles
        BY <3>2, BusyType
      <4>2. m \in Reconciles /\ m.w = u /\ (m.step = "do" \/ m.requeue)
        BY <3>2, <4>1 DEF Reconciles
      <4>3. busy'[q] = m \/ busy'[q] = busy[q]
        BY <1>4 DEF ChangeRuntimeDetails
      <4>4. m # nil
        BY <4>2, NilAssumption
      <4> HIDE DEF m
      <4> QED
        BY <3>2, <4>2, <4>3, <4>4 DEF Attends
    <3> QED
      BY <2>1, <3>1, <3>2 DEF Attends
  <2> QED
    BY <1>4, <2>1, AttendedUnchanged DEF ChangeRuntimeDetails, DroppedStays
<1>5. ASSUME NEW w \in Workloads, Users(w), ~\E d \in Desires : ChangeRuntimeDetails(w, d)
      PROVE  Attended'
  <2>1. /\ queue \subseteq queue' /\ inFlightRollouts' = inFlightRollouts
        /\ UNCHANGED busy \/ Continue(nil, w, nil)
        /\ UNCHANGED hist \/ hist' = [hist EXCEPT ![w].rolledBack = FALSE]
    BY <1>5 DEF Users, ChangeRules, RequestRecovery, DeleteSource, CreateSource,
         CreateInstrumentationConfig, WriteInstrumentationConfig
  <2>2. \A u \in Workloads : DroppedStays(u)
    BY <2>1, DroppedKept
  <2> QED
    BY <1>2, <2>1, <2>2
<1>6. CASE \E r \in Controllers, c \in Confs : ChangeConf(r, c)
  BY <1>2, <1>6 DEF ChangeConf, DroppedStays
<1>7. CASE UNCHANGED vars
  BY <1>2, <1>7 DEF vars, DroppedStays
<1> QED
  BY <1>1, <1>3, <1>4, <1>5, <1>6, <1>7 DEF Next

\* A slot of the limiter is forgotten on no path but those that Dropped records:
\* in every other case a controller that can release it has the workload that holds
\* it to reconcile, through lost status writes, conflicts, crashing pods, deletions,
\* rollbacks, changes of the configuration and restarts of the instrumentor.
THEOREM SlotCorrect == Spec => []SlotHolderIsReconciled
<1>1. Init => Attended
  BY DEF Init, Attended
<1>2. TypeOK /\ Attended /\ [Next]_vars => Attended'
  <2> SUFFICES ASSUME TypeOK, Attended, [Next]_vars PROVE Attended'
    OBVIOUS
  <2>1. ASSUME NEW r \in Controllers, Reconcile(r) PROVE Attended'
    BY <2>1, StartReconcileAttended, UnInstrumentAttended, DoAttended, WriteStatusAttended
    DEF Reconcile
  <2> QED
    BY <2>1, OthersAttended
<1>3. Attended => SlotHolderIsReconciled
  BY DEF Attended, Attends, SlotHolderIsReconciled
<1> QED
  BY <1>1, <1>2, <1>3, RolloutTypeCorrect, PTL DEF Spec

-----------------------------------------------------------------------------
(* The controllers implement the limiter *)

\* The rollouts that started on a slot, and those whose slot was given back.
OnSlot == {w \in Workloads : wl[w] # nil /\ wl[w].slot # "none"}
Early == {w \in Workloads : wl[w] # nil /\ wl[w].slot = "early"}

\* A workload has the slot of a rollout only while the rollout goes on.
SlotRolling == \A w \in Workloads : wl[w] # nil /\ wl[w].slot # "none" => wl[w].rolling

\* What a step may do to the slots and to the rollouts on them: nothing, take a slot
\* for w, give it back, end w's rollout, or both.
LimiterStep(w) ==
    \/ UNCHANGED <<inFlightRollouts, OnSlot, Early>>
    \/ /\ w \in inFlightRollouts \/ Cardinality(inFlightRollouts) < MaxLimit
       /\ inFlightRollouts' = inFlightRollouts \cup {w}
       /\ \/ UNCHANGED <<OnSlot, Early>>
          \/ OnSlot' = OnSlot \cup {w} /\ Early' = Early \ {w}
    \/ /\ inFlightRollouts' = inFlightRollouts \ {w}
       /\ Early' = Early \cup ({w} \cap OnSlot)
       /\ UNCHANGED OnSlot
    \/ /\ inFlightRollouts' \in {inFlightRollouts, inFlightRollouts \ {w}}
       /\ OnSlot' = OnSlot \ {w} /\ Early' = Early \ {w}

\* How a write of a workload changes the rollouts.
LEMMA SlotWrite ==
    ASSUME TypeOK, NEW w \in Workloads, NEW y, wl' = [wl EXCEPT ![w] = y]
    PROVE  /\ y = nil \/ y.slot = "none" => OnSlot' = OnSlot \ {w} /\ Early' = Early \ {w}
           /\ y # nil /\ y.slot = "held"
                => OnSlot' = OnSlot \cup {w} /\ Early' = Early \ {w}
           /\ y # nil /\ y.slot = "early"
                => OnSlot' = OnSlot \cup {w} /\ Early' = Early \cup {w}
           /\ y # nil /\ wl[w] # nil /\ y.slot = wl[w].slot => UNCHANGED <<OnSlot, Early>>
           /\ SlotRolling /\ (y # nil /\ y.slot # "none" => y.rolling) => SlotRolling'
<1>1. wl'[w] = y /\ \A u \in Workloads : u # w => wl'[u] = wl[u]
  BY DEF TypeOK
<1>2. ASSUME wl[w] # nil, y # nil, y.slot = wl[w].slot PROVE UNCHANGED <<OnSlot, Early>>
  BY <1>1, <1>2 DEF OnSlot, Early
<1>3. ASSUME y = nil \/ y.slot = "none" PROVE OnSlot' = OnSlot \ {w} /\ Early' = Early \ {w}
  BY <1>1, <1>3 DEF OnSlot, Early
<1>4. ASSUME y # nil, y.slot = "held"
      PROVE  OnSlot' = OnSlot \cup {w} /\ Early' = Early \ {w}
  BY <1>1, <1>4 DEF OnSlot, Early
<1>5. ASSUME y # nil, y.slot = "early"
      PROVE  OnSlot' = OnSlot \cup {w} /\ Early' = Early \cup {w}
  BY <1>1, <1>5 DEF OnSlot, Early
<1>6. ASSUME SlotRolling, y # nil /\ y.slot # "none" => y.rolling PROVE SlotRolling'
  BY <1>1, <1>6 DEF SlotRolling
<1> QED
  BY <1>2, <1>3, <1>4, <1>5, <1>6

\* A restart has the slot it is given, and goes on.
LEMMA RestartedSlot ==
    ASSUME NEW x \in WorkloadObjects, NEW slot \in {"none", "held", "early"}, NEW stamp \in Nat,
           NEW seen \in SeenAfterRestart(x)
    PROVE  LET y == Restarted(x, slot, stamp, seen)
           IN  y \in WorkloadObjects /\ y.slot = slot /\ y.rolling = TRUE
<1>1. Restarted(x, slot, stamp, seen) \in WorkloadObjects
  BY RestartedType
<1> QED
  BY <1>1 DEF Restarted, WorkloadObjects

\* A slot that is given back makes the rollout it was for early.
LEMMA GivenBackSlot ==
    ASSUME NEW r, NEW x \in WorkloadObjects
    PROVE  LET y == GivenBack(r, x)
           IN  /\ y \in WorkloadObjects /\ y.rolling = x.rolling
               /\ y.slot = IF r \notin NoLimiter /\ x.slot = "held" THEN "early" ELSE x.slot
<1>1. CASE r \notin NoLimiter /\ x.slot = "held"
  <2>1. GivenBack(r, x) = [x EXCEPT !.slot = "early"]
    BY <1>1 DEF GivenBack
  <2> QED
    BY <1>1, <2>1 DEF WorkloadObjects
<1>2. CASE ~(r \notin NoLimiter /\ x.slot = "held")
  BY <1>2 DEF GivenBack
<1> QED
  BY <1>1, <1>2

\* r gives back w's slot while its rollout may go on.
LEMMA GiveBackStep ==
    ASSUME TypeOK, SlotRolling, NEW r, NEW w \in Workloads, wl[w] # nil,
           inFlightRollouts' = ReleaseWorkloadRolloutSlot(r, w),
           wl' = [wl EXCEPT ![w] = GivenBack(r, @)]
    PROVE  LimiterStep(w) /\ SlotRolling'
<1> DEFINE x == wl[w]
           y == GivenBack(r, x)
<1>1. x \in WorkloadObjects /\ wl' = [wl EXCEPT ![w] = y]
  BY DEF TypeOK
<1>2. /\ y \in WorkloadObjects /\ y.rolling = x.rolling
      /\ y.slot = IF r \notin NoLimiter /\ x.slot = "held" THEN "early" ELSE x.slot
  BY <1>1, GivenBackSlot
<1> HIDE DEF y
<1>3. y # nil
  BY <1>2, NilAssumption
<1>4. x.slot \in {"none", "held", "early"}
  BY <1>1 DEF WorkloadObjects
<1>5. SlotRolling'
  BY <1>1, <1>2, <1>3, SlotWrite DEF SlotRolling
<1>6. CASE r \in NoLimiter
  <2>1. UNCHANGED <<OnSlot, Early>> /\ inFlightRollouts' = inFlightRollouts
    BY <1>1, <1>2, <1>3, <1>6, SlotWrite DEF ReleaseWorkloadRolloutSlot
  <2> QED
    BY <1>5, <2>1 DEF LimiterStep
<1>7. CASE r \notin NoLimiter
  <2>1. inFlightRollouts' = inFlightRollouts \ {w}
    BY <1>7 DEF ReleaseWorkloadRolloutSlot
  <2>2. CASE x.slot = "none"
    <3>1. UNCHANGED <<OnSlot, Early>> /\ w \notin OnSlot
      BY <1>1, <1>2, <1>3, <2>2, SlotWrite DEF OnSlot
    <3> QED
      BY <1>5, <2>1, <3>1 DEF LimiterStep
  <2>3. CASE x.slot # "none"
    <3>1. y.slot = "early" /\ w \in OnSlot
      BY <1>2, <1>4, <1>7, <2>3 DEF OnSlot
    <3>2. OnSlot' = OnSlot \cup {w} /\ Early' = Early \cup {w}
      BY <1>1, <1>3, <3>1, SlotWrite
    <3> QED
      BY <1>5, <2>1, <3>1, <3>2 DEF LimiterStep
  <2> QED
    BY <2>2, <2>3
<1> QED
  BY <1>5, <1>6, <1>7

\* A restart that asks no limiter takes the place of w's rollout.
LEMMA TakeOverStep ==
    ASSUME TypeOK, SlotRolling, NEW w \in Workloads, wl[w] # nil, NEW stamp \in Nat,
           NEW seen \in SeenAfterRestart(wl[w]),
           inFlightRollouts' \in {inFlightRollouts, inFlightRollouts \ {w}},
           wl' = [wl EXCEPT ![w] = Restarted(@, "none", stamp, seen)]
    PROVE  LimiterStep(w) /\ SlotRolling'
<1> DEFINE y == Restarted(wl[w], "none", stamp, seen)
<1>1. wl[w] \in WorkloadObjects /\ wl' = [wl EXCEPT ![w] = y]
  BY DEF TypeOK
<1>2. y.slot = "none" /\ y.rolling = TRUE
  BY <1>1, RestartedSlot
<1> HIDE DEF y
<1>3. OnSlot' = OnSlot \ {w} /\ Early' = Early \ {w} /\ SlotRolling'
  BY <1>1, <1>2, SlotWrite
<1> QED
  BY <1>3 DEF LimiterStep

\* Restarting a workload without an InstrumentationConfig releases its slot.
LEMMA UnInstrumentLimiter ==
    ASSUME TypeOK, SlotRolling, NEW r \in Controllers, NEW w \in Workloads, UnInstrument(r, w)
    PROVE  LimiterStep(w) /\ SlotRolling'
<1>1. wl[w] # nil /\ inFlightRollouts' = ReleaseWorkloadRolloutSlot(r, w)
  BY DEF UnInstrument, MustUnInstrument
<1>2. inFlightRollouts' \in {inFlightRollouts, inFlightRollouts \ {w}}
  BY <1>1 DEF ReleaseWorkloadRolloutSlot
<1>3. ASSUME NEW seen \in SeenAfterRestart(wl[w]),
             wl' = [wl EXCEPT ![w] = Restarted(@, "none", 0, seen)]
      PROVE  LimiterStep(w) /\ SlotRolling'
  BY <1>1, <1>2, <1>3, TakeOverStep
<1>4. CASE wl' = [wl EXCEPT ![w] = GivenBack(r, @)]
  BY <1>1, <1>4, GiveBackStep
<1> QED
  BY <1>3, <1>4 DEF UnInstrument

\* rollout.Do takes a slot before a restart, and releases it when there is nothing to
\* restart for, with a rollback, or when the rollout is over.
LEMMA DoLimiter ==
    ASSUME TypeOK, SlotRolling, IsFiniteSet(inFlightRollouts), NEW r \in Controllers, Do(r)
    PROVE  SlotRolling' /\ \E w \in Workloads : LimiterStep(w)
<1>0. Doing(r)
  BY DEF Do, DoWithoutWorkload, RecoverFromRollback, RolloutNotNeeded, WaitBeforeRollback,
         TriggerRollback, AwaitRollout, RolloutFinished, PreviousRolloutOngoing, WaitInQueue,
         RestartForHash, Comparing
<1> PICK w \in Workloads : w = busy[r].w
  BY <1>0, BusyType DEF Doing
<1> SUFFICES LimiterStep(w) /\ SlotRolling'
  OBVIOUS
<1>1. /\ busy[r].conf \in Confs /\ busy[r].conf.maxConcurrentRollouts \in Nat
      /\ busy[r].conf.maxConcurrentRollouts <= MaxLimit /\ MaxLimit \in Nat
      /\ wl[w] # nil => wl[w] \in WorkloadObjects
  BY <1>0, BusyType, RolloutAssumption DEF Doing, TypeOK
<1>2. CASE UNCHANGED <<inFlightRollouts, wl>>
  BY <1>2 DEF LimiterStep, OnSlot, Early, SlotRolling
<1>3. CASE RolloutNotNeeded(r)
  BY <1>3, GiveBackStep DEF RolloutNotNeeded
<1>4. CASE RolloutFinished(r)
  <2>0. inFlightRollouts' = ReleaseWorkloadRolloutSlot(r, w) /\ wl[w] # nil
    BY <1>4 DEF RolloutFinished, Comparing
  <2>1. CASE ~wl[w].seen
    BY <1>4, <2>0, <2>1, GiveBackStep DEF RolloutFinished
  <2>2. CASE wl[w].seen
    <3>1. UNCHANGED wl
      BY <1>4, <2>2 DEF RolloutFinished
    <3>2. ~wl[w].rolling
      BY <1>4, <2>2 DEF RolloutFinished, IsWorkloadRolloutDone, RolloutDone
    <3>3. w \notin OnSlot
      BY <2>0, <3>2 DEF OnSlot, SlotRolling
    <3>4. UNCHANGED <<OnSlot, Early>> /\ SlotRolling'
      BY <3>1 DEF OnSlot, Early, SlotRolling
    <3> QED
      BY <2>0, <3>3, <3>4 DEF LimiterStep, ReleaseWorkloadRolloutSlot
  <2> QED
    BY <2>1, <2>2
<1>5. CASE TriggerRollback(r) /\ ~UNCHANGED <<inFlightRollouts, wl>>
  <2>1. wl[w] # nil /\ inFlightRollouts' = ReleaseWorkloadRolloutSlot(r, w)
    BY <1>5 DEF TriggerRollback, Comparing
  <2>2. inFlightRollouts' \in {inFlightRollouts, inFlightRollouts \ {w}}
    BY <2>1 DEF ReleaseWorkloadRolloutSlot
  <2>3. ASSUME NEW seen \in SeenAfterRestart(wl[w]),
               wl' = [wl EXCEPT ![w] = Restarted(@, "none", 0, seen)]
        PROVE  LimiterStep(w) /\ SlotRolling'
    BY <2>1, <2>2, <2>3, TakeOverStep
  <2>4. CASE wl' = [wl EXCEPT ![w] = GivenBack(r, @)]
    BY <2>1, <2>4, GiveBackStep
  <2> QED
    BY <1>5, <2>3, <2>4 DEF TriggerRollback
<1>6. CASE RestartForHash(r)
  <2> DEFINE c == ForRollbackCheck(r)
             slot == IF w \in AcquireSlot(r, w) THEN "held" ELSE "none"
  <2>0. c \in InstrumentationConfigs /\ c.time \in Nat
    <3>1. c \in InstrumentationConfigs
      BY <1>0, ForRollbackCheckType DEF Doing
    <3> HIDE DEF c
    <3> QED
      BY <3>1 DEF InstrumentationConfigs
  <2>1. /\ wl[w] # nil /\ TryAcquire(r, w) /\ inFlightRollouts' = AcquireSlot(r, w)
        /\ \/ UNCHANGED wl
           \/ \E seen \in SeenAfterRestart(wl[w]) :
                 wl' = [wl EXCEPT ![w] = Restarted(@, slot, c.time, seen)]
    BY <1>6 DEF RestartForHash, Comparing
  <2> HIDE DEF c
  <2>2. CASE inFlightRollouts' = inFlightRollouts \cup {w}
    <3>0. \/ w \in inFlightRollouts
          \/ inFlightRollouts' = inFlightRollouts
          \/ Cardinality(inFlightRollouts) < busy[r].conf.maxConcurrentRollouts
      BY <2>1 DEF TryAcquire, AcquireSlot
    <3>1. w \in inFlightRollouts \/ Cardinality(inFlightRollouts) < MaxLimit
      <4>1. CASE w \in inFlightRollouts \/ inFlightRollouts' = inFlightRollouts
        BY <2>2, <4>1
      <4>2. CASE Cardinality(inFlightRollouts) < busy[r].conf.maxConcurrentRollouts
        <5>1. Cardinality(inFlightRollouts) \in Nat
          BY FS_CardinalityType
        <5> QED
          BY <1>1, <4>2, <5>1
      <4> QED
        BY <3>0, <4>1, <4>2
    <3>2. CASE UNCHANGED wl
      <4>1. UNCHANGED <<OnSlot, Early>> /\ SlotRolling'
        BY <3>2 DEF OnSlot, Early, SlotRolling
      <4> QED
        BY <2>2, <3>1, <4>1 DEF LimiterStep
    <3>3. ASSUME NEW seen \in SeenAfterRestart(wl[w]),
                 wl' = [wl EXCEPT ![w] = Restarted(@, slot, c.time, seen)]
          PROVE  LimiterStep(w) /\ SlotRolling'
      <4> DEFINE y == Restarted(wl[w], "held", c.time, seen)
      <4>0. slot = "held"
        BY <2>1, <2>2
      <4>1. wl' = [wl EXCEPT ![w] = y]
        BY <3>3, <4>0
      <4>2. y \in WorkloadObjects /\ y.slot = "held" /\ y.rolling = TRUE
        BY <1>1, <2>0, <2>1, RestartedSlot
      <4>3. y # nil
        BY <4>2, NilAssumption
      <4> HIDE DEF y
      <4>4. OnSlot' = OnSlot \cup {w} /\ Early' = Early \ {w} /\ SlotRolling'
        BY <4>1, <4>2, <4>3, SlotWrite
      <4> QED
        BY <2>2, <3>1, <4>4 DEF LimiterStep
    <3> QED
      BY <2>1, <3>2, <3>3
  <2>3. CASE inFlightRollouts' = inFlightRollouts /\ w \notin inFlightRollouts
    <3>1. slot = "none"
      BY <2>1, <2>3
    <3>2. CASE UNCHANGED wl
      BY <1>2, <2>3, <3>2
    <3>3. ASSUME NEW seen \in SeenAfterRestart(wl[w]),
                 wl' = [wl EXCEPT ![w] = Restarted(@, slot, c.time, seen)]
          PROVE  LimiterStep(w) /\ SlotRolling'
      BY <2>0, <2>1, <2>3, <3>1, <3>3, TakeOverStep
    <3> QED
      BY <2>1, <3>2, <3>3
  <2> QED
    BY <2>1, <2>2, <2>3 DEF AcquireSlot
<1> QED
  BY <1>2, <1>3, <1>4, <1>5, <1>6
  DEF Do, DoWithoutWorkload, RecoverFromRollback, WaitBeforeRollback, AwaitRollout,
      PreviousRolloutOngoing, WaitInQueue

\* A step of the cluster leaves the slot to the rollout, or ends the rollout.
LEMMA KubernetesSlot ==
    ASSUME TypeOK, NEW w \in Workloads,
           \/ InformerSync(w) \/ CreatePods(w) \/ CompleteRollout(w)
           \/ PodsEnterBackoff(w) \/ ReplacePods(w) \/ PauseDeployment(w)
    PROVE  /\ wl[w] # nil
           /\ \E y \in WorkloadObjects :
                 /\ Cluster(w, y)
                 /\ \/ y.slot = wl[w].slot /\ (wl[w].rolling => y.rolling)
                    \/ y.slot = "none"
<1> DEFINE x == wl[w]
           Slotless(y) == \/ y.slot = x.slot /\ (x.rolling => y.rolling)
                          \/ y.slot = "none"
<1>1. x # nil /\ x \in WorkloadObjects
  BY DEF TypeOK, InformerSync, CreatePods, CompleteRollout, PodsEnterBackoff, ReplacePods,
       PauseDeployment
<1>2. CASE InformerSync(w)
  <2> DEFINE y == [x EXCEPT !.seen = TRUE]
  <2>1. Cluster(w, y) /\ y \in WorkloadObjects
    BY <1>2, KubernetesObjectType DEF InformerSync
  <2>2. Slotless(y)
    BY <1>1 DEF WorkloadObjects
  <2> QED
    BY <1>1, <2>1, <2>2
<1>3. CASE CreatePods(w)
  <2> DEFINE y == [x EXCEPT !.new = PodLabel(w)]
  <2>1. Cluster(w, y) /\ y \in WorkloadObjects
    BY <1>3, KubernetesObjectType DEF CreatePods
  <2>2. Slotless(y)
    BY <1>1 DEF WorkloadObjects
  <2> QED
    BY <1>1, <2>1, <2>2
<1>4. CASE CompleteRollout(w)
  <2> DEFINE y == [x EXCEPT !.rolling = FALSE, !.slot = "none", !.old = x.new,
                            !.new = nil, !.backoff = {}]
  <2>1. Cluster(w, y) /\ y \in WorkloadObjects
    BY <1>4, KubernetesObjectType DEF CompleteRollout
  <2>2. Slotless(y)
    BY <1>1 DEF WorkloadObjects
  <2> QED
    BY <1>1, <2>1, <2>2
<1>5. CASE PodsEnterBackoff(w)
  <2>1. PICK s \in {"new", "old"} : Cluster(w, [x EXCEPT !.backoff = @ \cup {s}])
    BY <1>5 DEF PodsEnterBackoff
  <2> DEFINE y == [x EXCEPT !.backoff = @ \cup {s}]
  <2>2. y \in WorkloadObjects
    BY <1>5, KubernetesObjectType
  <2>3. Slotless(y)
    BY <1>1 DEF WorkloadObjects
  <2> QED
    BY <1>1, <2>1, <2>2, <2>3
<1>6. CASE ReplacePods(w)
  <2>1. CASE Cluster(w, [x EXCEPT !.old = PodLabel(w), !.backoff = {}])
    <3> DEFINE y == [x EXCEPT !.old = PodLabel(w), !.backoff = {}]
    <3>1. y \in WorkloadObjects
      BY <1>6, KubernetesObjectType
    <3>2. Slotless(y)
      BY <1>1 DEF WorkloadObjects
    <3> QED
      BY <1>1, <2>1, <3>1, <3>2
  <2>2. CASE Cluster(w, [x EXCEPT !.rolling = TRUE])
    <3> DEFINE y == [x EXCEPT !.rolling = TRUE]
    <3>1. y \in WorkloadObjects
      BY <1>6, KubernetesObjectType
    <3>2. Slotless(y)
      BY <1>1 DEF WorkloadObjects
    <3> QED
      BY <1>1, <2>2, <3>1, <3>2
  <2> QED
    BY <1>6, <2>1, <2>2 DEF ReplacePods
<1>7. CASE PauseDeployment(w)
  <2> DEFINE y == [x EXCEPT !.paused = ~@]
  <2>1. Cluster(w, y) /\ y \in WorkloadObjects
    BY <1>7, KubernetesObjectType DEF PauseDeployment
  <2>2. Slotless(y)
    BY <1>1 DEF WorkloadObjects
  <2> QED
    BY <1>1, <2>1, <2>2
<1> QED
  BY <1>2, <1>3, <1>4, <1>5, <1>6, <1>7

\* The cluster finishes rollouts, or drops them with their workload.
LEMMA KubernetesLimiter ==
    ASSUME TypeOK, SlotRolling, NEW w \in Workloads, Kubernetes(w)
    PROVE  LimiterStep(w) /\ SlotRolling'
<1>1. inFlightRollouts' = inFlightRollouts
  BY DEF Kubernetes, InformerSync, CreatePods, CompleteRollout, PodsEnterBackoff, ReplacePods,
         PauseDeployment, Cluster, DeleteWorkload, CreateWorkload, CollectGarbage,
         WriteInstrumentationConfig
<1>2. CASE \/ InformerSync(w) \/ CreatePods(w) \/ CompleteRollout(w)
           \/ PodsEnterBackoff(w) \/ ReplacePods(w) \/ PauseDeployment(w)
  <2>1. wl[w] # nil
    BY <1>2, KubernetesSlot
  <2>2. PICK y \in WorkloadObjects :
           /\ Cluster(w, y)
           /\ \/ y.slot = wl[w].slot /\ (wl[w].rolling => y.rolling)
              \/ y.slot = "none"
    BY <1>2, KubernetesSlot
  <2>3. wl' = [wl EXCEPT ![w] = y] /\ y # nil
    BY <2>2, NilAssumption DEF Cluster
  <2>4. SlotRolling'
    BY <2>1, <2>2, <2>3, SlotWrite DEF SlotRolling
  <2>5. UNCHANGED <<OnSlot, Early>> \/ (OnSlot' = OnSlot \ {w} /\ Early' = Early \ {w})
    BY <2>1, <2>2, <2>3, SlotWrite
  <2> QED
    BY <1>1, <2>4, <2>5 DEF LimiterStep
<1>3. CASE DeleteWorkload(w)
  <2>1. wl' = [wl EXCEPT ![w] = nil]
    BY <1>3 DEF DeleteWorkload
  <2>2. OnSlot' = OnSlot \ {w} /\ Early' = Early \ {w} /\ SlotRolling'
    BY <2>1, SlotWrite
  <2> QED
    BY <1>1, <2>2 DEF LimiterStep
<1>4. CASE CreateWorkload(w)
  <2> DEFINE y == NewWorkload(PodLabel(w))
  <2>1. wl' = [wl EXCEPT ![w] = y]
    BY <1>4 DEF CreateWorkload, Cluster
  <2>2. y.slot = "none"
    BY DEF NewWorkload
  <2> HIDE DEF y
  <2>3. OnSlot' = OnSlot \ {w} /\ Early' = Early \ {w} /\ SlotRolling'
    BY <2>1, <2>2, SlotWrite
  <2> QED
    BY <1>1, <2>3 DEF LimiterStep
<1>5. CASE CollectGarbage(w)
  BY <1>1, <1>5 DEF CollectGarbage, LimiterStep, OnSlot, Early, SlotRolling
<1> QED
  BY <1>2, <1>3, <1>4, <1>5 DEF Kubernetes

\* A restart of the instrumentor empties the limiter.
LimiterRestart ==
    inFlightRollouts' = {} /\ Early' = OnSlot /\ UNCHANGED OnSlot

LEMMA RestartLimiter ==
    ASSUME TypeOK, SlotRolling, RestartInstrumentor
    PROVE  LimiterRestart /\ SlotRolling'
<1>1. inFlightRollouts' = {}
  BY DEF RestartInstrumentor
<1>2. ASSUME NEW w \in Workloads
      PROVE  /\ wl'[w] # nil <=> wl[w] # nil
             /\ wl[w] # nil => /\ wl'[w].slot # "none" <=> wl[w].slot # "none"
                               /\ wl'[w].slot # "held"
                               /\ wl'[w].slot \in {"none", "held", "early"}
                               /\ wl'[w].rolling = wl[w].rolling
  <2> DEFINE x == wl[w]
             y == [x EXCEPT !.slot = "early"]
  <2>1. wl'[w] = IF x # nil /\ x.slot = "held" THEN y ELSE x
    BY DEF RestartInstrumentor
  <2>2. x # nil => x \in WorkloadObjects
    BY DEF TypeOK
  <2>3. x # nil => y \in WorkloadObjects /\ y.slot = "early" /\ y.rolling = x.rolling
    BY <2>2 DEF WorkloadObjects
  <2>4. x # nil => y # nil /\ x.slot \in {"none", "held", "early"}
    BY <2>2, <2>3, NilAssumption DEF WorkloadObjects
  <2> HIDE DEF y, x
  <2>5. CASE x # nil /\ x.slot = "held"
    BY <2>1, <2>3, <2>4, <2>5 DEF x
  <2>6. CASE ~(x # nil /\ x.slot = "held")
    BY <2>1, <2>4, <2>6 DEF x
  <2> QED
    BY <2>5, <2>6
<1>3. OnSlot' = OnSlot
  BY <1>2 DEF OnSlot
<1>4. Early' = OnSlot
  BY <1>2 DEF Early, OnSlot
<1>5. SlotRolling'
  BY <1>2 DEF SlotRolling
<1> QED
  BY <1>1, <1>3, <1>4, <1>5 DEF LimiterRestart

\* The inductive invariant of the refinement; the slots can be counted.
LimiterInv == SlotRolling /\ IsFiniteSet(inFlightRollouts)

\* Every step is a step of the limiter, or leaves it alone.
LEMMA StepLimiter ==
    ASSUME TypeOK, LimiterInv, [Next]_vars
    PROVE  /\ LimiterInv'
           /\ \/ UNCHANGED <<inFlightRollouts, OnSlot, Early>>
              \/ \E w \in Workloads : LimiterStep(w)
              \/ LimiterRestart
<1>0. SlotRolling /\ IsFiniteSet(inFlightRollouts)
  BY DEF LimiterInv
<1>1. CASE UNCHANGED <<inFlightRollouts, wl>>
  BY <1>0, <1>1 DEF OnSlot, Early, SlotRolling, LimiterInv
<1>2. ASSUME NEW r \in Controllers, Reconcile(r)
      PROVE  \/ UNCHANGED <<inFlightRollouts, wl>>
             \/ SlotRolling' /\ \E w \in Workloads : LimiterStep(w)
  <2>1. ASSUME NEW w \in Workloads, StartReconcile(r, w) \/ NothingToUnInstrument(r, w)
        PROVE  UNCHANGED <<inFlightRollouts, wl>>
    BY <2>1 DEF StartReconcile, NothingToUnInstrument
  <2>2. CASE WriteStatus(r)
    BY <2>2 DEF WriteStatus
  <2> QED
    BY <1>0, <1>2, <2>1, <2>2, UnInstrumentLimiter, DoLimiter DEF Reconcile
<1>3. ASSUME NEW w \in Workloads, Users(w) PROVE UNCHANGED <<inFlightRollouts, wl>>
  BY <1>3 DEF Users, ChangeRuntimeDetails, ChangeRules, RequestRecovery, DeleteSource,
       CreateSource, CreateInstrumentationConfig, WriteInstrumentationConfig
<1>4. CASE \E r \in Controllers, c \in Confs : ChangeConf(r, c)
  BY <1>1, <1>4 DEF ChangeConf
<1>5. CASE RestartInstrumentor
  <2>1. LimiterRestart /\ SlotRolling'
    BY <1>0, <1>5, RestartLimiter
  <2> QED
    BY <2>1, FS_EmptySet DEF LimiterInv, LimiterRestart
<1>6. CASE UNCHANGED vars
  BY <1>1, <1>6 DEF vars
<1>7. ASSUME NEW w \in Workloads, LimiterStep(w) PROVE IsFiniteSet(inFlightRollouts')
  <2>1. \/ inFlightRollouts' = inFlightRollouts
        \/ inFlightRollouts' = inFlightRollouts \cup {w}
        \/ inFlightRollouts' = inFlightRollouts \ {w}
    BY <1>7 DEF LimiterStep
  <2> QED
    BY <1>0, <2>1, FS_AddElement, FS_RemoveElement
<1>8. ASSUME NEW w \in Workloads, LimiterStep(w), SlotRolling' PROVE LimiterInv'
  BY <1>7, <1>8 DEF LimiterInv
<1> QED
  BY <1>0, <1>1, <1>2, <1>3, <1>4, <1>5, <1>6, <1>8, KubernetesLimiter DEF Next

\* The limiter lemmas of RolloutLimiterProofs, for the slots of the controllers.
Slotted == INSTANCE RolloutLimiterProofs WITH
    Limit <- MaxLimit,
    held <- inFlightRollouts,
    rolling <- OnSlot,
    early <- Early

\* The instances of the limiter count as this module does.
LEMMA InstanceCardinality ==
    /\ \A S : Limiter!Cardinality(S) = Cardinality(S)
    /\ \A S : Slotted!Cardinality(S) = Cardinality(S)
<1>1. \A S : Limiter!Cardinality(S) = Cardinality(S)
  BY Zenon DEF Cardinality, Limiter!Cardinality
<1>2. \A S : Slotted!Cardinality(S) = Cardinality(S)
  BY Zenon DEF Cardinality, Slotted!Cardinality
<1> QED
  BY <1>1, <1>2

\* No rollout has a slot in the beginning.
LEMMA InitLimiter ==
    ASSUME Init PROVE inFlightRollouts = {} /\ OnSlot = {} /\ Early = {} /\ LimiterInv
<1>1. \A w \in Workloads : wl[w].slot = "none"
  BY DEF Init, NewWorkload
<1> QED
  BY <1>1, FS_EmptySet DEF Init, OnSlot, Early, SlotRolling, LimiterInv

\* The controllers of agentenabled implement the limiter: whatever they, the cluster
\* and the users do, with or without the limiter, slots are taken below the limit
\* only, and a rollout that started on a slot goes on without it only after one of
\* the releases that RolloutLimiter!Release and RolloutLimiter!Restart stand for.
THEOREM LimiterCorrect == Spec => ImplementsLimiter
<1>1. Init => Limiter!Init /\ LimiterInv
  BY InitLimiter DEF Limiter!Init, OnSlot, Early
<1>2. TypeOK /\ LimiterInv /\ [Next]_vars => [Limiter!Next]_(Limiter!vars) /\ LimiterInv'
  <2> SUFFICES ASSUME TypeOK, LimiterInv, [Next]_vars
               PROVE  [Limiter!Next]_(Limiter!vars) /\ LimiterInv'
    OBVIOUS
  <2>1. CASE UNCHANGED <<inFlightRollouts, OnSlot, Early>>
    BY <2>1, StepLimiter DEF Limiter!vars, OnSlot, Early
  <2>2. ASSUME NEW w \in Workloads, LimiterStep(w) PROVE [Limiter!Next]_(Limiter!vars)
    BY <2>2, InstanceCardinality
    DEF LimiterStep, OnSlot, Early, Limiter!Next, Limiter!vars, Limiter!Admit, Limiter!Release,
        Limiter!Finish, Limiter!TakeOver
  <2>3. CASE LimiterRestart
    BY <2>3, StepLimiter DEF LimiterRestart, OnSlot, Early, Limiter!Next, Limiter!Restart
  <2> QED
    BY <2>1, <2>2, <2>3, StepLimiter
<1> QED
  BY <1>1, <1>2, RolloutTypeCorrect, PTL DEF Spec, ImplementsLimiter, Limiter!Spec

\* So the largest limit that maxConcurrentRollouts sets is kept by the rollouts that
\* have a slot, whichever controllers, with the limiter or without it, start and
\* finish rollouts.
THEOREM LimitKept == Spec => []RolloutsWithinLimit
<1>1. Init => Slotted!Init /\ LimiterInv
  BY InitLimiter DEF Slotted!Init
<1>2. TypeOK /\ LimiterInv /\ [Next]_vars => [Slotted!Next]_(Slotted!vars) /\ LimiterInv'
  <2> SUFFICES ASSUME TypeOK, LimiterInv, [Next]_vars
               PROVE  [Slotted!Next]_(Slotted!vars) /\ LimiterInv'
    OBVIOUS
  <2>1. CASE UNCHANGED <<inFlightRollouts, OnSlot, Early>>
    BY <2>1, StepLimiter DEF Slotted!vars
  <2>2. ASSUME NEW w \in Workloads, LimiterStep(w) PROVE [Slotted!Next]_(Slotted!vars)
    BY <2>2, InstanceCardinality
    DEF LimiterStep, Slotted!Next, Slotted!vars, Slotted!Admit, Slotted!Release,
        Slotted!Finish, Slotted!TakeOver
  <2>3. CASE LimiterRestart
    BY <2>3, StepLimiter DEF LimiterRestart, Slotted!Next, Slotted!Restart
  <2> QED
    BY <2>1, <2>2, <2>3, StepLimiter
<1>3. Slotted!Spec => [](Slotted!RollingHoldSlots /\ Slotted!WithinLimit)
  <2>1. MaxLimit \in Nat
    BY RolloutAssumption
  <2> QED
    BY <2>1, Slotted!LimitCorrect, PTL
<1>4. TypeOK /\ Slotted!WithinLimit => RolloutsWithinLimit
  <2> SUFFICES ASSUME TypeOK, Slotted!WithinLimit PROVE RolloutsWithinLimit
    OBVIOUS
  <2>1. \A w \in Workloads : wl[w] # nil => wl[w].slot \in {"none", "held", "early"}
    BY DEF TypeOK, WorkloadObjects
  <2>2. {w \in Workloads : wl[w] # nil /\ wl[w].slot = "held"} = OnSlot \ Early
    BY <2>1 DEF OnSlot, Early
  <2> QED
    BY <2>2, InstanceCardinality DEF Slotted!WithinLimit, RolloutsWithinLimit
<1> QED
  BY <1>1, <1>2, <1>3, <1>4, RolloutTypeCorrect, PTL DEF Spec, Slotted!Spec

=============================================================================
