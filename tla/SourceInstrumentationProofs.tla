-------------------- MODULE SourceInstrumentationProofs --------------------
(***************************************************************************)
(* Theorems about SourceInstrumentation, for every set of workloads,       *)
(* Sources and patterns and any number of events.                          *)
(***************************************************************************)
EXTENDS SourceInstrumentation, TLAPS

-----------------------------------------------------------------------------
(* Types *)

Busy(c, r) ==
    r # nil => /\ r \in Reconciles
               /\ <<c, r.object>> \in Items
               /\ r.copy # nil <=> c = "source"

BusyOK ==
    /\ busy \in [Controllers -> Reconciles \cup {nil}]
    /\ \A c \in Controllers : Busy(c, busy[c])

\* The controllers, as TypeOK says it of them.
LEMMA BusyIsTyped == TypeOK => BusyOK
BY DEF TypeOK, BusyOK, Busy

\* One controller takes a step.
LEMMA BusyStep ==
    ASSUME BusyOK, NEW c \in Controllers, NEW r, Busy(c, r), busy' = [busy EXCEPT ![c] = r]
    PROVE  BusyOK' /\ busy'[c] = r /\ \A d \in Controllers : d # c => busy'[d] = busy[d]
<1>1. r \in Reconciles \cup {nil}
  BY DEF Busy
<1>2. busy'[c] = r /\ \A d \in Controllers : d # c => busy'[d] = busy[d]
  BY DEF BusyOK
<1>3. busy' \in [Controllers -> Reconciles \cup {nil}]
  BY <1>1 DEF BusyOK
<1> QED
  BY <1>2, <1>3 DEF BusyOK

\* A deletion, or what a sync reads of the Sources, is a plan for the workload.
LEMMA PlanType ==
    ASSUME TypeOK, NEW w \in Workloads
    PROVE  /\ Deletion(w) \in Plans /\ Deletion(w).w = w /\ ~Deletion(w).enabled
           /\ Creation(w) \in Plans /\ Creation(w).w = w /\ Creation(w).enabled
           /\ Deletion(w) # nil /\ Creation(w) # nil
<1>1. \A s \in Sources : source[s] # nil =>
          source[s].streams \subseteq DataStreams /\ source[s].settings \in Settings
  BY DEF TypeOK, SourceObjects
<1>2. CalculateDataStreamsLabels(w) \in SUBSET DataStreams
  BY <1>1 DEF CalculateDataStreamsLabels, WorkloadSources, NamespaceSources
<1>3. DesiredSettings(w) \in Settings \cup {default}
  BY <1>1 DEF DesiredSettings, WorkloadSources
<1>4. MarkedBy(w) \in {"unset", "workload", "namespace"}
  BY DEF MarkedBy
<1>5. Deletion(w) \in Plans /\ Creation(w) \in Plans
  BY <1>2, <1>3, <1>4 DEF Deletion, Creation, Plans
<1>6. Deletion(w).w = w /\ ~Deletion(w).enabled /\ Creation(w).w = w /\ Creation(w).enabled
  BY DEF Deletion, Creation
<1> QED
  BY <1>5, <1>6, NilAssumption

\* A reconcile that starts.
LEMMA ReconcileType ==
    ASSUME TypeOK, NEW c \in Controllers, NEW object, NEW copy \in SourceObjects \cup {nil},
           NEW todo \in SUBSET Workloads, NEW plan \in Plans \cup {nil},
           <<c, object>> \in queue, copy # nil <=> c = "source"
    PROVE  LET r == Reconcile(object, copy, todo, plan)
           IN /\ Busy(c, r) /\ r # nil
              /\ r.object = object /\ r.copy = copy /\ r.todo = todo /\ r.plan = plan
<1> DEFINE r == Reconcile(object, copy, todo, plan)
<1>1. <<c, object>> \in Items
  BY DEF TypeOK
<1>2. object \in Sources \cup Workloads \cup {"namespace"}
  BY <1>1 DEF Items
<1>3. /\ r \in Reconciles /\ r.object = object /\ r.copy = copy /\ r.todo = todo
      /\ r.plan = plan
  BY <1>2 DEF Reconcile, Reconciles
<1> HIDE DEF r
<1>4. Busy(c, r) /\ r # nil
  BY <1>1, <1>3, NilAssumption DEF Busy
<1> QED
  BY <1>3, <1>4 DEF r

\* A controller takes an object of its queue, or drops it.
LEMMA StartType ==
    ASSUME TypeOK, NEW c \in Controllers, Start(c)
    PROVE  /\ UNCHANGED <<workloads, source, ic, cached, missed, overlooked, used>>
           /\ BusyOK' /\ busy[c] = nil
           /\ \A d \in Controllers : d # c => busy'[d] = busy[d]
           /\ \E object : /\ <<c, object>> \in queue
                          /\ queue' \in {queue, queue \ {<<c, object>>}}
<1> USE BusyIsTyped
<1>1. ASSUME NEW object, NEW copy \in SourceObjects \cup {nil}, NEW todo \in SUBSET Workloads,
             NEW plan \in Plans \cup {nil}, <<c, object>> \in queue, copy # nil <=> c = "source"
      PROVE  Busy(c, Reconcile(object, copy, todo, plan))
  BY <1>1, ReconcileType
<1>2. Busy(c, nil)
  BY DEF Busy
<1>3. ASSUME NEW s \in Sources, c = "source", ReconcileSource(s)
      PROVE  BusyOK' /\ \A d \in Controllers : d # c => busy'[d] = busy[d]
  <2> DEFINE todo == IF Kind[s] = "workload" THEN Matches[s] ELSE Matches[s] \cap workloads
             r == IF source[s] = nil THEN nil ELSE Reconcile(s, source[s], todo, nil)
  <2>1. todo \in SUBSET Workloads /\ source[s] \in SourceObjects \cup {nil}
            /\ <<c, s>> \in queue
    BY <1>3, SourcesAssumption DEF TypeOK, ReconcileSource, Take
  <2> HIDE DEF todo
  <2>2. Busy(c, r)
    BY <1>1, <1>2, <1>3, <2>1
  <2>3. busy' = [busy EXCEPT ![c] = r]
    BY <1>3 DEF ReconcileSource, todo
  <2> HIDE DEF r
  <2> QED
    BY <2>2, <2>3, BusyStep
<1>4. ASSUME NEW w \in Workloads, c = "workload", ReconcileWorkload(w)
      PROVE  BusyOK' /\ \A d \in Controllers : d # c => busy'[d] = busy[d]
  <2>1. Busy(c, Reconcile(w, nil, {w}, nil))
    BY <1>1, <1>4 DEF ReconcileWorkload, Take
  <2>2. busy' = [busy EXCEPT ![c] = Reconcile(w, nil, {w}, nil)]
    BY <1>4 DEF ReconcileWorkload
  <2> QED
    BY <2>1, <2>2, BusyStep
<1>5. ASSUME c = "namespace", ReconcileNamespace
      PROVE  BusyOK' /\ \A d \in Controllers : d # c => busy'[d] = busy[d]
  <2>1. Busy(c, Reconcile("namespace", nil, workloads, nil))
    BY <1>1, <1>5 DEF ReconcileNamespace, Take, TypeOK
  <2>2. busy' = [busy EXCEPT ![c] = Reconcile("namespace", nil, workloads, nil)]
    BY <1>5 DEF ReconcileNamespace
  <2> QED
    BY <2>1, <2>2, BusyStep
<1>6. ASSUME NEW w \in Workloads, c = "instrumentationconfig", ReconcileInstrumentationConfig(w)
      PROVE  BusyOK' /\ \A d \in Controllers : d # c => busy'[d] = busy[d]
  <2> DEFINE todo == IF cached[w] # nil THEN {} ELSE {w}
             plan == IF cached[w] # nil THEN Deletion(w) ELSE nil
             r == Reconcile(w, nil, todo, plan)
  <2>1. todo \in SUBSET Workloads /\ plan \in Plans \cup {nil}
    BY PlanType
  <2>2. <<c, w>> \in queue
    BY <1>6 DEF ReconcileInstrumentationConfig
  <2> HIDE DEF todo, plan
  <2>3. Busy(c, r)
    BY <1>1, <1>6, <2>1, <2>2
  <2>4. busy' = [busy EXCEPT ![c] = r] \/ busy' = [busy EXCEPT ![c] = nil]
    BY <1>6 DEF ReconcileInstrumentationConfig, todo, plan
  <2> HIDE DEF r
  <2> QED
    BY <1>2, <2>3, <2>4, BusyStep
<1>7. UNCHANGED <<workloads, source, ic, cached, missed, overlooked, used>> /\ busy[c] = nil
  BY DEF Start, ReconcileSource, ReconcileWorkload, ReconcileNamespace,
     ReconcileInstrumentationConfig, Take
<1>8. \E object : <<c, object>> \in queue /\ queue' \in {queue, queue \ {<<c, object>>}}
  BY DEF Start, ReconcileSource, ReconcileWorkload, ReconcileNamespace,
     ReconcileInstrumentationConfig, Take
<1> QED
  BY <1>3, <1>4, <1>5, <1>6, <1>7, <1>8 DEF Start

\* The plan of a controller, and its fields.
LEMMA PlanFields ==
    ASSUME TypeOK, NEW c \in Controllers, busy[c] # nil
    PROVE  /\ busy[c] \in Reconciles /\ busy[c].todo \subseteq Workloads
           /\ busy[c].again \in BOOLEAN /\ busy[c].plan \in Plans \cup {nil}
           /\ busy[c].plan # nil =>
                 /\ busy[c].plan \in Plans /\ busy[c].plan.w \in Workloads
                 /\ busy[c].plan.enabled \in BOOLEAN
<1>1. busy[c] \in Reconciles
  BY DEF TypeOK
<1>2. /\ busy[c].todo \subseteq Workloads /\ busy[c].again \in BOOLEAN
      /\ busy[c].plan \in Plans \cup {nil}
  BY <1>1 DEF Reconciles
<1>3. \A p \in Plans : p.w \in Workloads /\ p.enabled \in BOOLEAN
  BY DEF Plans
<1> QED
  BY <1>1, <1>2, <1>3

\* A sync reads a workload of the reconcile, and plans what the Sources say of it.
LEMMA ReadsEffect ==
    ASSUME TypeOK, NEW c \in Controllers, SyncWorkloadReads(c)
    PROVE  /\ BusyOK' /\ busy[c] # nil /\ busy[c].plan = nil
           /\ \A d \in Controllers : d # c => busy'[d] = busy[d]
           /\ busy'[c] # nil /\ busy'[c].object = busy[c].object /\ busy'[c].copy = busy[c].copy
           /\ \E w \in busy[c].todo :
                 LET failed == w \in workloads /\ TooManySources(w)
                 IN /\ overlooked' = overlooked \ {w}
                    /\ busy'[c].todo = busy[c].todo \ {w}
                    /\ busy'[c].again = (busy[c].again \/ failed)
                    /\ busy'[c].plan = IF w \notin workloads \/ failed THEN nil
                                       ELSE IF IsObjectInstrumentedBySource(w) THEN Creation(w)
                                       ELSE Deletion(w)
<1>1. busy[c] # nil /\ busy[c].plan = nil
  BY DEF SyncWorkloadReads
<1>2. PICK w \in busy[c].todo :
          LET failed == w \in workloads /\ TooManySources(w)
          IN /\ busy' = [busy EXCEPT ![c] =
                    [busy[c] EXCEPT !.todo = busy[c].todo \ {w},
                                    !.again = busy[c].again \/ failed,
                                    !.plan = IF w \notin workloads \/ failed THEN nil
                                             ELSE IF IsObjectInstrumentedBySource(w) THEN Creation(w)
                                             ELSE Deletion(w)]]
             /\ overlooked' = overlooked \ {w}
  BY DEF SyncWorkloadReads
<1> DEFINE r == busy[c]
           failed == w \in workloads /\ TooManySources(w)
           todo == r.todo \ {w}
           again == r.again \/ failed
           plan == IF w \notin workloads \/ failed THEN nil
                   ELSE IF IsObjectInstrumentedBySource(w) THEN Creation(w) ELSE Deletion(w)
           new == [r EXCEPT !.todo = todo, !.again = again, !.plan = plan]
<1>3. r \in Reconciles /\ todo \in SUBSET Workloads /\ again \in BOOLEAN
          /\ plan \in Plans \cup {nil}
  BY <1>1, PlanFields, PlanType
<1>4. Busy(c, r)
  BY BusyIsTyped DEF BusyOK
<1>5. busy' = [busy EXCEPT ![c] = new]
  BY <1>2
<1> HIDE DEF r, todo, again, plan
<1>6. /\ new \in Reconciles /\ new.object = r.object /\ new.copy = r.copy
      /\ new.todo = todo /\ new.again = again /\ new.plan = plan
  BY <1>3 DEF Reconciles
<1> HIDE DEF new
<1>7. Busy(c, new) /\ new # nil
  BY <1>1, <1>4, <1>6, NilAssumption DEF Busy, r
<1>8. BusyOK' /\ busy'[c] = new /\ \A d \in Controllers : d # c => busy'[d] = busy[d]
  BY <1>5, <1>7, BusyStep, BusyIsTyped
<1>9. overlooked' = overlooked \ {w}
  BY <1>2
<1> QED
  BY <1>1, <1>6, <1>7, <1>8, <1>9 DEF r, todo, again, plan

\* A sync ends, and with it its plan.
LEMMA DoneEffect ==
    ASSUME TypeOK, NEW c \in Controllers, NEW again \in BOOLEAN, busy[c] # nil, SyncDone(c, again)
    PROVE  /\ BusyOK' /\ \A d \in Controllers : d # c => busy'[d] = busy[d]
           /\ busy'[c] # nil /\ busy'[c].object = busy[c].object /\ busy'[c].copy = busy[c].copy
           /\ busy'[c].todo = busy[c].todo /\ busy'[c].plan = nil
           /\ busy'[c].again = (busy[c].again \/ again)
<1> DEFINE r == busy[c]
           retry == r.again \/ again
           new == [r EXCEPT !.plan = nil, !.again = retry]
<1>1. r \in Reconciles /\ r.todo \in SUBSET Workloads /\ retry \in BOOLEAN
  BY PlanFields
<1>2. Busy(c, r)
  BY BusyIsTyped DEF BusyOK
<1>3. busy' = [busy EXCEPT ![c] = new]
  BY DEF SyncDone
<1> HIDE DEF r, retry
<1>4. /\ new \in Reconciles /\ new.object = r.object /\ new.copy = r.copy
      /\ new.todo = r.todo /\ new.again = retry /\ new.plan = nil
  BY <1>1 DEF Reconciles
<1> HIDE DEF new
<1>5. Busy(c, new) /\ new # nil
  BY <1>2, <1>4, NilAssumption DEF Busy, r
<1>6. BusyOK' /\ busy'[c] = new /\ \A d \in Controllers : d # c => busy'[d] = busy[d]
  BY <1>3, <1>5, BusyStep, BusyIsTyped
<1> QED
  BY <1>4, <1>5, <1>6 DEF r, retry

\* A new object, or a new version of the one there is, which keeps its owner.
LEMMA WritesEffect ==
    ASSUME TypeOK, NEW c \in Controllers, NEW statusFails \in BOOLEAN,
           SyncWorkloadWrites(c, statusFails)
    PROVE  /\ UNCHANGED <<workloads, source, cached, queue, overlooked>>
           /\ Planned(c, TRUE)
           /\ \E w \in Workloads, again \in BOOLEAN :
                 /\ w = busy[c].plan.w
                 /\ SyncDone(c, again)
                 /\ \/ cached[w] = nil /\ ic[w] # nil /\ again /\ UNCHANGED <<ic, missed>>
                    \/ /\ cached[w] = nil /\ ic[w] = nil
                       /\ \E new \in InstrumentationConfigs : ic' = [ic EXCEPT ![w] = new]
                       /\ missed' = missed \cup {w}
                    \/ /\ cached[w] # nil /\ missed' = missed
                       /\ \/ ic' = ic
                          \/ /\ ic[w] # nil
                             /\ \E new \in InstrumentationConfigs :
                                   ic' = [ic EXCEPT ![w] = new] /\ new.orphan = ic[w].orphan
<1> DEFINE plan == busy[c].plan
           w == plan.w
<1>1. Planned(c, TRUE) /\ UNCHANGED <<workloads, source, cached, queue, overlooked>>
  BY DEF SyncWorkloadWrites, SyncWorkloadCreates, SyncWorkloadUpdates
<1>2. plan \in Plans /\ w \in Workloads
  BY <1>1, PlanFields DEF Planned
<1>3. /\ ic \in [Workloads -> InstrumentationConfigs \cup {nil}]
      /\ cached \in [Workloads -> InstrumentationConfigs \cup {nil}]
  BY DEF TypeOK
<1>4. CASE SyncWorkloadCreates(c, statusFails)
  <2> DEFINE marked == IF statusFails THEN "unset" ELSE plan.marked
             new == [streams |-> plan.streams, settings |-> plan.settings, marked |-> marked,
                     orphan |-> SetControllerReference(plan)]
             again == statusFails \/ ic[w] # nil
  <2>1. marked \in {"unset", "workload", "namespace"}
    BY <1>2 DEF Plans
  <2>2. new \in InstrumentationConfigs
    <3> HIDE DEF plan, marked
    <3> QED
      BY <1>2, <2>1 DEF Plans, InstrumentationConfigs, SetControllerReference
  <2>3. /\ cached[w] = nil /\ again \in BOOLEAN /\ SyncDone(c, again)
        /\ ic[w] # nil => again /\ UNCHANGED <<ic, missed>>
        /\ ic[w] = nil => ic' = [ic EXCEPT ![w] = new] /\ missed' = missed \cup {w}
    BY <1>4 DEF SyncWorkloadCreates
  <2> HIDE DEF new, again, w
  <2> QED
    BY <1>1, <1>2, <2>2, <2>3 DEF w
<1>5. CASE SyncWorkloadUpdates(c, statusFails)
  <2> DEFINE copy == cached[w]
             current == copy = ic[w] /\ w \notin missed
             marked == IF statusFails THEN copy.marked ELSE plan.marked
             desired == [copy EXCEPT !.streams = plan.streams, !.settings = plan.settings,
                                     !.marked = marked]
             again == statusFails \/ (copy # desired /\ ~current /\ ic[w] # nil)
  <2>1. copy # nil /\ copy \in InstrumentationConfigs
    BY <1>2, <1>3, <1>5 DEF SyncWorkloadUpdates
  <2>2. marked \in {"unset", "workload", "namespace"}
    BY <1>2, <2>1 DEF Plans, InstrumentationConfigs
  <2>3. desired \in InstrumentationConfigs /\ desired.orphan = copy.orphan
    <3> HIDE DEF plan, marked, copy
    <3> QED
      BY <1>2, <2>1, <2>2 DEF Plans, InstrumentationConfigs
  <2>4. SyncDone(c, again) /\ missed' = missed
    BY <1>5 DEF SyncWorkloadUpdates
  <2>5. ic' = ic \/ (copy = ic[w] /\ ic' = [ic EXCEPT ![w] = desired])
    BY <1>5 DEF SyncWorkloadUpdates
  <2>6. again \in BOOLEAN
    OBVIOUS
  <2> HIDE DEF desired, again, w
  <2> QED
    BY <1>1, <1>2, <2>1, <2>3, <2>4, <2>5, <2>6 DEF w
<1> QED
  BY <1>4, <1>5 DEF SyncWorkloadWrites

\* A workload that is deleted makes orphans of its object and of the plans for it.
LEMMA DeleteWorkloadEffect ==
    ASSUME TypeOK, NEW w \in Workloads, DeleteWorkload(w)
    PROVE  /\ BusyOK' /\ ic' \in [Workloads -> InstrumentationConfigs \cup {nil}]
           /\ \A v \in Workloads : (ic'[v] = nil <=> ic[v] = nil) /\ (v # w => ic'[v] = ic[v])
           /\ \A c \in Controllers :
                 /\ busy'[c] = nil <=> busy[c] = nil
                 /\ busy[c] # nil =>
                       /\ busy'[c].object = busy[c].object /\ busy'[c].copy = busy[c].copy
                       /\ busy'[c].todo = busy[c].todo /\ busy'[c].again = busy[c].again
                       /\ busy'[c].plan = nil <=> busy[c].plan = nil
                       /\ busy[c].plan # nil =>
                             /\ busy'[c].plan.w = busy[c].plan.w
                             /\ busy'[c].plan.enabled = busy[c].plan.enabled
<1>1. ASSUME NEW v \in Workloads
      PROVE  /\ ic'[v] \in InstrumentationConfigs \cup {nil}
             /\ ic'[v] = nil <=> ic[v] = nil
             /\ v # w => ic'[v] = ic[v]
  <2> DEFINE new == [ic[w] EXCEPT !.orphan = TRUE]
  <2>1. ic' = [ic EXCEPT ![w] = IF ic[w] = nil THEN nil ELSE new]
    BY DEF DeleteWorkload
  <2>2. ic[w] # nil => new \in InstrumentationConfigs
    BY DEF TypeOK, InstrumentationConfigs
  <2>3. ic[w] # nil => new # nil
    BY <2>2, NilAssumption
  <2> HIDE DEF new
  <2> QED
    BY <2>1, <2>2, <2>3 DEF TypeOK
<1>2. ic' \in [Workloads -> InstrumentationConfigs \cup {nil}]
  <2>1. ic' = [v \in Workloads |-> ic'[v]]
    BY DEF TypeOK, DeleteWorkload
  <2>2. \A v \in Workloads : ic'[v] \in InstrumentationConfigs \cup {nil}
    BY <1>1
  <2> QED
    BY <2>1, <2>2
<1>3. ASSUME NEW c \in Controllers
      PROVE  /\ busy'[c] = nil <=> busy[c] = nil
             /\ Busy(c, busy'[c])
             /\ busy[c] # nil =>
                   /\ busy'[c].object = busy[c].object /\ busy'[c].copy = busy[c].copy
                   /\ busy'[c].todo = busy[c].todo /\ busy'[c].again = busy[c].again
                   /\ busy'[c].plan = nil <=> busy[c].plan = nil
                   /\ busy[c].plan # nil =>
                         /\ busy'[c].plan.w = busy[c].plan.w
                         /\ busy'[c].plan.enabled = busy[c].plan.enabled
  <2> DEFINE r == busy[c]
             p == r.plan
             orphan == [p EXCEPT !.orphan = TRUE]
             new == [r EXCEPT !.plan = orphan]
  <2>1. Busy(c, r)
    BY BusyIsTyped DEF BusyOK
  <2>2. CASE busy'[c] = r
    BY <2>1, <2>2
  <2>3. CASE r # nil /\ p # nil /\ busy'[c] = new
    <3>1. r \in Reconciles /\ p \in Plans
      BY <2>3, PlanFields
    <3>2. orphan \in Plans /\ orphan.w = p.w /\ orphan.enabled = p.enabled
      <4> HIDE DEF p
      <4> QED
        BY <3>1 DEF Plans
    <3>3. orphan # nil
      BY <3>2, NilAssumption
    <3> HIDE DEF orphan
    <3>4. /\ new \in Reconciles /\ new.object = r.object /\ new.copy = r.copy
          /\ new.todo = r.todo /\ new.again = r.again /\ new.plan = orphan
      <4> HIDE DEF r
      <4> QED
        BY <3>1, <3>2 DEF Reconciles
    <3> HIDE DEF new
    <3>5. Busy(c, new) /\ new # nil
      BY <2>1, <2>3, <3>4, NilAssumption DEF Busy
    <3> HIDE DEF r, p
    <3>6. Busy(c, busy'[c]) /\ busy'[c] # nil
      BY <2>3, <3>5
    <3>7. /\ busy'[c].object = r.object /\ busy'[c].copy = r.copy
          /\ busy'[c].todo = r.todo /\ busy'[c].again = r.again /\ busy'[c].plan = orphan
      BY <2>3, <3>4
    <3> QED
      BY <2>3, <3>2, <3>3, <3>6, <3>7 DEF r, p
  <2>4. busy'[c] = r \/ (r # nil /\ p # nil /\ busy'[c] = new)
    BY DEF DeleteWorkload
  <2> QED
    BY <2>2, <2>3, <2>4
<1>4. busy' \in [Controllers -> Reconciles \cup {nil}]
  <2>1. \A c \in Controllers : busy'[c] \in Reconciles \cup {nil}
    BY <1>3 DEF Busy
  <2>2. busy' = [c \in Controllers |-> busy'[c]]
    BY DEF DeleteWorkload
  <2> QED
    BY <2>1, <2>2
<1> QED
  BY <1>1, <1>2, <1>3, <1>4 DEF BusyOK

\* The end of a reconcile removes at most a Source.
LEMMA FinishEffect ==
    ASSUME TypeOK, NEW c \in Controllers, FinishReconcile(c)
    PROVE  /\ BusyOK' /\ busy'[c] = nil /\ \A d \in Controllers : d # c => busy'[d] = busy[d]
           /\ source' \in [Sources -> SourceObjects \cup {nil}]
           /\ queue' \subseteq Items
<1>1. Busy(c, busy[c]) /\ Busy(c, nil) /\ busy' = [busy EXCEPT ![c] = nil] /\ busy[c] # nil
  BY BusyIsTyped DEF BusyOK, Busy, FinishReconcile
<1>2. BusyOK' /\ busy'[c] = nil /\ \A d \in Controllers : d # c => busy'[d] = busy[d]
  BY <1>1, BusyStep, BusyIsTyped
<1>3. source' = source \/ source' = [source EXCEPT ![busy[c].object] = nil]
  BY DEF FinishReconcile
<1>4. queue' = queue \/ queue' = queue \cup {<<c, busy[c].object>>}
  BY DEF FinishReconcile
<1> QED
  BY <1>1, <1>2, <1>3, <1>4 DEF TypeOK, Busy

\* Every step keeps the types.
LEMMA TypeStep == TypeOK /\ [Next]_vars => TypeOK'
<1> SUFFICES ASSUME TypeOK, [Next]_vars
             PROVE  TypeOK'
  OBVIOUS
<1>1. BusyOK' => /\ busy' \in [Controllers -> Reconciles \cup {nil}]
                 /\ \A c \in Controllers : busy'[c] # nil =>
                       /\ <<c, busy'[c].object>> \in Items
                       /\ busy'[c].copy # nil <=> c = "source"
  BY DEF BusyOK, Busy
<1>2. busy' = busy => BusyOK'
  BY BusyIsTyped DEF BusyOK
<1>3. \A kind : Event(kind) => used' \in 0 .. MaxEvents
  BY SourcesAssumption DEF Event, TypeOK
<1>4. \A w \in Workloads : /\ <<"workload", w>> \in Items
                           /\ <<"instrumentationconfig", w>> \in Items
  BY DEF Items
<1>5. \A s \in Sources : <<"source", s>> \in Items
  BY DEF Items
<1>6. ASSUME NEW w \in Workloads, RemoveIc(w)
      PROVE  /\ ic' \in [Workloads -> InstrumentationConfigs \cup {nil}]
             /\ missed' \subseteq Workloads
  BY <1>6 DEF RemoveIc, TypeOK
<1>7. ASSUME NEW s \in Sources, WriteSource(s) PROVE TypeOK'
  <2> DEFINE old == source[s]
             new == [old EXCEPT !.terminating = TRUE]
  <2>1. old # nil => new \in SourceObjects
    BY DEF TypeOK, SourceObjects
  <2>2. \/ \E x \in SourceObjects : source' = [source EXCEPT ![s] = x]
        \/ old # nil /\ source' = [source EXCEPT ![s] = new]
    BY <1>7 DEF WriteSource
  <2> HIDE DEF new
  <2>3. source' \in [Sources -> SourceObjects \cup {nil}]
    BY <2>1, <2>2 DEF TypeOK
  <2> QED
    BY <1>1, <1>2, <1>3, <1>5, <1>7, <2>3 DEF WriteSource, TypeOK
<1>8. ASSUME NEW w \in Workloads, CreateWorkload(w) PROVE TypeOK'
  <2>1. {"workload"} \X ({w} \ StaticPods) \subseteq Items
    BY DEF Items
  <2> QED
    BY <1>1, <1>2, <1>3, <1>8, <2>1 DEF CreateWorkload, TypeOK
<1>9. ASSUME NEW w \in Workloads, DeleteWorkload(w) PROVE TypeOK'
  <2>1. BusyOK' /\ ic' \in [Workloads -> InstrumentationConfigs \cup {nil}]
    BY <1>9, DeleteWorkloadEffect
  <2>2. /\ workloads' \subseteq Workloads /\ UNCHANGED <<source, cached, missed, queue>>
        /\ overlooked' \subseteq StaticPods /\ used' \in 0 .. MaxEvents
    BY <1>3, <1>9 DEF DeleteWorkload, TypeOK
  <2> QED
    BY <1>1, <2>1, <2>2 DEF TypeOK
<1>10. ASSUME NEW w \in Workloads, GarbageCollect(w) \/ DeleteByAccident(w) PROVE TypeOK'
  BY <1>1, <1>2, <1>3, <1>6, <1>10 DEF GarbageCollect, DeleteByAccident, TypeOK
<1>11. ASSUME NEW w \in Workloads, InformerCatchesUp(w) PROVE TypeOK'
  BY <1>1, <1>2, <1>4, <1>11 DEF InformerCatchesUp, TypeOK
<1>12. ASSUME NEW c \in Controllers, Start(c) PROVE TypeOK'
  BY <1>1, <1>12, StartType DEF TypeOK
<1>13. ASSUME NEW c \in Controllers, SyncWorkloadReads(c) PROVE TypeOK'
  BY <1>1, <1>13, ReadsEffect DEF SyncWorkloadReads, TypeOK
<1>14. ASSUME NEW c \in Controllers, SyncWorkloadDeletes(c) PROVE TypeOK'
  <2>1. busy[c] # nil /\ busy[c].plan.w \in Workloads /\ RemoveIc(busy[c].plan.w)
            /\ SyncDone(c, FALSE) /\ UNCHANGED <<workloads, source, cached, queue, overlooked, used>>
    BY <1>14, PlanFields DEF SyncWorkloadDeletes, Planned
  <2> QED
    BY <1>1, <1>6, <2>1, DoneEffect DEF TypeOK
<1>15. ASSUME NEW c \in Controllers, NEW statusFails \in BOOLEAN,
              SyncWorkloadWrites(c, statusFails), used' \in 0 .. MaxEvents
       PROVE  TypeOK'
  <2>1. busy[c] # nil /\ UNCHANGED <<workloads, source, cached, queue, overlooked>>
    BY <1>15, WritesEffect DEF Planned
  <2>2. BusyOK'
    BY <1>15, <2>1, WritesEffect, DoneEffect
  <2>3. /\ ic' \in [Workloads -> InstrumentationConfigs \cup {nil}]
        /\ missed' \subseteq Workloads
    BY <1>15, WritesEffect DEF TypeOK
  <2> QED
    BY <1>1, <1>15, <2>1, <2>2, <2>3 DEF TypeOK
<1>16. ASSUME NEW c \in Controllers, SyncWorkloadFails(c) PROVE TypeOK'
  <2>1. used' \in 0 .. MaxEvents /\ busy[c] # nil
    BY <1>3, <1>16 DEF SyncWorkloadFails
  <2>2. CASE SyncDone(c, TRUE) /\ UNCHANGED <<workloads, source, ic, cached, missed, queue, overlooked>>
    BY <1>1, <2>1, <2>2, DoneEffect DEF TypeOK
  <2> QED
    BY <1>15, <1>16, <2>1, <2>2 DEF SyncWorkloadFails
<1>17. ASSUME NEW c \in Controllers, FinishReconcile(c) PROVE TypeOK'
  BY <1>1, <1>17, FinishEffect DEF FinishReconcile, TypeOK
<1>18. CASE Restart
  <2>1. queue' \subseteq Items
    <3>1. \A w \in workloads : w \in Workloads
      BY DEF TypeOK
    <3>2. <<"namespace", "namespace">> \in Items
      BY DEF Items
    <3>3. {<<"source", s>> : s \in {t \in Sources : source[t] # nil}} \subseteq Items
      BY <1>5
    <3>4. {"workload"} \X (workloads \ StaticPods) \subseteq Items
      BY <3>1 DEF Items
    <3>5. {"instrumentationconfig"} \X {w \in Workloads : ic[w] # nil} \subseteq Items
      BY DEF Items
    <3> QED
      BY <1>18, <3>2, <3>3, <3>4, <3>5 DEF Restart
  <2>2. BusyOK'
    BY <1>18 DEF Restart, BusyOK, Busy
  <2> QED
    BY <1>1, <1>3, <1>18, <2>1, <2>2 DEF Restart, TypeOK
<1>19. CASE UNCHANGED vars
  BY <1>1, <1>2, <1>19 DEF vars, TypeOK
<1>20. ASSUME NEW c \in Controllers, Sync(c) PROVE TypeOK'
  <2>1. CASE SyncWorkloadWrites(c, FALSE) /\ UNCHANGED used
    BY <1>15, <2>1 DEF TypeOK
  <2> QED
    BY <1>13, <1>14, <1>17, <1>20, <2>1 DEF Sync
<1> QED
  BY <1>7, <1>8, <1>9, <1>10, <1>11, <1>12, <1>16, <1>18, <1>19, <1>20 DEF Next

\* Every variable of the sourceinstrumentation controllers keeps its type, whatever order
\* Sources, workloads, caches and controllers change in.
THEOREM TypeCorrect == Spec => []TypeOK
<1>1. Init => TypeOK
  BY SourcesAssumption DEF Init, TypeOK
<1> QED
  BY <1>1, TypeStep, PTL DEF Spec

-----------------------------------------------------------------------------
(* The inductive form of OutOfSyncIsPending *)

\* A sync that has yet to read the Sources of the workload is under way.
UnderWay(w) ==
    \/ w \in missed
    \/ \E item \in queue : Covers(item[1], item[2], w)
    \/ \E c \in Controllers : busy[c] # nil /\
           \/ w \in busy[c].todo
           \/ busy[c].again /\ Covers(c, busy[c].object, w)

DecidedTo(enabled, w) ==
    \E c \in Controllers : Planned(c, enabled) /\ busy[c].plan.w = w

\* The two halves of OutOfSyncIsPending.  A decision to delete is no help against a missing
\* object, nor one to create against one too many: it may be older than the Sources.
MissingIsPending ==
    \A w \in workloads \ overlooked : IsObjectInstrumentedBySource(w) /\ ic[w] = nil =>
        UnderWay(w) \/ DecidedTo(TRUE, w)

ExtraIsPending ==
    \A w \in workloads \ overlooked : ~IsObjectInstrumentedBySource(w) /\ ic[w] # nil =>
        ic[w].orphan \/ UnderWay(w) \/ DecidedTo(FALSE, w)

\* The informer has yet to see every object it does not know, or knows though it is gone.
CacheSeen == \A w \in Workloads : (cached[w] = nil <=> ic[w] = nil) \/ w \in missed

\* A Source is not gone while its controller is to look at it or looks at it, and the copy
\* of one that is terminating is the last.
SourcesKept ==
    /\ \A s \in Sources : <<"source", s>> \in queue => source[s] # nil
    /\ busy["source"] # nil => source[busy["source"].object] # nil
    /\ busy["source"] # nil /\ busy["source"].copy.terminating =>
          /\ source[busy["source"].object] = busy["source"].copy
          /\ <<"source", busy["source"].object>> \notin queue

\* A reconcile syncs workloads of its object only.
OwnWorkloads ==
    \A c \in Controllers : busy[c] # nil =>
        /\ \A w \in busy[c].todo : Covers(c, busy[c].object, w)
        /\ busy[c].plan # nil => Covers(c, busy[c].object, busy[c].plan.w)

SyncInv == MissingIsPending /\ ExtraIsPending /\ CacheSeen /\ SourcesKept /\ OwnWorkloads

Helps(c, r, w) == r # nil /\ (w \in r.todo \/ (r.again /\ Covers(c, r.object, w)))

\* Sources that are not for a workload, or that are terminating, do not count.
LEMMA InstrumentedSame ==
    ASSUME NEW w \in Workloads, NEW s \in Sources, TypeOK, source' = [source EXCEPT ![s] = source'[s]],
           \/ w \notin Matches[s]
           \/ source'[s] = nil /\ (source[s] # nil => source[s].terminating)
    PROVE  IsObjectInstrumentedBySource(w)' <=> IsObjectInstrumentedBySource(w)
<1> DEFINE active(t) == source[t] # nil /\ ~source[t].terminating
<1>1. \A t \in Sources : t # s => source'[t] = source[t]
  BY DEF TypeOK
<1>2. Kind[s] = "namespace" => w \in Matches[s]
  BY SourcesAssumption
<1>3. IsObjectInstrumentedBySource(w) <=>
          \/ \E t \in Sources : active(t) /\ Kind[t] # "namespace" /\ w \in Matches[t]
                                    /\ ~source[t].disabled
          \/ /\ \A t \in Sources : Kind[t] # "namespace" /\ w \in Matches[t] => ~active(t)
             /\ \E t \in Sources : active(t) /\ Kind[t] = "namespace" /\ ~source[t].disabled
  BY DEF IsObjectInstrumentedBySource, WorkloadSources, NamespaceSources
<1>4. IsObjectInstrumentedBySource(w)' <=>
          \/ \E t \in Sources : active(t)' /\ Kind[t] # "namespace" /\ w \in Matches[t]
                                    /\ ~source'[t].disabled
          \/ /\ \A t \in Sources : Kind[t] # "namespace" /\ w \in Matches[t] => ~active(t)'
             /\ \E t \in Sources : active(t)' /\ Kind[t] = "namespace" /\ ~source'[t].disabled
  BY DEF IsObjectInstrumentedBySource, WorkloadSources, NamespaceSources
<1>5. \A t \in Sources : t # s => (active(t)' <=> active(t))
  BY <1>1
<1>6. w \in Matches[s] => ~active(s) /\ ~active(s)'
  OBVIOUS
<1> HIDE DEF active
<1> QED
  BY <1>1, <1>2, <1>3, <1>4, <1>5, <1>6

\* What the other controllers do goes on.
LEMMA StillUnderWay ==
    ASSUME NEW c \in Controllers, \A d \in Controllers : d # c => busy'[d] = busy[d],
           missed \subseteq missed', queue \subseteq queue', NEW w, UnderWay(w),
           Helps(c, busy[c], w) => UnderWay(w)'
    PROVE  UnderWay(w)'
BY DEF UnderWay, Helps

\* So do their plans.
LEMMA StillDecided ==
    ASSUME NEW c \in Controllers, \A d \in Controllers : d # c => busy'[d] = busy[d],
           NEW w, NEW enabled, DecidedTo(enabled, w),
           ~(Planned(c, enabled) /\ busy[c].plan.w = w)
    PROVE  DecidedTo(enabled, w)'
BY DEF DecidedTo, Planned

\* An object of the queue, or of a reconcile that failed, is a sync to come.
LEMMA QueuedHelps ==
    ASSUME NEW items, NEW c, NEW object, <<c, object>> \in items, NEW w, Covers(c, object, w)
    PROVE  \E item \in items : Covers(item[1], item[2], w)
<1> DEFINE item == <<c, object>>
<1>1. item[1] = c /\ item[2] = object
  OBVIOUS
<1>2. Covers(item[1], item[2], w)
  BY <1>1
<1> HIDE DEF item
<1> QED
  BY <1>2 DEF item

\* Steps of users and of the informer, which no reconcile waits for.
LEMMA EventSync ==
    ASSUME TypeOK, SyncInv,
           \/ \E s \in Sources : WriteSource(s)
           \/ \E w \in Workloads : \/ CreateWorkload(w) \/ DeleteByAccident(w)
                                   \/ GarbageCollect(w) \/ InformerCatchesUp(w)
    PROVE  SyncInv'
<1>1. UNCHANGED busy
  BY DEF WriteSource, CreateWorkload, DeleteByAccident, GarbageCollect, InformerCatchesUp
<1>2. queue \subseteq queue'
  BY DEF WriteSource, CreateWorkload, DeleteByAccident, GarbageCollect, InformerCatchesUp
<1>3. OwnWorkloads'
  BY <1>1 DEF SyncInv, OwnWorkloads
<1>4. \A w : \A enabled : DecidedTo(enabled, w)' <=> DecidedTo(enabled, w)
  BY <1>1 DEF DecidedTo, Planned
<1>5. ASSUME missed \subseteq missed', NEW w, UnderWay(w) PROVE UnderWay(w)'
  BY <1>1, <1>2, <1>5 DEF UnderWay
<1>6. ASSUME NEW s \in Sources, WriteSource(s) PROVE SyncInv'
  <2>1. /\ UNCHANGED <<workloads, ic, cached, missed, overlooked>>
        /\ source[s] # nil => ~source[s].terminating
        /\ queue' = queue \cup {<<"source", s>>}
    BY <1>6 DEF WriteSource
  <2>2. source' = [source EXCEPT ![s] = source'[s]] /\ source'[s] # nil
    <3> DEFINE old == source[s]
               new == [old EXCEPT !.terminating = TRUE]
    <3>1. old # nil => new \in SourceObjects
      BY DEF TypeOK, SourceObjects
    <3>2. \/ \E x \in SourceObjects : source' = [source EXCEPT ![s] = x]
          \/ old # nil /\ source' = [source EXCEPT ![s] = new]
      BY <1>6 DEF WriteSource
    <3> HIDE DEF new
    <3>3. \E x \in SourceObjects : source' = [source EXCEPT ![s] = x] /\ x # nil
      BY <3>1, <3>2, NilAssumption
    <3> QED
      BY <3>3 DEF TypeOK
  <2>3. ASSUME NEW w \in Workloads, w \in Matches[s] PROVE UnderWay(w)'
    <3>1. Covers("source", s, w)
      BY <2>3 DEF Covers
    <3>2. <<"source", s>> \in queue'
      BY <2>1
    <3> QED
      BY <3>1, <3>2, QueuedHelps DEF UnderWay
  <2>4. ASSUME NEW w \in Workloads, w \notin Matches[s]
        PROVE  IsObjectInstrumentedBySource(w)' <=> IsObjectInstrumentedBySource(w)
    BY <2>2, <2>4, InstrumentedSame
  <2>5. workloads \subseteq Workloads
    BY DEF TypeOK
  <2>6. MissingIsPending' /\ ExtraIsPending'
    BY <1>4, <1>5, <2>1, <2>3, <2>4, <2>5 DEF SyncInv, MissingIsPending, ExtraIsPending
  <2>7. SourcesKept'
    <3>1. \A t \in Sources : t # s => source'[t] = source[t]
      BY <2>2 DEF TypeOK
    <3>2. \A t \in Sources : <<"source", t>> \in queue' => source'[t] # nil
      BY <2>1, <2>2, <3>1 DEF SyncInv, SourcesKept
    <3>3. busy["source"] # nil =>
              busy["source"].object \in Sources /\ busy["source"].copy # nil
      BY BusyIsTyped DEF BusyOK, Busy, Controllers, Items
    <3>4. ASSUME busy["source"] # nil, busy["source"].copy.terminating
          PROVE  /\ source'[busy["source"].object] = busy["source"].copy
                 /\ <<"source", busy["source"].object>> \notin queue'
      BY <2>1, <3>1, <3>3, <3>4 DEF SyncInv, SourcesKept
    <3>5. busy["source"] # nil => source'[busy["source"].object] # nil
      BY <2>2, <3>1, <3>3 DEF SyncInv, SourcesKept
    <3> QED
      BY <1>1, <3>2, <3>4, <3>5 DEF SourcesKept
  <2>8. CacheSeen'
    BY <2>1 DEF SyncInv, CacheSeen
  <2> QED
    BY <1>3, <2>6, <2>7, <2>8 DEF SyncInv
<1>7. ASSUME source' = source, \A s \in Sources : <<"source", s>> \in queue' <=> <<"source", s>> \in queue
      PROVE  /\ SourcesKept'
             /\ \A w : IsObjectInstrumentedBySource(w)' <=> IsObjectInstrumentedBySource(w)
  <2>1. busy["source"] # nil => busy["source"].object \in Sources
    BY BusyIsTyped DEF BusyOK, Busy, Controllers, Items
  <2>2. SourcesKept'
    BY <1>1, <1>7, <2>1 DEF SyncInv, SourcesKept
  <2>3. \A w : IsObjectInstrumentedBySource(w)' <=> IsObjectInstrumentedBySource(w)
    BY <1>7 DEF IsObjectInstrumentedBySource, WorkloadSources, NamespaceSources
  <2> QED
    BY <2>2, <2>3
<1>8. ASSUME NEW v \in Workloads, CreateWorkload(v) PROVE SyncInv'
  <2>1. /\ UNCHANGED <<source, ic, cached, missed>> /\ workloads' = workloads \cup {v}
        /\ overlooked \subseteq overlooked' /\ (v \in StaticPods => v \in overlooked')
        /\ v \notin StaticPods => <<"workload", v>> \in queue'
        /\ \A s \in Sources : <<"source", s>> \in queue' <=> <<"source", s>> \in queue
    BY <1>8 DEF CreateWorkload
  <2>2. v \notin overlooked' => UnderWay(v)'
    <3>1. Covers("workload", v, v)
      BY DEF Covers
    <3> QED
      BY <2>1, <3>1, QueuedHelps DEF UnderWay
  <2>3. SourcesKept' /\ \A w : IsObjectInstrumentedBySource(w)' <=> IsObjectInstrumentedBySource(w)
    BY <1>7, <2>1
  <2>4. MissingIsPending' /\ ExtraIsPending'
    BY <1>4, <1>5, <2>1, <2>2, <2>3 DEF SyncInv, MissingIsPending, ExtraIsPending
  <2>5. CacheSeen'
    BY <2>1 DEF SyncInv, CacheSeen
  <2> QED
    BY <1>3, <2>3, <2>4, <2>5 DEF SyncInv
<1>9. ASSUME NEW v \in Workloads, DeleteByAccident(v) \/ GarbageCollect(v) PROVE SyncInv'
  <2>1. /\ UNCHANGED <<workloads, source, cached, queue, overlooked>> /\ missed' = missed \cup {v}
        /\ ic' = [ic EXCEPT ![v] = nil]
    BY <1>9 DEF DeleteByAccident, GarbageCollect, RemoveIc
  <2>2. UnderWay(v)' /\ \A w \in Workloads : w # v => ic'[w] = ic[w]
    BY <2>1 DEF UnderWay, TypeOK
  <2>3. SourcesKept' /\ \A w : IsObjectInstrumentedBySource(w)' <=> IsObjectInstrumentedBySource(w)
    BY <1>7, <2>1
  <2>4. workloads \subseteq Workloads
    BY DEF TypeOK
  <2>5. MissingIsPending' /\ ExtraIsPending'
    BY <1>4, <1>5, <2>1, <2>2, <2>3, <2>4 DEF SyncInv, MissingIsPending, ExtraIsPending
  <2>6. CacheSeen'
    BY <2>1, <2>2 DEF SyncInv, CacheSeen
  <2> QED
    BY <1>3, <2>3, <2>5, <2>6 DEF SyncInv
<1>10. ASSUME NEW v \in Workloads, InformerCatchesUp(v) PROVE SyncInv'
  <2>1. /\ UNCHANGED <<workloads, source, ic, overlooked>> /\ missed' = missed \ {v}
        /\ cached' = [cached EXCEPT ![v] = ic[v]]
        /\ v \in missed => <<"instrumentationconfig", v>> \in queue'
        /\ \A s \in Sources : <<"source", s>> \in queue' <=> <<"source", s>> \in queue
    BY <1>10 DEF InformerCatchesUp, ExistencePredicate
  <2>2. v \in missed => UnderWay(v)'
    <3>1. Covers("instrumentationconfig", v, v)
      BY DEF Covers
    <3> QED
      BY <2>1, <3>1, QueuedHelps DEF UnderWay
  <2>3. ASSUME NEW w, UnderWay(w) PROVE UnderWay(w)'
    BY <1>1, <1>2, <2>1, <2>2, <2>3 DEF UnderWay
  <2>4. SourcesKept' /\ \A w : IsObjectInstrumentedBySource(w)' <=> IsObjectInstrumentedBySource(w)
    BY <1>7, <2>1
  <2>5. MissingIsPending' /\ ExtraIsPending'
    BY <1>4, <2>1, <2>3, <2>4 DEF SyncInv, MissingIsPending, ExtraIsPending
  <2>6. CacheSeen'
    BY <2>1 DEF SyncInv, CacheSeen, TypeOK
  <2> QED
    BY <1>3, <2>4, <2>5, <2>6 DEF SyncInv
<1> QED
  BY <1>6, <1>8, <1>9, <1>10

\* A workload is deleted: whatever was to look at the others goes on.
LEMMA DeleteWorkloadSync ==
    ASSUME TypeOK, SyncInv, NEW v \in Workloads, DeleteWorkload(v)
    PROVE  SyncInv'
<1>1. /\ UNCHANGED <<source, cached, missed, queue>> /\ workloads' = workloads \ {v}
      /\ overlooked' = overlooked \ {v}
  BY DEF DeleteWorkload
<1>2. \A c \in Controllers :
          /\ busy'[c] = nil <=> busy[c] = nil
          /\ busy[c] # nil =>
                /\ busy'[c].object = busy[c].object /\ busy'[c].copy = busy[c].copy
                /\ busy'[c].todo = busy[c].todo /\ busy'[c].again = busy[c].again
                /\ busy'[c].plan = nil <=> busy[c].plan = nil
                /\ busy[c].plan # nil =>
                      /\ busy'[c].plan.w = busy[c].plan.w
                      /\ busy'[c].plan.enabled = busy[c].plan.enabled
  BY DeleteWorkloadEffect
<1>3. \A w \in Workloads : (ic'[w] = nil <=> ic[w] = nil) /\ (w # v => ic'[w] = ic[w])
  BY DeleteWorkloadEffect
<1>4. \A w : UnderWay(w) => UnderWay(w)'
  BY <1>1, <1>2 DEF UnderWay
<1>5. \A w, enabled : DecidedTo(enabled, w) => DecidedTo(enabled, w)'
  BY <1>2 DEF DecidedTo, Planned
<1>6. \A w : IsObjectInstrumentedBySource(w)' <=> IsObjectInstrumentedBySource(w)
  BY <1>1 DEF IsObjectInstrumentedBySource, WorkloadSources, NamespaceSources
<1>7. MissingIsPending' /\ ExtraIsPending'
  BY <1>1, <1>3, <1>4, <1>5, <1>6 DEF SyncInv, MissingIsPending, ExtraIsPending, TypeOK
<1>8. CacheSeen'
  BY <1>1, <1>3 DEF SyncInv, CacheSeen
<1>9. SourcesKept'
  BY <1>1, <1>2 DEF SyncInv, SourcesKept, Controllers
<1>10. OwnWorkloads'
  BY <1>2 DEF SyncInv, OwnWorkloads
<1> QED
  BY <1>7, <1>8, <1>9, <1>10 DEF SyncInv

\* A controller takes an object: it is to sync the workloads the object stands for.
LEMMA StartSync ==
    ASSUME TypeOK, SyncInv, NEW c \in Controllers, Start(c)
    PROVE  SyncInv'
<1>1. /\ UNCHANGED <<workloads, source, ic, cached, missed, overlooked>> /\ busy[c] = nil
      /\ \A d \in Controllers : d # c => busy'[d] = busy[d]
  BY StartType
<1>2. \A w, enabled : DecidedTo(enabled, w) => DecidedTo(enabled, w)'
  BY <1>1, StillDecided DEF Planned
<1>3. \A w : IsObjectInstrumentedBySource(w)' <=> IsObjectInstrumentedBySource(w)
  BY <1>1 DEF IsObjectInstrumentedBySource, WorkloadSources, NamespaceSources
<1>4. CacheSeen' /\ workloads \subseteq Workloads
  BY <1>1 DEF SyncInv, CacheSeen, TypeOK
<1>5. ASSUME NEW object, queue' = queue \ {<<c, object>>}, NEW w, UnderWay(w)
      PROVE  UnderWay(w)' \/ Covers(c, object, w)
  <2>1. CASE \E item \in queue : Covers(item[1], item[2], w)
    <3>1. PICK item \in queue : Covers(item[1], item[2], w)
      BY <2>1
    <3>2. CASE item = <<c, object>>
      BY <3>1, <3>2
    <3>3. CASE item # <<c, object>>
      BY <1>5, <3>1, <3>3 DEF UnderWay
    <3> QED
      BY <3>2, <3>3
  <2> QED
    BY <1>1, <1>5, <2>1 DEF UnderWay
<1>6. ASSUME NEW object, queue' = queue \ {<<c, object>>}, NEW w \in workloads \ overlooked,
             Covers(c, object, w) =>
                 \/ UnderWay(w)'
                 \/ IsObjectInstrumentedBySource(w) /\ ic[w] # nil
                 \/ ~IsObjectInstrumentedBySource(w) /\ DecidedTo(FALSE, w)'
      PROVE  /\ IsObjectInstrumentedBySource(w) /\ ic[w] = nil
                    => UnderWay(w)' \/ DecidedTo(TRUE, w)'
             /\ ~IsObjectInstrumentedBySource(w) /\ ic[w] # nil
                    => ic[w].orphan \/ UnderWay(w)' \/ DecidedTo(FALSE, w)'
  BY <1>2, <1>5, <1>6 DEF SyncInv, MissingIsPending, ExtraIsPending
<1>7. ASSUME NEW object, queue' = queue \ {<<c, object>>},
             \A w \in workloads : Covers(c, object, w) =>
                 \/ UnderWay(w)'
                 \/ IsObjectInstrumentedBySource(w) /\ ic[w] # nil
                 \/ ~IsObjectInstrumentedBySource(w) /\ DecidedTo(FALSE, w)'
      PROVE  MissingIsPending' /\ ExtraIsPending'
  BY <1>1, <1>3, <1>6, <1>7 DEF MissingIsPending, ExtraIsPending
<1>8. ASSUME NEW r, busy' = [busy EXCEPT ![c] = r] PROVE busy'[c] = r
  BY <1>8 DEF TypeOK
<1>9. ASSUME NEW r, r # nil, busy' = [busy EXCEPT ![c] = r],
             \A w \in r.todo : Covers(c, r.object, w),
             r.plan # nil => Covers(c, r.object, r.plan.w)
      PROVE  OwnWorkloads'
  BY <1>1, <1>8, <1>9 DEF SyncInv, OwnWorkloads
<1>10. ASSUME NEW r, r # nil, busy' = [busy EXCEPT ![c] = r], NEW w, w \in r.todo
       PROVE  UnderWay(w)'
  BY <1>8, <1>10 DEF UnderWay
<1>11. ASSUME c # "source", queue' \subseteq queue PROVE SourcesKept'
  <2>1. busy'["source"] = busy["source"]
    BY <1>1, <1>11 DEF Controllers
  <2> QED
    BY <1>1, <1>11, <2>1 DEF SyncInv, SourcesKept
<1>12. ASSUME NEW object, NEW copy \in SourceObjects \cup {nil}, NEW todo \in SUBSET Workloads,
              <<c, object>> \in queue, copy # nil <=> c = "source",
              queue' = queue \ {<<c, object>>},
              busy' = [busy EXCEPT ![c] = Reconcile(object, copy, todo, nil)],
              \A w \in todo : Covers(c, object, w),
              \A w \in workloads : Covers(c, object, w) => w \in todo
       PROVE  /\ MissingIsPending' /\ ExtraIsPending' /\ OwnWorkloads'
              /\ busy'[c] # nil /\ busy'[c].object = object /\ busy'[c].copy = copy
  <2> DEFINE r == Reconcile(object, copy, todo, nil)
  <2>1. r # nil /\ r.object = object /\ r.copy = copy /\ r.todo = todo /\ r.plan = nil
    BY <1>12, ReconcileType
  <2>2. busy' = [busy EXCEPT ![c] = r]
    BY <1>12
  <2> HIDE DEF r
  <2>3. OwnWorkloads'
    BY <1>9, <1>12, <2>1, <2>2
  <2>4. \A w \in workloads : Covers(c, object, w) => UnderWay(w)'
    BY <1>10, <1>12, <2>1, <2>2
  <2>5. MissingIsPending' /\ ExtraIsPending'
    BY <1>7, <1>12, <2>4
  <2> QED
    BY <1>8, <2>1, <2>2, <2>3, <2>5
<1>13. ASSUME NEW s \in Sources, c = "source", ReconcileSource(s) PROVE SyncInv'
  <2> DEFINE todo == IF Kind[s] = "workload" THEN Matches[s] ELSE Matches[s] \cap workloads
  <2>1. <<c, s>> \in queue /\ queue' = queue \ {<<c, s>>}
    BY <1>13 DEF ReconcileSource, Take
  <2>2. source[s] # nil
    BY <1>13, <2>1 DEF SyncInv, SourcesKept
  <2>3. busy' = [busy EXCEPT ![c] = Reconcile(s, source[s], todo, nil)]
    BY <1>13, <2>2 DEF ReconcileSource
  <2>4. /\ todo \in SUBSET Workloads /\ source[s] \in SourceObjects \cup {nil}
        /\ \A w \in todo : Covers(c, s, w)
        /\ \A w \in workloads : Covers(c, s, w) => w \in todo
    BY <1>13, SourcesAssumption DEF TypeOK, Covers
  <2> HIDE DEF todo
  <2>5. /\ MissingIsPending' /\ ExtraIsPending' /\ OwnWorkloads'
        /\ busy'[c] # nil /\ busy'[c].object = s /\ busy'[c].copy = source[s]
    BY <1>12, <1>13, <2>1, <2>2, <2>3, <2>4
  <2>6. SourcesKept'
    BY <1>1, <1>13, <2>1, <2>2, <2>5 DEF SyncInv, SourcesKept
  <2> QED
    BY <1>4, <2>5, <2>6 DEF SyncInv
<1>14. ASSUME NEW v \in Workloads, c = "workload", ReconcileWorkload(v) PROVE SyncInv'
  <2>1. /\ <<c, v>> \in queue /\ queue' = queue \ {<<c, v>>}
        /\ busy' = [busy EXCEPT ![c] = Reconcile(v, nil, {v}, nil)]
    BY <1>14 DEF ReconcileWorkload, Take
  <2>2. /\ {v} \in SUBSET Workloads /\ \A w \in {v} : Covers(c, v, w)
        /\ \A w \in workloads : Covers(c, v, w) => w \in {v}
    BY <1>14 DEF Covers
  <2>3. MissingIsPending' /\ ExtraIsPending' /\ OwnWorkloads'
    BY <1>12, <1>14, <2>1, <2>2
  <2> QED
    BY <1>4, <1>11, <1>14, <2>1, <2>3 DEF SyncInv
<1>15. ASSUME c = "namespace", ReconcileNamespace PROVE SyncInv'
  <2>1. /\ <<c, "namespace">> \in queue /\ queue' = queue \ {<<c, "namespace">>}
        /\ busy' = [busy EXCEPT ![c] = Reconcile("namespace", nil, workloads, nil)]
    BY <1>15 DEF ReconcileNamespace, Take
  <2>2. \A w : Covers(c, "namespace", w)
    BY <1>15 DEF Covers
  <2>3. MissingIsPending' /\ ExtraIsPending' /\ OwnWorkloads'
    BY <1>4, <1>12, <1>15, <2>1, <2>2
  <2> QED
    BY <1>4, <1>11, <1>15, <2>1, <2>3 DEF SyncInv
<1>16. ASSUME NEW v \in Workloads, c = "instrumentationconfig",
              ReconcileInstrumentationConfig(v)
       PROVE  SyncInv'
  <2>1. <<c, v>> \in queue /\ \A w : Covers(c, v, w) <=> w = v
    BY <1>16 DEF ReconcileInstrumentationConfig, Covers
  <2>2. CASE queue' = queue /\ busy' = [busy EXCEPT ![c] = nil]
    <3>1. busy' = busy
      BY <1>1, <2>2 DEF TypeOK
    <3>2. MissingIsPending' /\ ExtraIsPending'
      BY <1>1, <1>2, <1>3, <2>2, <3>1 DEF SyncInv, MissingIsPending, ExtraIsPending, UnderWay
    <3>3. OwnWorkloads'
      BY <3>1 DEF SyncInv, OwnWorkloads
    <3> QED
      BY <1>4, <1>11, <1>16, <2>2, <3>2, <3>3 DEF SyncInv
  <2>3. CASE /\ queue' = queue \ {<<c, v>>} /\ busy' = [busy EXCEPT ![c] = nil]
             /\ cached[v] # nil /\ IsObjectInstrumentedBySource(v)
    <3>1. ic[v] # nil \/ UnderWay(v)'
      BY <1>1, <2>3 DEF SyncInv, CacheSeen, UnderWay
    <3>2. MissingIsPending' /\ ExtraIsPending'
      <4>1. ASSUME NEW w \in workloads, Covers(c, v, w)
            PROVE  UnderWay(w)' \/ (IsObjectInstrumentedBySource(w) /\ ic[w] # nil)
        BY <2>1, <2>3, <3>1, <4>1
      <4> QED
        BY <1>7, <2>3, <4>1
    <3>3. OwnWorkloads'
      BY <1>1, <1>8, <2>3 DEF SyncInv, OwnWorkloads
    <3> QED
      BY <1>4, <1>11, <1>16, <2>3, <3>2, <3>3 DEF SyncInv
  <2>4. CASE /\ queue' = queue \ {<<c, v>>} /\ cached[v] = nil
             /\ busy' = [busy EXCEPT ![c] = Reconcile(v, nil, {v}, nil)]
    <3>1. /\ {v} \in SUBSET Workloads /\ \A w \in {v} : Covers(c, v, w)
          /\ \A w \in workloads : Covers(c, v, w) => w \in {v}
      BY <2>1
    <3>2. MissingIsPending' /\ ExtraIsPending' /\ OwnWorkloads'
      BY <1>12, <1>16, <2>1, <2>4, <3>1
    <3> QED
      BY <1>4, <1>11, <1>16, <2>4, <3>2 DEF SyncInv
  <2>5. CASE /\ queue' = queue \ {<<c, v>>} /\ ~IsObjectInstrumentedBySource(v)
             /\ busy' = [busy EXCEPT ![c] = Reconcile(v, nil, {}, Deletion(v))]
    <3> DEFINE r == Reconcile(v, nil, {}, Deletion(v))
    <3>1. /\ r # nil /\ r.object = v /\ r.todo = {} /\ r.plan = Deletion(v)
          /\ Deletion(v) # nil /\ Deletion(v).w = v /\ ~Deletion(v).enabled
          /\ Deletion(v) \in Plans
      BY <1>16, <2>1, ReconcileType, PlanType
    <3>2. Deletion(v).enabled = FALSE
      BY DEF Deletion
    <3>3. busy'[c] = r /\ busy' = [busy EXCEPT ![c] = r]
      BY <1>8, <2>5
    <3> HIDE DEF r
    <3>4. DecidedTo(FALSE, v)'
      BY <3>1, <3>2, <3>3 DEF DecidedTo, Planned
    <3>5. MissingIsPending' /\ ExtraIsPending'
      <4>1. ASSUME NEW w \in workloads, Covers(c, v, w)
            PROVE  ~IsObjectInstrumentedBySource(w) /\ DecidedTo(FALSE, w)'
        BY <2>1, <2>5, <3>4, <4>1
      <4> QED
        BY <1>7, <2>5, <4>1
    <3>6. OwnWorkloads'
      BY <1>9, <2>1, <3>1, <3>3
    <3> QED
      BY <1>4, <1>11, <1>16, <2>5, <3>5, <3>6 DEF SyncInv
  <2> QED
    BY <1>16, <2>2, <2>3, <2>4, <2>5 DEF ReconcileInstrumentationConfig
<1> QED
  BY <1>13, <1>14, <1>15, <1>16 DEF Start

\* A sync reads: what it decides is what the Sources say now, or it is to be repeated.
LEMMA ReadsSync ==
    ASSUME TypeOK, SyncInv, NEW c \in Controllers, SyncWorkloadReads(c)
    PROVE  SyncInv'
<1>1. UNCHANGED <<workloads, source, ic, cached, missed, queue>>
  BY DEF SyncWorkloadReads
<1>2. /\ busy[c] # nil /\ busy[c].plan = nil
      /\ \A d \in Controllers : d # c => busy'[d] = busy[d]
      /\ busy'[c] # nil /\ busy'[c].object = busy[c].object /\ busy'[c].copy = busy[c].copy
  BY ReadsEffect
<1>3. PICK v \in busy[c].todo :
          LET failed == v \in workloads /\ TooManySources(v)
          IN /\ overlooked' = overlooked \ {v}
             /\ busy'[c].todo = busy[c].todo \ {v}
             /\ busy'[c].again = (busy[c].again \/ failed)
             /\ busy'[c].plan = IF v \notin workloads \/ failed THEN nil
                                ELSE IF IsObjectInstrumentedBySource(v) THEN Creation(v)
                                ELSE Deletion(v)
  BY ReadsEffect
<1>4. v \in Workloads /\ Covers(c, busy[c].object, v)
  BY <1>2, PlanFields DEF SyncInv, OwnWorkloads
<1>5. /\ Deletion(v) # nil /\ Deletion(v).w = v /\ Deletion(v).enabled = FALSE
      /\ Creation(v) # nil /\ Creation(v).w = v /\ Creation(v).enabled = TRUE
  BY <1>4, PlanType DEF Deletion, Creation
<1>6. \A w : IsObjectInstrumentedBySource(w)' <=> IsObjectInstrumentedBySource(w)
  BY <1>1 DEF IsObjectInstrumentedBySource, WorkloadSources, NamespaceSources
<1>7. \A w, enabled : DecidedTo(enabled, w) => DecidedTo(enabled, w)'
  BY <1>2, StillDecided DEF Planned
<1>8. ASSUME NEW w, UnderWay(w), w # v PROVE UnderWay(w)'
  <2>1. Helps(c, busy[c], w) => UnderWay(w)'
    BY <1>2, <1>3, <1>8 DEF Helps, UnderWay
  <2> QED
    BY <1>1, <1>2, <1>8, <2>1, StillUnderWay
<1>9. ASSUME v \in workloads
      PROVE  \/ UnderWay(v)'
             \/ IsObjectInstrumentedBySource(v) /\ DecidedTo(TRUE, v)'
             \/ ~IsObjectInstrumentedBySource(v) /\ DecidedTo(FALSE, v)'
  <2>1. CASE TooManySources(v)
    BY <1>2, <1>3, <1>4, <1>9, <2>1 DEF UnderWay
  <2>2. CASE ~TooManySources(v) /\ IsObjectInstrumentedBySource(v)
    <3>1. busy'[c].plan = Creation(v)
      BY <1>3, <1>9, <2>2
    <3> QED
      BY <1>2, <1>5, <2>2, <3>1 DEF DecidedTo, Planned
  <2>3. CASE ~TooManySources(v) /\ ~IsObjectInstrumentedBySource(v)
    <3>1. busy'[c].plan = Deletion(v)
      BY <1>3, <1>9, <2>3
    <3> QED
      BY <1>2, <1>5, <2>3, <3>1 DEF DecidedTo, Planned
  <2> QED
    BY <2>1, <2>2, <2>3
<1>10. MissingIsPending' /\ ExtraIsPending'
  BY <1>1, <1>3, <1>6, <1>7, <1>8, <1>9 DEF SyncInv, MissingIsPending, ExtraIsPending
<1>11. CacheSeen'
  BY <1>1 DEF SyncInv, CacheSeen
<1>12. SourcesKept'
  BY <1>1, <1>2 DEF SyncInv, SourcesKept, Controllers
<1>13. OwnWorkloads'
  <2>1. busy'[c].plan # nil => busy'[c].plan.w = v
    BY <1>3, <1>5
  <2>2. \A w \in busy'[c].todo : w \in busy[c].todo
    BY <1>3
  <2> QED
    BY <1>2, <1>4, <2>1, <2>2 DEF SyncInv, OwnWorkloads
<1> QED
  BY <1>10, <1>11, <1>12, <1>13 DEF SyncInv

\* What a sync that is done with its workload leaves under way.
LEMMA DoneSync ==
    ASSUME TypeOK, SyncInv, NEW c \in Controllers, busy[c] # nil, NEW again \in BOOLEAN,
           SyncDone(c, again), UNCHANGED <<source, queue>>, missed \subseteq missed'
    PROVE  /\ SourcesKept' /\ OwnWorkloads'
           /\ \A w : UnderWay(w) => UnderWay(w)'
           /\ \A w, enabled :
                 DecidedTo(enabled, w) /\ ~(Planned(c, enabled) /\ busy[c].plan.w = w)
                     => DecidedTo(enabled, w)'
           /\ \A w : again /\ busy[c].plan # nil /\ w = busy[c].plan.w => UnderWay(w)'
           /\ \A w : IsObjectInstrumentedBySource(w)' <=> IsObjectInstrumentedBySource(w)
<1>1. /\ \A d \in Controllers : d # c => busy'[d] = busy[d]
      /\ busy'[c] # nil /\ busy'[c].object = busy[c].object /\ busy'[c].copy = busy[c].copy
      /\ busy'[c].todo = busy[c].todo /\ busy'[c].plan = nil
      /\ busy'[c].again = (busy[c].again \/ again)
  BY DoneEffect
<1>2. SourcesKept'
  BY <1>1 DEF SyncInv, SourcesKept, Controllers
<1>3. OwnWorkloads'
  BY <1>1 DEF SyncInv, OwnWorkloads
<1>4. \A w : UnderWay(w) => UnderWay(w)'
  <2>1. \A w : Helps(c, busy[c], w) => UnderWay(w)'
    BY <1>1 DEF Helps, UnderWay
  <2> QED
    BY <1>1, <2>1, StillUnderWay
<1>5. \A w, enabled :
          DecidedTo(enabled, w) /\ ~(Planned(c, enabled) /\ busy[c].plan.w = w)
              => DecidedTo(enabled, w)'
  BY <1>1, StillDecided
<1>6. \A w : again /\ busy[c].plan # nil /\ w = busy[c].plan.w => UnderWay(w)'
  <2>1. busy[c].plan # nil => Covers(c, busy[c].object, busy[c].plan.w)
    BY DEF SyncInv, OwnWorkloads
  <2> QED
    BY <1>1, <2>1 DEF UnderWay
<1>7. \A w : IsObjectInstrumentedBySource(w)' <=> IsObjectInstrumentedBySource(w)
  BY DEF IsObjectInstrumentedBySource, WorkloadSources, NamespaceSources
<1> QED
  BY <1>2, <1>3, <1>4, <1>5, <1>6, <1>7

\* A plan, however old, is carried out: an object that goes is missed, and one that was
\* missing already was not left to a plan to delete it.
LEMMA DeletesSync ==
    ASSUME TypeOK, SyncInv, NEW c \in Controllers, SyncWorkloadDeletes(c)
    PROVE  SyncInv'
<1> DEFINE v == busy[c].plan.w
<1>1. /\ busy[c] # nil /\ busy[c].plan # nil /\ busy[c].plan.enabled = FALSE
      /\ v \in Workloads /\ RemoveIc(v) /\ SyncDone(c, FALSE)
      /\ UNCHANGED <<workloads, source, cached, queue, overlooked>>
  BY PlanFields DEF SyncWorkloadDeletes, Planned
<1>2. /\ ic'[v] = nil /\ \A w \in Workloads : w # v => ic'[w] = ic[w]
      /\ missed \subseteq missed' /\ (ic[v] # nil => v \in missed')
  BY <1>1 DEF RemoveIc, TypeOK
<1>3. /\ SourcesKept' /\ OwnWorkloads'
      /\ \A w : UnderWay(w) => UnderWay(w)'
      /\ \A w, enabled :
            DecidedTo(enabled, w) /\ ~(Planned(c, enabled) /\ busy[c].plan.w = w)
                => DecidedTo(enabled, w)'
      /\ \A w : IsObjectInstrumentedBySource(w)' <=> IsObjectInstrumentedBySource(w)
  BY <1>1, <1>2, DoneSync
<1>4. \A w : DecidedTo(TRUE, w) => DecidedTo(TRUE, w)'
  BY <1>1, <1>3 DEF Planned
<1>5. \A w : w # v /\ DecidedTo(FALSE, w) => DecidedTo(FALSE, w)'
  BY <1>3
<1>6. \A w : w = v /\ ic[v] # nil => UnderWay(w)'
  BY <1>2 DEF UnderWay
<1>7. workloads \subseteq Workloads
  BY DEF TypeOK
<1> HIDE DEF v
<1>8. MissingIsPending'
  BY <1>1, <1>2, <1>3, <1>4, <1>6, <1>7 DEF SyncInv, MissingIsPending
<1>9. ExtraIsPending'
  BY <1>1, <1>2, <1>3, <1>5, <1>7 DEF SyncInv, ExtraIsPending
<1>10. CacheSeen'
  BY <1>1, <1>2 DEF SyncInv, CacheSeen
<1> QED
  BY <1>3, <1>8, <1>9, <1>10 DEF SyncInv

\* A plan to create or to update is carried out.
LEMMA WritesSync ==
    ASSUME TypeOK, SyncInv, NEW c \in Controllers, NEW statusFails \in BOOLEAN,
           SyncWorkloadWrites(c, statusFails)
    PROVE  SyncInv'
<1>1. /\ UNCHANGED <<workloads, source, cached, queue, overlooked>>
      /\ busy[c] # nil /\ busy[c].plan # nil /\ busy[c].plan.enabled = TRUE
  BY WritesEffect DEF Planned
<1>2. PICK v \in Workloads, again \in BOOLEAN :
          /\ v = busy[c].plan.w
          /\ SyncDone(c, again)
          /\ \/ cached[v] = nil /\ ic[v] # nil /\ again /\ UNCHANGED <<ic, missed>>
             \/ /\ cached[v] = nil /\ ic[v] = nil
                /\ \E new \in InstrumentationConfigs : ic' = [ic EXCEPT ![v] = new]
                /\ missed' = missed \cup {v}
             \/ /\ cached[v] # nil /\ missed' = missed
                /\ \/ ic' = ic
                   \/ /\ ic[v] # nil
                      /\ \E new \in InstrumentationConfigs :
                            ic' = [ic EXCEPT ![v] = new] /\ new.orphan = ic[v].orphan
  BY WritesEffect
<1>3. missed \subseteq missed'
  BY <1>2
<1>4. /\ SourcesKept' /\ OwnWorkloads'
      /\ \A w : UnderWay(w) => UnderWay(w)'
      /\ \A w, enabled :
            DecidedTo(enabled, w) /\ ~(Planned(c, enabled) /\ busy[c].plan.w = w)
                => DecidedTo(enabled, w)'
      /\ \A w : again /\ busy[c].plan # nil /\ w = busy[c].plan.w => UnderWay(w)'
      /\ \A w : IsObjectInstrumentedBySource(w)' <=> IsObjectInstrumentedBySource(w)
  BY <1>1, <1>2, <1>3, DoneSync
<1>5. again => UnderWay(v)'
  BY <1>1, <1>2, <1>4
<1>6. \A w : DecidedTo(FALSE, w) => DecidedTo(FALSE, w)'
  BY <1>1, <1>4 DEF Planned
<1>7. \A w : w # v /\ DecidedTo(TRUE, w) => DecidedTo(TRUE, w)'
  BY <1>2, <1>4
<1>8. \A w \in Workloads : w # v => ic'[w] = ic[w]
  BY <1>2 DEF TypeOK
<1>9. \/ ic'[v] = ic[v]
      \/ ic'[v] # nil /\ v \in missed'
      \/ ic'[v] # nil /\ ic[v] # nil /\ ic'[v].orphan = ic[v].orphan
  BY <1>2, NilAssumption DEF TypeOK
<1>10. v \in missed' => UnderWay(v)'
  BY DEF UnderWay
<1>11. cached[v] # nil /\ ic[v] = nil => v \in missed
  BY DEF SyncInv, CacheSeen
<1>12. ic'[v] = nil => UnderWay(v)'
  BY <1>2, <1>3, <1>9, <1>10, <1>11, NilAssumption DEF TypeOK
<1>13. workloads \subseteq Workloads
  BY DEF TypeOK
<1>14. MissingIsPending'
  BY <1>1, <1>4, <1>7, <1>8, <1>12, <1>13 DEF SyncInv, MissingIsPending
<1>15. ExtraIsPending'
  BY <1>1, <1>4, <1>6, <1>8, <1>9, <1>10, <1>13 DEF SyncInv, ExtraIsPending
<1>16. CacheSeen'
  BY <1>1, <1>3, <1>8, <1>9 DEF SyncInv, CacheSeen
<1> QED
  BY <1>4, <1>14, <1>15, <1>16 DEF SyncInv

\* A call fails: the sync is to be repeated.
LEMMA FailsSync ==
    ASSUME TypeOK, SyncInv, NEW c \in Controllers, SyncWorkloadFails(c)
    PROVE  SyncInv'
<1>1. busy[c] # nil /\ busy[c].plan # nil
  BY DEF SyncWorkloadFails
<1>2. CASE SyncDone(c, TRUE) /\ UNCHANGED <<workloads, source, ic, cached, missed, queue, overlooked>>
  <2>1. /\ SourcesKept' /\ OwnWorkloads'
        /\ \A w : UnderWay(w) => UnderWay(w)'
        /\ \A w, enabled :
              DecidedTo(enabled, w) /\ ~(Planned(c, enabled) /\ busy[c].plan.w = w)
                  => DecidedTo(enabled, w)'
        /\ \A w : busy[c].plan # nil /\ w = busy[c].plan.w => UnderWay(w)'
        /\ \A w : IsObjectInstrumentedBySource(w)' <=> IsObjectInstrumentedBySource(w)
    BY <1>1, <1>2, DoneSync
  <2>2. \A w, enabled : DecidedTo(enabled, w) => UnderWay(w)' \/ DecidedTo(enabled, w)'
    BY <1>1, <2>1
  <2>3. MissingIsPending' /\ ExtraIsPending'
    BY <1>2, <2>1, <2>2 DEF SyncInv, MissingIsPending, ExtraIsPending
  <2>4. CacheSeen'
    BY <1>2 DEF SyncInv, CacheSeen
  <2> QED
    BY <2>1, <2>3, <2>4 DEF SyncInv
<1> QED
  BY <1>2, WritesSync DEF SyncWorkloadFails

\* The end of a reconcile: one that failed is queued again, and a Source that is removed
\* was terminating.
LEMMA FinishSync ==
    ASSUME TypeOK, SyncInv, NEW c \in Controllers, FinishReconcile(c)
    PROVE  SyncInv'
<1> DEFINE r == busy[c]
<1>1. /\ r # nil /\ r.todo = {} /\ r.plan = nil
      /\ UNCHANGED <<workloads, ic, cached, missed, overlooked>>
  BY DEF FinishReconcile
<1>2. busy'[c] = nil /\ \A d \in Controllers : d # c => busy'[d] = busy[d]
  BY FinishEffect
<1>3. /\ r.copy # nil <=> c = "source"
      /\ c = "source" => r.object \in Sources
  BY <1>1, BusyIsTyped DEF BusyOK, Busy, Items
<1>4. queue \subseteq queue' /\ (r.again => <<c, r.object>> \in queue')
          /\ queue' \subseteq queue \cup {<<c, r.object>>}
  BY DEF FinishReconcile
<1>5. \/ source' = source
      \/ /\ c = "source" /\ r.copy.terminating /\ source[r.object] = r.copy
         /\ source' = [source EXCEPT ![r.object] = nil] /\ queue' = queue
  BY <1>3 DEF FinishReconcile
<1> HIDE DEF r
<1>6. ASSUME NEW w \in Workloads
      PROVE  IsObjectInstrumentedBySource(w)' <=> IsObjectInstrumentedBySource(w)
  <2>1. CASE source' = source
    BY <2>1 DEF IsObjectInstrumentedBySource, WorkloadSources, NamespaceSources
  <2>2. CASE /\ c = "source" /\ r.copy.terminating /\ source[r.object] = r.copy
             /\ source' = [source EXCEPT ![r.object] = nil]
    <3>1. PICK s \in Sources : s = r.object
      BY <1>3, <2>2
    <3>2. source'[s] = nil /\ source' = [source EXCEPT ![s] = source'[s]]
              /\ source[s].terminating
      BY <2>2, <3>1 DEF TypeOK
    <3> QED
      BY <3>2, InstrumentedSame
  <2> QED
    BY <1>5, <2>1, <2>2
<1>7. \A w : UnderWay(w) => UnderWay(w)'
  <2>1. \A w : Helps(c, busy[c], w) => UnderWay(w)'
    BY <1>1, <1>4, QueuedHelps DEF Helps, UnderWay, r
  <2> QED
    BY <1>1, <1>2, <1>4, <2>1, StillUnderWay
<1>8. \A w, enabled : DecidedTo(enabled, w) => DecidedTo(enabled, w)'
  BY <1>1, <1>2, StillDecided DEF Planned, r
<1>9. MissingIsPending' /\ ExtraIsPending'
  BY <1>1, <1>6, <1>7, <1>8 DEF SyncInv, MissingIsPending, ExtraIsPending, TypeOK
<1>10. CacheSeen' /\ OwnWorkloads'
  BY <1>1, <1>2 DEF SyncInv, CacheSeen, OwnWorkloads
<1>11. SourcesKept'
  <2>1. CASE c # "source"
    <3>1. busy'["source"] = busy["source"] /\ source' = source
      BY <1>2, <1>5, <2>1 DEF Controllers
    <3>2. \A s : <<"source", s>> \in queue' <=> <<"source", s>> \in queue
      BY <1>4, <2>1
    <3> QED
      BY <3>1, <3>2 DEF SyncInv, SourcesKept
  <2>2. CASE c = "source"
    <3>1. source[r.object] # nil /\ (r.copy.terminating => <<"source", r.object>> \notin queue)
      BY <1>1, <2>2 DEF SyncInv, SourcesKept, r
    <3>2. ASSUME NEW s \in Sources, <<"source", s>> \in queue' PROVE source'[s] # nil
      <4>1. CASE source' = source
        BY <1>4, <2>2, <3>1, <3>2, <4>1 DEF SyncInv, SourcesKept
      <4>2. CASE /\ r.copy.terminating /\ queue' = queue
                 /\ source' = [source EXCEPT ![r.object] = nil]
        BY <2>2, <3>1, <3>2, <4>2 DEF SyncInv, SourcesKept, TypeOK
      <4> QED
        BY <1>5, <4>1, <4>2
    <3> QED
      BY <1>2, <2>2, <3>2 DEF SourcesKept
  <2> QED
    BY <2>1, <2>2
<1> QED
  BY <1>9, <1>10, <1>11 DEF SyncInv

\* The instrumentor starts again: it looks at every workload.
LEMMA RestartSync ==
    ASSUME TypeOK, SyncInv, Restart
    PROVE  SyncInv'
<1>1. /\ UNCHANGED <<workloads, source, ic>> /\ cached' = ic
      /\ \A c \in Controllers : busy'[c] = nil
      /\ <<"namespace", "namespace">> \in queue'
      /\ \A s : <<"source", s>> \in queue' => source[s] # nil
  BY DEF Restart
<1>2. ASSUME NEW w \in workloads PROVE UnderWay(w)'
  <2>1. Covers("namespace", "namespace", w)
    BY DEF Covers
  <2> QED
    BY <1>1, <2>1, QueuedHelps DEF UnderWay
<1>3. MissingIsPending' /\ ExtraIsPending'
  BY <1>1, <1>2 DEF MissingIsPending, ExtraIsPending
<1>4. CacheSeen' /\ OwnWorkloads' /\ SourcesKept'
  BY <1>1 DEF CacheSeen, OwnWorkloads, SourcesKept, Controllers
<1> QED
  BY <1>3, <1>4 DEF SyncInv

\* Every step keeps the workloads that are out of sync pending.
LEMMA SyncStep == TypeOK /\ SyncInv /\ [Next]_vars => SyncInv'
<1> SUFFICES ASSUME TypeOK, SyncInv, [Next]_vars
             PROVE  SyncInv'
  OBVIOUS
<1>1. CASE UNCHANGED vars
  <2>1. UNCHANGED <<workloads, source, ic, cached, missed, queue, busy, overlooked>>
    BY <1>1 DEF vars
  <2>2. MissingIsPending' /\ ExtraIsPending'
    BY <2>1 DEF SyncInv, MissingIsPending, ExtraIsPending, UnderWay, DecidedTo, Planned,
       IsObjectInstrumentedBySource, WorkloadSources, NamespaceSources
  <2>3. CacheSeen' /\ SourcesKept' /\ OwnWorkloads'
    BY <2>1 DEF SyncInv, CacheSeen, SourcesKept, OwnWorkloads
  <2> QED
    BY <2>2, <2>3 DEF SyncInv
<1>2. ASSUME NEW c \in Controllers, Sync(c) PROVE SyncInv'
  BY <1>2, ReadsSync, DeletesSync, FinishSync, WritesSync DEF Sync
<1> QED
  BY <1>1, <1>2, EventSync, DeleteWorkloadSync, StartSync, FailsSync, RestartSync DEF Next

\* A workload whose InstrumentationConfig does not follow its Sources is never forgotten:
\* a change not yet seen, an object in a queue, a sync in progress or one to be repeated
\* stands for it, although syncs act on Sources read earlier and on a cache that lags, and
\* four controllers, the garbage collector and users change the object meanwhile.  Only
\* static pods that came after their Source are.
THEOREM SyncCorrect == Spec => []OutOfSyncIsPending
<1>1. Init => SyncInv
  BY DEF Init, SyncInv, MissingIsPending, ExtraIsPending, CacheSeen, SourcesKept,
     OwnWorkloads, IsObjectInstrumentedBySource, WorkloadSources, NamespaceSources, Controllers
<1>2. TypeOK /\ SyncInv => OutOfSyncIsPending
  <2>1. \A w : UnderWay(w) => Pending(w)
    BY DEF UnderWay, Pending
  <2>2. \A w, enabled : DecidedTo(enabled, w) => Pending(w)
    BY DEF DecidedTo, Planned, Pending
  <2>3. \A w : ic[w] # nil /\ ic[w].orphan => Pending(w)
    BY DEF Pending
  <2> QED
    BY <2>1, <2>2, <2>3 DEF SyncInv, MissingIsPending, ExtraIsPending, OutOfSyncIsPending,
       InSync
<1> QED
  BY <1>1, <1>2, SyncStep, TypeCorrect, PTL DEF Spec

=============================================================================
