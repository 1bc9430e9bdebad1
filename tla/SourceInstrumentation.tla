----------------------- MODULE SourceInstrumentation -----------------------
(***************************************************************************)
(* The sourceinstrumentation controllers of the instrumentor               *)
(* (instrumentor/controllers/sourceinstrumentation): users mark the        *)
(* workloads of a namespace with Source objects - for one workload, for    *)
(* all whose name matches a pattern, or for the namespace - and exactly    *)
(* the marked workloads are to have an InstrumentationConfig.              *)
(*                                                                         *)
(* Four controllers sync workloads, each one item at a time.  A sync first *)
(* reads the Sources and decides, then writes or deletes the object.  It   *)
(* reads objects from the informer cache, which runs behind the API.       *)
(***************************************************************************)
EXTENDS Integers, FiniteSets

CONSTANTS
    Workloads,      \* of one namespace
    StaticPods,     \* the workloads that no controller watches for
    Sources,        \* names of Source objects
    Kind,           \* Kind[s]: "workload", "regex" or "namespace"
    Matches,        \* Matches[s]: the workloads it is for
    DataStreams,    \* data stream labels
    Settings,       \* service name, overrides and recovery request of a Source
    default,        \* those of a workload without
    nil,
    Env,            \* which kinds of events happen
    MaxEvents       \* bound on their number

ASSUME SourcesAssumption ==
    /\ StaticPods \subseteq Workloads
    /\ Kind \in [Sources -> {"workload", "regex", "namespace"}]
    /\ Matches \in [Sources -> SUBSET Workloads]
    /\ \A s \in Sources : Kind[s] = "namespace" => Matches[s] = Workloads
    /\ default \notin Settings
    /\ MaxEvents \in Nat

VARIABLES
    workloads,  \* those that exist
    source,     \* source[s]: the Source object, or nil
    ic,         \* ic[w]: the InstrumentationConfig in the API server, or nil
    cached,     \* cached[w]: the one in the informer cache
    missed,     \* InstrumentationConfigs created or deleted, not yet seen by the informer
    queue,      \* <<controller, object>> to be reconciled
    busy,       \* busy[c]: what controller c is doing, or nil
    overlooked, \* history, for the properties only: static pods that came and have
                \* not been synced since
    used        \* events so far

vars == <<workloads, source, ic, cached, missed, queue, busy, overlooked, used>>

-----------------------------------------------------------------------------
(* Types *)

Controllers == {"source", "workload", "namespace", "instrumentationconfig"}

Items ==
    ({"source"} \X Sources) \cup ({"workload", "instrumentationconfig"} \X Workloads)
    \cup {<<"namespace", "namespace">>}

\* A deleted Source stays, terminating, until its finalizer is removed.
SourceObjects ==
    [disabled : BOOLEAN, terminating : BOOLEAN, streams : SUBSET DataStreams, settings : Settings]

\* marked: the kind of Source its MarkedForInstrumentation condition names, if set.
\* orphan: owned by a workload that was deleted.
InstrumentationConfigs ==
    [streams : SUBSET DataStreams, settings : Settings \cup {default},
     marked : {"unset", "workload", "namespace"}, orphan : BOOLEAN]

\* What a sync has decided for one workload, and whether that was deleted since.
Plans ==
    [w : Workloads, enabled : BOOLEAN, orphan : BOOLEAN, streams : SUBSET DataStreams,
     settings : Settings \cup {default}, marked : {"unset", "workload", "namespace"}]

Reconciles ==
    [object : Sources \cup Workloads \cup {"namespace"}, copy : SourceObjects \cup {nil},
     todo : SUBSET Workloads, plan : Plans \cup {nil}, again : BOOLEAN]

ASSUME NilAssumption ==
    nil \notin SourceObjects \cup InstrumentationConfigs \cup Plans \cup Reconciles

\* Every variable has its type, and only the reconcile of a Source holds a copy of one.
TypeOK ==
    /\ workloads \subseteq Workloads
    /\ source \in [Sources -> SourceObjects \cup {nil}]
    /\ ic \in [Workloads -> InstrumentationConfigs \cup {nil}]
    /\ cached \in [Workloads -> InstrumentationConfigs \cup {nil}]
    /\ missed \subseteq Workloads
    /\ queue \subseteq Items
    /\ busy \in [Controllers -> Reconciles \cup {nil}]
    /\ \A c \in Controllers : busy[c] # nil =>
          /\ <<c, busy[c].object>> \in Items
          /\ busy[c].copy # nil <=> c = "source"
    /\ overlooked \subseteq StaticPods
    /\ used \in 0..MaxEvents

Init ==
    /\ workloads \in SUBSET Workloads
    /\ source = [s \in Sources |-> nil]
    /\ ic = [w \in Workloads |-> nil]
    /\ cached = ic
    /\ missed = {}
    /\ queue = {}
    /\ busy = [c \in Controllers |-> nil]
    /\ overlooked = {}
    /\ used = 0

Event(kind) ==
    /\ kind \in Env
    /\ used < MaxEvents
    /\ used' = used + 1

-----------------------------------------------------------------------------
(* Which Sources apply to a workload, and what they say *)

WorkloadSources(w) == {s \in Sources : source[s] # nil /\ Kind[s] # "namespace" /\ w \in Matches[s]}
NamespaceSources == {s \in Sources : source[s] # nil /\ Kind[s] = "namespace"}

\* Mutant: a workload Source beside a namespace Source is one too many.
TooManyTogether(w) == Cardinality(WorkloadSources(w) \cup NamespaceSources) > 1

\* GetSources fails when it finds more than one of a kind; terminating ones count.
TooManySources(w) == Cardinality(WorkloadSources(w)) > 1 \/ Cardinality(NamespaceSources) > 1

\* Mutant: a Source counts until it is gone.
InstrumentedUntilGone(w) ==
    \/ \E s \in WorkloadSources(w) : ~source[s].disabled
    \/ WorkloadSources(w) = {} /\ \E s \in NamespaceSources : ~source[s].disabled

\* IsObjectInstrumentedBySource: an active workload Source decides, else an active
\* namespace Source that is not disabled.
IsObjectInstrumentedBySource(w) ==
    LET active(s) == ~source[s].terminating
    IN \/ \E s \in WorkloadSources(w) : active(s) /\ ~source[s].disabled
       \/ /\ \A s \in WorkloadSources(w) : ~active(s)
          /\ \E s \in NamespaceSources : active(s) /\ ~source[s].disabled

\* CalculateDataStreamsLabels merges the labels of both, terminating or not.
CalculateDataStreamsLabels(w) ==
    UNION {source[s].streams : s \in WorkloadSources(w) \cup NamespaceSources}

\* The reason IsObjectInstrumentedBySource gives for an instrumented workload.
MarkedBy(w) ==
    IF \E s \in WorkloadSources(w) : ~source[s].terminating THEN "workload" ELSE "namespace"

\* Mutant: nothing in place of what the Source does not say.
NoDefaultSettings(w) ==
    IF \E s \in WorkloadSources(w) : ~source[s].terminating
    THEN source[CHOOSE s \in WorkloadSources(w) : ~source[s].terminating].settings
    ELSE nil

\* Service name, overrides and recovery request of the workload Source, if active.
DesiredSettings(w) ==
    IF \E s \in WorkloadSources(w) : ~source[s].terminating
    THEN source[CHOOSE s \in WorkloadSources(w) : ~source[s].terminating].settings
    ELSE default

-----------------------------------------------------------------------------
(* Users, and the webhook that validates what they do *)

\* The two Sources are for the same workload, or both for the namespace; two patterns
\* are allowed to overlap.
Duplicates(s, d) ==
    /\ source[d] # nil /\ Matches[s] \cap Matches[d] # {}
    /\ (Kind[s] = "namespace") <=> (Kind[d] = "namespace")
    /\ ~(Kind[s] = "regex" /\ Kind[d] = "regex")

\* validateSourceUniqueness may accept the Source.  It lists the Sources in the cache,
\* which may not have one yet whose event is not handled.
UniqueSource(s) ==
    \A d \in Sources \ {s} :
        Duplicates(s, d) => "race" \in Env /\ <<"source", d>> \in queue

\* A Source is created, changed or deleted; each is an event for its controller.
WriteSource(s) ==
    /\ Event("source")
    /\ \/ /\ source[s] # nil => ~source[s].terminating
          /\ UniqueSource(s)
          /\ \E new \in {x \in SourceObjects : ~x.terminating} \ {source[s]} :
                /\ DataStreams # {} => new.streams # {}
                /\ source' = [source EXCEPT ![s] = new]
       \/ /\ source[s] # nil /\ ~source[s].terminating
          /\ source' = [source EXCEPT ![s].terminating = TRUE]
    /\ queue' = queue \cup {<<"source", s>>}
    /\ UNCHANGED <<workloads, ic, cached, missed, busy, overlooked>>

\* Workloads come, which their controller only watches for, ...
CreateWorkload(w) ==
    /\ Event("workload")
    /\ w \notin workloads
    /\ workloads' = workloads \cup {w}
    /\ queue' = queue \cup ({"workload"} \X ({w} \ StaticPods))
    /\ overlooked' = overlooked \cup ({w} \cap StaticPods)
    /\ UNCHANGED <<source, ic, cached, missed, busy>>

\* ... and go; their InstrumentationConfig is left to the garbage collector.
DeleteWorkload(w) ==
    /\ Event("workload")
    /\ w \in workloads
    /\ workloads' = workloads \ {w}
    /\ overlooked' = overlooked \ {w}
    /\ ic' = [ic EXCEPT ![w] = IF @ = nil THEN nil ELSE [@ EXCEPT !.orphan = TRUE]]
    /\ busy' = [c \in Controllers |->
           IF busy[c] # nil /\ busy[c].plan # nil /\ busy[c].plan.w = w
           THEN [busy[c] EXCEPT !.plan.orphan = TRUE] ELSE busy[c]]
    /\ UNCHANGED <<source, cached, missed, queue>>

-----------------------------------------------------------------------------
(* The API server and the informer *)

RemoveIc(w) ==
    /\ ic' = [ic EXCEPT ![w] = nil]
    /\ missed' = IF ic[w] = nil THEN missed ELSE missed \cup {w}

GarbageCollect(w) ==
    /\ ic[w] # nil /\ ic[w].orphan
    /\ RemoveIc(w)
    /\ UNCHANGED <<workloads, source, cached, queue, busy, overlooked, used>>

\* Someone deletes the object by accident.
DeleteByAccident(w) ==
    /\ Event("accident")
    /\ ic[w] # nil
    /\ RemoveIc(w)
    /\ UNCHANGED <<workloads, source, cached, queue, busy, overlooked>>

\* ExistencePredicate: creations and deletions are events, updates are not.
ExistencePredicate(w) == w \in missed

InformerCatchesUp(w) ==
    /\ w \in missed \/ cached[w] # ic[w]
    /\ cached' = [cached EXCEPT ![w] = ic[w]]
    /\ missed' = missed \ {w}
    /\ queue' = IF ExistencePredicate(w) THEN queue \cup {<<"instrumentationconfig", w>>} ELSE queue
    /\ UNCHANGED <<workloads, source, ic, busy, overlooked, used>>

-----------------------------------------------------------------------------
(* Reconciles *)

Reconcile(object, copy, todo, plan) ==
    [object |-> object, copy |-> copy, todo |-> todo, plan |-> plan, again |-> FALSE]

Deletion(w) ==
    [w |-> w, enabled |-> FALSE, orphan |-> FALSE, streams |-> {}, settings |-> default, marked |-> "unset"]

Creation(w) ==
    [w |-> w, enabled |-> TRUE, orphan |-> FALSE, streams |-> CalculateDataStreamsLabels(w),
     settings |-> DesiredSettings(w), marked |-> MarkedBy(w)]

Take(c, object) ==
    /\ busy[c] = nil
    /\ <<c, object>> \in queue
    /\ queue' = queue \ {<<c, object>>}
    /\ UNCHANGED <<workloads, source, ic, cached, missed, overlooked, used>>

\* The Source names one workload or lists those that match; a Source that is gone is
\* no work.
ReconcileSource(s) ==
    /\ Take("source", s)
    /\ busy' = [busy EXCEPT !["source"] =
           IF source[s] = nil THEN nil
           ELSE Reconcile(s, source[s],
                    IF Kind[s] = "workload" THEN Matches[s] ELSE Matches[s] \cap workloads, nil)]

ReconcileWorkload(w) ==
    /\ Take("workload", w)
    /\ busy' = [busy EXCEPT !["workload"] = Reconcile(w, nil, {w}, nil)]

ReconcileNamespace ==
    /\ Take("namespace", "namespace")
    /\ busy' = [busy EXCEPT !["namespace"] = Reconcile("namespace", nil, workloads, nil)]

\* A missing InstrumentationConfig syncs its workload, an existing one is only checked.
ReconcileInstrumentationConfig(w) ==
    /\ busy["instrumentationconfig"] = nil
    /\ <<"instrumentationconfig", w>> \in queue
    /\ LET checked == cached[w] # nil
           again == checked /\ TooManySources(w)
           done == checked /\ (TooManySources(w) \/ IsObjectInstrumentedBySource(w))
       IN /\ queue' = IF again THEN queue ELSE queue \ {<<"instrumentationconfig", w>>}
          /\ busy' = [busy EXCEPT !["instrumentationconfig"] =
                 IF done THEN nil
                 ELSE Reconcile(w, nil, IF checked THEN {} ELSE {w},
                                IF checked THEN Deletion(w) ELSE nil)]
    /\ UNCHANGED <<workloads, source, ic, cached, missed, overlooked, used>>

\* First half of syncWorkload: read the workload and its Sources, and decide.
SyncWorkloadReads(c) ==
    /\ busy[c] # nil /\ busy[c].plan = nil
    /\ \E w \in busy[c].todo :
          LET failed == w \in workloads /\ TooManySources(w)
          IN /\ busy' = [busy EXCEPT ![c] =
                    [busy[c] EXCEPT !.todo = busy[c].todo \ {w},
                                    !.again = busy[c].again \/ failed,
                                    !.plan = IF w \notin workloads \/ failed THEN nil
                                             ELSE IF IsObjectInstrumentedBySource(w) THEN Creation(w)
                                             ELSE Deletion(w)]]
             /\ overlooked' = overlooked \ {w}
    /\ UNCHANGED <<workloads, source, ic, cached, missed, queue, used>>

SyncDone(c, again) ==
    busy' = [busy EXCEPT ![c] = [busy[c] EXCEPT !.plan = nil, !.again = busy[c].again \/ again]]

Planned(c, enabled) == busy[c] # nil /\ busy[c].plan # nil /\ busy[c].plan.enabled = enabled

\* deleteWorkloadInstrumentationConfig
SyncWorkloadDeletes(c) ==
    /\ Planned(c, FALSE)
    /\ RemoveIc(busy[c].plan.w)
    /\ SyncDone(c, FALSE)
    /\ UNCHANGED <<workloads, source, cached, queue, overlooked, used>>

\* Mutant: the object is not owned by the workload.
NoControllerReference(plan) == FALSE

\* The object is owned by the workload that was read, so an orphan if that is gone.
SetControllerReference(plan) == plan.orphan

\* createInstrumentationConfigForWorkload, and the update of the status unless that
\* fails; an object that exists although the cache has none queues the workload again.
SyncWorkloadCreates(c, statusFails) ==
    /\ Planned(c, TRUE)
    /\ LET plan == busy[c].plan
       IN /\ cached[plan.w] = nil
          /\ statusFails => ic[plan.w] = nil
          /\ SyncDone(c, statusFails \/ ic[plan.w] # nil)
          /\ IF ic[plan.w] # nil THEN UNCHANGED <<ic, missed>>
             ELSE /\ ic' = [ic EXCEPT ![plan.w] =
                        [streams |-> plan.streams, settings |-> plan.settings,
                         marked |-> IF statusFails THEN "unset" ELSE plan.marked,
                         orphan |-> SetControllerReference(plan)]]
                  /\ missed' = missed \cup {plan.w}
    /\ UNCHANGED <<workloads, source, cached, queue, overlooked>>

\* The update of an object whose cached copy differs from what is desired, and then of
\* its status.  It is refused when the copy is out of date: a conflict queues the
\* workload again, an object that is gone is ignored.
SyncWorkloadUpdates(c, statusFails) ==
    /\ Planned(c, TRUE)
    /\ LET plan == busy[c].plan
           copy == cached[plan.w]
           current == copy = ic[plan.w] /\ plan.w \notin missed
           desired == [copy EXCEPT !.streams = plan.streams, !.settings = plan.settings,
                                   !.marked = IF statusFails THEN @ ELSE plan.marked]
           changes == copy # desired
       IN /\ copy # nil
          /\ statusFails => current
          /\ SyncDone(c, statusFails \/ (changes /\ ~current /\ ic[plan.w] # nil))
          /\ ic' = IF changes /\ current THEN [ic EXCEPT ![plan.w] = desired] ELSE ic
    /\ UNCHANGED <<workloads, source, cached, missed, queue, overlooked>>

SyncWorkloadWrites(c, statusFails) ==
    SyncWorkloadCreates(c, statusFails) \/ SyncWorkloadUpdates(c, statusFails)

\* A call fails - the first, or the update of the status that follows it - or the
\* object was changed by another component meanwhile.
SyncWorkloadFails(c) ==
    /\ Event("failure")
    /\ busy[c] # nil /\ busy[c].plan # nil
    /\ \/ SyncDone(c, TRUE) /\ UNCHANGED <<workloads, source, ic, cached, missed, queue, overlooked>>
       \/ SyncWorkloadWrites(c, TRUE)

\* The end of a reconcile.  Once all its workloads are synced, a terminating Source
\* loses its finalizer, and with it exists no longer, unless it changed meanwhile or the
\* webhook, which validates this update too, refuses it.
FinishReconcile(c) ==
    /\ busy[c] # nil /\ busy[c].todo = {} /\ busy[c].plan = nil
    /\ LET r == busy[c]
           unfinalize == ~r.again /\ r.copy # nil /\ r.copy.terminating
           conflict == unfinalize /\ source[r.object] # r.copy
       IN \E refused \in BOOLEAN :
             /\ refused => unfinalize /\ \E d \in Sources \ {r.object} : Duplicates(r.object, d)
             /\ unfinalize /\ ~refused => UniqueSource(r.object)
             /\ source' = IF unfinalize /\ ~conflict /\ ~refused
                          THEN [source EXCEPT ![r.object] = nil] ELSE source
             /\ queue' = IF r.again \/ conflict \/ refused
                         THEN queue \cup {<<c, r.object>>} ELSE queue
    /\ busy' = [busy EXCEPT ![c] = nil]
    /\ UNCHANGED <<workloads, ic, cached, missed, overlooked, used>>

\* The instrumentor starts again: every object is listed and so created to it.
Restart ==
    /\ Event("crash")
    /\ cached' = ic
    /\ missed' = {}
    /\ busy' = [c \in Controllers |-> nil]
    /\ queue' = {<<"source", s>> : s \in {t \in Sources : source[t] # nil}}
                \cup ({"workload"} \X (workloads \ StaticPods)) \cup {<<"namespace", "namespace">>}
                \cup ({"instrumentationconfig"} \X {w \in Workloads : ic[w] # nil})
    /\ UNCHANGED <<workloads, source, ic, overlooked>>

-----------------------------------------------------------------------------
Sync(c) ==
    \/ SyncWorkloadReads(c) \/ SyncWorkloadDeletes(c) \/ FinishReconcile(c)
    \/ SyncWorkloadWrites(c, FALSE) /\ UNCHANGED used

Start(c) ==
    \/ \E s \in Sources : c = "source" /\ ReconcileSource(s)
    \/ \E w \in Workloads : \/ c = "workload" /\ ReconcileWorkload(w)
                            \/ c = "instrumentationconfig" /\ ReconcileInstrumentationConfig(w)
    \/ c = "namespace" /\ ReconcileNamespace

Next ==
    \/ \E s \in Sources : WriteSource(s)
    \/ \E w \in Workloads : \/ CreateWorkload(w) \/ DeleteWorkload(w) \/ DeleteByAccident(w)
                            \/ GarbageCollect(w) \/ InformerCatchesUp(w)
    \/ \E c \in Controllers : Start(c) \/ Sync(c) \/ SyncWorkloadFails(c)
    \/ Restart

Spec == Init /\ [][Next]_vars

\* Controllers finish their reconciles and take every queued object in turn, the
\* informer and the garbage collector go on.
FairSpec ==
    /\ Spec
    /\ \A c \in Controllers : WF_vars(Sync(c))
    /\ \A s \in Sources : SF_vars(ReconcileSource(s))
    /\ \A w \in Workloads : /\ WF_vars(ReconcileWorkload(w)) /\ WF_vars(ReconcileInstrumentationConfig(w))
                            /\ WF_vars(GarbageCollect(w)) /\ WF_vars(InformerCatchesUp(w))
    /\ WF_vars(ReconcileNamespace)

-----------------------------------------------------------------------------
(* Properties *)

InSync(w) == (ic[w] # nil) <=> IsObjectInstrumentedBySource(w)

\* A reconcile of the object by the controller syncs the workload.
Covers(c, object, w) ==
    CASE c = "source" -> w \in Matches[object]
      [] c = "namespace" -> TRUE
      [] OTHER -> object = w

\* Something that will look at the workload is under way.
Pending(w) ==
    \/ w \in missed
    \/ ic[w] # nil /\ ic[w].orphan
    \/ \E item \in queue : Covers(item[1], item[2], w)
    \/ \E c \in Controllers : busy[c] # nil /\
           \/ w \in busy[c].todo
           \/ busy[c].again /\ Covers(c, busy[c].object, w)
           \/ busy[c].plan # nil /\ busy[c].plan.w = w

\* A workload whose InstrumentationConfig does not follow its Sources is never
\* forgotten, whatever order Sources, workloads, caches and controllers change in; not
\* even while it has so many Sources that its syncs fail.  Excepted are static pods that
\* come after their Source: no controller watches for them, and only a change of a
\* Source, of the namespace or of the instrumentor leads to them.
OutOfSyncIsPending ==
    \A w \in workloads : InSync(w) \/ Pending(w) \/ w \in overlooked

\* In the end exactly the marked workloads have an InstrumentationConfig, short of those
\* with more than one Source and of overlooked static pods.
InSyncInTheEnd ==
    <>[](\A w \in Workloads : IF w \in workloads
                              THEN TooManySources(w) \/ InSync(w) \/ w \in overlooked
                              ELSE ic[w] = nil)

\* Two Sources are for the workload, or two for its namespace, so that its sync fails.
Contested(w) ==
    \E d, e \in Sources :
        /\ d # e /\ source[d] # nil /\ source[e] # nil
        /\ w \in Matches[d] \cap Matches[e]
        /\ (Kind[d] = "namespace") <=> (Kind[e] = "namespace")

\* A deletion of the Source cannot be carried out: a workload it matches is contested, or
\* the webhook takes the removal of the finalizer for a duplicate Source.
Stuck(s) ==
    \/ \E w \in Matches[s] \cap workloads : Contested(w)
    \/ \E d \in Sources \ {s} : Duplicates(s, d)

\* A Source that is deleted goes in the end: its finalizer is removed, which takes a
\* reconcile of it in which every workload it matches is synced without an error.  This
\* never happens as long as another Source is for one of its workloads too: two patterns,
\* which the webhook lets overlap, or two Sources that it let in at once.
DeletedSourceGoes ==
    <>[](\A s \in Sources : source[s] # nil => ~source[s].terminating \/ Stuck(s))

\* instrumentationconfig_controller.go:50 says "it should reconcile accidental deletions to
\* recreate it", with the conditions syncWorkload gives an InstrumentationConfig: in the
\* end none is without.
MarkedInTheEnd ==
    <>[](\A w \in Workloads : ic[w] = nil \/ ic[w].marked # "unset")
=============================================================================
