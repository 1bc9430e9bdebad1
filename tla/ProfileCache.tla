---------------------------- MODULE ProfileCache ----------------------------
(***************************************************************************)
(* The profile cache of the frontend (common/profilecache): a store with   *)
(* one bounded buffer of profile chunks for each source the user looks at. *)
(* Consumers of OTLP profiles fill the buffers, GraphQL resolvers open and *)
(* read them, a sweeper removes the idle ones, and a watcher of the        *)
(* effective configuration opens and closes the ingest gate and changes    *)
(* the limits while all of them run.                                       *)
(*                                                                         *)
(* The limits come from the settings page: a resolver persists them in the *)
(* remote configuration and applies them at once, and the controller of    *)
(* the odigos configuration merges them into the effective configuration,  *)
(* which brings them back through the watcher.                             *)
(***************************************************************************)
EXTENDS Integers, FiniteSets, Sequences, SequencesExt

CONSTANTS
    Keys,             \* sources
    Sizes,            \* sizes of marshalled chunks
    Consumers,        \* goroutines that consume profiles
    Editors,          \* goroutines that configure the cache
    Mergers,          \* controllers that write the effective configuration: ...
    ConfigMerger,     \* the one that watches the configurations
    DefaultLimits,    \* the limits from the environment of the UI pod
    HelmLimits,       \* those of the helm-managed configuration
    LocalLimits,      \* those of the local UI configuration
    Edits,            \* what the settings page may ask for
    nil,
    Env,              \* which kinds of environment events happen
    MaxEvents,        \* bound on their number
    MaxAge            \* ages are not told apart from here on

Fields == {"maxSlots", "slotMaxBytes", "ttlSeconds"}

\* What a configuration has for the limits: anything, 0 where it is unset.
PartialLimits == [Fields -> Int]
Limits == [Fields -> Nat \ {0}]

\* An edit writes what it supplies, and the rest of its limits is unset.
Asked == {edit.ui : edit \in Edits}

ASSUME MergersAssumption == ConfigMerger \in Mergers

ASSUME LimitsAssumption ==
    /\ DefaultLimits \in Limits
    /\ HelmLimits \in PartialLimits /\ LocalLimits \in PartialLimits
    /\ Edits \subseteq [supplied : SUBSET Fields, ui : PartialLimits]
    /\ \A edit \in Edits : \A f \in Fields \ edit.supplied : edit.ui[f] = 0
    /\ Sizes \subseteq Nat \ {0}
    /\ MaxEvents \in Nat /\ MaxAge \in Nat
    /\ \A l \in Asked \cup {DefaultLimits, HelmLimits, LocalLimits} :
          l["ttlSeconds"] + 1 < MaxAge

VARIABLES
    slots,      \* slots[k]: the slot of k, or nil
    limits,     \* the limits of the store
    gate,       \* whether profiles are ingested
    consumer,   \* consumer[c]: the chunk c is about to add, or nil
    sweep,      \* the age from which the sweep in progress removes slots, or nil
    editor,     \* editor[e]: the limits e has persisted and not applied, or nil
    remote,     \* the remote configuration's limits
    enabled,    \* whether the helm-managed configuration enables profiling
    merging,    \* merging[m]: the configuration m is about to write, or nil
    dirty,      \* the controllers that have yet to look at the configuration
    effective,  \* the effective configuration, or nil
    events,     \* its versions on the way to the watcher
    watcher,    \* the watcher's event in progress, or nil
    used,       \* environment events so far
    hist        \* what went wrong so far: see Mishaps

storeVars == <<slots, limits, consumer>>
configVars == <<remote, enabled, merging, dirty, effective, events>>
vars == <<storeVars, configVars, gate, sweep, editor, watcher, used, hist>>

-----------------------------------------------------------------------------
(* Types *)

\* age is the time since lastRequestAt; the buffer is its chunks' sizes.
Slots ==
    [age : 0 .. MaxAge, chunks : Seq(Sizes), totalBytes : Int, maxBytes : Nat \ {0}]

\* live: the slot that was found is still the slot of its key.
Chunks == [k : Keys, size : Sizes, step : {"find", "add"}, live : BOOLEAN]

Configs == [enabled : BOOLEAN, ui : PartialLimits]

\* contested: the fields whose limit was set last by an editor that was overtaken,
\* or that were taken back.  behind: the merges in progress that have an older
\* remote configuration than one that came later, or could not read it.  astray:
\* the effective configuration is of such a merge, or a later one was refused.
Mishaps == [contested : SUBSET Fields, behind : SUBSET Mergers, astray : BOOLEAN]

WatcherSteps == [config : Configs \cup {nil}, step : {"clear", "reconfigure"}]

\* What is missing, or not in progress, is none of these.
ASSUME NilAssumption ==
    /\ nil \notin Slots
    /\ nil \notin Chunks
    /\ nil \notin PartialLimits
    /\ nil \notin Configs
    /\ nil \notin WatcherSteps
    /\ nil \notin Nat

\* Every variable has its type.
TypeOK ==
    /\ slots \in [Keys -> Slots \cup {nil}]
    /\ limits \in Limits
    /\ gate \in BOOLEAN
    /\ consumer \in [Consumers -> Chunks \cup {nil}]
    /\ sweep \in (1 .. MaxAge) \cup {nil}
    /\ editor \in [Editors -> PartialLimits \cup {nil}]
    /\ remote \in PartialLimits
    /\ enabled \in BOOLEAN
    /\ merging \in [Mergers -> Configs \cup {nil}]
    /\ dirty \subseteq Mergers
    /\ effective \in Configs \cup {nil}
    /\ events \in Seq(Configs \cup {nil})
    /\ watcher \in WatcherSteps \cup {nil}
    /\ used \in Nat
    /\ hist \in Mishaps

NoLimits == [f \in Fields |-> 0]

\* Mutant: omitted fields are taken over as well.
OverlayOmitted(old, new) == new

\* A field that is not positive leaves the old value.
Overlay(old, new) == [f \in Fields |-> IF new[f] > 0 THEN new[f] ELSE old[f]]

\* mergeConfigs: what is set in the overlay replaces what the base has.
MergeUi(base, overlay) == [f \in Fields |-> IF overlay[f] # 0 THEN overlay[f] ELSE base[f]]

\* The remote configuration overlays the helm-managed one, and the local one both.
MergedUi(rem, local) == MergeUi(MergeUi(HelmLimits, rem), local)

\* The limits that the configurations ask for by now.
Settings == MergedUi(remote, LocalLimits)

\* Profiling is enabled, nobody looks at a source.
Init ==
    /\ slots = [k \in Keys |-> nil]
    /\ limits = Overlay(DefaultLimits, MergedUi(NoLimits, LocalLimits))
    /\ gate = TRUE
    /\ consumer = [c \in Consumers |-> nil]
    /\ sweep = nil
    /\ editor = [e \in Editors |-> nil]
    /\ remote = NoLimits
    /\ enabled = TRUE
    /\ merging = [m \in Mergers |-> nil]
    /\ dirty = {}
    /\ effective = [enabled |-> TRUE, ui |-> MergedUi(NoLimits, LocalLimits)]
    /\ events = <<>>
    /\ watcher = nil
    /\ used = 0
    /\ hist = [contested |-> {}, behind |-> {}, astray |-> FALSE]

-----------------------------------------------------------------------------
(* BoundedBuffer *)

Sum(chunks) == FoldLeft(LAMBDA a, b : a + b, 0, chunks)

\* Mutant: the bytes of the dropped chunks stay counted.
TrimUncounted(s) ==
    LET dropped == CHOOSE d \in 0 .. Len(s.chunks) :
            /\ s.totalBytes - Sum(SubSeq(s.chunks, 1, d)) <= s.maxBytes \/ d = Len(s.chunks)
            /\ \A e \in 0 .. d - 1 : s.totalBytes - Sum(SubSeq(s.chunks, 1, e)) > s.maxBytes
    IN  [s EXCEPT !.chunks = SubSeq(@, dropped + 1, Len(@))]

\* trimLocked: the oldest chunks are dropped until the rest fits.
Trim(s) ==
    LET fits(d) == s.totalBytes - Sum(SubSeq(s.chunks, 1, d)) <= s.maxBytes
        dropped == CHOOSE d \in 0 .. Len(s.chunks) :
            /\ fits(d) \/ d = Len(s.chunks)
            /\ \A e \in 0 .. d - 1 : ~fits(e)
    IN  [s EXCEPT !.chunks = SubSeq(@, dropped + 1, Len(@)),
                  !.totalBytes = @ - Sum(SubSeq(s.chunks, 1, dropped))]

\* AddAt: a chunk larger than the whole budget is refused.
AddAt(s, size) ==
    IF size > s.maxBytes THEN s
    ELSE Trim([s EXCEPT !.chunks = Append(@, size), !.totalBytes = @ + size])

Resize(s, maxBytes) == Trim([s EXCEPT !.maxBytes = maxBytes])

Clear(s) == [s EXCEPT !.chunks = <<>>, !.totalBytes = 0]

-----------------------------------------------------------------------------
(* Store: one action per critical section *)

Open == {k \in Keys : slots[k] # nil}

NewSlot == [age |-> 0, chunks |-> <<>>, totalBytes |-> 0, maxBytes |-> limits["slotMaxBytes"]]

\* The slots are now s: a consumer that has found one of the removed keeps only
\* its buffer, which nobody else can reach.
SetSlots(s) ==
    /\ slots' = s
    /\ consumer' = [c \in Consumers |->
          IF consumer[c] # nil /\ s[consumer[c].k] = nil
          THEN [consumer[c] EXCEPT !.live = FALSE] ELSE consumer[c]]

\* evictOldestSlotLocked: what is left after evictions down to n slots.
LeastRecentlyUsed(n) ==
    {kept \in SUBSET Open :
        /\ Cardinality(kept) = IF Cardinality(Open) <= n THEN Cardinality(Open) ELSE n
        /\ \A k \in kept, v \in Open \ kept : slots[k].age <= slots[v].age}

\* A new slot evicts one at most.
EvictedForOne == IF Cardinality(Open) >= limits["maxSlots"] THEN 1 ELSE 0

EnsureSlot(k) ==
    IF slots[k] # nil
    THEN SetSlots([slots EXCEPT ![k].age = 0])
    ELSE \E kept \in LeastRecentlyUsed(Cardinality(Open) - EvictedForOne) :
            SetSlots([q \in Keys |-> IF q = k THEN NewSlot
                                     ELSE IF q \in kept THEN slots[q] ELSE nil])

RemoveSlot(k) == SetSlots([slots EXCEPT ![k] = nil])

ClearAllSlots == SetSlots([k \in Keys |-> nil])

\* Mutant: the buffers keep their old budget.
ReconfigureWithoutResize(new) ==
    /\ limits' = Overlay(limits, new)
    /\ \E kept \in LeastRecentlyUsed(limits'["maxSlots"]) :
          SetSlots([k \in Keys |-> IF k \in kept THEN slots[k] ELSE nil])

Reconfigure(new) ==
    /\ limits' = Overlay(limits, new)
    /\ \E kept \in LeastRecentlyUsed(limits'["maxSlots"]) :
          SetSlots([k \in Keys |->
              IF k \in kept THEN Resize(slots[k], limits'["slotMaxBytes"]) ELSE nil])

-----------------------------------------------------------------------------
(* OdigosProfilesConsumer.consume *)

NextChunk(k, size) == [k |-> k, size |-> size, step |-> "find", live |-> FALSE]

\* The rest of the batch: it ends, or has another resource of a known source.
ContinueBatch(c) ==
    \/ consumer' = [consumer EXCEPT ![c] = nil]
    \/ \E k \in Keys, size \in Sizes : consumer' = [consumer EXCEPT ![c] = NextChunk(k, size)]

\* The gate is asked once for a batch, which is dropped when it is closed.
ReceiveBatch(c, k, size) ==
    /\ consumer[c] = nil
    /\ gate
    /\ consumer' = [consumer EXCEPT ![c] = NextChunk(k, size)]
    /\ UNCHANGED <<slots, limits, configVars, gate, sweep, editor, watcher, used, hist>>

\* IsActive and the lookup of AddProfileData: a chunk without a slot is dropped.
FindSlot(c) ==
    /\ consumer[c] # nil /\ consumer[c].step = "find"
    /\ IF slots[consumer[c].k] = nil
       THEN ContinueBatch(c)
       ELSE consumer' = [consumer EXCEPT ![c].step = "add", ![c].live = TRUE]
    /\ UNCHANGED <<slots, limits, configVars, gate, sweep, editor, watcher, used, hist>>

\* The buffer has its own lock; that of a removed slot is garbage.
AddProfileData(c) ==
    /\ consumer[c] # nil /\ consumer[c].step = "add"
    /\ slots' = IF consumer[c].live
                THEN [slots EXCEPT ![consumer[c].k] = AddAt(@, consumer[c].size)]
                ELSE slots
    /\ ContinueBatch(c)
    /\ UNCHANGED <<limits, configVars, gate, sweep, editor, watcher, used, hist>>

-----------------------------------------------------------------------------
(* Resolvers *)

\* EnableProfilingForSource, and the first half of GetProfilingForSource, with
\* which the UI polls.
EnableSourceProfiling(k) ==
    /\ EnsureSlot(k)
    /\ UNCHANGED <<limits, configVars, gate, sweep, editor, watcher, used, hist>>

DisableSourceProfiling(k) ==
    /\ slots[k] # nil
    /\ RemoveSlot(k)
    /\ UNCHANGED <<limits, configVars, gate, sweep, editor, watcher, used, hist>>

ClearSourceProfilingBuffer(k) ==
    /\ slots[k] # nil
    /\ SetSlots([slots EXCEPT ![k] = [Clear(@) EXCEPT !.age = 0]])
    /\ UNCHANGED <<limits, configVars, gate, sweep, editor, watcher, used, hist>>

\* The second half of GetProfilingForSource reads the slot, if it is still there,
\* under the lock again.
GetProfileData(k) ==
    /\ slots[k] # nil
    /\ SetSlots([slots EXCEPT ![k].age = 0])
    /\ UNCHANGED <<limits, configVars, gate, sweep, editor, watcher, used, hist>>

Event(kind) ==
    /\ kind \in Env
    /\ used < MaxEvents
    /\ used' = used + 1

\* What an edit makes of the remote configuration: what it supplies is written,
\* be it positive or not.
Written(edit) == [f \in Fields |-> IF f \in edit.supplied THEN edit.ui[f] ELSE remote[f]]

\* The limits that an edit takes back are left to the watcher.
TakenBack(edit) == {f \in edit.supplied : ~(edit.ui[f] > 0)}

\* Mutant: nobody watches the remote configuration.
PersistLimitsUnwatched(e, edit) ==
    /\ Event("edit")
    /\ editor[e] = nil
    /\ remote' = Written(edit)
    /\ editor' = [editor EXCEPT ![e] = edit.ui]
    /\ hist' = [hist EXCEPT !.contested = @ \cup TakenBack(edit)]
    /\ UNCHANGED <<storeVars, enabled, merging, dirty, effective, events, gate, sweep, watcher>>

\* ConfigureProfilingCache writes the remote configuration ...
PersistLimits(e, edit) ==
    /\ Event("edit")
    /\ editor[e] = nil
    /\ remote' = Written(edit)
    /\ editor' = [editor EXCEPT ![e] = edit.ui]
    /\ dirty' = IF remote' # remote THEN dirty \cup {ConfigMerger} ELSE dirty
    /\ hist' = [hist EXCEPT !.contested = @ \cup TakenBack(edit)]
    /\ UNCHANGED <<storeVars, enabled, merging, effective, events, gate, sweep,
                   watcher>>

\* The limits that new ones set, and those of them that were overtaken: another
\* editor, or the local configuration, asks for something else by now.
SetBy(new) == {f \in Fields : new[f] > 0}
Overtaken(new) == {f \in SetBy(new) : new[f] # Settings[f]}

\* ... and applies the new limits at once, without asking what was written since.
ApplyLimits(e) ==
    /\ editor[e] # nil
    /\ Reconfigure(editor[e])
    /\ editor' = [editor EXCEPT ![e] = nil]
    /\ hist' = [hist EXCEPT !.contested = (@ \ SetBy(editor[e])) \cup Overtaken(editor[e])]
    /\ UNCHANGED <<configVars, gate, sweep, watcher, used>>

-----------------------------------------------------------------------------
(* The sweeper *)

\* SweepNow computes the cutoff before it has the lock.
StartSweep ==
    /\ sweep = nil
    /\ sweep' = limits["ttlSeconds"]
    /\ UNCHANGED <<storeVars, configVars, gate, editor, watcher, used, hist>>

\* Mutant: slots that reach the TTL only now go as well.
FinishSweepEarly ==
    /\ sweep # nil
    /\ SetSlots([k \in Keys |-> IF slots[k] # nil /\ slots[k].age >= sweep THEN nil ELSE slots[k]])
    /\ sweep' = nil
    /\ UNCHANGED <<limits, configVars, gate, editor, watcher, used, hist>>

\* Mutant: slots with data are taken for used ones.
FinishSweepOfEmpty ==
    /\ sweep # nil
    /\ SetSlots([k \in Keys |-> IF /\ slots[k] # nil /\ slots[k].age > sweep
                                   /\ slots[k].chunks = <<>>
                                THEN nil ELSE slots[k]])
    /\ sweep' = nil
    /\ UNCHANGED <<limits, configVars, gate, editor, watcher, used, hist>>

FinishSweep ==
    /\ sweep # nil
    /\ SetSlots([k \in Keys |-> IF slots[k] # nil /\ slots[k].age > sweep THEN nil ELSE slots[k]])
    /\ sweep' = nil
    /\ UNCHANGED <<limits, configVars, gate, editor, watcher, used, hist>>

\* Time passes.  The cutoff of a sweep in progress stays, so that the ages it
\* removes grow.
Tick ==
    /\ sweep # nil => sweep + 1 < MaxAge
    /\ slots' = [k \in Keys |->
          IF slots[k] # nil /\ slots[k].age < MaxAge THEN [slots[k] EXCEPT !.age = @ + 1]
          ELSE slots[k]]
    /\ sweep' = IF sweep = nil THEN nil ELSE sweep + 1
    /\ UNCHANGED <<limits, consumer, configVars, gate, editor, watcher, used, hist>>

-----------------------------------------------------------------------------
(* The controllers of the odigos configuration *)

\* The user changes the helm-managed configuration.
ToggleProfiling ==
    /\ Event("toggle")
    /\ enabled' = ~enabled
    /\ dirty' = dirty \cup {ConfigMerger}
    /\ UNCHANGED <<storeVars, remote, merging, effective, events, gate, sweep, editor,
                   watcher, hist>>

\* The odigos-deployment ConfigMap changes, which the other controller watches.
ChangeDeployment ==
    /\ Event("deployment")
    /\ dirty' = dirty \cup (Mergers \ {ConfigMerger})
    /\ UNCHANGED <<storeVars, remote, enabled, merging, effective, events, gate, sweep, editor,
                   watcher, hist>>

\* The merges in progress that have not read what there is to read by now.
Older == {m \in Mergers : merging[m] # nil /\ merging[m].ui # Settings}

Merge(m, rem, local) ==
    merging' = [merging EXCEPT ![m] = [enabled |-> enabled, ui |-> MergedUi(rem, local)]]

\* Reconcile reads and merges.  A configuration that cannot be read is left out,
\* and metrics settings that do not fit together end it with a terminal error.
MergeConfigs(m) ==
    /\ m \in dirty /\ merging[m] = nil
    /\ dirty' = dirty \ {m}
    /\ \/ /\ Merge(m, remote, LocalLimits)
          /\ hist' = [hist EXCEPT !.behind = (@ \cup Older) \ {m}]
          /\ UNCHANGED used
       \/ /\ Event("unreadable")
          /\ \E rem \in {remote, NoLimits}, local \in {LocalLimits, NoLimits} :
                Merge(m, rem, local)
          /\ hist' = [hist EXCEPT !.behind = @ \cup Older \cup {m}]
       \/ /\ Event("refused")
          /\ hist' = [hist EXCEPT !.behind = @ \cup Older, !.astray = TRUE]
          /\ UNCHANGED merging
    /\ UNCHANGED <<storeVars, remote, enabled, effective, events, gate, sweep, editor,
                   watcher>>

\* The effective configuration is c, and the informer delivers it.
SetEffective(c) ==
    /\ effective' = c
    /\ events' = IF c # effective THEN Append(events, c) ELSE events

\* persistEffectiveConfig applies what was merged, whatever is there.
PersistEffectiveConfig(m) ==
    /\ merging[m] # nil
    /\ SetEffective(merging[m])
    /\ merging' = [merging EXCEPT ![m] = nil]
    /\ hist' = [hist EXCEPT !.astray = m \in hist.behind]
    /\ UNCHANGED <<storeVars, remote, enabled, dirty, gate, sweep, editor, watcher,
                   used>>

\* Somebody deletes the effective configuration.
DeleteEffectiveConfig ==
    /\ Event("delete")
    /\ effective # nil
    /\ SetEffective(nil)
    /\ UNCHANGED <<storeVars, remote, enabled, merging, dirty, gate, sweep, editor,
                   watcher, hist>>

-----------------------------------------------------------------------------
(* The watcher of the effective configuration *)

\* The gate is set first.  Slots are only cleared when it was open.
WatchConfig ==
    /\ watcher = nil
    /\ events # <<>>
    /\ LET c == Head(events)
           on == c # nil /\ c.enabled
       IN  /\ gate' = on
           /\ watcher' = IF gate /\ ~on THEN [config |-> c, step |-> "clear"]
                         ELSE IF c # nil THEN [config |-> c, step |-> "reconfigure"]
                         ELSE nil
    /\ events' = Tail(events)
    /\ UNCHANGED <<storeVars, remote, enabled, merging, dirty, effective, sweep, editor,
                   used, hist>>

WatcherClears ==
    /\ watcher # nil /\ watcher.step = "clear"
    /\ ClearAllSlots
    /\ watcher' = IF watcher.config = nil THEN nil ELSE [watcher EXCEPT !.step = "reconfigure"]
    /\ UNCHANGED <<limits, configVars, gate, sweep, editor, used, hist>>

WatcherReconfigures ==
    /\ watcher # nil /\ watcher.step = "reconfigure"
    /\ Reconfigure(watcher.config.ui)
    /\ watcher' = nil
    /\ hist' = [hist EXCEPT !.contested = @ \ SetBy(watcher.config.ui)]
    /\ UNCHANGED <<configVars, gate, sweep, editor, used>>

\* Mutant: the handler is not called for what was there before it was added.
RestartFrontendUnwatched ==
    /\ Event("crash")
    /\ slots' = [k \in Keys |-> nil]
    /\ consumer' = [c \in Consumers |-> nil]
    /\ sweep' = nil
    /\ editor' = [e \in Editors |-> nil]
    /\ watcher' = nil
    /\ events' = <<>>
    /\ \/ /\ effective # nil
          /\ gate' = effective.enabled
          /\ limits' = Overlay(DefaultLimits, effective.ui)
       \/ /\ gate' = FALSE
          /\ limits' = DefaultLimits
    /\ hist' = [hist EXCEPT !.contested = {}]
    /\ UNCHANGED <<remote, enabled, merging, dirty, effective>>

\* The UI pod restarts and reads the effective configuration, if it can; the
\* informer delivers it again.
RestartFrontend ==
    /\ Event("crash")
    /\ slots' = [k \in Keys |-> nil]
    /\ consumer' = [c \in Consumers |-> nil]
    /\ sweep' = nil
    /\ editor' = [e \in Editors |-> nil]
    /\ watcher' = nil
    /\ events' = IF effective = nil THEN <<>> ELSE <<effective>>
    /\ \/ /\ effective # nil
          /\ gate' = effective.enabled
          /\ limits' = Overlay(DefaultLimits, effective.ui)
       \/ /\ gate' = FALSE
          /\ limits' = DefaultLimits
    /\ hist' = [hist EXCEPT !.contested = {}]
    /\ UNCHANGED <<remote, enabled, merging, dirty, effective>>

-----------------------------------------------------------------------------
(* Specification *)

Consume(c) ==
    \/ \E k \in Keys, size \in Sizes : ReceiveBatch(c, k, size)
    \/ FindSlot(c)
    \/ AddProfileData(c)

Resolve(k) ==
    \/ EnableSourceProfiling(k) \/ DisableSourceProfiling(k)
    \/ ClearSourceProfilingBuffer(k) \/ GetProfileData(k)

Configure(e) == (\E edit \in Edits : PersistLimits(e, edit)) \/ ApplyLimits(e)

Watch == WatchConfig \/ WatcherClears \/ WatcherReconfigures

Next ==
    \/ \E c \in Consumers : Consume(c)
    \/ \E k \in Keys : Resolve(k)
    \/ \E e \in Editors : Configure(e)
    \/ StartSweep \/ FinishSweep \/ Tick
    \/ ToggleProfiling \/ ChangeDeployment \/ DeleteEffectiveConfig \/ RestartFrontend
    \/ \E m \in Mergers : MergeConfigs(m) \/ PersistEffectiveConfig(m)
    \/ Watch

Spec == Init /\ [][Next]_vars

\* Time passes, goroutines that have started go on, the ticker of the sweeper
\* fires, and informers and controllers deliver.  Nothing is assumed of users.
Fairness ==
    /\ WF_vars(Tick) /\ WF_vars(StartSweep \/ FinishSweep)
    /\ WF_vars(Watch)
    /\ \A e \in Editors : WF_vars(ApplyLimits(e))
    /\ \A m \in Mergers : WF_vars(MergeConfigs(m) \/ PersistEffectiveConfig(m))

FairSpec == Spec /\ Fairness

-----------------------------------------------------------------------------
(* Properties *)

\* The store never holds more than the limits in force allow, though the limits
\* shrink while consumers add to buffers they found before (store.go: "Total
\* memory is bounded by maxSlots x slotMaxBytes").
WithinBudget ==
    /\ Cardinality(Open) <= limits["maxSlots"]
    /\ \A k \in Open : Sum(slots[k].chunks) <= limits["slotMaxBytes"]

\* totalBytes, from which chunks are evicted, is what the buffer holds.
BytesAreCounted == \A k \in Open : slots[k].totalBytes = Sum(slots[k].chunks)

\* What a step that loses a slot has to be.
LossIsDue ==
    \A k \in Open : slots'[k] = nil /\ used' = used =>
        \/ DisableSourceProfiling(k)
        \/ watcher # nil /\ watcher.step = "clear"
        \/ slots[k].age > limits["ttlSeconds"]
        \/ /\ Cardinality(Open) >= limits'["maxSlots"]
           /\ \A q \in Open : slots'[q] # nil => slots[q].age <= slots[k].age

\* A slot that was requested within the TTL is only lost when the user disables
\* it, when profiling is switched off, in a restart, or to a full store in which
\* it is the least recently used: not to a sweep whose cutoff is old by now.
KeptWhileRequested == [][LossIsDue]_vars

\* A slot that nobody asks for goes, though profiles keep arriving for it.
IdleSlotIsSwept == \A k \in Keys : []<>(slots[k] = nil \/ slots[k].age < MaxAge)

\* The limits that the configurations ask for are those of the store.  Two kinds
\* are excepted: those that a slower editor has overwritten or that were taken
\* back, and all of them while the effective configuration is gone or astray.
InForce == \A f \in Fields \ hist.contested : Settings[f] > 0 => limits[f] = Settings[f]
Reported == effective # nil /\ ~hist.astray

\* Limits persisted from the settings page are those of the store, or on their
\* way to it: no order of applying, merging, watching and restarting loses them.
\* What does lose them is named: an editor that applies its limits after another
\* has written newer ones (ConfigureProfilingCache holds no lock from the one to
\* the other), a limit taken back before it was merged, a merge that is written
\* after a newer one, could not read or was refused, and an effective
\* configuration that somebody deleted.
SettingsArePending ==
    (Reported => InForce)
    \/ dirty # {} \/ events # <<>> \/ watcher # nil
    \/ (\E m \in Mergers : merging[m] # nil) \/ (\E e \in Editors : editor[e] # nil)

\* In the end the limits of the store are those that the helm-managed, the remote
\* and the local configuration together ask for, and not of an earlier edit or of
\* a version that the watcher saw meanwhile, unless one of the mishaps named with
\* SettingsArePending was the last that happened to them.
LimitsArePersisted == <>[](Reported => InForce)

\* Once the gate is closed and nothing is under way, no profile is held.
DisabledHoldsNothing ==
    ~gate /\ watcher = nil /\ (\A c \in Consumers : consumer[c] = nil)
      => \A k \in Open : slots[k].chunks = <<>>
=============================================================================
