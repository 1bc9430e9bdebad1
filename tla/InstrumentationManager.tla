----------------------- MODULE InstrumentationManager -----------------------
(***************************************************************************)
(* The eBPF instrumentation manager of a node (instrumentation/manager.go) *)
(* with its Kubernetes binding (odiglet/pkg/ebpf): one event loop that     *)
(* owns three maps of tracked processes, fed by the process detector, by   *)
(* a channel of requests and by a channel of configuration updates.        *)
(*                                                                         *)
(* A handler of the event loop is one action: only the loop touches the    *)
(* maps.  What runs beside it are the processes of the node, the detector, *)
(* the reconcilers that fill the channels and the goroutines that run the  *)
(* loaded instrumentations.                                                *)
(***************************************************************************)
EXTENDS Integers, Sequences, FiniteSets

CONSTANTS
    Pids,             \* process ids of the node
    ProcessDetails,   \* the resolved details a process can have
    ConfigGroups, ProcessGroups, Pods, Distros,
    ConfigGroup, ProcessGroup, PodOf,  \* functions of ProcessDetails
    Distribution,     \* function of ProcessDetails; nil is its error return
    Candidates,       \* Candidates[p]: the details processes with id p may have
    DistroFactories,  \* the distros with a factory
    GenericFactories, \* the factories that apply to every process
    Configs,          \* container configurations
    nil,
    ApiMayFail,       \* whether the reporter's Kubernetes calls may fail
    MaxSpawns, MaxRequests, MaxConfigChanges,  \* bounds on the environment
    EventsCap, RequestsCap, ConfigUpdatesCap   \* capacities of the channels

ASSUME DetailsAssumption ==
    /\ ConfigGroup \in [ProcessDetails -> ConfigGroups]
    /\ ProcessGroup \in [ProcessDetails -> ProcessGroups]
    /\ PodOf \in [ProcessDetails -> Pods]
    /\ Distribution \in [ProcessDetails -> Distros \cup {nil}]
    /\ Candidates \in [Pids -> SUBSET ProcessDetails]

ASSUME FactoriesAssumption ==
    /\ DistroFactories \subseteq Distros
    /\ "distro" \notin GenericFactories

ASSUME NilAssumption ==
    /\ nil \notin ProcessDetails
    /\ nil \notin Distros
    /\ nil \notin Configs
    /\ nil \notin [insts : SUBSET (GenericFactories \cup {"distro"}), pd : ProcessDetails,
                  cg : ConfigGroups, pg : ProcessGroups]

ASSUME PidsAssumption == IsFiniteSet(Pids)

ASSUME BoundsAssumption ==
    /\ MaxSpawns \in Nat /\ MaxRequests \in Nat /\ MaxConfigChanges \in Nat
    /\ EventsCap \in Nat /\ RequestsCap \in Nat /\ ConfigUpdatesCap \in Nat
    /\ ApiMayFail \in BOOLEAN

VARIABLES
    proc,          \* proc[p]: the details of the live process p, or nil
    exitTracked,   \* the pids whose exit the detector reports
    procEvents,    \* process events on their way to the event loop
    requests, configUpdates,   \* the two channels
    config,        \* config[cg]: what the InstrumentationConfig in the cache says
    owed,          \* config groups with an unprocessed InstrumentationConfig event
    detailsByPid, detailsByConfigGroup, detailsByProcessGroup,
    attached,      \* attached[p][k]: loads minus closes of instrumentation k of p
    instConfig,    \* instConfig[p][k]: the configuration that instrumentation has
    staleConfig,   \* <<p, k>> whose last ApplyConfig returned an error
    runs,          \* runs[p][pd]: Run goroutines that have not returned
    instances,     \* instances[pod][p]: the InstrumentationInstance, or nil
    instrumentedProcesses,   \* the up-down counter, per distro
    failedInstrumentations,  \* increments of the failure counter since p is tracked
    loop,          \* "running", "stopping" (the deferred cleanup), "stopped", or
                   \* "aborted" (the cleanup hit shutdownCleanupTimeout)
    cleaned,       \* pids the deferred cleanup has visited
    moved, unseen, \* history, for the properties only: pids that were tracked again
                   \* in another group or pod, and pids whose exit is not reported
    used           \* how much of each bound the environment has used

procVars    == <<proc, exitTracked, procEvents, unseen>>
channelVars == <<requests, configUpdates>>
configVars  == <<config, owed>>
mapVars     == <<detailsByPid, detailsByConfigGroup, detailsByProcessGroup, moved>>
instVars    == <<attached, instConfig, staleConfig>>
reportVars  == <<instances, instrumentedProcesses, failedInstrumentations>>
loopVars    == <<loop, cleaned>>
vars == <<procVars, channelVars, configVars, mapVars, instVars, runs, reportVars,
          loopVars, used>>

-----------------------------------------------------------------------------
(* Types *)

\* The instrumentations of a process: its distro's and the generic ones.
Kinds == GenericFactories \cup {"distro"}

\* instrumentationDetails: the loaded instrumentations; "distro" \notin insts
\* is distroInst == nil.
Details == [insts : SUBSET Kinds, pd : ProcessDetails,
            cg : ConfigGroups, pg : ProcessGroups]

\* InstrumentationStatusReason
Reasons == {"FailedToInitialize", "FailedToLoad", "LoadedSuccessfully", "FailedToRun"}

Events == [type : {"exec", "exit"}, pid : Pids, pd : ProcessDetails]

Request ==
    [type : {"instrument"}, byPid : UNION {[S -> ProcessDetails] : S \in SUBSET Pids}]
      \cup [type : {"uninstrument"}, pg : ProcessGroups]
      \cup [type : {"retry"}, distros : SUBSET Distros]

\* One entry of a ConfigUpdate; the loop applies the entries one after another.
ConfigUpdate == [cg : ConfigGroups, config : Configs]

\* What the factories, Load and the reporter answer during one attempt: the
\* generic instrumentations that load, the distro's outcome, whether the
\* record is written.
Outcomes == [generic : SUBSET GenericFactories,
             result : {"FailedToInitialize", "FailedToLoad", "LoadedSuccessfully"},
             reported : {TRUE, ~ApiMayFail}]

ProcTypeOK ==
    /\ proc \in [Pids -> ProcessDetails \cup {nil}]
    /\ exitTracked \subseteq Pids
    /\ procEvents \in Seq(Events)
    /\ unseen \subseteq Pids

ChannelTypeOK ==
    /\ requests \in Seq(Request)
    /\ configUpdates \in Seq(ConfigUpdate)
    /\ config \in [ConfigGroups -> Configs \cup {nil}]
    /\ owed \subseteq {cg \in ConfigGroups : config[cg] # nil}

MapTypeOK ==
    /\ detailsByPid \in [Pids -> Details \cup {nil}]
    /\ detailsByConfigGroup \in [ConfigGroups -> [Pids -> Details \cup {nil}]]
    /\ detailsByProcessGroup \in [ProcessGroups -> [Pids -> Details \cup {nil}]]
    /\ moved \subseteq Pids

InstTypeOK ==
    /\ attached \in [Pids -> [Kinds -> Int]]
    /\ instConfig \in [Pids -> [Kinds -> Configs \cup {nil}]]
    /\ staleConfig \subseteq Pids \X Kinds
    /\ runs \in [Pids -> [ProcessDetails -> Int]]

ReportTypeOK ==
    /\ instances \in [Pods -> [Pids -> Reasons \cup {nil}]]
    /\ instrumentedProcesses \in [Distros -> Int]
    /\ failedInstrumentations \in [Pids -> Nat]

LoopTypeOK ==
    /\ loop \in {"running", "stopping", "stopped", "aborted"}
    /\ cleaned \subseteq Pids
    /\ used \in [{"spawns", "requests", "configChanges"} -> Nat]

\* Every variable has its type; in particular only an InstrumentationConfig
\* that exists is sent as a configuration update.
TypeOK ==
    /\ ProcTypeOK
    /\ ChannelTypeOK
    /\ MapTypeOK
    /\ InstTypeOK
    /\ ReportTypeOK
    /\ LoopTypeOK

-----------------------------------------------------------------------------
(* Initial state: NewManager *)

Untracked == [p \in Pids |-> nil]

Init ==
    /\ proc = [p \in Pids |-> nil]
    /\ exitTracked = {}
    /\ procEvents = <<>>
    /\ requests = <<>>
    /\ configUpdates = <<>>
    /\ config = [cg \in ConfigGroups |-> nil]
    /\ owed = {}
    /\ detailsByPid = Untracked
    /\ detailsByConfigGroup = [cg \in ConfigGroups |-> Untracked]
    /\ detailsByProcessGroup = [pg \in ProcessGroups |-> Untracked]
    /\ attached = [p \in Pids |-> [k \in Kinds |-> 0]]
    /\ instConfig = [p \in Pids |-> [k \in Kinds |-> nil]]
    /\ staleConfig = {}
    /\ runs = [p \in Pids |-> [pd \in ProcessDetails |-> 0]]
    /\ instances = [pod \in Pods |-> [p \in Pids |-> nil]]
    /\ instrumentedProcesses = [d \in Distros |-> 0]
    /\ failedInstrumentations = [p \in Pids |-> 0]
    /\ loop = "running"
    /\ cleaned = {}
    /\ moved = {}
    /\ unseen = {}
    /\ used = [b \in {"spawns", "requests", "configChanges"} |-> 0]
-----------------------------------------------------------------------------
(* Helpers of the handlers *)

Tracked == {p \in Pids : detailsByPid[p] # nil}

HasFactory(pd) == Distribution[pd] \in DistroFactories

\* isInstrumentedByDistro: nil, the error of Distribution, is in no set of
\* factories, so an unresolvable tracked process counts as instrumented.
IsInstrumentedByDistro(p) ==
    /\ detailsByPid[p] # nil
    /\ \/ "distro" \in detailsByPid[p].insts
       \/ ~HasFactory(detailsByPid[p].pd)

\* The pids of a batch that tryInstrument carries past its early returns.
Attempted(batch) ==
    {p \in DOMAIN batch :
        /\ ~IsInstrumentedByDistro(p)
        /\ Distribution[batch[p]] # nil
        /\ HasFactory(batch[p]) \/ GenericFactories # {}}

\* Mutant: a retry loads the generic instrumentations again.
LoadedGenericsEveryTime(p, o) == o.generic

\* The generic instrumentations an attempt on p loads: they are loaded once,
\* when the pid is first seen, and carried over by a retry.
LoadedGenerics(p, o) == IF detailsByPid[p] = nil THEN o.generic ELSE {}

LoadedDistro(pd, o) ==
    IF HasFactory(pd) /\ o.result = "LoadedSuccessfully" THEN {"distro"} ELSE {}

\* The details tryInstrument hands to startTrackInstrumentation.
NewDetails(p, pd, o) ==
    LET carried == IF detailsByPid[p] = nil THEN {} ELSE detailsByPid[p].insts
    IN  [insts |-> carried \cup LoadedGenerics(p, o) \cup LoadedDistro(pd, o),
         pd |-> pd, cg |-> ConfigGroup[pd], pg |-> ProcessGroup[pd]]

\* Mutant: a failed attempt is not tracked.
RetainedWhenLoaded(batch, out) ==
    {p \in Attempted(batch) : NewDetails(p, batch[p], out[p]).insts # {}}

\* A process whose distro has no factory is tracked only for its generics.
Retained(batch, out) ==
    {p \in Attempted(batch) :
        HasFactory(batch[p]) \/ NewDetails(p, batch[p], out[p]).insts # {}}

\* The pids for which tryInstrument returns no error.
Succeeded(batch, out) ==
    {p \in Retained(batch, out) :
        HasFactory(batch[p]) => out[p].result = "LoadedSuccessfully"}

\* For the properties: the details of p are in another group or pod than d.
Elsewhere(p, d) ==
    /\ detailsByPid[p] # nil
    /\ \/ detailsByPid[p].cg # d.cg \/ detailsByPid[p].pg # d.pg
       \/ PodOf[detailsByPid[p].pd] # PodOf[d.pd]

\* startTrackInstrumentation for the pids T with details new[p].  The entry of
\* a pid in another group than new[p]'s is left as it is.
StartTrackInstrumentation(T, new) ==
    /\ detailsByPid' = [p \in Pids |-> IF p \in T THEN new[p] ELSE detailsByPid[p]]
    /\ detailsByConfigGroup' =
          [cg \in ConfigGroups |-> [p \in Pids |->
              IF p \in T /\ new[p].cg = cg THEN new[p] ELSE detailsByConfigGroup[cg][p]]]
    /\ detailsByProcessGroup' =
          [pg \in ProcessGroups |-> [p \in Pids |->
              IF p \in T /\ new[p].pg = pg THEN new[p] ELSE detailsByProcessGroup[pg][p]]]
    /\ moved' = moved \cup {p \in T : Elsewhere(p, new[p])}

\* Mutant: every failed retry is counted.
CountTrackedEachRetry(T, new) ==
    /\ instrumentedProcesses' = [d \in Distros |-> instrumentedProcesses[d] +
          Cardinality({p \in T : /\ Distribution[new[p].pd] = d
                                 /\ "distro" \in new[p].insts})]
    /\ failedInstrumentations' = [p \in Pids |-> failedInstrumentations[p] +
          (IF p \in T /\ HasFactory(new[p].pd) /\ "distro" \notin new[p].insts
           THEN 1 ELSE 0)]

\* The self metrics of startTrackInstrumentation: a first failure is counted
\* once per tracking, a success when the process was not instrumented before.
CountTracked(T, new) ==
    LET hadInst(p) == detailsByPid[p] # nil /\ "distro" \in detailsByPid[p].insts
        started(d) == {p \in T : /\ Distribution[new[p].pd] = d
                                 /\ "distro" \in new[p].insts
                                 /\ ~hadInst(p)}
        failed == {p \in T : /\ HasFactory(new[p].pd)
                             /\ "distro" \notin new[p].insts
                             /\ detailsByPid[p] = nil}
    IN  /\ instrumentedProcesses' =
              [d \in Distros |-> instrumentedProcesses[d] + Cardinality(started(d))]
        /\ failedInstrumentations' =
              [p \in Pids |-> failedInstrumentations[p] + (IF p \in failed THEN 1 ELSE 0)]

\* tryInstrument for every process of a batch (a function from pids to
\* details), with the answers out[p].  The initial configuration is what the
\* settings getter reads now; nil when it returns an error.
TryInstrument(batch, out) ==
    LET T == Retained(batch, out)
        new == [p \in T |-> NewDetails(p, batch[p], out[p])]
        loads == {pk \in T \X Kinds :
                    pk[2] \in LoadedGenerics(pk[1], out[pk[1]])
                                \cup LoadedDistro(batch[pk[1]], out[pk[1]])}
        written == {p \in Attempted(batch) : HasFactory(batch[p]) /\ out[p].reported}
    IN  /\ StartTrackInstrumentation(T, new)
        /\ CountTracked(T, new)
        /\ attached' = [p \in Pids |-> [k \in Kinds |->
              attached[p][k] + (IF <<p, k>> \in loads THEN 1 ELSE 0)]]
        /\ instConfig' = [p \in Pids |-> [k \in Kinds |->
              IF <<p, k>> \in loads THEN config[new[p].cg] ELSE instConfig[p][k]]]
        /\ staleConfig' = staleConfig \ loads
        /\ runs' = [p \in Pids |-> [pd \in ProcessDetails |->
              runs[p][pd] + (IF <<p, "distro">> \in loads /\ batch[p] = pd THEN 1 ELSE 0)]]
        /\ instances' = [pod \in Pods |-> [p \in Pids |->
              IF p \in written /\ PodOf[batch[p]] = pod
              THEN out[p].result ELSE instances[pod][p]]]

\* Mutant: the config-group index keeps the pid.
StopTrackInstrumentationInOneIndex(S) ==
    /\ detailsByPid' = [p \in Pids |-> IF p \in S THEN nil ELSE detailsByPid[p]]
    /\ detailsByProcessGroup' =
          [pg \in ProcessGroups |-> [p \in Pids |->
              IF p \in S /\ detailsByPid[p].pg = pg THEN nil
              ELSE detailsByProcessGroup[pg][p]]]
    /\ UNCHANGED <<detailsByConfigGroup, moved>>

\* stopTrackInstrumentation for the tracked pids S.
StopTrackInstrumentation(S) ==
    /\ detailsByPid' = [p \in Pids |-> IF p \in S THEN nil ELSE detailsByPid[p]]
    /\ detailsByConfigGroup' =
          [cg \in ConfigGroups |-> [p \in Pids |->
              IF p \in S /\ detailsByPid[p].cg = cg THEN nil
              ELSE detailsByConfigGroup[cg][p]]]
    /\ detailsByProcessGroup' =
          [pg \in ProcessGroups |-> [p \in Pids |->
              IF p \in S /\ detailsByPid[p].pg = pg THEN nil
              ELSE detailsByProcessGroup[pg][p]]]
    /\ UNCHANGED moved

\* Close the instrumentations of the tracked pids S.
CloseInstrumentations(S) ==
    /\ attached' = [p \in Pids |-> [k \in Kinds |->
          attached[p][k] - (IF p \in S /\ k \in detailsByPid[p].insts THEN 1 ELSE 0)]]
    /\ staleConfig' = {pk \in staleConfig : pk[1] \notin S}
    /\ instConfig' = [p \in Pids |-> [k \in Kinds |->
          IF p \in S THEN nil ELSE instConfig[p][k]]]

\* Reporter.OnExit for the pids S: delete the record of (pod, pid).
ReportExit(S) ==
    instances' = [pod \in Pods |-> [p \in Pids |->
        IF p \in S /\ PodOf[detailsByPid[p].pd] = pod THEN nil ELSE instances[pod][p]]]

\* Mutant: a process whose distro failed to load is not cleaned.
FoundIfLoaded(S) == {p \in S \cap Tracked : "distro" \in detailsByPid[p].insts}

Found(S) == S \cap Tracked

\* cleanInstrumentation for the pids S, a no-op for the untracked ones.  The
\* deletes of the records in lost fail.
CleanInstrumentation(S, lost) ==
    LET C == Found(S)
        loaded(d) == {p \in C : /\ "distro" \in detailsByPid[p].insts
                                /\ Distribution[detailsByPid[p].pd] = d}
    IN  /\ CloseInstrumentations(C)
        /\ instrumentedProcesses' =
              [d \in Distros |-> instrumentedProcesses[d] - Cardinality(loaded(d))]
        /\ failedInstrumentations' =
              [p \in Pids |-> IF p \in C THEN 0 ELSE failedInstrumentations[p]]
        /\ ReportExit(C \ lost)
        /\ StopTrackInstrumentation(C)

\* The sets of reporter calls that may fail among those for the pids S.
LostReports(S) == IF ApiMayFail THEN SUBSET S ELSE {{}}
-----------------------------------------------------------------------------
(* The event loop *)

\* ProcessExecEvent, ProcessForkEvent, ProcessFileOpenEvent: resolve the
\* details and try to instrument; a resolver error is logged.
HandleExecEvent ==
    /\ loop = "running"
    /\ procEvents # <<>>
    /\ LET e == Head(procEvents)
           batch == [p \in {e.pid} |-> e.pd]
       IN  /\ e.type = "exec"
           /\ procEvents' = Tail(procEvents)
           /\ \/ UNCHANGED <<mapVars, instVars, runs, reportVars>>  \* Resolve failed
              \/ \E out \in [{e.pid} -> Outcomes] : TryInstrument(batch, out)
    /\ UNCHANGED <<proc, exitTracked, unseen, channelVars, configVars, loopVars, used>>

\* ProcessExitEvent
HandleExitEvent ==
    /\ loop = "running"
    /\ procEvents # <<>>
    /\ LET e == Head(procEvents)
       IN  /\ e.type = "exit"
           /\ procEvents' = Tail(procEvents)
           /\ \E lost \in LostReports({e.pid}) : CleanInstrumentation({e.pid}, lost)
    /\ UNCHANGED <<proc, exitTracked, unseen, channelVars, configVars, runs, loopVars, used>>

\* The detector has reported an exit of p that the loop has not handled.
ExitReported(p) ==
    \E i \in DOMAIN procEvents : procEvents[i].type = "exit" /\ procEvents[i].pid = p

\* instrumentFromDetails: the detector is told of the successes only.
InstrumentFromDetails(batch) ==
    \E out \in [DOMAIN batch -> Outcomes] :
        /\ TryInstrument(batch, out)
        /\ exitTracked' = exitTracked \cup Succeeded(batch, out)
        /\ unseen' = unseen \cup {p \in Retained(batch, out) : proc[p] = nil /\ ~ExitReported(p)}

HandleInstrumentRequest ==
    /\ loop = "running"
    /\ requests # <<>>
    /\ Head(requests).type = "instrument"
    /\ requests' = Tail(requests)
    /\ InstrumentFromDetails(Head(requests).byPid)
    /\ UNCHANGED <<proc, procEvents, configUpdates, configVars, loopVars, used>>

\* failedProcessDetailsByDistro; an empty filter selects every distro.
FailedPids(filter) ==
    {p \in Tracked : /\ "distro" \notin detailsByPid[p].insts
                     /\ filter = {} \/ Distribution[detailsByPid[p].pd] \in filter}

HandleRetryRequest ==
    /\ loop = "running"
    /\ requests # <<>>
    /\ Head(requests).type = "retry"
    /\ requests' = Tail(requests)
    /\ InstrumentFromDetails([p \in FailedPids(Head(requests).distros) |->
                                 detailsByPid[p].pd])
    /\ UNCHANGED <<proc, procEvents, configUpdates, configVars, loopVars, used>>

\* Mutant: the request's process group is ignored.
PidsOfAnyGroup(pg) == Tracked

\* The keys of the process group's index.
PidsOfGroup(pg) == {p \in Pids : detailsByProcessGroup[pg][p] # nil}

HandleUnInstrumentRequest ==
    /\ loop = "running"
    /\ requests # <<>>
    /\ Head(requests).type = "uninstrument"
    /\ requests' = Tail(requests)
    /\ LET pids == PidsOfGroup(Head(requests).pg)
       IN  \E lost \in LostReports(pids) : CleanInstrumentation(pids, lost)
    /\ UNCHANGED <<procVars, configUpdates, configVars, runs, loopVars, used>>

\* applyInstrumentationConfigurationForSDK for one config group; the errors of
\* ApplyConfig are joined and logged.
HandleConfigUpdate ==
    /\ loop = "running"
    /\ configUpdates # <<>>
    /\ configUpdates' = Tail(configUpdates)
    /\ LET u == Head(configUpdates)
           entries == detailsByConfigGroup[u.cg]
           targets == {pk \in Pids \X Kinds :
                         entries[pk[1]] # nil /\ pk[2] \in entries[pk[1]].insts}
       IN  \E failed \in SUBSET targets :
             /\ instConfig' = [p \in Pids |-> [k \in Kinds |->
                   IF <<p, k>> \in targets \ failed THEN u.config ELSE instConfig[p][k]]]
             /\ staleConfig' = (staleConfig \ targets) \cup failed
    /\ UNCHANGED <<procVars, requests, configVars, mapVars, attached, runs, reportVars,
                   loopVars, used>>

\* The context is cancelled, or a channel is closed: the loop returns.
StopEventLoop ==
    /\ loop = "running"
    /\ loop' = "stopping"
    /\ UNCHANGED <<procVars, channelVars, configVars, mapVars, instVars, runs, reportVars,
                   cleaned, used>>

\* Mutant: the generic instrumentations are not closed at shutdown.
ShutdownCleanDistroOnly(p) ==
    /\ loop = "stopping"
    /\ p \in Tracked \ cleaned
    /\ cleaned' = cleaned \cup {p}
    /\ attached' = [attached EXCEPT ![p]["distro"] = 0]
    /\ ReportExit({p})
    /\ UNCHANGED <<procVars, channelVars, configVars, mapVars, instConfig, staleConfig, runs,
                   instrumentedProcesses, failedInstrumentations, loop, used>>

\* One iteration of the deferred cleanup.
ShutdownClean(p) ==
    /\ loop = "stopping"
    /\ p \in Tracked \ cleaned
    /\ cleaned' = cleaned \cup {p}
    /\ CloseInstrumentations({p})
    /\ \E lost \in LostReports({p}) : ReportExit({p} \ lost)
    /\ UNCHANGED <<procVars, channelVars, configVars, mapVars, runs,
                   instrumentedProcesses, failedInstrumentations, loop, used>>

\* shutdownCleanupTimeout expires before the next iteration.
ShutdownTimeout ==
    /\ loop = "stopping"
    /\ Tracked \ cleaned # {}
    /\ loop' = "aborted"
    /\ UNCHANGED <<procVars, channelVars, configVars, mapVars, instVars, runs, reportVars,
                   cleaned, used>>

\* Mutant: wait for the map to be empty, which the cleanup never makes it.
AllVisitedWhenEmpty == Tracked = {}

AllVisited == Tracked \subseteq cleaned

\* The cleanup is over: the maps are dropped.
ShutdownDone ==
    /\ loop = "stopping"
    /\ AllVisited
    /\ loop' = "stopped"
    /\ detailsByPid' = Untracked
    /\ detailsByConfigGroup' = [cg \in ConfigGroups |-> Untracked]
    /\ detailsByProcessGroup' = [pg \in ProcessGroups |-> Untracked]
    /\ UNCHANGED <<procVars, channelVars, configVars, instVars, runs, reportVars, cleaned,
                   moved, used>>

-----------------------------------------------------------------------------
(* What runs beside the event loop *)

\* The goroutine of a distro instrumentation returns from Run: an error other
\* than the cancelled context is reported with OnRun; it returns quietly when
\* Close was called or the context is cancelled.
RunReturns(p, pd) ==
    /\ runs[p][pd] > 0
    /\ runs' = [runs EXCEPT ![p][pd] = @ - 1]
    /\ \/ /\ loop = "running"
          /\ \/ instances' = [instances EXCEPT ![PodOf[pd]][p] = "FailedToRun"]
             \/ ApiMayFail /\ UNCHANGED instances
       \/ /\ loop # "running" \/ attached[p]["distro"] = 0
          /\ UNCHANGED instances
    /\ UNCHANGED <<procVars, channelVars, configVars, mapVars, instVars,
                   instrumentedProcesses, failedInstrumentations, loopVars, used>>

\* A process starts.  The detector reports it, and will report its exit, when
\* its environment marks it as relevant.
Spawn(p, pd) ==
    /\ proc[p] = nil
    /\ pd \in Candidates[p]
    /\ used["spawns"] < MaxSpawns
    /\ used' = [used EXCEPT !["spawns"] = @ + 1]
    /\ proc' = [proc EXCEPT ![p] = pd]
    /\ unseen' = unseen \ {p}
    /\ \/ UNCHANGED <<exitTracked, procEvents>>
       \/ /\ Len(procEvents) < EventsCap
          /\ exitTracked' = exitTracked \cup {p}
          /\ procEvents' = Append(procEvents, [type |-> "exec", pid |-> p, pd |-> pd])
    /\ UNCHANGED <<channelVars, configVars, mapVars, instVars, runs, reportVars, loopVars>>

\* A live process calls exec: same pod and groups, another program.
ReExec(p, pd) ==
    /\ p \in exitTracked
    /\ proc[p] # nil
    /\ pd \in Candidates[p]
    /\ PodOf[pd] = PodOf[proc[p]] /\ ConfigGroup[pd] = ConfigGroup[proc[p]]
    /\ used["spawns"] < MaxSpawns
    /\ Len(procEvents) < EventsCap
    /\ used' = [used EXCEPT !["spawns"] = @ + 1]
    /\ proc' = [proc EXCEPT ![p] = pd]
    /\ procEvents' = Append(procEvents, [type |-> "exec", pid |-> p, pd |-> pd])
    /\ UNCHANGED <<exitTracked, unseen, channelVars, configVars, mapVars, instVars, runs,
                   reportVars, loopVars>>

\* A process exits; the detector reports it if it tracks the pid.
Exit(p) ==
    /\ proc[p] # nil
    /\ proc' = [proc EXCEPT ![p] = nil]
    /\ \/ /\ p \notin exitTracked
          /\ unseen' = unseen \cup {p}
          /\ UNCHANGED <<exitTracked, procEvents>>
       \/ /\ p \in exitTracked
          /\ Len(procEvents) < EventsCap
          /\ exitTracked' = exitTracked \ {p}
          /\ UNCHANGED unseen
          /\ procEvents' = Append(procEvents,
                              [type |-> "exit", pid |-> p, pd |-> proc[p]])
    /\ UNCHANGED <<channelVars, configVars, mapVars, instVars, runs, reportVars, loopVars,
                   used>>

\* A reconciler's non-blocking send on the requests channel.
SendRequest(r) ==
    /\ Len(requests) < RequestsCap
    /\ used["requests"] < MaxRequests
    /\ used' = [used EXCEPT !["requests"] = @ + 1]
    /\ requests' = Append(requests, r)
    /\ UNCHANGED <<procVars, configUpdates, configVars, mapVars, instVars, runs, reportVars,
                   loopVars>>

\* sendInstrumentationRequest: the live processes of a workload.
SendInstrumentationRequest(pg) ==
    LET pids == {p \in Pids : proc[p] # nil /\ ProcessGroup[proc[p]] = pg}
    IN  /\ pids # {}
        /\ SendRequest([type |-> "instrument", byPid |-> [p \in pids |-> proc[p]]])

SendUnInstrumentationRequest(pg) == SendRequest([type |-> "uninstrument", pg |-> pg])

SendRetryRequest(filter) == SendRequest([type |-> "retry", distros |-> filter])

\* Mutant: a deleted InstrumentationConfig still owes an update.
OwedAlways(cg, c) == owed \cup {cg}

\* A container that is in the InstrumentationConfig is in its next update.
OwedAfter(cg, c) == IF c = nil THEN owed \ {cg} ELSE owed \cup {cg}

\* The InstrumentationConfig of a container changes, or goes away (nil).
ChangeConfig(cg, c) ==
    /\ used["configChanges"] < MaxConfigChanges
    /\ c # config[cg]
    /\ used' = [used EXCEPT !["configChanges"] = @ + 1]
    /\ config' = [config EXCEPT ![cg] = c]
    /\ owed' = OwedAfter(cg, c)
    /\ UNCHANGED <<procVars, channelVars, mapVars, instVars, runs, reportVars, loopVars>>

\* Mutant: an update that finds the channel full is dropped.
SendConfigUpdateOrDrop(cg) ==
    /\ cg \in owed
    /\ owed' = owed \ {cg}
    /\ configUpdates' = IF Len(configUpdates) < ConfigUpdatesCap
                        THEN Append(configUpdates, [cg |-> cg, config |-> config[cg]])
                        ELSE configUpdates
    /\ UNCHANGED <<procVars, requests, config, mapVars, instVars, runs, reportVars, loopVars,
                   used>>

\* sendConfigUpdates: the reconciler is requeued until the channel has room.
SendConfigUpdate(cg) ==
    /\ cg \in owed
    /\ Len(configUpdates) < ConfigUpdatesCap
    /\ owed' = owed \ {cg}
    /\ configUpdates' = Append(configUpdates, [cg |-> cg, config |-> config[cg]])
    /\ UNCHANGED <<procVars, requests, config, mapVars, instVars, runs, reportVars, loopVars,
                   used>>

-----------------------------------------------------------------------------
(* Specification *)

EventLoop ==
    \/ HandleExecEvent \/ HandleExitEvent
    \/ HandleInstrumentRequest \/ HandleRetryRequest \/ HandleUnInstrumentRequest
    \/ HandleConfigUpdate

Shutdown ==
    \/ \E p \in Pids : ShutdownClean(p)
    \/ ShutdownTimeout \/ ShutdownDone

Environment ==
    \/ \E p \in Pids, pd \in ProcessDetails : RunReturns(p, pd) \/ Spawn(p, pd) \/ ReExec(p, pd)
    \/ \E p \in Pids : Exit(p)
    \/ \E pg \in ProcessGroups : SendInstrumentationRequest(pg)
                                   \/ SendUnInstrumentationRequest(pg)
    \/ \E filter \in SUBSET DistroFactories : SendRetryRequest(filter)
    \/ \E cg \in ConfigGroups : \/ \E c \in Configs \cup {nil} : ChangeConfig(cg, c)
                                \/ SendConfigUpdate(cg)

Next == EventLoop \/ StopEventLoop \/ Shutdown \/ Environment

Spec == Init /\ [][Next]_vars

\* The goroutine of the event loop keeps being scheduled: every event, request
\* and update that reached a channel is received, and the deferred cleanup
\* ends.  A requeued reconcile runs again.
Fairness ==
    /\ WF_vars(HandleExecEvent \/ HandleExitEvent)
    /\ WF_vars(HandleInstrumentRequest \/ HandleRetryRequest \/ HandleUnInstrumentRequest)
    /\ WF_vars(HandleConfigUpdate)
    /\ WF_vars(Shutdown)
    /\ \A cg \in ConfigGroups : WF_vars(SendConfigUpdate(cg))

FairSpec == Spec /\ Fairness

-----------------------------------------------------------------------------
(* Properties *)

\* While the loop runs, the loaded and not yet closed instrumentations of a
\* process are those the manager tracks, each once: no attempt, retry, exit or
\* un-instrument request attaches twice, closes twice or forgets one.
AttachedMatchesTracked ==
    loop = "running" =>
        \A p \in Pids, k \in Kinds :
            attached[p][k] = IF detailsByPid[p] # nil /\ k \in detailsByPid[p].insts
                             THEN 1 ELSE 0

\* The indexes of a process's own groups hold its current details, and no index
\* holds anything else, so that a request or an update for a group reaches its
\* processes and no other.  Excepted are the entries that a pid leaves in its old
\* groups when it is tracked again in others: startTrackInstrumentation does not
\* look for them, and stopTrackInstrumentation deletes under the new groups only.
IndexesAgree ==
    \A p \in Pids :
        /\ \A cg \in ConfigGroups :
              IF detailsByPid[p] # nil /\ detailsByPid[p].cg = cg
              THEN detailsByConfigGroup[cg][p] = detailsByPid[p]
              ELSE detailsByConfigGroup[cg][p] = nil \/ p \in moved
        /\ \A pg \in ProcessGroups :
              IF detailsByPid[p] # nil /\ detailsByPid[p].pg = pg
              THEN detailsByProcessGroup[pg][p] = detailsByPid[p]
              ELSE detailsByProcessGroup[pg][p] = nil \/ p \in moved

\* The instrumented-processes counter of a distro is the number of processes
\* with a loaded instrumentation of that distro, and a process that failed on
\* its first attempt is counted as failed once however often it is retried.
MetricsMatchTracked ==
    loop = "running" =>
        /\ \A d \in Distros : instrumentedProcesses[d] =
              Cardinality({p \in Tracked : /\ "distro" \in detailsByPid[p].insts
                                           /\ Distribution[detailsByPid[p].pd] = d})
        /\ \A p \in Pids :
              /\ failedInstrumentations[p] <= 1
              /\ p \in Tracked /\ HasFactory(detailsByPid[p].pd)
                   /\ "distro" \notin detailsByPid[p].insts => failedInstrumentations[p] = 1

UpdatesOf(cg) == {i \in DOMAIN configUpdates : configUpdates[i].cg = cg}

\* An update for cg with its present configuration is still to come, and no
\* older one comes after it.
UpdatePending(cg) ==
    \/ cg \in owed
    \/ \E i \in UpdatesOf(cg) : /\ configUpdates[i].config = config[cg]
                                /\ \A j \in UpdatesOf(cg) : j <= i

\* A loaded instrumentation has the present configuration of its container, or
\* the update that brings it is on its way, whatever the order in which the
\* process was loaded and the updates were queued and handled.  Excepted are
\* containers whose configuration is gone, instrumentations that refused their
\* last update, and those of a pid that was tracked again in another group, which
\* keep the configuration they had and take that of the old group.
ConfigIsFreshOrPending ==
    loop = "running" =>
        \A p \in Tracked : \A k \in detailsByPid[p].insts :
            LET cg == detailsByPid[p].cg
            IN  \/ instConfig[p][k] = config[cg]
                \/ config[cg] = nil
                \/ <<p, k>> \in staleConfig
                \/ p \in moved
                \/ UpdatePending(cg)

\* The record a user sees is the truth: a record says that probes are loaded
\* only if they are, and every record belongs to a tracked process.  Excepted are
\* the records that a Run which returns after the cleanup writes again, and the
\* one that a pid tracked again in another pod leaves in the first.
RecordsMatchTracked ==
    loop = "running" =>
        \A pod \in Pods, p \in Pids \ moved :
            instances[pod][p] \notin {nil, "FailedToRun"} =>
                /\ detailsByPid[p] # nil
                /\ PodOf[detailsByPid[p].pd] = pod
                /\ instances[pod][p] = "LoadedSuccessfully" =>
                       "distro" \in detailsByPid[p].insts

\* A shutdown whose cleanup was not cut off leaves no instrumentation attached.
CleanShutdownClosesAll ==
    loop = "stopped" => \A p \in Pids, k \in Kinds : attached[p][k] = 0

\* What a step of the running loop removes: at a request to un-instrument, the
\* processes of the request's group, and of those that were tracked again in another
\* group the ones that left an entry in this one; else at most the process of an
\* exit event.
RemovesOwnGroup ==
    LET gone == {p \in Tracked : detailsByPid'[p] = nil}
        group == {p \in Tracked : detailsByPid[p].pg = Head(requests).pg}
        uninstrument == /\ requests # <<>> /\ requests' = Tail(requests)
                        /\ Head(requests).type = "uninstrument"
    IN  loop' = "running" =>
          IF uninstrument
          THEN group \subseteq gone /\ gone \subseteq group \cup moved
          ELSE \A p \in gone : /\ procEvents # <<>>
                               /\ procEvents' = Tail(procEvents)
                               /\ Head(procEvents).type = "exit"
                               /\ Head(procEvents).pid = p

\* A request to un-instrument a process group removes every process of that group,
\* and of other groups only processes whose pid was tracked in this one before;
\* otherwise a process stops being tracked only at its own exit event or at
\* shutdown.
UnInstrumentsOwnGroup == [][RemovesOwnGroup]_vars

\* A tracked process that has exited is cleaned up in the end (unless its pid
\* is taken by a new process, or the manager stops), if the detector watched it.
\* It watches the processes it has reported and those the manager tells it of.
\* A process that was only named in a request is not among them when its
\* instrumentation failed, and one whose request is handled after its exit has no
\* exit left to report: these the manager tracks for ever.
ExitedProcessIsCleaned ==
    \A p \in Pids : (detailsByPid[p] # nil /\ proc[p] = nil /\ p \notin unseen)
                      ~> (detailsByPid[p] = nil \/ proc[p] # nil \/ loop # "running")

\* The record of a process that has exited is deleted in the end.
ExitedProcessLosesRecord ==
    \A pod \in Pods, p \in Pids :
        (instances[pod][p] # nil /\ proc[p] = nil)
          ~> (instances[pod][p] = nil \/ proc[p] # nil \/ loop # "running")

\* Once the configuration of a container stops changing, its instrumentations
\* end up with it, short of those that refused it and of pids that were tracked
\* again in another group.
ConfigConverges ==
    \A cg \in ConfigGroups, c \in Configs :
        <>[](config[cg] = c /\ loop = "running") =>
            <>[](\A p \in Tracked \ moved : detailsByPid[p].cg = cg =>
                    \A k \in detailsByPid[p].insts :
                        instConfig[p][k] = c \/ <<p, k>> \in staleConfig)

\* A stopped manager finishes its cleanup.
ShutdownEnds == loop = "stopping" ~> loop \in {"stopped", "aborted"}
=============================================================================
