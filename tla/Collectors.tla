----------------------------- MODULE Collectors -----------------------------
(***************************************************************************)
(* The collectors' configuration.  Two packages of the instrumentor write  *)
(* the specs of the two CollectorsGroups (clustercollectorsgroup and       *)
(* nodecollectorsgroup), and two of the autoscaler turn them into the      *)
(* ConfigMaps of the gateway and of the node collectors, and report in the *)
(* groups' status which signals those receive (clustercollector and        *)
(* nodecollector).  The agents are told to send the node group's signals.  *)
(*                                                                         *)
(* Every controller reconciles the same object whatever its request names, *)
(* one request at a time, but the controllers of a package run at the same *)
(* time: each first reads, then writes.                                    *)
(***************************************************************************)
EXTENDS Integers, FiniteSets

CONSTANTS
    Confs,          \* effective configurations
    SpanMetrics,    \* those that turn spans into metrics in the node collectors
    Controllers,    \* the controllers that run
    InitialConf,    \* the configuration at first
    DestDemands,    \* what destinations may ask for
    InitialDests,   \* what they ask for at first
    nil,
    Env,            \* which kinds of events happen
    MaxChanges,     \* bound on the number of users' changes
    MaxFaults,      \* bound on that of failures
    Retries         \* syncDaemonsetRetry

\* Each package's controllers, named by what they watch.  Left out are those that run the
\* same reconcile on events of objects that are not modelled (processors, actions, secrets,
\* sampling rules).
ClusterGroupControllers == {"clustergroup-config", "clustergroup-destinations"}
NodeGroupControllers ==
    {"nodegroup-ics", "nodegroup-config", "nodegroup-clustergroup", "nodegroup-destinations"}
GatewayControllers == {"gateway-groups", "gateway-destinations", "gateway-ics"}
NodeControllers == {"node-groups", "node-configmap", "node-ics"}

Signals == {"traces", "metrics"}

\* What the enabled destinations of known types ask for: signals and, in the metrics
\* settings of those that take metrics, which of the metrics are to be collected.
Demands ==
    {d \in SUBSET (Signals \cup {"span metrics", "agent metrics"}) :
        "metrics" \in d \/ d \cap {"span metrics", "agent metrics"} = {}}

ASSUME CollectorsAssumption ==
    /\ SpanMetrics \subseteq Confs
    /\ InitialConf \in Confs
    /\ DestDemands \subseteq Demands
    /\ InitialDests \in Demands
    /\ Controllers \subseteq ClusterGroupControllers \cup NodeGroupControllers
                               \cup GatewayControllers \cup NodeControllers
    /\ {"node-groups", "node-configmap"} \subseteq Controllers
    /\ MaxChanges \in Nat /\ MaxFaults \in Nat
    /\ Retries \in Nat \ {0}

VARIABLES
    dests,          \* the demands of the enabled destinations
    apps,           \* whether an InstrumentationConfig exists
    conf,           \* the effective configuration
    cluster,        \* the cluster CollectorsGroup
    node,           \* the node CollectorsGroup, or nil
    gatewayConf,    \* the gateway's ConfigMap, or nil
    nodeConf,       \* the node collectors' ConfigMap: the signals with a pipeline for agents
    cache,          \* the informers' view of the last three (of node: whether it exists)
    missed,         \* those of them with changes the informer has not seen
    queue,          \* the controllers with a request
    busy,           \* busy[c]: what controller c is about to do, or nil
    timer,          \* the DelayManager's delayed call
    changes,        \* changes so far
    faults          \* failures so far

vars == <<dests, apps, conf, cluster, node, gatewayConf, nodeConf, cache, missed, queue, busy,
          timer, changes, faults>>

used == <<changes, faults>>

api == <<dests, apps, conf, cluster, node, gatewayConf, nodeConf>>

-----------------------------------------------------------------------------
(* Types *)

\* span: turn spans into metrics.  metrics: collect those of the agents.
NodeSpecs == [span : BOOLEAN, metrics : BOOLEAN]
ClusterGroups == [spec : Confs, ready : BOOLEAN, signals : SUBSET Signals]
NodeGroups == [spec : NodeSpecs, ready : BOOLEAN, signals : SUBSET Signals]
GatewayConfs == [spec : Confs, signals : SUBSET Signals]

Plans ==
    [do : {"apply cluster group"}, spec : Confs]
    \cup [do : {"apply node group"}, spec : NodeSpecs]
    \cup [do : {"delete node group"}]
    \cup [do : {"write gateway config", "write gateway signals"},
          spec : Confs, signals : SUBSET Signals]
    \cup [do : {"write node config", "delay"}, signals : SUBSET Signals, group : BOOLEAN]

Timers ==
    [step : {"idle", "set"}]
    \cup [step : {"firing"}, signals : SUBSET Signals, attempts : 0 .. Retries - 1]
idle == [step |-> "idle"]

ASSUME NilAssumption == nil \notin NodeGroups \cup [spec : NodeSpecs] \cup Plans \cup GatewayConfs

-----------------------------------------------------------------------------
(* What the controllers compute *)

\* The signals that the destinations take.
Taken == dests \cap Signals

\* The spec of the node group, from the configuration and the destinations.
NewNodeCollectorGroup ==
    [span |-> "span metrics" \in dests /\ conf \in SpanMetrics,
     metrics |-> "agent metrics" \in dests]

\* The pipelines that receive from agents, given the node group and the signals the
\* gateway takes; without a group the configuration has none.
AgentPipelines(group, signals) ==
    IF group = nil THEN {}
    ELSE {s \in Signals :
            \/ s = "traces" /\ \/ "traces" \in signals
                               \/ "metrics" \in signals /\ group.spec.span
            \/ s = "metrics" /\ "metrics" \in signals /\ group.spec.metrics}

-----------------------------------------------------------------------------
\* Odigos is installed and has settled; the gateway may have no ready replica yet.
Init ==
    /\ dests = InitialDests
    /\ apps \in BOOLEAN
    /\ conf = InitialConf
    /\ \E ready \in BOOLEAN :
          /\ cluster = [spec |-> conf, ready |-> ready, signals |-> Taken]
          /\ node = IF ready /\ apps
                    THEN [spec |-> NewNodeCollectorGroup, ready |-> TRUE,
                          signals |-> AgentPipelines([spec |-> NewNodeCollectorGroup], Taken)]
                    ELSE nil
    /\ gatewayConf = [spec |-> conf, signals |-> Taken]
    /\ nodeConf = AgentPipelines(node, Taken)
    /\ cache = [node |-> node # nil, gatewayConf |-> gatewayConf, nodeConf |-> nodeConf]
    /\ missed = {}
    /\ queue = {}
    /\ busy = [c \in Controllers |-> nil]
    /\ timer = idle
    /\ changes = 0 /\ faults = 0

Enqueue(cs) == queue' = queue \cup (cs \cap Controllers)

Change(kind) ==
    kind \in Env /\ changes < MaxChanges /\ changes' = changes + 1 /\ UNCHANGED faults

Fault(kind) ==
    kind \in Env /\ faults < MaxFaults /\ faults' = faults + 1 /\ UNCHANGED changes

-----------------------------------------------------------------------------
(* The watches: which controllers an event is a request for. *)

OnConf == {"clustergroup-config", "nodegroup-config"}
OnDestinations == {"clustergroup-destinations", "nodegroup-destinations", "gateway-destinations"}
OnExistence == {"nodegroup-ics", "gateway-ics", "node-ics"}

\* Both autoscaler packages watch the specs of both groups, the node collectors' also
\* the status of the cluster group.
OnSpec == {"gateway-groups", "node-groups"}
OnClusterStatus == {"node-groups"}
OnClusterReady == {"node-groups", "nodegroup-clustergroup"}

\* OnlyUpdatesPredicate on the node collectors' ConfigMap.  The gateway's ConfigMap has
\* no generation, so GenerationChangedPredicate drops its updates, but not its creation
\* and its deletion.
OnSeen(o) ==
    IF o = "nodeConf" THEN {"node-configmap"}
    ELSE IF o = "gatewayConf" /\ nil \in {gatewayConf, cache.gatewayConf} THEN {"gateway-groups"}
    ELSE {}

Current == [node |-> node # nil, gatewayConf |-> gatewayConf, nodeConf |-> nodeConf]

InformerCatchesUp(o) ==
    /\ o \in missed
    /\ cache' = [cache EXCEPT ![o] = Current[o]]
    /\ missed' = missed \ {o}
    /\ Enqueue(OnSeen(o))
    /\ UNCHANGED <<api, busy, timer, used>>

Missed(o, changed) == missed' = IF changed THEN missed \cup {o} ELSE missed

-----------------------------------------------------------------------------
(* One reconcile: take the request and read, then write step by step. *)

Reads(c, plan) ==
    /\ c \in queue
    /\ busy[c] = nil
    /\ queue' = queue \ {c}
    /\ busy' = [busy EXCEPT ![c] = plan]
    /\ UNCHANGED <<api, cache, missed, timer, used>>

Does(c, step) == busy[c] # nil /\ busy[c].do = step

Done(c) == busy' = [busy EXCEPT ![c] = nil]

Continue(c, step) == busy' = [busy EXCEPT ![c].do = step]

-----------------------------------------------------------------------------
(* The instrumentor: the groups *)

SyncClusterGroup(c) ==
    /\ c \in ClusterGroupControllers
    /\ Reads(c, [do |-> "apply cluster group", spec |-> conf])

\* A server-side apply of the spec: it leaves the status alone.
ApplyClusterGroup(c) ==
    /\ Does(c, "apply cluster group")
    /\ cluster' = [cluster EXCEPT !.spec = busy[c].spec]
    /\ Enqueue(IF cluster'.spec # cluster.spec THEN OnSpec ELSE {})
    /\ Done(c)
    /\ UNCHANGED <<dests, apps, conf, node, gatewayConf, nodeConf, cache, missed, timer, used>>

\* Mutant: the group is applied whether the gateway is ready or not.
SyncNodeGroupAnyway(c) ==
    /\ c \in NodeGroupControllers
    /\ Reads(c, IF ~apps THEN [do |-> "delete node group"]
                ELSE [do |-> "apply node group", spec |-> NewNodeCollectorGroup])

SyncNodeGroup(c) ==
    /\ c \in NodeGroupControllers
    /\ Reads(c, IF ~apps THEN [do |-> "delete node group"]
                ELSE IF cluster.ready
                     THEN [do |-> "apply node group", spec |-> NewNodeCollectorGroup]
                     ELSE nil)

ApplyNodeGroup(c) ==
    /\ Does(c, "apply node group")
    /\ node' = IF node = nil
               THEN [spec |-> busy[c].spec, ready |-> FALSE, signals |-> {}]
               ELSE [node EXCEPT !.spec = busy[c].spec]
    /\ Missed("node", node = nil)
    /\ Enqueue(IF node' # node THEN OnSpec ELSE {})
    /\ Done(c)
    /\ UNCHANGED <<dests, apps, conf, cluster, gatewayConf, nodeConf, cache, timer, used>>

\* Looked up in the cache first: nothing to delete if it is not there, and an error that
\* is retried if it is no longer anywhere else.
DeleteNodeGroup(c) ==
    /\ Does(c, "delete node group")
    /\ node' = IF cache.node THEN nil ELSE node
    /\ Missed("node", node' # node)
    /\ Enqueue(IF node' # node THEN OnSpec
               ELSE IF cache.node THEN {c} ELSE {})
    /\ Done(c)
    /\ UNCHANGED <<dests, apps, conf, cluster, gatewayConf, nodeConf, cache, timer, used>>

-----------------------------------------------------------------------------
(* The autoscaler: the gateway *)

ReconcileClusterCollector(c) ==
    /\ c \in GatewayControllers
    /\ Reads(c, [do |-> "write gateway config", spec |-> cluster.spec, signals |-> Taken])

DesiredGatewayConf(c) == [spec |-> busy[c].spec, signals |-> busy[c].signals]

\* Nothing is written when the cached ConfigMap is already as desired.  Otherwise one that
\* is in the cache is patched, and one that is not is created: an error that is retried
\* when the cache is behind.
SyncGatewayConfigMap(c) ==
    /\ Does(c, "write gateway config")
    /\ LET desired == DesiredGatewayConf(c)
           known == cache.gatewayConf
       IN  \/ /\ known = desired \/ (known = nil <=> gatewayConf = nil)
              /\ gatewayConf' = IF known = desired THEN gatewayConf ELSE desired
              /\ Missed("gatewayConf", gatewayConf' # gatewayConf)
              /\ Continue(c, "write gateway signals")
              /\ UNCHANGED queue
           \/ /\ known # desired /\ ~(known = nil <=> gatewayConf = nil)
              /\ Done(c)
              /\ Enqueue({c} \cup OnClusterStatus)
              /\ UNCHANGED <<gatewayConf, missed>>
    /\ UNCHANGED <<dests, apps, conf, cluster, node, nodeConf, cache, timer, used>>

\* The Deployed condition, patched last, has a new time: an event in any case.
UpdateGatewaySignals(c) ==
    /\ Does(c, "write gateway signals")
    /\ cluster' = [cluster EXCEPT !.signals = busy[c].signals]
    /\ Enqueue(OnClusterStatus)
    /\ Done(c)
    /\ UNCHANGED <<dests, apps, conf, node, gatewayConf, nodeConf, cache, missed, timer, used>>

\* The first time the gateway's Deployment has a ready replica.
GatewayIsReady ==
    /\ ~cluster.ready
    /\ cluster' = [cluster EXCEPT !.ready = TRUE]
    /\ Enqueue(OnClusterReady)
    /\ UNCHANGED <<dests, apps, conf, node, gatewayConf, nodeConf, cache, missed, busy, timer,
                   used>>

-----------------------------------------------------------------------------
(* The autoscaler: the node collectors *)

ReconcileNodeCollector(c) ==
    /\ c \in NodeControllers
    /\ Reads(c, [do |-> "write node config", signals |-> AgentPipelines(node, cluster.signals),
                 group |-> node # nil])

SyncNodeConfigMap(c) ==
    /\ Does(c, "write node config")
    /\ nodeConf' = busy[c].signals
    /\ Missed("nodeConf", nodeConf' # nodeConf)
    /\ Continue(c, "delay")
    /\ UNCHANGED <<dests, apps, conf, cluster, node, gatewayConf, cache, queue, timer, used>>

\* Mutant: the lock is not held while the delayed call runs.
RunSyncDaemonSetUnlocked(c) ==
    /\ Does(c, "delay")
    /\ timer' = IF busy[c].group /\ timer = idle THEN [step |-> "set"] ELSE timer
    /\ Done(c)
    /\ UNCHANGED <<api, cache, missed, queue, used>>

\* Skipped without a group, or if a call is waiting already; blocks while one runs.
RunSyncDaemonSetWithDelay(c) ==
    /\ Does(c, "delay")
    /\ busy[c].group => timer.step # "firing"
    /\ timer' = IF busy[c].group /\ timer = idle THEN [step |-> "set"] ELSE timer
    /\ Done(c)
    /\ UNCHANGED <<api, cache, missed, queue, used>>

\* The delayed call reads the cached ConfigMap, not what its reconcile wrote.
SyncCollectorGroupReads ==
    /\ timer.step = "set"
    /\ timer' = [step |-> "firing", signals |-> cache.nodeConf, attempts |-> 0]
    /\ UNCHANGED <<api, cache, missed, queue, busy, used>>

\* Mutant: the DelayManager is not unlocked when the delayed call is done.
SyncCollectorGroupStaysLocked ==
    /\ timer.step = "firing"
    /\ node' = IF node = nil THEN nil
               ELSE [node EXCEPT !.signals = timer.signals, !.ready = TRUE]
    /\ UNCHANGED <<dests, apps, conf, cluster, gatewayConf, nodeConf, cache, missed, queue,
                   busy, timer, used>>

\* Mutant: the patch creates the group when there is none.
SyncCollectorGroupUpserts ==
    /\ timer.step = "firing"
    /\ node' = IF node = nil THEN [ready |-> TRUE, signals |-> timer.signals]
               ELSE [node EXCEPT !.signals = timer.signals, !.ready = TRUE]
    /\ timer' = idle
    /\ UNCHANGED <<dests, apps, conf, cluster, gatewayConf, nodeConf, cache, missed, queue,
                   busy, used>>

\* The patches go to the group of that name, if there is still or again one.
SyncCollectorGroupWrites ==
    /\ timer.step = "firing"
    /\ node' = IF node = nil THEN nil
               ELSE [node EXCEPT !.signals = timer.signals, !.ready = TRUE]
    /\ timer' = idle
    /\ UNCHANGED <<dests, apps, conf, cluster, gatewayConf, nodeConf, cache, missed, queue,
                   busy, used>>

\* Retried at once, reading again; after the last attempt the group is ready all the same.
SyncCollectorGroupFails ==
    /\ Fault("delayed call fails")
    /\ timer.step = "firing"
    /\ IF timer.attempts < Retries - 1
       THEN /\ timer' = [timer EXCEPT !.attempts = @ + 1, !.signals = cache.nodeConf]
            /\ UNCHANGED node
       ELSE /\ timer' = idle
            /\ node' = IF node = nil THEN nil ELSE [node EXCEPT !.ready = TRUE]
    /\ UNCHANGED <<dests, apps, conf, cluster, gatewayConf, nodeConf, cache, missed, queue, busy>>

-----------------------------------------------------------------------------
(* Users, and failures *)

ChangeDestinations ==
    /\ Change("destinations")
    /\ \E d \in DestDemands \ {dests} : dests' = d
    /\ Enqueue(OnDestinations)
    /\ UNCHANGED <<apps, conf, cluster, node, gatewayConf, nodeConf, cache, missed, busy, timer>>

ChangeApps ==
    /\ Change("apps")
    /\ apps' = ~apps
    /\ Enqueue(OnExistence)
    /\ UNCHANGED <<dests, conf, cluster, node, gatewayConf, nodeConf, cache, missed, busy, timer>>

ChangeConf ==
    /\ Change("config")
    /\ \E c \in Confs \ {conf} : conf' = c
    /\ Enqueue(OnConf)
    /\ UNCHANGED <<dests, apps, cluster, node, gatewayConf, nodeConf, cache, missed, busy, timer>>

EditNodeConf ==
    /\ Fault("edit node config")
    /\ \E s \in (SUBSET Signals) \ {nodeConf} : nodeConf' = s
    /\ Missed("nodeConf", TRUE)
    /\ UNCHANGED <<dests, apps, conf, cluster, node, gatewayConf, cache, queue, busy, timer>>

EditGatewayConf ==
    /\ Fault("edit gateway config")
    /\ gatewayConf # nil
    /\ \/ gatewayConf' = nil
       \/ \E s \in (SUBSET Signals) \ {gatewayConf.signals} :
             gatewayConf' = [gatewayConf EXCEPT !.signals = s]
    /\ Missed("gatewayConf", TRUE)
    /\ UNCHANGED <<dests, apps, conf, cluster, node, nodeConf, cache, queue, busy, timer>>

\* A write of a reconcile fails, or one that is not modelled (services, deployment, the
\* copy of the node configuration by domain): the request is retried.  The gateway's
\* Deployed condition is patched all the same, unless that fails too.
ReconcileFails(c) ==
    /\ Fault("reconcile fails")
    /\ busy[c] # nil
    /\ Done(c)
    /\ \E also \in {{}, IF c \in GatewayControllers THEN OnClusterStatus ELSE {}} :
          Enqueue({c} \cup also)
    /\ UNCHANGED <<api, cache, missed, timer>>

\* The autoscaler restarts: what it was doing is lost, every object is seen as created.
RestartAutoscaler ==
    /\ Fault("restart")
    /\ busy' = [c \in Controllers |->
                  IF c \in GatewayControllers \cup NodeControllers THEN nil ELSE busy[c]]
    /\ timer' = idle
    /\ cache' = [Current EXCEPT !.node = cache.node]
    /\ missed' = missed \cap {"node"}
    /\ Enqueue(GatewayControllers \cup NodeControllers)
    /\ UNCHANGED api

-----------------------------------------------------------------------------
Step(c) ==
    \/ SyncClusterGroup(c) \/ ApplyClusterGroup(c)
    \/ SyncNodeGroup(c) \/ ApplyNodeGroup(c) \/ DeleteNodeGroup(c)
    \/ ReconcileClusterCollector(c) \/ SyncGatewayConfigMap(c) \/ UpdateGatewaySignals(c)
    \/ ReconcileNodeCollector(c) \/ SyncNodeConfigMap(c) \/ RunSyncDaemonSetWithDelay(c)

DelayedCall == SyncCollectorGroupReads \/ SyncCollectorGroupWrites

Next ==
    \/ \E c \in Controllers : Step(c) \/ ReconcileFails(c)
    \/ \E o \in {"node", "gatewayConf", "nodeConf"} : InformerCatchesUp(o)
    \/ DelayedCall \/ SyncCollectorGroupFails
    \/ GatewayIsReady
    \/ ChangeDestinations \/ ChangeApps \/ ChangeConf \/ EditNodeConf \/ EditGatewayConf
    \/ RestartAutoscaler

Spec == Init /\ [][Next]_vars

\* A controller with a request or a reconcile under way goes on, a timer fires, and the
\* informers catch up.
FairSpec ==
    /\ Spec
    /\ \A c \in Controllers : WF_vars(Step(c))
    /\ \A o \in {"node", "gatewayConf", "nodeConf"} : WF_vars(InformerCatchesUp(o))
    /\ WF_vars(DelayedCall)

-----------------------------------------------------------------------------
(* Properties *)

\* Every variable has its type: in particular the delayed call never brings back a group
\* that was deleted, half filled.
TypeOK ==
    /\ dests \in Demands
    /\ apps \in BOOLEAN
    /\ conf \in Confs
    /\ cluster \in ClusterGroups
    /\ node \in NodeGroups \cup {nil}
    /\ gatewayConf \in GatewayConfs \cup {nil}
    /\ nodeConf \subseteq Signals
    /\ cache \in [node : BOOLEAN, gatewayConf : GatewayConfs \cup {nil},
                  nodeConf : SUBSET Signals]
    /\ missed \subseteq {"node", "gatewayConf", "nodeConf"}
    /\ queue \subseteq Controllers
    /\ busy \in [Controllers -> Plans \cup {nil}]
    /\ timer \in Timers
    /\ changes \in 0 .. MaxChanges /\ faults \in 0 .. MaxFaults

\* The node group says what the node collectors will receive from agents.
NodeInSync == node # nil => node.signals = AgentPipelines(node, cluster.signals)

NodeWorkPending ==
    \/ queue \cap NodeControllers # {}
    \/ \E c \in NodeControllers \cap Controllers : busy[c] # nil
    \/ timer # idle
    \/ "nodeConf" \in missed

\* The node collectors are never behind the gateway with nobody to notice: whatever the
\* order in which the controllers, the delayed call and the informer run, when the node
\* group's signals do not match the gateway's, some work that corrects them is under way.
NodeOutOfSyncIsPending == ~NodeInSync => NodeWorkPending

\* Node collectors are rolled out only once there is a gateway to send to: the status
\* that says so survives every later apply of the cluster group's spec.
NodeGroupWaitsForGateway == node # nil => cluster.ready

\* Once users stop changing things, the agents are told to send exactly the signals
\* that the node collectors have pipelines for, given those that the gateway group
\* reports.  That is what the gateway was configured with, not what its ConfigMap holds
\* after somebody has edited it; and the faults are fewer than the delayed call's attempts.
NodeFollowsGateway == <>[]NodeInSync

\* The comment on the gateway's watches: its ConfigMap, "deleted or modified for any
\* reason", is reconciled (clustercollector/manager.go:22).
GatewayFollowsDestinations ==
    <>[](gatewayConf # nil /\ gatewayConf.signals = Taken /\ cluster.signals = Taken)

\* Workloads to instrument get node collectors, configured for the destinations.
AppsGetNodeCollectors ==
    <>[](apps /\ cluster.ready => node # nil /\ node.spec = NewNodeCollectorGroup)
=============================================================================
