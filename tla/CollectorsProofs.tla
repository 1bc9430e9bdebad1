-------------------------- MODULE CollectorsProofs --------------------------
(***************************************************************************)
(* Theorems about Collectors, for every set of configurations and of       *)
(* controllers and for every bound.                                        *)
(***************************************************************************)
EXTENDS Collectors, TLAPS

-----------------------------------------------------------------------------
(* Lemmas about the helpers *)

\* What is known of a plan by what it is to do next.
LEMMA PlanKinds ==
    ASSUME NEW p \in Plans
    PROVE  /\ p # nil
           /\ p.do = "apply cluster group" => p.spec \in Confs
           /\ p.do = "apply node group" => p.spec \in NodeSpecs
           /\ p.do \in {"write gateway config", "write gateway signals"}
                 => /\ p.spec \in Confs /\ p.signals \subseteq Signals
                    /\ [p EXCEPT !.do = "write gateway signals"] \in Plans
                    /\ [p EXCEPT !.do = "write gateway signals"].do = "write gateway signals"
           /\ p.do \in {"write node config", "delay"}
                 => /\ p.signals \subseteq Signals /\ p.group \in BOOLEAN
                    /\ [p EXCEPT !.do = "delay"] \in Plans
                    /\ [p EXCEPT !.do = "delay"].do = "delay"
                    /\ [p EXCEPT !.do = "delay"].group = p.group
<1>1. p # nil
  BY NilAssumption
<1>2. CASE p \in [do : {"apply cluster group"}, spec : Confs]
  BY <1>1, <1>2
<1>3. CASE p \in [do : {"apply node group"}, spec : NodeSpecs]
  BY <1>1, <1>3
<1>4. CASE p \in [do : {"delete node group"}]
  BY <1>1, <1>4
<1>5. CASE p \in [do : {"write gateway config", "write gateway signals"},
                  spec : Confs, signals : SUBSET Signals]
  <2>1. [p EXCEPT !.do = "write gateway signals"]
            \in [do : {"write gateway config", "write gateway signals"},
                 spec : Confs, signals : SUBSET Signals]
    BY <1>5
  <2>2. [p EXCEPT !.do = "write gateway signals"].do = "write gateway signals"
    BY <1>5
  <2> QED
    BY <1>1, <1>5, <2>1, <2>2 DEF Plans
<1>6. CASE p \in [do : {"write node config", "delay"}, signals : SUBSET Signals,
                  group : BOOLEAN]
  <2>1. [p EXCEPT !.do = "delay"]
            \in [do : {"write node config", "delay"}, signals : SUBSET Signals,
                 group : BOOLEAN]
    BY <1>6
  <2>2. /\ [p EXCEPT !.do = "delay"].do = "delay"
        /\ [p EXCEPT !.do = "delay"].group = p.group
    BY <1>6
  <2> QED
    BY <1>1, <1>6, <2>1, <2>2 DEF Plans
<1> QED
  BY <1>2, <1>3, <1>4, <1>5, <1>6 DEF Plans

\* A controller with a plan has one of the plans.
LEMMA BusyType ==
    ASSUME TypeOK, NEW c \in Controllers, busy[c] # nil
    PROVE  busy[c] \in Plans
BY DEF TypeOK

\* The pipelines are some of the signals.
LEMMA PipelinesType ==
    ASSUME NEW group, NEW signals
    PROVE  AgentPipelines(group, signals) \subseteq Signals
BY DEF AgentPipelines

\* The plans a reconcile starts with are plans, and so something to do.
LEMMA StartPlans ==
    ASSUME TypeOK
    PROVE  /\ [do |-> "apply cluster group", spec |-> conf] \in Plans
           /\ [do |-> "apply node group", spec |-> NewNodeCollectorGroup] \in Plans
           /\ [do |-> "delete node group"] \in Plans
           /\ [do |-> "write gateway config", spec |-> cluster.spec, signals |-> Taken] \in Plans
           /\ [do |-> "write node config", signals |-> AgentPipelines(node, cluster.signals),
               group |-> node # nil] \in Plans
<1>1. conf \in Confs /\ cluster.spec \in Confs /\ Taken \subseteq Signals
  BY DEF TypeOK, ClusterGroups, Taken
<1>2. NewNodeCollectorGroup \in NodeSpecs
  BY DEF NewNodeCollectorGroup, NodeSpecs
<1>3. (node # nil) \in BOOLEAN
  OBVIOUS
<1>4. AgentPipelines(node, cluster.signals) \subseteq Signals
  BY PipelinesType
<1> DEFINE pipelines == AgentPipelines(node, cluster.signals)
           group == node # nil
           spec == NewNodeCollectorGroup
<1> HIDE DEF pipelines, group, spec
<1>5. [do |-> "write node config", signals |-> pipelines, group |-> group] \in Plans
  BY <1>3, <1>4 DEF Plans, pipelines, group
<1>6. [do |-> "apply node group", spec |-> spec] \in Plans
  BY <1>2 DEF Plans, spec
<1> QED
  BY <1>1, <1>5, <1>6 DEF Plans, pipelines, group, spec

\* Taking a request and planning keeps the types of both.
LEMMA ReadsType ==
    ASSUME TypeOK, NEW c \in Controllers, NEW plan \in Plans \cup {nil}, Reads(c, plan)
    PROVE  TypeOK'
BY DEF TypeOK, Reads, api, used

\* Requests are for controllers that run.
LEMMA EnqueueType ==
    ASSUME TypeOK, NEW cs, Enqueue(cs)
    PROVE  queue' \subseteq Controllers
BY DEF TypeOK, Enqueue

\* Finishing a reconcile leaves its controller without a plan.
LEMMA DoneType ==
    ASSUME TypeOK, NEW c \in Controllers, Done(c)
    PROVE  busy' \in [Controllers -> Plans \cup {nil}]
BY DEF TypeOK, Done

\* The bounds are numbers.
LEMMA BoundsType ==
    MaxChanges \in Nat /\ MaxFaults \in Nat /\ Retries \in Nat /\ Retries > 0
BY CollectorsAssumption

\* Changes and failures stay within their bounds.
LEMMA CountsType ==
    ASSUME TypeOK, NEW kind, Change(kind) \/ Fault(kind)
    PROVE  changes' \in 0 .. MaxChanges /\ faults' \in 0 .. MaxFaults
<1>1. changes \in 0 .. MaxChanges /\ faults \in 0 .. MaxFaults
  BY DEF TypeOK
<1> QED
  BY <1>1, BoundsType DEF Change, Fault

\* What writing the gateway's ConfigMap does, whether it succeeds or is retried.
LEMMA GatewayConfStep ==
    ASSUME NEW c \in Controllers, SyncGatewayConfigMap(c)
    PROVE  /\ Does(c, "write gateway config")
           /\ gatewayConf' = gatewayConf \/ gatewayConf' = DesiredGatewayConf(c)
           /\ Continue(c, "write gateway signals") \/ Done(c)
           /\ UNCHANGED queue \/ Enqueue({c} \cup OnClusterStatus)
           /\ missed' = missed \/ missed' = missed \cup {"gatewayConf"}
           /\ UNCHANGED <<dests, apps, conf, cluster, node, nodeConf, cache, timer, used>>
<1> DEFINE desired == DesiredGatewayConf(c)
<1> HIDE DEF desired
<1> QED
  BY DEF SyncGatewayConfigMap, Missed, desired

-----------------------------------------------------------------------------
(* The type invariant *)

\* The types hold at first.
LEMMA TypeInit == Init => TypeOK
<1> SUFFICES ASSUME Init PROVE TypeOK
  OBVIOUS
<1>1. PICK ready \in BOOLEAN :
          /\ cluster = [spec |-> conf, ready |-> ready, signals |-> Taken]
          /\ node = IF ready /\ apps
                    THEN [spec |-> NewNodeCollectorGroup, ready |-> TRUE,
                          signals |-> AgentPipelines([spec |-> NewNodeCollectorGroup], Taken)]
                    ELSE nil
  BY DEF Init
<1>2. dests \in Demands /\ Taken \subseteq Signals /\ conf \in Confs /\ apps \in BOOLEAN
  BY CollectorsAssumption DEF Init, Taken
<1>3. NewNodeCollectorGroup \in NodeSpecs
  BY DEF NewNodeCollectorGroup, NodeSpecs
<1>4. node \in NodeGroups \cup {nil}
  <2> DEFINE pipelines == AgentPipelines([spec |-> NewNodeCollectorGroup], Taken)
             spec == NewNodeCollectorGroup
  <2>1. pipelines \subseteq Signals
    BY PipelinesType
  <2> HIDE DEF pipelines, spec
  <2>2. [spec |-> spec, ready |-> TRUE, signals |-> pipelines] \in NodeGroups
    BY <1>3, <2>1 DEF NodeGroups, spec
  <2> QED
    BY <1>1, <2>2 DEF pipelines, spec
<1>5. cluster \in ClusterGroups /\ gatewayConf \in GatewayConfs \cup {nil}
  BY <1>1, <1>2 DEF ClusterGroups, GatewayConfs, Init
<1>6. nodeConf \subseteq Signals
  BY PipelinesType DEF Init
<1>7. cache \in [node : BOOLEAN, gatewayConf : GatewayConfs \cup {nil}, nodeConf : SUBSET Signals]
  <2>1. (node # nil) \in BOOLEAN
    OBVIOUS
  <2> QED
    BY <1>5, <1>6, <2>1 DEF Init
<1>8. timer \in Timers
  BY DEF Init, Timers, idle
<1>9. changes \in 0 .. MaxChanges /\ faults \in 0 .. MaxFaults
  BY BoundsType DEF Init
<1> QED
  BY <1>2, <1>4, <1>5, <1>6, <1>7, <1>8, <1>9 DEF Init, TypeOK

\* Every step keeps the types.
LEMMA TypeStep == TypeOK /\ [Next]_vars => TypeOK'
<1> SUFFICES ASSUME TypeOK, [Next]_vars PROVE TypeOK'
  OBVIOUS
<1>1. ASSUME NEW c \in Controllers, SyncClusterGroup(c) PROVE TypeOK'
  BY <1>1, StartPlans, ReadsType DEF SyncClusterGroup
<1>2. ASSUME NEW c \in Controllers, ApplyClusterGroup(c) PROVE TypeOK'
  <2>1. busy[c].spec \in Confs
    BY <1>2, BusyType, PlanKinds DEF ApplyClusterGroup, Does
  <2>2. cluster' \in ClusterGroups
    BY <1>2, <2>1 DEF ApplyClusterGroup, TypeOK, ClusterGroups
  <2>3. queue' \subseteq Controllers /\ busy' \in [Controllers -> Plans \cup {nil}]
    BY <1>2, EnqueueType, DoneType DEF ApplyClusterGroup
  <2> QED
    BY <1>2, <2>2, <2>3 DEF ApplyClusterGroup, TypeOK, used
<1>3. ASSUME NEW c \in Controllers, SyncNodeGroup(c) PROVE TypeOK'
  <2> DEFINE plan == IF ~apps THEN [do |-> "delete node group"]
                     ELSE IF cluster.ready
                          THEN [do |-> "apply node group", spec |-> NewNodeCollectorGroup]
                          ELSE nil
  <2>1. plan \in Plans \cup {nil}
    BY StartPlans
  <2>2. Reads(c, plan)
    BY <1>3 DEF SyncNodeGroup
  <2> HIDE DEF plan
  <2> QED
    BY <2>1, <2>2, ReadsType
<1>4. ASSUME NEW c \in Controllers, ApplyNodeGroup(c) PROVE TypeOK'
  <2>1. busy[c].spec \in NodeSpecs
    BY <1>4, BusyType, PlanKinds DEF ApplyNodeGroup, Does
  <2>2. node' \in NodeGroups \cup {nil}
    BY <1>4, <2>1 DEF ApplyNodeGroup, TypeOK, NodeGroups
  <2>3. queue' \subseteq Controllers /\ busy' \in [Controllers -> Plans \cup {nil}]
    BY <1>4, EnqueueType, DoneType DEF ApplyNodeGroup
  <2> QED
    BY <1>4, <2>2, <2>3 DEF ApplyNodeGroup, TypeOK, Missed, used
<1>5. ASSUME NEW c \in Controllers, DeleteNodeGroup(c) PROVE TypeOK'
  <2>1. queue' \subseteq Controllers /\ busy' \in [Controllers -> Plans \cup {nil}]
    BY <1>5, EnqueueType, DoneType DEF DeleteNodeGroup
  <2> QED
    BY <1>5, <2>1 DEF DeleteNodeGroup, TypeOK, Missed, used
<1>6. ASSUME NEW c \in Controllers, ReconcileClusterCollector(c) PROVE TypeOK'
  BY <1>6, StartPlans, ReadsType DEF ReconcileClusterCollector
<1>7. ASSUME NEW c \in Controllers, SyncGatewayConfigMap(c) PROVE TypeOK'
  <2>1. /\ busy[c].spec \in Confs /\ busy[c].signals \subseteq Signals
        /\ [busy[c] EXCEPT !.do = "write gateway signals"] \in Plans
    BY <1>7, BusyType, PlanKinds DEF SyncGatewayConfigMap, Does
  <2>2. gatewayConf' \in GatewayConfs \cup {nil}
    <3>1. DesiredGatewayConf(c) \in GatewayConfs
      BY <2>1 DEF DesiredGatewayConf, GatewayConfs
    <3> QED
      BY <1>7, <3>1, GatewayConfStep DEF TypeOK
  <2>3. busy' \in [Controllers -> Plans \cup {nil}]
    BY <1>7, <2>1, GatewayConfStep, DoneType DEF TypeOK, Continue
  <2>4. queue' \subseteq Controllers
    BY <1>7, GatewayConfStep, EnqueueType DEF TypeOK
  <2> QED
    BY <1>7, <2>2, <2>3, <2>4, GatewayConfStep DEF TypeOK, used
<1>8. ASSUME NEW c \in Controllers, UpdateGatewaySignals(c) PROVE TypeOK'
  <2>1. busy[c].signals \subseteq Signals
    BY <1>8, BusyType, PlanKinds DEF UpdateGatewaySignals, Does
  <2>2. cluster' \in ClusterGroups
    BY <1>8, <2>1 DEF UpdateGatewaySignals, TypeOK, ClusterGroups
  <2>3. queue' \subseteq Controllers /\ busy' \in [Controllers -> Plans \cup {nil}]
    BY <1>8, EnqueueType, DoneType DEF UpdateGatewaySignals
  <2> QED
    BY <1>8, <2>2, <2>3 DEF UpdateGatewaySignals, TypeOK, used
<1>9. ASSUME NEW c \in Controllers, ReconcileNodeCollector(c) PROVE TypeOK'
  BY <1>9, StartPlans, ReadsType DEF ReconcileNodeCollector
<1>10. ASSUME NEW c \in Controllers, SyncNodeConfigMap(c) PROVE TypeOK'
  <2>1. busy[c].signals \subseteq Signals /\ [busy[c] EXCEPT !.do = "delay"] \in Plans
    BY <1>10, BusyType, PlanKinds DEF SyncNodeConfigMap, Does
  <2>2. busy' \in [Controllers -> Plans \cup {nil}]
    BY <1>10, <2>1 DEF SyncNodeConfigMap, TypeOK, Continue
  <2> QED
    BY <1>10, <2>1, <2>2 DEF SyncNodeConfigMap, TypeOK, Missed, used
<1>11. ASSUME NEW c \in Controllers, RunSyncDaemonSetWithDelay(c) PROVE TypeOK'
  <2>1. timer' \in Timers
    BY <1>11 DEF RunSyncDaemonSetWithDelay, TypeOK, Timers
  <2> QED
    BY <1>11, <2>1, DoneType DEF RunSyncDaemonSetWithDelay, TypeOK, api, used
<1>12. ASSUME NEW c \in Controllers, ReconcileFails(c) PROVE TypeOK'
  <2>1. queue' \subseteq Controllers /\ busy' \in [Controllers -> Plans \cup {nil}]
    BY <1>12, EnqueueType, DoneType DEF ReconcileFails
  <2> QED
    BY <1>12, <2>1, CountsType DEF ReconcileFails, TypeOK, api
<1>13. ASSUME NEW o \in {"node", "gatewayConf", "nodeConf"}, InformerCatchesUp(o) PROVE TypeOK'
  <2>1. Current \in [node : BOOLEAN, gatewayConf : GatewayConfs \cup {nil}, nodeConf : SUBSET Signals]
    BY DEF TypeOK, Current
  <2>2. cache' \in [node : BOOLEAN, gatewayConf : GatewayConfs \cup {nil}, nodeConf : SUBSET Signals]
    BY <1>13, <2>1 DEF InformerCatchesUp, TypeOK
  <2>3. queue' \subseteq Controllers
    BY <1>13, EnqueueType DEF InformerCatchesUp
  <2> QED
    BY <1>13, <2>2, <2>3 DEF InformerCatchesUp, TypeOK, api, used
<1>14. ASSUME SyncCollectorGroupReads PROVE TypeOK'
  <2>1. 0 \in 0 .. Retries - 1
    BY BoundsType
  <2>2. timer' \in Timers
    BY <1>14, <2>1 DEF SyncCollectorGroupReads, TypeOK, Timers
  <2> QED
    BY <1>14, <2>2 DEF SyncCollectorGroupReads, TypeOK, api, used
<1>15. ASSUME timer.step = "firing"
       PROVE  /\ timer \in [step : {"firing"}, signals : SUBSET Signals,
                            attempts : 0 .. Retries - 1]
              /\ timer.signals \subseteq Signals
              /\ timer.attempts \in 0 .. Retries - 1
  BY <1>15 DEF TypeOK, Timers
<1>16. idle \in Timers
  BY DEF idle, Timers
<1>17. ASSUME SyncCollectorGroupWrites PROVE TypeOK'
  <2>1. node' \in NodeGroups \cup {nil}
    BY <1>15, <1>17 DEF SyncCollectorGroupWrites, TypeOK, NodeGroups
  <2> QED
    BY <1>16, <1>17, <2>1 DEF SyncCollectorGroupWrites, TypeOK, used
<1>18. ASSUME SyncCollectorGroupFails PROVE TypeOK'
  <2>1. node' \in NodeGroups \cup {nil}
    BY <1>18 DEF SyncCollectorGroupFails, TypeOK, NodeGroups
  <2>2. ASSUME timer.attempts < Retries - 1 PROVE timer' \in Timers
    <3>1. timer.attempts + 1 \in 0 .. Retries - 1
      <4>1. timer.attempts \in 0 .. Retries - 1
        BY <1>15, <1>18 DEF SyncCollectorGroupFails
      <4> QED
        BY <2>2, <4>1, BoundsType
    <3>2. cache.nodeConf \subseteq Signals
      BY DEF TypeOK
    <3>3. timer' = [timer EXCEPT !.attempts = timer.attempts + 1, !.signals = cache.nodeConf]
      BY <1>18, <2>2 DEF SyncCollectorGroupFails
    <3>4. timer \in [step : {"firing"}, signals : SUBSET Signals, attempts : 0 .. Retries - 1]
      BY <1>15, <1>18 DEF SyncCollectorGroupFails
    <3>5. timer' \in [step : {"firing"}, signals : SUBSET Signals, attempts : 0 .. Retries - 1]
      BY <3>1, <3>2, <3>3, <3>4
    <3> QED
      BY <3>5 DEF Timers
  <2>3. timer' \in Timers
    BY <1>16, <1>18, <2>2 DEF SyncCollectorGroupFails
  <2> QED
    BY <1>18, <2>1, <2>3, CountsType DEF SyncCollectorGroupFails, TypeOK
<1>19. ASSUME GatewayIsReady PROVE TypeOK'
  <2>1. cluster' \in ClusterGroups
    BY <1>19 DEF GatewayIsReady, TypeOK, ClusterGroups
  <2> QED
    BY <1>19, <2>1, EnqueueType DEF GatewayIsReady, TypeOK, used
<1>20. ASSUME ChangeDestinations PROVE TypeOK'
  BY <1>20, EnqueueType, CountsType, CollectorsAssumption DEF ChangeDestinations, TypeOK
<1>21. ASSUME ChangeApps PROVE TypeOK'
  BY <1>21, EnqueueType, CountsType DEF ChangeApps, TypeOK
<1>22. ASSUME ChangeConf PROVE TypeOK'
  BY <1>22, EnqueueType, CountsType DEF ChangeConf, TypeOK
<1>23. ASSUME EditNodeConf PROVE TypeOK'
  BY <1>23, CountsType DEF EditNodeConf, TypeOK, Missed
<1>24. ASSUME EditGatewayConf PROVE TypeOK'
  <2>1. gatewayConf' \in GatewayConfs \cup {nil}
    BY <1>24 DEF EditGatewayConf, TypeOK, GatewayConfs
  <2> QED
    BY <1>24, <2>1, CountsType DEF EditGatewayConf, TypeOK, Missed
<1>25. ASSUME RestartAutoscaler PROVE TypeOK'
  <2>1. cache' \in [node : BOOLEAN, gatewayConf : GatewayConfs \cup {nil}, nodeConf : SUBSET Signals]
    BY <1>25 DEF RestartAutoscaler, TypeOK, Current
  <2>2. busy' \in [Controllers -> Plans \cup {nil}]
    BY <1>25 DEF RestartAutoscaler, TypeOK
  <2>3. queue' \subseteq Controllers
    BY <1>25, EnqueueType DEF RestartAutoscaler
  <2> QED
    BY <1>16, <1>25, <2>1, <2>2, <2>3, CountsType
       DEF RestartAutoscaler, TypeOK, api
<1>26. CASE UNCHANGED vars
  BY <1>26 DEF vars, TypeOK
<1> QED
  BY <1>1, <1>2, <1>3, <1>4, <1>5, <1>6, <1>7, <1>8, <1>9, <1>10, <1>11, <1>12, <1>13, <1>14,
     <1>17, <1>18, <1>19, <1>20, <1>21, <1>22, <1>23, <1>24, <1>25, <1>26
     DEF Next, Step, DelayedCall

\* Every variable keeps its type; the delayed call (syncDataCollection) never brings back,
\* half filled, a node group deleted while it waited.
THEOREM TypeCorrect == Spec => []TypeOK
BY TypeInit, TypeStep, PTL DEF Spec

-----------------------------------------------------------------------------
(* The node group waits for the gateway *)

\* The inductive form: no controller is about to create the group either, before the
\* gateway is ready.
GatewayFirst ==
    /\ NodeGroupWaitsForGateway
    /\ \A c \in Controllers : Does(c, "apply node group") => cluster.ready

\* What a step does to the plan of a controller: it keeps it, ends it, goes on to another
\* step than creating the group, or starts one that a ready gateway lets it create.
LEMMA NoNewApply ==
    ASSUME TypeOK, [Next]_vars, NEW c \in Controllers
    PROVE  \/ busy'[c] = busy[c]
           \/ busy'[c] = nil
           \/ busy'[c] # nil => busy'[c].do # "apply node group"
           \/ cluster.ready
<1>1. ASSUME NEW d, Done(d) PROVE busy'[c] = busy[c] \/ busy'[c] = nil
  BY <1>1 DEF Done, TypeOK
<1>2. ASSUME NEW d \in Controllers, NEW plan, Reads(d, plan)
      PROVE  busy'[c] = busy[c] \/ busy'[c] = plan
  BY <1>2 DEF Reads, TypeOK
<1>3. ASSUME NEW d \in Controllers, SyncClusterGroup(d)
      PROVE  busy'[c] = busy[c] \/ busy'[c].do # "apply node group"
  <2> DEFINE plan == [do |-> "apply cluster group", spec |-> conf]
  <2>1. plan.do # "apply node group" /\ Reads(d, plan)
    BY <1>3 DEF SyncClusterGroup
  <2> HIDE DEF plan
  <2> QED
    BY <1>2, <2>1
<1>4. ASSUME NEW d \in Controllers, SyncNodeGroup(d), ~cluster.ready
      PROVE  busy'[c] = busy[c] \/ busy'[c] = nil \/ busy'[c].do # "apply node group"
  <2> DEFINE plan == IF ~apps THEN [do |-> "delete node group"] ELSE nil
  <2>1. (plan = nil \/ plan.do # "apply node group") /\ Reads(d, plan)
    BY <1>4 DEF SyncNodeGroup
  <2> HIDE DEF plan
  <2> QED
    BY <1>2, <2>1
<1>5. ASSUME NEW d \in Controllers,
             ReconcileClusterCollector(d) \/ ReconcileNodeCollector(d)
      PROVE  busy'[c] = busy[c] \/ busy'[c].do # "apply node group"
  <2> DEFINE gateway == [do |-> "write gateway config", spec |-> cluster.spec,
                         signals |-> Taken]
             nodes == [do |-> "write node config",
                       signals |-> AgentPipelines(node, cluster.signals),
                       group |-> node # nil]
  <2>1. gateway.do # "apply node group" /\ nodes.do # "apply node group"
    OBVIOUS
  <2>2. Reads(d, gateway) \/ Reads(d, nodes)
    BY <1>5 DEF ReconcileClusterCollector, ReconcileNodeCollector
  <2> HIDE DEF gateway, nodes
  <2> QED
    BY <1>2, <2>1, <2>2
<1>6. ASSUME NEW d \in Controllers, SyncGatewayConfigMap(d)
      PROVE  busy'[c] = busy[c] \/ busy'[c] = nil \/ busy'[c].do # "apply node group"
  <2>1. [busy[d] EXCEPT !.do = "write gateway signals"].do = "write gateway signals"
    BY <1>6, BusyType, PlanKinds DEF SyncGatewayConfigMap, Does
  <2> QED
    BY <1>1, <1>6, <2>1, GatewayConfStep DEF Continue, TypeOK
<1>7. ASSUME NEW d \in Controllers, SyncNodeConfigMap(d)
      PROVE  busy'[c] = busy[c] \/ busy'[c].do # "apply node group"
  <2>1. [busy[d] EXCEPT !.do = "delay"].do = "delay"
    BY <1>7, BusyType, PlanKinds DEF SyncNodeConfigMap, Does
  <2> QED
    BY <1>7, <2>1 DEF SyncNodeConfigMap, Continue, TypeOK
<1>8. ASSUME NEW d \in Controllers,
             \/ ApplyClusterGroup(d) \/ ApplyNodeGroup(d) \/ DeleteNodeGroup(d)
             \/ UpdateGatewaySignals(d) \/ RunSyncDaemonSetWithDelay(d) \/ ReconcileFails(d)
      PROVE  busy'[c] = busy[c] \/ busy'[c] = nil
  BY <1>1, <1>8 DEF ApplyClusterGroup, ApplyNodeGroup, DeleteNodeGroup, UpdateGatewaySignals,
                    RunSyncDaemonSetWithDelay, ReconcileFails
<1>9. ASSUME RestartAutoscaler PROVE busy'[c] = busy[c] \/ busy'[c] = nil
  BY <1>9 DEF RestartAutoscaler
<1>10. ASSUME \/ \E o \in {"node", "gatewayConf", "nodeConf"} : InformerCatchesUp(o)
              \/ DelayedCall \/ SyncCollectorGroupFails \/ GatewayIsReady
              \/ ChangeDestinations \/ ChangeApps \/ ChangeConf
              \/ EditNodeConf \/ EditGatewayConf \/ UNCHANGED vars
       PROVE  busy'[c] = busy[c]
  BY <1>10 DEF InformerCatchesUp, DelayedCall, SyncCollectorGroupReads,
               SyncCollectorGroupWrites, SyncCollectorGroupFails, GatewayIsReady,
               ChangeDestinations, ChangeApps, ChangeConf, EditNodeConf, EditGatewayConf, vars
<1> QED
  BY <1>3, <1>4, <1>5, <1>6, <1>7, <1>8, <1>9, <1>10 DEF Next, Step

\* The cluster group is never less ready than before.
LEMMA StaysReady ==
    ASSUME TypeOK, [Next]_vars, cluster.ready
    PROVE  cluster'.ready
<1>1. ASSUME NEW c, ApplyClusterGroup(c) PROVE cluster'.ready
  BY <1>1 DEF ApplyClusterGroup, TypeOK, ClusterGroups
<1>2. ASSUME NEW c, UpdateGatewaySignals(c) PROVE cluster'.ready
  BY <1>2 DEF UpdateGatewaySignals, TypeOK, ClusterGroups
<1>3. CASE cluster' = cluster
  BY <1>3
<1>4. CASE GatewayIsReady
  BY <1>4 DEF GatewayIsReady
<1>5. ASSUME ~GatewayIsReady,
             \A c \in Controllers : ~ApplyClusterGroup(c) /\ ~UpdateGatewaySignals(c)
      PROVE  cluster' = cluster
  BY <1>5 DEF Next, Step, SyncClusterGroup, SyncNodeGroup, ApplyNodeGroup, DeleteNodeGroup,
     ReconcileClusterCollector, SyncGatewayConfigMap, ReconcileNodeCollector,
     SyncNodeConfigMap, RunSyncDaemonSetWithDelay, ReconcileFails, InformerCatchesUp,
     DelayedCall, SyncCollectorGroupReads, SyncCollectorGroupWrites, SyncCollectorGroupFails,
     ChangeDestinations, ChangeApps, ChangeConf, EditNodeConf, EditGatewayConf,
     RestartAutoscaler, Reads, api, vars
<1> QED
  BY <1>1, <1>2, <1>3, <1>4, <1>5

\* A step creates the node group only where a controller was about to.
LEMMA OnlyApplyCreates ==
    ASSUME TypeOK, [Next]_vars, node = nil, node' # nil
    PROVE  \E c \in Controllers : Does(c, "apply node group")
BY DEF Next, Step, SyncClusterGroup, ApplyClusterGroup, SyncNodeGroup, ApplyNodeGroup,
     DeleteNodeGroup, ReconcileClusterCollector, SyncGatewayConfigMap, UpdateGatewaySignals,
     ReconcileNodeCollector, SyncNodeConfigMap, RunSyncDaemonSetWithDelay, ReconcileFails,
     InformerCatchesUp, DelayedCall, SyncCollectorGroupReads, SyncCollectorGroupWrites,
     SyncCollectorGroupFails, GatewayIsReady, ChangeDestinations, ChangeApps, ChangeConf,
     EditNodeConf, EditGatewayConf, RestartAutoscaler, Reads, api, vars

\* The node group exists only once the gateway was ready: however the group controllers
\* (nodecollectorsgroup sync), the applies of the cluster group's spec and its status
\* patches interleave, no step creates the group earlier or takes the readiness back.
THEOREM NodeGroupCorrect == Spec => []NodeGroupWaitsForGateway
<1>1. Init => GatewayFirst
  <2> SUFFICES ASSUME Init PROVE GatewayFirst
    OBVIOUS
  <2>1. NodeGroupWaitsForGateway
    BY DEF Init, NodeGroupWaitsForGateway
  <2>2. \A c \in Controllers : busy[c] = nil
    BY DEF Init
  <2> QED
    BY <2>1, <2>2 DEF GatewayFirst, Does
<1>2. TypeOK /\ GatewayFirst /\ [Next]_vars => GatewayFirst'
  <2> SUFFICES ASSUME TypeOK, GatewayFirst, [Next]_vars PROVE GatewayFirst'
    OBVIOUS
  <2>1. NodeGroupWaitsForGateway'
    BY StaysReady, OnlyApplyCreates DEF GatewayFirst, NodeGroupWaitsForGateway
  <2>2. \A c \in Controllers : Does(c, "apply node group")' => cluster'.ready
    BY StaysReady, NoNewApply DEF GatewayFirst, Does
  <2> QED
    BY <2>1, <2>2 DEF GatewayFirst
<1>3. GatewayFirst => NodeGroupWaitsForGateway
  BY DEF GatewayFirst
<1> QED
  BY <1>1, <1>2, <1>3, TypeCorrect, PTL DEF Spec

-----------------------------------------------------------------------------
(* The node collectors never stay behind unnoticed *)

\* A controller is reconciling the node collectors.
NodePlan(c) == busy[c] # nil /\ busy[c].do \in {"write node config", "delay"}

Requested == queue \cap NodeControllers # {} \/ "nodeConf" \in missed

\* Somebody is on the way to run the delayed call.
Rolling == \E c \in Controllers : NodePlan(c) /\ busy[c].group

\* The ConfigMap has the pipelines it should have, or a controller is about to write
\* them, or one is about to look again.
ConfigCatchesUp ==
    \/ Requested
    \/ nodeConf = AgentPipelines(node, cluster.signals)
    \/ \E c \in Controllers : /\ Does(c, "write node config")
                              /\ busy[c].signals = AgentPipelines(node, cluster.signals)

\* The group's status says what the ConfigMap has, or the delayed call that runs is about
\* to write that, or a delayed call is still to come.
StatusCatchesUp ==
    node # nil =>
        \/ Requested \/ Rolling
        \/ timer.step = "set"
        \/ timer.step = "firing" /\ timer.signals = nodeConf
        \/ timer.step = "idle" /\ node.signals = nodeConf

CacheSeen == "nodeConf" \notin missed => cache.nodeConf = nodeConf

\* Only the node collectors' own controllers reconcile them.
PlansOwned == \A c \in Controllers : NodePlan(c) => c \in NodeControllers

AttemptsCounted == timer.step = "firing" => timer.attempts <= faults

\* The inductive form of NodeOutOfSyncIsPending: each of the stages between the gateway's
\* signals and the group's status is done, or some work that does it is under way.
NodeCatchesUp ==
    /\ ConfigCatchesUp /\ StatusCatchesUp
    /\ CacheSeen /\ PlansOwned /\ AttemptsCounted

\* The delayed call gives up after Retries failures in a row and leaves the status as it
\* was: fewer failures than that, or none of this kind, are assumed.
CallsSucceed == "delayed call fails" \notin Env \/ MaxFaults < Retries

\* A step that touches none of the stages keeps all of them.
LEMMA QuietStep ==
    ASSUME ConfigCatchesUp, StatusCatchesUp,
           node' = node, cluster'.signals = cluster.signals, nodeConf' = nodeConf,
           timer' = timer, queue \cap NodeControllers \subseteq queue',
           "nodeConf" \in missed => "nodeConf" \in missed',
           \A c \in Controllers : NodePlan(c) => busy'[c] = busy[c]
    PROVE  ConfigCatchesUp' /\ StatusCatchesUp'
<1>1. Requested => Requested'
  BY DEF Requested
<1>2. AgentPipelines(node, cluster.signals)' = AgentPipelines(node, cluster.signals)
  BY DEF AgentPipelines
<1>3. Rolling => Rolling'
  BY DEF Rolling, NodePlan
<1>4. ConfigCatchesUp'
  <2>1. CASE Requested
    BY <1>1, <2>1 DEF ConfigCatchesUp
  <2>2. CASE nodeConf = AgentPipelines(node, cluster.signals)
    BY <1>2, <2>2 DEF ConfigCatchesUp
  <2>3. ASSUME NEW c \in Controllers, Does(c, "write node config"),
               busy[c].signals = AgentPipelines(node, cluster.signals)
        PROVE  ConfigCatchesUp'
    <3>1. busy'[c] = busy[c]
      BY <2>3 DEF NodePlan, Does
    <3>2. Does(c, "write node config")'
      BY <2>3, <3>1 DEF Does
    <3> QED
      BY <1>2, <2>3, <3>1, <3>2 DEF ConfigCatchesUp
  <2> QED
    BY <2>1, <2>2, <2>3 DEF ConfigCatchesUp
<1>5. StatusCatchesUp'
  BY <1>1, <1>3 DEF StatusCatchesUp
<1> QED
  BY <1>4, <1>5

\* A request for a node controller is enough.
LEMMA RequestedSuffices ==
    ASSUME Requested'
    PROVE  ConfigCatchesUp' /\ StatusCatchesUp'
BY DEF ConfigCatchesUp, StatusCatchesUp

\* Whoever asks for the controller of the groups, or of the ConfigMap, is heard.
LEMMA EnqueueRequests ==
    ASSUME NEW cs, Enqueue(cs), "node-groups" \in cs \/ "node-configmap" \in cs
    PROVE  Requested'
<1>1. /\ "node-groups" \in Controllers \cap NodeControllers
      /\ "node-configmap" \in Controllers \cap NodeControllers
  BY CollectorsAssumption DEF NodeControllers
<1> QED
  BY <1>1 DEF Enqueue, Requested

\* The controllers that do not reconcile the node collectors, and their environment, leave
\* the stages alone or ask for the node collectors to be reconciled.
LEMMA OthersCatchUp ==
    ASSUME TypeOK, ConfigCatchesUp, StatusCatchesUp, NEW c \in Controllers,
           \/ SyncClusterGroup(c) \/ ApplyClusterGroup(c) \/ SyncNodeGroup(c)
           \/ ApplyNodeGroup(c) \/ DeleteNodeGroup(c) \/ ReconcileClusterCollector(c)
           \/ SyncGatewayConfigMap(c) \/ UpdateGatewaySignals(c)
    PROVE  ConfigCatchesUp' /\ StatusCatchesUp'
<1>1. ASSUME Does(c, "apply cluster group") \/ Does(c, "apply node group")
                \/ Does(c, "delete node group"),
             Done(c)
      PROVE  \A d \in Controllers : NodePlan(d) => busy'[d] = busy[d]
  BY <1>1 DEF Does, NodePlan, Done, TypeOK
<1>2. ASSUME NEW plan, c \notin NodeControllers, Reads(c, plan)
      PROVE  ConfigCatchesUp' /\ StatusCatchesUp'
  <2>1. \A d \in Controllers : NodePlan(d) => busy'[d] = busy[d]
    BY <1>2 DEF Reads, NodePlan, TypeOK
  <2>2. queue \cap NodeControllers \subseteq queue'
    BY <1>2 DEF Reads
  <2> QED
    BY <1>2, <2>1, <2>2, QuietStep DEF Reads, api
<1>3. CASE SyncClusterGroup(c) \/ SyncNodeGroup(c) \/ ReconcileClusterCollector(c)
  <2>1. c \notin NodeControllers
    BY <1>3 DEF SyncClusterGroup, SyncNodeGroup, ReconcileClusterCollector, NodeControllers,
       ClusterGroupControllers, NodeGroupControllers, GatewayControllers
  <2>2. \E plan : Reads(c, plan)
    BY <1>3 DEF SyncClusterGroup, SyncNodeGroup, ReconcileClusterCollector
  <2> QED
    BY <1>2, <2>1, <2>2
<1>4. CASE ApplyClusterGroup(c)
  <2>1. cluster'.signals = cluster.signals
    BY <1>4 DEF ApplyClusterGroup, TypeOK, ClusterGroups
  <2>2. queue \cap NodeControllers \subseteq queue'
    BY <1>4 DEF ApplyClusterGroup, Enqueue
  <2> QED
    BY <1>1, <1>4, <2>1, <2>2, QuietStep DEF ApplyClusterGroup
<1>5. CASE (ApplyNodeGroup(c) \/ DeleteNodeGroup(c)) /\ node' # node
  <2>1. Enqueue(OnSpec)
    BY <1>5 DEF ApplyNodeGroup, DeleteNodeGroup
  <2> QED
    BY <2>1, EnqueueRequests, RequestedSuffices DEF OnSpec
<1>6. CASE (ApplyNodeGroup(c) \/ DeleteNodeGroup(c)) /\ node' = node
  <2>1. \A d \in Controllers : NodePlan(d) => busy'[d] = busy[d]
    BY <1>1, <1>6 DEF ApplyNodeGroup, DeleteNodeGroup
  <2>2. queue \cap NodeControllers \subseteq queue'
    BY <1>6 DEF ApplyNodeGroup, DeleteNodeGroup, Enqueue
  <2>3. "nodeConf" \in missed => "nodeConf" \in missed'
    BY <1>6 DEF ApplyNodeGroup, DeleteNodeGroup, Missed
  <2> QED
    BY <1>6, <2>1, <2>2, <2>3, QuietStep DEF ApplyNodeGroup, DeleteNodeGroup
<1>7. CASE SyncGatewayConfigMap(c)
  <2>1. \A d \in Controllers : NodePlan(d) => busy'[d] = busy[d]
    BY <1>7, GatewayConfStep DEF Does, NodePlan, Continue, Done, TypeOK
  <2>2. "nodeConf" \in missed => "nodeConf" \in missed'
    BY <1>7, GatewayConfStep
  <2>3. queue \cap NodeControllers \subseteq queue'
    BY <1>7, GatewayConfStep DEF Enqueue
  <2> QED
    BY <1>7, <2>1, <2>2, <2>3, GatewayConfStep, QuietStep
<1>8. CASE UpdateGatewaySignals(c)
  BY <1>8, EnqueueRequests, RequestedSuffices DEF UpdateGatewaySignals, OnClusterStatus
<1> QED
  BY <1>3, <1>4, <1>5, <1>6, <1>7, <1>8

\* So do the users, the informers, failing reconciles and a restart.
LEMMA EnvironmentCatchesUp ==
    ASSUME TypeOK, ConfigCatchesUp, StatusCatchesUp, PlansOwned,
           \/ \E c \in Controllers : ReconcileFails(c)
           \/ \E o \in {"node", "gatewayConf", "nodeConf"} : InformerCatchesUp(o)
           \/ GatewayIsReady
           \/ ChangeDestinations \/ ChangeApps \/ ChangeConf \/ EditNodeConf \/ EditGatewayConf
           \/ RestartAutoscaler
           \/ UNCHANGED vars
    PROVE  ConfigCatchesUp' /\ StatusCatchesUp'
<1>1. ASSUME NEW cs, Enqueue(cs) PROVE queue \cap NodeControllers \subseteq queue'
  BY <1>1 DEF Enqueue
<1>2. ASSUME NEW c \in Controllers, ReconcileFails(c)
      PROVE  ConfigCatchesUp' /\ StatusCatchesUp'
  <2>1. CASE c \in NodeControllers
    <3>1. c \in queue'
      BY <1>2 DEF ReconcileFails, Enqueue
    <3> QED
      BY <2>1, <3>1, RequestedSuffices DEF Requested
  <2>2. CASE c \notin NodeControllers
    <3>1. \A d \in Controllers : NodePlan(d) => busy'[d] = busy[d]
      BY <1>2, <2>2 DEF ReconcileFails, Done, PlansOwned, TypeOK
    <3>2. queue \cap NodeControllers \subseteq queue'
      BY <1>1, <1>2 DEF ReconcileFails
    <3> QED
      BY <1>2, <3>1, <3>2, QuietStep DEF ReconcileFails, api
  <2> QED
    BY <2>1, <2>2
<1>3. ASSUME InformerCatchesUp("nodeConf") PROVE ConfigCatchesUp' /\ StatusCatchesUp'
  <2>1. Enqueue({"node-configmap"})
    BY <1>3 DEF InformerCatchesUp, OnSeen
  <2> QED
    BY <2>1, EnqueueRequests, RequestedSuffices
<1>4. ASSUME InformerCatchesUp("node") \/ InformerCatchesUp("gatewayConf")
      PROVE  ConfigCatchesUp' /\ StatusCatchesUp'
  BY <1>1, <1>4, QuietStep DEF InformerCatchesUp, api
<1>5. CASE GatewayIsReady
  <2>1. cluster'.signals = cluster.signals
    BY <1>5 DEF GatewayIsReady, TypeOK, ClusterGroups
  <2> QED
    BY <1>1, <1>5, <2>1, QuietStep DEF GatewayIsReady
<1>6. CASE ChangeDestinations \/ ChangeApps \/ ChangeConf
  BY <1>1, <1>6, QuietStep DEF ChangeDestinations, ChangeApps, ChangeConf
<1>7. CASE EditNodeConf
  BY <1>7, RequestedSuffices DEF EditNodeConf, Missed, Requested
<1>8. CASE EditGatewayConf
  <2>1. "nodeConf" \in missed => "nodeConf" \in missed'
    BY <1>8 DEF EditGatewayConf, Missed
  <2> QED
    BY <1>8, <2>1, QuietStep DEF EditGatewayConf
<1>9. CASE RestartAutoscaler
  BY <1>9, EnqueueRequests, RequestedSuffices DEF RestartAutoscaler, NodeControllers
<1>10. CASE UNCHANGED vars
  BY <1>10, QuietStep DEF vars
<1> QED
  BY <1>2, <1>3, <1>4, <1>5, <1>6, <1>7, <1>8, <1>9, <1>10

\* A reconcile of the node collectors reads what they should have, writes it, and sees to
\* it that the delayed call runs.
LEMMA NodeControllersCatchUp ==
    ASSUME TypeOK, ConfigCatchesUp, StatusCatchesUp, NEW c \in Controllers,
           ReconcileNodeCollector(c) \/ SyncNodeConfigMap(c) \/ RunSyncDaemonSetWithDelay(c)
    PROVE  ConfigCatchesUp' /\ StatusCatchesUp'
<1>1. CASE ReconcileNodeCollector(c)
  <2> DEFINE plan == [do |-> "write node config",
                      signals |-> AgentPipelines(node, cluster.signals), group |-> node # nil]
  <2>1. /\ plan # nil
        /\ plan.do = "write node config" /\ plan.group = (node # nil)
        /\ plan.signals = AgentPipelines(node, cluster.signals)
    BY StartPlans, NilAssumption
  <2>2. Reads(c, plan)
    BY <1>1 DEF ReconcileNodeCollector
  <2> HIDE DEF plan
  <2>3. busy'[c] = plan
    BY <2>2 DEF Reads, TypeOK
  <2>4. AgentPipelines(node, cluster.signals)' = AgentPipelines(node, cluster.signals)
    BY <2>2 DEF Reads, api, AgentPipelines
  <2>5. Does(c, "write node config")' /\ busy'[c].signals = AgentPipelines(node, cluster.signals)
    BY <2>1, <2>3 DEF Does
  <2>6. ConfigCatchesUp'
    BY <2>4, <2>5 DEF ConfigCatchesUp
  <2>7. node' # nil => Rolling'
    BY <2>1, <2>2, <2>3 DEF Rolling, NodePlan, Reads, api
  <2> QED
    BY <2>6, <2>7 DEF StatusCatchesUp
<1>2. CASE SyncNodeConfigMap(c)
  <2>1. busy[c] \in Plans /\ busy[c].do = "write node config"
    BY <1>2, BusyType DEF SyncNodeConfigMap, Does
  <2>2. /\ busy'[c] # nil /\ busy'[c].do = "delay" /\ busy'[c].group = busy[c].group
        /\ \A d \in Controllers \ {c} : busy'[d] = busy[d]
    <3>1. busy'[c] = [busy[c] EXCEPT !.do = "delay"]
      BY <1>2 DEF SyncNodeConfigMap, Continue, TypeOK
    <3>2. \A d \in Controllers \ {c} : busy'[d] = busy[d]
      BY <1>2 DEF SyncNodeConfigMap, Continue, TypeOK
    <3> QED
      BY <2>1, <3>1, <3>2, PlanKinds
  <2>3. CASE nodeConf' # nodeConf
    BY <1>2, <2>3, RequestedSuffices DEF SyncNodeConfigMap, Missed, Requested
  <2>4. CASE nodeConf' = nodeConf
    <3>1. Requested => Requested'
      BY <1>2, <2>4 DEF SyncNodeConfigMap, Missed, Requested
    <3>2. Rolling => Rolling'
      BY <2>2 DEF Rolling, NodePlan
    <3>3. StatusCatchesUp'
      BY <1>2, <2>4, <3>1, <3>2 DEF StatusCatchesUp, SyncNodeConfigMap
    <3>4. AgentPipelines(node, cluster.signals)' = AgentPipelines(node, cluster.signals)
      BY <1>2 DEF SyncNodeConfigMap, AgentPipelines
    <3>5. ASSUME NEW d \in Controllers, Does(d, "write node config"),
                 busy[d].signals = AgentPipelines(node, cluster.signals)
          PROVE  ConfigCatchesUp'
      <4>1. CASE d = c
        BY <1>2, <3>4, <3>5, <4>1 DEF SyncNodeConfigMap, ConfigCatchesUp
      <4>2. CASE d # c
        <5>1. busy'[d] = busy[d]
          BY <2>2, <4>2
        <5>2. Does(d, "write node config")'
          BY <3>5, <5>1 DEF Does
        <5> QED
          BY <3>4, <3>5, <5>1, <5>2 DEF ConfigCatchesUp
      <4> QED
        BY <4>1, <4>2
    <3>6. ConfigCatchesUp'
      BY <2>4, <3>1, <3>4, <3>5 DEF ConfigCatchesUp
    <3> QED
      BY <3>3, <3>6
  <2> QED
    BY <2>3, <2>4
<1>3. CASE RunSyncDaemonSetWithDelay(c)
  <2>1. /\ busy[c].do = "delay" /\ busy[c].group \in BOOLEAN
        /\ \A d \in Controllers \ {c} : busy'[d] = busy[d]
    BY <1>3, BusyType, PlanKinds DEF RunSyncDaemonSetWithDelay, Does, Done, TypeOK
  <2>2. AgentPipelines(node, cluster.signals)' = AgentPipelines(node, cluster.signals)
    BY <1>3 DEF RunSyncDaemonSetWithDelay, api, AgentPipelines
  <2>3. Requested' = Requested
    BY <1>3 DEF RunSyncDaemonSetWithDelay, Requested
  <2>4. ASSUME NEW d \in Controllers, Does(d, "write node config"),
               busy[d].signals = AgentPipelines(node, cluster.signals)
        PROVE  ConfigCatchesUp'
    <3>1. busy'[d] = busy[d]
      BY <2>1, <2>4 DEF Does
    <3>2. Does(d, "write node config")'
      BY <2>4, <3>1 DEF Does
    <3> QED
      BY <2>2, <2>4, <3>1, <3>2 DEF ConfigCatchesUp
  <2>5. ConfigCatchesUp'
    BY <1>3, <2>2, <2>3, <2>4 DEF ConfigCatchesUp, RunSyncDaemonSetWithDelay, api
  <2>6. CASE busy[c].group
    <3>1. timer.step \in {"idle", "set", "firing"}
      BY DEF TypeOK, Timers
    <3>2. timer.step = "idle" => timer = idle
      BY DEF TypeOK, Timers, idle
    <3>3. timer'.step = "set"
      BY <1>3, <2>6, <3>1, <3>2 DEF RunSyncDaemonSetWithDelay
    <3> QED
      BY <2>5, <3>3 DEF StatusCatchesUp
  <2>7. CASE ~busy[c].group
    <3>1. timer' = timer
      BY <1>3, <2>7 DEF RunSyncDaemonSetWithDelay
    <3>2. Rolling => Rolling'
      BY <2>1, <2>7 DEF Rolling, NodePlan
    <3> QED
      BY <1>3, <2>3, <2>5, <3>1, <3>2 DEF StatusCatchesUp, RunSyncDaemonSetWithDelay, api
  <2> QED
    BY <2>6, <2>7
<1> QED
  BY <1>1, <1>2, <1>3

\* The delayed call reports the cached ConfigMap: the current one, or one whose successor
\* the informer has yet to see.
LEMMA DelayedCallCatchesUp ==
    ASSUME TypeOK, ConfigCatchesUp, StatusCatchesUp, CacheSeen, AttemptsCounted, CallsSucceed,
           DelayedCall \/ SyncCollectorGroupFails
    PROVE  ConfigCatchesUp' /\ StatusCatchesUp'
<1>1. /\ Requested' = Requested
      /\ Rolling' = Rolling
      /\ nodeConf' = nodeConf
      /\ \A c \in Controllers : busy'[c] = busy[c]
      /\ cluster' = cluster
  BY DEF DelayedCall, SyncCollectorGroupReads, SyncCollectorGroupWrites,
     SyncCollectorGroupFails, Requested, Rolling, NodePlan, api
<1>2. AgentPipelines(node, cluster.signals)' = AgentPipelines(node, cluster.signals)
  <2>1. node' = nil <=> node = nil
    <3>1. ASSUME node # nil, NEW s \in SUBSET Signals
          PROVE  /\ [node EXCEPT !.signals = s, !.ready = TRUE] \in NodeGroups
                 /\ [node EXCEPT !.ready = TRUE] \in NodeGroups
      BY <3>1 DEF TypeOK, NodeGroups
    <3>2. timer.step = "firing" => timer.signals \in SUBSET Signals
      BY DEF TypeOK, Timers
    <3>3. nil \notin NodeGroups
      BY NilAssumption
    <3>4. CASE SyncCollectorGroupReads
      BY <3>4 DEF SyncCollectorGroupReads, api
    <3>5. CASE SyncCollectorGroupWrites
      BY <3>1, <3>2, <3>3, <3>5 DEF SyncCollectorGroupWrites
    <3>6. CASE SyncCollectorGroupFails
      BY <3>1, <3>3, <3>6 DEF SyncCollectorGroupFails
    <3> QED
      BY <3>4, <3>5, <3>6 DEF DelayedCall
  <2>2. ASSUME node # nil PROVE node'.spec = node.spec
    <3>1. /\ [node EXCEPT !.signals = timer.signals, !.ready = TRUE].spec = node.spec
          /\ [node EXCEPT !.ready = TRUE].spec = node.spec
      BY <2>2 DEF TypeOK, NodeGroups
    <3> QED
      BY <2>2, <3>1 DEF DelayedCall, SyncCollectorGroupReads, SyncCollectorGroupWrites,
         SyncCollectorGroupFails, api
  <2> QED
    BY <1>1, <2>1, <2>2 DEF AgentPipelines
<1>3. ConfigCatchesUp'
  BY <1>1, <1>2 DEF ConfigCatchesUp, Does
<1>4. ASSUME SyncCollectorGroupReads PROVE StatusCatchesUp'
  <2>1. timer'.step = "firing" /\ timer'.signals = cache.nodeConf
    BY <1>4 DEF SyncCollectorGroupReads
  <2> QED
    BY <1>1, <2>1 DEF StatusCatchesUp, CacheSeen, Requested
<1>5. ASSUME SyncCollectorGroupWrites PROVE StatusCatchesUp'
  <2>1. timer'.step = "idle" /\ timer.step = "firing"
    BY <1>5 DEF SyncCollectorGroupWrites, idle
  <2>2. node' # nil => node # nil /\ node'.signals = timer.signals
    BY <1>5 DEF SyncCollectorGroupWrites, TypeOK, NodeGroups
  <2> QED
    BY <1>1, <2>1, <2>2 DEF StatusCatchesUp
<1>6. ASSUME SyncCollectorGroupFails PROVE StatusCatchesUp'
  <2>1. timer.attempts < Retries - 1
    <3> DEFINE attempts == timer.attempts
    <3>1. "delayed call fails" \in Env /\ timer.step = "firing"
      BY <1>6 DEF SyncCollectorGroupFails, Fault
    <3>2. attempts \in 0 .. Retries - 1 /\ faults \in 0 .. MaxFaults
      BY <3>1 DEF TypeOK, Timers
    <3>3. attempts <= faults /\ MaxFaults < Retries
      BY <3>1 DEF CallsSucceed, AttemptsCounted
    <3>4. faults < MaxFaults
      BY <1>6 DEF SyncCollectorGroupFails, Fault
    <3> HIDE DEF attempts
    <3>5. attempts < Retries - 1
      BY <3>2, <3>3, <3>4, BoundsType
    <3> QED
      BY <3>5 DEF attempts
  <2>2. /\ timer' = [timer EXCEPT !.attempts = timer.attempts + 1, !.signals = cache.nodeConf]
        /\ node' = node
    BY <1>6, <2>1 DEF SyncCollectorGroupFails
  <2>3. timer'.step = "firing" /\ timer'.signals = cache.nodeConf
    <3>1. timer \in [step : {"firing"}, signals : SUBSET Signals, attempts : 0 .. Retries - 1]
      BY <1>6 DEF SyncCollectorGroupFails, TypeOK, Timers
    <3> QED
      BY <2>2, <3>1
  <2> QED
    BY <1>1, <2>2, <2>3 DEF StatusCatchesUp, CacheSeen, Requested
<1> QED
  BY <1>3, <1>4, <1>5, <1>6 DEF DelayedCall

\* The informer's copy of the ConfigMap is current, or it has a change to see.
LEMMA CacheSeenStep ==
    ASSUME TypeOK, CacheSeen, [Next]_vars
    PROVE  CacheSeen'
<1>1. ASSUME nodeConf' = nodeConf, cache'.nodeConf = cache.nodeConf,
             "nodeConf" \in missed => "nodeConf" \in missed'
      PROVE  CacheSeen'
  BY <1>1 DEF CacheSeen
<1>2. ASSUME NEW c \in Controllers, Step(c), ~SyncNodeConfigMap(c) PROVE CacheSeen'
  BY <1>1, <1>2 DEF Step, SyncClusterGroup, ApplyClusterGroup, SyncNodeGroup, ApplyNodeGroup,
     DeleteNodeGroup, ReconcileClusterCollector, SyncGatewayConfigMap, UpdateGatewaySignals,
     ReconcileNodeCollector, RunSyncDaemonSetWithDelay, Reads, Missed, api
<1>3. ASSUME NEW c \in Controllers, SyncNodeConfigMap(c) PROVE CacheSeen'
  BY <1>3 DEF SyncNodeConfigMap, Missed, CacheSeen
<1>4. ASSUME NEW o \in {"node", "gatewayConf", "nodeConf"}, InformerCatchesUp(o)
      PROVE  CacheSeen'
  <2>1. CASE o = "nodeConf"
    <3>1. cache'.nodeConf = Current.nodeConf
      BY <1>4, <2>1 DEF InformerCatchesUp, TypeOK
    <3> QED
      BY <1>4, <3>1 DEF InformerCatchesUp, Current, CacheSeen, api
  <2>2. CASE o # "nodeConf"
    <3>1. cache'.nodeConf = cache.nodeConf
      BY <1>4, <2>2 DEF InformerCatchesUp, TypeOK
    <3> QED
      BY <1>1, <1>4, <2>2, <3>1 DEF InformerCatchesUp, api
  <2> QED
    BY <2>1, <2>2
<1>5. CASE EditNodeConf
  BY <1>5 DEF EditNodeConf, Missed, CacheSeen
<1>6. CASE RestartAutoscaler
  <2>1. cache'.nodeConf = nodeConf
    BY <1>6 DEF RestartAutoscaler, Current
  <2> QED
    BY <1>6, <2>1 DEF RestartAutoscaler, CacheSeen, api
<1>7. CASE \/ \E c \in Controllers : ReconcileFails(c)
           \/ DelayedCall \/ SyncCollectorGroupFails \/ GatewayIsReady
           \/ ChangeDestinations \/ ChangeApps \/ ChangeConf \/ EditGatewayConf
           \/ UNCHANGED vars
  BY <1>1, <1>7 DEF ReconcileFails, DelayedCall, SyncCollectorGroupReads,
     SyncCollectorGroupWrites, SyncCollectorGroupFails, GatewayIsReady, ChangeDestinations,
     ChangeApps, ChangeConf, EditGatewayConf, Missed, api, vars
<1> QED
  BY <1>2, <1>3, <1>4, <1>5, <1>6, <1>7 DEF Next

\* No other controller takes over a reconcile of the node collectors.
LEMMA PlansOwnedStep ==
    ASSUME TypeOK, PlansOwned, [Next]_vars
    PROVE  PlansOwned'
<1> SUFFICES ASSUME NEW c \in Controllers, NodePlan(c)' PROVE c \in NodeControllers
  BY DEF PlansOwned
<1>1. CASE busy'[c] = busy[c]
  BY <1>1 DEF NodePlan, PlansOwned
<1>2. ASSUME NEW d, Done(d) PROVE busy'[c] = busy[c]
  BY <1>2 DEF Done, NodePlan, TypeOK
<1>3. ASSUME NEW d \in Controllers, NEW plan, Reads(d, plan)
      PROVE  busy'[c] = busy[c] \/ busy'[c] = plan
  BY <1>3 DEF Reads, TypeOK
<1>4. ASSUME NEW d \in Controllers, SyncClusterGroup(d) \/ ReconcileClusterCollector(d)
      PROVE  busy'[c] = busy[c]
  <2> DEFINE group == [do |-> "apply cluster group", spec |-> conf]
             config == [do |-> "write gateway config", spec |-> cluster.spec,
                        signals |-> Taken]
  <2>1. /\ group.do \notin {"write node config", "delay"}
        /\ config.do \notin {"write node config", "delay"}
    OBVIOUS
  <2>2. Reads(d, group) \/ Reads(d, config)
    BY <1>4 DEF SyncClusterGroup, ReconcileClusterCollector
  <2> HIDE DEF group, config
  <2> QED
    BY <1>3, <2>1, <2>2 DEF NodePlan
<1>5. ASSUME NEW d \in Controllers, SyncNodeGroup(d) PROVE busy'[c] = busy[c]
  <2> DEFINE plan == IF ~apps THEN [do |-> "delete node group"]
                     ELSE IF cluster.ready
                          THEN [do |-> "apply node group", spec |-> NewNodeCollectorGroup]
                          ELSE nil
  <2>1. plan = nil \/ plan.do \notin {"write node config", "delay"}
    OBVIOUS
  <2>2. Reads(d, plan)
    BY <1>5 DEF SyncNodeGroup
  <2> HIDE DEF plan
  <2> QED
    BY <1>3, <2>1, <2>2 DEF NodePlan
<1>6. ASSUME NEW d \in Controllers, ReconcileNodeCollector(d)
      PROVE  busy'[c] = busy[c] \/ c \in NodeControllers
  BY <1>6 DEF ReconcileNodeCollector, Reads, TypeOK
<1>7. ASSUME NEW d \in Controllers, SyncGatewayConfigMap(d) PROVE busy'[c] = busy[c]
  <2>1. [busy[d] EXCEPT !.do = "write gateway signals"].do = "write gateway signals"
    BY <1>7, BusyType, PlanKinds DEF SyncGatewayConfigMap, Does
  <2> QED
    BY <1>2, <1>7, <2>1, GatewayConfStep DEF Continue, NodePlan, TypeOK
<1>8. ASSUME NEW d \in Controllers, SyncNodeConfigMap(d)
      PROVE  busy'[c] = busy[c] \/ c \in NodeControllers
  <2>1. d \in NodeControllers
    BY <1>8 DEF SyncNodeConfigMap, Does, PlansOwned, NodePlan
  <2> QED
    BY <1>8, <2>1 DEF SyncNodeConfigMap, Continue, TypeOK
<1>9. ASSUME NEW d \in Controllers,
             \/ ApplyClusterGroup(d) \/ ApplyNodeGroup(d) \/ DeleteNodeGroup(d)
             \/ UpdateGatewaySignals(d) \/ RunSyncDaemonSetWithDelay(d) \/ ReconcileFails(d)
      PROVE  busy'[c] = busy[c]
  BY <1>2, <1>9 DEF ApplyClusterGroup, ApplyNodeGroup, DeleteNodeGroup, UpdateGatewaySignals,
                    RunSyncDaemonSetWithDelay, ReconcileFails
<1>10. ASSUME RestartAutoscaler PROVE busy'[c] = busy[c]
  BY <1>10 DEF RestartAutoscaler, NodePlan
<1>11. ASSUME \/ \E o \in {"node", "gatewayConf", "nodeConf"} : InformerCatchesUp(o)
              \/ DelayedCall \/ SyncCollectorGroupFails \/ GatewayIsReady
              \/ ChangeDestinations \/ ChangeApps \/ ChangeConf
              \/ EditNodeConf \/ EditGatewayConf \/ UNCHANGED vars
       PROVE  busy'[c] = busy[c]
  BY <1>11 DEF InformerCatchesUp, DelayedCall, SyncCollectorGroupReads,
               SyncCollectorGroupWrites, SyncCollectorGroupFails, GatewayIsReady,
               ChangeDestinations, ChangeApps, ChangeConf, EditNodeConf, EditGatewayConf, vars
<1> QED
  BY <1>1, <1>4, <1>5, <1>6, <1>7, <1>8, <1>9, <1>10, <1>11 DEF Next, Step

\* Each attempt of the delayed call that failed was counted.
LEMMA AttemptsStep ==
    ASSUME TypeOK, AttemptsCounted, [Next]_vars
    PROVE  AttemptsCounted'
<1>1. faults \in Nat
  BY BoundsType DEF TypeOK
<1>2. faults' \in {faults, faults + 1}
  BY DEF Next, Step, SyncClusterGroup, ApplyClusterGroup, SyncNodeGroup, ApplyNodeGroup,
     DeleteNodeGroup, ReconcileClusterCollector, SyncGatewayConfigMap, UpdateGatewaySignals,
     ReconcileNodeCollector, SyncNodeConfigMap, RunSyncDaemonSetWithDelay, ReconcileFails,
     InformerCatchesUp, DelayedCall, SyncCollectorGroupReads, SyncCollectorGroupWrites,
     SyncCollectorGroupFails, GatewayIsReady, ChangeDestinations, ChangeApps, ChangeConf,
     EditNodeConf, EditGatewayConf, RestartAutoscaler, Reads, Change, Fault, used, vars
<1>3. timer.step = "firing" => timer.attempts \in Nat
  BY BoundsType DEF TypeOK, Timers
<1>4. CASE timer' = timer
  BY <1>1, <1>2, <1>3, <1>4 DEF AttemptsCounted
<1>5. CASE timer'.step # "firing"
  BY <1>5 DEF AttemptsCounted
<1>6. CASE SyncCollectorGroupReads
  <2>1. timer'.attempts = 0
    BY <1>6 DEF SyncCollectorGroupReads
  <2> QED
    BY <1>1, <1>2, <2>1 DEF AttemptsCounted
<1>7. CASE SyncCollectorGroupFails
  <2>1. timer.step = "firing" /\ faults' = faults + 1
    BY <1>7 DEF SyncCollectorGroupFails, Fault
  <2>2. CASE timer' = [timer EXCEPT !.attempts = timer.attempts + 1, !.signals = cache.nodeConf]
    <3>1. timer \in [step : {"firing"}, signals : SUBSET Signals, attempts : 0 .. Retries - 1]
      BY <2>1 DEF TypeOK, Timers
    <3>2. timer'.attempts = timer.attempts + 1
      BY <2>2, <3>1
    <3> QED
      BY <1>1, <1>3, <2>1, <3>2 DEF AttemptsCounted
  <2>3. CASE timer' = idle
    BY <1>5, <2>3 DEF idle
  <2> QED
    BY <1>7, <2>2, <2>3 DEF SyncCollectorGroupFails
<1>8. ASSUME ~SyncCollectorGroupReads, ~SyncCollectorGroupFails
      PROVE  timer' = timer \/ timer'.step # "firing"
  <2>1. timer' \in {timer, [step |-> "set"], idle}
    BY <1>8 DEF Next, Step, SyncClusterGroup, ApplyClusterGroup, SyncNodeGroup,
       ApplyNodeGroup, DeleteNodeGroup, ReconcileClusterCollector, SyncGatewayConfigMap,
       UpdateGatewaySignals, ReconcileNodeCollector, SyncNodeConfigMap,
       RunSyncDaemonSetWithDelay, ReconcileFails, InformerCatchesUp, DelayedCall,
       SyncCollectorGroupWrites, GatewayIsReady, ChangeDestinations, ChangeApps, ChangeConf,
       EditNodeConf, EditGatewayConf, RestartAutoscaler, Reads, vars
  <2> QED
    BY <2>1 DEF idle
<1> QED
  BY <1>4, <1>5, <1>6, <1>7, <1>8

\* The stages are done at first.
LEMMA NodeCatchesUpInit == Init => NodeCatchesUp
<1> SUFFICES ASSUME Init PROVE NodeCatchesUp
  OBVIOUS
<1>1. nodeConf = AgentPipelines(node, cluster.signals)
  BY DEF Init
<1>2. node # nil => node.signals = nodeConf
  <2> SUFFICES ASSUME node # nil PROVE node.signals = AgentPipelines(node, Taken)
    BY DEF Init
  <2> DEFINE spec == NewNodeCollectorGroup
             pipelines == AgentPipelines([spec |-> NewNodeCollectorGroup], Taken)
  <2>1. node = [spec |-> spec, ready |-> TRUE, signals |-> pipelines]
    BY DEF Init
  <2>2. [spec |-> spec] # nil
    <3>1. spec \in NodeSpecs
      BY DEF NewNodeCollectorGroup, NodeSpecs
    <3> HIDE DEF spec
    <3> QED
      BY <3>1, NilAssumption
  <2>3. pipelines = AgentPipelines(node, Taken)
    <3>1. node.spec = spec
      BY <2>1
    <3>2. [spec |-> spec].spec = spec
      OBVIOUS
    <3> HIDE DEF spec
    <3>3. \A s \in SUBSET Signals :
              AgentPipelines([spec |-> spec], s) = AgentPipelines(node, s)
      BY <2>2, <3>1, <3>2 DEF AgentPipelines
    <3> QED
      BY <3>3 DEF Taken, spec
  <2> QED
    BY <2>1, <2>3
<1>3. timer.step = "idle" /\ missed = {} /\ \A c \in Controllers : busy[c] = nil
  BY DEF Init, idle
<1>4. cache.nodeConf = nodeConf
  BY DEF Init
<1> QED
  BY <1>1, <1>2, <1>3, <1>4 DEF NodeCatchesUp, ConfigCatchesUp, StatusCatchesUp, CacheSeen,
     PlansOwned, AttemptsCounted, NodePlan

\* When the node group's signals are not the gateway's, a node collector controller has a
\* request or a reconcile under way, the delayed call is set or runs, or the informer has
\* a ConfigMap to see, which is a request: for every interleaving of the controllers, the
\* DelayManager and the informer, restarts and failed reconciles included.
THEOREM NodeSyncCorrect ==
    ASSUME CallsSucceed
    PROVE  Spec => []NodeOutOfSyncIsPending
<1>1. TypeOK /\ NodeCatchesUp /\ [Next]_vars => NodeCatchesUp'
  <2> SUFFICES ASSUME TypeOK, NodeCatchesUp, [Next]_vars PROVE NodeCatchesUp'
    OBVIOUS
  <2>1. ConfigCatchesUp' /\ StatusCatchesUp'
    <3>1. ASSUME NEW c \in Controllers, Step(c) PROVE ConfigCatchesUp' /\ StatusCatchesUp'
      BY <3>1, OthersCatchUp, NodeControllersCatchUp DEF Step, NodeCatchesUp
    <3>2. CASE DelayedCall \/ SyncCollectorGroupFails
      BY <3>2, DelayedCallCatchesUp DEF NodeCatchesUp
    <3> QED
      BY <3>1, <3>2, EnvironmentCatchesUp DEF Next, NodeCatchesUp
  <2> QED
    BY <2>1, CacheSeenStep, PlansOwnedStep, AttemptsStep DEF NodeCatchesUp
<1>2. TypeOK /\ NodeCatchesUp => NodeOutOfSyncIsPending
  <2> SUFFICES ASSUME TypeOK, NodeCatchesUp, ~NodeWorkPending PROVE NodeInSync
    BY DEF NodeOutOfSyncIsPending
  <2>1. ~Requested /\ timer = idle
    BY DEF NodeWorkPending, Requested
  <2>2. \A c \in Controllers : ~NodePlan(c)
    BY DEF NodeCatchesUp, PlansOwned, NodeWorkPending, NodePlan
  <2>3. nodeConf = AgentPipelines(node, cluster.signals)
    BY <2>1, <2>2 DEF NodeCatchesUp, ConfigCatchesUp, NodePlan, Does
  <2>4. node # nil => node.signals = nodeConf
    BY <2>1, <2>2 DEF NodeCatchesUp, StatusCatchesUp, Rolling, idle
  <2> QED
    BY <2>3, <2>4 DEF NodeInSync
<1> QED
  BY <1>1, <1>2, NodeCatchesUpInit, TypeCorrect, PTL DEF Spec

=============================================================================
