------------------------- MODULE OpampServerProofs -------------------------
(***************************************************************************)
(* Theorems about OpampServer, for every set of agents, identities,        *)
(* workloads and configurations, any number of handlers and every bound.   *)
(***************************************************************************)
EXTENDS OpampServer, SequenceTheorems, TLAPS

-----------------------------------------------------------------------------
(* Lemmas about the helpers *)

\* The variables of the connections, requests and agents, typed where they are not nil.
LEMMA EntryTypes ==
    ASSUME TypeOK
    PROVE  /\ \A a \in Agents : live[a] # nil => live[a] \in ConnectionInfos
           /\ \A h \in Handlers : handler[h] # nil => handler[h] \in Requests
           /\ \A a \in Agents : agent[a] \in [state : {"unborn", "running", "gone"},
                                              who : Identities, describe : BOOLEAN,
                                              config : Configs \cup {nil}]
BY DEF TypeOK

\* What is known of a request that is served.
LEMMA RequestFields ==
    ASSUME TypeOK, NEW h \in Handlers, handler[h] # nil
    PROVE  /\ handler[h] \in Requests
           /\ handler[h].agent \in Agents
           /\ handler[h].who \in Identities
           /\ handler[h].msg \in AgentToServer
           /\ handler[h].config \in Configs \cup {nil}
BY EntryTypes DEF Requests

\* Counting a change or a fault keeps the counters.
LEMMA UseType ==
    ASSUME TypeOK, NEW b \in {"changes", "faults"}, Use(b)
    PROVE  used' \in [{"changes", "faults"} -> Nat]
BY DEF TypeOK, Use

\* So does a call of the API, whether it succeeds or fails.
LEMMA ApiCallType ==
    ASSUME TypeOK, ApiCallSucceeds \/ ApiCallFails
    PROVE  used' \in [{"changes", "faults"} -> Nat]
BY UseType DEF TypeOK, ApiCallSucceeds, ApiCallFails

\* A mishap is one of the kinds.
LEMMA MishapType ==
    ASSUME TypeOK, NEW kind \in Mishaps, NEW occurred, Mishap(kind, occurred)
    PROVE  hist' \subseteq Mishaps
BY DEF TypeOK, Mishap

\* Adding to the channel, or not, keeps it a sequence of tasks.
LEMMA TrySendType ==
    ASSUME TypeOK, NEW task \in Tasks, TrySend(task)
    PROVE  channel' \in Seq(Tasks) /\ hist' \subseteq Mishaps
<1>1. channel \in Seq(Tasks)
  BY DEF TypeOK
<1>2. "record" \in Mishaps
  BY DEF Mishaps
<1> QED
  BY <1>1, <1>2, MishapType DEF TrySend

\* An agent that is gone has the type of an agent.
LEMMA GoneType ==
    ASSUME TypeOK, NEW a \in Agents
    PROVE  Gone(a) \in [state : {"unborn", "running", "gone"}, who : Identities,
                        describe : BOOLEAN, config : Configs \cup {nil}]
BY EntryTypes DEF Gone

\* The configuration found for a container, if any, is one of the configurations.
LEMMA ContainerConfigType ==
    ASSUME TypeOK, NEW who \in Identities
    PROVE  /\ who.workload \in Workloads
           /\ ContainerConfig(who) \in Configs \cup {nil}
<1>1. who.workload \in Workloads /\ who.container \in Containers
  BY OpampAssumption
<1>2. ic[who.workload] # nil => ic[who.workload] \in [Containers -> Configs \cup {nil}]
  BY <1>1 DEF TypeOK, InstrumentationConfigs
<1> QED
  BY <1>1, <1>2 DEF ContainerConfig

\* The part of TypeOK about requests, for a handler that goes on with r.
RequestOK(r) ==
    /\ r \in Requests
    /\ r.step \in {"get", "new"} => ~r.known
    /\ r.step \in {"add", "enqueue"} => r.known
    /\ r.step = "add" => r.config # nil

\* It is kept by a handler that goes on, or ends.
LEMMA HandlerType ==
    ASSUME TypeOK, NEW h \in Handlers, NEW r, RequestOK(r) \/ r = nil,
           handler' = [handler EXCEPT ![h] = r]
    PROVE  /\ handler' \in [Handlers -> Requests \cup {nil}]
           /\ \A g \in Handlers : handler'[g] # nil =>
                 /\ handler'[g].step \in {"get", "new"} => ~handler'[g].known
                 /\ handler'[g].step \in {"add", "enqueue"} => handler'[g].known
                 /\ handler'[g].step = "add" => handler'[g].config # nil
<1>1. handler' \in [Handlers -> Requests \cup {nil}]
  BY DEF TypeOK, RequestOK
<1>2. handler'[h] = r /\ \A g \in Handlers : g # h => handler'[g] = handler[g]
  BY DEF TypeOK
<1> QED
  BY <1>1, <1>2 DEF TypeOK, RequestOK

-----------------------------------------------------------------------------
(* The type invariant *)

\* The types hold at first.
LEMMA TypeInit == Init => TypeOK
<1> SUFFICES ASSUME Init PROVE TypeOK
  OBVIOUS
<1>1. ic \in [Workloads -> InstrumentationConfigs \cup {nil}]
  BY OpampAssumption DEF Init, InstrumentationConfigs
<1>2. agent \in [Agents -> [state : {"unborn", "running", "gone"}, who : Identities,
                            describe : BOOLEAN, config : Configs \cup {nil}]]
  <2>1. \A who \in Identities :
            [state |-> "unborn", who |-> who, describe |-> TRUE, config |-> nil]
                \in [state : {"unborn", "running", "gone"}, who : Identities,
                     describe : BOOLEAN, config : Configs \cup {nil}]
    OBVIOUS
  <2>2. \A a \in Agents : agent[a] \in {[state |-> "unborn", who |-> who, describe |-> TRUE,
                                         config |-> nil] : who \in Identities}
    BY DEF Init
  <2>3. agent = [a \in Agents |-> agent[a]]
    BY DEF Init
  <2>4. ASSUME NEW a \in Agents
        PROVE  agent[a] \in [state : {"unborn", "running", "gone"},
                             who : Identities, describe : BOOLEAN, config : Configs \cup {nil}]
    <3>1. PICK who \in Identities : agent[a] = [state |-> "unborn", who |-> who,
                                                describe |-> TRUE, config |-> nil]
      BY <2>2
    <3> QED
      BY <2>1, <3>1
  <2> QED
    BY <2>3, <2>4
<1>3. \A h \in Handlers : handler[h] = nil
  BY DEF Init
<1> QED
  BY <1>1, <1>2, <1>3 DEF Init, TypeOK

\* The steps of the agents keep the types.
LEMMA AgentTypeStep ==
    ASSUME TypeOK, NEW a \in Agents,
           \/ StartAgent(a) \/ AgentDies(a)
           \/ \E h \in Handlers : Heartbeat(h, a) \/ Disconnect(h, a)
    PROVE  TypeOK'
<1>1. CASE StartAgent(a)
  <2>1. \A b \in Agents : agent'[b] \in [state : {"unborn", "running", "gone"},
            who : Identities, describe : BOOLEAN, config : Configs \cup {nil}]
    BY <1>1, GoneType, EntryTypes DEF StartAgent
  <2>2. agent' \in [Agents -> [state : {"unborn", "running", "gone"}, who : Identities,
                               describe : BOOLEAN, config : Configs \cup {nil}]]
    BY <1>1, <2>1 DEF StartAgent
  <2> QED
    BY <1>1, <2>2 DEF StartAgent, TypeOK
<1>2. CASE AgentDies(a)
  <2>1. agent' \in [Agents -> [state : {"unborn", "running", "gone"}, who : Identities,
                               describe : BOOLEAN, config : Configs \cup {nil}]]
    BY <1>2, GoneType DEF AgentDies, TypeOK
  <2> QED
    BY <1>2, <2>1 DEF AgentDies, TypeOK
<1>3. ASSUME NEW h \in Handlers, Heartbeat(h, a) \/ Disconnect(h, a) PROVE TypeOK'
  <2>1. PICK health \in HealthKinds, disconnect \in BOOLEAN : Send(h, a, health, disconnect)
    BY <1>3, OpampAssumption DEF Heartbeat, Disconnect
  <2> DEFINE reported == IF a \in OldAgents THEN nil ELSE agent[a].config
             msg == [description |-> agent[a].describe, health |-> health,
                     disconnect |-> disconnect]
             r == [agent |-> a, who |-> agent[a].who, known |-> FALSE, step |-> "get",
                   config |-> reported, msg |-> msg]
  <2>2. msg \in AgentToServer /\ reported \in Configs \cup {nil} /\ agent[a].who \in Identities
    BY EntryTypes DEF AgentToServer
  <2>3. RequestOK(r)
    <3> HIDE DEF msg, reported
    <3> QED
      BY <2>2 DEF RequestOK, Requests
  <2>4. handler' = [handler EXCEPT ![h] = r]
    BY <2>1 DEF Send
  <2> HIDE DEF r
  <2>5. agent' \in [Agents -> [state : {"unborn", "running", "gone"}, who : Identities,
                               describe : BOOLEAN, config : Configs \cup {nil}]]
    BY <1>3, GoneType DEF Heartbeat, Disconnect, TypeOK
  <2>6. hist' \subseteq Mishaps
    BY <2>1, MishapType DEF Send, Mishaps
  <2>7. /\ handler' \in [Handlers -> Requests \cup {nil}]
        /\ \A g \in Handlers : handler'[g] # nil =>
              /\ handler'[g].step \in {"get", "new"} => ~handler'[g].known
              /\ handler'[g].step \in {"add", "enqueue"} => handler'[g].known
              /\ handler'[g].step = "add" => handler'[g].config # nil
    BY <2>3, <2>4, HandlerType
  <2>8. UNCHANGED <<ic, pending, live, channel, expired, records, phase, used>>
    BY <2>1 DEF Send
  <2> QED
    BY <2>5, <2>6, <2>7, <2>8 DEF TypeOK
<1> QED
  BY <1>1, <1>2, <1>3

\* The steps of a request keep the types.
LEMMA HandlerTypeStep ==
    ASSUME TypeOK, NEW h \in Handlers, ServeRequest(h)
    PROVE  TypeOK'
<1> DEFINE r == handler[h]
<1>0. r # nil
  BY DEF ServeRequest, GetConnection, OnNewConnection, CacheConnection, Enqueue, FinishRequest
<1>1. /\ r \in Requests
      /\ r.step \in {"get", "new"} => ~r.known
      /\ r.step \in {"add", "enqueue"} => r.known
      /\ r.step = "add" => r.config # nil
  BY <1>0 DEF TypeOK
<1>2. CASE GetConnection(h)
  <2> DEFINE conn == live[r.agent]
             step == AfterLookup(r.msg)
             config == OnAgentToServerMessage(r.config, conn)
             found == [r EXCEPT !.known = TRUE, !.config = config, !.step = step]
             new == [r EXCEPT !.step = "new"]
             unknown == [r EXCEPT !.config = nil, !.step = "record"]
             next == IF conn # nil THEN found ELSE IF r.msg.description THEN new ELSE unknown
  <2>1. step \in {"enqueue", "record"}
    BY DEF AfterLookup
  <2>2. r.step = "get"
    BY <1>2 DEF GetConnection
  <2>3. ASSUME conn # nil PROVE RequestOK(found)
    <3>1. config \in Configs \cup {nil}
      BY <1>1, <2>3, EntryTypes DEF OnAgentToServerMessage, Requests, ConnectionInfos
    <3> HIDE DEF config, step, r
    <3>2. found \in Requests /\ found.step = step /\ found.known
      BY <1>1, <2>1, <3>1 DEF Requests
    <3> QED
      BY <2>1, <3>2 DEF RequestOK
  <2>4. RequestOK(new) /\ RequestOK(unknown)
    <3> HIDE DEF r
    <3> QED
      BY <1>1, <2>2 DEF RequestOK, Requests
  <2>5. RequestOK(next)
    BY <2>3, <2>4
  <2>6. handler' = [handler EXCEPT ![h] = next]
    BY <1>2 DEF GetConnection
  <2> HIDE DEF next
  <2>7. /\ handler' \in [Handlers -> Requests \cup {nil}]
        /\ \A g \in Handlers : handler'[g] # nil =>
              /\ handler'[g].step \in {"get", "new"} => ~handler'[g].known
              /\ handler'[g].step \in {"add", "enqueue"} => handler'[g].known
              /\ handler'[g].step = "add" => handler'[g].config # nil
    BY <2>5, <2>6, HandlerType
  <2>8. UNCHANGED <<ic, pending, live, channel, expired, records, agent, phase, hist, used>>
    BY <1>2 DEF GetConnection
  <2> QED
    BY <2>7, <2>8 DEF TypeOK
<1>3. CASE OnNewConnection(h)
  <2> DEFINE config == ContainerConfig(r.who)
             next == [r EXCEPT !.known = TRUE, !.config = config, !.step = "add"]
  <2>1. config \in Configs \cup {nil}
    BY <1>0, RequestFields, ContainerConfigType
  <2>2. ASSUME config # nil PROVE RequestOK(next)
    <3> HIDE DEF config, r
    <3> QED
      BY <1>1, <2>1, <2>2 DEF RequestOK, Requests
  <2>3. \/ config # nil /\ handler' = [handler EXCEPT ![h] = next]
        \/ handler' = [handler EXCEPT ![h] = nil]
    BY <1>3 DEF OnNewConnection
  <2>4. used' \in [{"changes", "faults"} -> Nat]
    BY <1>3, ApiCallType DEF OnNewConnection
  <2> HIDE DEF next, config
  <2>5. /\ handler' \in [Handlers -> Requests \cup {nil}]
        /\ \A g \in Handlers : handler'[g] # nil =>
              /\ handler'[g].step \in {"get", "new"} => ~handler'[g].known
              /\ handler'[g].step \in {"add", "enqueue"} => handler'[g].known
              /\ handler'[g].step = "add" => handler'[g].config # nil
    BY <2>2, <2>3, HandlerType
  <2> QED
    BY <1>3, <2>4, <2>5 DEF OnNewConnection, TypeOK
<1>4. CASE CacheConnection(h)
  <2> DEFINE next == [r EXCEPT !.step = "enqueue"]
  <2>1. r.step = "add" /\ r.known /\ r.config \in Configs
    BY <1>1, <1>4 DEF CacheConnection, Requests
  <2>2. RequestOK(next)
    <3> HIDE DEF r
    <3> QED
      BY <1>1, <2>1 DEF RequestOK, Requests
  <2>3. handler' = [handler EXCEPT ![h] = next]
    BY <1>4 DEF CacheConnection
  <2>4. NewConnectionInfo(r) \in ConnectionInfos
    <3> HIDE DEF r
    <3> QED
      BY <1>1, <2>1 DEF NewConnectionInfo, ConnectionInfos, Requests
  <2>5. live' \in [Agents -> ConnectionInfos \cup {nil}]
    BY <1>4, <2>4 DEF CacheConnection, AddConnection, TypeOK
  <2>6. hist' \subseteq Mishaps
    BY <1>4, MishapType DEF CacheConnection, Mishaps
  <2> HIDE DEF next
  <2> QED
    BY <1>4, <2>2, <2>3, <2>5, <2>6, HandlerType DEF CacheConnection, TypeOK
<1>5. CASE Enqueue(h)
  <2> DEFINE next == [r EXCEPT !.step = "record"]
             task == [type |-> "update", who |-> r.who, msg |-> r.msg]
  <2>1. RequestOK(next)
    <3> HIDE DEF r
    <3> QED
      BY <1>1 DEF RequestOK, Requests
  <2>2. task \in Tasks
    <3> HIDE DEF r
    <3> QED
      BY <1>1 DEF Tasks, Requests
  <2>3. handler' = [handler EXCEPT ![h] = next] \/ handler' = [handler EXCEPT ![h] = nil]
    BY <1>5 DEF Enqueue
  <2>4. channel' = channel \/ TrySend(task)
    BY <1>5 DEF Enqueue
  <2>5. TrySend(task) \/ Mishap("record", TRUE)
    BY <1>5 DEF Enqueue
  <2> HIDE DEF next, task
  <2>6. channel' \in Seq(Tasks) /\ hist' \subseteq Mishaps
    BY <2>2, <2>4, <2>5, TrySendType, MishapType DEF Mishaps, TypeOK
  <2>7. /\ handler' \in [Handlers -> Requests \cup {nil}]
        /\ \A g \in Handlers : handler'[g] # nil =>
              /\ handler'[g].step \in {"get", "new"} => ~handler'[g].known
              /\ handler'[g].step \in {"add", "enqueue"} => handler'[g].known
              /\ handler'[g].step = "add" => handler'[g].config # nil
    BY <2>1, <2>3, HandlerType
  <2> QED
    BY <1>5, <2>6, <2>7 DEF Enqueue, TypeOK
<1>6. CASE FinishRequest(h)
  <2>1. r.agent \in Agents /\ r.msg \in AgentToServer /\ r.config \in Configs \cup {nil}
        /\ r.known \in BOOLEAN
    BY <1>1 DEF Requests
  <2>2. live' \in [Agents -> ConnectionInfos \cup {nil}]
    <3>1. RemoveConnection(r) \in [Agents -> ConnectionInfos \cup {nil}]
      BY DEF RemoveConnection, TypeOK
    <3>2. RecordMessageTime(r) \in [Agents -> ConnectionInfos \cup {nil}]
      <4> DEFINE old == live[r.agent]
                 new == [old EXCEPT !.noConnection = old.noConnection
                                        \/ r.msg.health = "noconnection",
                                    !.last = "recent"]
      <4>1. old # nil => new \in ConnectionInfos
        <5>1. old # nil => old \in ConnectionInfos
          BY <2>1, EntryTypes
        <5> HIDE DEF old
        <5> QED
          BY <5>1 DEF ConnectionInfos
      <4>2. RecordMessageTime(r) = [live EXCEPT ![r.agent] = IF old = nil THEN nil ELSE new]
        BY DEF RecordMessageTime
      <4> HIDE DEF new
      <4> QED
        BY <4>1, <4>2 DEF TypeOK
    <3> QED
      BY <1>6, <3>1, <3>2 DEF FinishRequest
  <2>3. agent' \in [Agents -> [state : {"unborn", "running", "gone"}, who : Identities,
                               describe : BOOLEAN, config : Configs \cup {nil}]]
    <3>1. ReplyReceived(r) \in [state : {"unborn", "running", "gone"}, who : Identities,
                                describe : BOOLEAN, config : Configs \cup {nil}]
      <4> DEFINE old == agent[r.agent]
      <4>1. old \in [state : {"unborn", "running", "gone"}, who : Identities,
                     describe : BOOLEAN, config : Configs \cup {nil}]
        BY <2>1, EntryTypes
      <4>2. ReplyReceived(r) =
                IF old.state = "gone" THEN old
                ELSE [old EXCEPT !.config = IF r.config = nil THEN old.config ELSE r.config,
                                 !.describe = ~r.known \/ (old.describe
                                                           /\ ~r.msg.description)]
        BY DEF ReplyReceived
      <4> HIDE DEF old, r
      <4> QED
        BY <2>1, <4>1, <4>2
    <3> QED
      BY <1>6, <3>1 DEF FinishRequest, TypeOK
  <2>4. used' \in [{"changes", "faults"} -> Nat]
    BY <1>6, UseType DEF FinishRequest, TypeOK
  <2>5. hist' \subseteq Mishaps
    BY <1>6, MishapType DEF FinishRequest, Mishaps
  <2>6. handler' = [handler EXCEPT ![h] = nil]
    BY <1>6 DEF FinishRequest
  <2> QED
    BY <1>6, <2>2, <2>3, <2>4, <2>5, <2>6, HandlerType DEF FinishRequest, TypeOK
<1> QED
  BY <1>2, <1>3, <1>4, <1>5, <1>6 DEF ServeRequest

\* The steps of the ticker, of the worker and of the reconciler keep the types.
LEMMA ServerTypeStep ==
    ASSUME TypeOK,
           \/ \E a \in Agents : FallSilent(a)
           \/ CleanupStaleConnections \/ SendDeletion
           \/ ProcessInstrumentationUpdates
           \/ \E w \in Workloads : ChangeConfig(w) \/ Reconcile(w)
    PROVE  TypeOK'
<1>1. ASSUME NEW a \in Agents, FallSilent(a) PROVE TypeOK'
  <2>1. live' \in [Agents -> ConnectionInfos \cup {nil}]
    <3>1. [live[a] EXCEPT !.last = "stale"] \in ConnectionInfos
      BY <1>1, EntryTypes DEF FallSilent, ConnectionInfos
    <3> QED
      BY <1>1, <3>1 DEF FallSilent, TypeOK
  <2>2. used' \in [{"changes", "faults"} -> Nat]
    BY <1>1, UseType DEF FallSilent, TypeOK
  <2> QED
    BY <1>1, <2>1, <2>2 DEF FallSilent, TypeOK
<1>2. CASE CleanupStaleConnections
  <2>1. live' \in [Agents -> ConnectionInfos \cup {nil}] /\ expired' \subseteq ConnectionInfos
    BY <1>2, EntryTypes DEF CleanupStaleConnections, Stale
  <2>2. used' \in [{"changes", "faults"} -> Nat]
    BY <1>2, UseType DEF CleanupStaleConnections, TypeOK
  <2>3. hist' \subseteq Mishaps
    BY <1>2, MishapType DEF CleanupStaleConnections, Mishaps
  <2> QED
    BY <1>2, <2>1, <2>2, <2>3 DEF CleanupStaleConnections, TypeOK
<1>3. CASE SendDeletion
  <2>1. PICK conn \in expired :
            /\ TrySend([type |-> "delete", who |-> conn.who,
                        noConnection |-> conn.noConnection])
            /\ expired' = expired \ {conn}
    BY <1>3 DEF SendDeletion
  <2> DEFINE task == [type |-> "delete", who |-> conn.who, noConnection |-> conn.noConnection]
  <2>2. task \in Tasks
    BY DEF TypeOK, ConnectionInfos, Tasks
  <2>3. TrySend(task)
    BY <2>1
  <2> HIDE DEF task
  <2>4. channel' \in Seq(Tasks) /\ hist' \subseteq Mishaps
    BY <2>2, <2>3, TrySendType
  <2> QED
    BY <1>3, <2>1, <2>4 DEF SendDeletion, TypeOK
<1>4. CASE ProcessInstrumentationUpdates
  <2>1. channel \in Seq(Tasks) /\ channel # <<>> /\ channel' = Tail(channel)
    BY <1>4 DEF ProcessInstrumentationUpdates, TypeOK
  <2> DEFINE task == Head(channel)
  <2>2. task \in Tasks /\ channel' \in Seq(Tasks)
    BY <2>1
  <2>3. RecordKey(task.who) \in RecordKeys
    BY <2>2 DEF Tasks, RecordKeys
  <2>4. NewStatus(task) \in {"unknown", "healthy", "unhealthy"}
    <3>1. records[RecordKey(task.who)] \in {nil, "unknown", "healthy", "unhealthy"}
      BY <2>3 DEF TypeOK
    <3> QED
      BY <3>1 DEF NewStatus
  <2>5. records' \in [RecordKeys -> {nil, "unknown", "healthy", "unhealthy"}]
    <3>1. \/ records' = records
          \/ \E v \in {nil, NewStatus(task)} :
                 records' = [records EXCEPT ![RecordKey(task.who)] = v]
      BY <1>4 DEF ProcessInstrumentationUpdates
    <3> HIDE DEF task
    <3> QED
      BY <2>4, <3>1 DEF TypeOK
  <2>6. hist' \subseteq Mishaps
    BY <1>4, MishapType DEF ProcessInstrumentationUpdates, Mishaps, TypeOK
  <2>7. used' \in [{"changes", "faults"} -> Nat]
    BY <1>4, ApiCallType DEF ProcessInstrumentationUpdates, TypeOK
  <2>8. UNCHANGED <<ic, pending, live, expired, handler, agent, phase>>
    BY <1>4 DEF ProcessInstrumentationUpdates
  <2> QED
    BY <2>2, <2>5, <2>6, <2>7, <2>8 DEF TypeOK
<1>5. ASSUME NEW w \in Workloads, ChangeConfig(w) PROVE TypeOK'
  <2>1. used' \in [{"changes", "faults"} -> Nat]
    BY <1>5, UseType DEF ChangeConfig
  <2> QED
    BY <1>5, <2>1 DEF ChangeConfig, TypeOK
<1>6. ASSUME NEW w \in Workloads, Reconcile(w) PROVE TypeOK'
  <2>1. live' \in [Agents -> ConnectionInfos \cup {nil}]
    <3>1. CASE live' = live
      BY <3>1 DEF TypeOK
    <3>2. ASSUME NEW updated \in UpdateWorkloadRemoteConfig(w),
                 live' = [a \in Agents |-> IF a \in updated
                              THEN [live[a] EXCEPT !.config = ContainerConfig(live[a].who)]
                              ELSE live[a]]
          PROVE  live' \in [Agents -> ConnectionInfos \cup {nil}]
      <4>1. ASSUME NEW a \in Agents, a \in updated
            PROVE  [live[a] EXCEPT !.config = ContainerConfig(live[a].who)] \in ConnectionInfos
        <5>1. live[a] # nil /\ ContainerConfig(live[a].who) # nil
          BY <3>2, <4>1 DEF UpdateWorkloadRemoteConfig, ConnectionsOf, Unconfigured
        <5>2. live[a] \in ConnectionInfos
          BY <5>1, EntryTypes
        <5>3. ContainerConfig(live[a].who) \in Configs
          BY <5>1, <5>2, ContainerConfigType DEF ConnectionInfos
        <5> QED
          BY <5>2, <5>3 DEF ConnectionInfos
      <4>2. \A a \in Agents : live[a] \in ConnectionInfos \cup {nil}
        BY DEF TypeOK
      <4> QED
        BY <3>2, <4>1, <4>2
    <3> QED
      BY <1>6, <3>1, <3>2 DEF Reconcile
  <2>2. hist' \subseteq Mishaps
    BY <1>6, MishapType DEF Reconcile, Mishaps, TypeOK
  <2>3. /\ pending' = pending \ {w}
        /\ UNCHANGED <<ic, channel, expired, records, handler, agent, phase, used>>
    BY <1>6 DEF Reconcile
  <2> QED
    BY <2>1, <2>2, <2>3 DEF TypeOK
<1> QED
  BY <1>1, <1>2, <1>3, <1>4, <1>5, <1>6

\* So do shutdown and restart.
LEMMA LifeTypeStep ==
    ASSUME TypeOK, CancelContext \/ Shutdown \/ Restart
    PROVE  TypeOK'
<1>1. CASE CancelContext
  <2>1. used' \in [{"changes", "faults"} -> Nat]
    BY <1>1, UseType DEF CancelContext
  <2> QED
    BY <1>1, <2>1 DEF CancelContext, TypeOK
<1>2. CASE Shutdown
  BY <1>2 DEF Shutdown, CloseChannel, ShutdownServer, StartReturns, TypeOK
<1>3. CASE Restart
  <2>1. used' \in [{"changes", "faults"} -> Nat]
    BY <1>3, UseType DEF Restart, TypeOK
  <2>2. hist' \subseteq Mishaps
    BY <1>3, MishapType DEF Restart, Mishaps
  <2>3. \A h \in Handlers : handler'[h] = nil
    BY <1>3 DEF Restart
  <2> QED
    BY <1>3, <2>1, <2>2, <2>3 DEF Restart, TypeOK
<1> QED
  BY <1>1, <1>2, <1>3

\* Every step keeps the types.
LEMMA TypeStep == TypeOK /\ [Next]_vars => TypeOK'
<1> SUFFICES ASSUME TypeOK, [Next]_vars PROVE TypeOK'
  OBVIOUS
<1>1. CASE UNCHANGED vars
  BY <1>1 DEF vars, TypeOK
<1> QED
  BY <1>1, AgentTypeStep, HandlerTypeStep, ServerTypeStep, LifeTypeStep DEF Next

\* Every variable keeps its type, and no goroutine of a request goes on with a connection
\* it has not looked up or created (server.go, from GetConnection on).
THEOREM TypeCorrect == Spec => []TypeOK
BY TypeInit, TypeStep, PTL DEF Spec

-----------------------------------------------------------------------------
(* The connections cache *)

\* Two states of a cached connection that differ in its times and status only.
SameConnection(new, old) ==
    new # nil => old # nil /\ new.who = old.who /\ new.config = old.config

\* But for new connections and reconciles, a step removes connections, or changes nothing
\* of them but their times and status.
LEMMA ConnectionsKept ==
    ASSUME TypeOK, [Next]_vars, \A h \in Handlers : ~CacheConnection(h),
           \A w \in Workloads : ~Reconcile(w), NEW a \in Agents
    PROVE  SameConnection(live'[a], live[a])
<1>1. CASE live'[a] = live[a] \/ live'[a] = nil
  BY <1>1 DEF SameConnection
<1>2. ASSUME NEW h \in Handlers, FinishRequest(h) PROVE SameConnection(live'[a], live[a])
  <2> DEFINE r == handler[h]
  <2>1. CASE live' = RemoveConnection(r)
    BY <1>1, <2>1 DEF RemoveConnection, TypeOK
  <2>2. CASE live' = RecordMessageTime(r)
    <3> DEFINE old == live[r.agent]
               new == [old EXCEPT !.noConnection = old.noConnection
                                      \/ r.msg.health = "noconnection",
                                  !.last = "recent"]
    <3>1. live' = [live EXCEPT ![r.agent] = IF old = nil THEN nil ELSE new]
      BY <2>2 DEF RecordMessageTime
    <3>2. ASSUME a = r.agent, live[a] # nil
          PROVE  new.who = live[a].who /\ new.config = live[a].config
      <4>1. old \in ConnectionInfos
        BY <3>2, EntryTypes
      <4> HIDE DEF old
      <4> QED
        BY <3>2, <4>1 DEF ConnectionInfos, old
    <3> HIDE DEF new, r
    <3> QED
      BY <1>1, <3>1, <3>2 DEF SameConnection, TypeOK
  <2> QED
    BY <1>2, <2>1, <2>2 DEF FinishRequest
<1>3. ASSUME NEW b \in Agents, FallSilent(b) PROVE SameConnection(live'[a], live[a])
  <2>1. live[b] \in ConnectionInfos
    BY <1>3, EntryTypes DEF FallSilent
  <2>2. /\ [live[b] EXCEPT !.last = "stale"].who = live[b].who
        /\ [live[b] EXCEPT !.last = "stale"].config = live[b].config
    BY <2>1 DEF ConnectionInfos
  <2>3. live'[a] = IF a = b THEN [live[b] EXCEPT !.last = "stale"] ELSE live[a]
    BY <1>3 DEF FallSilent, TypeOK
  <2> QED
    BY <1>1, <1>3, <2>2, <2>3 DEF SameConnection, FallSilent
<1>4. CASE CleanupStaleConnections
  BY <1>1, <1>4 DEF CleanupStaleConnections
<1>5. CASE Restart
  BY <1>1, <1>5 DEF Restart
<1>6. ASSUME \A b \in Agents : ~FallSilent(b),
             \A h \in Handlers : ~FinishRequest(h),
             ~CleanupStaleConnections, ~Restart
      PROVE  live' = live
  BY <1>6 DEF Next, StartAgent, AgentDies, Heartbeat, Disconnect, Send, ServeRequest,
     GetConnection, OnNewConnection, Enqueue, SendDeletion, ProcessInstrumentationUpdates,
     ChangeConfig, CancelContext, Shutdown, CloseChannel, ShutdownServer, StartReturns, vars
<1> QED
  BY <1>1, <1>2, <1>3, <1>4, <1>5, <1>6

\* A reconcile neither adds nor removes a connection: it gives those it updates the
\* configuration of their container.
LEMMA ReconcileUpdates ==
    ASSUME TypeOK, NEW w \in Workloads, Reconcile(w), NEW a \in Agents
    PROVE  /\ live'[a] # nil => live[a] # nil /\ live'[a].who = live[a].who
           /\ ~SameConnection(live'[a], live[a])
                 => live'[a].config = ContainerConfig(live[a].who)
<1>1. CASE live'[a] = live[a]
  BY <1>1 DEF SameConnection
<1>2. ASSUME live[a] # nil,
             live'[a] = [live[a] EXCEPT !.config = ContainerConfig(live[a].who)]
      PROVE  live'[a].who = live[a].who /\ live'[a].config = ContainerConfig(live[a].who)
  <2> DEFINE config == ContainerConfig(live[a].who)
  <2>1. live[a] \in ConnectionInfos
    BY <1>2, EntryTypes
  <2>2. live'[a] = [live[a] EXCEPT !.config = config]
    BY <1>2
  <2> HIDE DEF config
  <2>3. live'[a].who = live[a].who /\ live'[a].config = config
    BY <2>1, <2>2 DEF ConnectionInfos
  <2> QED
    BY <2>3 DEF config
<1>3. \/ live'[a] = live[a]
      \/ /\ live[a] # nil
         /\ live'[a] = [live[a] EXCEPT !.config = ContainerConfig(live[a].who)]
  <2>1. CASE live' = live
    BY <2>1
  <2>2. ASSUME NEW updated \in UpdateWorkloadRemoteConfig(w),
               live' = [b \in Agents |-> IF b \in updated
                            THEN [live[b] EXCEPT !.config = ContainerConfig(live[b].who)]
                            ELSE live[b]]
        PROVE  \/ live'[a] = live[a]
               \/ /\ live[a] # nil
                  /\ live'[a] = [live[a] EXCEPT !.config = ContainerConfig(live[a].who)]
    <3>1. a \in updated => live[a] # nil
      BY <2>2 DEF UpdateWorkloadRemoteConfig, ConnectionsOf, Unconfigured
    <3> QED
      BY <2>2, <3>1
  <2> QED
    BY <2>1, <2>2 DEF Reconcile
<1> QED
  BY <1>1, <1>2, <1>3

\* A new connection takes the place of those of its process.
LEMMA CacheConnectionEffect ==
    ASSUME TypeOK, NEW h \in Handlers, CacheConnection(h), NEW a \in Agents
    PROVE  \/ /\ a = handler[h].agent
              /\ live'[a] # nil
              /\ live'[a].who = handler[h].who /\ live'[a].config = handler[h].config
           \/ live'[a] = nil /\ a # handler[h].agent
           \/ /\ live'[a] = live[a] /\ a # handler[h].agent
              /\ live[a] # nil => live[a].who.process # handler[h].who.process
<1> DEFINE conn == NewConnectionInfo(handler[h])
<1>1. conn.who = handler[h].who /\ conn.config = handler[h].config
  BY DEF NewConnectionInfo
<1>2. conn # nil
  <2>1. handler[h] \in Requests /\ handler[h].config # nil
    BY EntryTypes DEF CacheConnection, TypeOK
  <2>2. conn \in ConnectionInfos
    BY <2>1 DEF NewConnectionInfo, ConnectionInfos, Requests
  <2> QED
    BY <2>2, NilAssumption
<1>3. live'[a] = IF a = handler[h].agent THEN conn
                 ELSE IF live[a] # nil /\ live[a].who.process = conn.who.process THEN nil
                 ELSE live[a]
  BY DEF CacheConnection, AddConnection
<1> HIDE DEF conn
<1> QED
  BY <1>1, <1>2, <1>3

\* At most one connection is cached for a pod and pid: RemoveMatchingConnections, under
\* the lock of the cache, removes that of a replaced agent, and no interleaving of other
\* requests, of the ticker's expiry or of a reconcile brings it back.
THEOREM OneConnectionCorrect == Spec => []OneConnectionPerProcess
<1>1. Init => OneConnectionPerProcess
  BY DEF Init, OneConnectionPerProcess
<1>2. TypeOK /\ OneConnectionPerProcess /\ [Next]_vars => OneConnectionPerProcess'
  <2> SUFFICES ASSUME TypeOK, OneConnectionPerProcess, [Next]_vars,
                      NEW a \in Agents, NEW b \in Agents, live'[a] # nil, live'[b] # nil,
                      live'[a].who.process = live'[b].who.process
               PROVE  a = b
    BY DEF OneConnectionPerProcess
  <2>1. ASSUME NEW h \in Handlers, CacheConnection(h) PROVE a = b
    BY <2>1, CacheConnectionEffect DEF OneConnectionPerProcess
  <2>2. ASSUME NEW w \in Workloads, Reconcile(w) PROVE a = b
    BY <2>2, ReconcileUpdates DEF OneConnectionPerProcess
  <2> QED
    BY <2>1, <2>2, ConnectionsKept DEF OneConnectionPerProcess, SameConnection
<1> QED
  BY <1>1, <1>2, TypeCorrect, PTL DEF Spec

-----------------------------------------------------------------------------
(* The configuration of the cached connections *)

\* ContainerConfig and freshness for given objects and a given queue, so that both can be
\* said of the state before and of the state after a step.
ConfigIn(objects, who) ==
    IF objects[who.workload] = nil THEN nil ELSE objects[who.workload][who.container]

\* The configuration is the current one, or there is none, or a reconcile is to come.
Fresh(objects, queued, config, who) ==
    \/ config = ConfigIn(objects, who)
    \/ ConfigIn(objects, who) = nil
    \/ who.workload \in queued

\* The inductive form: so is the one a request is about to cache.
NewConnectionsFresh ==
    "config" \notin hist =>
        \A h \in Handlers : handler[h] # nil /\ handler[h].step = "add" =>
            Fresh(ic, pending, handler[h].config, handler[h].who)

\* Mishaps are never forgotten.
LEMMA HistGrows ==
    ASSUME [Next]_vars
    PROVE  hist \subseteq hist'
BY DEF Next, StartAgent, AgentDies, FallSilent, Heartbeat, Disconnect, Send, ServeRequest,
   GetConnection, OnNewConnection, CacheConnection, Enqueue, FinishRequest,
   CleanupStaleConnections, SendDeletion, TrySend, ProcessInstrumentationUpdates,
   ChangeConfig, Reconcile, CancelContext, Shutdown, CloseChannel, ShutdownServer,
   StartReturns, Restart, Mishap, vars

\* Freshness survives every step but the reconcile of the workload.
LEMMA FreshKept ==
    ASSUME TypeOK, [Next]_vars, NEW config, NEW who \in Identities, Fresh(ic, pending, config, who),
           ~Reconcile(who.workload)
    PROVE  Fresh(ic', pending', config, who)
<1>0. who.workload \in Workloads
  BY ContainerConfigType
<1>1. CASE ic' = ic /\ pending \subseteq pending'
  BY <1>1 DEF Fresh, ConfigIn
<1>2. ASSUME NEW w \in Workloads, ChangeConfig(w) PROVE Fresh(ic', pending', config, who)
  <2>1. CASE who.workload = w
    BY <1>2, <2>1 DEF ChangeConfig, Fresh
  <2>2. CASE who.workload # w
    <3>1. ic'[who.workload] = ic[who.workload] /\ pending \subseteq pending'
      BY <1>0, <1>2, <2>2 DEF ChangeConfig, TypeOK
    <3> QED
      BY <3>1 DEF Fresh, ConfigIn
  <2> QED
    BY <2>1, <2>2
<1>3. ASSUME NEW w \in Workloads, Reconcile(w) PROVE Fresh(ic', pending', config, who)
  <2>1. ic' = ic /\ pending' = pending \ {w} /\ who.workload # w
    BY <1>3 DEF Reconcile
  <2> QED
    BY <2>1 DEF Fresh, ConfigIn
<1>4. CASE Restart
  <2>1. ic' = ic /\ pending' = {w \in Workloads : ic[w] # nil}
    BY <1>4 DEF Restart
  <2>2. who.workload \in pending' \/ ConfigIn(ic, who) = nil
    BY <1>0, <2>1 DEF ConfigIn
  <2> QED
    BY <2>1, <2>2 DEF Fresh, ConfigIn
<1>5. ASSUME \A w \in Workloads : ~ChangeConfig(w) /\ ~Reconcile(w), ~Restart
      PROVE  ic' = ic /\ pending' = pending
  BY <1>5 DEF Next, StartAgent, AgentDies, FallSilent, Heartbeat, Disconnect, Send,
     ServeRequest, GetConnection, OnNewConnection, CacheConnection, Enqueue, FinishRequest,
     CleanupStaleConnections, SendDeletion, ProcessInstrumentationUpdates, CancelContext,
     Shutdown, CloseChannel, ShutdownServer, StartReturns, vars
<1> QED
  BY <1>1, <1>2, <1>3, <1>4, <1>5

\* A request that is about to cache a connection was so before, or has just read the
\* configuration.
LEMMA AddStepEffect ==
    ASSUME TypeOK, [Next]_vars, NEW h \in Handlers, handler'[h] # nil,
           handler'[h].step = "add"
    PROVE  \/ handler'[h] = handler[h]
           \/ /\ handler'[h].who \in Identities
              /\ handler'[h].config = ConfigIn(ic', handler'[h].who)
<1>1. ASSUME NEW g \in Handlers, NEW a \in Agents, Heartbeat(g, a) \/ Disconnect(g, a)
      PROVE  handler'[h] = handler[h]
  <2>1. PICK r : r.step = "get" /\ handler' = [handler EXCEPT ![g] = r]
    BY <1>1 DEF Heartbeat, Disconnect, Send
  <2> QED
    BY <2>1 DEF TypeOK
<1>2. ASSUME NEW g \in Handlers, NEW r, handler' = [handler EXCEPT ![g] = r],
             r = nil \/ r.step # "add"
      PROVE  handler'[h] = handler[h]
  BY <1>2 DEF TypeOK
<1>3. ASSUME NEW g \in Handlers, GetConnection(g) PROVE handler'[h] = handler[h]
  <2> DEFINE r == handler[g]
  <2>1. r \in Requests
    BY <1>3, EntryTypes DEF GetConnection
  <2>2. \A step \in {"new", "record", "enqueue"} : \A config :
            /\ [r EXCEPT !.known = TRUE, !.config = config, !.step = step].step # "add"
            /\ [r EXCEPT !.step = step].step # "add"
            /\ [r EXCEPT !.config = config, !.step = step].step # "add"
    <3> HIDE DEF r
    <3> QED
      BY <2>1 DEF Requests
  <2>3. AfterLookup(r.msg) \in {"record", "enqueue"}
    BY DEF AfterLookup
  <2>4. \E n : n.step # "add" /\ handler' = [handler EXCEPT ![g] = n]
    BY <1>3, <2>2, <2>3 DEF GetConnection
  <2> QED
    BY <1>2, <2>4
<1>4. ASSUME NEW g \in Handlers, OnNewConnection(g)
      PROVE  \/ handler'[h] = handler[h]
             \/ /\ handler'[h].who \in Identities
                /\ handler'[h].config = ConfigIn(ic', handler'[h].who)
  <2> DEFINE r == handler[g]
             config == ContainerConfig(r.who)
             n == [r EXCEPT !.known = TRUE, !.config = config, !.step = "add"]
  <2>1. r \in Requests /\ r.who \in Identities
    BY <1>4, RequestFields DEF OnNewConnection
  <2>2. n.who = r.who /\ n.config = config
    <3> HIDE DEF r, config
    <3> QED
      BY <2>1 DEF Requests
  <2>3. handler' = [handler EXCEPT ![g] = n] \/ handler' = [handler EXCEPT ![g] = nil]
    BY <1>4 DEF OnNewConnection
  <2>4. CASE handler' = [handler EXCEPT ![g] = nil]
    BY <1>2, <2>4
  <2>5. CASE handler' = [handler EXCEPT ![g] = n]
    <3>1. ic' = ic
      BY <1>4 DEF OnNewConnection
    <3>2. handler'[h] = handler[h] \/ handler'[h] = n
      <4> HIDE DEF n
      <4> QED
        BY <2>5 DEF TypeOK
    <3>3. ASSUME handler'[h] = n
          PROVE  /\ handler'[h].who \in Identities
                 /\ handler'[h].config = ConfigIn(ic', handler'[h].who)
      <4>1. handler'[h].who = r.who /\ handler'[h].config = config
        BY <2>2, <3>3
      <4>2. ConfigIn(ic', handler'[h].who) = ContainerConfig(r.who)
        BY <3>1, <4>1 DEF ContainerConfig, ConfigIn
      <4> QED
        BY <2>1, <4>1, <4>2
    <3> QED
      BY <3>2, <3>3
  <2> QED
    BY <2>3, <2>4, <2>5
<1>5. ASSUME NEW g \in Handlers, CacheConnection(g) \/ Enqueue(g)
      PROVE  handler'[h] = handler[h]
  <2>1. handler[g] \in Requests
    BY <1>5, EntryTypes DEF CacheConnection, Enqueue
  <2>2. /\ [handler[g] EXCEPT !.step = "enqueue"].step # "add"
        /\ [handler[g] EXCEPT !.step = "record"].step # "add"
    BY <2>1 DEF Requests
  <2> QED
    BY <1>2, <1>5, <2>2 DEF CacheConnection, Enqueue
<1>6. ASSUME NEW g \in Handlers, FinishRequest(g) PROVE handler'[h] = handler[h]
  BY <1>2, <1>6 DEF FinishRequest
<1>7. CASE Restart
  BY <1>7 DEF Restart
<1>8. CASE handler' = handler
  BY <1>8
<1>9. ASSUME \A g \in Handlers, a \in Agents : ~Heartbeat(g, a) /\ ~Disconnect(g, a),
             \A g \in Handlers : ~ServeRequest(g),
             ~Restart
      PROVE  handler' = handler
  BY <1>9 DEF Next, StartAgent, AgentDies, FallSilent, CleanupStaleConnections, SendDeletion,
     ProcessInstrumentationUpdates, ChangeConfig, Reconcile, CancelContext, Shutdown,
     CloseChannel, ShutdownServer, StartReturns, vars
<1> QED
  BY <1>1, <1>3, <1>4, <1>5, <1>6, <1>7, <1>8, <1>9 DEF ServeRequest

\* Every cached connection has the configuration of its container or will be reconciled,
\* unless a reconcile ran between the two halves of a new connection or gave up at a
\* container without a configuration: the only two ways to lose an update.
THEOREM ConfigCorrect == Spec => []ConfigIsFreshOrPending
<1>1. Init => ConfigIsFreshOrPending /\ NewConnectionsFresh
  BY DEF Init, ConfigIsFreshOrPending, NewConnectionsFresh
<1>2. TypeOK /\ ConfigIsFreshOrPending /\ NewConnectionsFresh /\ [Next]_vars
          => NewConnectionsFresh'
  <2> SUFFICES ASSUME TypeOK, NewConnectionsFresh, [Next]_vars, "config" \notin hist',
                      NEW h \in Handlers, handler'[h] # nil, handler'[h].step = "add"
               PROVE  Fresh(ic', pending', handler'[h].config, handler'[h].who)
    BY DEF NewConnectionsFresh
  <2>1. "config" \notin hist
    BY HistGrows
  <2>2. CASE handler'[h].config = ConfigIn(ic', handler'[h].who)
    BY <2>2 DEF Fresh
  <2>3. CASE handler'[h] = handler[h]
    <3>1. /\ handler[h].who \in Identities
          /\ Fresh(ic, pending, handler[h].config, handler[h].who)
      BY <2>1, <2>3, RequestFields DEF NewConnectionsFresh
    <3>2. ASSUME Reconcile(handler[h].who.workload)
          PROVE  Fresh(ic', pending', handler[h].config, handler[h].who)
      <4> DEFINE w == handler[h].who.workload
      <4>1. ic[w] = nil
        BY <2>3, <3>2 DEF Reconcile, Mishap
      <4>2. ic' = ic
        BY <3>2 DEF Reconcile
      <4> QED
        BY <4>1, <4>2 DEF Fresh, ConfigIn
    <3>3. Fresh(ic', pending', handler[h].config, handler[h].who)
      BY <3>1, <3>2, FreshKept
    <3> QED
      BY <2>3, <3>3 DEF Fresh, ConfigIn
  <2> QED
    BY <2>2, <2>3, AddStepEffect
<1>3. TypeOK /\ ConfigIsFreshOrPending /\ NewConnectionsFresh /\ [Next]_vars
          => ConfigIsFreshOrPending'
  <2> SUFFICES ASSUME TypeOK, ConfigIsFreshOrPending, NewConnectionsFresh, [Next]_vars,
                      "config" \notin hist', NEW a \in Agents, live'[a] # nil
               PROVE  Fresh(ic', pending', live'[a].config, live'[a].who)
    BY DEF ConfigIsFreshOrPending, Fresh, ConfigIn, ContainerConfig
  <2>1. "config" \notin hist
    BY HistGrows
  <2>2. live[a] # nil => live[a].who \in Identities /\ Fresh(ic, pending, live[a].config, live[a].who)
    BY <2>1, EntryTypes DEF ConfigIsFreshOrPending, Fresh, ConfigIn, ContainerConfig,
       ConnectionInfos
  <2>3. ASSUME NEW h \in Handlers, CacheConnection(h)
        PROVE  Fresh(ic', pending', live'[a].config, live'[a].who)
    <3>1. ic' = ic /\ pending' = pending
      BY <2>3 DEF CacheConnection
    <3>2. Fresh(ic, pending, handler[h].config, handler[h].who)
      BY <2>1, <2>3 DEF NewConnectionsFresh, CacheConnection
    <3>3. \/ live'[a].who = handler[h].who /\ live'[a].config = handler[h].config
          \/ live'[a] = live[a]
      BY <2>3, CacheConnectionEffect
    <3> QED
      BY <2>2, <3>1, <3>2, <3>3 DEF Fresh, ConfigIn
  <2>4. ASSUME NEW w \in Workloads, Reconcile(w)
        PROVE  Fresh(ic', pending', live'[a].config, live'[a].who)
    <3>1. live[a] # nil /\ live'[a].who = live[a].who
      BY <2>4, ReconcileUpdates
    <3>2. ic' = ic /\ pending' = pending \ {w}
      BY <2>4 DEF Reconcile
    <3>3. CASE ~SameConnection(live'[a], live[a])
      BY <2>4, <3>1, <3>2, <3>3, ReconcileUpdates DEF Fresh, ConfigIn, ContainerConfig
    <3>4. CASE SameConnection(live'[a], live[a]) /\ live[a].who.workload # w
      BY <2>2, <3>1, <3>2, <3>4 DEF SameConnection, Fresh, ConfigIn
    <3>5. CASE live[a].who.workload = w /\ ic[w] = nil
      BY <3>1, <3>2, <3>5 DEF Fresh, ConfigIn
    <3>6. CASE live[a].who.workload = w /\ ic[w] # nil
      <4> DEFINE config == ContainerConfig(live[a].who)
      <4>1. Unconfigured(w) = {}
        BY <2>4, <3>6 DEF Reconcile, Mishap
      <4>2. a \in ConnectionsOf(w)
        BY <3>1, <3>6 DEF ConnectionsOf
      <4>3. live'[a] = [live[a] EXCEPT !.config = config]
        BY <2>4, <3>6, <4>1, <4>2 DEF Reconcile, UpdateWorkloadRemoteConfig
      <4>4. live[a] \in ConnectionInfos
        BY <3>1, EntryTypes
      <4> HIDE DEF config
      <4>5. live'[a].config = config
        BY <4>3, <4>4 DEF ConnectionInfos
      <4> QED
        BY <3>1, <3>2, <4>5 DEF Fresh, ConfigIn, ContainerConfig, config
    <3> QED
      BY <3>3, <3>4, <3>5, <3>6
  <2>5. ASSUME \A h \in Handlers : ~CacheConnection(h), \A w \in Workloads : ~Reconcile(w)
        PROVE  Fresh(ic', pending', live'[a].config, live'[a].who)
    <3>1. live[a] # nil /\ live'[a].who = live[a].who /\ live'[a].config = live[a].config
      BY <2>5, ConnectionsKept DEF SameConnection
    <3>2. Fresh(ic', pending', live[a].config, live[a].who)
      BY <2>2, <2>5, <3>1, FreshKept, ContainerConfigType
    <3> QED
      BY <3>1, <3>2 DEF Fresh, ConfigIn
  <2> QED
    BY <2>3, <2>4, <2>5
<1> QED
  BY <1>1, <1>2, <1>3, TypeCorrect, PTL DEF Spec

-----------------------------------------------------------------------------
(* The InstrumentationInstance objects *)

Recorded == {"unknown", "healthy", "unhealthy"}

\* What the worker leaves of the object of a task's process.  The deletion that is ignored,
\* of a connection that had reported that it cannot connect, finds the object unhealthy.
Leaves(task) ==
    IF task.type = "delete" THEN IF task.noConnection THEN {"unhealthy"} ELSE {nil}
    ELSE IF Deletes(task) THEN {nil}
    ELSE IF task.msg.health = "healthy" THEN {"healthy"}
    ELSE IF task.msg.health # "none" THEN {"unhealthy"} ELSE Recorded

\* After the first n tasks the object is in S: the last of them for the process leaves it
\* there, or there is none and it is there already.  (That the last one decides is what
\* makes it unnecessary to reason about the tasks by induction.)
Outcome(tasks, objects, key, n, S) ==
    \/ \E i \in 1 .. n : /\ RecordKey(tasks[i].who) = key
                         /\ \A j \in i + 1 .. n : RecordKey(tasks[j].who) # key
                         /\ Leaves(tasks[i]) \subseteq S
    \/ /\ \A j \in 1 .. n : RecordKey(tasks[j].who) # key
       /\ objects[key] \in S

Ends(key, S) == Outcome(channel, records, key, Len(channel), S)

\* A larger set of outcomes.
LEMMA OutcomeWiden ==
    ASSUME NEW tasks, NEW objects, NEW key, NEW n, NEW S, NEW T, S \subseteq T,
           Outcome(tasks, objects, key, n, S)
    PROVE  Outcome(tasks, objects, key, n, T)
BY DEF Outcome

\* A task at the end changes the outcome for its own process only.
LEMMA OutcomeAppend ==
    ASSUME NEW tasks \in Seq(Tasks), NEW task \in Tasks, NEW objects, NEW key, NEW S
    PROVE  LET more == Append(tasks, task)
           IN  /\ Len(more) = Len(tasks) + 1
               /\ more[Len(tasks) + 1] = task
               /\ \A i \in 1 .. Len(tasks) : more[i] = tasks[i]
               /\ \A n \in 0 .. Len(tasks) :
                     Outcome(tasks, objects, key, n, S) => Outcome(more, objects, key, n, S)
               /\ RecordKey(task.who) # key /\ Outcome(tasks, objects, key, Len(tasks), S)
                     => Outcome(more, objects, key, Len(more), S)
               /\ RecordKey(task.who) = key /\ Leaves(task) \subseteq S
                     => Outcome(more, objects, key, Len(more), S)
<1> DEFINE more == Append(tasks, task)
           m == Len(tasks)
<1>1. /\ Len(more) = m + 1 /\ more[m + 1] = task /\ m \in Nat
      /\ \A i \in 1 .. m : more[i] = tasks[i]
  OBVIOUS
<1> HIDE DEF more, m
<1>2. ASSUME NEW n \in 0 .. m, Outcome(tasks, objects, key, n, S)
      PROVE  Outcome(more, objects, key, n, S)
  <2>1. \A i \in 1 .. n : more[i] = tasks[i]
    BY <1>1
  <2>2. \A i \in 1 .. n : \A j \in i + 1 .. n : j \in 1 .. n
    BY <1>1
  <2> QED
    BY <1>2, <2>1, <2>2 DEF Outcome
<1>3. ASSUME RecordKey(task.who) # key, Outcome(tasks, objects, key, m, S)
      PROVE  Outcome(more, objects, key, m + 1, S)
  <2>1. \A j \in 1 .. m + 1 : j \in 1 .. m \/ j = m + 1
    BY <1>1
  <2>2. CASE /\ \A j \in 1 .. m : RecordKey(tasks[j].who) # key
             /\ objects[key] \in S
    <3>1. \A j \in 1 .. m + 1 : RecordKey(more[j].who) # key
      BY <1>1, <1>3, <2>1, <2>2
    <3> QED
      BY <2>2, <3>1 DEF Outcome
  <2>3. ASSUME NEW i \in 1 .. m, RecordKey(tasks[i].who) = key,
               \A j \in i + 1 .. m : RecordKey(tasks[j].who) # key,
               Leaves(tasks[i]) \subseteq S
        PROVE  Outcome(more, objects, key, m + 1, S)
    <3>1. i \in 1 .. m + 1 /\ more[i] = tasks[i]
      BY <1>1
    <3>2. \A j \in i + 1 .. m + 1 : (j \in i + 1 .. m /\ j \in 1 .. m) \/ j = m + 1
      BY <1>1
    <3>3. \A j \in i + 1 .. m + 1 : RecordKey(more[j].who) # key
      BY <1>1, <1>3, <2>3, <3>2
    <3> QED
      BY <2>3, <3>1, <3>3 DEF Outcome
  <2> QED
    BY <1>3, <2>2, <2>3 DEF Outcome
<1>4. ASSUME RecordKey(task.who) = key, Leaves(task) \subseteq S
      PROVE  Outcome(more, objects, key, m + 1, S)
  <2>1. m + 1 \in 1 .. m + 1 /\ \A j \in (m + 1) + 1 .. m + 1 : FALSE
    BY <1>1
  <2> QED
    BY <1>1, <1>4, <2>1 DEF Outcome
<1> QED
  BY <1>1, <1>2, <1>3, <1>4 DEF more, m

\* The outcome stays the same when the worker does the first task as it should.
LEMMA OutcomeTail ==
    ASSUME NEW tasks \in Seq(Tasks), tasks # <<>>, NEW before, NEW after,
           after[RecordKey(Head(tasks).who)] \in Leaves(Head(tasks)),
           NEW key, key # RecordKey(Head(tasks).who) => after[key] = before[key],
           NEW n \in 1 .. Len(tasks), NEW S, Outcome(tasks, before, key, n, S)
    PROVE  Outcome(Tail(tasks), after, key, n - 1, S)
<1> DEFINE rest == Tail(tasks)
           first == Head(tasks)
<1>1. /\ first = tasks[1] /\ Len(tasks) \in Nat
      /\ \A i \in 1 .. n - 1 : rest[i] = tasks[i + 1]
  OBVIOUS
<1> HIDE DEF rest, first
<1>2. ASSUME \A j \in 2 .. n : RecordKey(tasks[j].who) # key
      PROVE  \A j \in 1 .. n - 1 : RecordKey(rest[j].who) # key
  <2>1. \A j \in 1 .. n - 1 : j + 1 \in 2 .. n
    BY <1>1
  <2> QED
    BY <1>1, <1>2, <2>1
<1>3. CASE /\ \A j \in 1 .. n : RecordKey(tasks[j].who) # key
           /\ before[key] \in S
  <2>1. 1 \in 1 .. n /\ \A j \in 2 .. n : j \in 1 .. n
    BY <1>1
  <2>2. key # RecordKey(first.who)
    BY <1>1, <1>3, <2>1
  <2> QED
    BY <1>2, <1>3, <2>1, <2>2 DEF Outcome, rest, first
<1>4. ASSUME NEW i \in 1 .. n, RecordKey(tasks[i].who) = key,
             \A j \in i + 1 .. n : RecordKey(tasks[j].who) # key,
             Leaves(tasks[i]) \subseteq S
      PROVE  Outcome(rest, after, key, n - 1, S)
  <2>1. CASE i = 1
    <3>1. \A j \in 2 .. n : RecordKey(tasks[j].who) # key
      BY <1>4, <2>1
    <3>2. after[key] \in S
      BY <1>1, <1>4, <2>1 DEF first
    <3> QED
      BY <1>2, <3>1, <3>2 DEF Outcome
  <2>2. CASE i # 1
    <3>1. i - 1 \in 1 .. n - 1 /\ rest[i - 1] = tasks[i]
      <4>1. i - 1 \in 1 .. n - 1 /\ (i - 1) + 1 = i
        BY <1>1, <2>2
      <4> QED
        BY <1>1, <4>1
    <3>2. ASSUME NEW j \in (i - 1) + 1 .. n - 1 PROVE RecordKey(rest[j].who) # key
      <4>1. j \in 1 .. n - 1 /\ j + 1 \in i + 1 .. n
        BY <1>1, <2>2
      <4> QED
        BY <1>1, <1>4, <4>1
    <3> QED
      BY <1>4, <3>1, <3>2 DEF Outcome
  <2> QED
    BY <2>1, <2>2
<1> QED
  BY <1>3, <1>4 DEF Outcome, rest

\* The task of a request.
UpdateTask(r) == [type |-> "update", who |-> r.who, msg |-> r.msg]

\* A request whose task was sent, and whose connection has yet to be brought up to date.
Enqueued(r) == r.known /\ r.step = "record" /\ (r.msg.description \/ r.msg.health # "none")

Serves(h, a) == handler[h] # nil /\ handler[h].agent = a

Connected(key) == \E a \in Agents : live[a] # nil /\ RecordKey(live[a].who) = key

\* Requests and connections are of the process whose agent they name.
WhoIsAgents ==
    /\ \A a \in Agents : live[a] # nil => live[a].who = agent[a].who
    /\ \A h \in Handlers : handler[h] # nil => handler[h].who = agent[handler[h].agent].who

ChannelBounded == Len(channel) <= ChannelCap

OneRequestPerProcess ==
    \A g, h \in Handlers :
        /\ handler[g] # nil /\ handler[h] # nil
        /\ SameProcess(handler[g].who, handler[h].who)
        => g = h

\* What a request found in the cache is still there.
LookedUp ==
    \A h \in Handlers : handler[h] # nil =>
        /\ handler[h].step = "enqueue" => live[handler[h].agent] # nil
        /\ handler[h].step = "record" => (handler[h].known <=> live[handler[h].agent] # nil)

\* A process is not connected while the deletion of its object waits to be sent.
ExpiredApart ==
    /\ \A conn \in expired : ~Connected(RecordKey(conn.who))
    /\ \A conn, other \in expired : SameProcess(conn.who, other.who) => conn = other

\* A deletion that will be ignored finds the object unhealthy.
KeptUnhealthy ==
    \A i \in DOMAIN channel :
        channel[i].type = "delete" /\ channel[i].noConnection =>
            Outcome(channel, records, RecordKey(channel[i].who), i - 1, {"unhealthy"})

ExpiredUnhealthy ==
    \A conn \in expired : conn.noConnection => Ends(RecordKey(conn.who), {"unhealthy"})

\* A connected process has an object, but for a request that has yet to send the first
\* update or has sent the last one.
ConnectedRecorded ==
    \A a \in Agents : live[a] # nil =>
        \/ Ends(RecordKey(live[a].who), Recorded)
        \/ \E h \in Handlers :
              /\ Serves(h, a)
              /\ \/ handler[h].step = "enqueue"
                 \/ handler[h].step = "record" /\ handler[h].msg.disconnect

\* A connection that reported that it cannot connect has an unhealthy object, unless a
\* later message is being served.
StatusRecorded ==
    \A a \in Agents : live[a] # nil /\ live[a].noConnection =>
        \/ Ends(RecordKey(live[a].who), {"unhealthy"})
        \/ \E h \in Handlers : Serves(h, a) /\ handler[h].step \in {"enqueue", "record"}

\* A last message says how the agent fared.
LastWordsOK(msg) == msg.disconnect => msg.health \notin {"none", "blank"}

LastWords ==
    /\ \A h \in Handlers : handler[h] # nil => LastWordsOK(handler[h].msg)
    /\ \A i \in DOMAIN channel : channel[i].type = "update" => LastWordsOK(channel[i].msg)

JustEnqueued ==
    \A h \in Handlers : handler[h] # nil /\ Enqueued(handler[h]) =>
        Ends(RecordKey(handler[h].who), Leaves(UpdateTask(handler[h])))

\* A process that is not connected has no object, or one kept for troubleshooting, once
\* its deletion was sent.
DisconnectedCleared ==
    \A key \in RecordKeys :
        ~Connected(key) /\ (\A conn \in expired : RecordKey(conn.who) # key)
            => Ends(key, {nil, "unhealthy"})

\* The inductive form of RecordsFollowConnections: connections, requests under way, tasks
\* in the channel and objects agree with each other.
RequestsOrderly == OneRequestPerProcess /\ LookedUp /\ LastWords
ObjectsOrderly ==
    /\ ExpiredApart /\ KeptUnhealthy /\ ExpiredUnhealthy /\ ConnectedRecorded
    /\ StatusRecorded /\ JustEnqueued /\ DisconnectedCleared
Orderly == ChannelBounded /\ RequestsOrderly /\ ObjectsOrderly

\* A process is known by pod and pid: pods of two namespaces do not share a name.  The
\* code takes this for granted (RemoveMatchingConnections compares pod names only).
PodNamesUnique == \A i, j \in Identities : i.process = j.process => i.namespace = j.namespace

\* One process, one key.
LEMMA KeysAreProcesses ==
    ASSUME PodNamesUnique, NEW i \in Identities, NEW j \in Identities
    PROVE  RecordKey(i) = RecordKey(j) <=> i.process = j.process
BY DEF PodNamesUnique, RecordKey

\* Who an agent is never changes, and requests and connections are given that identity.
LEMMA WhoStep ==
    ASSUME TypeOK, WhoIsAgents, [Next]_vars
    PROVE  WhoIsAgents'
<1>1. ASSUME NEW a \in Agents PROVE agent'[a].who = agent[a].who
  <2>1. agent[a] \in [state : {"unborn", "running", "gone"}, who : Identities,
                      describe : BOOLEAN, config : Configs \cup {nil}]
    BY EntryTypes
  <2>2. Gone(a).who = agent[a].who /\ [agent[a] EXCEPT !.state = "running"].who = agent[a].who
    BY <2>1 DEF Gone
  <2>3. ASSUME NEW b \in Agents, StartAgent(b) PROVE agent'[a].who = agent[a].who
    BY <2>2, <2>3 DEF StartAgent
  <2>4. ASSUME NEW b \in Agents, agent' = [agent EXCEPT ![b] = Gone(b)]
        PROVE  agent'[a].who = agent[a].who
    BY <2>2, <2>4 DEF TypeOK
  <2>5. ASSUME NEW h \in Handlers, FinishRequest(h) PROVE agent'[a].who = agent[a].who
    <3> DEFINE r == handler[h]
    <3>1. CASE agent' = agent
      BY <3>1
    <3>2. CASE agent' = [agent EXCEPT ![r.agent] = ReplyReceived(r)]
      <4>1. a = r.agent => ReplyReceived(r).who = agent[a].who
        <5> DEFINE config == IF r.config = nil THEN agent[a].config ELSE r.config
                   describe == ~r.known \/ (agent[a].describe /\ ~r.msg.description)
        <5>1. [agent[a] EXCEPT !.config = config, !.describe = describe].who = agent[a].who
          <6> HIDE DEF config, describe
          <6> QED
            BY <2>1
        <5> QED
          BY <5>1 DEF ReplyReceived
      <4> HIDE DEF r
      <4> QED
        BY <3>2, <4>1 DEF TypeOK
    <3> QED
      BY <2>5, <3>1, <3>2 DEF FinishRequest
  <2>6. ASSUME \A b \in Agents : ~StartAgent(b) /\ ~AgentDies(b),
               \A b \in Agents, h \in Handlers : ~Disconnect(h, b),
               \A h \in Handlers : ~FinishRequest(h)
        PROVE  agent' = agent
    BY <2>6 DEF Next, FallSilent, Heartbeat, ServeRequest, GetConnection, OnNewConnection,
       CacheConnection, Enqueue, CleanupStaleConnections, SendDeletion,
       ProcessInstrumentationUpdates, ChangeConfig, Reconcile, CancelContext, Shutdown,
       CloseChannel, ShutdownServer, StartReturns, Restart, vars
  <2> QED
    BY <2>3, <2>4, <2>5, <2>6 DEF AgentDies, Disconnect
<1>2. ASSUME NEW h \in Handlers, handler'[h] # nil
      PROVE  \/ /\ handler[h] # nil
                /\ handler'[h].who = handler[h].who /\ handler'[h].agent = handler[h].agent
             \/ handler'[h].agent \in Agents /\ handler'[h].who = agent[handler'[h].agent].who
  <2>1. CASE handler'[h] = handler[h]
    BY <1>2, <2>1
  <2>2. ASSUME NEW g \in Handlers, NEW a \in Agents, Heartbeat(g, a) \/ Disconnect(g, a)
        PROVE  \/ handler'[h] = handler[h]
               \/ /\ handler'[h].agent \in Agents
                  /\ handler'[h].who = agent[handler'[h].agent].who
    <3>1. PICK r : /\ r.agent = a /\ r.who = agent[a].who
                   /\ handler' = [handler EXCEPT ![g] = r]
      BY <2>2 DEF Heartbeat, Disconnect, Send
    <3> QED
      BY <3>1 DEF TypeOK
  <2>3. ASSUME NEW g \in Handlers, ServeRequest(g)
        PROVE  \/ handler'[h] = handler[h]
               \/ /\ handler[h] # nil
                  /\ handler'[h].who = handler[h].who /\ handler'[h].agent = handler[h].agent
    <3> DEFINE r == handler[g]
    <3>1. r \in Requests /\ r # nil
      BY <2>3, EntryTypes DEF ServeRequest, GetConnection, OnNewConnection, CacheConnection,
         Enqueue, FinishRequest
    <3>2. \/ handler' = [handler EXCEPT ![g] = nil]
          \/ \E known, config, step :
                handler' = [handler EXCEPT ![g] =
                                [r EXCEPT !.known = known, !.config = config, !.step = step]]
          \/ \E config, step :
                handler' = [handler EXCEPT ![g] = [r EXCEPT !.config = config, !.step = step]]
          \/ \E step : handler' = [handler EXCEPT ![g] = [r EXCEPT !.step = step]]
      BY <2>3 DEF ServeRequest, GetConnection, OnNewConnection, CacheConnection, Enqueue,
         FinishRequest
    <3>3. \A known, config, step :
             /\ [r EXCEPT !.known = known, !.config = config, !.step = step].who = r.who
             /\ [r EXCEPT !.known = known, !.config = config, !.step = step].agent = r.agent
             /\ [r EXCEPT !.config = config, !.step = step].who = r.who
             /\ [r EXCEPT !.config = config, !.step = step].agent = r.agent
             /\ [r EXCEPT !.step = step].who = r.who
             /\ [r EXCEPT !.step = step].agent = r.agent
      <4> HIDE DEF r
      <4> QED
        BY <3>1 DEF Requests
    <3>4. \/ handler' = [handler EXCEPT ![g] = nil]
          \/ \E n : /\ n.who = r.who /\ n.agent = r.agent
                    /\ handler' = [handler EXCEPT ![g] = n]
      <4> DEFINE Goes(n) == n.who = r.who /\ n.agent = r.agent
      <4>1. \A known, config, step :
               /\ Goes([r EXCEPT !.known = known, !.config = config, !.step = step])
               /\ Goes([r EXCEPT !.config = config, !.step = step])
               /\ Goes([r EXCEPT !.step = step])
        BY <3>3
      <4> HIDE DEF Goes
      <4>2. \/ handler' = [handler EXCEPT ![g] = nil]
            \/ \E n : Goes(n) /\ handler' = [handler EXCEPT ![g] = n]
        BY <3>2, <4>1
      <4> QED
        BY <4>2 DEF Goes
    <3> QED
      BY <1>2, <3>1, <3>4 DEF TypeOK
  <2>4. CASE Restart
    BY <1>2, <2>4 DEF Restart
  <2>5. ASSUME \A g \in Handlers, a \in Agents : ~Heartbeat(g, a) /\ ~Disconnect(g, a),
               \A g \in Handlers : ~ServeRequest(g),
               ~Restart
        PROVE  handler' = handler
    BY <2>5 DEF Next, StartAgent, AgentDies, FallSilent, CleanupStaleConnections,
       SendDeletion, ProcessInstrumentationUpdates, ChangeConfig, Reconcile, CancelContext,
       Shutdown, CloseChannel, ShutdownServer, StartReturns, vars
  <2> QED
    BY <2>1, <2>2, <2>3, <2>4, <2>5
<1>3. ASSUME NEW a \in Agents, live'[a] # nil PROVE live'[a].who = agent'[a].who
  <2>1. ASSUME NEW h \in Handlers, CacheConnection(h) PROVE live'[a].who = agent[a].who
    <3>1. handler[h] # nil
      BY <2>1 DEF CacheConnection
    <3> QED
      BY <1>3, <2>1, <3>1, CacheConnectionEffect DEF WhoIsAgents
  <2>2. ASSUME NEW w \in Workloads, Reconcile(w) PROVE live'[a].who = agent[a].who
    BY <1>3, <2>2, ReconcileUpdates DEF WhoIsAgents
  <2>3. live'[a].who = agent[a].who
    BY <1>3, <2>1, <2>2, ConnectionsKept DEF WhoIsAgents, SameConnection
  <2> QED
    BY <1>1, <2>3
<1>4. ASSUME NEW h \in Handlers, handler'[h] # nil
      PROVE  handler'[h].who = agent'[handler'[h].agent].who
  <2>1. handler[h] # nil => handler[h].agent \in Agents
    BY RequestFields
  <2> QED
    BY <1>1, <1>2, <1>4, <2>1 DEF WhoIsAgents
<1> QED
  BY <1>3, <1>4 DEF WhoIsAgents

\* Two states of a connection that differ in its times and configuration only.
SameStatus(new, old) ==
    /\ new = nil <=> old = nil
    /\ old # nil => new.who = old.who /\ new.noConnection = old.noConnection

\* Steps that leave requests, tasks and objects alone.
LEMMA OrderlyKept ==
    ASSUME Orderly, UNCHANGED <<channel, expired, records, handler>>,
           \A a \in Agents : SameStatus(live'[a], live[a]),
           \A h \in Handlers : handler[h] # nil => handler[h].agent \in Agents
    PROVE  Orderly'
<1>1. ChannelBounded' /\ OneRequestPerProcess' /\ LastWords' /\ KeptUnhealthy'
  BY DEF Orderly, RequestsOrderly, ObjectsOrderly, ChannelBounded, OneRequestPerProcess,
     LastWords, KeptUnhealthy
<1>2. LookedUp'
  BY DEF Orderly, RequestsOrderly, LookedUp, SameStatus
<1>3. \A key : Connected(key)' <=> Connected(key)
  BY DEF Connected, SameStatus
<1>4. ExpiredApart' /\ ExpiredUnhealthy' /\ JustEnqueued' /\ DisconnectedCleared'
  BY <1>3 DEF Orderly, ObjectsOrderly, ExpiredApart, ExpiredUnhealthy, JustEnqueued,
     DisconnectedCleared, Ends
<1>5. ConnectedRecorded'
  BY DEF Orderly, ObjectsOrderly, ConnectedRecorded, Serves, Ends, SameStatus
<1>6. StatusRecorded'
  BY DEF Orderly, ObjectsOrderly, StatusRecorded, Serves, Ends, SameStatus
<1> QED
  BY <1>1, <1>2, <1>4, <1>5, <1>6 DEF Orderly, RequestsOrderly, ObjectsOrderly

\* Steps of a request that has not yet cached or sent anything.
LEMMA OrderlyRequest ==
    ASSUME TypeOK, Orderly, UNCHANGED <<live, channel, expired, records>>,
           NEW h \in Handlers, NEW r, handler' = [handler EXCEPT ![h] = r],
           handler[h] # nil => handler[h].step \in {"get", "new"},
           r # nil =>
               /\ LastWordsOK(r.msg)
               /\ \A g \in Handlers : handler[g] # nil /\ SameProcess(handler[g].who, r.who)
                                          => g = h
               /\ r.step = "enqueue" => live[r.agent] # nil
               /\ r.step = "record" => (r.known <=> live[r.agent] # nil) /\ ~Enqueued(r)
    PROVE  Orderly'
<1>1. handler'[h] = r /\ \A g \in Handlers : g # h => handler'[g] = handler[g]
  BY DEF TypeOK
<1>2. ChannelBounded' /\ KeptUnhealthy' /\ ExpiredApart' /\ ExpiredUnhealthy'
          /\ DisconnectedCleared'
  BY DEF Orderly, ObjectsOrderly, ChannelBounded, KeptUnhealthy, ExpiredApart,
     ExpiredUnhealthy, DisconnectedCleared, Connected, Ends
<1>3. LastWords'
  BY <1>1 DEF Orderly, RequestsOrderly, LastWords
<1>4. OneRequestPerProcess'
  BY <1>1 DEF Orderly, RequestsOrderly, OneRequestPerProcess, SameProcess
<1>5. LookedUp'
  BY <1>1 DEF Orderly, RequestsOrderly, LookedUp
<1>6. \A g \in Handlers, a \in Agents :
          Serves(g, a) /\ handler[g].step \in {"enqueue", "record"}
              => Serves(g, a)' /\ handler'[g] = handler[g]
  BY <1>1 DEF Serves
<1>7. ConnectedRecorded'
  BY <1>6 DEF Orderly, ObjectsOrderly, ConnectedRecorded, Ends
<1>8. StatusRecorded'
  BY <1>6 DEF Orderly, ObjectsOrderly, StatusRecorded, Ends
<1>9. JustEnqueued'
  BY <1>1 DEF Orderly, ObjectsOrderly, JustEnqueued, Enqueued, Ends, UpdateTask
<1> QED
  BY <1>2, <1>3, <1>4, <1>5, <1>7, <1>8, <1>9 DEF Orderly, RequestsOrderly, ObjectsOrderly

\* A message arrives when no other of its process is being served.
LEMMA SendOrderly ==
    ASSUME TypeOK, Orderly, "record" \notin hist', NEW h \in Handlers, NEW a \in Agents,
           Heartbeat(h, a) \/ Disconnect(h, a)
    PROVE  Orderly'
<1> SUFFICES ASSUME NEW health, NEW disconnect, Send(h, a, health, disconnect)
             PROVE  Orderly'
  BY DEF Heartbeat, Disconnect
<1> DEFINE reported == IF a \in OldAgents THEN nil ELSE agent[a].config
           r == [agent |-> a, who |-> agent[a].who, known |-> FALSE, step |-> "get",
                 config |-> reported,
                 msg |-> [description |-> agent[a].describe, health |-> health,
                          disconnect |-> disconnect]]
<1>2. handler[h] = nil /\ handler' = [handler EXCEPT ![h] = r]
  BY DEF Send
<1>3. r.who = agent[a].who /\ r.step = "get" /\ r.msg.health = health
          /\ r.msg.disconnect = disconnect
  OBVIOUS
<1>4. /\ ~(disconnect /\ health \in {"none", "blank"})
      /\ \A g \in Handlers : ~(handler[g] # nil /\ SameProcess(handler[g].who, agent[a].who))
  BY DEF Send, Mishap
<1>5. UNCHANGED <<live, channel, expired, records>>
  BY DEF Send
<1> HIDE DEF r
<1>6. LastWordsOK(r.msg)
  BY <1>3, <1>4 DEF LastWordsOK
<1> QED
  BY <1>2, <1>3, <1>4, <1>5, <1>6, OrderlyRequest

\* A request looks its connection up, or reads what a new one needs.
LEMMA LookupOrderly ==
    ASSUME TypeOK, Orderly, NEW h \in Handlers, GetConnection(h) \/ OnNewConnection(h)
    PROVE  Orderly'
<1> DEFINE r == handler[h]
<1>1. r # nil /\ r \in Requests /\ r.step \in {"get", "new"} /\ ~r.known
  <2>1. r # nil /\ r.step \in {"get", "new"}
    BY DEF GetConnection, OnNewConnection
  <2> QED
    BY <2>1 DEF TypeOK
<1>2. /\ LastWordsOK(r.msg)
      /\ \A g \in Handlers : handler[g] # nil /\ SameProcess(handler[g].who, r.who) => g = h
  BY <1>1 DEF Orderly, RequestsOrderly, LastWords, OneRequestPerProcess
<1>3. UNCHANGED <<live, channel, expired, records>>
  BY DEF GetConnection, OnNewConnection
<1>4. ASSUME NEW n, handler' = [handler EXCEPT ![h] = n], n.msg = r.msg, n.who = r.who,
             n.step = "enqueue" => live[n.agent] # nil,
             n.step = "record" => (n.known <=> live[n.agent] # nil) /\ ~Enqueued(n)
      PROVE  Orderly'
  <2> HIDE DEF r
  <2>1. LastWordsOK(n.msg)
    BY <1>2, <1>4
  <2>2. \A g \in Handlers : handler[g] # nil /\ SameProcess(handler[g].who, n.who) => g = h
    BY <1>2, <1>4
  <2> QED
    BY <1>1, <1>3, <1>4, <2>1, <2>2, OrderlyRequest DEF r
<1>5. CASE GetConnection(h)
  <2> DEFINE conn == live[r.agent]
             step == AfterLookup(r.msg)
             config == OnAgentToServerMessage(r.config, conn)
             found == [r EXCEPT !.known = TRUE, !.config = config, !.step = step]
             new == [r EXCEPT !.step = "new"]
             unknown == [r EXCEPT !.config = nil, !.step = "record"]
  <2>1. /\ found.msg = r.msg /\ found.who = r.who /\ found.agent = r.agent
        /\ found.known /\ found.step = step
        /\ new.msg = r.msg /\ new.who = r.who /\ new.step = "new"
        /\ unknown.msg = r.msg /\ unknown.who = r.who /\ unknown.agent = r.agent
        /\ ~unknown.known /\ unknown.step = "record"
    <3> HIDE DEF r, config, step
    <3> QED
      BY <1>1 DEF Requests
  <2>2. step = "record" => ~(r.msg.description \/ r.msg.health # "none")
    BY DEF AfterLookup
  <2>3. \/ conn # nil /\ handler' = [handler EXCEPT ![h] = found]
        \/ handler' = [handler EXCEPT ![h] = new]
        \/ conn = nil /\ handler' = [handler EXCEPT ![h] = unknown]
    BY <1>5 DEF GetConnection
  <2> HIDE DEF found, new, unknown, step
  <2>4. CASE conn # nil /\ handler' = [handler EXCEPT ![h] = found]
    BY <1>4, <2>1, <2>2, <2>4 DEF Enqueued
  <2>5. CASE handler' = [handler EXCEPT ![h] = new]
    BY <1>4, <2>1, <2>5
  <2>6. CASE conn = nil /\ handler' = [handler EXCEPT ![h] = unknown]
    BY <1>4, <2>1, <2>6 DEF Enqueued
  <2> QED
    BY <2>3, <2>4, <2>5, <2>6
<1>6. CASE OnNewConnection(h)
  <2> DEFINE config == ContainerConfig(r.who)
             new == [r EXCEPT !.known = TRUE, !.config = config, !.step = "add"]
  <2>1. new.msg = r.msg /\ new.who = r.who /\ new.step = "add"
    <3> HIDE DEF r, config
    <3> QED
      BY <1>1 DEF Requests
  <2>2. handler' = [handler EXCEPT ![h] = new] \/ handler' = [handler EXCEPT ![h] = nil]
    BY <1>6 DEF OnNewConnection
  <2> HIDE DEF new
  <2>3. CASE handler' = [handler EXCEPT ![h] = new]
    BY <1>4, <2>1, <2>3
  <2>4. CASE handler' = [handler EXCEPT ![h] = nil]
    BY <1>1, <1>3, <2>4, OrderlyRequest
  <2> QED
    BY <2>2, <2>3, <2>4
<1> QED
  BY <1>5, <1>6

\* A process has one connection and one request, and they name the same agent.
LEMMA OneEach ==
    ASSUME PodNamesUnique, TypeOK, WhoIsAgents, OneConnectionPerProcess
    PROVE  /\ \A a, b \in Agents :
                 live[a] # nil /\ live[b] # nil /\ RecordKey(live[a].who) = RecordKey(live[b].who)
                     => a = b
           /\ \A h \in Handlers : handler[h] # nil /\ live[handler[h].agent] # nil
                     => live[handler[h].agent].who = handler[h].who
           /\ \A g, h \in Handlers :
                 handler[g] # nil /\ handler[h] # nil /\ OneRequestPerProcess
                     => g = h \/ /\ handler[g].agent # handler[h].agent
                                 /\ RecordKey(handler[g].who) # RecordKey(handler[h].who)
<1>1. \A a \in Agents : live[a] # nil => live[a].who \in Identities
  BY EntryTypes DEF ConnectionInfos
<1>2. \A a, b \in Agents :
          live[a] # nil /\ live[b] # nil /\ RecordKey(live[a].who) = RecordKey(live[b].who)
              => a = b
  BY <1>1, KeysAreProcesses DEF OneConnectionPerProcess
<1>3. \A h \in Handlers : handler[h] # nil /\ live[handler[h].agent] # nil
          => live[handler[h].agent].who = handler[h].who
  BY RequestFields DEF WhoIsAgents
<1>4. \A g, h \in Handlers :
          handler[g] # nil /\ handler[h] # nil /\ OneRequestPerProcess
              => g = h \/ /\ handler[g].agent # handler[h].agent
                          /\ RecordKey(handler[g].who) # RecordKey(handler[h].who)
  BY DEF WhoIsAgents, OneRequestPerProcess, SameProcess
<1> QED
  BY <1>2, <1>3, <1>4

\* A new connection is cached while no deletion of its process waits to be sent.
LEMMA CacheOrderly ==
    ASSUME PodNamesUnique, TypeOK, WhoIsAgents, OneConnectionPerProcess, Orderly,
           "record" \notin hist', NEW h \in Handlers, CacheConnection(h)
    PROVE  Orderly'
<1> DEFINE r == handler[h]
           key == RecordKey(r.who)
<1>1. /\ r # nil /\ r.step = "add" /\ r.agent \in Agents /\ r.who \in Identities
      /\ UNCHANGED <<channel, expired, records>>
      /\ \A conn \in expired : RecordKey(conn.who) # key
  BY RequestFields DEF CacheConnection, Mishap, SameProcess
<1>2. /\ handler'[h] # nil /\ handler'[h].step = "enqueue" /\ handler'[h].msg = r.msg
      /\ handler'[h].who = r.who /\ handler'[h].agent = r.agent
      /\ \A g \in Handlers : g # h => handler'[g] = handler[g]
  <2> DEFINE n == [r EXCEPT !.step = "enqueue"]
  <2>1. n \in Requests /\ n.step = "enqueue" /\ n.msg = r.msg /\ n.who = r.who
            /\ n.agent = r.agent
    <3>1. r \in Requests
      BY <1>1, RequestFields
    <3> HIDE DEF r
    <3> QED
      BY <3>1 DEF Requests
  <2>2. n # nil
    BY <2>1, NilAssumption
  <2>3. handler' = [handler EXCEPT ![h] = n]
    BY DEF CacheConnection
  <2> HIDE DEF n
  <2> QED
    BY <2>1, <2>2, <2>3 DEF TypeOK
<1>3. live'[r.agent] # nil /\ live'[r.agent].who = r.who /\ ~live'[r.agent].noConnection
  <2>1. live'[r.agent] = NewConnectionInfo(r)
    BY <1>1 DEF CacheConnection, AddConnection
  <2>2. live'[r.agent] # nil /\ live'[r.agent].who = r.who
    BY <1>1, CacheConnectionEffect
  <2> QED
    BY <2>1, <2>2 DEF NewConnectionInfo
<1>4. ASSUME NEW a \in Agents, a # r.agent
      PROVE  /\ live'[a] # nil => live'[a] = live[a]
             /\ live[a] # nil /\ RecordKey(live[a].who) # key => live'[a] = live[a]
             /\ live'[a] # nil => RecordKey(live'[a].who) # key
  <2>1. live'[a] = IF live[a] # nil /\ live[a].who.process = r.who.process THEN nil
                   ELSE live[a]
    BY <1>1, <1>4 DEF CacheConnection, AddConnection, NewConnectionInfo
  <2>2. live[a] # nil => live[a].who \in Identities
    BY EntryTypes DEF ConnectionInfos
  <2>3. live[a] # nil =>
            (RecordKey(live[a].who) = key <=> live[a].who.process = r.who.process)
    BY <1>1, <2>2, KeysAreProcesses
  <2> HIDE DEF key, r
  <2> QED
    BY <2>1, <2>3
<1>5. live[r.agent] # nil => live[r.agent].who = r.who
  BY <1>1, OneEach
<1>6. \A g \in Handlers : handler[g] # nil /\ g # h =>
          handler[g].agent \in Agents /\ handler[g].agent # r.agent
              /\ RecordKey(handler[g].who) # key
              /\ (live[handler[g].agent] # nil => live[handler[g].agent].who = handler[g].who)
  BY <1>1, OneEach, RequestFields DEF Orderly, RequestsOrderly
<1> HIDE DEF r, key
<1>7. \A k : k # key => (Connected(k)' <=> Connected(k))
  BY <1>1, <1>3, <1>4, <1>5 DEF Connected, key
<1>8. \A k : k = key => Connected(k)'
  BY <1>1, <1>3 DEF Connected, key
<1>9. ChannelBounded' /\ KeptUnhealthy' /\ ExpiredUnhealthy'
  BY <1>1 DEF Orderly, ObjectsOrderly, ChannelBounded, KeptUnhealthy, ExpiredUnhealthy, Ends
<1>10. LastWords'
  BY <1>1, <1>2 DEF Orderly, RequestsOrderly, LastWords, r
<1>11. OneRequestPerProcess'
  BY <1>1, <1>2, <1>6 DEF Orderly, RequestsOrderly, OneRequestPerProcess, SameProcess, key
<1>12. LookedUp'
  <2>1. ASSUME NEW g \in Handlers, g # h, handler[g] # nil
        PROVE  live'[handler[g].agent] # nil <=> live[handler[g].agent] # nil
    BY <1>4, <1>6, <2>1
  <2> QED
    BY <1>2, <1>3, <2>1 DEF Orderly, RequestsOrderly, LookedUp
<1>13. ExpiredApart'
  BY <1>1, <1>7 DEF Orderly, ObjectsOrderly, ExpiredApart
<1>14. \A g \in Handlers, a \in Agents :
          Serves(g, a) /\ handler[g].step \in {"enqueue", "record"}
              => Serves(g, a)' /\ handler'[g] = handler[g]
  BY <1>1, <1>2 DEF Serves, r
<1>15. \A a : a = r.agent => Serves(h, a)'
  BY <1>2 DEF Serves
<1>16. ConnectedRecorded'
  <2>1. ASSUME NEW a \in Agents, a # r.agent, live'[a] # nil
        PROVE  \/ Ends(RecordKey(live[a].who), Recorded)
               \/ \E g \in Handlers :
                     /\ Serves(g, a)'
                     /\ \/ handler'[g].step = "enqueue"
                        \/ handler'[g].step = "record" /\ handler'[g].msg.disconnect
    BY <1>4, <1>14, <2>1 DEF Orderly, ObjectsOrderly, ConnectedRecorded
  <2> QED
    BY <1>1, <1>2, <1>4, <1>15, <2>1 DEF ConnectedRecorded, Ends
<1>17. StatusRecorded'
  BY <1>1, <1>3, <1>4, <1>14 DEF Orderly, ObjectsOrderly, StatusRecorded, Ends
<1>18. JustEnqueued'
  BY <1>1, <1>2 DEF Orderly, ObjectsOrderly, JustEnqueued, Enqueued, Ends, UpdateTask
<1>19. DisconnectedCleared'
  BY <1>1, <1>7, <1>8 DEF Orderly, ObjectsOrderly, DisconnectedCleared, Ends
<1> QED
  BY <1>9, <1>10, <1>11, <1>12, <1>13, <1>16, <1>17, <1>18, <1>19
     DEF Orderly, RequestsOrderly, ObjectsOrderly

\* A task that is sent is the last of the channel, and leaves the outcome for other
\* processes as it was.
LEMMA TrySendEffect ==
    ASSUME TypeOK, Orderly, "record" \notin hist', NEW task \in Tasks, TrySend(task),
           UNCHANGED records
    PROVE  /\ ChannelBounded'
           /\ \A i \in DOMAIN channel' : \/ i \in DOMAIN channel /\ channel'[i] = channel[i]
                                         \/ i = Len(channel) + 1 /\ channel'[i] = task
           /\ (task.type = "update" => LastWordsOK(task.msg)) =>
                 \A i \in DOMAIN channel' :
                     channel'[i].type = "update" => LastWordsOK(channel'[i].msg)
           /\ \A k, S : k # RecordKey(task.who) /\ Ends(k, S) => Ends(k, S)'
           /\ \A k, S : k = RecordKey(task.who) /\ Leaves(task) \subseteq S => Ends(k, S)'
           /\ (task.type = "delete" /\ task.noConnection
                  => Ends(RecordKey(task.who), {"unhealthy"})) => KeptUnhealthy'
<1> DEFINE m == Len(channel)
<1>1. channel \in Seq(Tasks) /\ m \in Nat /\ m <= ChannelCap /\ DOMAIN channel = 1 .. m
  BY DEF TypeOK, Orderly, ChannelBounded
<1>2. m # ChannelCap
  BY DEF TrySend, Mishap
<1>3. m + 1 <= ChannelCap /\ channel' = Append(channel, task)
  <2>1. m < ChannelCap /\ m + 1 <= ChannelCap
    <3> HIDE DEF m
    <3> QED
      BY <1>1, <1>2, OpampAssumption
  <2> QED
    BY <2>1 DEF TrySend
<1>4. /\ Len(channel') = m + 1 /\ channel'[m + 1] = task /\ DOMAIN channel' = 1 .. m + 1
      /\ \A i \in 1 .. m : channel'[i] = channel[i]
  BY <1>1, <1>3
<1>5. \A k, S, n : n \in 0 .. m /\ Outcome(channel, records, k, n, S)
                       => Outcome(channel', records', k, n, S)
  BY <1>1, <1>3, OutcomeAppend
<1>6. \A k, S : k # RecordKey(task.who) /\ Outcome(channel, records, k, m, S)
                    => Outcome(channel', records', k, m + 1, S)
  BY <1>1, <1>3, <1>4, OutcomeAppend
<1>7. \A k, S : k = RecordKey(task.who) /\ Leaves(task) \subseteq S
                    => Outcome(channel', records', k, m + 1, S)
  BY <1>1, <1>3, <1>4, OutcomeAppend
<1>8. ChannelBounded'
  BY <1>3, <1>4 DEF ChannelBounded
<1>9. \A i \in DOMAIN channel' : \/ i \in DOMAIN channel /\ channel'[i] = channel[i]
                                 \/ i = m + 1 /\ channel'[i] = task
  BY <1>1, <1>4
<1>10. (task.type = "update" => LastWordsOK(task.msg)) =>
           \A i \in DOMAIN channel' :
               channel'[i].type = "update" => LastWordsOK(channel'[i].msg)
  BY <1>9 DEF Orderly, RequestsOrderly, LastWords
<1>11. ASSUME task.type = "delete" /\ task.noConnection
                  => Ends(RecordKey(task.who), {"unhealthy"})
       PROVE  KeptUnhealthy'
  <2> SUFFICES ASSUME NEW i \in DOMAIN channel', channel'[i].type = "delete",
                      channel'[i].noConnection
               PROVE  Outcome(channel', records', RecordKey(channel'[i].who), i - 1,
                              {"unhealthy"})
    BY DEF KeptUnhealthy
  <2>1. CASE i \in DOMAIN channel /\ channel'[i] = channel[i]
    <3>1. Outcome(channel, records, RecordKey(channel[i].who), i - 1, {"unhealthy"})
      BY <2>1 DEF Orderly, ObjectsOrderly, KeptUnhealthy
    <3>2. i - 1 \in 0 .. m
      BY <1>1, <2>1
    <3> QED
      BY <1>5, <2>1, <3>1, <3>2
  <2>2. CASE i = m + 1 /\ channel'[i] = task
    <3>1. Outcome(channel, records, RecordKey(task.who), m, {"unhealthy"})
      BY <1>11, <2>2 DEF Ends
    <3>2. i - 1 = m /\ m \in 0 .. m
      BY <1>1, <2>2
    <3> QED
      BY <1>5, <2>2, <3>1, <3>2
  <2> QED
    BY <1>9, <2>1, <2>2
<1> QED
  BY <1>4, <1>6, <1>7, <1>8, <1>9, <1>10, <1>11 DEF Ends

\* The task of a request is sent: from then on it decides the outcome for its process.
LEMMA EnqueueOrderly ==
    ASSUME PodNamesUnique, TypeOK, WhoIsAgents, OneConnectionPerProcess, Orderly,
           "record" \notin hist', NEW h \in Handlers, Enqueue(h)
    PROVE  Orderly'
<1> DEFINE r == handler[h]
           key == RecordKey(r.who)
           task == UpdateTask(r)
<1>1. /\ r # nil /\ r.step = "enqueue" /\ r.agent \in Agents /\ r.who \in Identities
      /\ r \in Requests /\ r.msg \in AgentToServer /\ r.known
      /\ UNCHANGED <<live, expired, records>>
  <2>1. /\ r # nil /\ r.step = "enqueue" /\ UNCHANGED <<live, expired, records>>
    BY DEF Enqueue
  <2>2. r.known
    BY <2>1 DEF TypeOK
  <2> QED
    BY <2>1, <2>2, RequestFields
<1>2. TrySend(task) /\ handler' = [handler EXCEPT ![h].step = "record"]
  BY DEF Enqueue, Mishap, UpdateTask
<1>3. /\ handler'[h] # nil /\ handler'[h].step = "record" /\ handler'[h].msg = r.msg
      /\ handler'[h].who = r.who /\ handler'[h].agent = r.agent /\ handler'[h].known
      /\ \A g \in Handlers : g # h => handler'[g] = handler[g]
  <2> DEFINE n == [r EXCEPT !.step = "record"]
  <2>1. n \in Requests /\ n.step = "record" /\ n.msg = r.msg /\ n.who = r.who
            /\ n.agent = r.agent /\ n.known = r.known
    <3> HIDE DEF r, key, task
    <3> QED
      BY <1>1 DEF Requests
  <2>2. n # nil
    BY <2>1, NilAssumption
  <2>3. handler' = [handler EXCEPT ![h] = n]
    BY <1>2
  <2> HIDE DEF n
  <2> QED
    BY <1>1, <2>1, <2>2, <2>3 DEF TypeOK
<1>4. /\ task \in Tasks /\ task.type = "update" /\ task.msg = r.msg
      /\ RecordKey(task.who) = key
  BY <1>1 DEF UpdateTask, Tasks
<1>5. live[r.agent] # nil /\ live[r.agent].who = r.who
  BY <1>1, OneEach DEF Orderly, RequestsOrderly, LookedUp
<1>6. \A g \in Handlers : handler[g] # nil /\ g # h =>
          handler[g].agent # r.agent /\ RecordKey(handler[g].who) # key
  BY <1>1, OneEach DEF Orderly, RequestsOrderly
<1>7. \A a \in Agents : live[a] # nil /\ a # r.agent => RecordKey(live[a].who) # key
  BY <1>1, <1>5, OneEach
<1>8. ~r.msg.disconnect => Leaves(task) \subseteq Recorded
  BY <1>4 DEF Leaves, Deletes, Recorded
<1>9. \A k : Connected(k)' <=> Connected(k)
  BY <1>1 DEF Connected
<1>10. Connected(key)
  BY <1>1, <1>5 DEF Connected
<1>11. LastWordsOK(r.msg)
  BY <1>1 DEF Orderly, RequestsOrderly, LastWords
<1>12. /\ ChannelBounded' /\ KeptUnhealthy'
       /\ \A i \in DOMAIN channel' : channel'[i].type = "update" => LastWordsOK(channel'[i].msg)
       /\ \A k, S : k # key /\ Ends(k, S) => Ends(k, S)'
       /\ \A k, S : k = key /\ Leaves(task) \subseteq S => Ends(k, S)'
  BY <1>1, <1>2, <1>4, <1>11, TrySendEffect
<1>13. \A k : k = RecordKey(handler'[h].who) => k = key
  BY <1>3
<1>14. Leaves(UpdateTask(handler'[h])) = Leaves(task)
  BY <1>3 DEF UpdateTask
<1> HIDE DEF r, key, task
<1>15. LastWords' /\ OneRequestPerProcess' /\ LookedUp'
  <2>1. LastWords'
    BY <1>3, <1>11, <1>12 DEF Orderly, RequestsOrderly, LastWords
  <2>2. OneRequestPerProcess'
    BY <1>1, <1>3, <1>6 DEF Orderly, RequestsOrderly, OneRequestPerProcess, SameProcess, key
  <2>3. LookedUp'
    BY <1>1, <1>3, <1>5 DEF Orderly, RequestsOrderly, LookedUp
  <2> QED
    BY <2>1, <2>2, <2>3
<1>16. ExpiredApart' /\ ExpiredUnhealthy'
  BY <1>1, <1>9, <1>10, <1>12 DEF Orderly, ObjectsOrderly, ExpiredApart, ExpiredUnhealthy
<1>17. \A g \in Handlers, a \in Agents : Serves(g, a) /\ a # r.agent
          => Serves(g, a)' /\ handler'[g] = handler[g]
  BY <1>3 DEF Serves, r
<1>18. \A a : a = r.agent => Serves(h, a)'
  BY <1>3 DEF Serves
<1>19. ConnectedRecorded'
  <2> SUFFICES ASSUME NEW a \in Agents, live'[a] # nil
               PROVE  (\/ Ends(RecordKey(live[a].who), Recorded)
                       \/ \E g \in Handlers :
                             /\ Serves(g, a)
                             /\ \/ handler[g].step = "enqueue"
                                \/ handler[g].step = "record" /\ handler[g].msg.disconnect)'
    BY DEF ConnectedRecorded
  <2>1. CASE a = r.agent /\ r.msg.disconnect
    BY <1>3, <1>18, <2>1
  <2>2. CASE a = r.agent /\ ~r.msg.disconnect
    BY <1>1, <1>5, <1>8, <1>12, <2>2 DEF key
  <2>3. CASE a # r.agent
    BY <1>1, <1>7, <1>12, <1>17, <2>3 DEF Orderly, ObjectsOrderly, ConnectedRecorded
  <2> QED
    BY <2>1, <2>2, <2>3
<1>20. StatusRecorded'
  <2> SUFFICES ASSUME NEW a \in Agents, live'[a] # nil, live'[a].noConnection
               PROVE  (\/ Ends(RecordKey(live[a].who), {"unhealthy"})
                       \/ \E g \in Handlers :
                             Serves(g, a) /\ handler[g].step \in {"enqueue", "record"})'
    BY DEF StatusRecorded
  <2>1. CASE a = r.agent
    BY <1>3, <1>18, <2>1
  <2>2. CASE a # r.agent
    BY <1>1, <1>7, <1>12, <1>17, <2>2 DEF Orderly, ObjectsOrderly, StatusRecorded
  <2> QED
    BY <2>1, <2>2
<1>21. JustEnqueued'
  <2> SUFFICES ASSUME NEW g \in Handlers, handler'[g] # nil, Enqueued(handler'[g])
               PROVE  Ends(RecordKey(handler[g].who), Leaves(UpdateTask(handler[g])))'
    BY DEF JustEnqueued
  <2>1. CASE g = h
    BY <1>12, <1>13, <1>14, <2>1
  <2>2. CASE g # h
    BY <1>3, <1>6, <1>12, <2>2 DEF Orderly, ObjectsOrderly, JustEnqueued
  <2> QED
    BY <2>1, <2>2
<1>22. DisconnectedCleared'
  BY <1>1, <1>9, <1>10, <1>12 DEF Orderly, ObjectsOrderly, DisconnectedCleared
<1> QED
  BY <1>12, <1>15, <1>16, <1>19, <1>20, <1>21, <1>22
     DEF Orderly, RequestsOrderly, ObjectsOrderly

\* The deletion of an expired connection is sent.
LEMMA DeletionOrderly ==
    ASSUME TypeOK, WhoIsAgents, Orderly, "record" \notin hist', SendDeletion
    PROVE  Orderly'
<1>1. PICK conn \in expired :
          /\ TrySend([type |-> "delete", who |-> conn.who, noConnection |-> conn.noConnection])
          /\ expired' = expired \ {conn}
  BY DEF SendDeletion
<1> DEFINE task == [type |-> "delete", who |-> conn.who, noConnection |-> conn.noConnection]
           key == RecordKey(conn.who)
<1>2. conn \in ConnectionInfos
  BY <1>1 DEF TypeOK
<1>3. /\ task \in Tasks /\ task.type = "delete" /\ task.noConnection = conn.noConnection
      /\ RecordKey(task.who) = key /\ TrySend(task)
  BY <1>1, <1>2 DEF Tasks, ConnectionInfos
<1>4. UNCHANGED <<live, records, handler>>
  BY DEF SendDeletion
<1>5. Leaves(task) \subseteq {nil, "unhealthy"}
  BY <1>3 DEF Leaves
<1>6. task.noConnection => Ends(key, {"unhealthy"})
  BY <1>1, <1>3 DEF Orderly, ObjectsOrderly, ExpiredUnhealthy
<1> HIDE DEF task
<1>7. /\ ChannelBounded' /\ KeptUnhealthy'
      /\ \A i \in DOMAIN channel' : channel'[i].type = "update" => LastWordsOK(channel'[i].msg)
      /\ \A k, S : k # key /\ Ends(k, S) => Ends(k, S)'
      /\ \A k, S : k = key /\ Leaves(task) \subseteq S => Ends(k, S)'
  BY <1>3, <1>4, <1>6, TrySendEffect
<1>8. \A k : Connected(k)' <=> Connected(k)
  BY <1>4 DEF Connected
<1>9. ~Connected(key)
  BY <1>1 DEF Orderly, ObjectsOrderly, ExpiredApart
<1>10. \A other \in expired' : other \in expired /\ RecordKey(other.who) # key
  BY <1>1 DEF Orderly, ObjectsOrderly, ExpiredApart, SameProcess
<1>11. \A a \in Agents : live[a] # nil => RecordKey(live[a].who) # key
  BY <1>9 DEF Connected
<1>12. \A h \in Handlers : handler[h] # nil /\ Enqueued(handler[h])
           => RecordKey(handler[h].who) # key
  <2> SUFFICES ASSUME NEW h \in Handlers, handler[h] # nil, Enqueued(handler[h])
               PROVE  RecordKey(handler[h].who) # key
    OBVIOUS
  <2>1. handler[h].agent \in Agents /\ live[handler[h].agent] # nil
    BY RequestFields DEF Orderly, RequestsOrderly, LookedUp, Enqueued
  <2>2. live[handler[h].agent].who = handler[h].who
    BY <2>1 DEF WhoIsAgents
  <2> QED
    BY <1>11, <2>1, <2>2
<1>13. \A k : k # key /\ (\A other \in expired' : RecordKey(other.who) # k)
           => \A other \in expired : RecordKey(other.who) # k
  BY <1>1
<1> HIDE DEF key
<1>14. LastWords' /\ OneRequestPerProcess' /\ LookedUp'
  BY <1>4, <1>7 DEF Orderly, RequestsOrderly, LastWords, OneRequestPerProcess, LookedUp
<1>15. ExpiredApart' /\ ExpiredUnhealthy'
  BY <1>7, <1>8, <1>10 DEF Orderly, ObjectsOrderly, ExpiredApart, ExpiredUnhealthy
<1>16. ConnectedRecorded' /\ StatusRecorded'
  BY <1>4, <1>7, <1>11 DEF Orderly, ObjectsOrderly, ConnectedRecorded, StatusRecorded, Serves
<1>17. JustEnqueued'
  BY <1>4, <1>7, <1>12 DEF Orderly, ObjectsOrderly, JustEnqueued
<1>18. DisconnectedCleared'
  BY <1>5, <1>7, <1>8, <1>13 DEF Orderly, ObjectsOrderly, DisconnectedCleared
<1> QED
  BY <1>7, <1>14, <1>15, <1>16, <1>17, <1>18 DEF Orderly, RequestsOrderly, ObjectsOrderly

\* The end of a request: its connection is brought up to date, or removed once the task of
\* the last message was sent.
LEMMA FinishOrderly ==
    ASSUME PodNamesUnique, TypeOK, WhoIsAgents, OneConnectionPerProcess, Orderly,
           "record" \notin hist', NEW h \in Handlers, FinishRequest(h)
    PROVE  Orderly'
<1> DEFINE r == handler[h]
           key == RecordKey(r.who)
           task == UpdateTask(r)
<1>1. /\ r # nil /\ r.step = "record" /\ r.agent \in Agents /\ r.who \in Identities
      /\ UNCHANGED <<channel, expired, records>>
  BY RequestFields DEF FinishRequest
<1>2. handler'[h] = nil /\ \A g \in Handlers : g # h => handler'[g] = handler[g]
  BY DEF FinishRequest, TypeOK
<1>3. \A a \in Agents : a # r.agent => live'[a] = live[a]
  BY DEF FinishRequest, RemoveConnection, RecordMessageTime, TypeOK
<1>4. r.msg.disconnect => live'[r.agent] = nil
  BY <1>1 DEF FinishRequest, RemoveConnection, TypeOK
<1>5. ASSUME ~r.msg.disconnect
      PROVE  /\ live'[r.agent] = nil <=> live[r.agent] = nil
             /\ live[r.agent] # nil =>
                   /\ live'[r.agent].who = live[r.agent].who
                   /\ live'[r.agent].noConnection = (r.msg.health = "noconnection")
  <2> DEFINE conn == live[r.agent]
             told == r.msg.health = "noconnection"
             status == conn.noConnection \/ told
             new == [conn EXCEPT !.noConnection = status, !.last = "recent"]
  <2>1. conn # nil => ~conn.noConnection
    BY <1>5 DEF FinishRequest, Mishap
  <2>2. live'[r.agent] = IF conn = nil THEN nil ELSE new
    BY <1>1, <1>5 DEF FinishRequest, RecordMessageTime, TypeOK
  <2>3. ASSUME conn # nil
        PROVE  new # nil /\ new.who = conn.who /\ new.noConnection = told
    <3>1. conn \in ConnectionInfos
      BY <1>1, <2>3, EntryTypes
    <3>2. status = told /\ status \in BOOLEAN
      BY <2>1, <2>3
    <3> HIDE DEF conn, told, status
    <3>3. new \in ConnectionInfos /\ new.who = conn.who /\ new.noConnection = status
      BY <3>1, <3>2 DEF ConnectionInfos
    <3>4. new # nil
      BY <3>3, NilAssumption
    <3> QED
      BY <3>2, <3>3, <3>4
  <2> HIDE DEF new
  <2> QED
    BY <2>2, <2>3
<1>6. live[r.agent] # nil => r.known /\ live[r.agent].who = r.who
  BY <1>1, OneEach DEF Orderly, RequestsOrderly, LookedUp
<1>7. \A g \in Handlers : handler[g] # nil /\ g # h => handler[g].agent # r.agent
  BY <1>1, OneEach DEF Orderly, RequestsOrderly
<1>8. Enqueued(r) => Ends(key, Leaves(task))
  BY <1>1 DEF Orderly, ObjectsOrderly, JustEnqueued
<1>9. LastWordsOK(r.msg)
  BY <1>1 DEF Orderly, RequestsOrderly, LastWords
<1>10. task.type = "update" /\ task.msg = r.msg
  BY DEF UpdateTask
<1>11. \A k, S : Ends(k, S)' <=> Ends(k, S)
  BY <1>1 DEF Ends
<1>12. \A k : Connected(k)' => Connected(k)
  BY <1>1, <1>3, <1>4, <1>5 DEF Connected
<1>13. ChannelBounded' /\ KeptUnhealthy' /\ ExpiredUnhealthy' /\ ExpiredApart'
  BY <1>1, <1>11, <1>12 DEF Orderly, ObjectsOrderly, ChannelBounded, KeptUnhealthy,
     ExpiredUnhealthy, ExpiredApart
<1>14. LastWords' /\ OneRequestPerProcess'
  BY <1>1, <1>2 DEF Orderly, RequestsOrderly, LastWords, OneRequestPerProcess
<1> HIDE DEF r, key, task
<1>15. LookedUp'
  <2>1. \A g \in Handlers : handler[g] # nil => handler[g].agent \in Agents
    BY RequestFields
  <2> QED
    BY <1>2, <1>3, <1>7, <2>1 DEF Orderly, RequestsOrderly, LookedUp
<1>16. \A g \in Handlers, a \in Agents : Serves(g, a) /\ a # r.agent
          => Serves(g, a)' /\ handler'[g] = handler[g]
  BY <1>2 DEF Serves, r
<1>17. \A g \in Handlers : Serves(g, r.agent) => g = h
  BY <1>7 DEF Serves
<1>18. ConnectedRecorded'
  <2> SUFFICES ASSUME NEW a \in Agents, live'[a] # nil
               PROVE  (\/ Ends(RecordKey(live[a].who), Recorded)
                       \/ \E g \in Handlers :
                             /\ Serves(g, a)
                             /\ \/ handler[g].step = "enqueue"
                                \/ handler[g].step = "record" /\ handler[g].msg.disconnect)'
    BY DEF ConnectedRecorded
  <2>1. CASE a # r.agent
    BY <1>3, <1>11, <1>16, <2>1 DEF Orderly, ObjectsOrderly, ConnectedRecorded
  <2>2. CASE a = r.agent
    <3>1. ~r.msg.disconnect /\ live[a] # nil /\ live'[a].who = live[a].who
      BY <1>4, <1>5, <2>2
    <3>2. \A g \in Handlers : Serves(g, a) =>
              ~(\/ handler[g].step = "enqueue"
                \/ handler[g].step = "record" /\ handler[g].msg.disconnect)
      BY <1>1, <1>17, <2>2, <3>1 DEF r
    <3>3. Ends(RecordKey(live[a].who), Recorded)
      BY <3>1, <3>2 DEF Orderly, ObjectsOrderly, ConnectedRecorded
    <3> QED
      BY <1>11, <3>1, <3>3
  <2> QED
    BY <2>1, <2>2
<1>19. StatusRecorded'
  <2> SUFFICES ASSUME NEW a \in Agents, live'[a] # nil, live'[a].noConnection
               PROVE  (\/ Ends(RecordKey(live[a].who), {"unhealthy"})
                       \/ \E g \in Handlers :
                             Serves(g, a) /\ handler[g].step \in {"enqueue", "record"})'
    BY DEF StatusRecorded
  <2>1. CASE a # r.agent
    BY <1>3, <1>11, <1>16, <2>1 DEF Orderly, ObjectsOrderly, StatusRecorded
  <2>2. CASE a = r.agent
    <3>1. /\ ~r.msg.disconnect /\ live[a] # nil /\ live'[a].who = live[a].who
          /\ r.msg.health = "noconnection"
      BY <1>4, <1>5, <2>2
    <3>2. Enqueued(r) /\ RecordKey(live'[a].who) = key
      BY <1>1, <1>6, <2>2, <3>1 DEF Enqueued, key
    <3>3. Leaves(task) = {"unhealthy"}
      BY <1>10, <3>1 DEF Leaves, Deletes
    <3> QED
      BY <1>8, <1>11, <3>2, <3>3
  <2> QED
    BY <2>1, <2>2
<1>20. JustEnqueued'
  BY <1>2, <1>11 DEF Orderly, ObjectsOrderly, JustEnqueued
<1>21. DisconnectedCleared'
  <2> SUFFICES ASSUME NEW k \in RecordKeys, ~Connected(k)',
                      \A conn \in expired' : RecordKey(conn.who) # k
               PROVE  Ends(k, {nil, "unhealthy"})
    BY <1>11 DEF DisconnectedCleared
  <2>1. CASE ~Connected(k)
    BY <1>1, <2>1 DEF Orderly, ObjectsOrderly, DisconnectedCleared
  <2>2. CASE Connected(k)
    <3>1. live[r.agent] # nil /\ RecordKey(live[r.agent].who) = k
      BY <1>3, <2>2 DEF Connected
    <3>2. r.msg.disconnect
      BY <1>1, <1>5, <3>1 DEF Connected
    <3>3. Enqueued(r) /\ k = key
      BY <1>1, <1>6, <1>9, <3>1, <3>2 DEF Enqueued, LastWordsOK, key
    <3>4. Leaves(task) \subseteq {nil, "unhealthy"}
      BY <1>9, <1>10, <3>2 DEF Leaves, Deletes, LastWordsOK
    <3> QED
      BY <1>8, <3>3, <3>4, OutcomeWiden DEF Ends
  <2> QED
    BY <2>1, <2>2
<1> QED
  BY <1>13, <1>14, <1>15, <1>18, <1>19, <1>20, <1>21
     DEF Orderly, RequestsOrderly, ObjectsOrderly

\* The ticker removes stale connections while no request of theirs is being served.
LEMMA CleanupOrderly ==
    ASSUME PodNamesUnique, TypeOK, WhoIsAgents, OneConnectionPerProcess, Orderly,
           "record" \notin hist', CleanupStaleConnections
    PROVE  Orderly'
<1>1. /\ UNCHANGED <<channel, records, handler>> /\ expired = {}
      /\ expired' = {live[a] : a \in Stale}
      /\ \A a \in Agents : live'[a] = IF a \in Stale THEN nil ELSE live[a]
      /\ \A h \in Handlers : handler[h] # nil => handler[h].agent \notin Stale
      /\ \A a \in Stale : a \in Agents /\ live[a] # nil
  BY DEF CleanupStaleConnections, Mishap, Stale
<1>2. \A a, b \in Agents :
          live[a] # nil /\ live[b] # nil /\ RecordKey(live[a].who) = RecordKey(live[b].who)
              => a = b
  BY OneEach
<1>3. ChannelBounded' /\ KeptUnhealthy' /\ LastWords' /\ OneRequestPerProcess' /\ JustEnqueued'
  BY <1>1 DEF Orderly, RequestsOrderly, ObjectsOrderly, ChannelBounded, KeptUnhealthy,
     LastWords, OneRequestPerProcess, JustEnqueued, Ends
<1>4. LookedUp'
  BY <1>1, RequestFields DEF Orderly, RequestsOrderly, LookedUp
<1>5. ExpiredApart'
  <2>1. ASSUME NEW a \in Stale, NEW k, k = RecordKey(live[a].who)
        PROVE  ~Connected(k)'
    BY <1>1, <1>2, <2>1 DEF Connected
  <2>2. \A conn, other \in expired' : SameProcess(conn.who, other.who) => conn = other
    BY <1>1, <1>2 DEF SameProcess
  <2> QED
    BY <1>1, <2>1, <2>2 DEF ExpiredApart
<1>6. \A k, S : Ends(k, S)' <=> Ends(k, S)
  BY <1>1 DEF Ends
<1>7. \A h \in Handlers, a \in Agents :
          /\ Serves(h, a)' <=> Serves(h, a)
          /\ Serves(h, a) => a \notin Stale
  BY <1>1 DEF Serves
<1>8. ExpiredUnhealthy'
  BY <1>1, <1>6, <1>7 DEF Orderly, ObjectsOrderly, ExpiredUnhealthy, StatusRecorded
<1>9. ConnectedRecorded' /\ StatusRecorded'
  BY <1>1, <1>6, <1>7 DEF Orderly, ObjectsOrderly, ConnectedRecorded, StatusRecorded
<1>10. DisconnectedCleared'
  <2> SUFFICES ASSUME NEW k \in RecordKeys, ~Connected(k)',
                      \A conn \in expired' : RecordKey(conn.who) # k
               PROVE  Ends(k, {nil, "unhealthy"})
    BY <1>6 DEF DisconnectedCleared
  <2>1. ~Connected(k)
    BY <1>1 DEF Connected
  <2> QED
    BY <1>1, <2>1 DEF Orderly, ObjectsOrderly, DisconnectedCleared
<1> QED
  BY <1>3, <1>4, <1>5, <1>8, <1>9, <1>10 DEF Orderly, RequestsOrderly, ObjectsOrderly

\* The worker does the first task.
LEMMA WorkerOrderly ==
    ASSUME TypeOK, Orderly, "record" \notin hist', ProcessInstrumentationUpdates
    PROVE  Orderly'
<1> DEFINE task == Head(channel)
           key == RecordKey(task.who)
           m == Len(channel)
<1>1. /\ channel \in Seq(Tasks) /\ channel # <<>> /\ m \in Nat /\ 1 \in 1 .. m
      /\ task = channel[1] /\ task \in Tasks /\ DOMAIN channel = 1 .. m
  BY DEF TypeOK, ProcessInstrumentationUpdates
<1>2. UNCHANGED <<live, expired, handler>> /\ channel' = Tail(channel)
  BY DEF ProcessInstrumentationUpdates
<1>3. /\ Len(channel') = m - 1 /\ DOMAIN channel' = 1 .. m - 1 /\ m - 1 \in Nat
      /\ \A i \in 1 .. m - 1 : channel'[i] = channel[i + 1] /\ i + 1 \in 1 .. m
  BY <1>1, <1>2
<1>4. /\ task.type \in {"update", "delete"} /\ task.who \in Identities
      /\ task.type = "update" => task.msg \in AgentToServer
      /\ key \in RecordKeys
  BY <1>1 DEF Tasks, RecordKeys
<1> HIDE DEF m
<1>5. task.type = "update" => LastWordsOK(task.msg)
  BY <1>1 DEF Orderly, RequestsOrderly, LastWords
<1>6. task.type = "delete" /\ task.noConnection => records[key] = "unhealthy"
  <2>1. task.type = "delete" /\ task.noConnection
            => Outcome(channel, records, key, 0, {"unhealthy"})
    BY <1>1 DEF Orderly, ObjectsOrderly, KeptUnhealthy
  <2> QED
    BY <2>1 DEF Outcome
<1>7. records \in [RecordKeys -> {nil} \cup Recorded]
  BY DEF TypeOK, Recorded
<1> HIDE DEF task, key
<1>8. records'[key] \in Leaves(task) /\ \A k \in RecordKeys : k # key => records'[k] = records[k]
  <2>1. CASE Ignored(task) /\ records' = records
    BY <1>4, <1>5, <1>6, <2>1 DEF Ignored, Leaves, LastWordsOK
  <2>2. CASE ~Ignored(task) /\ Deletes(task) /\ records' = [records EXCEPT ![key] = nil]
    BY <1>4, <1>7, <2>2 DEF Ignored, Leaves
  <2>3. CASE ~Deletes(task) /\ records' = [records EXCEPT ![key] = NewStatus(task)]
    <3>1. task.type = "update" /\ task.msg.health \in HealthKinds
      BY <1>4, <2>3 DEF Deletes, AgentToServer
    <3>2. NewStatus(task) \in Leaves(task)
      BY <1>4, <1>7, <2>3, <3>1 DEF NewStatus, Leaves, HealthKinds, Recorded, key
    <3> QED
      BY <1>4, <1>7, <2>3, <3>2
  <2> QED
    BY <2>1, <2>2, <2>3 DEF ProcessInstrumentationUpdates, Mishap, task, key
<1>9. \A k \in RecordKeys : \A S, n : n \in 1 .. m /\ Outcome(channel, records, k, n, S)
          => Outcome(channel', records', k, n - 1, S)
  BY <1>1, <1>2, <1>8, OutcomeTail DEF task, key, m
<1>10. \A k \in RecordKeys : \A S : Ends(k, S) => Ends(k, S)'
  <2>1. m \in 1 .. m
    BY <1>1
  <2> QED
    BY <1>3, <1>9, <2>1 DEF Ends, m
<1>11. /\ \A a \in Agents : live[a] # nil => RecordKey(live[a].who) \in RecordKeys
       /\ \A h \in Handlers : handler[h] # nil => RecordKey(handler[h].who) \in RecordKeys
       /\ \A conn \in expired : RecordKey(conn.who) \in RecordKeys
       /\ \A i \in DOMAIN channel : RecordKey(channel[i].who) \in RecordKeys
  <2>1. \A conn \in ConnectionInfos : RecordKey(conn.who) \in RecordKeys
    BY DEF ConnectionInfos, RecordKeys
  <2>2. \A i \in DOMAIN channel : RecordKey(channel[i].who) \in RecordKeys
    <3>1. \A t \in Tasks : t.who \in Identities
      BY DEF Tasks
    <3> QED
      BY <1>1, <3>1 DEF RecordKeys
  <2>3. \A h \in Handlers : handler[h] # nil => RecordKey(handler[h].who) \in RecordKeys
    BY RequestFields DEF RecordKeys
  <2>4. /\ \A a \in Agents : live[a] # nil => live[a] \in ConnectionInfos
        /\ expired \subseteq ConnectionInfos
    BY EntryTypes DEF TypeOK
  <2> QED
    BY <2>1, <2>2, <2>3, <2>4
<1>12. ChannelBounded'
  BY <1>1, <1>3, OpampAssumption DEF Orderly, ChannelBounded, m
<1>13. LastWords' /\ OneRequestPerProcess' /\ LookedUp'
  BY <1>1, <1>2, <1>3 DEF Orderly, RequestsOrderly, LastWords, OneRequestPerProcess, LookedUp
<1>14. KeptUnhealthy'
  <2> SUFFICES ASSUME NEW i \in DOMAIN channel', channel'[i].type = "delete",
                      channel'[i].noConnection
               PROVE  Outcome(channel', records', RecordKey(channel'[i].who), i - 1,
                              {"unhealthy"})
    BY DEF KeptUnhealthy
  <2>1. i \in 1 .. m /\ i + 1 \in DOMAIN channel /\ (i + 1) - 1 = i
            /\ channel'[i] = channel[i + 1]
    BY <1>1, <1>3
  <2>2. Outcome(channel, records, RecordKey(channel[i + 1].who), (i + 1) - 1, {"unhealthy"})
    BY <2>1 DEF Orderly, ObjectsOrderly, KeptUnhealthy
  <2>3. Outcome(channel, records, RecordKey(channel[i + 1].who), i, {"unhealthy"})
    BY <2>1, <2>2
  <2> QED
    BY <1>9, <1>11, <2>1, <2>3
<1>15. \A k : Connected(k)' <=> Connected(k)
  BY <1>2 DEF Connected
<1>16. ExpiredApart' /\ ExpiredUnhealthy'
  BY <1>2, <1>10, <1>11, <1>15 DEF Orderly, ObjectsOrderly, ExpiredApart, ExpiredUnhealthy
<1>17. ConnectedRecorded' /\ StatusRecorded'
  BY <1>2, <1>10, <1>11 DEF Orderly, ObjectsOrderly, ConnectedRecorded, StatusRecorded, Serves
<1>18. JustEnqueued' /\ DisconnectedCleared'
  BY <1>2, <1>10, <1>11, <1>15 DEF Orderly, ObjectsOrderly, JustEnqueued, DisconnectedCleared
<1> QED
  BY <1>12, <1>13, <1>14, <1>16, <1>17, <1>18 DEF Orderly, RequestsOrderly, ObjectsOrderly

\* Every step without a mishap keeps connections, requests, tasks and objects in order.
LEMMA OrderlyStep ==
    ASSUME PodNamesUnique, TypeOK, WhoIsAgents, OneConnectionPerProcess, Orderly,
           "record" \notin hist', [Next]_vars
    PROVE  Orderly'
<1>1. \A h \in Handlers : handler[h] # nil => handler[h].agent \in Agents
  BY RequestFields
<1>2. CASE UNCHANGED <<live, channel, expired, records, handler>>
  BY <1>1, <1>2, OrderlyKept DEF SameStatus
<1>3. ASSUME NEW a \in Agents, FallSilent(a) PROVE Orderly'
  <2> DEFINE new == [live[a] EXCEPT !.last = "stale"]
  <2>1. live[a] \in ConnectionInfos
    BY <1>3, EntryTypes DEF FallSilent
  <2>2. new \in ConnectionInfos /\ new.who = live[a].who
            /\ new.noConnection = live[a].noConnection
    BY <2>1 DEF ConnectionInfos
  <2>3. new # nil
    BY <2>2, NilAssumption
  <2>4. live[a] # nil /\ live' = [live EXCEPT ![a] = new]
            /\ UNCHANGED <<channel, expired, records, handler>>
    BY <1>3 DEF FallSilent
  <2> HIDE DEF new
  <2>5. \A b \in Agents : SameStatus(live'[b], live[b])
    BY <2>2, <2>3, <2>4 DEF SameStatus, TypeOK
  <2> QED
    BY <1>1, <2>4, <2>5, OrderlyKept
<1>4. ASSUME NEW w \in Workloads, Reconcile(w) PROVE Orderly'
  <2>1. ASSUME NEW a \in Agents PROVE SameStatus(live'[a], live[a])
    <3>1. CASE live'[a] = live[a]
      BY <3>1 DEF SameStatus
    <3>2. ASSUME live[a] # nil, NEW config, live'[a] = [live[a] EXCEPT !.config = config],
                 config \in Configs
          PROVE  SameStatus(live'[a], live[a])
      <4>1. live[a] \in ConnectionInfos
        BY <3>2, EntryTypes
      <4>2. live'[a] \in ConnectionInfos /\ live'[a].who = live[a].who
                /\ live'[a].noConnection = live[a].noConnection
        BY <3>2, <4>1 DEF ConnectionInfos
      <4>3. live'[a] # nil
        BY <4>2, NilAssumption
      <4> QED
        BY <3>2, <4>2, <4>3 DEF SameStatus
    <3>3. ASSUME live'[a] # live[a]
          PROVE  /\ live[a] # nil /\ ContainerConfig(live[a].who) # nil
                 /\ live'[a] = [live[a] EXCEPT !.config = ContainerConfig(live[a].who)]
      BY <1>4, <3>3 DEF Reconcile, UpdateWorkloadRemoteConfig, ConnectionsOf, Unconfigured
    <3>4. live[a] # nil /\ ContainerConfig(live[a].who) # nil
              => ContainerConfig(live[a].who) \in Configs
      BY EntryTypes, ContainerConfigType DEF ConnectionInfos
    <3> QED
      BY <3>1, <3>2, <3>3, <3>4
  <2> QED
    BY <1>1, <1>4, <2>1, OrderlyKept DEF Reconcile
<1>5. ~Restart
  BY DEF Restart, Mishap
<1>6. ASSUME NEW h \in Handlers, ServeRequest(h) PROVE Orderly'
  BY <1>6, LookupOrderly, CacheOrderly, EnqueueOrderly, FinishOrderly DEF ServeRequest
<1>7. CASE \/ \E a \in Agents : StartAgent(a) \/ AgentDies(a)
           \/ \E w \in Workloads : ChangeConfig(w)
           \/ CancelContext \/ Shutdown \/ UNCHANGED vars
  BY <1>2, <1>7 DEF StartAgent, AgentDies, ChangeConfig, CancelContext, Shutdown,
     CloseChannel, ShutdownServer, StartReturns, vars
<1> QED
  BY <1>3, <1>4, <1>5, <1>6, <1>7, SendOrderly, CleanupOrderly, DeletionOrderly,
     WorkerOrderly DEF Next

\* Where pod names are unique: unless a call failed, a task was dropped, or requests of one
\* process overlapped each other or an expiry, once nothing of a process is under way its
\* object is in the API exactly when its connection is cached, but for one kept unhealthy.
\* The handlers, the ticker and the worker agree on this through the update channel alone.
THEOREM RecordsCorrect ==
    ASSUME PodNamesUnique
    PROVE  Spec => []RecordsFollowConnections
<1> DEFINE IInv == WhoIsAgents /\ ("record" \notin hist => Orderly)
<1>1. Init => IInv
  <2> SUFFICES ASSUME Init PROVE IInv
    OBVIOUS
  <2>1. /\ \A a \in Agents : live[a] = nil
        /\ \A h \in Handlers : handler[h] = nil
        /\ expired = {} /\ channel = <<>>
        /\ \A k \in RecordKeys : records[k] = nil
    BY DEF Init
  <2>2. Len(channel) = 0 /\ DOMAIN channel = {} /\ 0 <= ChannelCap
    BY <2>1, OpampAssumption
  <2>3. \A k \in RecordKeys : Ends(k, {nil, "unhealthy"})
    BY <2>1, <2>2 DEF Ends, Outcome
  <2>4. ChannelBounded /\ RequestsOrderly /\ WhoIsAgents
    BY <2>1, <2>2 DEF ChannelBounded, RequestsOrderly, OneRequestPerProcess, LookedUp,
       LastWords, WhoIsAgents
  <2>5. ObjectsOrderly
    BY <2>1, <2>2, <2>3 DEF ObjectsOrderly, ExpiredApart, KeptUnhealthy, ExpiredUnhealthy,
       ConnectedRecorded, StatusRecorded, JustEnqueued, DisconnectedCleared
  <2> QED
    BY <2>4, <2>5 DEF Orderly
<1>2. TypeOK /\ OneConnectionPerProcess /\ IInv /\ [Next]_vars => IInv'
  <2> SUFFICES ASSUME TypeOK, OneConnectionPerProcess, IInv, [Next]_vars PROVE IInv'
    OBVIOUS
  <2>1. WhoIsAgents'
    BY WhoStep
  <2>2. ASSUME "record" \notin hist' PROVE Orderly'
    BY <2>2, HistGrows, OrderlyStep
  <2> QED
    BY <2>1, <2>2
<1>3. TypeOK /\ IInv => RecordsFollowConnections
  <2> SUFFICES ASSUME TypeOK, Orderly, WhoIsAgents, NEW key \in RecordKeys, Quiet(key)
               PROVE  \/ records[key] # nil /\ Connected(key)
                      \/ records[key] \in {nil, "unhealthy"} /\ ~Connected(key)
    BY DEF RecordsFollowConnections, Connected
  <2>1. \A i \in 1 .. Len(channel) : RecordKey(channel[i].who) # key
    <3>1. DOMAIN channel = 1 .. Len(channel)
      BY DEF TypeOK
    <3> QED
      BY <3>1 DEF Quiet
  <2>2. \A S : Ends(key, S) => records[key] \in S
    BY <2>1 DEF Ends, Outcome
  <2>3. ASSUME NEW a \in Agents, live[a] # nil, RecordKey(live[a].who) = key
        PROVE  records[key] # nil
    <3>1. \A h \in Handlers : ~Serves(h, a)
      BY <2>3 DEF Serves, WhoIsAgents, Quiet
    <3>2. records[key] \in Recorded
      BY <2>2, <2>3, <3>1 DEF Orderly, ObjectsOrderly, ConnectedRecorded
    <3> QED
      BY <3>2, NilAssumption DEF Recorded
  <2>4. ~Connected(key) => records[key] \in {nil, "unhealthy"}
    BY <2>2 DEF Orderly, ObjectsOrderly, DisconnectedCleared, Quiet
  <2> QED
    BY <2>3, <2>4 DEF Connected
<1> QED
  BY <1>1, <1>2, <1>3, TypeCorrect, OneConnectionCorrect, PTL DEF Spec

=============================================================================
