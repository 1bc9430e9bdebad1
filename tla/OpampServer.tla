---------------------------- MODULE OpampServer ----------------------------
(***************************************************************************)
(* The OpAMP server of odiglet (opampserver/pkg): agents that run inside   *)
(* instrumented processes report to it over HTTP and receive their         *)
(* configuration in the replies.                                           *)
(*                                                                         *)
(* Every request has a goroutine of its own, whose steps are separated     *)
(* where the code takes the lock of the connections cache, calls the API   *)
(* or sends on the update channel.  Beside them run the ticker that        *)
(* expires connections and shuts the server down, the worker that drains   *)
(* the update channel into InstrumentationInstance objects, and the        *)
(* reconciler that overwrites the configuration of cached connections.     *)
(***************************************************************************)
EXTENDS Integers, Sequences, FiniteSets

CONSTANTS
    Agents,         \* OpAMP instance uids
    OldAgents,      \* agents that send no RemoteConfigStatus
    Identities,     \* what an agent may say of itself in its description
    Workloads, Containers,
    Configs,        \* container configurations, by their hash, the first being ...
    InitialConfig,
    Handlers,       \* goroutines that may serve requests at once
    nil,
    Healths,            \* the health an agent may report with its description or last message
    HeartbeatHealths,   \* and with the messages between them
    ChannelCap,               \* capacity of the update channel
    maxInstrumentationInstancesPerPod,
    MaxChanges,     \* bound on changes of InstrumentationConfigs
    MaxFaults       \* bound on failed calls, lost replies, silences, crashes and shutdowns

\* "none" is a message without health, "blank" one without an error text.
HealthKinds == {"none", "healthy", "failing", "blank", "noconnection"}

ASSUME OpampAssumption ==
    /\ OldAgents \subseteq Agents
    /\ Identities \subseteq [workload : Workloads, namespace : STRING, container : Containers,
                             process : [pod : STRING, pid : Nat]]
    /\ Healths \cup HeartbeatHealths \subseteq HealthKinds
    /\ InitialConfig \in Configs /\ nil \notin Configs
    /\ ChannelCap \in Nat /\ maxInstrumentationInstancesPerPod \in Nat
    /\ MaxChanges \in Nat /\ MaxFaults \in Nat

VARIABLES
    ic,         \* ic[w]: InstrumentationConfig in the cache of odiglet, or nil
    pending,    \* workloads queued for the reconciler
    live,       \* liveConnections
    channel,    \* updateChannel
    expired,    \* expired connections whose deletion the ticker has yet to send
    records,    \* InstrumentationInstance objects
    handler,    \* handler[h]: the request it serves, or nil
    agent,      \* agent[a]: the agent itself
    phase,      \* of the server's life
    hist,       \* kinds of mishaps so far, for the properties only
    used        \* changes and faults so far

vars == <<ic, pending, live, channel, expired, records, handler, agent, phase, hist, used>>

-----------------------------------------------------------------------------
(* Types *)

InstrumentationConfigs == [Containers -> Configs \cup {nil}]

\* noConnection is whether the status is NoConnectionToOpAMPServer; last tells whether
\* LastMessageTime is unset, recent, or longer ago than connectionStaleTime.
ConnectionInfos ==
    [who : Identities, config : Configs, noConnection : BOOLEAN,
     last : {"unset", "recent", "stale"}]

AgentToServer == [description : BOOLEAN, health : HealthKinds, disconnect : BOOLEAN]

\* A request on its way through the handler.  config is first the one the agent
\* reports in RemoteConfigStatus, then the one the reply carries, if any; known is
\* whether there is a connectionInfo.  Without one the reply asks for the full state.
Requests ==
    [agent : Agents, who : Identities, msg : AgentToServer, config : Configs \cup {nil},
     known : BOOLEAN, step : {"get", "new", "add", "enqueue", "record"}]

Tasks ==
    [type : {"update"}, who : Identities, msg : AgentToServer]
    \cup [type : {"delete"}, who : Identities, noConnection : BOOLEAN]

\* The object of a process is named after its pod and pid, in its namespace.
RecordKey(who) == <<who.namespace, who.process>>
RecordKeys == {RecordKey(who) : who \in Identities}

\* What may go wrong on the way.  For a configuration: a reconcile while a connection
\* is being created, or one that ends early.  For a record: requests of one process
\* that overlap each other or an expiry, a status that is not overwritten, a failed
\* call, a restart, an ill-formed message, a task or object that is given up.
Mishaps == {"config", "record"}

ASSUME NilAssumption ==
    /\ nil \notin InstrumentationConfigs
    /\ nil \notin ConnectionInfos
    /\ nil \notin Requests
    /\ nil \notin {"unknown", "healthy", "unhealthy"}

\* Every variable has its type, and a goroutine never works on a connection it
\* did not look up or create.
TypeOK ==
    /\ ic \in [Workloads -> InstrumentationConfigs \cup {nil}]
    /\ pending \subseteq Workloads
    /\ live \in [Agents -> ConnectionInfos \cup {nil}]
    /\ channel \in Seq(Tasks)
    /\ expired \subseteq ConnectionInfos
    /\ records \in [RecordKeys -> {nil, "unknown", "healthy", "unhealthy"}]
    /\ handler \in [Handlers -> Requests \cup {nil}]
    /\ \A h \in Handlers : handler[h] # nil =>
          /\ handler[h].step \in {"get", "new"} => ~handler[h].known
          /\ handler[h].step \in {"add", "enqueue"} => handler[h].known
          /\ handler[h].step = "add" => handler[h].config # nil
    /\ agent \in [Agents -> [state : {"unborn", "running", "gone"},
                             who : Identities, describe : BOOLEAN,
                             config : Configs \cup {nil}]]
    /\ phase \in {"running", "cancelled", "closed", "shutdown", "stopped"}
    /\ hist \subseteq Mishaps
    /\ used \in [{"changes", "faults"} -> Nat]

-----------------------------------------------------------------------------
Init ==
    /\ ic = [w \in Workloads |-> [c \in Containers |-> InitialConfig]]
    /\ pending = {}
    /\ live = [a \in Agents |-> nil]
    /\ channel = <<>>
    /\ expired = {}
    /\ records = [k \in RecordKeys |-> nil]
    /\ handler = [h \in Handlers |-> nil]
    /\ agent \in [Agents -> {[state |-> "unborn", who |-> who, describe |-> TRUE,
                              config |-> nil] : who \in Identities}]
    /\ phase = "running"
    /\ hist = {}
    /\ used = [b \in {"changes", "faults"} |-> 0]

Use(b) == used' = [used EXCEPT ![b] = @ + 1]
MayFault == used.faults < MaxFaults

\* The API answers unless it fails, and never with a cancelled context.
ApiCallSucceeds == phase = "running" /\ UNCHANGED used
ApiCallFails ==
    \/ phase # "running" /\ UNCHANGED used
    \/ phase = "running" /\ MayFault /\ Use("faults")

Mishap(kind, occurred) == hist' = IF occurred THEN hist \cup {kind} ELSE hist

-----------------------------------------------------------------------------
(* Agents *)

SameProcess(who1, who2) == RecordKey(who1) = RecordKey(who2)

Gone(a) == [agent[a] EXCEPT !.state = "gone", !.describe = FALSE, !.config = nil]

\* A process starts its agent; the agent of the program it replaces is gone.
StartAgent(a) ==
    /\ agent[a].state = "unborn"
    /\ agent' = [b \in Agents |->
           IF b = a THEN [agent[a] EXCEPT !.state = "running"]
           ELSE IF agent[b].state = "running" /\ SameProcess(agent[a].who, agent[b].who)
           THEN Gone(b) ELSE agent[b]]
    /\ UNCHANGED <<ic, pending, live, channel, expired, records, handler, phase, hist, used>>

\* A process is killed.
AgentDies(a) ==
    /\ agent[a].state = "running"
    /\ agent' = [agent EXCEPT ![a] = Gone(a)]
    /\ UNCHANGED <<ic, pending, live, channel, expired, records, handler, phase, hist, used>>

\* A request reaches the server, which stops listening in its last phases.
Send(h, a, health, disconnect) ==
    /\ handler[h] = nil
    /\ agent[a].state = "running"
    /\ phase \in {"running", "cancelled", "closed"}
    /\ handler' = [handler EXCEPT ![h] =
           [agent |-> a, who |-> agent[a].who, known |-> FALSE, step |-> "get",
            config |-> IF a \in OldAgents THEN nil ELSE agent[a].config,
            msg |-> [description |-> agent[a].describe, health |-> health,
                     disconnect |-> disconnect]]]
    /\ Mishap("record", \/ disconnect /\ health \in {"none", "blank"}
                        \/ \E g \in Handlers :
                              handler[g] # nil /\ SameProcess(handler[g].who, agent[a].who))
    /\ UNCHANGED <<ic, pending, live, channel, expired, records, phase, used>>

Heartbeat(h, a) ==
    /\ \E health \in (IF agent[a].describe THEN Healths ELSE HeartbeatHealths) :
          Send(h, a, health, FALSE)
    /\ UNCHANGED agent

\* The agent's last message.
Disconnect(h, a) ==
    /\ \E health \in Healths : Send(h, a, health, TRUE)
    /\ agent' = [agent EXCEPT ![a] = Gone(a)]

-----------------------------------------------------------------------------
(* The handler of POST /v1/opamp *)

\* Mutant: the configuration is only sent to agents that report none.
SendConfigOnce(reported, conn) == IF reported = nil THEN conn.config ELSE nil

\* The configuration in the reply: sent to an agent that does not report its hash.
OnAgentToServerMessage(reported, conn) == IF reported # conn.config THEN conn.config ELSE nil

\* A message with a description or health becomes a task for the worker.
AfterLookup(msg) == IF msg.description \/ msg.health # "none" THEN "enqueue" ELSE "record"

\* A message of an unknown agent without a description asks for it in the reply.
GetConnection(h) ==
    /\ handler[h] # nil /\ handler[h].step = "get"
    /\ LET r == handler[h]
           conn == live[r.agent]
       IN handler' = [handler EXCEPT ![h] =
              IF conn # nil
              THEN [r EXCEPT !.known = TRUE, !.config = OnAgentToServerMessage(r.config, conn),
                             !.step = AfterLookup(r.msg)]
              ELSE IF r.msg.description THEN [r EXCEPT !.step = "new"]
              ELSE [r EXCEPT !.config = nil, !.step = "record"]]
    /\ UNCHANGED <<ic, pending, live, channel, expired, records, agent, phase, hist, used>>

ContainerConfig(who) == IF ic[who.workload] = nil THEN nil ELSE ic[who.workload][who.container]

\* OnNewConnection reads the pod and the configuration; a failure is answered with 500.
OnNewConnection(h) ==
    /\ handler[h] # nil /\ handler[h].step = "new"
    /\ LET r == handler[h]
           config == ContainerConfig(r.who)
       IN \/ /\ ApiCallSucceeds /\ config # nil
             /\ handler' = [handler EXCEPT ![h] =
                    [r EXCEPT !.known = TRUE, !.config = config, !.step = "add"]]
          \/ /\ \/ ApiCallFails
                \/ ApiCallSucceeds /\ config = nil
             /\ handler' = [handler EXCEPT ![h] = nil]
    /\ UNCHANGED <<ic, pending, live, channel, expired, records, agent, phase, hist>>

\* AddConnection with RemoveMatchingConnections, which compares pod name and pid.
AddConnection(a, conn) ==
    [b \in Agents |->
        IF b = a THEN conn
        ELSE IF live[b] # nil /\ live[b].who.process = conn.who.process THEN nil ELSE live[b]]

\* LastMessageTime is not set yet.
NewConnectionInfo(r) ==
    [who |-> r.who, config |-> r.config, noConnection |-> FALSE, last |-> "unset"]

CacheConnection(h) ==
    /\ handler[h] # nil /\ handler[h].step = "add"
    /\ live' = AddConnection(handler[h].agent, NewConnectionInfo(handler[h]))
    /\ handler' = [handler EXCEPT ![h].step = "enqueue"]
    /\ Mishap("record", \E conn \in expired : SameProcess(conn.who, handler[h].who))
    /\ UNCHANGED <<ic, pending, channel, expired, records, agent, phase, used>>

ChannelClosed == phase \in {"closed", "shutdown", "stopped"}

\* The select with a default case: a task is dropped when the channel is full.
TrySend(task) ==
    /\ channel' = IF Len(channel) < ChannelCap THEN Append(channel, task) ELSE channel
    /\ Mishap("record", Len(channel) = ChannelCap)

\* The task of a message; a send on the closed channel panics, which ends the request
\* without a reply.
Enqueue(h) ==
    /\ handler[h] # nil /\ handler[h].step = "enqueue"
    /\ IF ChannelClosed
       THEN /\ handler' = [handler EXCEPT ![h] = nil]
            /\ Mishap("record", TRUE)
            /\ UNCHANGED channel
       ELSE /\ TrySend([type |-> "update", who |-> handler[h].who, msg |-> handler[h].msg])
            /\ handler' = [handler EXCEPT ![h].step = "record"]
    /\ UNCHANGED <<ic, pending, live, expired, records, agent, phase, used>>

\* Mutant: a message of an agent that is no longer cached caches it again.
RecordMessageTimeAnyway(r) ==
    [live EXCEPT ![r.agent] =
        IF @ = nil /\ r.known /\ r.config # nil
        THEN [NewConnectionInfo(r) EXCEPT !.last = "recent"]
        ELSE IF @ = nil THEN nil ELSE [@ EXCEPT !.last = "recent"]]

\* The cache after a message: a status "no connection" is kept.
RecordMessageTime(r) ==
    [live EXCEPT ![r.agent] =
        IF @ = nil THEN nil
        ELSE [@ EXCEPT !.noConnection = live[r.agent].noConnection
                                            \/ r.msg.health = "noconnection",
                       !.last = "recent"]]

RemoveConnection(r) == [live EXCEPT ![r.agent] = nil]

\* What the agent makes of the reply: it describes itself until it was heard, and
\* again when it is asked to.
ReplyReceived(r) ==
    IF agent[r.agent].state = "gone" THEN agent[r.agent]
    ELSE [agent[r.agent] EXCEPT !.config = IF r.config = nil THEN @ ELSE r.config,
                                !.describe = ~r.known \/ (@ /\ ~r.msg.description)]

\* The end of a request; the reply may be lost.
FinishRequest(h) ==
    /\ handler[h] # nil /\ handler[h].step = "record"
    /\ LET r == handler[h]
       IN /\ live' = IF r.msg.disconnect THEN RemoveConnection(r) ELSE RecordMessageTime(r)
          /\ Mishap("record", ~r.msg.disconnect /\ live[r.agent] # nil
                              /\ live[r.agent].noConnection)
          /\ \/ /\ agent' = [agent EXCEPT ![r.agent] = ReplyReceived(r)]
                /\ UNCHANGED used
             \/ /\ MayFault /\ Use("faults")
                /\ UNCHANGED agent
    /\ handler' = [handler EXCEPT ![h] = nil]
    /\ UNCHANGED <<ic, pending, channel, expired, records, phase>>

-----------------------------------------------------------------------------
(* The ticker *)

\* More than connectionStaleTime passes without a message of the agent.
FallSilent(a) ==
    /\ live[a] # nil /\ live[a].last = "recent"
    /\ live' = [live EXCEPT ![a].last = "stale"]
    /\ IF agent[a].state = "running"
       THEN MayFault /\ Use("faults")
       ELSE UNCHANGED used
    /\ UNCHANGED <<ic, pending, channel, expired, records, handler, agent, phase, hist>>

\* Connections that are stale; one whose time is not set yet is, too.
Stale == {a \in Agents : live[a] # nil /\ live[a].last # "recent"}

\* That a tick falls between the two steps of a new connection is counted as a fault.
CleanupStaleConnections ==
    /\ phase \in {"running", "cancelled"}
    /\ expired = {} /\ Stale # {}
    /\ IF \E a \in Stale : live[a].last = "unset"
       THEN MayFault /\ Use("faults")
       ELSE UNCHANGED used
    /\ live' = [a \in Agents |-> IF a \in Stale THEN nil ELSE live[a]]
    /\ expired' = {live[a] : a \in Stale}
    /\ Mishap("record", \E h \in Handlers : handler[h] # nil /\ handler[h].agent \in Stale)
    /\ UNCHANGED <<ic, pending, channel, records, handler, agent, phase>>

SendDeletion ==
    /\ phase \in {"running", "cancelled"}
    /\ \E conn \in expired :
          /\ TrySend([type |-> "delete", who |-> conn.who, noConnection |-> conn.noConnection])
          /\ expired' = expired \ {conn}
    /\ UNCHANGED <<ic, pending, live, records, handler, agent, phase, used>>

-----------------------------------------------------------------------------
(* The worker: ProcessInstrumentationUpdates *)

\* Mutant: the object of an expired connection is never deleted.
IgnoresExpired(task) ==
    task.type = "update" => task.msg.disconnect /\ task.msg.health \in {"none", "blank"}

\* Tasks that end without a call: an expired connection that had reported that it
\* cannot connect, a last message without health, or unhealthy without an error.
Ignored(task) ==
    \/ task.type = "delete" /\ task.noConnection
    \/ task.type = "update" /\ task.msg.disconnect /\ task.msg.health \in {"none", "blank"}

Deletes(task) == task.type = "update" => task.msg.disconnect /\ task.msg.health = "healthy"

InstancesOfPod(who) ==
    {k \in RecordKeys : records[k] # nil /\ k[1] = who.namespace /\ k[2].pod = who.process.pod}

\* A new object is only created below the limit of its pod.
CountReachedLimit(who) ==
    /\ records[RecordKey(who)] = nil
    /\ Cardinality(InstancesOfPod(who)) >= maxInstrumentationInstancesPerPod

\* Mutant: the object records the agent's own word for its health.
HealthOfMessage(task) == task.msg.health

\* The status after UpdateInstrumentationInstanceStatus.
NewStatus(task) ==
    CASE task.msg.health = "healthy" -> "healthy"
      [] task.msg.health \in {"failing", "blank", "noconnection"} -> "unhealthy"
      [] OTHER -> IF records[RecordKey(task.who)] = nil THEN "unknown"
                  ELSE records[RecordKey(task.who)]

ProcessInstrumentationUpdates ==
    /\ channel # <<>>
    /\ channel' = Tail(channel)
    /\ LET task == Head(channel)
           key == RecordKey(task.who)
       IN \/ /\ Ignored(task)
             /\ UNCHANGED <<records, hist, used>>
          \/ /\ ~Ignored(task) /\ Deletes(task) /\ ApiCallSucceeds
             /\ records' = [records EXCEPT ![key] = nil]
             /\ UNCHANGED hist
          \/ /\ ~Ignored(task) /\ ~Deletes(task) /\ ApiCallSucceeds
             /\ records' = [records EXCEPT ![key] =
                    IF CountReachedLimit(task.who) THEN nil ELSE NewStatus(task)]
             /\ Mishap("record", CountReachedLimit(task.who))
          \/ /\ ~Ignored(task) /\ ApiCallFails
             /\ Mishap("record", TRUE)
             /\ UNCHANGED records
    /\ UNCHANGED <<ic, pending, live, expired, handler, agent, phase>>

-----------------------------------------------------------------------------
(* The InstrumentationConfig and its reconciler *)

\* The spec of an InstrumentationConfig changes, or it is created or deleted.
ChangeConfig(w) ==
    /\ used.changes < MaxChanges /\ Use("changes")
    /\ \E new \in (InstrumentationConfigs \cup {nil}) \ {ic[w]} :
          ic' = [ic EXCEPT ![w] = new]
    /\ pending' = pending \cup {w}
    /\ UNCHANGED <<live, channel, expired, records, handler, agent, phase, hist>>

ConnectionsOf(w) == {a \in Agents : live[a] # nil /\ live[a].who.workload = w}

Unconfigured(w) == {a \in ConnectionsOf(w) : ContainerConfig(live[a].who) = nil}

\* Mutant: the configuration is computed but the connection keeps the old one.
UpdateNoConnection(w) == {{}}

\* The connections that one UpdateWorkloadRemoteConfig may update: it visits them in
\* the random order of a map and returns at one whose container is not configured.
UpdateWorkloadRemoteConfig(w) ==
    IF Unconfigured(w) = {} THEN {ConnectionsOf(w)}
    ELSE SUBSET (ConnectionsOf(w) \ Unconfigured(w))

\* Reconcile ignores a missing object and the error of the update.
Reconcile(w) ==
    /\ phase = "running"
    /\ w \in pending
    /\ pending' = pending \ {w}
    /\ IF ic[w] = nil THEN UNCHANGED <<live, hist>>
       ELSE /\ \E updated \in UpdateWorkloadRemoteConfig(w) :
                  live' = [a \in Agents |-> IF a \in updated
                               THEN [live[a] EXCEPT !.config = ContainerConfig(live[a].who)]
                               ELSE live[a]]
            /\ Mishap("config", \/ Unconfigured(w) # {}
                                \/ \E h \in Handlers : /\ handler[h] # nil /\ handler[h].step = "add"
                                                      /\ handler[h].who.workload = w)
    /\ UNCHANGED <<ic, channel, expired, records, handler, agent, phase, used>>

-----------------------------------------------------------------------------
(* Shutdown, crash and restart *)

\* The context of odiglet is cancelled.
CancelContext ==
    /\ phase = "running" /\ MayFault /\ Use("faults")
    /\ phase' = "cancelled"
    /\ UNCHANGED <<ic, pending, live, channel, expired, records, handler, agent, hist>>

\* The goroutine of the ticker closes the channel and calls server.Shutdown, which
\* closes the listeners and returns at once since the context is cancelled.
CloseChannel ==
    /\ phase = "cancelled" /\ expired = {}
    /\ phase' = "closed"
    /\ UNCHANGED <<ic, pending, live, channel, expired, records, handler, agent, hist, used>>

ShutdownServer ==
    /\ phase = "closed"
    /\ phase' = "shutdown"
    /\ UNCHANGED <<ic, pending, live, channel, expired, records, handler, agent, hist, used>>

\* wg.Wait returns once the worker has drained the channel.
StartReturns ==
    /\ phase = "shutdown" /\ channel = <<>>
    /\ phase' = "stopped"
    /\ UNCHANGED <<ic, pending, live, channel, expired, records, handler, agent, hist, used>>

\* A new odiglet starts with empty memory and lists every InstrumentationConfig.
Restart ==
    /\ \/ phase = "stopped" /\ UNCHANGED used
       \/ MayFault /\ Use("faults")
    /\ phase' = "running"
    /\ live' = [a \in Agents |-> nil]
    /\ channel' = <<>>
    /\ expired' = {}
    /\ handler' = [h \in Handlers |-> nil]
    /\ pending' = {w \in Workloads : ic[w] # nil}
    /\ Mishap("record", TRUE)
    /\ UNCHANGED <<ic, records, agent>>

-----------------------------------------------------------------------------
ServeRequest(h) ==
    GetConnection(h) \/ OnNewConnection(h) \/ CacheConnection(h) \/ Enqueue(h) \/ FinishRequest(h)

Shutdown == CloseChannel \/ ShutdownServer \/ StartReturns

Next ==
    \/ \E a \in Agents : StartAgent(a) \/ AgentDies(a) \/ FallSilent(a)
    \/ \E h \in Handlers, a \in Agents : Heartbeat(h, a) \/ Disconnect(h, a)
    \/ \E h \in Handlers : ServeRequest(h)
    \/ CleanupStaleConnections \/ SendDeletion
    \/ ProcessInstrumentationUpdates
    \/ \E w \in Workloads : ChangeConfig(w) \/ Reconcile(w)
    \/ CancelContext \/ Shutdown \/ Restart

Spec == Init /\ [][Next]_vars

\* Requests are served to their end, each agent goes on sending messages, ticker, worker
\* and reconciler go on, and an odiglet that has stopped is started again.  New goroutines
\* are never refused, hence the strong fairness of Heartbeat although there are finitely
\* many.
FairSpec ==
    /\ Spec
    /\ \A h \in Handlers : WF_vars(ServeRequest(h))
    /\ \A a \in Agents : SF_vars(\E h \in Handlers : Heartbeat(h, a))
    /\ WF_vars(SendDeletion)
    /\ WF_vars(ProcessInstrumentationUpdates)
    /\ \A w \in Workloads : WF_vars(Reconcile(w))
    /\ WF_vars(Shutdown)
    /\ WF_vars(phase = "stopped" /\ Restart)

-----------------------------------------------------------------------------
(* Properties *)

\* At most one connection is cached per pod and pid, however the requests of a
\* replaced and of the new agent, expiry and restarts interleave
\* (RemoveMatchingConnections).
OneConnectionPerProcess ==
    \A a, b \in Agents :
        live[a] # nil /\ live[b] # nil /\ live[a].who.process = live[b].who.process => a = b

\* A cached connection holds the configuration of its container or its workload is
\* queued for the reconciler, unless a reconcile ran between the two halves of a new
\* connection (server.go:84) or gave up at another container (conncache.go:127).
ConfigIsFreshOrPending ==
    "config" \notin hist =>
        \A a \in Agents : live[a] # nil =>
            \/ live[a].config = ContainerConfig(live[a].who)
            \/ ContainerConfig(live[a].who) = nil
            \/ live[a].who.workload \in pending

\* Nothing about the process is under way.
Quiet(key) ==
    /\ \A h \in Handlers : handler[h] # nil => RecordKey(handler[h].who) # key
    /\ \A i \in DOMAIN channel : RecordKey(channel[i].who) # key
    /\ \A conn \in expired : RecordKey(conn.who) # key

\* Unless a call failed, a task was dropped, or requests of one process overlapped each
\* other or an expiry: the objects in the API are those of the processes with a cached
\* connection, besides those kept unhealthy for troubleshooting.
RecordsFollowConnections ==
    "record" \notin hist =>
        \A key \in RecordKeys : Quiet(key) =>
            LET connected == \E a \in Agents : live[a] # nil /\ RecordKey(live[a].who) = key
            IN (records[key] # nil /\ connected) \/ (records[key] \in {nil, "unhealthy"} /\ ~connected)

\* Every running agent whose container is configured ends up with a cached connection
\* and with the configuration held there, through expiry, lost replies, restarts and
\* requests that overtake each other.
AgentsAreServed ==
    \A a \in Agents : <>[](agent[a].state = "running" /\ ContainerConfig(agent[a].who) # nil =>
                              live[a] # nil /\ agent[a].config = live[a].config)

\* server.go:175 says of the listeners that "a single server.Shutdown drains both": when
\* Start returns no request is in progress.
ShutdownDrains == phase = "stopped" => \A h \in Handlers : handler[h] = nil
=============================================================================
