-------------------- MODULE InstrumentationManagerProofs --------------------
(***************************************************************************)
(* Theorems about InstrumentationManager, for every set of pids, groups,   *)
(* distros and factories and for every bound.                              *)
(***************************************************************************)
EXTENDS InstrumentationManager, FiniteSetTheorems, SequenceTheorems, TLAPS

-----------------------------------------------------------------------------
(* Lemmas about the handlers' helpers *)

\* The details an attempt hands to startTrackInstrumentation are well formed.
LEMMA NewDetailsType ==
    ASSUME TypeOK, NEW p \in Pids, NEW pd \in ProcessDetails, NEW o \in Outcomes
    PROVE  NewDetails(p, pd, o) \in Details
<1>1. detailsByPid[p] = nil \/ detailsByPid[p].insts \in SUBSET Kinds
  BY DEF TypeOK, MapTypeOK, Details
<1>2. LoadedGenerics(p, o) \in SUBSET Kinds /\ LoadedDistro(pd, o) \in SUBSET Kinds
  BY DEF LoadedGenerics, LoadedDistro, Outcomes, Kinds
<1>3. ConfigGroup[pd] \in ConfigGroups /\ ProcessGroup[pd] \in ProcessGroups
  BY DetailsAssumption
<1> QED
  BY <1>1, <1>2, <1>3 DEF NewDetails, Details

\* A set of pids picked by any condition has a cardinality.
LEMMA PidSubsetCardinality ==
    ASSUME NEW S, S \subseteq Pids
    PROVE  Cardinality(S) \in Nat
BY PidsAssumption, FS_Subset, FS_CardinalityType

\* tryInstrument keeps the types of everything it assigns.
LEMMA TryInstrumentType ==
    ASSUME TypeOK,
           NEW batch, DOMAIN batch \subseteq Pids,
           \A p \in DOMAIN batch : batch[p] \in ProcessDetails,
           NEW out \in [DOMAIN batch -> Outcomes],
           TryInstrument(batch, out)
    PROVE  MapTypeOK' /\ InstTypeOK' /\ ReportTypeOK'
<1> DEFINE T == Retained(batch, out)
           new == [p \in T |-> NewDetails(p, batch[p], out[p])]
<1>1. T \subseteq DOMAIN batch
  BY DEF Retained, Attempted
<1>2. \A p \in T : new[p] \in Details
  BY <1>1, NewDetailsType
<1>3. StartTrackInstrumentation(T, new) /\ CountTracked(T, new)
  BY DEF TryInstrument
<1> HIDE DEF T, new
<1>4. MapTypeOK'
  <2>1. T \subseteq Pids
    BY <1>1
  <2> QED
    BY <1>2, <1>3, <2>1 DEF StartTrackInstrumentation, TypeOK, MapTypeOK
<1>5. InstTypeOK'
  <2>1. \A p \in T : new[p].cg \in ConfigGroups
    BY <1>2 DEF Details
  <2>2. attached' \in [Pids -> [Kinds -> Int]]
    BY DEF TryInstrument, TypeOK, InstTypeOK
  <2>3. runs' \in [Pids -> [ProcessDetails -> Int]]
    BY DEF TryInstrument, TypeOK, InstTypeOK
  <2>4. staleConfig' \subseteq Pids \X Kinds
    BY DEF TryInstrument, TypeOK, InstTypeOK
  <2>5. instConfig' \in [Pids -> [Kinds -> Configs \cup {nil}]]
    <3>1. \A p \in T : config[new[p].cg] \in Configs \cup {nil}
      BY <2>1 DEF TypeOK, ChannelTypeOK
    <3> QED
      BY <3>1 DEF TryInstrument, TypeOK, InstTypeOK, T, new
  <2> QED
    BY <2>2, <2>3, <2>4, <2>5 DEF InstTypeOK
<1>6. ReportTypeOK'
  <2>1. instances' \in [Pods -> [Pids -> Reasons \cup {nil}]]
    <3>1. \A p \in DOMAIN batch : out[p].result \in Reasons
      BY DEF Outcomes, Reasons
    <3>2. Attempted(batch) \subseteq DOMAIN batch
      BY DEF Attempted
    <3> QED
      BY <3>1, <3>2 DEF TryInstrument, TypeOK, ReportTypeOK
  <2>2. instrumentedProcesses' \in [Distros -> Int]
    <3> DEFINE started(d) == {p \in T : /\ Distribution[new[p].pd] = d
                                        /\ "distro" \in new[p].insts
                                        /\ ~(detailsByPid[p] # nil
                                               /\ "distro" \in detailsByPid[p].insts)}
    <3>1. \A d : Cardinality(started(d)) \in Nat
      BY <1>1, PidSubsetCardinality
    <3>2. instrumentedProcesses' =
            [d \in Distros |-> instrumentedProcesses[d] + Cardinality(started(d))]
      BY <1>3 DEF CountTracked
    <3> HIDE DEF started
    <3> QED
      BY <3>1, <3>2 DEF TypeOK, ReportTypeOK
  <2>3. failedInstrumentations' \in [Pids -> Nat]
    BY <1>3 DEF CountTracked, TypeOK, ReportTypeOK
  <2> QED
    BY <2>1, <2>2, <2>3 DEF ReportTypeOK
<1> QED
  BY <1>4, <1>5, <1>6

\* cleanInstrumentation keeps the types of everything it assigns.
LEMMA CleanInstrumentationType ==
    ASSUME TypeOK, NEW S, NEW lost, CleanInstrumentation(S, lost), UNCHANGED runs
    PROVE  MapTypeOK' /\ InstTypeOK' /\ ReportTypeOK'
<1> DEFINE C == Found(S)
           loaded(d) == {p \in C : /\ "distro" \in detailsByPid[p].insts
                                   /\ Distribution[detailsByPid[p].pd] = d}
<1>1. C \subseteq Pids
  BY DEF Found, Tracked
<1>2. MapTypeOK'
  BY DEF CleanInstrumentation, StopTrackInstrumentation, TypeOK, MapTypeOK
<1>3. ReportTypeOK'
  <2>1. \A d : Cardinality(loaded(d)) \in Nat
    BY <1>1, PidSubsetCardinality
  <2>2. instrumentedProcesses' =
          [d \in Distros |-> instrumentedProcesses[d] - Cardinality(loaded(d))]
    BY DEF CleanInstrumentation
  <2> HIDE DEF loaded
  <2>3. instrumentedProcesses' \in [Distros -> Int]
    BY <2>1, <2>2 DEF TypeOK, ReportTypeOK
  <2>4. /\ instances' \in [Pods -> [Pids -> Reasons \cup {nil}]]
        /\ failedInstrumentations' \in [Pids -> Nat]
    BY DEF CleanInstrumentation, ReportExit, TypeOK, ReportTypeOK
  <2> QED
    BY <2>3, <2>4 DEF ReportTypeOK
<1>4. InstTypeOK'
  BY DEF CleanInstrumentation, CloseInstrumentations, TypeOK, InstTypeOK
<1> QED
  BY <1>2, <1>3, <1>4

-----------------------------------------------------------------------------
(* Type correctness *)

\* The head of a nonempty channel is a message, its tail a channel.
LEMMA Receive ==
    ASSUME NEW M, NEW ch \in Seq(M), ch # <<>>
    PROVE  Head(ch) \in M /\ Tail(ch) \in Seq(M)
BY HeadTailProperties

\* A batch of a received instrument request maps pids to details.
LEMMA InstrumentBatch ==
    ASSUME TypeOK, requests # <<>>, Head(requests).type = "instrument",
           NEW batch, batch = Head(requests).byPid
    PROVE  /\ DOMAIN batch \subseteq Pids
           /\ \A p \in DOMAIN batch : batch[p] \in ProcessDetails
<1>1. Head(requests) \in Request
  BY Receive DEF TypeOK, ChannelTypeOK
<1>2. batch \in UNION {[S -> ProcessDetails] : S \in SUBSET Pids}
  BY <1>1 DEF Request
<1>3. PICK S \in SUBSET Pids : batch \in [S -> ProcessDetails]
  BY <1>2
<1> QED
  BY <1>3

\* The batch a retry request builds maps pids to details.
LEMMA RetryBatch ==
    ASSUME TypeOK, NEW filter, NEW batch,
           batch = [p \in FailedPids(filter) |-> detailsByPid[p].pd]
    PROVE  /\ DOMAIN batch \subseteq Pids
           /\ \A p \in DOMAIN batch : batch[p] \in ProcessDetails
BY DEF FailedPids, Tracked, TypeOK, MapTypeOK, Details

\* The requests that reconcilers send are well formed.
LEMMA RequestsSent ==
    ASSUME TypeOK
    PROVE  /\ \A pg \in ProcessGroups :
                LET pids == {p \in Pids : proc[p] # nil /\ ProcessGroup[proc[p]] = pg}
                IN  [type |-> "instrument", byPid |-> [p \in pids |-> proc[p]]] \in Request
           /\ \A pg \in ProcessGroups : [type |-> "uninstrument", pg |-> pg] \in Request
           /\ \A filter \in SUBSET DistroFactories :
                [type |-> "retry", distros |-> filter] \in Request
<1>1. ASSUME NEW pids \in SUBSET {p \in Pids : proc[p] # nil}
      PROVE  [type |-> "instrument", byPid |-> [p \in pids |-> proc[p]]] \in Request
  <2>1. [p \in pids |-> proc[p]] \in [pids -> ProcessDetails]
    BY DEF TypeOK, ProcTypeOK
  <2> QED
    BY <2>1 DEF Request
<1> QED
  BY <1>1, FactoriesAssumption DEF Request

LEMMA InitType == Init => TypeOK
BY DEF Init, TypeOK, ProcTypeOK, ChannelTypeOK, MapTypeOK, InstTypeOK, ReportTypeOK,
       LoopTypeOK, Untracked

\* Every step keeps every variable in its type.
LEMMA NextType == TypeOK /\ [Next]_vars => TypeOK'
<1> SUFFICES ASSUME TypeOK, [Next]_vars PROVE TypeOK'
  OBVIOUS
<1> USE DEF procVars, channelVars, configVars, mapVars, instVars, reportVars, loopVars
<1>1. CASE HandleExecEvent
  <2> DEFINE e == Head(procEvents)
  <2>1. e \in Events /\ ProcTypeOK'
    BY <1>1, Receive DEF HandleExecEvent, TypeOK, ProcTypeOK
  <2>2. e.pid \in Pids /\ e.pd \in ProcessDetails
    BY <2>1 DEF Events
  <2>3. MapTypeOK' /\ InstTypeOK' /\ ReportTypeOK'
    <3>1. CASE UNCHANGED <<mapVars, instVars, runs, reportVars>>
      BY <3>1 DEF TypeOK, MapTypeOK, InstTypeOK, ReportTypeOK
    <3>2. CASE \E out \in [{e.pid} -> Outcomes] :
                  TryInstrument([p \in {e.pid} |-> e.pd], out)
      BY <2>2, <3>2, TryInstrumentType
    <3> QED
      BY <1>1, <3>1, <3>2 DEF HandleExecEvent
  <2> QED
    BY <1>1, <2>1, <2>3 DEF HandleExecEvent, TypeOK, ChannelTypeOK, LoopTypeOK
<1>2. CASE HandleExitEvent
  <2>1. ProcTypeOK'
    BY <1>2, Receive DEF HandleExitEvent, TypeOK, ProcTypeOK
  <2>2. MapTypeOK' /\ InstTypeOK' /\ ReportTypeOK'
    BY <1>2, CleanInstrumentationType DEF HandleExitEvent
  <2> QED
    BY <1>2, <2>1, <2>2 DEF HandleExitEvent, TypeOK, ChannelTypeOK, LoopTypeOK
<1>3. ASSUME NEW batch, InstrumentFromDetails(batch), DOMAIN batch \subseteq Pids,
             \A p \in DOMAIN batch : batch[p] \in ProcessDetails,
             requests # <<>>, requests' = Tail(requests),
             UNCHANGED <<proc, procEvents, configUpdates, configVars, loopVars, used>>
      PROVE  TypeOK'
  <2>1. PICK out \in [DOMAIN batch -> Outcomes] :
            /\ TryInstrument(batch, out)
            /\ exitTracked' = exitTracked \cup Succeeded(batch, out)
            /\ unseen' \subseteq unseen \cup Retained(batch, out)
    BY <1>3 DEF InstrumentFromDetails
  <2>2. MapTypeOK' /\ InstTypeOK' /\ ReportTypeOK'
    BY <1>3, <2>1, TryInstrumentType
  <2>3. Succeeded(batch, out) \subseteq Pids /\ Retained(batch, out) \subseteq Pids
    BY <1>3 DEF Succeeded, Retained, Attempted
  <2>4. ChannelTypeOK'
    BY <1>3, Receive DEF TypeOK, ChannelTypeOK
  <2> QED
    BY <1>3, <2>1, <2>2, <2>3, <2>4 DEF TypeOK, ProcTypeOK, LoopTypeOK
<1>4. CASE HandleInstrumentRequest
  BY <1>3, <1>4, InstrumentBatch DEF HandleInstrumentRequest
<1>5. CASE HandleRetryRequest
  BY <1>3, <1>5, RetryBatch DEF HandleRetryRequest
<1>6. CASE HandleUnInstrumentRequest
  <2>1. ChannelTypeOK'
    BY <1>6, Receive DEF HandleUnInstrumentRequest, TypeOK, ChannelTypeOK
  <2>2. MapTypeOK' /\ InstTypeOK' /\ ReportTypeOK'
    BY <1>6, CleanInstrumentationType DEF HandleUnInstrumentRequest
  <2> QED
    BY <1>6, <2>1, <2>2 DEF HandleUnInstrumentRequest, TypeOK, ProcTypeOK, LoopTypeOK
<1>7. CASE HandleConfigUpdate
  <2>1. Head(configUpdates) \in ConfigUpdate /\ ChannelTypeOK'
    BY <1>7, Receive DEF HandleConfigUpdate, TypeOK, ChannelTypeOK
  <2>2. InstTypeOK'
    BY <1>7, <2>1 DEF HandleConfigUpdate, TypeOK, InstTypeOK, ConfigUpdate
  <2> QED
    BY <1>7, <2>1, <2>2
    DEF HandleConfigUpdate, TypeOK, ProcTypeOK, MapTypeOK, ReportTypeOK, LoopTypeOK
<1>8. CASE StopEventLoop \/ ShutdownTimeout
  BY <1>8 DEF StopEventLoop, ShutdownTimeout, TypeOK, ProcTypeOK, ChannelTypeOK, MapTypeOK,
              InstTypeOK, ReportTypeOK, LoopTypeOK
<1>9. ASSUME NEW p \in Pids, ShutdownClean(p) PROVE TypeOK'
  <2>1. InstTypeOK'
    BY <1>9 DEF ShutdownClean, CloseInstrumentations, TypeOK, InstTypeOK
  <2>2. ReportTypeOK'
    BY <1>9 DEF ShutdownClean, ReportExit, TypeOK, ReportTypeOK
  <2> QED
    BY <1>9, <2>1, <2>2
    DEF ShutdownClean, TypeOK, ProcTypeOK, ChannelTypeOK, MapTypeOK, LoopTypeOK
<1>10. CASE ShutdownDone
  BY <1>10 DEF ShutdownDone, Untracked, TypeOK, ProcTypeOK, ChannelTypeOK, MapTypeOK,
               InstTypeOK, ReportTypeOK, LoopTypeOK
<1>11. ASSUME NEW p \in Pids, NEW pd \in ProcessDetails, RunReturns(p, pd) PROVE TypeOK'
  <2>1. PodOf[pd] \in Pods
    BY DetailsAssumption
  <2>2. ReportTypeOK'
    BY <1>11, <2>1 DEF RunReturns, TypeOK, ReportTypeOK, Reasons
  <2>3. InstTypeOK'
    BY <1>11 DEF RunReturns, TypeOK, InstTypeOK
  <2> QED
    BY <1>11, <2>2, <2>3
    DEF RunReturns, TypeOK, ProcTypeOK, ChannelTypeOK, MapTypeOK, LoopTypeOK
<1>12. ASSUME NEW p \in Pids, NEW pd \in ProcessDetails, Spawn(p, pd) \/ ReExec(p, pd)
       PROVE  TypeOK'
  <2> DEFINE ev == [type |-> "exec", pid |-> p, pd |-> pd]
  <2>1. ev \in Events
    BY DEF Events
  <2>2. Append(procEvents, ev) \in Seq(Events)
    BY <2>1, AppendProperties DEF TypeOK, ProcTypeOK
  <2>3. /\ proc' = [proc EXCEPT ![p] = pd]
        /\ used' = [used EXCEPT !["spawns"] = @ + 1]
        /\ exitTracked' \subseteq exitTracked \cup {p} /\ unseen' \subseteq unseen
        /\ procEvents' \in {procEvents, Append(procEvents, ev)}
        /\ UNCHANGED <<loop, cleaned>>
    BY <1>12 DEF Spawn, ReExec
  <2> HIDE DEF ev
  <2>4. ProcTypeOK'
    BY <2>2, <2>3 DEF TypeOK, ProcTypeOK
  <2>5. LoopTypeOK'
    BY <2>3 DEF TypeOK, LoopTypeOK
  <2> QED
    BY <1>12, <2>4, <2>5
    DEF Spawn, ReExec, TypeOK, ChannelTypeOK, MapTypeOK, InstTypeOK, ReportTypeOK
<1>13. ASSUME NEW p \in Pids, Exit(p) PROVE TypeOK'
  <2>1. [type |-> "exit", pid |-> p, pd |-> proc[p]] \in Events
    BY <1>13 DEF Exit, Events, TypeOK, ProcTypeOK
  <2>2. ProcTypeOK'
    BY <1>13, <2>1, AppendProperties DEF Exit, TypeOK, ProcTypeOK
  <2> QED
    BY <1>13, <2>2
    DEF Exit, TypeOK, ChannelTypeOK, MapTypeOK, InstTypeOK, ReportTypeOK, LoopTypeOK
<1>14. ASSUME NEW r \in Request, SendRequest(r) PROVE TypeOK'
  <2>1. ChannelTypeOK' /\ LoopTypeOK'
    BY <1>14, AppendProperties DEF SendRequest, TypeOK, ChannelTypeOK, LoopTypeOK
  <2> QED
    BY <1>14, <2>1
    DEF SendRequest, TypeOK, ProcTypeOK, MapTypeOK, InstTypeOK, ReportTypeOK
<1>15. ASSUME NEW pg \in ProcessGroups,
              SendInstrumentationRequest(pg) \/ SendUnInstrumentationRequest(pg)
       PROVE  TypeOK'
  <2> DEFINE pids == {p \in Pids : proc[p] # nil /\ ProcessGroup[proc[p]] = pg}
             r == [type |-> "instrument", byPid |-> [p \in pids |-> proc[p]]]
  <2>1. [p \in pids |-> proc[p]] \in [pids -> ProcessDetails]
    BY DEF TypeOK, ProcTypeOK
  <2>2. r \in Request
    BY <2>1 DEF Request
  <2>3. [type |-> "uninstrument", pg |-> pg] \in Request
    BY DEF Request
  <2> QED
    BY <1>14, <1>15, <2>2, <2>3
    DEF SendInstrumentationRequest, SendUnInstrumentationRequest
<1>16. ASSUME NEW filter \in SUBSET DistroFactories, SendRetryRequest(filter)
       PROVE  TypeOK'
  <2>1. [type |-> "retry", distros |-> filter] \in Request
    BY FactoriesAssumption DEF Request
  <2> QED
    BY <1>14, <1>16, <2>1 DEF SendRetryRequest
<1>17. ASSUME NEW cg \in ConfigGroups, NEW c \in Configs \cup {nil}, ChangeConfig(cg, c)
       PROVE  TypeOK'
  <2>1. ChannelTypeOK' /\ LoopTypeOK'
    BY <1>17 DEF ChangeConfig, OwedAfter, TypeOK, ChannelTypeOK, LoopTypeOK
  <2> QED
    BY <1>17, <2>1
    DEF ChangeConfig, TypeOK, ProcTypeOK, MapTypeOK, InstTypeOK, ReportTypeOK
<1>18. ASSUME NEW cg \in ConfigGroups, SendConfigUpdate(cg) PROVE TypeOK'
  <2>1. [cg |-> cg, config |-> config[cg]] \in ConfigUpdate
    BY <1>18 DEF SendConfigUpdate, ConfigUpdate, TypeOK, ChannelTypeOK
  <2>2. ChannelTypeOK'
    BY <1>18, <2>1, AppendProperties DEF SendConfigUpdate, TypeOK, ChannelTypeOK
  <2> QED
    BY <1>18, <2>2
    DEF SendConfigUpdate, TypeOK, ProcTypeOK, MapTypeOK, InstTypeOK, ReportTypeOK, LoopTypeOK
<1>19. CASE UNCHANGED vars
  BY <1>19 DEF vars, TypeOK, ProcTypeOK, ChannelTypeOK, MapTypeOK, InstTypeOK, ReportTypeOK,
               LoopTypeOK
<1> QED
  BY <1>1, <1>2, <1>4, <1>5, <1>6, <1>7, <1>8, <1>9, <1>10, <1>11, <1>12, <1>13, <1>15,
     <1>16, <1>17, <1>18, <1>19
  DEF Next, EventLoop, Shutdown, Environment

\* The manager's maps, counters and channels always hold values of their
\* types, whatever the requests, events and failures.
THEOREM TypeCorrect == Spec => []TypeOK
BY InitType, NextType, PTL DEF Spec

-----------------------------------------------------------------------------
(* The attached instrumentations are the tracked ones *)

\* What AttachedMatchesTracked says of one instrumentation.
Expected(p, k) == IF detailsByPid[p] # nil /\ k \in detailsByPid[p].insts THEN 1 ELSE 0

\* An attempt attaches exactly what it adds to the details of the process: it
\* reaches a tracked process only if its distro instrumentation is missing, and
\* loads generic instrumentations only for an untracked one.
LEMMA TryInstrumentAttaches ==
    ASSUME TypeOK, \A p \in Pids, k \in Kinds : attached[p][k] = Expected(p, k),
           NEW batch, DOMAIN batch \subseteq Pids,
           \A p \in DOMAIN batch : batch[p] \in ProcessDetails,
           NEW out \in [DOMAIN batch -> Outcomes],
           TryInstrument(batch, out)
    PROVE  \A p \in Pids, k \in Kinds : attached'[p][k] = Expected(p, k)'
<1> DEFINE T == Retained(batch, out)
           loaded(p) == LoadedGenerics(p, out[p]) \cup LoadedDistro(batch[p], out[p])
<1> SUFFICES ASSUME NEW p \in Pids, NEW k \in Kinds
             PROVE  attached'[p][k] = Expected(p, k)'
  OBVIOUS
<1>1. attached'[p][k] = attached[p][k] + (IF p \in T /\ k \in loaded(p) THEN 1 ELSE 0)
  BY DEF TryInstrument
<1>2. detailsByPid'[p] = IF p \in T THEN NewDetails(p, batch[p], out[p]) ELSE detailsByPid[p]
  BY DEF TryInstrument, StartTrackInstrumentation
<1>3. CASE p \notin T
  BY <1>1, <1>2, <1>3 DEF Expected
<1>4. CASE p \in T
  <2>1. p \in DOMAIN batch /\ ~IsInstrumentedByDistro(p)
    BY <1>4 DEF Retained, Attempted
  <2>2. NewDetails(p, batch[p], out[p]) \in Details
    BY <2>1, NewDetailsType
  <2>3. detailsByPid'[p] # nil
    BY <1>2, <1>4, <2>2, NilAssumption DEF Details, Kinds
  <2>4. CASE detailsByPid[p] = nil
    <3>1. attached[p][k] = 0
      BY <2>4 DEF Expected
    <3>2. detailsByPid'[p].insts = loaded(p)
      BY <1>2, <1>4, <2>4 DEF NewDetails
    <3> QED
      BY <1>1, <1>4, <2>3, <3>1, <3>2 DEF Expected
  <2>5. CASE detailsByPid[p] # nil
    <3>1. "distro" \notin detailsByPid[p].insts
      BY <2>1, <2>5 DEF IsInstrumentedByDistro
    <3>2. loaded(p) = LoadedDistro(batch[p], out[p])
      BY <2>5 DEF LoadedGenerics
    <3>3. detailsByPid'[p].insts = detailsByPid[p].insts \cup loaded(p)
      BY <1>2, <1>4, <2>5 DEF NewDetails
    <3>4. k \in loaded(p) => k = "distro"
      BY <3>2 DEF LoadedDistro
    <3> HIDE DEF loaded
    <3>5. CASE k \in loaded(p)
      <4>1. attached[p][k] = 0
        BY <3>1, <3>4, <3>5 DEF Expected
      <4> QED
        BY <1>1, <1>4, <2>3, <3>3, <3>5, <4>1 DEF Expected
    <3>6. CASE k \notin loaded(p)
      <4>1. attached'[p][k] = attached[p][k]
        BY <1>1, <3>6 DEF TypeOK, InstTypeOK
      <4> QED
        BY <2>3, <2>5, <3>3, <3>6, <4>1 DEF Expected
    <3> QED
      BY <3>5, <3>6
  <2> QED
    BY <2>4, <2>5
<1> QED
  BY <1>3, <1>4

\* Cleaning closes exactly the instrumentations of the processes it drops.
LEMMA CleanInstrumentationDetaches ==
    ASSUME TypeOK, \A p \in Pids, k \in Kinds : attached[p][k] = Expected(p, k),
           NEW S, NEW lost, CleanInstrumentation(S, lost)
    PROVE  \A p \in Pids, k \in Kinds : attached'[p][k] = Expected(p, k)'
<1> SUFFICES ASSUME NEW p \in Pids, NEW k \in Kinds
             PROVE  attached'[p][k] = Expected(p, k)'
  OBVIOUS
<1>1. attached'[p][k] = attached[p][k] -
        (IF p \in Found(S) /\ k \in detailsByPid[p].insts THEN 1 ELSE 0)
  BY DEF CleanInstrumentation, CloseInstrumentations
<1>2. detailsByPid'[p] = IF p \in Found(S) THEN nil ELSE detailsByPid[p]
  BY DEF CleanInstrumentation, StopTrackInstrumentation
<1>3. p \in Found(S) => detailsByPid[p] # nil
  BY DEF Found, Tracked
<1> QED
  BY <1>1, <1>2, <1>3 DEF Expected

\* A step neither attaches, closes nor forgets an instrumentation on its own.
LEMMA NextAttached ==
    TypeOK /\ AttachedMatchesTracked /\ [Next]_vars => AttachedMatchesTracked'
<1> SUFFICES ASSUME TypeOK, AttachedMatchesTracked, [Next]_vars, loop' = "running"
             PROVE  \A p \in Pids, k \in Kinds : attached'[p][k] = Expected(p, k)'
  BY DEF AttachedMatchesTracked, Expected
<1> USE DEF procVars, channelVars, configVars, mapVars, instVars, reportVars, loopVars
<1>0. loop = "running" => \A p \in Pids, k \in Kinds : attached[p][k] = Expected(p, k)
  BY DEF AttachedMatchesTracked, Expected
<1>1. CASE HandleExecEvent
  <2>1. Head(procEvents) \in Events /\ loop = "running"
    BY <1>1, Receive DEF HandleExecEvent, TypeOK, ProcTypeOK
  <2>2. CASE UNCHANGED <<mapVars, instVars, runs, reportVars>>
    BY <1>0, <2>1, <2>2 DEF Expected
  <2>3. CASE \E out \in [{Head(procEvents).pid} -> Outcomes] :
                TryInstrument([p \in {Head(procEvents).pid} |-> Head(procEvents).pd], out)
    <3>1. Head(procEvents).pid \in Pids /\ Head(procEvents).pd \in ProcessDetails
      BY <2>1 DEF Events
    <3> QED
      BY <1>0, <2>1, <2>3, <3>1, TryInstrumentAttaches
  <2> QED
    BY <1>1, <2>2, <2>3 DEF HandleExecEvent
<1>2. CASE HandleExitEvent \/ HandleUnInstrumentRequest
  <2>1. loop = "running" /\ \E S, lost : CleanInstrumentation(S, lost)
    BY <1>2 DEF HandleExitEvent, HandleUnInstrumentRequest
  <2> QED
    BY <1>0, <2>1, CleanInstrumentationDetaches
<1>3. CASE HandleInstrumentRequest
  <2>1. loop = "running" /\ InstrumentFromDetails(Head(requests).byPid)
    BY <1>3 DEF HandleInstrumentRequest
  <2>2. /\ DOMAIN Head(requests).byPid \subseteq Pids
        /\ \A p \in DOMAIN Head(requests).byPid : Head(requests).byPid[p] \in ProcessDetails
    BY <1>3, InstrumentBatch DEF HandleInstrumentRequest
  <2> QED
    BY <1>0, <2>1, <2>2, TryInstrumentAttaches DEF InstrumentFromDetails
<1>4. CASE HandleRetryRequest
  <2> DEFINE batch == [p \in FailedPids(Head(requests).distros) |-> detailsByPid[p].pd]
  <2>1. loop = "running" /\ InstrumentFromDetails(batch)
    BY <1>4 DEF HandleRetryRequest
  <2>2. /\ DOMAIN batch \subseteq Pids
        /\ \A p \in DOMAIN batch : batch[p] \in ProcessDetails
    BY RetryBatch
  <2> HIDE DEF batch
  <2> QED
    BY <1>0, <2>1, <2>2, TryInstrumentAttaches DEF InstrumentFromDetails
<1>5. CASE StopEventLoop \/ Shutdown
  BY <1>5 DEF StopEventLoop, Shutdown, ShutdownClean, ShutdownTimeout, ShutdownDone
<1>6. CASE HandleConfigUpdate
  BY <1>0, <1>6 DEF HandleConfigUpdate, Expected
<1>7. CASE Environment
  <2>1. UNCHANGED <<loop, detailsByPid, attached>>
    BY <1>7 DEF Environment, RunReturns, Spawn, ReExec, Exit, SendInstrumentationRequest,
                SendUnInstrumentationRequest, SendRetryRequest, SendRequest, ChangeConfig,
                SendConfigUpdate
  <2> QED
    BY <1>0, <2>1 DEF Expected
<1>8. CASE UNCHANGED vars
  BY <1>0, <1>8 DEF vars, Expected
<1> QED
  BY <1>1, <1>2, <1>3, <1>4, <1>5, <1>6, <1>7, <1>8 DEF Next, EventLoop

\* For every node, workload and factory: while the event loop runs, the loaded
\* and not yet closed instrumentations are exactly the tracked ones, once each.
THEOREM AttachedCorrect == Spec => []AttachedMatchesTracked
<1>1. Init => AttachedMatchesTracked
  BY DEF Init, AttachedMatchesTracked, Untracked
<1> QED
  BY <1>1, TypeCorrect, NextAttached, PTL DEF Spec

-----------------------------------------------------------------------------
(* What a step can be, for the invariants that follow *)

\* The handlers that try to instrument a batch of processes.
Attempt(batch, out) ==
    /\ loop = "running"
    /\ DOMAIN batch \subseteq Pids
    /\ \A p \in DOMAIN batch : batch[p] \in ProcessDetails
    /\ out \in [DOMAIN batch -> Outcomes]
    /\ TryInstrument(batch, out)
    /\ UNCHANGED <<configUpdates, configVars, loopVars>>

\* The handlers that clean the processes S.
Cleaning(S, lost) ==
    /\ loop = "running"
    /\ ~ApiMayFail => lost = {}
    /\ CleanInstrumentation(S, lost)
    /\ UNCHANGED <<configUpdates, configVars, loopVars>>

\* The steps that leave the manager's maps and instrumentations alone.
Aside ==
    /\ UNCHANGED <<mapVars, instVars, instrumentedProcesses, failedInstrumentations>>
    /\ UNCHANGED loopVars \/ StopEventLoop \/ ShutdownTimeout
    /\ \/ UNCHANGED instances
       \/ \E p \in Pids, pd \in ProcessDetails :
             instances' = [instances EXCEPT ![PodOf[pd]][p] = "FailedToRun"]
    /\ \/ UNCHANGED <<configUpdates, configVars>>
       \/ \E cg \in ConfigGroups : \/ \E c \in Configs \cup {nil} : ChangeConfig(cg, c)
                                   \/ SendConfigUpdate(cg)

\* The handlers of exec events and of instrument and retry requests attempt.
LEMMA AttemptCases ==
    ASSUME TypeOK, HandleExecEvent \/ HandleInstrumentRequest \/ HandleRetryRequest
    PROVE  Aside \/ \E batch, out : Attempt(batch, out)
<1> USE DEF procVars, channelVars, configVars, mapVars, instVars, reportVars, loopVars
<1>1. CASE HandleExecEvent
  <2> DEFINE e == Head(procEvents)
             batch == [p \in {e.pid} |-> e.pd]
  <2>1. CASE UNCHANGED <<mapVars, instVars, runs, reportVars>>
    <3>1. Aside
      BY <1>1, <2>1 DEF HandleExecEvent, Aside
    <3> QED
      BY <3>1
  <2>2. CASE \E out \in [{e.pid} -> Outcomes] : TryInstrument(batch, out)
    <3>1. e \in Events
      BY <1>1, Receive DEF HandleExecEvent, TypeOK, ProcTypeOK
    <3>2. e.pid \in Pids /\ e.pd \in ProcessDetails
      BY <3>1 DEF Events
    <3>3. /\ DOMAIN batch = {e.pid} /\ DOMAIN batch \subseteq Pids
          /\ \A p \in DOMAIN batch : batch[p] \in ProcessDetails
      BY <3>2
    <3> HIDE DEF batch
    <3>4. PICK out \in [DOMAIN batch -> Outcomes] : TryInstrument(batch, out)
      BY <2>2, <3>3
    <3>5. Attempt(batch, out)
      BY <1>1, <3>3, <3>4 DEF HandleExecEvent, Attempt
    <3> QED
      BY <3>5
  <2> QED
    BY <1>1, <2>1, <2>2 DEF HandleExecEvent
<1>2. CASE HandleInstrumentRequest
  <2> DEFINE batch == Head(requests).byPid
  <2>1. /\ DOMAIN batch \subseteq Pids
        /\ \A p \in DOMAIN batch : batch[p] \in ProcessDetails
    BY <1>2, InstrumentBatch DEF HandleInstrumentRequest
  <2>2. PICK out \in [DOMAIN batch -> Outcomes] : TryInstrument(batch, out)
    BY <1>2 DEF HandleInstrumentRequest, InstrumentFromDetails
  <2>3. Attempt(batch, out)
    BY <1>2, <2>1, <2>2 DEF HandleInstrumentRequest, Attempt
  <2> QED
    BY <2>3
<1>3. CASE HandleRetryRequest
  <2> DEFINE batch == [p \in FailedPids(Head(requests).distros) |-> detailsByPid[p].pd]
  <2>1. /\ DOMAIN batch \subseteq Pids
        /\ \A p \in DOMAIN batch : batch[p] \in ProcessDetails
    BY RetryBatch
  <2>2. InstrumentFromDetails(batch)
    BY <1>3 DEF HandleRetryRequest
  <2> HIDE DEF batch
  <2>3. PICK out \in [DOMAIN batch -> Outcomes] : TryInstrument(batch, out)
    BY <2>2 DEF InstrumentFromDetails
  <2>4. Attempt(batch, out)
    BY <1>3, <2>1, <2>3 DEF HandleRetryRequest, Attempt
  <2> QED
    BY <2>4
<1> QED
  BY <1>1, <1>2, <1>3

\* Every step attempts, cleans, updates, shuts down or happens aside.
LEMMA StepCases ==
    ASSUME TypeOK, [Next]_vars
    PROVE  \/ \E batch, out : Attempt(batch, out)
           \/ \E S, lost : Cleaning(S, lost)
           \/ HandleConfigUpdate
           \/ \E p \in Pids : ShutdownClean(p)
           \/ ShutdownDone
           \/ Aside
<1> USE DEF procVars, channelVars, configVars, mapVars, instVars, reportVars, loopVars
<1>1. CASE HandleExecEvent \/ HandleInstrumentRequest \/ HandleRetryRequest
  BY <1>1, AttemptCases
<1>2. CASE HandleExitEvent
  <2>1. PICK lost \in LostReports({Head(procEvents).pid}) :
           CleanInstrumentation({Head(procEvents).pid}, lost)
    BY <1>2 DEF HandleExitEvent
  <2>2. Cleaning({Head(procEvents).pid}, lost)
    BY <1>2, <2>1 DEF HandleExitEvent, Cleaning, LostReports
  <2> QED
    BY <2>2
<1>3. CASE HandleUnInstrumentRequest
  <2>1. PICK lost \in LostReports(PidsOfGroup(Head(requests).pg)) :
           CleanInstrumentation(PidsOfGroup(Head(requests).pg), lost)
    BY <1>3 DEF HandleUnInstrumentRequest
  <2>2. Cleaning(PidsOfGroup(Head(requests).pg), lost)
    BY <1>3, <2>1 DEF HandleUnInstrumentRequest, Cleaning, LostReports
  <2> QED
    BY <2>2
<1>4. CASE StopEventLoop \/ ShutdownTimeout
  <2>1. Aside
    BY <1>4 DEF StopEventLoop, ShutdownTimeout, Aside
  <2> QED
    BY <2>1
<1>5. CASE Environment
  <2>1. CASE \E p \in Pids, pd \in ProcessDetails : RunReturns(p, pd)
    <3>1. Aside
      BY <2>1 DEF RunReturns, Aside
    <3> QED
      BY <3>1
  <2>2. CASE \E cg \in ConfigGroups : \/ \E c \in Configs \cup {nil} : ChangeConfig(cg, c)
                                      \/ SendConfigUpdate(cg)
    <3>1. UNCHANGED <<mapVars, instVars, reportVars, loopVars>>
      BY <2>2 DEF ChangeConfig, SendConfigUpdate
    <3>2. Aside
      BY <2>2, <3>1 DEF Aside
    <3> QED
      BY <3>2
  <2>3. CASE \/ \E p \in Pids, pd \in ProcessDetails : Spawn(p, pd) \/ ReExec(p, pd)
             \/ \E p \in Pids : Exit(p)
             \/ \E pg \in ProcessGroups : SendInstrumentationRequest(pg)
                                            \/ SendUnInstrumentationRequest(pg)
             \/ \E filter \in SUBSET DistroFactories : SendRetryRequest(filter)
    <3>1. UNCHANGED <<configUpdates, configVars, mapVars, instVars, reportVars, loopVars>>
      BY <2>3 DEF Spawn, ReExec, Exit, SendInstrumentationRequest,
                  SendUnInstrumentationRequest, SendRetryRequest, SendRequest
    <3>2. Aside
      BY <3>1 DEF Aside
    <3> QED
      BY <3>2
  <2> QED
    BY <1>5, <2>1, <2>2, <2>3 DEF Environment
<1>6. CASE UNCHANGED vars
  <2>1. Aside
    BY <1>6 DEF vars, Aside
  <2> QED
    BY <2>1
<1> QED
  BY <1>1, <1>2, <1>3, <1>4, <1>5, <1>6 DEF Next, EventLoop, Shutdown

-----------------------------------------------------------------------------
(* The group indexes agree with the tracked processes *)

\* An attempt keeps the indexes: a tracked process that is attempted again has
\* the groups of its earlier details, or moves.
LEMMA TryInstrumentIndexes ==
    ASSUME TypeOK, IndexesAgree,
           NEW batch, DOMAIN batch \subseteq Pids,
           \A p \in DOMAIN batch : batch[p] \in ProcessDetails,
           NEW out \in [DOMAIN batch -> Outcomes],
           TryInstrument(batch, out)
    PROVE  IndexesAgree'
<1> DEFINE T == Retained(batch, out)
           new == [p \in T |-> NewDetails(p, batch[p], out[p])]
<1>1. T \subseteq DOMAIN batch
  BY DEF Retained, Attempted
<1>2. \A p \in T : /\ new[p] \in Details
                   /\ new[p].pd = batch[p]
                   /\ new[p].cg = ConfigGroup[batch[p]]
                   /\ new[p].pg = ProcessGroup[batch[p]]
  BY <1>1, NewDetailsType DEF NewDetails
<1>3. \A p \in T : new[p] # nil
  BY <1>2, NilAssumption DEF Details, Kinds
<1>4. StartTrackInstrumentation(T, new)
  BY DEF TryInstrument
<1>5. \A p \in T : (detailsByPid[p] # nil /\ p \notin moved') =>
          detailsByPid[p].cg = new[p].cg /\ detailsByPid[p].pg = new[p].pg
  BY <1>4 DEF StartTrackInstrumentation, Elsewhere
<1>6. moved \subseteq moved'
  BY <1>4 DEF StartTrackInstrumentation
<1> HIDE DEF T, new
<1> SUFFICES ASSUME NEW p \in Pids
             PROVE  /\ \A cg \in ConfigGroups :
                          IF detailsByPid'[p] # nil /\ detailsByPid'[p].cg = cg
                          THEN detailsByConfigGroup'[cg][p] = detailsByPid'[p]
                          ELSE detailsByConfigGroup'[cg][p] = nil \/ p \in moved'
                    /\ \A pg \in ProcessGroups :
                          IF detailsByPid'[p] # nil /\ detailsByPid'[p].pg = pg
                          THEN detailsByProcessGroup'[pg][p] = detailsByPid'[p]
                          ELSE detailsByProcessGroup'[pg][p] = nil \/ p \in moved'
  BY DEF IndexesAgree
<1>7. CASE p \in T
  <2>1. detailsByPid'[p] = new[p] /\ new[p] # nil
    BY <1>3, <1>4, <1>7 DEF StartTrackInstrumentation
  <2>2. ASSUME NEW cg \in ConfigGroups
        PROVE  IF new[p].cg = cg THEN detailsByConfigGroup'[cg][p] = new[p]
               ELSE detailsByConfigGroup'[cg][p] = nil \/ p \in moved'
    BY <1>4, <1>5, <1>6, <1>7 DEF StartTrackInstrumentation, IndexesAgree
  <2>3. ASSUME NEW pg \in ProcessGroups
        PROVE  IF new[p].pg = pg THEN detailsByProcessGroup'[pg][p] = new[p]
               ELSE detailsByProcessGroup'[pg][p] = nil \/ p \in moved'
    BY <1>4, <1>5, <1>6, <1>7 DEF StartTrackInstrumentation, IndexesAgree
  <2> QED
    BY <2>1, <2>2, <2>3
<1>8. CASE p \notin T
  BY <1>4, <1>6, <1>8 DEF StartTrackInstrumentation, IndexesAgree
<1> QED
  BY <1>7, <1>8

\* Cleaning removes a process from the indexes it is in.
LEMMA CleanInstrumentationIndexes ==
    ASSUME TypeOK, IndexesAgree, NEW S, NEW lost, CleanInstrumentation(S, lost)
    PROVE  IndexesAgree'
<1>1. Found(S) \subseteq Pids
  BY DEF Found, Tracked
<1>2. StopTrackInstrumentation(Found(S))
  BY DEF CleanInstrumentation
<1>3. ASSUME NEW p \in Pids
      PROVE  /\ \A cg \in ConfigGroups :
                   IF detailsByPid'[p] # nil /\ detailsByPid'[p].cg = cg
                   THEN detailsByConfigGroup'[cg][p] = detailsByPid'[p]
                   ELSE detailsByConfigGroup'[cg][p] = nil \/ p \in moved'
             /\ \A pg \in ProcessGroups :
                   IF detailsByPid'[p] # nil /\ detailsByPid'[p].pg = pg
                   THEN detailsByProcessGroup'[pg][p] = detailsByPid'[p]
                   ELSE detailsByProcessGroup'[pg][p] = nil \/ p \in moved'
  BY <1>1, <1>2 DEF StopTrackInstrumentation, IndexesAgree
<1> QED
  BY <1>3 DEF IndexesAgree

\* Every step keeps the indexes in step with the tracked processes.
LEMMA NextIndexes == TypeOK /\ IndexesAgree /\ [Next]_vars => IndexesAgree'
<1> SUFFICES ASSUME TypeOK, IndexesAgree, [Next]_vars PROVE IndexesAgree'
  OBVIOUS
<1>1. ASSUME NEW batch, NEW out, Attempt(batch, out) PROVE IndexesAgree'
  BY <1>1, TryInstrumentIndexes DEF Attempt
<1>2. ASSUME NEW S, NEW lost, Cleaning(S, lost) PROVE IndexesAgree'
  BY <1>2, CleanInstrumentationIndexes DEF Cleaning
<1>3. CASE ShutdownDone
  BY <1>3 DEF ShutdownDone, Untracked, IndexesAgree
<1>4. CASE HandleConfigUpdate \/ (\E p \in Pids : ShutdownClean(p)) \/ Aside
  <2>1. UNCHANGED mapVars
    BY <1>4 DEF HandleConfigUpdate, ShutdownClean, Aside, mapVars
  <2> QED
    BY <2>1 DEF mapVars, IndexesAgree
<1> QED
  BY <1>1, <1>2, <1>3, <1>4, StepCases

\* The indexes by config group and by process group hold every tracked process
\* under its present groups with its current details, whatever pids are used again
\* in other workloads: an update or an un-instrument request reaches all of its
\* processes.  What else they hold are entries of pids that were tracked again in
\* another group.
THEOREM IndexesCorrect == Spec => []IndexesAgree
<1>1. Init => IndexesAgree
  BY DEF Init, IndexesAgree, Untracked
<1>2. TypeOK /\ IndexesAgree /\ [Next]_vars => IndexesAgree'
  BY NextIndexes
<1> QED
  BY <1>1, <1>2, TypeCorrect, PTL DEF Spec

\* A request to un-instrument a group finds in the group's index the tracked
\* processes of the group, and of the others only such as have moved.
LEMMA PidsOfOwnGroup ==
    ASSUME TypeOK, IndexesAgree, NEW pg \in ProcessGroups
    PROVE  LET group == {p \in Tracked : detailsByPid[p].pg = pg}
           IN  group \subseteq PidsOfGroup(pg) /\ PidsOfGroup(pg) \subseteq group \cup moved
BY NilAssumption DEF PidsOfGroup, Tracked, IndexesAgree

\* Only cleaning and the end of the shutdown make a process untracked.
LEMMA AttemptKeepsTracked ==
    ASSUME TypeOK, NEW batch, NEW out, Attempt(batch, out)
    PROVE  \A p \in Tracked : detailsByPid'[p] # nil
<1> DEFINE T == Retained(batch, out)
           new == [p \in T |-> NewDetails(p, batch[p], out[p])]
<1>1. T \subseteq DOMAIN batch
  BY DEF Retained, Attempted
<1>2. \A p \in T : new[p] \in Details
  BY <1>1, NewDetailsType DEF Attempt
<1>3. StartTrackInstrumentation(T, new)
  BY DEF Attempt, TryInstrument
<1> HIDE DEF T, new
<1> QED
  BY <1>2, <1>3, NilAssumption DEF StartTrackInstrumentation, Tracked, Details, Kinds

\* A channel is never its own tail, and sending is not receiving.
LEMMA NotItsTail ==
    ASSUME NEW M, NEW ch \in Seq(M), ch # <<>>, NEW m \in M
    PROVE  ch # Tail(ch) /\ Append(ch, m) # Tail(ch)
<1> DEFINE l == Len(ch)
           t == Len(Tail(ch))
           a == Len(Append(ch, m))
<1>1. t = l - 1 /\ l \in Nat /\ a = l + 1
  BY HeadTailProperties, AppendProperties, LenProperties
<1>2. t # l /\ t # a
  <2> HIDE DEF l, t, a
  <2> QED
    BY <1>1
<1> QED
  BY <1>2, Zenon

\* Every step removes what RemovesOwnGroup allows.
LEMMA NextRemoves ==
    TypeOK /\ IndexesAgree /\ [Next]_vars => [RemovesOwnGroup]_vars
<1> SUFFICES ASSUME TypeOK, IndexesAgree, Next, loop' = "running" PROVE RemovesOwnGroup
  BY DEF RemovesOwnGroup
<1> USE DEF procVars, channelVars, configVars, mapVars, instVars, reportVars, loopVars
<1>1. CASE HandleUnInstrumentRequest
  <2> DEFINE pg == Head(requests).pg
  <2>1. Head(requests) \in Request
    BY <1>1, Receive DEF HandleUnInstrumentRequest, TypeOK, ChannelTypeOK
  <2>2. pg \in ProcessGroups
    BY <1>1, <2>1 DEF HandleUnInstrumentRequest, Request
  <2> DEFINE group == {p \in Tracked : detailsByPid[p].pg = pg}
             gone == {p \in Tracked : detailsByPid'[p] = nil}
  <2>3. group \subseteq PidsOfGroup(pg) /\ PidsOfGroup(pg) \subseteq group \cup moved
    BY <2>2, PidsOfOwnGroup
  <2>4. PICK lost : CleanInstrumentation(PidsOfGroup(pg), lost)
    BY <1>1 DEF HandleUnInstrumentRequest
  <2>5. detailsByPid' = [p \in Pids |-> IF p \in Found(PidsOfGroup(pg)) THEN nil
                                        ELSE detailsByPid[p]]
    BY <2>4 DEF CleanInstrumentation, StopTrackInstrumentation
  <2>6. group \subseteq gone /\ gone \subseteq group \cup moved
    BY <2>3, <2>5 DEF Found, Tracked
  <2> QED
    BY <1>1, <2>6 DEF HandleUnInstrumentRequest, RemovesOwnGroup
<1>2. CASE HandleExitEvent
  <2> DEFINE e == Head(procEvents)
  <2>1. ~(requests # <<>> /\ requests' = Tail(requests) /\ Head(requests).type = "uninstrument")
    <3>1. UNCHANGED requests
      BY <1>2 DEF HandleExitEvent
    <3>2. SUFFICES ASSUME requests # <<>> PROVE requests # Tail(requests)
      BY <3>1
    <3>3. Head(requests) \in Request
      BY <3>2, Receive DEF TypeOK, ChannelTypeOK
    <3> QED
      BY <3>2, <3>3, NotItsTail DEF TypeOK, ChannelTypeOK
  <2>2. PICK lost : CleanInstrumentation({e.pid}, lost)
    BY <1>2 DEF HandleExitEvent
  <2>3. \A p \in Tracked : detailsByPid'[p] = nil => p = e.pid
    BY <2>2 DEF CleanInstrumentation, StopTrackInstrumentation, Found, Tracked
  <2> QED
    BY <1>2, <2>1, <2>3 DEF HandleExitEvent, RemovesOwnGroup
<1>3. ASSUME \A p \in Tracked : detailsByPid'[p] # nil,
             \/ UNCHANGED requests
             \/ Head(requests).type # "uninstrument"
             \/ \E r \in Request : requests' = Append(requests, r)
      PROVE  RemovesOwnGroup
  <2>1. ~(requests # <<>> /\ requests' = Tail(requests) /\ Head(requests).type = "uninstrument")
    <3> SUFFICES ASSUME requests # <<>>, Head(requests).type = "uninstrument"
                 PROVE  requests' # Tail(requests)
      OBVIOUS
    <3>1. Head(requests) \in Request
      BY Receive DEF TypeOK, ChannelTypeOK
    <3> QED
      BY <1>3, <3>1, NotItsTail DEF TypeOK, ChannelTypeOK
  <2> QED
    BY <1>3, <2>1 DEF RemovesOwnGroup
<1>4. CASE HandleExecEvent \/ HandleInstrumentRequest \/ HandleRetryRequest
  <2>1. UNCHANGED requests \/ Head(requests).type # "uninstrument"
    BY <1>4 DEF HandleExecEvent, HandleInstrumentRequest, HandleRetryRequest
  <2>2. \A p \in Tracked : detailsByPid'[p] # nil
    BY <1>4, AttemptCases, AttemptKeepsTracked DEF Aside, Tracked
  <2> QED
    BY <1>3, <2>1, <2>2
<1>5. CASE HandleConfigUpdate
  BY <1>3, <1>5 DEF HandleConfigUpdate, Tracked
<1>6. CASE StopEventLoop \/ Shutdown
  BY <1>6 DEF StopEventLoop, Shutdown, ShutdownClean, ShutdownTimeout, ShutdownDone
<1>7. CASE Environment
  <2>1. \A p \in Tracked : detailsByPid'[p] # nil
    BY <1>7 DEF Environment, RunReturns, Spawn, ReExec, Exit, SendInstrumentationRequest,
                SendUnInstrumentationRequest, SendRetryRequest, SendRequest, ChangeConfig,
                SendConfigUpdate, Tracked
  <2>2. UNCHANGED requests \/ \E r \in Request : requests' = Append(requests, r)
    <3>1. ASSUME NEW r \in Request, SendRequest(r) PROVE requests' = Append(requests, r)
      BY <3>1 DEF SendRequest
    <3>2. ASSUME NEW pg \in ProcessGroups,
                 SendInstrumentationRequest(pg) \/ SendUnInstrumentationRequest(pg)
          PROVE  \E r \in Request : SendRequest(r)
      BY <3>2, RequestsSent DEF SendInstrumentationRequest, SendUnInstrumentationRequest
    <3>3. ASSUME NEW filter \in SUBSET DistroFactories, SendRetryRequest(filter)
          PROVE  \E r \in Request : SendRequest(r)
      BY <3>3, RequestsSent DEF SendRetryRequest
    <3>4. CASE \/ \E p \in Pids, pd \in ProcessDetails :
                     RunReturns(p, pd) \/ Spawn(p, pd) \/ ReExec(p, pd)
               \/ \E p \in Pids : Exit(p)
               \/ \E cg \in ConfigGroups : \/ \E c \in Configs \cup {nil} : ChangeConfig(cg, c)
                                           \/ SendConfigUpdate(cg)
      BY <3>4 DEF RunReturns, Spawn, ReExec, Exit, ChangeConfig, SendConfigUpdate
    <3> QED
      BY <1>7, <3>1, <3>2, <3>3, <3>4 DEF Environment
  <2> QED
    BY <1>3, <2>1, <2>2
<1> QED
  BY <1>1, <1>2, <1>4, <1>5, <1>6, <1>7 DEF Next, EventLoop

\* A request to un-instrument a workload removes all of the workload's processes,
\* and no other than such as have moved from it; otherwise a running manager
\* forgets a process only at its exit.
THEOREM UnInstrumentCorrect == Spec => UnInstrumentsOwnGroup
<1>1. Spec => []IndexesAgree
  BY IndexesCorrect
<1> QED
  BY <1>1, TypeCorrect, NextRemoves, PTL DEF Spec, UnInstrumentsOwnGroup

-----------------------------------------------------------------------------
(* A shutdown that is not cut off closes everything *)

\* The strengthening of CleanShutdownClosesAll: during the cleanup the processes
\* it has visited have nothing attached, and the others what is tracked.
ShutdownInv ==
    /\ loop = "running" => cleaned = {}
    /\ loop = "stopping" => \A p \in Pids, k \in Kinds :
          attached[p][k] = IF p \in cleaned THEN 0 ELSE Expected(p, k)
    /\ CleanShutdownClosesAll

\* Every step keeps the cleanup's account of what is attached.
LEMMA NextShutdown ==
    TypeOK /\ AttachedMatchesTracked /\ ShutdownInv /\ [Next]_vars => ShutdownInv'
<1> SUFFICES ASSUME TypeOK, AttachedMatchesTracked, ShutdownInv, [Next]_vars
             PROVE  ShutdownInv'
  OBVIOUS
<1> USE DEF loopVars, mapVars, instVars
<1>1. CASE (\E batch, out : Attempt(batch, out)) \/ (\E S, lost : Cleaning(S, lost))
  BY <1>1 DEF Attempt, Cleaning, ShutdownInv, CleanShutdownClosesAll
<1>2. CASE HandleConfigUpdate
  BY <1>2 DEF HandleConfigUpdate, ShutdownInv, CleanShutdownClosesAll
<1>3. ASSUME NEW q \in Pids, ShutdownClean(q) PROVE ShutdownInv'
  <2>1. /\ loop = "stopping" /\ loop' = "stopping" /\ cleaned' = cleaned \cup {q}
        /\ q \in Tracked /\ q \notin cleaned /\ UNCHANGED detailsByPid
    BY <1>3 DEF ShutdownClean
  <2>2. ASSUME NEW p \in Pids, NEW k \in Kinds
        PROVE  attached'[p][k] = IF p \in cleaned' THEN 0 ELSE Expected(p, k)'
    <3>1. attached'[p][k] = attached[p][k] -
            (IF p = q /\ k \in detailsByPid[p].insts THEN 1 ELSE 0)
      BY <1>3 DEF ShutdownClean, CloseInstrumentations
    <3>2. attached[p][k] = IF p \in cleaned THEN 0 ELSE Expected(p, k)
      BY <2>1 DEF ShutdownInv
    <3>3. Expected(p, k)' = Expected(p, k)
      BY <2>1 DEF Expected
    <3> QED
      BY <2>1, <3>1, <3>2, <3>3 DEF Expected, Tracked
  <2> QED
    BY <2>1, <2>2 DEF ShutdownInv, CleanShutdownClosesAll
<1>4. CASE ShutdownDone
  <2>1. ASSUME NEW p \in Pids, NEW k \in Kinds PROVE attached[p][k] = 0
    BY <1>4 DEF ShutdownDone, AllVisited, Tracked, ShutdownInv, Expected
  <2> QED
    BY <1>4, <2>1 DEF ShutdownDone, ShutdownInv, CleanShutdownClosesAll
<1>5. CASE Aside
  <2>1. \A p \in Pids, k \in Kinds : Expected(p, k)' = Expected(p, k)
    BY <1>5 DEF Aside, Expected
  <2>2. UNCHANGED attached
    BY <1>5 DEF Aside
  <2>3. CASE UNCHANGED loopVars
    BY <2>1, <2>2, <2>3 DEF ShutdownInv, CleanShutdownClosesAll
  <2>4. CASE StopEventLoop \/ ShutdownTimeout
    <3>1. loop = "running" => \A p \in Pids, k \in Kinds : attached[p][k] = Expected(p, k)
      BY DEF AttachedMatchesTracked, Expected
    <3> QED
      BY <2>1, <2>2, <2>4, <3>1
      DEF StopEventLoop, ShutdownTimeout, ShutdownInv, CleanShutdownClosesAll
  <2> QED
    BY <1>5, <2>3, <2>4 DEF Aside
<1> QED
  BY <1>1, <1>2, <1>3, <1>4, <1>5, StepCases

\* Whenever the manager stops, in whatever state its event loop is, a cleanup
\* that is not cut off by its timeout leaves no instrumentation attached.
THEOREM ShutdownCorrect == Spec => []CleanShutdownClosesAll
<1>1. Init => ShutdownInv
  BY DEF Init, ShutdownInv, CleanShutdownClosesAll
<1>2. ShutdownInv => CleanShutdownClosesAll
  BY DEF ShutdownInv
<1> QED
  BY <1>1, <1>2, TypeCorrect, AttachedCorrect, NextShutdown, PTL DEF Spec

-----------------------------------------------------------------------------
(* The self metrics count the tracked processes *)

\* The processes with a loaded instrumentation of the distro d.
Instrumented(d) ==
    {p \in Tracked : /\ "distro" \in detailsByPid[p].insts
                     /\ Distribution[detailsByPid[p].pd] = d}

\* The strengthening of MetricsMatchTracked: the failure counter of a process
\* that is not tracked has been reset.
MetricsInv ==
    /\ MetricsMatchTracked
    /\ loop = "running" =>
          \A p \in Pids : detailsByPid[p] = nil => failedInstrumentations[p] = 0

\* Counting the disjoint union and the difference of sets of pids.
LEMMA PidCardinalities ==
    ASSUME NEW A, NEW B, A \subseteq Pids, B \subseteq Pids
    PROVE  /\ A \cap B = {} => Cardinality(A \cup B) = Cardinality(A) + Cardinality(B)
           /\ B \subseteq A => Cardinality(A \ B) = Cardinality(A) - Cardinality(B)
<1>1. IsFiniteSet(A) /\ IsFiniteSet(B) /\ IsFiniteSet(A \ B)
  BY PidsAssumption, FS_Subset
<1>2. Cardinality(A) \in Nat /\ Cardinality(B) \in Nat /\ Cardinality(A \ B) \in Nat
  BY <1>1, FS_CardinalityType
<1>3. ASSUME NEW X, NEW Y, IsFiniteSet(X), IsFiniteSet(Y), X \cap Y = {},
             Cardinality(X) \in Nat, Cardinality(Y) \in Nat
      PROVE  Cardinality(X \cup Y) = Cardinality(X) + Cardinality(Y)
  <2>1. Cardinality(X \cap Y) = 0
    BY <1>3, FS_EmptySet
  <2>2. Cardinality(X \cup Y) = Cardinality(X) + Cardinality(Y) - Cardinality(X \cap Y)
    BY <1>3, FS_Union
  <2> QED
    BY <1>3, <2>1, <2>2
<1>4. ASSUME B \subseteq A PROVE Cardinality(A \ B) = Cardinality(A) - Cardinality(B)
  <2>1. (A \ B) \cap B = {} /\ (A \ B) \cup B = A
    BY <1>4
  <2>2. Cardinality(A) = Cardinality(A \ B) + Cardinality(B)
    BY <1>1, <1>2, <1>3, <2>1
  <2> QED
    BY <1>2, <2>2
<1> QED
  BY <1>1, <1>2, <1>3, <1>4

\* An attempt counts what it adds: a process it reaches has no distro
\* instrumentation yet, and its first failure is counted if it was not tracked.
LEMMA AttemptMetrics ==
    ASSUME TypeOK, MetricsInv, NEW batch, NEW out, Attempt(batch, out)
    PROVE  MetricsInv'
<1> DEFINE T == Retained(batch, out)
           new == [p \in T |-> NewDetails(p, batch[p], out[p])]
           started(d) == {p \in T : /\ Distribution[new[p].pd] = d
                                    /\ "distro" \in new[p].insts
                                    /\ ~(detailsByPid[p] # nil
                                           /\ "distro" \in detailsByPid[p].insts)}
           failed == {p \in T : /\ HasFactory(new[p].pd)
                                /\ "distro" \notin new[p].insts
                                /\ detailsByPid[p] = nil}
<1>1. T \subseteq DOMAIN batch /\ T \subseteq Pids
  BY DEF Retained, Attempted, Attempt
<1>2. \A p \in T : new[p] \in Details
  BY <1>1, NewDetailsType DEF Attempt
<1>3. \A p \in T : new[p] # nil
  BY <1>2, NilAssumption DEF Details, Kinds
<1>4. \A p \in T : detailsByPid[p] # nil =>
          "distro" \notin detailsByPid[p].insts /\ HasFactory(detailsByPid[p].pd)
  BY DEF Retained, Attempted, IsInstrumentedByDistro
<1>5. /\ instrumentedProcesses' =
            [d \in Distros |-> instrumentedProcesses[d] + Cardinality(started(d))]
      /\ failedInstrumentations' =
            [p \in Pids |-> failedInstrumentations[p] + (IF p \in failed THEN 1 ELSE 0)]
  BY DEF Attempt, TryInstrument, CountTracked
<1>6. detailsByPid' = [p \in Pids |-> IF p \in T THEN new[p] ELSE detailsByPid[p]]
  BY DEF Attempt, TryInstrument, StartTrackInstrumentation
<1>7. loop = "running"
  BY DEF Attempt
<1> HIDE DEF T, new
<1>8. ASSUME NEW d \in Distros
      PROVE  instrumentedProcesses'[d] = Cardinality(Instrumented(d)')
  <2>1. Instrumented(d) \cap started(d) = {}
    BY DEF Instrumented, Tracked
  <2>2. Instrumented(d)' = Instrumented(d) \cup started(d)
    BY <1>1, <1>3, <1>4, <1>6 DEF Instrumented, Tracked
  <2>3. Instrumented(d) \subseteq Pids /\ started(d) \subseteq Pids
    BY <1>1 DEF Instrumented, Tracked
  <2>4. instrumentedProcesses[d] = Cardinality(Instrumented(d))
    BY <1>7 DEF MetricsInv, MetricsMatchTracked, Instrumented
  <2> HIDE DEF started
  <2>5. Cardinality(Instrumented(d)') = Cardinality(Instrumented(d)) + Cardinality(started(d))
    BY <2>1, <2>2, <2>3, PidCardinalities
  <2> QED
    BY <1>5, <2>4, <2>5
<1>9. ASSUME NEW p \in Pids
      PROVE  /\ failedInstrumentations'[p] <= 1
             /\ detailsByPid'[p] = nil => failedInstrumentations'[p] = 0
             /\ detailsByPid'[p] # nil /\ HasFactory(detailsByPid'[p].pd)
                  /\ "distro" \notin detailsByPid'[p].insts => failedInstrumentations'[p] = 1
  <2>1. /\ failedInstrumentations[p] \in Nat
        /\ failedInstrumentations[p] <= 1
        /\ detailsByPid[p] = nil => failedInstrumentations[p] = 0
        /\ detailsByPid[p] # nil /\ HasFactory(detailsByPid[p].pd)
             /\ "distro" \notin detailsByPid[p].insts => failedInstrumentations[p] = 1
    BY <1>7 DEF MetricsInv, MetricsMatchTracked, Tracked, TypeOK, ReportTypeOK
  <2>2. failedInstrumentations'[p] = failedInstrumentations[p] + (IF p \in failed THEN 1 ELSE 0)
    BY <1>5
  <2>3. detailsByPid'[p] = IF p \in T THEN new[p] ELSE detailsByPid[p]
    BY <1>6
  <2> QED
    BY <1>3, <1>4, <2>1, <2>2, <2>3
<1> QED
  BY <1>8, <1>9 DEF MetricsInv, MetricsMatchTracked, Instrumented, Tracked

\* Cleaning uncounts the processes it drops.
LEMMA CleaningMetrics ==
    ASSUME TypeOK, MetricsInv, NEW S, NEW lost, Cleaning(S, lost)
    PROVE  MetricsInv'
<1> DEFINE C == Found(S)
           loaded(d) == {p \in C : /\ "distro" \in detailsByPid[p].insts
                                   /\ Distribution[detailsByPid[p].pd] = d}
<1>1. C \subseteq Tracked /\ Tracked \subseteq Pids
  BY DEF Found, Tracked
<1>2. /\ instrumentedProcesses' =
            [d \in Distros |-> instrumentedProcesses[d] - Cardinality(loaded(d))]
      /\ failedInstrumentations' =
            [p \in Pids |-> IF p \in C THEN 0 ELSE failedInstrumentations[p]]
      /\ detailsByPid' = [p \in Pids |-> IF p \in C THEN nil ELSE detailsByPid[p]]
  BY DEF Cleaning, CleanInstrumentation, StopTrackInstrumentation
<1>3. loop = "running"
  BY DEF Cleaning
<1> HIDE DEF C
<1>4. ASSUME NEW d \in Distros
      PROVE  instrumentedProcesses'[d] = Cardinality(Instrumented(d)')
  <2>1. loaded(d) \subseteq Instrumented(d) /\ Instrumented(d) \subseteq Pids
    BY <1>1 DEF Instrumented
  <2>2. Instrumented(d)' = Instrumented(d) \ loaded(d)
    BY <1>1, <1>2 DEF Instrumented, Tracked
  <2>3. instrumentedProcesses[d] = Cardinality(Instrumented(d))
    BY <1>3 DEF MetricsInv, MetricsMatchTracked, Instrumented
  <2> HIDE DEF loaded
  <2>4. Cardinality(Instrumented(d)') = Cardinality(Instrumented(d)) - Cardinality(loaded(d))
    BY <2>1, <2>2, PidCardinalities
  <2> QED
    BY <1>2, <2>3, <2>4
<1>5. ASSUME NEW p \in Pids
      PROVE  /\ failedInstrumentations'[p] <= 1
             /\ detailsByPid'[p] = nil => failedInstrumentations'[p] = 0
             /\ detailsByPid'[p] # nil /\ HasFactory(detailsByPid'[p].pd)
                  /\ "distro" \notin detailsByPid'[p].insts => failedInstrumentations'[p] = 1
  BY <1>2, <1>3 DEF MetricsInv, MetricsMatchTracked, Tracked
<1> QED
  BY <1>4, <1>5 DEF MetricsInv, MetricsMatchTracked, Instrumented, Tracked

\* Every step keeps the counters.
LEMMA NextMetrics == TypeOK /\ MetricsInv /\ [Next]_vars => MetricsInv'
<1> SUFFICES ASSUME TypeOK, MetricsInv, [Next]_vars PROVE MetricsInv'
  OBVIOUS
<1>1. CASE HandleConfigUpdate \/ Aside
  <2>1. /\ UNCHANGED <<detailsByPid, instrumentedProcesses, failedInstrumentations>>
        /\ loop' = "running" => loop = "running"
    BY <1>1 DEF HandleConfigUpdate, Aside, StopEventLoop, ShutdownTimeout, mapVars,
                reportVars, loopVars
  <2> QED
    BY <2>1 DEF MetricsInv, MetricsMatchTracked, Tracked
<1>2. CASE (\E p \in Pids : ShutdownClean(p)) \/ ShutdownDone
  <2>1. loop' # "running"
    BY <1>2 DEF ShutdownClean, ShutdownDone
  <2> QED
    BY <2>1 DEF MetricsInv, MetricsMatchTracked
<1> QED
  BY <1>1, <1>2, StepCases, AttemptMetrics, CleaningMetrics

\* For every batch, retry and exit: the instrumented-processes counters are the
\* numbers of processes with a loaded instrumentation, and a failing process
\* is counted as failed exactly once.
THEOREM MetricsCorrect == Spec => []MetricsMatchTracked
<1>1. ASSUME Init PROVE MetricsInv
  <2>1. Tracked = {}
    BY <1>1 DEF Init, Tracked, Untracked
  <2>2. \A d \in Distros : Instrumented(d) = {}
    BY <2>1 DEF Instrumented
  <2>3. \A d \in Distros : instrumentedProcesses[d] = Cardinality(Instrumented(d))
    BY <1>1, <2>2, FS_EmptySet DEF Init
  <2>4. \A p \in Pids : failedInstrumentations[p] = 0
    BY <1>1 DEF Init
  <2> QED
    BY <2>1, <2>3, <2>4 DEF MetricsInv, MetricsMatchTracked, Instrumented
<1>2. MetricsInv => MetricsMatchTracked
  BY DEF MetricsInv
<1> QED
  BY <1>1, <1>2, TypeCorrect, NextMetrics, PTL DEF Spec

-----------------------------------------------------------------------------
(* The InstrumentationInstance records tell the truth *)

\* What RecordsMatchTracked says of one record.
Truthful(pod, p) ==
    instances[pod][p] \notin {nil, "FailedToRun"} /\ p \notin moved =>
        /\ detailsByPid[p] # nil
        /\ PodOf[detailsByPid[p].pd] = pod
        /\ instances[pod][p] = "LoadedSuccessfully" => "distro" \in detailsByPid[p].insts

\* An attempt writes the record of a process it tracks, in the pod of its
\* details, and takes nothing from the details an older record stands for.
LEMMA AttemptRecords ==
    ASSUME TypeOK, NEW pod \in Pods, NEW p \in Pids,
           Truthful(pod, p), NEW batch, NEW out, Attempt(batch, out)
    PROVE  Truthful(pod, p)'
<1> DEFINE T == Retained(batch, out)
           new == NewDetails(p, batch[p], out[p])
<1>1. detailsByPid'[p] = IF p \in T THEN new ELSE detailsByPid[p]
  BY DEF Attempt, TryInstrument, StartTrackInstrumentation
<1>2. instances'[pod][p] =
        IF p \in Attempted(batch) /\ HasFactory(batch[p]) /\ out[p].reported
             /\ PodOf[batch[p]] = pod
        THEN out[p].result ELSE instances[pod][p]
  BY DEF Attempt, TryInstrument
<1>0. moved \subseteq moved'
  BY DEF Attempt, TryInstrument, StartTrackInstrumentation
<1>3. CASE p \notin T
  <2>1. ~(p \in Attempted(batch) /\ HasFactory(batch[p]))
    BY <1>3 DEF Retained
  <2> QED
    BY <1>1, <1>2, <1>0, <1>3, <2>1 DEF Truthful
<1>4. CASE p \in T
  <2>1. p \in DOMAIN batch /\ ~IsInstrumentedByDistro(p)
    BY <1>4 DEF Retained, Attempted
  <2>2. new \in Details
    BY <2>1, NewDetailsType DEF Attempt
  <2>3. /\ new # nil /\ new.pd = batch[p]
        /\ detailsByPid[p] # nil => detailsByPid[p].insts \subseteq new.insts
        /\ LoadedDistro(batch[p], out[p]) \subseteq new.insts
    BY <2>2, NilAssumption DEF Details, Kinds, NewDetails
  <2>4. detailsByPid[p] # nil /\ p \notin moved' => PodOf[detailsByPid[p].pd] = PodOf[new.pd]
    BY <1>4 DEF Attempt, TryInstrument, StartTrackInstrumentation, Elsewhere
  <2> HIDE DEF new
  <2>5. CASE p \in Attempted(batch) /\ HasFactory(batch[p]) /\ out[p].reported
               /\ PodOf[batch[p]] = pod
    <3>1. instances'[pod][p] = "LoadedSuccessfully" => "distro" \in new.insts
      BY <1>2, <2>3, <2>5 DEF LoadedDistro
    <3> QED
      BY <1>1, <1>4, <2>3, <2>5, <3>1 DEF Truthful
  <2>6. CASE instances'[pod][p] = instances[pod][p]
    BY <1>1, <1>0, <1>4, <2>3, <2>4, <2>6 DEF Truthful
  <2> QED
    BY <1>2, <2>5, <2>6
<1> QED
  BY <1>3, <1>4

\* Cleaning deletes the record of a process it drops.
LEMMA CleaningRecords ==
    ASSUME ~ApiMayFail, NEW pod \in Pods, NEW p \in Pids, Truthful(pod, p),
           NEW S, NEW lost, Cleaning(S, lost)
    PROVE  Truthful(pod, p)'
<1>1. detailsByPid'[p] = IF p \in Found(S) THEN nil ELSE detailsByPid[p]
  BY DEF Cleaning, CleanInstrumentation, StopTrackInstrumentation
<1>2. instances'[pod][p] = IF p \in Found(S) /\ PodOf[detailsByPid[p].pd] = pod
                           THEN nil ELSE instances[pod][p]
  BY DEF Cleaning, CleanInstrumentation, ReportExit
<1>3. UNCHANGED moved
  BY DEF Cleaning, CleanInstrumentation, StopTrackInstrumentation
<1> QED
  BY <1>1, <1>2, <1>3 DEF Truthful

\* Every step keeps every record true.
LEMMA NextRecords ==
    ASSUME ~ApiMayFail
    PROVE  TypeOK /\ RecordsMatchTracked /\ [Next]_vars => RecordsMatchTracked'
<1> SUFFICES ASSUME TypeOK, RecordsMatchTracked, [Next]_vars, loop' = "running",
                    NEW pod \in Pods, NEW p \in Pids
             PROVE  Truthful(pod, p)'
  BY DEF RecordsMatchTracked, Truthful
<1>0. loop = "running" => Truthful(pod, p)
  BY DEF RecordsMatchTracked, Truthful
<1>1. ASSUME NEW batch, NEW out, Attempt(batch, out) PROVE Truthful(pod, p)'
  <2>1. Truthful(pod, p)
    BY <1>0, <1>1 DEF Attempt
  <2> QED
    BY <1>1, <2>1, AttemptRecords
<1>2. ASSUME NEW S, NEW lost, Cleaning(S, lost) PROVE Truthful(pod, p)'
  <2>1. Truthful(pod, p)
    BY <1>0, <1>2 DEF Cleaning
  <2> QED
    BY <1>2, <2>1, CleaningRecords
<1>3. CASE HandleConfigUpdate
  BY <1>0, <1>3 DEF HandleConfigUpdate, mapVars, reportVars, loopVars, Truthful
<1>4. CASE (\E q \in Pids : ShutdownClean(q)) \/ ShutdownDone
  BY <1>4 DEF ShutdownClean, ShutdownDone
<1>5. CASE Aside
  <2>1. loop = "running" /\ UNCHANGED <<detailsByPid, moved>>
    BY <1>5 DEF Aside, StopEventLoop, ShutdownTimeout, mapVars, loopVars
  <2>2. instances'[pod][p] \in {instances[pod][p], "FailedToRun"}
    <3>1. ASSUME NEW q \in Pids, NEW pd \in ProcessDetails,
                 instances' = [instances EXCEPT ![PodOf[pd]][q] = "FailedToRun"]
          PROVE  instances'[pod][p] \in {instances[pod][p], "FailedToRun"}
      <4>1. PodOf[pd] \in Pods
        BY DetailsAssumption
      <4> QED
        BY <3>1, <4>1 DEF TypeOK, ReportTypeOK
    <3> QED
      BY <1>5, <3>1 DEF Aside
  <2> QED
    BY <1>0, <2>1, <2>2 DEF Truthful
<1> QED
  BY <1>1, <1>2, <1>3, <1>4, <1>5, StepCases

\* If no call of the reporter fails, no record says that probes are loaded where
\* they are not, and none outlives the tracking of its process but that of a failed
\* Run and that of a pid which was tracked again in another pod.
THEOREM RecordsCorrect ==
    ASSUME ~ApiMayFail
    PROVE  Spec => []RecordsMatchTracked
<1>1. Init => RecordsMatchTracked
  BY DEF Init, RecordsMatchTracked, Untracked
<1>2. TypeOK /\ RecordsMatchTracked /\ [Next]_vars => RecordsMatchTracked'
  BY NextRecords
<1> QED
  BY <1>1, <1>2, TypeCorrect, PTL DEF Spec

-----------------------------------------------------------------------------
(* Configuration updates are not lost *)

\* The last update for cg in the queue q carries c.
Current(q, cg, c) ==
    \E i \in DOMAIN q : /\ q[i].cg = cg /\ q[i].config = c
                        /\ \A j \in DOMAIN q : q[j].cg = cg => j <= i

\* The queue q has no update for cg.
NoneFor(q, cg) == \A i \in DOMAIN q : q[i].cg # cg

LEMMA PendingIsCurrent ==
    ASSUME NEW cg
    PROVE  UpdatePending(cg) <=> cg \in owed \/ Current(configUpdates, cg, config[cg])
BY DEF UpdatePending, UpdatesOf, Current

\* Receiving leaves the last update for cg in the queue, or was it.
LEMMA TailCurrent ==
    ASSUME NEW q \in Seq(ConfigUpdate), q # <<>>, NEW cg, NEW c
    PROVE  /\ Current(q, cg, c) =>
                \/ Current(Tail(q), cg, c)
                \/ Head(q).cg = cg /\ Head(q).config = c /\ NoneFor(Tail(q), cg)
           /\ NoneFor(q, cg) => NoneFor(Tail(q), cg)
<1> DEFINE t == Tail(q)
           n == Len(q)
<1>1. n \in Nat /\ n >= 1 /\ DOMAIN q = 1 .. n /\ q[1] = Head(q)
  BY HeadTailProperties, LenProperties, EmptySeq
<1>2. DOMAIN t = 1 .. n - 1 /\ \A i \in 1 .. n - 1 : t[i] = q[i + 1]
  BY <1>1, HeadTailProperties, LenProperties
<1> HIDE DEF t, n
<1>3. NoneFor(q, cg) => NoneFor(t, cg)
  BY <1>1, <1>2 DEF NoneFor
<1>4. ASSUME Current(q, cg, c)
      PROVE  \/ Current(t, cg, c)
             \/ Head(q).cg = cg /\ Head(q).config = c /\ NoneFor(t, cg)
  <2>1. PICK i \in DOMAIN q : /\ q[i].cg = cg /\ q[i].config = c
                              /\ \A j \in DOMAIN q : q[j].cg = cg => j <= i
    BY <1>4 DEF Current
  <2>2. i \in Nat /\ i >= 1 /\ i <= n
    BY <1>1, <2>1
  <2>3. CASE i = 1
    BY <1>1, <1>2, <2>1, <2>3 DEF NoneFor
  <2>4. CASE i > 1
    <3>1. i - 1 \in DOMAIN t /\ t[i - 1] = q[i]
      BY <1>1, <1>2, <2>2, <2>4
    <3>2. ASSUME NEW j \in DOMAIN t, t[j].cg = cg PROVE j <= i - 1
      <4>1. j + 1 \in DOMAIN q /\ q[j + 1].cg = cg /\ j \in Int
        BY <1>1, <1>2, <3>2
      <4>2. j + 1 <= i
        BY <2>1, <4>1
      <4> QED
        BY <2>2, <4>1, <4>2
    <3> QED
      BY <2>1, <3>1, <3>2 DEF Current
  <2> QED
    BY <2>2, <2>3, <2>4
<1> QED
  BY <1>3, <1>4 DEF t

\* A sent update is the last for its group and leaves the other groups alone.
LEMMA AppendCurrent ==
    ASSUME NEW q \in Seq(ConfigUpdate), NEW u \in ConfigUpdate, NEW cg, NEW c
    PROVE  /\ Current(Append(q, u), u.cg, u.config)
           /\ u.cg # cg /\ Current(q, cg, c) => Current(Append(q, u), cg, c)
           /\ u.cg # cg /\ NoneFor(q, cg) => NoneFor(Append(q, u), cg)
<1> DEFINE a == Append(q, u)
           n == Len(q)
<1>1. n \in Nat /\ DOMAIN q = 1 .. n
  BY LenProperties
<1>2. DOMAIN a = 1 .. n + 1 /\ a[n + 1] = u /\ \A i \in 1 .. n : a[i] = q[i]
  BY <1>1, AppendProperties, LenProperties
<1> HIDE DEF a, n
<1>3. Current(a, u.cg, u.config)
  BY <1>1, <1>2 DEF Current
<1>4. ASSUME u.cg # cg, NoneFor(q, cg) PROVE NoneFor(a, cg)
  BY <1>1, <1>2, <1>4 DEF NoneFor
<1>5. ASSUME u.cg # cg, Current(q, cg, c) PROVE Current(a, cg, c)
  <2>1. PICK i \in DOMAIN q : /\ q[i].cg = cg /\ q[i].config = c
                              /\ \A j \in DOMAIN q : q[j].cg = cg => j <= i
    BY <1>5 DEF Current
  <2>2. i \in DOMAIN a /\ a[i] = q[i]
    BY <1>1, <1>2, <2>1
  <2>3. ASSUME NEW j \in DOMAIN a, a[j].cg = cg PROVE j <= i
    <3>1. j # n + 1
      BY <1>2, <1>5, <2>3
    <3>2. j \in DOMAIN q /\ a[j] = q[j]
      BY <1>1, <1>2, <3>1
    <3> QED
      BY <2>1, <2>3, <3>2
  <2> QED
    BY <2>1, <2>2, <2>3 DEF Current
<1> QED
  BY <1>3, <1>4, <1>5 DEF a

\* The strengthening of ConfigIsFreshOrPending: of the updates queued for a
\* container the last one is current, unless a further one is owed, so that the
\* update that leaves none behind brings the present configuration.
QueueInv ==
    \A cg \in ConfigGroups :
        \/ config[cg] = nil \/ cg \in owed
        \/ NoneFor(configUpdates, cg) \/ Current(configUpdates, cg, config[cg])

\* Every step keeps the last queued update of a container current.
LEMMA NextQueue == TypeOK /\ QueueInv /\ [Next]_vars => QueueInv'
<1> SUFFICES ASSUME TypeOK, QueueInv, [Next]_vars PROVE QueueInv'
  OBVIOUS
<1> USE DEF configVars, loopVars, channelVars
<1>1. CASE UNCHANGED <<configUpdates, configVars>>
  BY <1>1 DEF QueueInv
<1>2. CASE HandleConfigUpdate
  <2>1. /\ configUpdates \in Seq(ConfigUpdate) /\ configUpdates # <<>>
        /\ configUpdates' = Tail(configUpdates) /\ UNCHANGED <<config, owed>>
    BY <1>2 DEF HandleConfigUpdate, TypeOK, ChannelTypeOK
  <2> QED
    BY <2>1, TailCurrent DEF QueueInv
<1>3. ASSUME NEW cg \in ConfigGroups, NEW c \in Configs \cup {nil}, ChangeConfig(cg, c)
      PROVE  QueueInv'
  <2>1. /\ config' = [config EXCEPT ![cg] = c] /\ UNCHANGED configUpdates
        /\ owed' = IF c = nil THEN owed \ {cg} ELSE owed \cup {cg}
    BY <1>3 DEF ChangeConfig, OwedAfter
  <2> QED
    BY <2>1 DEF QueueInv, TypeOK, ChannelTypeOK
<1>4. ASSUME NEW cg \in ConfigGroups, SendConfigUpdate(cg) PROVE QueueInv'
  <2> DEFINE u == [cg |-> cg, config |-> config[cg]]
  <2>1. u \in ConfigUpdate /\ u.cg = cg /\ u.config = config[cg]
    BY <1>4 DEF SendConfigUpdate, ConfigUpdate, TypeOK, ChannelTypeOK
  <2>2. /\ configUpdates' = Append(configUpdates, u) /\ owed' = owed \ {cg}
        /\ UNCHANGED config /\ configUpdates \in Seq(ConfigUpdate)
    BY <1>4 DEF SendConfigUpdate, TypeOK, ChannelTypeOK
  <2> HIDE DEF u
  <2> QED
    BY <2>1, <2>2, AppendCurrent DEF QueueInv
<1>5. CASE (\E p \in Pids : ShutdownClean(p)) \/ ShutdownDone
  BY <1>1, <1>5 DEF ShutdownClean, ShutdownDone
<1> QED
  BY <1>1, <1>2, <1>3, <1>4, <1>5, StepCases DEF Attempt, Cleaning, Aside

\* What ConfigIsFreshOrPending says of one instrumentation of a tracked process.
Settled(p, k) ==
    detailsByPid[p] # nil /\ k \in detailsByPid[p].insts =>
        LET cg == detailsByPid[p].cg
        IN  \/ instConfig[p][k] = config[cg]
            \/ config[cg] = nil
            \/ <<p, k>> \in staleConfig
            \/ p \in moved
            \/ cg \in owed
            \/ Current(configUpdates, cg, config[cg])

\* An attempt gives what it loads the present configuration, and what it carries
\* over stays in its container.
LEMMA AttemptConfig ==
    ASSUME TypeOK, NEW p \in Pids, NEW k \in Kinds,
           Settled(p, k), NEW batch, NEW out, Attempt(batch, out)
    PROVE  Settled(p, k)'
<1> DEFINE T == Retained(batch, out)
           new == NewDetails(p, batch[p], out[p])
           loads == p \in T /\ k \in LoadedGenerics(p, out[p])
                                       \cup LoadedDistro(batch[p], out[p])
<1>1. detailsByPid'[p] = IF p \in T THEN new ELSE detailsByPid[p]
  BY DEF Attempt, TryInstrument, StartTrackInstrumentation
<1>2. instConfig'[p][k] = IF loads THEN config[new.cg] ELSE instConfig[p][k]
  BY DEF Attempt, TryInstrument
<1>3. ~loads /\ <<p, k>> \in staleConfig => <<p, k>> \in staleConfig'
  BY DEF Attempt, TryInstrument
<1>4. UNCHANGED <<config, owed, configUpdates>>
  BY DEF Attempt, configVars
<1>0. moved \subseteq moved'
  BY DEF Attempt, TryInstrument, StartTrackInstrumentation
<1>5. CASE p \notin T
  BY <1>1, <1>2, <1>3, <1>4, <1>0, <1>5 DEF Settled
<1>6. CASE p \in T /\ loads
  BY <1>1, <1>2, <1>4, <1>6 DEF Settled
<1>7. CASE p \in T /\ ~loads
  <2>1. detailsByPid[p] # nil /\ p \notin moved' => detailsByPid[p].cg = new.cg
    BY <1>7 DEF Attempt, TryInstrument, StartTrackInstrumentation, Elsewhere
  <2>2. k \in new.insts => detailsByPid[p] # nil /\ k \in detailsByPid[p].insts
    BY <1>7 DEF NewDetails
  <2> HIDE DEF new, loads
  <2> QED
    BY <1>1, <1>2, <1>3, <1>4, <1>0, <1>7, <2>1, <2>2 DEF Settled
<1> QED
  BY <1>5, <1>6, <1>7

\* An update is applied to the instrumentations of its container, and it is the
\* present configuration unless another one follows it.
LEMMA UpdateConfig ==
    ASSUME TypeOK, IndexesAgree, QueueInv, NEW p \in Pids, NEW k \in Kinds, Settled(p, k),
           HandleConfigUpdate
    PROVE  Settled(p, k)'
<1> DEFINE u == Head(configUpdates)
           targets == {pk \in Pids \X Kinds :
                         /\ detailsByConfigGroup[u.cg][pk[1]] # nil
                         /\ pk[2] \in detailsByConfigGroup[u.cg][pk[1]].insts}
<1>1. /\ configUpdates \in Seq(ConfigUpdate) /\ configUpdates # <<>>
      /\ configUpdates' = Tail(configUpdates) /\ UNCHANGED <<config, owed, detailsByPid, moved>>
  BY DEF HandleConfigUpdate, TypeOK, ChannelTypeOK, configVars, mapVars
<1>2. u \in ConfigUpdate
  BY <1>1, Receive
<1>3. u.cg \in ConfigGroups
  BY <1>2 DEF ConfigUpdate
<1>4. PICK failed \in SUBSET targets :
         /\ instConfig' = [q \in Pids |-> [kk \in Kinds |->
               IF <<q, kk>> \in targets \ failed THEN u.config ELSE instConfig[q][kk]]]
         /\ staleConfig' = (staleConfig \ targets) \cup failed
  BY DEF HandleConfigUpdate
<1>5. ASSUME detailsByPid[p] # nil, k \in detailsByPid[p].insts, <<p, k>> \notin failed,
             config[detailsByPid[p].cg] # nil, detailsByPid[p].cg \notin owed,
             p \notin moved
      PROVE  \/ instConfig'[p][k] = config[detailsByPid[p].cg]
             \/ <<p, k>> \in staleConfig'
             \/ Current(Tail(configUpdates), detailsByPid[p].cg, config[detailsByPid[p].cg])
  <2> DEFINE cg == detailsByPid[p].cg
  <2>1. cg \in ConfigGroups
    BY <1>5 DEF TypeOK, MapTypeOK, Details
  <2>2. <<p, k>> \in targets <=> cg = u.cg
    BY <1>3, <1>5 DEF IndexesAgree
  <2> HIDE DEF targets
  <2>3. instConfig'[p][k] = IF <<p, k>> \in targets THEN u.config ELSE instConfig[p][k]
    BY <1>4, <1>5
  <2>4. CASE cg = u.cg
    <3>1. ~NoneFor(configUpdates, cg)
      <4>1. 1 \in DOMAIN configUpdates /\ configUpdates[1] = u
        BY <1>1, HeadTailProperties, LenProperties, EmptySeq
      <4> QED
        BY <2>4, <4>1 DEF NoneFor
    <3>2. Current(configUpdates, cg, config[cg])
      BY <1>5, <2>1, <3>1 DEF QueueInv
    <3>3. Current(Tail(configUpdates), cg, config[cg]) \/ u.config = config[cg]
      BY <1>1, <3>2, TailCurrent
    <3> QED
      BY <2>2, <2>3, <2>4, <3>3
  <2>5. CASE cg # u.cg
    <3>1. instConfig'[p][k] = instConfig[p][k]
      BY <2>2, <2>3, <2>5
    <3>2. <<p, k>> \in staleConfig => <<p, k>> \in staleConfig'
      BY <1>4, <2>2, <2>5
    <3>3. Current(configUpdates, cg, config[cg]) => Current(Tail(configUpdates), cg, config[cg])
      BY <1>1, <2>5, TailCurrent
    <3> QED
      BY <1>5, <3>1, <3>2, <3>3 DEF Settled
  <2> QED
    BY <2>4, <2>5
<1>6. <<p, k>> \in failed => <<p, k>> \in staleConfig'
  BY <1>4
<1> HIDE DEF targets
<1> QED
  BY <1>1, <1>5, <1>6 DEF Settled

\* ConfigIsFreshOrPending in terms of Settled.
ConfigInv == loop = "running" => \A p \in Pids, k \in Kinds : Settled(p, k)

LEMMA ConfigSettled == TypeOK /\ ConfigInv => ConfigIsFreshOrPending
<1> SUFFICES ASSUME TypeOK, ConfigInv, loop = "running", NEW p \in Tracked,
                    NEW k \in detailsByPid[p].insts
             PROVE  LET cg == detailsByPid[p].cg
                    IN  \/ instConfig[p][k] = config[cg]
                        \/ config[cg] = nil
                        \/ <<p, k>> \in staleConfig
                        \/ p \in moved
                        \/ UpdatePending(cg)
  BY DEF ConfigIsFreshOrPending
<1>1. p \in Pids /\ detailsByPid[p] # nil /\ k \in Kinds
  BY DEF Tracked, TypeOK, MapTypeOK, Details
<1>2. Settled(p, k)
  BY <1>1 DEF ConfigInv
<1> QED
  BY <1>1, <1>2, PendingIsCurrent DEF Settled

\* Every step keeps every instrumentation fresh or awaiting its update.
LEMMA NextConfig ==
    TypeOK /\ IndexesAgree /\ QueueInv /\ ConfigInv /\ [Next]_vars => ConfigInv'
<1> SUFFICES ASSUME TypeOK, IndexesAgree, QueueInv, ConfigInv, [Next]_vars,
                    loop' = "running", NEW p \in Pids, NEW k \in Kinds
             PROVE  Settled(p, k)'
  BY DEF ConfigInv
<1> USE DEF channelVars, configVars, loopVars, mapVars, instVars
<1>0. loop = "running" => Settled(p, k)
  BY DEF ConfigInv
<1>1. ASSUME NEW batch, NEW out, Attempt(batch, out) PROVE Settled(p, k)'
  <2>1. Settled(p, k)
    BY <1>0, <1>1 DEF Attempt
  <2> QED
    BY <1>1, <2>1, AttemptConfig
<1>2. ASSUME NEW S, NEW lost, Cleaning(S, lost) PROVE Settled(p, k)'
  <2>1. Settled(p, k) /\ UNCHANGED <<config, owed, configUpdates>>
    BY <1>0, <1>2 DEF Cleaning
  <2>2. /\ detailsByPid'[p] = IF p \in Found(S) THEN nil ELSE detailsByPid[p]
        /\ UNCHANGED moved
    BY <1>2 DEF Cleaning, CleanInstrumentation, StopTrackInstrumentation
  <2>3. p \notin Found(S) => /\ instConfig'[p][k] = instConfig[p][k]
                             /\ <<p, k>> \in staleConfig => <<p, k>> \in staleConfig'
    BY <1>2 DEF Cleaning, CleanInstrumentation, CloseInstrumentations
  <2> QED
    BY <2>1, <2>2, <2>3 DEF Settled
<1>3. CASE HandleConfigUpdate
  <2>1. Settled(p, k)
    BY <1>0, <1>3 DEF HandleConfigUpdate
  <2> QED
    BY <1>3, <2>1, UpdateConfig
<1>4. CASE (\E q \in Pids : ShutdownClean(q)) \/ ShutdownDone
  BY <1>4 DEF ShutdownClean, ShutdownDone
<1>5. CASE Aside
  <2>1. Settled(p, k) /\ UNCHANGED <<detailsByPid, moved, instConfig, staleConfig>>
    BY <1>0, <1>5 DEF Aside, StopEventLoop, ShutdownTimeout
  <2>2. CASE UNCHANGED <<configUpdates, configVars>>
    BY <2>1, <2>2 DEF Settled
  <2>3. ASSUME NEW cg \in ConfigGroups, NEW c \in Configs \cup {nil}, ChangeConfig(cg, c)
        PROVE  Settled(p, k)'
    <3>1. /\ config' = [config EXCEPT ![cg] = c] /\ UNCHANGED configUpdates
          /\ owed' = IF c = nil THEN owed \ {cg} ELSE owed \cup {cg}
      BY <2>3 DEF ChangeConfig, OwedAfter
    <3>2. detailsByPid[p] # nil => detailsByPid[p].cg \in ConfigGroups
      BY DEF TypeOK, MapTypeOK, Details
    <3> QED
      BY <2>1, <3>1, <3>2 DEF Settled, TypeOK, ChannelTypeOK
  <2>4. ASSUME NEW cg \in ConfigGroups, SendConfigUpdate(cg) PROVE Settled(p, k)'
    <3> DEFINE u == [cg |-> cg, config |-> config[cg]]
    <3>1. u \in ConfigUpdate /\ u.cg = cg /\ u.config = config[cg]
      BY <2>4 DEF SendConfigUpdate, ConfigUpdate, TypeOK, ChannelTypeOK
    <3>2. /\ configUpdates' = Append(configUpdates, u) /\ owed' = owed \ {cg}
          /\ UNCHANGED config /\ configUpdates \in Seq(ConfigUpdate)
      BY <2>4 DEF SendConfigUpdate, TypeOK, ChannelTypeOK
    <3> HIDE DEF u
    <3>3. \A g : \/ Current(configUpdates, g, config[g]) => Current(configUpdates', g, config[g])
                 \/ g = cg
      BY <3>1, <3>2, AppendCurrent
    <3>4. Current(configUpdates', cg, config[cg])
      BY <3>1, <3>2, AppendCurrent
    <3> QED
      BY <2>1, <3>2, <3>3, <3>4 DEF Settled
  <2> QED
    BY <1>5, <2>2, <2>3, <2>4 DEF Aside
<1> QED
  BY <1>1, <1>2, <1>3, <1>4, <1>5, StepCases

\* A loaded instrumentation has the present configuration of its container, has
\* refused it, or is about to get it, short of pids that were tracked again in
\* another group: no order of changes, sends, loads and updates loses a
\* configuration.
THEOREM ConfigCorrect == Spec => []ConfigIsFreshOrPending
<1>1. Init => QueueInv /\ ConfigInv
  BY DEF Init, QueueInv, ConfigInv, Settled, Untracked, NoneFor
<1>2. TypeOK /\ IndexesAgree /\ QueueInv /\ ConfigInv /\ [Next]_vars => ConfigInv'
  BY NextConfig
<1>3. Spec => []IndexesAgree
  BY IndexesCorrect
<1> QED
  BY <1>1, <1>2, <1>3, TypeCorrect, NextQueue, ConfigSettled, PTL DEF Spec

=============================================================================
