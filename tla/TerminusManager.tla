--------------------------- MODULE TerminusManager ---------------------------
(***************************************************************************)
(* The termini of pldmd: requester/mctp_endpoint_discovery.cpp turns D-Bus *)
(* signals of mctpd into added, removed and degraded endpoints,            *)
(* platform-mc/terminus_manager.cpp gives each endpoint a TID and makes a  *)
(* terminus of it, platform_manager.cpp initializes it and starts the      *)
(* sensor polling of SensorManager.                                        *)
(*                                                                         *)
(* Discovery is one coroutine over a queue of batches.  Between two awaits *)
(* it runs to completion; while it waits, every signal handler and polling *)
(* coroutine may run.                                                      *)
(***************************************************************************)
EXTENDS SensorManager, Sequences, FiniteSets

CONSTANTS
  DISCOVERY,    \* the discovery coroutine, as a value of `running'
  MaxTypeRequests, \* GetPLDMVersion and GetPLDMCommands of the PLDM types
  MaxSignals,   \* bound: D-Bus signals of mctpd in a run
  FirstBatch    \* endpoints mctpd knows when pldmd starts

Reserved == 255

VARIABLES
  published,           \* endpoints mctpd has on D-Bus
  signals,             \* signals sent and not handled yet
  numSignals,          \* signals sent so far (bound)
  existingMctpInfos,   \* MctpDiscovery::existingMctpInfos
  queuedMctpInfos,     \* TerminusManager::queuedMctpInfos
  task,                \* discoverMctpTerminusTask with the frames it called
  crashed              \* undefined behaviour was reached

discoveryVars == <<published, signals, numSignals, existingMctpInfos>>
tableVars == <<termini, mctpInfoTable, mctpInfoAvailTable>>
vars == <<tableVars, running, sensorVars, discoveryVars, queuedMctpInfos,
          task, crashed>>

\* pc "idle" when the task returned; "gotTid", "setTid", "types", "versions",
\* "fru", "pdr", "buffer", "receiver" name the response it waits for.
NoTask == [pc |-> "idle", i |-> 0, tid |-> 0, e |-> NONE, left |-> 0, failed |-> FALSE, todo |-> {}]

\* The loop of discoverMctpTerminusTask at the first endpoint of a batch
NewTask == [NoTask EXCEPT !.pc = "next", !.i = 1]

ASSUME TerminusManagerAssumption ==
  /\ IsFiniteSet(Tids) /\ Tids \subseteq 1..254
  /\ {NumSensors, MaxSignals, MaxTypeRequests} \subseteq Nat
  /\ FirstBatch \in Seq(Endpoints)
  /\ NONE # DISCOVERY /\ {NONE, DISCOVERY} \cap (Endpoints \cup Tids) = {}

Found(e) == {t \in Tids : termini[t] # "absent" /\ mctpInfoTable[t] = e}
ToTid(e) == {t \in Tids : mctpInfoTable[t] = e}
LowestTid(S) == CHOOSE t \in S : \A u \in S : t <= u

\* TerminusManager::mapTid: the TID the endpoint has, or else the first that is
\* free; NONE when there is none.
mapTid(e) ==
  LET free == {t \in Tids : mctpInfoTable[t] = NONE}
  IN  IF ToTid(e) # {} THEN LowestTid(ToTid(e))
      ELSE IF free # {} THEN LowestTid(free) ELSE NONE

\* A TID that another endpoint holds is not given away.
storeTerminusInfo(e, t) ==
  IF mctpInfoTable[t] = NONE THEN [mctpInfoTable EXCEPT ![t] = e] ELSE mctpInfoTable

unmapTids(S) == [t \in Tids |-> IF t \in S THEN NONE ELSE mctpInfoTable[t]]

Front == Head(queuedMctpInfos)
Idle == running = NONE /\ ~crashed

Init ==
  /\ termini = [t \in Tids |-> "absent"]
  /\ mctpInfoTable = [t \in Tids |-> NONE]
  /\ mctpInfoAvailTable = [e \in Endpoints |-> "none"]
  /\ SensorInit
  /\ published = {FirstBatch[k] : k \in DOMAIN FirstBatch}
  /\ signals = <<>> /\ numSignals = 0
  /\ existingMctpInfos = published
  /\ queuedMctpInfos = <<FirstBatch>>
  /\ task = NewTask
  /\ running = DISCOVERY
  /\ crashed = FALSE

-----------------------------------------------------------------------------
\* mctpd (external): it publishes or withdraws an endpoint, or changes its
\* Connectivity property.
Mctpd ==
  /\ Idle /\ numSignals < MaxSignals
  /\ numSignals' = numSignals + 1
  /\ \E e \in Endpoints :
       \/ /\ published' = published \cup {e}
          /\ e \notin published
          /\ signals' = Append(signals, [kind |-> "added", e |-> e])
       \/ /\ e \in published
          /\ published' = published \ {e}
          /\ signals' = Append(signals, [kind |-> "removed", e |-> e])
       \/ /\ e \in published
          /\ \E k \in {"available", "degraded"} :
               signals' = Append(signals, [kind |-> k, e |-> e])
          /\ UNCHANGED published
  /\ UNCHANGED <<tableVars, running, sensorVars, existingMctpInfos,
                 queuedMctpInfos, task, crashed>>

\* discoverMctpTerminus: a batch is queued, and the task started unless it
\* is still under way.
Discover(batch) ==
  /\ queuedMctpInfos' = Append(queuedMctpInfos, batch)
  /\ IF task.pc = "idle"
       THEN /\ task' = NewTask
            /\ running' = DISCOVERY
       ELSE UNCHANGED <<task, running>>
  /\ UNCHANGED <<tableVars, sensorVars>>

Handles(kind) == /\ Idle /\ signals # <<>> /\ Head(signals).kind = kind
                 /\ signals' = Tail(signals)
                 /\ UNCHANGED <<published, numSignals>>

\* The endpoint that the message names; the others do not speak PLDM.
getAddedMctpInfos == <<Head(signals).e>>

addToExistingMctpInfos(e) == existingMctpInfos' = existingMctpInfos \cup {e}

\* MctpDiscovery::discoverEndpoints
DiscoverEndpoints ==
  /\ Handles("added") /\ UNCHANGED crashed
  /\ addToExistingMctpInfos(Head(getAddedMctpInfos))
  /\ Discover(getAddedMctpInfos)

\* What can be read of D-Bus by now, whatever the signal that is handled was
\* about; an endpoint whose properties cannot be read is left out.
getMctpInfos == SUBSET published

\* The endpoints that left: removedInfos
removeFromExistingMctpInfos(current) ==
  existingMctpInfos' = existingMctpInfos \cap current

Gone(removed) == UNION {Found(e) : e \in removed}

\* The termini of the endpoints that left, with their polling, TIDs and
\* availability; what an endpoint without a terminus has of them stays.
removeMctpTerminus(removed) ==
  LET gone == Gone(removed)
  IN  /\ StopPolling(gone)
      /\ termini' = [t \in Tids |-> IF t \in gone THEN "absent" ELSE termini[t]]
      /\ mctpInfoTable' = unmapTids(gone)
      /\ mctpInfoAvailTable' = [e \in Endpoints |->
           IF \E t \in gone : mctpInfoTable[t] = e THEN "none"
                                                   ELSE mctpInfoAvailTable[e]]

\* MctpDiscovery::removeEndpoints
RemoveEndpoints(current) ==
  /\ Handles("removed")
  /\ \A t \in Gone(existingMctpInfos \ current) : sensorPollTimers[t] # "null"
  /\ removeFromExistingMctpInfos(current)
  /\ removeMctpTerminus(existingMctpInfos \ current)
  /\ UNCHANGED <<queuedMctpInfos, task, running, crashed>>

\* stopPolling calls stop() on the null pointer that startSensorPollTimer left
\* in sensorPollTimers: the process ends in the middle of the removal.
RemovalCrashes(current) ==
  /\ Handles("removed")
  /\ \E t \in Gone(existingMctpInfos \ current) : sensorPollTimers[t] = "null"
  /\ crashed' = TRUE
  /\ UNCHANGED <<tableVars, sensorVars, existingMctpInfos, queuedMctpInfos, task,
                 running>>

\* Manager::updateMctpEndpointAvailability
UpdateAvailability(e, v) ==
  /\ sensorPollTimers' = IF v = "yes" /\ ToTid(e) # {}
                           THEN StartedTimer(LowestTid(ToTid(e)))
                           ELSE sensorPollTimers
  /\ availableState' = AvailableAfter(ToTid(e), v)
  /\ mctpInfoAvailTable' = [mctpInfoAvailTable EXCEPT ![e] = v]
  /\ UNCHANGED <<termini, mctpInfoTable, roundRobinSensorItMap, pollTask,
                 pollEvent, age>>

\* MctpDiscovery::propertiesChangedCb
PropertiesChanged ==
  LET e == Head(signals).e IN
  \E kind \in {"available", "degraded"} :
    /\ Handles(kind) /\ UNCHANGED crashed
    /\ IF e \in existingMctpInfos
         THEN /\ UpdateAvailability(e, IF kind = "available" THEN "yes" ELSE "no")
              /\ UNCHANGED <<existingMctpInfos, queuedMctpInfos, task, running>>
         ELSE IF kind = "available"
         THEN addToExistingMctpInfos(e) /\ Discover(<<e>>)
         ELSE UNCHANGED <<existingMctpInfos, queuedMctpInfos, task, running,
                          tableVars, sensorVars>>

\* The endpoint of a Connectivity signal cannot be read (getService or its
\* properties fail): the signal is dropped.
SignalDropped ==
  /\ \E kind \in {"available", "degraded"} : Handles(kind)
  /\ UNCHANGED <<existingMctpInfos, queuedMctpInfos, task, running, tableVars,
                 sensorVars, crashed>>

\* A terminus announces an event: handlePldmMessagePollEvent
MessagePollEvent(t) ==
  /\ Idle /\ termini[t] # "absent"
  /\ pollEvent' = pollEvent \cup {t}
  /\ UNCHANGED <<tableVars, running, sensorPollTimers, roundRobinSensorItMap,
                 availableState, pollTask, age, discoveryVars, queuedMctpInfos,
                 task, crashed>>

-----------------------------------------------------------------------------
Step(pc) == task.pc = pc /\ ~crashed
Resumes(pc) == /\ Idle /\ Step(pc)
               /\ UNCHANGED <<discoveryVars, queuedMctpInfos>>
Runs(pc) == /\ running = DISCOVERY /\ Step(pc) /\ UNCHANGED discoveryVars

\* Mutant for TidsAccountedFor: a failed initialization keeps its TID.
MutInitFailed(t) ==
  /\ task' = [task EXCEPT !.pc = "next", !.i = @ + 1, !.failed = TRUE]
  /\ mctpInfoAvailTable' = [mctpInfoAvailTable EXCEPT ![Front[task.i]] = "none"]
  /\ running' = DISCOVERY
  /\ UNCHANGED <<termini, mctpInfoTable, sensorVars, crashed>>

\* initMctpTerminus(mctpInfo) failed: the endpoint's availability is
\* forgotten and the batch will be kept.
InitFailed(t) ==
  /\ task' = [task EXCEPT !.pc = "next", !.i = @ + 1, !.failed = TRUE]
  /\ mctpInfoAvailTable' = [mctpInfoAvailTable EXCEPT ![Front[task.i]] = "none"]
  /\ mctpInfoTable' = unmapTids({t})
  /\ running' = DISCOVERY
  /\ UNCHANGED <<termini, sensorVars, crashed>>

InitSucceeded ==
  /\ task' = [task EXCEPT !.pc = "next", !.i = @ + 1,
                          !.failed = @ \/ ToTid(Front[task.i]) = {}]
  /\ mctpInfoAvailTable' = IF ToTid(Front[task.i]) = {}
       THEN [mctpInfoAvailTable EXCEPT ![Front[task.i]] = "none"]
       ELSE mctpInfoAvailTable
  /\ running' = DISCOVERY
  /\ UNCHANGED <<termini, mctpInfoTable, sensorVars, crashed>>

WaitFor(pc, t) == /\ task' = [task EXCEPT !.pc = pc, !.tid = t]
                  /\ running' = NONE
                  /\ UNCHANGED <<sensorVars, crashed>>

\* The loop of discoverMctpTerminusTask over the front batch, up to the await
\* of getTidOverMctp; after the batch, initTerminus's snapshot of the TIDs.
NextEndpoint ==
  /\ Runs("next")
  /\ UNCHANGED <<queuedMctpInfos, termini, mctpInfoTable>>
  /\ IF task.i > Len(Front)
       THEN /\ task' = [task EXCEPT !.pc = "snapshot",
                          !.todo = {t \in Tids : termini[t] # "absent"}]
            /\ UNCHANGED <<mctpInfoAvailTable, running, sensorVars, crashed>>
     ELSE IF Found(Front[task.i]) # {}
       THEN InitSucceeded
       ELSE /\ mctpInfoAvailTable' =
                 [mctpInfoAvailTable EXCEPT ![Front[task.i]] = "yes"]
            /\ WaitFor("gotTid", 0)

\* getPLDMTypes goes through sendRecvPldmMsg, which may refuse at once.
AskTypes(t, table) ==
  IF mctpInfoAvailTable[table[t]] = "yes"
    THEN /\ mctpInfoTable' = table /\ WaitFor("types", t)
         /\ UNCHANGED <<termini, mctpInfoAvailTable>>
    ELSE /\ InitFailed(t)

\* What getTidOverMctp yields: the TID the device has, 0 if it has none or
\* answered an error code, NONE without a usable response
TidAnswers == Tids \cup {0, Reserved, NONE}

\* The response to GetTID, to the next await of initMctpTerminus
GotTid(tid) ==
  LET e == Front[task.i]
      mapped == mapTid(e)
  IN  /\ Resumes("gotTid")
      /\ IF tid \in {NONE, Reserved}
           THEN InitFailed(NONE)
         ELSE IF tid \in Tids /\ termini[tid] = "absent"
           THEN IF mctpInfoTable[tid] # NONE
                  THEN InitFailed(NONE)
                  ELSE AskTypes(tid, storeTerminusInfo(e, tid))
         ELSE IF tid \in Tids /\ mctpInfoTable[tid] = e
           THEN InitSucceeded
         ELSE IF mapped = NONE
           THEN InitFailed(NONE)
           ELSE /\ mctpInfoTable' = storeTerminusInfo(e, mapped)
                /\ WaitFor("setTid", mapped)
                /\ UNCHANGED <<termini, mctpInfoAvailTable>>

\* The response to SetTID
SetTidDone(ok) ==
  /\ Resumes("setTid")
  /\ IF ~ok THEN InitFailed(task.tid)
     ELSE IF termini[task.tid] # "absent" THEN InitSucceeded
     ELSE AskTypes(task.tid, mctpInfoTable)

\* The response to GetPLDMTypes: the terminus enters the map.
TypesDone(ok) ==
  /\ Resumes("types")
  /\ IF ~ok THEN InitFailed(task.tid)
     ELSE /\ termini' = [termini EXCEPT ![task.tid] = "discovered"]
          /\ \E n \in {0, MaxTypeRequests} :
               task' = [task EXCEPT !.pc = "commands", !.left = n]
          /\ running' = DISCOVERY
          /\ UNCHANGED <<mctpInfoTable, mctpInfoAvailTable, sensorVars, crashed>>

\* A response to GetPLDMVersion or GetPLDMCommands, whatever it is: the map
\* is indexed again and the pointer it holds dereferenced.
VersionsDone(answered) ==
  /\ Resumes("versions")
  /\ AfterRequest(Front[task.i], answered)
  /\ UNCHANGED <<termini, mctpInfoTable, sensorPollTimers,
                 roundRobinSensorItMap, pollTask, pollEvent, age>>
  /\ \/ /\ termini[task.tid] = "absent"
        /\ crashed' = TRUE /\ UNCHANGED <<task, running>>
     \/ /\ termini[task.tid] # "absent"
        /\ task' = [task EXCEPT !.pc = "commands", !.left = @ - 1]
        /\ running' = DISCOVERY
        /\ UNCHANGED crashed

\* The loop over the PLDM types: one more request, which may be refused at
\* once, or setSupportedCommands
NextType ==
  /\ Runs("commands") /\ UNCHANGED queuedMctpInfos
  /\ IF task.left = 0
       THEN InitSucceeded
     ELSE IF Sendable(task.tid)
       THEN WaitFor("versions", task.tid) /\ UNCHANGED tableVars
       ELSE /\ task' = [task EXCEPT !.left = @ - 1]
            /\ UNCHANGED <<running, tableVars, sensorVars, crashed>>

-----------------------------------------------------------------------------
\* Mutant for NothingForgotten: a batch is popped whatever became of it.
MutKept == FALSE

\* The batch stays in the queue, and the coroutine returns PLDM_ERROR.
Kept == task.failed

\* Mutant for DiscoveryConcludes: a batch that failed is tried again at once.
MutAfterFailure == NewTask

AfterFailure == NoTask

\* PlatformManager::initTerminus: the next terminus of the snapshot that is
\* still there and not initialized, or the end of discoverMctpTerminusTask.
NextTerminus ==
  LET todo == {t \in task.todo : termini[t] = "discovered"}
      queue == IF Kept THEN queuedMctpInfos ELSE Tail(queuedMctpInfos)
      then == IF Kept THEN AfterFailure
              ELSE IF queue = <<>> THEN NoTask
              ELSE NewTask
  IN  /\ Runs("snapshot") /\ UNCHANGED <<tableVars, sensorVars, crashed>>
      /\ IF todo # {}
           THEN /\ task' = [task EXCEPT !.pc = "request", !.todo = todo,
                                        !.tid = LowestTid(todo), !.i = 1]
                /\ UNCHANGED <<queuedMctpInfos, running>>
           ELSE /\ queuedMctpInfos' = queue /\ task' = then
                /\ running' = IF then.pc = "idle" THEN NONE ELSE DISCOVERY

\* What initTerminus asks a terminus for: its FRU records, its PDRs, its
\* event buffer size, and to send its events here.
InitSteps == <<"fru", "pdr", "buffer", "receiver">>

\* The next request of initTerminus: not supported, refused at once, or sent
InitRequest ==
  /\ Runs("request") /\ UNCHANGED <<queuedMctpInfos, tableVars>>
  /\ IF task.i > Len(InitSteps)
       THEN /\ task' = [task EXCEPT !.pc = "initialized"]
            /\ UNCHANGED <<running, sensorVars, crashed>>
       ELSE \/ /\ Sendable(task.tid)
               /\ task' = [task EXCEPT !.pc = InitSteps[task.i],
                                       !.e = mctpInfoTable[task.tid]]
               /\ running' = NONE
               /\ UNCHANGED <<sensorVars, crashed>>
            \/ /\ task' = IF InitSteps[task.i] = "pdr" /\ ~Sendable(task.tid)
                            THEN [task EXCEPT !.pc = "snapshot",
                                              !.todo = @ \ {task.tid}]
                            ELSE [task EXCEPT !.i = @ + 1]
               /\ UNCHANGED <<running, sensorVars, crashed>>

\* A response: the terminus may have been removed meanwhile; without its PDRs
\* it is left uninitialized.
InitResponse(ok, answered) ==
  /\ ok => answered
  /\ \E k \in DOMAIN InitSteps : Resumes(InitSteps[k])
  /\ AfterRequest(task.e, answered)
  /\ task' = IF termini[task.tid] = "absent" \/ (task.pc = "pdr" /\ ~ok)
               THEN [task EXCEPT !.pc = "snapshot", !.e = NONE, !.todo = @ \ {task.tid}]
               ELSE [task EXCEPT !.pc = "request", !.i = @ + 1, !.e = NONE]
  /\ running' = DISCOVERY
  /\ UNCHANGED <<termini, mctpInfoTable, sensorPollTimers,
                 roundRobinSensorItMap, pollTask, pollEvent, age, crashed>>

Initialized ==
  /\ Runs("initialized")
  /\ termini' = [termini EXCEPT ![task.tid] = "initialized"]
  /\ StartPolling(task.tid)
  /\ task' = [task EXCEPT !.pc = "snapshot", !.todo = @ \ {task.tid}]
  /\ UNCHANGED <<mctpInfoTable, mctpInfoAvailTable, running, queuedMctpInfos,
                 crashed>>

DiscoveryNext ==
  \/ NextEndpoint \/ NextType
  \/ \E tid \in TidAnswers : GotTid(tid)
  \/ \E ok \in BOOLEAN : SetTidDone(ok) \/ TypesDone(ok) \/ VersionsDone(ok)
  \/ \E ok, answered \in BOOLEAN : InitResponse(ok, answered)
  \/ NextTerminus \/ InitRequest \/ Initialized

SensorStep == /\ ~crashed /\ SensorNext
              /\ UNCHANGED <<discoveryVars, queuedMctpInfos, task, crashed>>

SignalNext ==
  \/ DiscoverEndpoints \/ PropertiesChanged \/ SignalDropped
  \/ \E current \in getMctpInfos : RemoveEndpoints(current) \/ RemovalCrashes(current)

Next == \/ Mctpd
        \/ SignalNext
        \/ \E t \in Tids : MessagePollEvent(t)
        \/ DiscoveryNext
        \/ SensorStep

\* The event loop handles the signals it is sent, a resumed coroutine runs
\* on, and every request concludes: the Requester calls its handler.  The
\* strong fairness says that the loop gets to the response discovery waits
\* for although polling coroutines keep running in between.
Spec == /\ Init /\ [][Next]_vars
        /\ SF_vars(DiscoveryNext) /\ WF_vars(SensorStep) /\ WF_vars(SignalNext)
-----------------------------------------------------------------------------
(* Properties *)

\* Every piece of state keeps to the values the code gives it.
TypeOK ==
  /\ termini \in [Tids -> {"absent", "discovered", "initialized"}]
  /\ mctpInfoTable \in [Tids -> Endpoints \cup {NONE}]
  /\ mctpInfoAvailTable \in [Endpoints -> {"none", "yes", "no"}]
  /\ running \in Tids \cup {NONE, DISCOVERY}
  /\ sensorPollTimers \in [Tids -> {"none", "null", "stopped", "running"}]
  /\ roundRobinSensorItMap \in [Tids -> 0..NumSensors \cup {NONE}]
  /\ availableState \in [Tids -> {"none", "yes", "no"}]
  /\ pollTask \in [Tids -> [pc : {"none", "start", "event", "loop", "reading"},
                            left : 0..NumSensors]]
  /\ pollEvent \subseteq Tids /\ age \in [Tids -> [Sensors -> Nat]]
  /\ existingMctpInfos \subseteq Endpoints /\ published \subseteq Endpoints
  /\ crashed \in BOOLEAN

\* Between two batches, endpoints and TIDs are one to one and the termini are
\* exactly the mapped TIDs: no TID leaks when an endpoint fails or goes away
\* at any await of initMctpTerminus (storeTerminusInfo, mapTid, unmapTid).
TidsAccountedFor ==
  /\ \A e \in Endpoints : Cardinality(ToTid(e)) <= 1
  /\ task.pc \in {"idle", "snapshot"} =>
       \A t \in Tids : (termini[t] # "absent") <=> (mctpInfoTable[t] # NONE)

\* An endpoint MctpDiscovery knows has a terminus or is still in a batch of
\* the queue: no failed initialization, and no removal racing with one,
\* makes discoverMctpTerminusTask drop it.
NothingForgotten ==
  \A e \in existingMctpInfos :
    \/ Found(e) # {} \/ crashed
    \/ \E k \in DOMAIN queuedMctpInfos :
         \E j \in DOMAIN queuedMctpInfos[k] : queuedMctpInfos[k][j] = e

\* A timer that can fire and a polling coroutine belong to a terminus of the
\* map: the references doSensorPollingTask holds across its awaits stay valid
\* because a removal that gets past stopPolling has cancelled it.  A removal
\* of a terminus whose timer is a null pointer ends the process instead
\* (RemovalCrashes; TimerMeansRoundRobin is where that pointer comes from).
PolledOnlyWhileManaged ==
  \A t \in Tids : sensorPollTimers[t] \in {"stopped", "running"} \/ pollTask[t] # NoPoll
                   => termini[t] # "absent"

\* A poll that stopped because its terminus was unavailable is started again
\* once it is available: no stopped timer under an available state, however
\* updateMctpEndpointAvailability, startPolling and the coroutine interleave.
NoStrandedPoll ==
  \A t \in Tids : sensorPollTimers[t] = "stopped" => availableState[t] # "yes"

\* Between two turns of a sensor every other sensor has had at most one,
\* although the coroutine is stopped and restarted at any sensor
\* (roundRobinSensorItMap outlives doSensorPollingTask).
SensorsTakeTurns ==
  \A t \in Tids, s \in Sensors : age[t][s] < NumSensors

\* Discovery never hangs: the coroutine ends its work on the queue.  (A batch
\* that failed stays queued until the next signal starts the coroutine.)
DiscoveryConcludes == task.pc # "idle" ~> task.pc = "idle" \/ crashed

\* sensor_manager.cpp:37 "tid already initializes roundRobinSensors list":
\* what startPolling concludes from an entry of sensorPollTimers.
TimerMeansRoundRobin ==
  \A t \in Tids : sensorPollTimers[t] # "none" => roundRobinSensorItMap[t] # NONE

\* platform_manager.cpp:21-24: the termini map "can be modified (entries
\* erased) by removeMctpTerminus() while this coroutine is suspended at a
\* co_await point": nothing may be used that such a removal erased.
RemovalIsSurvived == ~crashed
=============================================================================
