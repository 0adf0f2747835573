---------------------------- MODULE SensorManager ----------------------------
(***************************************************************************)
(* platform-mc/sensor_manager.cpp: one polling timer and one polling       *)
(* coroutine per terminus.  The coroutine runs until it awaits a response; *)
(* `running' is the coroutine that has been resumed and not suspended yet, *)
(* so that no event is dispatched in the middle of a section.  The tables  *)
(* of the terminus manager, which the coroutine reads, are declared here.  *)
(***************************************************************************)
EXTENDS Naturals

CONSTANTS
  Tids,        \* terminus ids that can be assigned (neither 0 nor 255)
  Endpoints,   \* MCTP endpoints (an MctpInfo: EID and network)
  NumSensors,  \* numeric sensors of a terminus
  NONE

VARIABLES
  termini,             \* Manager::termini: absent, discovered or initialized
  mctpInfoTable,       \* with tidPool and transportLayerTable: the endpoint
                       \* a TID is mapped to
  mctpInfoAvailTable,  \* "yes", "no" or no entry
  running,             \* the coroutine being executed, NONE in the event loop
  sensorPollTimers,    \* no entry, a null pointer, a stopped or running timer
  roundRobinSensorItMap, \* next sensor to read, NONE without an entry
  availableState,      \* SensorManager::availableState
  pollTask,            \* doSensorPollingTask: where it is and what is left
  pollEvent,           \* Terminus::pollEvent: events wait to be fetched
  age                  \* sensors considered since each sensor was (history)

sensorVars == <<sensorPollTimers, roundRobinSensorItMap, availableState,
                pollTask, pollEvent, age>>

Sensors == 0..(NumSensors - 1)
NoPoll == [pc |-> "none", left |-> 0]

SensorInit ==
  /\ sensorPollTimers = [t \in Tids |-> "none"]
  /\ roundRobinSensorItMap = [t \in Tids |-> NONE]
  /\ availableState = [t \in Tids |-> "none"]
  /\ pollTask = [t \in Tids |-> NoPoll]
  /\ pollEvent = {}
  /\ age = [t \in Tids |-> [s \in Sensors |-> 0]]

\* sendRecvPldmMsg puts a request on the wire; otherwise it returns
\* PLDM_ERROR_NOT_READY without suspending its caller.
Sendable(t) == /\ mctpInfoTable[t] # NONE
               /\ mctpInfoAvailTable[mctpInfoTable[t]] = "yes"

-----------------------------------------------------------------------------
\* startPolling(t), for a terminus of the map
StartPolling(t) ==
  IF sensorPollTimers[t] # "none"
    THEN UNCHANGED sensorVars
    ELSE /\ roundRobinSensorItMap' = [roundRobinSensorItMap EXCEPT ![t] = 0]
         /\ availableState' = [availableState EXCEPT ![t] = "yes"]
         /\ sensorPollTimers' = [sensorPollTimers EXCEPT ![t] = "running"]
         /\ age' = [age EXCEPT ![t] = [s \in Sensors |-> 0]]
         /\ UNCHANGED <<pollTask, pollEvent>>

\* Mutant for NoStrandedPoll: the timer is only created, never restarted.
MutStartedTimer(t) ==
  [sensorPollTimers EXCEPT ![t] = IF @ = "none" THEN "null" ELSE @]

\* startSensorPollTimer(t): operator[] leaves a null timer where none was.
StartedTimer(t) ==
  [sensorPollTimers EXCEPT ![t] = CASE @ = "none" -> "null"
                                    [] @ = "stopped" -> "running"
                                    [] OTHER -> @]

\* Mutant for PolledOnlyWhileManaged: the coroutine is not asked to stop.
MutStopPolling(ts) ==
  LET Cleared(f, v) == [t \in Tids |-> IF t \in ts THEN v ELSE f[t]]
  IN  /\ sensorPollTimers' = Cleared(sensorPollTimers, "none")
      /\ roundRobinSensorItMap' = Cleared(roundRobinSensorItMap, NONE)
      /\ availableState' = Cleared(availableState, "none")
      /\ pollEvent' = pollEvent \ ts
      /\ UNCHANGED <<pollTask, age>>

\* stopPolling(t), for a timer that is no null pointer: its caller sees to the
\* other case, which ends the process.  request_stop cancels the coroutine before it returns.
StopPolling(ts) ==
  LET Cleared(f, v) == [t \in Tids |-> IF t \in ts THEN v ELSE f[t]]
  IN  /\ sensorPollTimers' = Cleared(sensorPollTimers, "none")
      /\ roundRobinSensorItMap' = Cleared(roundRobinSensorItMap, NONE)
      /\ availableState' = Cleared(availableState, "none")
      /\ pollTask' = Cleared(pollTask, NoPoll)
      /\ pollEvent' = pollEvent \ ts
      /\ UNCHANGED age

\* Manager::updateAvailableState: only for a terminus of the map
AvailableAfter(ts, v) ==
  [t \in Tids |-> IF t \in ts /\ termini[t] # "absent" THEN v
                                                      ELSE availableState[t]]

\* A request to endpoint e concluded; without an answer sendRecvPldmMsg has
\* mctpd recover the endpoint and takes it for unavailable until then.
AfterRequest(e, answered) ==
  IF answered
    THEN UNCHANGED <<mctpInfoAvailTable, availableState>>
    ELSE /\ mctpInfoAvailTable' = [mctpInfoAvailTable EXCEPT ![e] = "no"]
         /\ availableState' =
              AvailableAfter({t \in Tids : mctpInfoTable[t] = e}, "no")

-----------------------------------------------------------------------------
\* co_await stdexec::just_stopped(): the wrapper stops the timer.
Stopped(t) ==
  /\ sensorPollTimers' = [sensorPollTimers EXCEPT ![t] = "stopped"]
  /\ pollTask' = [pollTask EXCEPT ![t] = NoPoll]
  /\ running' = NONE

Goto(t, pc, left) == pollTask' = [pollTask EXCEPT ![t] = [pc |-> pc, left |-> left]]

\* The timer fires: doSensorPolling(t) while no poll of t is under way.
DoSensorPolling(t) ==
  /\ running = NONE /\ sensorPollTimers[t] = "running"
  /\ pollTask[t] = NoPoll
  /\ Goto(t, "start", 0)
  /\ running' = t
  /\ UNCHANGED <<termini, mctpInfoTable, mctpInfoAvailTable, sensorPollTimers,
                 roundRobinSensorItMap, availableState, pollEvent, age>>

\* The top of the do loop of doSensorPollingTask, to its first await
PollStart(t) ==
  /\ running = t /\ pollTask[t].pc = "start"
  /\ IF sensorPollTimers[t] \in {"none", "stopped"} \/ termini[t] = "absent"
       THEN /\ Goto(t, "none", 0) /\ running' = NONE
            /\ UNCHANGED <<sensorPollTimers, pollEvent>>
     ELSE IF availableState[t] # "yes"
       THEN Stopped(t) /\ UNCHANGED pollEvent
     ELSE IF t \in pollEvent /\ Sendable(t)
       THEN /\ Goto(t, "event", 0) /\ running' = NONE
            /\ UNCHANGED <<sensorPollTimers, pollEvent>>
       ELSE /\ pollEvent' = pollEvent \ {t}
            /\ Goto(t, "loop", NumSensors)
            /\ UNCHANGED <<sensorPollTimers, running>>
  /\ UNCHANGED <<termini, mctpInfoTable, mctpInfoAvailTable,
                 roundRobinSensorItMap, availableState, age>>

\* A request of pollForPlatformEventTask concludes: that task polls on,
\* unless the terminus became unavailable, or returns; slow: the polling
\* period is over.
EventConcludes(t, slow, answered) ==
  /\ running = NONE /\ pollTask[t].pc = "event"
  /\ AfterRequest(mctpInfoTable[t], answered)
  /\ \/ /\ availableState[t] # "yes"
        /\ Stopped(t) /\ UNCHANGED pollEvent
     \/ /\ pollEvent' = pollEvent \ {t} \* whatever arrived while it polled
        /\ IF slow THEN Goto(t, "start", 0) ELSE Goto(t, "loop", NumSensors)
        /\ running' = t
        /\ UNCHANGED sensorPollTimers
  /\ UNCHANGED <<termini, mctpInfoTable, roundRobinSensorItMap, age>>

\* Mutant for TypeOK: the iterator may point past the last sensor.
MutWrapsLate(t) == IF roundRobinSensorItMap[t] > NumSensors
                     THEN 0 ELSE roundRobinSensorItMap[t]

\* Mutant for SensorsTakeTurns: the last sensor is never reached.
MutWrapsEarly(t) == IF roundRobinSensorItMap[t] >= NumSensors - 1
                      THEN 0 ELSE roundRobinSensorItMap[t]

Wrapped(t) == IF roundRobinSensorItMap[t] >= NumSensors
                THEN 0 ELSE roundRobinSensorItMap[t]

\* sensorIt++ after sensor Wrapped(t) has been considered
NextSensor(t) ==
  /\ roundRobinSensorItMap' = [roundRobinSensorItMap EXCEPT ![t] = Wrapped(t) + 1]
  /\ age' = [age EXCEPT ![t] = [s \in Sensors |->
                 IF s = Wrapped(t) THEN 0 ELSE age[t][s] + 1]]

\* One turn of the while loop over the sensors, to getSensorReading's await
PollSensor(t, due) ==
  /\ running = t /\ pollTask[t].pc = "loop"
  /\ IF pollTask[t].left = 0 \/ roundRobinSensorItMap[t] = NONE
       THEN /\ Goto(t, "none", 0) /\ running' = NONE
            /\ UNCHANGED <<sensorPollTimers, roundRobinSensorItMap, age>>
     ELSE IF availableState[t] # "yes"
       THEN Stopped(t) /\ UNCHANGED <<roundRobinSensorItMap, age>>
     ELSE IF due /\ Sendable(t)
       THEN /\ Goto(t, "reading", pollTask[t].left) /\ running' = NONE
            /\ roundRobinSensorItMap' =
                 [roundRobinSensorItMap EXCEPT ![t] = Wrapped(t)]
            /\ UNCHANGED <<sensorPollTimers, age>>
       ELSE /\ Goto(t, "loop", pollTask[t].left - 1)
            /\ NextSensor(t)
            /\ UNCHANGED <<sensorPollTimers, running>>
  /\ UNCHANGED <<termini, mctpInfoTable, mctpInfoAvailTable, availableState,
                 pollEvent>>

\* The answer to GetSensorReading, or its failure
ReadingConcludes(t, slow, answered) ==
  /\ running = NONE /\ pollTask[t].pc = "reading"
  /\ AfterRequest(mctpInfoTable[t], answered)
  /\ IF sensorPollTimers[t] \in {"none", "stopped"}
       THEN /\ Goto(t, "none", 0)
            /\ UNCHANGED <<running, roundRobinSensorItMap, age>>
       ELSE /\ IF slow THEN Goto(t, "start", 0)
                       ELSE Goto(t, "loop", pollTask[t].left - 1)
            /\ NextSensor(t)
            /\ running' = t
  /\ UNCHANGED <<termini, mctpInfoTable, sensorPollTimers, pollEvent>>

SensorNext ==
  \E t \in Tids :
    \/ DoSensorPolling(t)
    \/ PollStart(t)
    \/ \E due \in BOOLEAN : PollSensor(t, due)
    \/ \E slow, answered \in BOOLEAN : \/ EventConcludes(t, slow, answered)
                                      \/ ReadingConcludes(t, slow, answered)
=============================================================================
