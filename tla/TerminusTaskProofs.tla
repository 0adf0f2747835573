------------------------- MODULE TerminusTaskProofs -------------------------
(***************************************************************************)
(* The coroutines of the terminus tables, for any endpoints, TIDs and      *)
(* number of sensors.  Polling (SensorManager): every sensor gets its      *)
(* turn, and the state of manager, coroutines and tables keeps its types.  *)
(* Discovery (discoverMctpTerminusTask): an endpoint that MctpDiscovery    *)
(* knows has a terminus or is in the queue.                                *)
(***************************************************************************)
EXTENDS TerminusManagerProofs

Timers == {"none", "null", "stopped", "running"}
Polls == [pc : {"none", "start", "event", "loop", "reading"}, left : 0..NumSensors]

\* How many sensors were considered since sensor s, at most, when the iterator is at n:
\* the distance from s to n around the list of sensors.
Distance(n, s) == IF s < n THEN n - s - 1 ELSE NumSensors + n - s - 1

\* Of one terminus: its timer, round-robin iterator, coroutine and sensors
Turn(timer, it, poll, turns) ==
  /\ timer \in Timers
  /\ it \in 0..NumSensors \cup {NONE}
  /\ poll \in Polls
  /\ turns \in [Sensors -> Nat]
  /\ poll.pc # "none" => timer = "running"
  /\ poll.pc = "reading" => poll.left > 0
  /\ timer \in {"stopped", "running"} =>
       it \in 0..NumSensors /\ \A s \in Sensors : turns[s] <= Distance(it, s)
  /\ \A s \in Sensors : turns[s] < NumSensors

TurnOf(t) == Turn(sensorPollTimers[t], roundRobinSensorItMap[t], pollTask[t], age[t])

PerTid(f) == f = [t \in Tids |-> f[t]]

TurnInv ==
  /\ PerTid(sensorPollTimers) /\ PerTid(roundRobinSensorItMap)
  /\ PerTid(pollTask) /\ PerTid(age)
  /\ \A t \in Tids : TurnOf(t)

LEMMA SensorCount == NumSensors \in Nat
  BY TerminusManagerAssumption

LEMMA NoPollIn == NoPoll \in Polls /\ NoPoll.pc = "none"
  BY SensorCount DEF NoPoll, Polls

\* The sensor under the iterator has its turn and all others come closer to theirs.
LEMMA NextTurn ==
  ASSUME NEW it \in 0..NumSensors, NEW turns \in [Sensors -> Nat], NumSensors > 0,
         \A s \in Sensors : turns[s] <= Distance(it, s),
         NEW w, w = (IF it >= NumSensors THEN 0 ELSE it),
         NEW next, next = [s \in Sensors |-> IF s = w THEN 0 ELSE turns[s] + 1]
  PROVE  /\ w \in 0..NumSensors - 1 /\ w + 1 \in 0..NumSensors
         /\ next \in [Sensors -> Nat]
         /\ \A s \in Sensors : next[s] <= Distance(w + 1, s) /\ next[s] < NumSensors
         /\ \A s \in Sensors : turns[s] <= Distance(w, s)
<1>1. NumSensors \in Nat /\ w \in 0..NumSensors - 1
  BY SensorCount
<1>2. ASSUME NEW s \in Sensors
      PROVE  turns[s] <= Distance(w, s)
  BY <1>1, <1>2 DEF Distance, Sensors
<1>3. ASSUME NEW s \in Sensors
      PROVE  next[s] <= Distance(w + 1, s) /\ next[s] < NumSensors
  <2>1. s \in 0..NumSensors - 1 /\ turns[s] \in Nat
    BY DEF Sensors
  <2>2. turns[s] <= Distance(w, s)
    BY <1>2
  <2>3. next[s] = IF s = w THEN 0 ELSE turns[s] + 1
    OBVIOUS
  <2> QED
    BY <1>1, <2>1, <2>2, <2>3 DEF Distance
<1>4. next \in [Sensors -> Nat]
  OBVIOUS
<1> QED
  BY <1>1, <1>2, <1>3, <1>4

\* A step that concerns one terminus
LEMMA OneTurns ==
  ASSUME TurnInv, NEW t \in Tids, NEW timer, NEW it, NEW poll, NEW turns,
         Turn(timer, it, poll, turns),
         sensorPollTimers' = [sensorPollTimers EXCEPT ![t] = timer],
         roundRobinSensorItMap' = [roundRobinSensorItMap EXCEPT ![t] = it],
         pollTask' = [pollTask EXCEPT ![t] = poll],
         age' = [age EXCEPT ![t] = turns]
  PROVE  TurnInv'
<1>1. PerTid(sensorPollTimers)' /\ PerTid(roundRobinSensorItMap)'
      /\ PerTid(pollTask)' /\ PerTid(age)'
  BY DEF TurnInv, PerTid
<1>2. ASSUME NEW u \in Tids
      PROVE  TurnOf(u)'
  <2>1. CASE u = t
    <3>1. /\ sensorPollTimers'[u] = timer /\ roundRobinSensorItMap'[u] = it
          /\ pollTask'[u] = poll /\ age'[u] = turns
      BY <2>1 DEF TurnInv, PerTid
    <3> QED
      BY <3>1 DEF TurnOf
  <2>2. CASE u # t
    <3>1. /\ sensorPollTimers'[u] = sensorPollTimers[u]
          /\ roundRobinSensorItMap'[u] = roundRobinSensorItMap[u]
          /\ pollTask'[u] = pollTask[u] /\ age'[u] = age[u]
      BY <2>2 DEF TurnInv, PerTid
    <3> QED
      BY <3>1 DEF TurnOf, TurnInv
  <2> QED
    BY <2>1, <2>2
<1> QED
  BY <1>1, <1>2 DEF TurnInv

\* What a step does not change
LEMMA Same ==
  ASSUME TurnInv, NEW t \in Tids
  PROVE  /\ sensorPollTimers = [sensorPollTimers EXCEPT ![t] = sensorPollTimers[t]]
         /\ roundRobinSensorItMap =
              [roundRobinSensorItMap EXCEPT ![t] = roundRobinSensorItMap[t]]
         /\ pollTask = [pollTask EXCEPT ![t] = pollTask[t]]
         /\ age = [age EXCEPT ![t] = age[t]]
  BY DEF TurnInv, PerTid

\* A polling coroutine of t goes to pc or returns; the sensors' turns stay.
LEMMA PollMoves ==
  ASSUME TurnInv, NEW t \in Tids, NEW poll \in Polls,
         pollTask' = [pollTask EXCEPT ![t] = poll],
         UNCHANGED <<roundRobinSensorItMap, age>>,
         \/ /\ UNCHANGED sensorPollTimers
            /\ poll.pc # "none" => sensorPollTimers[t] = "running"
            /\ poll.pc = "reading" => poll.left > 0
         \/ /\ sensorPollTimers' = [sensorPollTimers EXCEPT ![t] = "stopped"]
            /\ poll.pc = "none" /\ sensorPollTimers[t] = "running"
  PROVE  TurnInv'
<1> DEFINE timer == sensorPollTimers'[t]
<1>1. sensorPollTimers' = [sensorPollTimers EXCEPT ![t] = timer]
  BY Same DEF TurnInv, PerTid
<1>2. Turn(sensorPollTimers[t], roundRobinSensorItMap[t], pollTask[t], age[t])
  BY DEF TurnInv, TurnOf
<1>3. \/ timer = sensorPollTimers[t] /\ (poll.pc # "none" => timer = "running")
                                     /\ (poll.pc = "reading" => poll.left > 0)
      \/ timer = "stopped" /\ poll.pc = "none" /\ sensorPollTimers[t] = "running"
  BY DEF TurnInv, PerTid
<1> HIDE DEF timer
<1>4. Turn(timer, roundRobinSensorItMap[t], poll, age[t])
  BY <1>2, <1>3 DEF Turn, Timers
<1>5. /\ roundRobinSensorItMap' = [roundRobinSensorItMap EXCEPT ![t] = roundRobinSensorItMap[t]]
      /\ age' = [age EXCEPT ![t] = age[t]]
  BY Same
<1> QED
  BY <1>1, <1>4, <1>5, OneTurns

\* A sensor has its turn.
LEMMA TurnTaken ==
  ASSUME TurnInv, NEW t \in Tids, NEW poll \in Polls, NextSensor(t),
         pollTask[t].pc \in {"loop", "reading"}, NumSensors > 0,
         pollTask' = [pollTask EXCEPT ![t] = poll], poll.pc # "reading",
         UNCHANGED sensorPollTimers
  PROVE  TurnInv'
<1> DEFINE w == Wrapped(t)
           next == [s \in Sensors |-> IF s = w THEN 0 ELSE age[t][s] + 1]
<1>1. Turn(sensorPollTimers[t], roundRobinSensorItMap[t], pollTask[t], age[t])
  BY DEF TurnInv, TurnOf
<1>2. /\ sensorPollTimers[t] = "running" /\ roundRobinSensorItMap[t] \in 0..NumSensors
      /\ age[t] \in [Sensors -> Nat]
      /\ \A s \in Sensors : age[t][s] <= Distance(roundRobinSensorItMap[t], s)
  BY <1>1 DEF Turn
<1>3. roundRobinSensorItMap' = [roundRobinSensorItMap EXCEPT ![t] = w + 1]
      /\ age' = [age EXCEPT ![t] = next]
  BY DEF NextSensor
<1>4. w = IF roundRobinSensorItMap[t] >= NumSensors THEN 0 ELSE roundRobinSensorItMap[t]
  BY DEF Wrapped
<1> HIDE DEF w
<1>5. next = [s \in Sensors |-> IF s = w THEN 0 ELSE age[t][s] + 1]
  OBVIOUS
<1> HIDE DEF next
<1>6. /\ w + 1 \in 0..NumSensors /\ next \in [Sensors -> Nat]
      /\ \A s \in Sensors : next[s] <= Distance(w + 1, s) /\ next[s] < NumSensors
  BY <1>2, <1>4, <1>5, NextTurn
<1>7. Turn("running", w + 1, poll, next)
  BY <1>6 DEF Turn, Timers
<1> QED
  BY <1>2, <1>3, <1>7, Same, OneTurns

LEMMA SensorStepTurn == TurnInv /\ SensorNext => TurnInv'
<1> SUFFICES ASSUME TurnInv, SensorNext
             PROVE  TurnInv'
  OBVIOUS
<1>0. ASSUME NEW t \in Tids
      PROVE  /\ pollTask[t] \in Polls
             /\ pollTask[t].pc # "none" => sensorPollTimers[t] = "running"
             /\ pollTask[t].pc = "reading" => pollTask[t].left > 0
             /\ pollTask[t].left \in 0..NumSensors
  <2>1. Turn(sensorPollTimers[t], roundRobinSensorItMap[t], pollTask[t], age[t])
    BY DEF TurnInv, TurnOf
  <2> QED
    BY <2>1 DEF Turn, Polls
<1>1. ASSUME NEW pc \in {"none", "start", "event", "loop", "reading"}, NEW n \in 0..NumSensors
      PROVE  /\ [pc |-> pc, left |-> n] \in Polls
             /\ [pc |-> pc, left |-> n].pc = pc /\ [pc |-> pc, left |-> n].left = n
  BY DEF Polls
<1>2. 0 \in 0..NumSensors /\ NumSensors \in 0..NumSensors
  BY SensorCount
\* Goto where nothing else changes, and the end of a poll
<1>3. ASSUME NEW t \in Tids, NEW pc \in {"none", "start", "event", "loop"},
             NEW n \in 0..NumSensors, Goto(t, pc, n), sensorPollTimers[t] = "running",
             UNCHANGED <<sensorPollTimers, roundRobinSensorItMap, age>>
      PROVE  TurnInv'
  <2> DEFINE poll == [pc |-> pc, left |-> n]
  <2>1. poll \in Polls /\ poll.pc = pc /\ pollTask' = [pollTask EXCEPT ![t] = poll]
    BY <1>1, <1>3 DEF Goto
  <2> HIDE DEF poll
  <2> QED
    BY <1>3, <2>1, PollMoves
<1>4. ASSUME NEW t \in Tids, Stopped(t), sensorPollTimers[t] = "running",
             UNCHANGED <<roundRobinSensorItMap, age>>
      PROVE  TurnInv'
  BY <1>4, NoPollIn, PollMoves DEF Stopped
<1>5. ASSUME NEW t \in Tids, DoSensorPolling(t)
      PROVE  TurnInv'
  BY <1>2, <1>3, <1>5 DEF DoSensorPolling
<1>6. ASSUME NEW t \in Tids, PollStart(t)
      PROVE  TurnInv'
  <2>1. /\ sensorPollTimers[t] = "running"
        /\ UNCHANGED <<roundRobinSensorItMap, age>>
    BY <1>0, <1>6 DEF PollStart
  <2>2. \/ Stopped(t)
        \/ /\ Goto(t, "none", 0) \/ Goto(t, "event", 0) \/ Goto(t, "loop", NumSensors)
           /\ UNCHANGED sensorPollTimers
    BY <1>6, Zenon DEF PollStart
  <2> QED
    BY <1>2, <1>3, <1>4, <2>1, <2>2
<1>7. ASSUME NEW t \in Tids, NEW slow, NEW answered, EventConcludes(t, slow, answered)
      PROVE  TurnInv'
  <2>1. /\ sensorPollTimers[t] = "running"
        /\ UNCHANGED <<roundRobinSensorItMap, age>>
    BY <1>0, <1>7 DEF EventConcludes
  <2>2. \/ Stopped(t)
        \/ /\ Goto(t, "start", 0) \/ Goto(t, "loop", NumSensors)
           /\ UNCHANGED sensorPollTimers
    BY <1>7, Zenon DEF EventConcludes
  <2> QED
    BY <1>2, <1>3, <1>4, <2>1, <2>2
<1>8. ASSUME NEW t \in Tids, NEW due, PollSensor(t, due)
      PROVE  TurnInv'
  <2>1. sensorPollTimers[t] = "running" /\ pollTask[t].pc = "loop"
    BY <1>0, <1>8 DEF PollSensor
  <2>2. CASE Goto(t, "none", 0) /\ UNCHANGED <<sensorPollTimers, roundRobinSensorItMap, age>>
    BY <1>2, <1>3, <2>1, <2>2
  <2>3. CASE Stopped(t) /\ UNCHANGED <<roundRobinSensorItMap, age>>
    BY <1>4, <2>1, <2>3
  <2>4. CASE /\ pollTask[t].left # 0
             /\ Goto(t, "reading", pollTask[t].left)
             /\ roundRobinSensorItMap' = [roundRobinSensorItMap EXCEPT ![t] = Wrapped(t)]
             /\ UNCHANGED <<sensorPollTimers, age>>
    <3> DEFINE poll == [pc |-> "reading", left |-> pollTask[t].left]
               w == Wrapped(t)
    <3>1. /\ poll \in Polls /\ poll.pc = "reading" /\ poll.left > 0 /\ NumSensors > 0
          /\ pollTask' = [pollTask EXCEPT ![t] = poll]
      BY <1>0, <1>1, <2>4, SensorCount DEF Goto
    <3>2. Turn(sensorPollTimers[t], roundRobinSensorItMap[t], pollTask[t], age[t])
      BY DEF TurnInv, TurnOf
    <3>3. w = IF roundRobinSensorItMap[t] >= NumSensors THEN 0 ELSE roundRobinSensorItMap[t]
      BY DEF Wrapped
    <3>4. roundRobinSensorItMap' = [roundRobinSensorItMap EXCEPT ![t] = w]
      BY <2>4
    <3> HIDE DEF poll, w
    <3>5. /\ w \in 0..NumSensors
          /\ \A s \in Sensors : age[t][s] <= Distance(w, s)
      <4>1. /\ roundRobinSensorItMap[t] \in 0..NumSensors
            /\ age[t] \in [Sensors -> Nat]
            /\ \A s \in Sensors : age[t][s] <= Distance(roundRobinSensorItMap[t], s)
        BY <2>1, <3>2 DEF Turn
      <4>2. \A s \in Sensors : age[t][s] <= Distance(w, s)
        BY <3>1, <3>3, <4>1, NextTurn
      <4>3. w \in 0..NumSensors
        BY <3>3, <4>1, SensorCount
      <4> QED
        BY <4>2, <4>3
    <3>6. Turn("running", w, poll, age[t])
      BY <2>1, <3>1, <3>2, <3>5 DEF Turn
    <3>7. /\ sensorPollTimers' = [sensorPollTimers EXCEPT ![t] = "running"]
          /\ age' = [age EXCEPT ![t] = age[t]]
      BY <2>1, <2>4, Same
    <3> QED
      BY <3>1, <3>4, <3>6, <3>7, OneTurns
  <2>5. CASE /\ pollTask[t].left # 0
             /\ Goto(t, "loop", pollTask[t].left - 1) /\ NextSensor(t)
             /\ UNCHANGED sensorPollTimers
    <3> DEFINE poll == [pc |-> "loop", left |-> pollTask[t].left - 1]
    <3>1. pollTask[t].left - 1 \in 0..NumSensors /\ NumSensors > 0
      BY <1>0, <2>5, SensorCount
    <3>2. poll \in Polls /\ poll.pc = "loop" /\ pollTask' = [pollTask EXCEPT ![t] = poll]
      BY <1>1, <2>5, <3>1 DEF Goto
    <3> HIDE DEF poll
    <3> QED
      BY <2>1, <2>5, <3>1, <3>2, TurnTaken
  <2> QED
    BY <1>8, <2>2, <2>3, <2>4, <2>5, Zenon DEF PollSensor
<1>9. ASSUME NEW t \in Tids, NEW slow, NEW answered, ReadingConcludes(t, slow, answered)
      PROVE  TurnInv'
  <2>1. /\ pollTask[t].pc = "reading" /\ sensorPollTimers[t] = "running"
        /\ pollTask[t].left > 0 /\ pollTask[t].left \in 0..NumSensors
        /\ UNCHANGED sensorPollTimers
    BY <1>0, <1>9 DEF ReadingConcludes
  <2>2. /\ NextSensor(t)
        /\ Goto(t, "start", 0) \/ Goto(t, "loop", pollTask[t].left - 1)
    BY <1>9, <2>1, Zenon DEF ReadingConcludes
  <2>3. NumSensors > 0 /\ pollTask[t].left - 1 \in 0..NumSensors
    BY <2>1, SensorCount
  <2>4. \E poll \in Polls : poll.pc # "reading" /\ pollTask' = [pollTask EXCEPT ![t] = poll]
    <3>1. CASE Goto(t, "start", 0)
      BY <1>1, <1>2, <3>1 DEF Goto
    <3>2. CASE Goto(t, "loop", pollTask[t].left - 1)
      BY <1>1, <2>3, <3>2 DEF Goto
    <3> QED
      BY <2>2, <3>1, <3>2
  <2> QED
    BY <2>1, <2>2, <2>3, <2>4, TurnTaken
<1> QED
  BY <1>5, <1>6, <1>7, <1>8, <1>9, Zenon DEF SensorNext

LEMMA InitTurn == Init => TurnInv
<1> SUFFICES ASSUME Init
             PROVE  TurnInv
  OBVIOUS
<1>1. ASSUME NEW t \in Tids
      PROVE  TurnOf(t)
  <2>1. /\ sensorPollTimers[t] = "none" /\ roundRobinSensorItMap[t] = NONE
        /\ pollTask[t] = NoPoll /\ age[t] = [s \in Sensors |-> 0]
    BY DEF Init, SensorInit
  <2>2. [s \in Sensors |-> 0] \in [Sensors -> Nat]
    OBVIOUS
  <2>3. \A s \in Sensors : 0 < NumSensors
    BY SensorCount DEF Sensors
  <2> QED
    BY <2>1, <2>2, <2>3, NoPollIn DEF TurnOf, Turn, Timers
<1>2. /\ PerTid(sensorPollTimers) /\ PerTid(roundRobinSensorItMap)
      /\ PerTid(pollTask) /\ PerTid(age)
  BY DEF Init, SensorInit, PerTid
<1> QED
  BY <1>1, <1>2 DEF TurnInv

LEMMA NextTurnInv == TaskInv /\ TableInv /\ TurnInv /\ [Next]_vars => TurnInv'
<1> SUFFICES ASSUME TaskInv, TableInv, TurnInv, [Next]_vars
             PROVE  TurnInv'
  OBVIOUS
<1> USE DEF discoveryVars, tableVars, sensorVars
<1>1. CASE UNCHANGED <<sensorPollTimers, roundRobinSensorItMap, pollTask, age>>
  BY <1>1 DEF TurnInv, TurnOf, PerTid
<1>2. CASE SensorStep
  BY <1>2, SensorStepTurn DEF SensorStep
<1>3. ASSUME NEW t \in Tids
      PROVE  Turn(sensorPollTimers[t], roundRobinSensorItMap[t], pollTask[t], age[t])
  BY DEF TurnInv, TurnOf
\* A terminus is removed with its polling.
<1>4. CASE \E current : RemoveEndpoints(current)
  <2>0. PICK current : RemoveEndpoints(current)
    BY <1>4
  <2> DEFINE gone == UNION {Found(e) : e \in existingMctpInfos \ current}
  <2>1. StopPolling(gone)
    BY <2>0 DEF RemoveEndpoints, removeMctpTerminus, Gone
  <2>2. /\ sensorPollTimers' = [t \in Tids |-> IF t \in gone THEN "none"
                                               ELSE sensorPollTimers[t]]
        /\ roundRobinSensorItMap' = [t \in Tids |-> IF t \in gone THEN NONE
                                                    ELSE roundRobinSensorItMap[t]]
        /\ pollTask' = [t \in Tids |-> IF t \in gone THEN NoPoll ELSE pollTask[t]]
        /\ UNCHANGED age
    BY <2>1 DEF StopPolling
  <2> HIDE DEF gone
  <2>3. ASSUME NEW t \in Tids
        PROVE  TurnOf(t)'
    <3>1. CASE t \in gone
      <4>1. /\ sensorPollTimers'[t] = "none" /\ roundRobinSensorItMap'[t] = NONE
            /\ pollTask'[t] = NoPoll /\ age'[t] = age[t]
        BY <2>2, <3>1
      <4> QED
        BY <1>3, <4>1, NoPollIn DEF TurnOf, Turn, Timers
    <3>2. CASE t \notin gone
      <4>1. /\ sensorPollTimers'[t] = sensorPollTimers[t]
            /\ roundRobinSensorItMap'[t] = roundRobinSensorItMap[t]
            /\ pollTask'[t] = pollTask[t] /\ age'[t] = age[t]
        BY <2>2, <3>2
      <4> QED
        BY <1>3, <4>1 DEF TurnOf
    <3> QED
      BY <3>1, <3>2
  <2>4. /\ PerTid(sensorPollTimers)' /\ PerTid(roundRobinSensorItMap)'
        /\ PerTid(pollTask)' /\ PerTid(age)'
    BY <2>2 DEF TurnInv, PerTid
  <2> QED
    BY <2>3, <2>4 DEF TurnInv
\* updateMctpEndpointAvailability restarts or creates a timer.
<1>5. CASE PropertiesChanged
  <2>1. UNCHANGED <<roundRobinSensorItMap, pollTask, age>>
    BY <1>5, Zenon DEF PropertiesChanged, UpdateAvailability, Discover
  <2>2. CASE UNCHANGED sensorPollTimers
    BY <1>1, <2>1, <2>2
  <2>3. CASE \E t \in Tids : sensorPollTimers' = StartedTimer(t)
    <3>1. PICK t \in Tids : sensorPollTimers' = StartedTimer(t)
      BY <2>3
    <3> DEFINE timer == CASE sensorPollTimers[t] = "none" -> "null"
                          [] sensorPollTimers[t] = "stopped" -> "running"
                          [] OTHER -> sensorPollTimers[t]
    <3>2. sensorPollTimers' = [sensorPollTimers EXCEPT ![t] = timer]
      BY <3>1 DEF StartedTimer, TurnInv, PerTid
    <3>3. sensorPollTimers[t] \in Timers
      BY <1>3 DEF Turn
    <3>4. /\ timer \in Timers
          /\ sensorPollTimers[t] = "running" => timer = "running"
          /\ timer \in {"stopped", "running"} => sensorPollTimers[t] \in {"stopped", "running"}
      BY <3>3 DEF Timers
    <3> HIDE DEF timer
    <3>5. Turn(timer, roundRobinSensorItMap[t], pollTask[t], age[t])
      BY <1>3, <3>4 DEF Turn
    <3>6. /\ roundRobinSensorItMap' = [roundRobinSensorItMap EXCEPT ![t] = roundRobinSensorItMap[t]]
          /\ pollTask' = [pollTask EXCEPT ![t] = pollTask[t]]
          /\ age' = [age EXCEPT ![t] = age[t]]
      BY <2>1, Same
    <3> QED
      BY <3>2, <3>5, <3>6, OneTurns
  <2>4. ASSUME NEW e, NEW v, UpdateAvailability(e, v)
        PROVE  \/ UNCHANGED sensorPollTimers
               \/ \E t \in Tids : sensorPollTimers' = StartedTimer(t)
    <3>1. CASE v = "yes" /\ ToTid(e) # {}
      <4>1. LowestTid(ToTid(e)) \in Tids
        BY <3>1, LowestTidIn DEF ToTid
      <4> QED
        BY <2>4, <3>1, <4>1 DEF UpdateAvailability
    <3>2. CASE ~(v = "yes" /\ ToTid(e) # {})
      BY <2>4, <3>2 DEF UpdateAvailability
    <3> QED
      BY <3>1, <3>2
  <2> QED
    BY <1>5, <2>2, <2>3, <2>4, Zenon DEF PropertiesChanged, Discover
<1>6. CASE Initialized
  <2>1. task.tid \in Tids /\ StartPolling(task.tid)
    BY <1>6 DEF Initialized, Runs, Step, TableInv, Pending
  <2> DEFINE t == task.tid
             turns == [s \in Sensors |-> 0]
  <2>2. CASE UNCHANGED sensorVars
    BY <1>1, <2>2
  <2>3. CASE sensorPollTimers[t] = "none"
    <3>1. /\ sensorPollTimers' = [sensorPollTimers EXCEPT ![t] = "running"]
          /\ roundRobinSensorItMap' = [roundRobinSensorItMap EXCEPT ![t] = 0]
          /\ age' = [age EXCEPT ![t] = turns]
          /\ UNCHANGED pollTask
      BY <2>1, <2>3 DEF StartPolling
    <3>2. 0 \in 0..NumSensors /\ turns \in [Sensors -> Nat]
      BY SensorCount
    <3>3. ASSUME NEW s \in Sensors
          PROVE  turns[s] <= Distance(0, s) /\ turns[s] < NumSensors
      <4>1. s \in 0..NumSensors - 1 /\ turns[s] = 0
        BY DEF Sensors
      <4> QED
        BY <4>1, SensorCount DEF Distance
    <3>4. pollTask[t] \in Polls /\ pollTask[t].pc = "none"
      BY <1>3, <2>1, <2>3 DEF Turn
    <3>5. pollTask' = [pollTask EXCEPT ![t] = pollTask[t]] /\ t \in Tids
      BY <2>1, <3>1, Same
    <3> HIDE DEF t, turns
    <3>6. Turn("running", 0, pollTask[t], turns)
      BY <3>2, <3>3, <3>4 DEF Turn, Timers
    <3> QED
      BY <3>1, <3>5, <3>6, OneTurns
  <2> QED
    BY <2>1, <2>2, <2>3 DEF StartPolling
<1>7. ASSUME NEW t, NEW table, AskTypes(t, table)
      PROVE  UNCHANGED <<sensorPollTimers, roundRobinSensorItMap, pollTask, age>>
  BY <1>7, Zenon DEF AskTypes, InitFailed, WaitFor
<1>8. ASSUME NEW tid, GotTid(tid)
      PROVE  UNCHANGED <<sensorPollTimers, roundRobinSensorItMap, pollTask, age>>
  BY <1>7, <1>8, Zenon DEF GotTid, InitFailed, InitSucceeded, WaitFor
<1>9. ASSUME NEW ok, SetTidDone(ok) \/ TypesDone(ok)
      PROVE  UNCHANGED <<sensorPollTimers, roundRobinSensorItMap, pollTask, age>>
  BY <1>7, <1>9, Zenon DEF SetTidDone, TypesDone, InitFailed, InitSucceeded
<1>10. CASE \/ NextEndpoint \/ NextType \/ NextTerminus \/ InitRequest
            \/ \E ok : VersionsDone(ok)
            \/ \E ok, answered : InitResponse(ok, answered)
            \/ Mctpd \/ DiscoverEndpoints
            \/ \E t \in Tids : MessagePollEvent(t)
            \/ UNCHANGED vars
  <2>1. UNCHANGED <<sensorPollTimers, roundRobinSensorItMap, pollTask, age>>
    BY <1>10, Zenon DEF NextEndpoint, NextType, NextTerminus, InitRequest, VersionsDone,
       InitResponse, InitSucceeded, WaitFor, Mctpd, DiscoverEndpoints, Discover,
       MessagePollEvent, vars
  <2> QED
    BY <1>1, <2>1
<1>11. CASE SignalDropped \/ \E current : RemovalCrashes(current)
  BY <1>1, <1>11, NothingHandled
<1> QED
  BY <1>1, <1>2, <1>4, <1>5, <1>6, <1>8, <1>9, <1>10, <1>11, Zenon DEF Next, SignalNext,
     DiscoveryNext

LEMMA TurnInvHolds == Spec => []TurnInv
  BY SpecSteps, InitTurn, NextTurnInv, InvHolds, PTL

\* Between two turns of a sensor every other sensor of its terminus has one at most,
\* however doSensorPollingTask is stopped, restarted and suspended: the iterator of
\* roundRobinSensorItMap outlives it and is moved once for each sensor considered.
THEOREM SensorsTakeTurnsHolds == Spec => []SensorsTakeTurns
<1>1. TurnInv => SensorsTakeTurns
  BY DEF TurnInv, TurnOf, Turn, SensorsTakeTurns
<1> QED
  BY <1>1, TurnInvHolds, PTL

-----------------------------------------------------------------------------
(* Type correctness *)

Availability == {"none", "yes", "no"}

\* The rest of TypeOK
RestTypes ==
  /\ mctpInfoAvailTable \in [Endpoints -> Availability]
  /\ availableState \in [Tids -> Availability]
  /\ running \in Tids \cup {NONE, DISCOVERY}
  /\ pollEvent \subseteq Tids
  /\ existingMctpInfos \subseteq Endpoints /\ published \subseteq Endpoints
  /\ crashed \in BOOLEAN

LEMMA AvailableTyped ==
  ASSUME RestTypes, NEW ts, NEW v \in Availability
  PROVE  AvailableAfter(ts, v) \in [Tids -> Availability]
  BY DEF RestTypes, AvailableAfter

LEMMA RequestTyped ==
  ASSUME RestTypes, NEW e, NEW answered, AfterRequest(e, answered)
  PROVE  /\ mctpInfoAvailTable' \in [Endpoints -> Availability]
         /\ availableState' \in [Tids -> Availability]
<1>1. CASE UNCHANGED <<mctpInfoAvailTable, availableState>>
  BY <1>1 DEF RestTypes
<1>2. CASE /\ mctpInfoAvailTable' = [mctpInfoAvailTable EXCEPT ![e] = "no"]
           /\ availableState' = AvailableAfter({t \in Tids : mctpInfoTable[t] = e}, "no")
  BY <1>2, AvailableTyped DEF RestTypes, Availability
<1> QED
  BY <1>1, <1>2 DEF AfterRequest

\* The polling coroutines and the handlers of the event loop
LEMMA LoopTyped ==
  ASSUME TaskInv, RestTypes,
         \/ SensorStep \/ SignalNext \/ Mctpd
         \/ \E t \in Tids : MessagePollEvent(t)
  PROVE  RestTypes'
<1> USE DEF discoveryVars, tableVars, sensorVars
<1>1. ASSUME NEW t \in Tids, NEW due, ~crashed, UNCHANGED <<discoveryVars, crashed>>,
             DoSensorPolling(t) \/ PollStart(t) \/ PollSensor(t, due)
      PROVE  RestTypes'
  <2>1. UNCHANGED <<mctpInfoAvailTable, availableState>> /\ running' \in {running, t, NONE}
    BY <1>1, Zenon DEF DoSensorPolling, PollStart, PollSensor, Stopped
  <2>2. pollEvent' \subseteq pollEvent
    BY <1>1, Zenon DEF DoSensorPolling, PollStart, PollSensor
  <2> QED
    BY <1>1, <2>1, <2>2 DEF RestTypes
<1>2. ASSUME NEW t \in Tids, NEW slow, NEW answered, ~crashed,
             UNCHANGED <<discoveryVars, crashed>>,
             EventConcludes(t, slow, answered) \/ ReadingConcludes(t, slow, answered)
      PROVE  RestTypes'
  <2>1. AfterRequest(mctpInfoTable[t], answered)
    BY <1>2 DEF EventConcludes, ReadingConcludes
  <2>2. running' \in {running, t, NONE}
    BY <1>2, Zenon DEF EventConcludes, ReadingConcludes, Stopped
  <2>3. pollEvent' \subseteq pollEvent
    BY <1>2, Zenon DEF EventConcludes, ReadingConcludes
  <2> QED
    BY <1>2, <2>1, <2>2, <2>3, RequestTyped DEF RestTypes
<1>3. CASE SensorStep
  BY <1>1, <1>2, <1>3, Zenon DEF SensorStep, SensorNext
<1>4. CASE Mctpd
  BY <1>4 DEF Mctpd, RestTypes
<1>5. CASE \E t \in Tids : MessagePollEvent(t)
  BY <1>5 DEF MessagePollEvent, RestTypes
<1>6. ASSUME NEW kind, Handles(kind)
      PROVE  /\ Head(signals).e \in Endpoints
             /\ UNCHANGED published
  <2>1. signals # <<>>
    BY <1>6 DEF Handles
  <2>2. Head(signals) \in Signal
    BY <2>1 DEF TaskInv, QueueTypes
  <2> QED
    BY <1>6, <2>2 DEF Handles, Signal
<1>7. ASSUME NEW e \in Endpoints, addToExistingMctpInfos(e), Discover(<<e>>),
             UNCHANGED <<published, crashed>>
      PROVE  RestTypes'
  BY <1>7 DEF addToExistingMctpInfos, Discover, RestTypes
<1>8. CASE DiscoverEndpoints
  BY <1>6, <1>7, <1>8 DEF DiscoverEndpoints, getAddedMctpInfos
<1>9. CASE PropertiesChanged
  <2> DEFINE e == Head(signals).e
  <2>1. PICK kind \in {"available", "degraded"} : Handles(kind) /\ UNCHANGED crashed /\
          \/ /\ UpdateAvailability(e, IF kind = "available" THEN "yes" ELSE "no")
             /\ UNCHANGED <<existingMctpInfos, running>>
          \/ addToExistingMctpInfos(e) /\ Discover(<<e>>)
          \/ UNCHANGED <<existingMctpInfos, running, tableVars, sensorVars>>
    BY <1>9, Zenon DEF PropertiesChanged
  <2>2. e \in Endpoints /\ UNCHANGED <<published, crashed>>
    BY <1>6, <2>1
  <2>3. ASSUME NEW v \in {"yes", "no"}, UpdateAvailability(e, v),
               UNCHANGED <<existingMctpInfos, running>>
        PROVE  RestTypes'
    <3>1. availableState' = AvailableAfter(ToTid(e), v) /\ v \in Availability
      BY <2>3 DEF UpdateAvailability, Availability
    <3>2. availableState' \in [Tids -> Availability]
      BY <3>1, AvailableTyped
    <3> QED
      BY <2>2, <2>3, <3>1, <3>2 DEF UpdateAvailability, RestTypes
  <2> HIDE DEF e
  <2>4. CASE addToExistingMctpInfos(e) /\ Discover(<<e>>)
    BY <1>7, <2>2, <2>4
  <2>5. CASE UNCHANGED <<existingMctpInfos, running, tableVars, sensorVars>>
    BY <2>2, <2>5 DEF RestTypes
  <2> QED
    BY <2>1, <2>3, <2>4, <2>5
<1>10. CASE \E current : RemoveEndpoints(current)
  <2>0. PICK current : RemoveEndpoints(current)
    BY <1>10
  <2> DEFINE gone == UNION {Found(e) : e \in existingMctpInfos \ current}
  <2>1. /\ StopPolling(gone) /\ UNCHANGED <<running, published, crashed>>
        /\ mctpInfoAvailTable' = [e \in Endpoints |->
             IF \E t \in gone : mctpInfoTable[t] = e THEN "none" ELSE mctpInfoAvailTable[e]]
        /\ existingMctpInfos' \subseteq existingMctpInfos
    BY <2>0 DEF RemoveEndpoints, removeMctpTerminus, removeFromExistingMctpInfos, Handles, Gone
  <2>2. /\ availableState' = [t \in Tids |-> IF t \in gone THEN "none" ELSE availableState[t]]
        /\ pollEvent' \subseteq pollEvent
    BY <2>1 DEF StopPolling
  <2> HIDE DEF gone
  <2>3. mctpInfoAvailTable' \in [Endpoints -> Availability]
    BY <2>1 DEF RestTypes, Availability
  <2>4. availableState' \in [Tids -> Availability]
    BY <2>2 DEF RestTypes, Availability
  <2> QED
    BY <2>1, <2>2, <2>3, <2>4 DEF RestTypes
<1>11. CASE SignalDropped \/ \E current : RemovalCrashes(current)
  BY <1>11, NothingHandled DEF RestTypes
<1> QED
  BY <1>3, <1>4, <1>5, <1>8, <1>9, <1>10, <1>11, Zenon DEF SignalNext

\* The discovery coroutine
LEMMA DiscoveryTyped ==
  ASSUME TableInv, RestTypes, DiscoveryNext
  PROVE  RestTypes'
<1> USE DEF discoveryVars, tableVars, sensorVars
\* Where it sets the availability of an endpoint, and otherwise only goes on or waits
<1>1. ASSUME \/ UNCHANGED mctpInfoAvailTable
             \/ \E e, v : /\ v \in Availability
                          /\ mctpInfoAvailTable' = [mctpInfoAvailTable EXCEPT ![e] = v],
             UNCHANGED <<availableState, pollEvent, existingMctpInfos, published>>,
             running' \in {running, NONE, DISCOVERY}, crashed' \in BOOLEAN
      PROVE  RestTypes'
  BY <1>1 DEF RestTypes
<1>2. "none" \in Availability /\ "yes" \in Availability /\ crashed \in BOOLEAN
  BY DEF Availability, RestTypes
<1>3. ASSUME NEW t, InitFailed(t), UNCHANGED discoveryVars
      PROVE  RestTypes'
  BY <1>1, <1>2, <1>3 DEF InitFailed
<1>4. ASSUME InitSucceeded, UNCHANGED discoveryVars
      PROVE  RestTypes'
  BY <1>1, <1>2, <1>4 DEF InitSucceeded
<1>5. ASSUME NEW pc, NEW t, WaitFor(pc, t), UNCHANGED discoveryVars,
             \/ UNCHANGED mctpInfoAvailTable
             \/ \E e : mctpInfoAvailTable' = [mctpInfoAvailTable EXCEPT ![e] = "yes"]
      PROVE  RestTypes'
  BY <1>1, <1>2, <1>5 DEF WaitFor
<1>6. ASSUME NEW t, NEW table, AskTypes(t, table), UNCHANGED discoveryVars
      PROVE  RestTypes'
  BY <1>3, <1>5, <1>6, Zenon DEF AskTypes
<1>7. CASE NextEndpoint
  <2>1. UNCHANGED discoveryVars
    BY <1>7 DEF NextEndpoint, Runs
  <2>2. CASE UNCHANGED <<mctpInfoAvailTable, running, sensorVars, crashed>>
    BY <1>1, <1>2, <2>1, <2>2
  <2>3. CASE InitSucceeded
    BY <1>4, <2>1, <2>3
  <2>4. CASE /\ mctpInfoAvailTable' = [mctpInfoAvailTable EXCEPT ![Front[task.i]] = "yes"]
             /\ WaitFor("gotTid", 0)
    BY <1>5, <2>1, <2>4
  <2> QED
    BY <1>7, <2>2, <2>3, <2>4, Zenon DEF NextEndpoint
<1>8. CASE NextType
  <2>1. UNCHANGED discoveryVars
    BY <1>8 DEF NextType, Runs
  <2>2. CASE InitSucceeded
    BY <1>4, <2>1, <2>2
  <2>3. CASE WaitFor("versions", task.tid) /\ UNCHANGED tableVars
    BY <1>5, <2>1, <2>3
  <2>4. CASE UNCHANGED <<running, tableVars, sensorVars, crashed>>
    BY <1>1, <1>2, <2>1, <2>4
  <2> QED
    BY <1>8, <2>2, <2>3, <2>4, Zenon DEF NextType
<1>9. ASSUME NEW tid, GotTid(tid)
      PROVE  RestTypes'
  <2>1. UNCHANGED discoveryVars
    BY <1>9 DEF GotTid, Resumes
  <2>2. CASE \E pc, t : WaitFor(pc, t) /\ UNCHANGED mctpInfoAvailTable
    BY <1>5, <2>1, <2>2
  <2> QED
    BY <1>3, <1>4, <1>6, <1>9, <2>1, <2>2, Zenon DEF GotTid
<1>10. ASSUME NEW ok, SetTidDone(ok)
       PROVE  RestTypes'
  <2>1. UNCHANGED discoveryVars
    BY <1>10 DEF SetTidDone, Resumes
  <2> QED
    BY <1>3, <1>4, <1>6, <1>10, <2>1, Zenon DEF SetTidDone
<1>11. ASSUME NEW ok, TypesDone(ok)
       PROVE  RestTypes'
  <2>1. UNCHANGED discoveryVars
    BY <1>11 DEF TypesDone, Resumes
  <2>2. CASE /\ running' = DISCOVERY
             /\ UNCHANGED <<mctpInfoTable, mctpInfoAvailTable, sensorVars, crashed>>
    BY <1>1, <1>2, <2>1, <2>2
  <2> QED
    BY <1>3, <1>11, <2>1, <2>2, Zenon DEF TypesDone
<1>12. ASSUME NEW answered, VersionsDone(answered)
       PROVE  RestTypes'
  <2>1. /\ UNCHANGED <<discoveryVars, pollEvent>>
        /\ AfterRequest(Front[task.i], answered)
    BY <1>12 DEF VersionsDone, Resumes
  <2>2. running' \in {running, DISCOVERY} /\ crashed' \in {crashed, TRUE}
    BY <1>12, Zenon DEF VersionsDone
  <2> QED
    BY <2>1, <2>2, RequestTyped DEF RestTypes
<1>13. ASSUME NEW ok, NEW answered, InitResponse(ok, answered)
       PROVE  RestTypes'
  <2>1. /\ UNCHANGED <<discoveryVars, pollEvent, crashed>>
        /\ AfterRequest(task.e, answered) /\ running' = DISCOVERY
    BY <1>13, Zenon DEF InitResponse, Resumes
  <2> QED
    BY <2>1, RequestTyped DEF RestTypes
<1>14. CASE NextTerminus
  <2>1. UNCHANGED <<discoveryVars, tableVars, sensorVars, crashed>>
    BY <1>14 DEF NextTerminus, Runs
  <2>2. running' \in {running, NONE, DISCOVERY}
    BY <1>14, Zenon DEF NextTerminus
  <2> QED
    BY <1>1, <1>2, <2>1, <2>2
<1>15. CASE InitRequest
  <2>1. UNCHANGED <<discoveryVars, tableVars, sensorVars, crashed>>
        /\ running' \in {running, NONE}
    BY <1>15, Zenon DEF InitRequest, Runs
  <2> QED
    BY <1>1, <1>2, <2>1
<1>16. CASE Initialized
  <2>1. /\ UNCHANGED <<discoveryVars, mctpInfoAvailTable, running, crashed>>
        /\ StartPolling(task.tid)
    BY <1>16 DEF Initialized, Runs
  <2>2. CASE UNCHANGED sensorVars
    BY <1>1, <1>2, <2>1, <2>2
  <2>3. CASE /\ availableState' = [availableState EXCEPT ![task.tid] = "yes"]
             /\ UNCHANGED pollEvent
    BY <1>2, <2>1, <2>3 DEF RestTypes
  <2> QED
    BY <2>1, <2>2, <2>3 DEF StartPolling
<1> QED
  BY <1>7, <1>8, <1>9, <1>10, <1>11, <1>12, <1>13, <1>14, <1>15, <1>16, Zenon DEF DiscoveryNext

\* Every piece of state keeps to the values the code gives it: an iterator stays in the
\* list of sensors or at its end, a coroutine never counts below zero, and the tables
\* and managers hold what they are declared to hold.
THEOREM TypeCorrect == Spec => []TypeOK
<1>1. Init => RestTypes
  <2> SUFFICES ASSUME Init
               PROVE  RestTypes
    OBVIOUS
  <2>1. {FirstBatch[k] : k \in DOMAIN FirstBatch} \subseteq Endpoints
    BY TerminusManagerAssumption
  <2> QED
    BY <2>1 DEF Init, SensorInit, RestTypes, Availability
<1>2. TaskInv /\ TableInv /\ RestTypes /\ [Next]_vars => RestTypes'
  <2>1. RestTypes /\ UNCHANGED vars => RestTypes'
    BY DEF RestTypes, vars, tableVars, sensorVars, discoveryVars
  <2> QED
    BY <2>1, LoopTyped, DiscoveryTyped, Zenon DEF Next
<1>3. TableInv /\ TurnInv /\ RestTypes => TypeOK
  <2> SUFFICES ASSUME TableInv, TurnInv, RestTypes
               PROVE  TypeOK
    OBVIOUS
  <2>1. ASSUME NEW t \in Tids
        PROVE  /\ sensorPollTimers[t] \in Timers
               /\ roundRobinSensorItMap[t] \in 0..NumSensors \cup {NONE}
               /\ pollTask[t] \in Polls /\ age[t] \in [Sensors -> Nat]
    <3>1. Turn(sensorPollTimers[t], roundRobinSensorItMap[t], pollTask[t], age[t])
      BY DEF TurnInv, TurnOf
    <3> QED
      BY <3>1 DEF Turn
  <2>2. /\ sensorPollTimers \in [Tids -> Timers]
        /\ roundRobinSensorItMap \in [Tids -> 0..NumSensors \cup {NONE}]
        /\ pollTask \in [Tids -> Polls] /\ age \in [Tids -> [Sensors -> Nat]]
    BY <2>1 DEF TurnInv, PerTid
  <2> QED
    BY <2>2 DEF TypeOK, TableInv, TableTypes, RestTypes, Availability, Timers, Polls
<1> QED
  BY <1>1, <1>2, <1>3, SpecSteps, InvHolds, TurnInvHolds, PTL

-----------------------------------------------------------------------------
\* Where initMctpTerminus works on endpoint task.i of the front batch
Initializing == {"next", "gotTid", "setTid", "types", "versions", "commands"}

\* The endpoint is in a batch behind the front of the queue.
Later(e) == \E k \in DOMAIN queuedMctpInfos :
              k > 1 /\ \E j \in DOMAIN queuedMctpInfos[k] : queuedMctpInfos[k][j] = e

\* The front batch may be popped without forgetting this endpoint.
Safe(e) == Found(e) # {} \/ e \notin existingMctpInfos \/ Later(e)

\* The coroutine is done with endpoint j of the front batch.
Passed(j) == task.pc \in Initializing => j < task.i

\* A batch none of whose endpoints failed yet may be popped as far as it was worked
\* off: its endpoints have a terminus, left meanwhile, or came back in a later batch.
PassedInv ==
  task.pc # "idle" /\ task.failed = FALSE /\ ~crashed =>
    \A j \in DOMAIN Front : Passed(j) => Safe(Front[j])

KeptInv ==
  /\ task.failed \in BOOLEAN
  /\ NothingForgotten
  /\ PassedInv

LEMMA NewTaskNotFailed == NoTask.failed = FALSE /\ NewTask.failed = FALSE
<1>1. NoTask.failed = FALSE
  BY DEF NoTask
<1>2. ASSUME NEW t, Shape(t), NEW u, u = [t EXCEPT !.pc = "next", !.i = 1]
      PROVE  u.failed = t.failed
  BY <1>2 DEF Shape
<1> QED
  BY <1>1, <1>2, NoTaskFields, Zenon DEF NewTask

LEMMA InitKept == Init => KeptInv
<1> SUFFICES ASSUME Init
             PROVE  KeptInv
  OBVIOUS
<1>1. /\ task = NewTask /\ queuedMctpInfos = <<FirstBatch>>
      /\ existingMctpInfos = {FirstBatch[k] : k \in DOMAIN FirstBatch}
  BY DEF Init
<1>2. NothingForgotten
  BY <1>1 DEF NothingForgotten
<1>3. PassedInv
  <2>1. Front \in Seq(Endpoints)
    BY <1>1, TerminusManagerAssumption DEF Front
  <2>2. \A j \in DOMAIN Front : ~Passed(j)
    BY <1>1, <2>1, NewTaskFields DEF Passed, Initializing
  <2> QED
    BY <2>2 DEF PassedInv
<1> QED
  BY <1>1, <1>2, <1>3, NewTaskNotFailed DEF KeptInv

\* No terminus changes its endpoint or leaves the map, except by removal.
TerminiStay == \A t \in Tids : termini[t] # "absent" =>
                  termini'[t] # "absent" /\ mctpInfoTable'[t] = mctpInfoTable[t]

LEMMA FoundStays ==
  ASSUME TerminiStay
  PROVE  \A e : Found(e) # {} => Found(e)' # {}
  BY DEF TerminiStay, Found

\* removeMctpTerminus erases only what is no longer known.
LEMMA RemovalStays ==
  ASSUME NEW current, RemoveEndpoints(current)
  PROVE  \A e \in existingMctpInfos' : Found(e) # {} => Found(e)' # {}
<1> DEFINE gone == UNION {Found(e) : e \in existingMctpInfos \ current}
<1>1. /\ termini' = [t \in Tids |-> IF t \in gone THEN "absent" ELSE termini[t]]
      /\ mctpInfoTable' = [t \in Tids |-> IF t \in gone THEN NONE ELSE mctpInfoTable[t]]
      /\ existingMctpInfos' = existingMctpInfos \cap current
  BY DEF RemoveEndpoints, removeMctpTerminus, removeFromExistingMctpInfos, unmapTids, Gone
<1>2. \A e \in existingMctpInfos' : Found(e) \cap gone = {}
  BY <1>1 DEF Found
<1> HIDE DEF gone
<1> QED
  BY <1>1, <1>2 DEF Found

\* A failed initMctpTerminus gives back no TID of a terminus.
LEMMA FailureStays ==
  ASSUME NEW t, InitFailed(t), \A u \in Tids : u = t => termini[u] = "absent"
  PROVE  TerminiStay
  BY DEF InitFailed, unmapTids, TerminiStay

\* A step that leaves the queue alone, forgets no terminus of a known endpoint, and
\* either fails or passes only endpoints that have a terminus.
Advances ==
  /\ UNCHANGED queuedMctpInfos
  /\ existingMctpInfos' \subseteq existingMctpInfos
  /\ \A e \in existingMctpInfos' : Found(e) # {} => Found(e)' # {}
  /\ crashed => crashed'
  /\ task'.failed \in BOOLEAN
  /\ \/ task'.pc = "idle"
     \/ task'.failed = TRUE
     \/ crashed'
     \/ /\ task.pc # "idle" /\ task'.failed = task.failed
        /\ \A j \in DOMAIN Front : Passed(j)' => Passed(j) \/ Found(Front[j])' # {}

LEMMA AdvancesKept ==
  ASSUME KeptInv, Advances
  PROVE  KeptInv'
<1>1. NothingForgotten'
  BY DEF KeptInv, NothingForgotten, Advances
<1>2. PassedInv'
  <2> SUFFICES ASSUME task'.pc # "idle", task'.failed = FALSE, ~crashed',
                      NEW j \in DOMAIN Front', Passed(j)'
               PROVE  Safe(Front[j])'
    BY DEF PassedInv
  <2>1. Front' = Front /\ UNCHANGED queuedMctpInfos
    BY DEF Front, Advances
  <2>2. /\ task.pc # "idle" /\ task.failed = FALSE /\ ~crashed
        /\ Passed(j) \/ Found(Front[j])' # {}
    BY <2>1 DEF Advances
  <2>3. CASE Found(Front[j])' # {}
    BY <2>1, <2>3 DEF Safe, Found
  <2>4. CASE Passed(j)
    <3>1. Safe(Front[j])
      BY <2>1, <2>2, <2>4 DEF KeptInv, PassedInv
    <3>2. CASE Found(Front[j]) # {}
      <4>1. Front[j] \in existingMctpInfos' => Found(Front[j])' # {}
        BY <2>1, <3>2 DEF Advances, Found
      <4> QED
        BY <2>1, <4>1 DEF Safe, Found
    <3>3. CASE Front[j] \notin existingMctpInfos
      BY <2>1, <3>3 DEF Advances, Safe
    <3>4. CASE Later(Front[j])
      BY <2>1, <3>4 DEF Later, Safe
    <3> QED
      BY <3>1, <3>2, <3>3, <3>4 DEF Safe
  <2> QED
    BY <2>2, <2>3, <2>4
<1> QED
  BY <1>1, <1>2 DEF KeptInv, Advances

\* An endpoint becomes known with a batch of its own at the end of the queue.
LEMMA DiscoverKept ==
  ASSUME TaskInv, KeptInv, NEW e \in Endpoints, addToExistingMctpInfos(e), Discover(<<e>>),
         UNCHANGED crashed
  PROVE  KeptInv'
<1>1. /\ queuedMctpInfos' = Append(queuedMctpInfos, <<e>>)
      /\ existingMctpInfos' = existingMctpInfos \cup {e}
      /\ UNCHANGED <<termini, mctpInfoTable>>
  BY DEF addToExistingMctpInfos, Discover, tableVars
<1>2. <<e>> \in Seq(Endpoints) /\ queuedMctpInfos \in Seq(Seq(Endpoints))
  BY DEF TaskInv, QueueTypes
<1> DEFINE S == Seq(Endpoints)
           n == Len(queuedMctpInfos)
<1>3. /\ n \in Nat /\ DOMAIN queuedMctpInfos' = 1..(n + 1)
      /\ DOMAIN queuedMctpInfos = 1..n
      /\ \A k \in 1..n : queuedMctpInfos'[k] = queuedMctpInfos[k]
      /\ queuedMctpInfos'[n + 1] = <<e>>
  <2> HIDE DEF S
  <2> QED
    BY <1>1, <1>2 DEF S
<1> HIDE DEF n
<1>4. \E j \in DOMAIN queuedMctpInfos'[n + 1] : queuedMctpInfos'[n + 1][j] = e
  BY <1>3
<1>5. NothingForgotten'
  <2>1. ASSUME NEW f \in existingMctpInfos', f # e
        PROVE  \/ Found(f)' # {} \/ crashed'
               \/ \E k \in DOMAIN queuedMctpInfos' :
                    \E j \in DOMAIN queuedMctpInfos'[k] : queuedMctpInfos'[k][j] = f
    <3>1. \/ Found(f) # {} \/ crashed
          \/ \E k \in DOMAIN queuedMctpInfos :
               \E j \in DOMAIN queuedMctpInfos[k] : queuedMctpInfos[k][j] = f
      BY <1>1, <2>1 DEF KeptInv, NothingForgotten
    <3>2. Found(f)' = Found(f)
      BY <1>1 DEF Found
    <3>3. ASSUME NEW k \in 1..n, NEW j \in DOMAIN queuedMctpInfos[k],
                 queuedMctpInfos[k][j] = f
          PROVE  \E m \in DOMAIN queuedMctpInfos' :
                   \E i \in DOMAIN queuedMctpInfos'[m] : queuedMctpInfos'[m][i] = f
      BY <1>3, <3>3
    <3> QED
      BY <1>3, <3>1, <3>2, <3>3
  <2>2. \E k \in DOMAIN queuedMctpInfos' :
          \E j \in DOMAIN queuedMctpInfos'[k] : queuedMctpInfos'[k][j] = e
    <3>1. n + 1 \in DOMAIN queuedMctpInfos'
      BY <1>3
    <3> QED
      BY <1>4, <3>1
  <2> QED
    BY <2>1, <2>2 DEF NothingForgotten
<1>6. CASE task.pc = "idle"
  <2>1. task' = NewTask
    BY <1>6 DEF Discover
  <2>2. Front' \in Seq(Endpoints)
    BY <1>1, <1>2 DEF Front
  <2>3. \A j \in DOMAIN Front' : ~Passed(j)'
    BY <2>1, <2>2, NewTaskFields DEF Passed, Initializing
  <2>4. PassedInv'
    BY <2>3 DEF PassedInv
  <2> QED
    BY <1>5, <2>1, <2>4, NewTaskNotFailed DEF KeptInv
<1>7. CASE task.pc # "idle"
  <2>1. UNCHANGED task
    BY <1>7 DEF Discover
  <2>2. n >= 1 /\ Front' = Front
    <3>1. queuedMctpInfos # <<>>
      BY <1>7 DEF TaskInv
    <3> HIDE DEF S
    <3> QED
      BY <1>1, <1>2, <3>1 DEF n, Front, S
  <2>3. PassedInv'
    <3> SUFFICES ASSUME task.failed = FALSE, ~crashed, NEW j \in DOMAIN Front, Passed(j)
                 PROVE  Safe(Front[j])'
      BY <2>1, <2>2 DEF PassedInv, Passed
    <3>1. Safe(Front[j])
      BY <1>7 DEF KeptInv, PassedInv
    <3>2. CASE Found(Front[j]) # {}
      BY <1>1, <2>2, <3>2 DEF Safe, Found
    <3>3. CASE Front[j] \notin existingMctpInfos /\ Front[j] # e
      BY <1>1, <2>2, <3>3 DEF Safe
    <3>4. CASE Front[j] = e
      <4>1. n + 1 \in DOMAIN queuedMctpInfos' /\ n + 1 > 1
        BY <1>3, <2>2
      <4>2. Later(e)'
        BY <1>4, <4>1 DEF Later
      <4> QED
        BY <2>2, <3>4, <4>2 DEF Safe, Later
    <3>5. CASE Later(Front[j])
      <4>1. PICK k \in DOMAIN queuedMctpInfos : k > 1 /\
              \E i \in DOMAIN queuedMctpInfos[k] : queuedMctpInfos[k][i] = Front[j]
        BY <3>5 DEF Later
      <4>2. k \in DOMAIN queuedMctpInfos' /\ queuedMctpInfos'[k] = queuedMctpInfos[k]
        BY <1>3
      <4> QED
        BY <2>2, <4>1, <4>2 DEF Safe, Later
    <3> QED
      BY <3>1, <3>2, <3>3, <3>4, <3>5 DEF Safe
  <2> QED
    BY <1>5, <2>1, <2>3 DEF KeptInv
<1> QED
  BY <1>6, <1>7

\* A batch is popped when none of its endpoints failed and all were passed.
LEMMA PoppedKept ==
  ASSUME TaskInv, KeptInv, task.pc = "snapshot", task.failed = FALSE, ~crashed,
         queuedMctpInfos' = Tail(queuedMctpInfos), task'.failed = FALSE,
         task'.pc = "idle" \/ (task'.pc = "next" /\ task'.i = 1 /\ queuedMctpInfos' # <<>>),
         UNCHANGED <<termini, mctpInfoTable, existingMctpInfos, crashed>>
  PROVE  KeptInv'
<1> DEFINE S == Seq(Endpoints)
           n == Len(queuedMctpInfos)
<1>1. queuedMctpInfos \in Seq(S) /\ queuedMctpInfos # <<>>
  BY DEF TaskInv, QueueTypes
<1> HIDE DEF S
<1>2. /\ n \in Nat \ {0} /\ DOMAIN queuedMctpInfos = 1..n
      /\ DOMAIN queuedMctpInfos' = 1..(n - 1)
      /\ \A k \in 1..n : k > 1 => k - 1 \in 1..(n - 1)
                                  /\ queuedMctpInfos'[k - 1] = queuedMctpInfos[k]
      /\ Front = queuedMctpInfos[1]
      /\ queuedMctpInfos' \in Seq(S)
  BY <1>1 DEF Front
<1> HIDE DEF n
<1>3. \A j \in DOMAIN Front : Safe(Front[j])
  BY DEF KeptInv, PassedInv, Passed, Initializing
<1>4. ASSUME NEW e, Later(e)
      PROVE  \E k \in DOMAIN queuedMctpInfos' :
               \E j \in DOMAIN queuedMctpInfos'[k] : queuedMctpInfos'[k][j] = e
  <2>1. PICK k \in 1..n : k > 1 /\
          \E j \in DOMAIN queuedMctpInfos[k] : queuedMctpInfos[k][j] = e
    BY <1>2, <1>4 DEF Later
  <2>2. k - 1 \in DOMAIN queuedMctpInfos' /\ queuedMctpInfos'[k - 1] = queuedMctpInfos[k]
    BY <1>2, <2>1
  <2> QED
    BY <2>1, <2>2
<1>5. NothingForgotten'
  <2> SUFFICES ASSUME NEW e \in existingMctpInfos, Found(e) = {}
               PROVE  \E k \in DOMAIN queuedMctpInfos' :
                        \E j \in DOMAIN queuedMctpInfos'[k] : queuedMctpInfos'[k][j] = e
    BY DEF NothingForgotten, Found
  <2>1. PICK k \in 1..n : \E j \in DOMAIN queuedMctpInfos[k] : queuedMctpInfos[k][j] = e
    BY <1>2 DEF KeptInv, NothingForgotten
  <2>2. CASE k > 1
    <3>1. Later(e)
      BY <1>2, <2>1, <2>2 DEF Later
    <3> QED
      BY <1>4, <3>1
  <2>3. CASE k = 1
    BY <1>2, <1>3, <1>4, <2>1, <2>3 DEF Safe
  <2> QED
    BY <1>2, <2>2, <2>3
<1>6. PassedInv'
  <2>1. CASE task'.pc = "idle"
    BY <2>1 DEF PassedInv
  <2>2. CASE task'.pc = "next" /\ task'.i = 1 /\ queuedMctpInfos' # <<>>
    <3>1. Front' \in S
      BY <1>2, <2>2 DEF Front
    <3>2. \A j \in DOMAIN Front' : ~(j < 1)
      BY <3>1 DEF S
    <3> QED
      BY <2>2, <3>2 DEF PassedInv, Passed, Initializing
  <2> QED
    BY <2>1, <2>2
<1> QED
  BY <1>5, <1>6 DEF KeptInv

LEMMA NextKept == TaskInv /\ TableInv /\ KeptInv /\ [Next]_vars => KeptInv'
<1> SUFFICES ASSUME TaskInv, TableInv, KeptInv, [Next]_vars
             PROVE  KeptInv'
  OBVIOUS
<1> USE DEF discoveryVars, tableVars, sensorVars
<1>0. /\ TableTypes /\ OneToOne /\ Claimed /\ Pending /\ Shape(task)
      /\ task.i \in Nat
      /\ task.failed \in BOOLEAN
  BY DEF TableInv, TaskInv, KeptInv
\* Outside of the coroutine and its queue
<1>1. ASSUME UNCHANGED <<queuedMctpInfos, task>>, crashed => crashed',
             existingMctpInfos' \subseteq existingMctpInfos,
             \A e \in existingMctpInfos' : Found(e) # {} => Found(e)' # {}
      PROVE  KeptInv'
  <2>1. Front' = Front
    BY <1>1 DEF Front
  <2>2. Advances
    BY <1>0, <1>1, <2>1 DEF Advances, Passed
  <2> QED
    BY <2>2, AdvancesKept
\* The coroutine with the tables
<1>2. ASSUME UNCHANGED <<queuedMctpInfos, existingMctpInfos>>, crashed => crashed', TerminiStay,
             task.pc # "idle", task'.failed \in BOOLEAN,
             \/ task'.failed = TRUE
             \/ crashed'
             \/ /\ task'.failed = task.failed
                /\ \A j \in DOMAIN Front : Passed(j)' => Passed(j) \/ Found(Front[j]) # {}
      PROVE  KeptInv'
  <2>1. Front' = Front
    BY <1>2 DEF Front
  <2>2. \A e : Found(e) # {} => Found(e)' # {}
    BY <1>2, FoundStays
  <2>3. \A j \in DOMAIN Front : Found(Front[j]) # {} => Found(Front[j])' # {}
    BY <2>1, <2>2 DEF Found
  <2>4. Advances
    BY <1>2, <2>2, <2>3 DEF Advances
  <2> QED
    BY <2>4, AdvancesKept
<1>3. CASE Mctpd \/ SensorStep \/ (\E t \in Tids : MessagePollEvent(t)) \/ UNCHANGED vars
  <2>1. UNCHANGED <<termini, mctpInfoTable, task, queuedMctpInfos, existingMctpInfos, crashed>>
    BY <1>3, Zenon DEF Mctpd, SensorStep, SensorNext, DoSensorPolling, PollStart, PollSensor,
       EventConcludes, ReadingConcludes, MessagePollEvent, vars
  <2>2. \A e : Found(e)' = Found(e)
    BY <2>1 DEF Found
  <2> QED
    BY <1>1, <2>1, <2>2
<1>4. CASE DiscoverEndpoints \/ PropertiesChanged
  <2>1. UNCHANGED <<termini, mctpInfoTable, crashed>>
    BY <1>4, Zenon DEF DiscoverEndpoints, PropertiesChanged, Discover, UpdateAvailability, Handles
  <2>2. CASE UNCHANGED <<task, queuedMctpInfos, existingMctpInfos>>
    <3>1. \A e : Found(e)' = Found(e)
      BY <2>1 DEF Found
    <3> QED
      BY <1>1, <2>1, <2>2, <3>1
  <2> DEFINE e == Head(signals).e
  <2>3. CASE addToExistingMctpInfos(e) /\ Discover(<<e>>)
    <3>1. signals # <<>>
      BY <1>4, Zenon DEF DiscoverEndpoints, PropertiesChanged, Handles
    <3>2. e \in Endpoints
      <4>1. Head(signals) \in Signal
        BY <3>1 DEF TaskInv, QueueTypes
      <4> QED
        BY <4>1 DEF Signal
    <3> QED
      BY <2>1, <2>3, <3>2, DiscoverKept
  <2>4. Head(getAddedMctpInfos) = e /\ getAddedMctpInfos = <<e>>
    BY DEF getAddedMctpInfos
  <2> HIDE DEF e
  <2>5. CASE DiscoverEndpoints
    BY <2>3, <2>4, <2>5 DEF DiscoverEndpoints
  <2>6. CASE PropertiesChanged
    BY <2>2, <2>3, <2>6, Zenon DEF PropertiesChanged, e
  <2> QED
    BY <1>4, <2>5, <2>6
<1>5. CASE \E current : RemoveEndpoints(current)
  <2>0. PICK current : RemoveEndpoints(current)
    BY <1>5
  <2>1. UNCHANGED <<task, queuedMctpInfos, crashed>> /\ existingMctpInfos' \subseteq existingMctpInfos
    BY <2>0 DEF RemoveEndpoints, Handles, removeFromExistingMctpInfos
  <2>2. \A e \in existingMctpInfos' : Found(e) # {} => Found(e)' # {}
    BY <2>0, RemovalStays
  <2>3. crashed => crashed'
    BY <2>1
  <2> QED
    BY <1>1, <2>1, <2>2, <2>3
\* The ends of initMctpTerminus
<1>6. ASSUME task.pc # "idle", NEW t, InitFailed(t),
             UNCHANGED <<queuedMctpInfos, existingMctpInfos>>,
             \A u \in Tids : u = t => termini[u] = "absent"
      PROVE  KeptInv'
  <2>1. task' = [task EXCEPT !.pc = "next", !.i = @ + 1, !.failed = TRUE] /\ UNCHANGED crashed
    BY <1>6 DEF InitFailed
  <2>2. task'.failed = TRUE
    BY <1>0, <2>1 DEF Shape
  <2>3. TerminiStay
    BY <1>6, FailureStays
  <2> QED
    BY <1>2, <1>6, <2>1, <2>2, <2>3
<1>7. ASSUME task.pc \in {"next", "gotTid", "commands"}, InitSucceeded,
             UNCHANGED <<queuedMctpInfos, existingMctpInfos>>
      PROVE  KeptInv'
  <2> DEFINE lost == ToTid(Front[task.i]) = {}
  <2>1. /\ task' = [task EXCEPT !.pc = "next", !.i = @ + 1, !.failed = @ \/ lost]
        /\ UNCHANGED <<termini, mctpInfoTable, crashed>>
    BY <1>7 DEF InitSucceeded
  <2>2. ~lost /\ Front[task.i] # NONE => Found(Front[task.i]) # {}
    BY <1>0, <1>7 DEF Claimed, ToTid, Found
  <2> HIDE DEF lost
  <2>3. task'.pc = "next" /\ task'.i = task.i + 1
    BY <1>0, <2>1 DEF Shape
  <2>4. task'.failed = (task.failed \/ lost)
    BY <1>0, <2>1 DEF Shape
  <2>5. TerminiStay
    BY <2>1 DEF TerminiStay
  <2>6. CASE lost
    <3>1. task'.failed = TRUE
      BY <2>4, <2>6
    <3> QED
      BY <1>2, <1>7, <2>1, <2>5, <3>1
  <2>7. CASE ~lost
    <3>1. task'.failed = task.failed
      BY <1>0, <2>4, <2>7
    <3>2. \A j \in DOMAIN Front : Passed(j)' => Passed(j) \/ Found(Front[j]) # {}
      <4> SUFFICES ASSUME NEW j \in DOMAIN Front, Passed(j)'
                   PROVE  Passed(j) \/ Found(Front[j]) # {}
        OBVIOUS
      <4>1. j \in Nat /\ Front[j] # NONE
        <5>1. Front \in Seq(Endpoints)
          BY <1>7 DEF TaskInv, QueueTypes, Front
        <5> QED
          BY <5>1, TerminusManagerAssumption
      <4>2. j < task.i \/ j = task.i
        BY <1>0, <2>3, <4>1 DEF Passed, Initializing
      <4> QED
        BY <2>2, <2>7, <4>1, <4>2 DEF Passed
    <3> QED
      BY <1>0, <1>2, <1>7, <2>1, <2>5, <3>1, <3>2
  <2> QED
    BY <2>6, <2>7
\* The coroutine goes on or waits with the same endpoint, or the batch is passed.
<1>8. ASSUME task.pc # "idle", UNCHANGED <<queuedMctpInfos, existingMctpInfos>>,
             crashed => crashed', TerminiStay,
             task'.failed = task.failed,
             \/ task.pc \notin Initializing
             \/ task'.pc \in Initializing /\ task'.i = task.i
      PROVE  KeptInv'
  <2>1. \A j \in DOMAIN Front : Passed(j)' => Passed(j)
    BY <1>8 DEF Passed
  <2> QED
    BY <1>0, <1>2, <1>8, <2>1
<1>9. ASSUME NEW t, NEW pc, WaitFor(pc, t)
      PROVE  task'.failed = task.failed /\ task'.pc = pc /\ task'.i = task.i
             /\ UNCHANGED crashed
  <2>1. task' = [task EXCEPT !.pc = pc, !.tid = t] /\ UNCHANGED crashed
    BY <1>9 DEF WaitFor
  <2> QED
    BY <1>0, <2>1 DEF Shape
<1>10. ASSUME UNCHANGED <<termini, mctpInfoTable>>
       PROVE  TerminiStay
  BY <1>10 DEF TerminiStay
<1>11. ASSUME NEW e, NEW t \in Tids, mctpInfoTable' = storeTerminusInfo(e, t), UNCHANGED termini
       PROVE  TerminiStay
  <2>1. \A u \in Tids : termini[u] # "absent" => mctpInfoTable[u] # NONE
    BY <1>0 DEF OneToOne
  <2>2. \A u \in Tids : mctpInfoTable[u] # NONE => mctpInfoTable'[u] = mctpInfoTable[u]
    <3>1. CASE mctpInfoTable[t] = NONE
      BY <1>0, <1>11, <3>1 DEF storeTerminusInfo, TableTypes
    <3>2. CASE mctpInfoTable[t] # NONE
      BY <1>11, <3>2 DEF storeTerminusInfo
    <3> QED
      BY <3>1, <3>2
  <2> QED
    BY <1>11, <2>1, <2>2 DEF TerminiStay
<1>12. CASE NextEndpoint
  <2>1. /\ task.pc = "next"
        /\ UNCHANGED <<queuedMctpInfos, existingMctpInfos, termini, mctpInfoTable>>
    BY <1>12 DEF NextEndpoint, Runs, Step
  <2>2. CASE task.i > Len(Front)
    <3>1. /\ task' = [task EXCEPT !.pc = "snapshot",
                                  !.todo = {t \in Tids : termini[t] # "absent"}]
          /\ UNCHANGED crashed
      BY <1>12, <2>2 DEF NextEndpoint
    <3>2. task'.failed = task.failed
      BY <1>0, <3>1 DEF Shape
    <3>3. \A j \in DOMAIN Front : Passed(j)
      <4>1. Front \in Seq(Endpoints)
        BY <2>1 DEF TaskInv, QueueTypes, Front
      <4> QED
        BY <1>0, <2>2, <4>1 DEF Passed
    <3> QED
      BY <1>0, <1>2, <1>10, <2>1, <3>1, <3>2, <3>3
  <2>3. CASE InitSucceeded
    BY <1>7, <2>1, <2>3
  <2>4. CASE WaitFor("gotTid", 0)
    <3>1. /\ task'.failed = task.failed /\ task'.pc = "gotTid" /\ task'.i = task.i
          /\ UNCHANGED crashed
      BY <1>9, <2>4
    <3> QED
      BY <1>8, <1>10, <2>1, <3>1 DEF Initializing
  <2> QED
    BY <1>12, <2>2, <2>3, <2>4 DEF NextEndpoint
<1>13. CASE NextType
  <2>1. task.pc = "commands" /\ UNCHANGED <<queuedMctpInfos, existingMctpInfos>>
    BY <1>13 DEF NextType, Runs, Step
  <2>2. CASE InitSucceeded
    BY <1>7, <2>1, <2>2
  <2>3. CASE WaitFor("versions", task.tid) /\ UNCHANGED <<termini, mctpInfoTable>>
    <3>1. /\ task'.failed = task.failed /\ task'.pc = "versions" /\ task'.i = task.i
          /\ UNCHANGED crashed
      BY <1>9, <2>3
    <3> QED
      BY <1>8, <1>10, <2>1, <2>3, <3>1 DEF Initializing
  <2>4. CASE /\ task' = [task EXCEPT !.left = @ - 1]
             /\ UNCHANGED <<termini, mctpInfoTable, crashed>>
    <3>1. task'.failed = task.failed /\ task'.pc = "commands" /\ task'.i = task.i
      BY <1>0, <2>1, <2>4 DEF Shape
    <3> QED
      BY <1>8, <1>10, <2>1, <2>4, <3>1 DEF Initializing
  <2> QED
    BY <1>13, <2>2, <2>3, <2>4 DEF NextType
<1>14. ASSUME task.pc # "idle", NEW e, NEW t \in Tids, termini[t] = "absent", NEW table,
              table = mctpInfoTable \/ table = storeTerminusInfo(e, t), AskTypes(t, table),
              UNCHANGED <<queuedMctpInfos, existingMctpInfos>>
       PROVE  KeptInv'
  <2>1. CASE InitFailed(t)
    BY <1>6, <1>14, <2>1
  <2>2. CASE mctpInfoTable' = table /\ WaitFor("types", t) /\ UNCHANGED termini
    <3>1. /\ task'.failed = task.failed /\ task'.pc = "types" /\ task'.i = task.i
          /\ UNCHANGED crashed
      BY <1>9, <2>2
    <3>2. TerminiStay
      BY <1>10, <1>11, <1>14, <2>2
    <3> QED
      BY <1>8, <1>14, <3>1, <3>2 DEF Initializing
  <2> QED
    BY <1>14, <2>1, <2>2 DEF AskTypes
<1>15. ASSUME NEW tid \in TidAnswers, GotTid(tid)
       PROVE  KeptInv'
  <2> DEFINE e == Front[task.i]
  <2>1. task.pc = "gotTid" /\ UNCHANGED <<queuedMctpInfos, existingMctpInfos>>
    BY <1>15 DEF GotTid, Resumes, Step
  <2>2. CASE InitFailed(NONE)
    BY <1>6, <2>1, <2>2, TerminusManagerAssumption
  <2>3. CASE InitSucceeded
    BY <1>7, <2>1, <2>3
  <2>4. CASE /\ tid \in Tids /\ termini[tid] = "absent"
             /\ AskTypes(tid, storeTerminusInfo(e, tid))
    BY <1>14, <2>1, <2>4
  <2>5. CASE /\ mapTid(e) # NONE
             /\ mctpInfoTable' = storeTerminusInfo(e, mapTid(e))
             /\ WaitFor("setTid", mapTid(e)) /\ UNCHANGED termini
    <3>1. mapTid(e) \in Tids
      <4>1. ToTid(e) # {} => LowestTid(ToTid(e)) \in ToTid(e)
        BY LowestTidIn DEF ToTid
      <4> DEFINE free == {t \in Tids : mctpInfoTable[t] = NONE}
      <4>2. free # {} => LowestTid(free) \in free
        BY LowestTidIn
      <4> QED
        BY <2>5, <4>1, <4>2 DEF mapTid, ToTid
    <3>2. /\ task'.failed = task.failed /\ task'.pc = "setTid" /\ task'.i = task.i
          /\ UNCHANGED crashed
      BY <1>9, <2>5
    <3>3. TerminiStay
      BY <1>11, <2>5, <3>1
    <3> QED
      BY <1>8, <2>1, <3>2, <3>3 DEF Initializing
  <2> QED
    BY <1>15, <2>2, <2>3, <2>4, <2>5, Zenon DEF GotTid
<1>16. ASSUME NEW ok, SetTidDone(ok)
       PROVE  KeptInv'
  <2>1. /\ task.pc = "setTid" /\ task.tid \in Tids /\ termini[task.tid] = "absent"
        /\ UNCHANGED <<queuedMctpInfos, existingMctpInfos>>
    BY <1>0, <1>16 DEF SetTidDone, Resumes, Step, Pending
  <2>2. InitFailed(task.tid) \/ AskTypes(task.tid, mctpInfoTable)
    BY <1>16, <2>1, Zenon DEF SetTidDone
  <2> QED
    BY <1>6, <1>14, <2>1, <2>2
<1>17. ASSUME NEW ok, TypesDone(ok)
       PROVE  KeptInv'
  <2>1. /\ task.pc = "types" /\ task.tid \in Tids /\ termini[task.tid] = "absent"
        /\ UNCHANGED <<queuedMctpInfos, existingMctpInfos>>
    BY <1>0, <1>17 DEF TypesDone, Resumes, Step, Pending
  <2>2. CASE InitFailed(task.tid)
    BY <1>6, <2>1, <2>2
  <2>3. ASSUME NEW n, task' = [task EXCEPT !.pc = "commands", !.left = n],
               termini' = [termini EXCEPT ![task.tid] = "discovered"],
               UNCHANGED <<mctpInfoTable, crashed>>
        PROVE  KeptInv'
    <3>1. task'.failed = task.failed /\ task'.pc = "commands" /\ task'.i = task.i
      BY <1>0, <2>3 DEF Shape
    <3>2. TerminiStay
      BY <1>0, <2>1, <2>3 DEF TableTypes, TerminiStay
    <3> QED
      BY <1>8, <2>1, <2>3, <3>1, <3>2 DEF Initializing
  <2> QED
    BY <1>17, <2>2, <2>3, Zenon DEF TypesDone
<1>18. ASSUME NEW answered, VersionsDone(answered)
       PROVE  KeptInv'
  <2>1. /\ task.pc = "versions"
        /\ UNCHANGED <<queuedMctpInfos, existingMctpInfos, termini, mctpInfoTable>>
    BY <1>18 DEF VersionsDone, Resumes, Step
  <2>2. CASE crashed' = TRUE /\ UNCHANGED task
    BY <1>0, <1>2, <1>10, <2>1, <2>2
  <2>3. CASE task' = [task EXCEPT !.pc = "commands", !.left = @ - 1] /\ UNCHANGED crashed
    <3>1. task'.failed = task.failed /\ task'.pc = "commands" /\ task'.i = task.i
      BY <1>0, <2>3 DEF Shape
    <3> QED
      BY <1>8, <1>10, <2>1, <2>3, <3>1 DEF Initializing
  <2> QED
    BY <1>18, <2>2, <2>3, Zenon DEF VersionsDone
<1>19. CASE NextTerminus
  <2>1. task.pc = "snapshot" /\ ~crashed
        /\ UNCHANGED <<existingMctpInfos, termini, mctpInfoTable, crashed>>
    BY <1>19 DEF NextTerminus, Runs, Step
  <2> DEFINE todo == {t \in task.todo : termini[t] = "discovered"}
  <2>2. CASE todo # {}
    <3>1. /\ task' = [task EXCEPT !.pc = "request", !.todo = todo, !.tid = LowestTid(todo),
                                  !.i = 1]
          /\ UNCHANGED queuedMctpInfos
      BY <1>19, <2>2 DEF NextTerminus
    <3> HIDE DEF todo
    <3>2. task'.failed = task.failed
      BY <1>0, <3>1 DEF Shape
    <3> QED
      BY <1>8, <1>10, <2>1, <3>1, <3>2 DEF Initializing
  <2>3. CASE todo = {}
    <3> DEFINE queue == IF Kept THEN queuedMctpInfos ELSE Tail(queuedMctpInfos)
               then == IF Kept THEN AfterFailure
                       ELSE IF queue = <<>> THEN NoTask ELSE NewTask
    <3>1. queuedMctpInfos' = queue /\ task' = then
      BY <1>19, <2>3, Zenon DEF NextTerminus
    <3>2. CASE Kept
      <4>1. UNCHANGED queuedMctpInfos /\ task' = NoTask
        BY <3>1, <3>2 DEF AfterFailure
      <4>2. task'.pc = "idle" /\ task'.failed \in BOOLEAN
        BY <4>1, NoTaskFields, NewTaskNotFailed
      <4>3. \A e \in existingMctpInfos' : Found(e) # {} => Found(e)' # {}
        BY <2>1 DEF Found
      <4>4. Advances
        BY <2>1, <4>1, <4>2, <4>3 DEF Advances
      <4> QED
        BY <4>4, AdvancesKept
    <3>3. CASE ~Kept
      <4>1. task.failed = FALSE
        BY <1>0, <3>3 DEF Kept
      <4>2. /\ queuedMctpInfos' = Tail(queuedMctpInfos)
            /\ task' = IF queuedMctpInfos' = <<>> THEN NoTask ELSE NewTask
        BY <3>1, <3>3
      <4>3. /\ task'.failed = FALSE
            /\ task'.pc = "idle" \/ (task'.pc = "next" /\ task'.i = 1 /\ queuedMctpInfos' # <<>>)
        <5>1. CASE queuedMctpInfos' = <<>>
          <6>1. task' = NoTask
            BY <4>2, <5>1
          <6>2. NoTask.failed = FALSE /\ NoTask.pc = "idle"
            BY NoTaskFields, NewTaskNotFailed, Zenon
          <6> QED
            BY <6>1, <6>2, Zenon
        <5>2. CASE queuedMctpInfos' # <<>>
          <6>1. task' = NewTask
            BY <4>2, <5>2
          <6> QED
            BY <5>2, <6>1, NewTaskFields, NewTaskNotFailed
        <5> QED
          BY <5>1, <5>2
      <4> QED
        BY <2>1, <4>1, <4>2, <4>3, PoppedKept
    <3> QED
      BY <3>2, <3>3
  <2> QED
    BY <2>2, <2>3
\* initTerminus: nothing is done to the batch.
<1>20. CASE InitRequest
  <2>1. /\ task.pc = "request"
        /\ UNCHANGED <<queuedMctpInfos, existingMctpInfos, termini, mctpInfoTable, crashed>>
    BY <1>20, Zenon DEF InitRequest, Runs, Step
  <2>2. task'.failed = task.failed
    <3>1. \/ task' = [task EXCEPT !.pc = "initialized"]
          \/ task' = [task EXCEPT !.pc = InitSteps[task.i], !.e = mctpInfoTable[task.tid]]
          \/ task' = [task EXCEPT !.pc = "snapshot", !.todo = @ \ {task.tid}]
          \/ task' = [task EXCEPT !.i = @ + 1]
      BY <1>20, Zenon DEF InitRequest
    <3> QED
      BY <1>0, <3>1 DEF Shape
  <2> QED
    BY <1>8, <1>10, <2>1, <2>2 DEF Initializing
<1>21. ASSUME NEW ok, NEW answered, InitResponse(ok, answered)
       PROVE  KeptInv'
  <2>1. /\ task.pc \in {"fru", "pdr", "buffer", "receiver"}
        /\ UNCHANGED <<queuedMctpInfos, existingMctpInfos, termini, mctpInfoTable, crashed>>
    <3>1. PICK k \in DOMAIN InitSteps : Resumes(InitSteps[k])
      BY <1>21 DEF InitResponse
    <3> QED
      BY <1>21, <3>1 DEF InitResponse, Resumes, Step, InitSteps
  <2>2. task'.failed = task.failed
    <3>1. \/ task' = [task EXCEPT !.pc = "snapshot", !.e = NONE, !.todo = @ \ {task.tid}]
          \/ task' = [task EXCEPT !.pc = "request", !.i = @ + 1, !.e = NONE]
      BY <1>21, Zenon DEF InitResponse
    <3> QED
      BY <1>0, <3>1 DEF Shape
  <2> QED
    BY <1>8, <1>10, <2>1, <2>2 DEF Initializing
<1>22. CASE Initialized
  <2>1. /\ task.pc = "initialized" /\ task.tid \in Tids
        /\ termini' = [termini EXCEPT ![task.tid] = "initialized"]
        /\ task' = [task EXCEPT !.pc = "snapshot", !.todo = @ \ {task.tid}]
        /\ UNCHANGED <<queuedMctpInfos, existingMctpInfos, mctpInfoTable, crashed>>
    BY <1>0, <1>22 DEF Initialized, Runs, Step, Pending
  <2>2. task'.failed = task.failed
    BY <1>0, <2>1 DEF Shape
  <2>3. TerminiStay
    BY <1>0, <2>1 DEF TableTypes, TerminiStay
  <2> QED
    BY <1>8, <2>1, <2>2, <2>3 DEF Initializing
\* A signal that is dropped, and the end of the process
<1>23. CASE SignalDropped \/ \E current : RemovalCrashes(current)
  <2>1. /\ UNCHANGED <<termini, mctpInfoTable, queuedMctpInfos, existingMctpInfos, task>>
        /\ crashed => crashed'
    BY <1>23, NothingHandled
  <2>2. \A e : Found(e)' = Found(e)
    BY <2>1 DEF Found
  <2> QED
    BY <1>1, <2>1, <2>2
<1> QED
  BY <1>3, <1>4, <1>5, <1>12, <1>13, <1>15, <1>16, <1>17, <1>18, <1>19, <1>20, <1>21, <1>22,
     <1>23, Zenon DEF Next, SignalNext, DiscoveryNext

\* No endpoint that MctpDiscovery knows is dropped by discoverMctpTerminusTask: it has a
\* terminus or a batch of the queue names it, whatever fails, and whichever signals come,
\* at the awaits of initMctpTerminus.
THEOREM NothingForgottenHolds == Spec => []NothingForgotten
<1>1. KeptInv => NothingForgotten
  BY DEF KeptInv
<1> QED
  BY <1>1, SpecSteps, InitKept, NextKept, InvHolds, PTL
=============================================================================
