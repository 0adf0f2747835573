----------------------------- MODULE NumericSensor -----------------------------
(***************************************************************************)
(* platform-mc/numeric_sensor.cpp and the threshold events of              *)
(* event_manager.cpp: the six threshold alarms of a sensor follow both its *)
(* polled readings and the events its terminus sends, and each alarm keeps *)
(* a log entry until it is deasserted.  Readings are small integers.       *)
(***************************************************************************)
EXTENDS Integers, Sequences, SequencesExt

CONSTANTS
  Threshold,   \* [Levels \X {"high", "low"} -> Int], partial: those defined
  RawHysteresis, Resolution, Offset,  \* of the numeric sensor PDR
  Readings,    \* raw readings
  NaN,
  MaxLogFailures  \* bound: entries not created in one reading or event

VARIABLES
  pdr,         \* what the sensor was made of
  value,       \* ValueIntf::value, a number or NaN
  status,      \* available and functional
  alarms,      \* asserted <<level, direction>>
  assertedLog, \* log entries the sensor has to resolve
  normalRange, \* the last entry that was logged says that the reading is normal
  missed,      \* the last entry to be logged could not be created (history)
  expected     \* state of the last event, if the alarms were those of its
               \* previous state, otherwise 0 (history)

vars == <<pdr, value, status, alarms, assertedLog, normalRange, missed, expected>>

Levels == <<"warning", "critical", "hardShutdown">>

\* The constructor for a numeric sensor PDR, and the one for a compact PDR, in
\* which resolution and offset are NaN and do not count
NumericPdr == [resolution |-> Resolution, offset |-> Offset,
               hysteresis |-> RawHysteresis, thresholds |-> DOMAIN Threshold]
CompactPdr == [NumericPdr EXCEPT !.resolution = 1, !.offset = 0, !.hysteresis = 0]

\* setSensorUnit: counts and OEM units make a Metric, which has no thresholds.
MetricPdr == [NumericPdr EXCEPT !.thresholds = {}]

Kinds == pdr.thresholds

Init ==
  /\ pdr \in {NumericPdr, CompactPdr, MetricPdr}
  /\ value = NaN
  /\ \E disabled \in BOOLEAN : status = [available |-> TRUE, functional |-> ~disabled]
  /\ alarms = {} /\ assertedLog = {} /\ normalRange = TRUE
  /\ missed = FALSE /\ expected = 0

conversionFormula(raw) == raw * pdr.resolution + pdr.offset

\* Converted like a reading, offset included
hysteresis == conversionFormula(pdr.hysteresis)

\* createThresholdLog: the log service may throw, the sensor has no entry then.
createThresholdLog(s, k, logged) ==
  IF logged THEN [s EXCEPT !.log = @ \cup {k}, !.normal = FALSE, !.missed = FALSE]
            ELSE [s EXCEPT !.missed = TRUE]

\* createNormalRangeLog: this entry has no alarm to be resolved with.
createNormalRangeLog(s, logged) ==
  IF logged THEN [s EXCEPT !.normal = TRUE, !.missed = FALSE]
            ELSE [s EXCEPT !.missed = TRUE]

hasThresholdAlarm(s) == s.alarms # {}

Asserting(s, k, logged) ==
  createThresholdLog([s EXCEPT !.alarms = @ \cup {k}], k, logged)

Deasserting(s, k, logged) ==
  LET cleared == [s EXCEPT !.alarms = @ \ {k}, !.log = @ \ {k}]
  IN  IF hasThresholdAlarm(cleared) THEN cleared ELSE createNormalRangeLog(cleared, logged)

\* Mutant for LogsOfAlarmsOnly: a deasserted alarm leaves its log entry.
MutSetThresholdAlarm(s, k, newAlarm, logged) ==
  IF k \notin Kinds \/ (k \in s.alarms) = newAlarm THEN s
  ELSE IF newAlarm THEN Asserting(s, k, logged)
  ELSE [Deasserting(s, k, logged) EXCEPT !.log = s.log]

\* setThresholdAlarm; logged: the log service takes the entry.
setThresholdAlarm(s, k, newAlarm, logged) ==
  IF k \notin Kinds \/ (k \in s.alarms) = newAlarm THEN s
  ELSE IF newAlarm THEN Asserting(s, k, logged)
                   ELSE Deasserting(s, k, logged)

\* A sequence of <<kind, newAlarm>> applied in order; none is there twice, so
\* each has its own answer of the log service.
SetAlarms(changes) ==
  \E failed \in SUBSET {c \in ToSet(changes) : c[1] \in Kinds} :
    LET s == FoldLeft(LAMBDA t, c : setThresholdAlarm(t, c[1], c[2], c \notin failed),
                      [alarms |-> alarms, log |-> assertedLog, normal |-> normalRange,
                       missed |-> missed],
                      changes)
    IN  /\ Cardinality(failed) <= MaxLogFailures
        /\ alarms' = s.alarms /\ assertedLog' = s.log
        /\ normalRange' = s.normal /\ missed' = s.missed

checkThreshold(alarm, k, v) ==
  LET t == Threshold[k] IN
  IF k[2] = "high"
    THEN v >= t \/ (alarm /\ v >= t - hysteresis)
    ELSE v <= t \/ (alarm /\ v <= t + hysteresis)

\* updateThresholds: level by level, high before low
AllKinds == <<<<"warning", "high">>, <<"warning", "low">>,
              <<"critical", "high">>, <<"critical", "low">>,
              <<"hardShutdown", "high">>, <<"hardShutdown", "low">>>>
updateThresholds(v) ==
  SetAlarms([i \in 1..6 |->
    <<AllKinds[i], AllKinds[i] \in Kinds
                   /\ checkThreshold(AllKinds[i] \in alarms, AllKinds[i], v)>>])

updateReading(available, functional, raw) ==
  /\ status' = [available |-> available, functional |-> functional]
  /\ IF available /\ functional
       THEN /\ value' = conversionFormula(raw)
            /\ updateThresholds(conversionFormula(raw))
       ELSE /\ value' = NaN
            /\ UNCHANGED <<alarms, assertedLog, normalRange, missed>>
  /\ expected' = 0
  /\ UNCHANGED pdr

\* The operational state decides what updateReading gets.
getSensorReading ==
  \E available, functional \in BOOLEAN, raw \in Readings :
    updateReading(available, functional, raw)

\* The terminus became unavailable.
disableTerminusSensors == updateReading(TRUE, FALSE, NaN)

\* A response that does not decode
handleErrGetSensorReading ==
  /\ status' = [status EXCEPT !.functional = FALSE]
  /\ value' = NaN
  /\ UNCHANGED <<pdr, alarms, assertedLog, normalRange, missed, expected>>

-----------------------------------------------------------------------------
\* stateOrder: 1 is lower fatal, 4 normal, 7 upper fatal.
States == 1..7
Normal == 4
Kind(st) == <<Levels[IF st > Normal THEN st - Normal ELSE Normal - st],
              IF st > Normal THEN "high" ELSE "low">>

\* Mutant for EventsSettleAlarms: the state left is not deasserted.
MutPassed(prev, curr, better) ==
  IF curr = Normal \/ curr = prev THEN <<>>
  ELSE IF better THEN <<<<Kind(curr), TRUE>>, <<Kind(curr), FALSE>>>>
  ELSE <<<<Kind(curr), TRUE>>>>

\* What the loop of triggerNumericSensorThresholdEvent does at state curr
Passed(prev, curr, better) ==
  IF curr = Normal THEN <<>>
  ELSE IF better
    THEN (IF curr = prev THEN <<>> ELSE <<<<Kind(curr), TRUE>>>>)
           \o <<<<Kind(curr), FALSE>>>>
  ELSE <<<<Kind(curr), TRUE>>>>

OneSide(prev, next) ==
  LET up == prev < next
      n == IF up THEN next - prev ELSE prev - next
      better == (up /\ prev < Normal) \/ (~up /\ prev > Normal)
  IN  FlattenSeq([i \in 1..n |->
        Passed(prev, IF up THEN prev + i - 1 ELSE prev - i + 1, better)])
      \o (IF next = Normal THEN <<>> ELSE <<<<Kind(next), TRUE>>>>)

\* triggerNumericSensorThresholdEvent, split in two when it crosses normal
Triggered(prev, next) ==
  IF prev = next THEN <<>>
  ELSE IF (prev < Normal /\ next > Normal) \/ (prev > Normal /\ next < Normal)
    THEN OneSide(prev, Normal) \o OneSide(Normal, next)
  ELSE OneSide(prev, next)

\* The alarms that belong to a threshold state: its own and the milder ones
AlarmsOf(st) ==
  {Kind(x) : x \in {y \in States : (Normal < y /\ y <= st) \/ (st <= y /\ y < Normal)}}
    \cap Kinds

processNumericSensorEvent ==
  \E prev, next \in States :
    /\ SetAlarms(Triggered(prev, next))
    /\ expected' = IF alarms = AlarmsOf(prev) THEN next ELSE 0
    /\ UNCHANGED <<pdr, value, status>>

Next == \/ getSensorReading
        \/ disableTerminusSensors
        \/ handleErrGetSensorReading
        \/ processNumericSensorEvent

Spec == Init /\ [][Next]_vars

-----------------------------------------------------------------------------
\* A log entry the sensor keeps always belongs to an asserted alarm, through
\* any mix of readings, failed readings, events and failures of the log
\* service (setThresholdAlarm, assertedLog).  An entry whose resolution fails
\* is given up by clearThresholdLog and stays open in the log.
LogsOfAlarmsOnly == assertedLog \subseteq alarms

\* Who reads the logs knows whether an alarm is left, though one reading or
\* event changes several alarms one by one: the last entry says normal range
\* exactly when none is.  The exception is an entry that could not be created:
\* its creation is not tried again, so the log may be wrong until the next
\* entry (setThresholdAlarm, hasThresholdAlarm).
NormalRangeWhenNoAlarm == missed \/ (normalRange <=> alarms = {})

\* An event whose previous state is the one the alarms show leaves the alarms
\* of its new state, however many thresholds it crosses at once.
EventsSettleAlarms ==
  expected # 0 => alarms = AlarmsOf(expected)

-----------------------------------------------------------------------------
\* Inductive: only alarms of thresholds the sensor has are asserted.
NumericInv ==
  /\ alarms \subseteq Kinds /\ {normalRange, missed} \subseteq BOOLEAN
  /\ expected \in {0} \cup States
  /\ LogsOfAlarmsOnly /\ NormalRangeWhenNoAlarm /\ EventsSettleAlarms
=============================================================================
