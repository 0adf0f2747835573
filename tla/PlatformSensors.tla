--------------------------- MODULE PlatformSensors -----------------------------
(***************************************************************************)
(* The state sensors of the BMC as a terminus of the host:                 *)
(* libpldmresponder/platform.cpp with platform_state_sensor.hpp and        *)
(* host-bmc/dbus_to_event_handler.cpp.  The first GetPDR builds the        *)
(* repository from JSON and D-Bus, a deferred call then subscribes to the  *)
(* properties, and the host reads the sensors and is sent an event per     *)
(* property change.  One composite sensor; Other is a value that maps to   *)
(* none of its states, 0 is UNKNOWN.                                       *)
(***************************************************************************)
EXTENDS Integers, Sequences, FiniteSetsExt

CONSTANTS
  Composite,       \* composite count of the sensor
  States,          \* its possible states, none of them 0
  MaxSignals       \* bound: PropertiesChanged signals not dispatched yet

VARIABLES
  mapped,          \* D-Bus mappings of the sensor, -1 before
                   \* the PDRs are created
  listening,       \* none, deferred or on
  dbus,            \* values of the sensor's properties
  signals,         \* signals on their way: <<offset, value, the one before>>
  sensorCache,     \* sensorCacheMap of the sensor
  told,            \* per offset: last state reported to the host, 0 or Other
  misled           \* <<"lost", o>>: an event of o was lost; <<"previous", o>>:
                   \* one gave a wrong previous state (history)

vars == <<mapped, listening, dbus, signals, sensorCache, told, misled>>

Offsets == 1..Composite
Unknown == 0
Other == -1
Values == States \cup {Other}
pdrCreated == mapped # -1
Before(n) == 1..Min({n, mapped})

Init ==
  /\ mapped = -1
  /\ listening = "none"
  /\ dbus \in [Offsets -> States] /\ signals = <<>>
  /\ sensorCache = [o \in Offsets |-> Unknown]
  /\ told = [o \in Offsets |-> Unknown] /\ misled = {}

-----------------------------------------------------------------------------
\* generateStateSensorPDR and generateStateEffecterPDR stop at the first
\* composite whose D-Bus object has no service, and add no record without one.
Generated(services) ==
  Max({n \in 0..Composite : 1..n \subseteq services})

\* getPDR: the first one creates the records and defers the subscription.
GetPDR ==
  /\ ~pdrCreated
  /\ \E services \in SUBSET Offsets : mapped' = Generated(services)
  /\ listening' = "deferred"
  /\ UNCHANGED <<dbus, signals, sensorCache, told, misled>>

listenSensorEvent ==
  /\ listening = "deferred"
  /\ listening' = "on"
  /\ UNCHANGED <<mapped, dbus, signals, sensorCache, told, misled>>

PropertyChanges ==
  \E o \in Offsets, v \in Values :
    /\ v # dbus[o] /\ Len(signals) < MaxSignals
    /\ dbus' = [dbus EXCEPT ![o] = v]
    /\ signals' = IF listening = "on" /\ o \in Before(Composite)
                    THEN Append(signals, <<o, v, dbus[o]>>) ELSE signals
    /\ UNCHANGED <<mapped, listening, sensorCache, told, misled>>

\* The previous state of an event, and of a reading
previousState(o, state) ==
  IF sensorCache[o] # Unknown THEN sensorCache[o] ELSE state

\* Mutant for HostUpToDate: no event when the state is the cached one.
MutEventSent(o, v) == v \in States /\ sensorCache[o] # v

\* The callback sends an event whenever the value maps to a state.
EventSent(o, v) == v \in States

\* The match of sendStateSensorEvent and sendEventMsg, whose request may be
\* lost; the cache is updated with the previous state.
SensorSignal ==
  /\ signals # <<>>
  /\ signals' = Tail(signals)
  /\ LET o == signals[1][1]  v == signals[1][2]  prev == previousState(o, v) IN
       IF EventSent(o, v)
         THEN \E arrives \in BOOLEAN :
                /\ told' = IF arrives THEN [told EXCEPT ![o] = v] ELSE told
                /\ misled' = misled
                     \cup (IF arrives THEN {} ELSE {<<"lost", o>>})
                     \cup (IF signals[1][3] = told[o] /\ prev # told[o]
                             THEN {<<"previous", o>>} ELSE {})
                /\ sensorCache' = [sensorCache EXCEPT ![o] = prev]
         ELSE UNCHANGED <<sensorCache, told, misled>>
  /\ UNCHANGED <<mapped, listening, dbus>>

\* getStateSensorReadings with sensorRearmCnt bits set: the fields of the
\* response that were not read are whatever follows the vector.  The deferred
\* subscription has been dispatched before the next request is.
GetStateSensorReadings ==
  /\ pdrCreated /\ listening = "on" /\ mapped > 0
  /\ \E sensorRearmCnt \in 0..Composite :
       LET read == Before(IF sensorRearmCnt = 0 THEN Composite ELSE sensorRearmCnt)
           present(o) == IF dbus[o] \in States THEN dbus[o] ELSE Unknown
       IN  /\ told' = [o \in Offsets |-> IF o \in read THEN present(o) ELSE Other]
           /\ sensorCache' = [o \in Offsets |->
                IF o \in read THEN previousState(o, present(o)) ELSE sensorCache[o]]
  /\ UNCHANGED <<mapped, listening, dbus, signals, misled>>

Next ==
  \/ GetPDR \/ listenSensorEvent \/ PropertyChanges \/ SensorSignal
  \/ GetStateSensorReadings

Spec == Init /\ [][Next]_vars

-----------------------------------------------------------------------------
\* Once the signals are dispatched, what the host was last told of a sensor, in
\* an event or in a reading, is its present state, unless an event was lost or
\* the response did not hold it (sendStateSensorEvent,
\* getStateSensorReadingsHandler).
HostUpToDate ==
  \A o \in Offsets :
    signals = <<>> /\ <<"lost", o>> \notin misled
      /\ told[o] \in States /\ dbus[o] \in States
    => told[o] = dbus[o]

\* platform_state_sensor.hpp:186 "sensor cache is not empty, so get the
\* previous state from the sensor cache": when the host was told the state the
\* property had before a change, the event of the change names that state as
\* the previous one.
PreviousStateIsPrevious == \A o \in Offsets : <<"previous", o>> \notin misled

-----------------------------------------------------------------------------
\* The inductive invariant that HostUpToDate needs.
SensorTypes ==
  /\ mapped \in -1..Composite /\ listening \in {"none", "deferred", "on"}
  /\ dbus \in [Offsets -> Values] /\ told \in [Offsets -> Values \cup {Unknown}]
  /\ signals \in Seq(Offsets \X Values \X Values)

\* A state is told of the offsets whose changes are signalled, and of no other.
ToldIsWatched ==
  \A o \in Offsets : told[o] \in States => listening = "on" /\ o \in Before(Composite)

SignalsAreWatched ==
  \A i \in DOMAIN signals : listening = "on" /\ signals[i][1] \in Before(Composite)

\* The last signal of an offset on its way has the present value.
LastSignalIsPresent ==
  \A i \in DOMAIN signals :
    (\A j \in DOMAIN signals : j > i => signals[j][1] # signals[i][1])
      => signals[i][2] = dbus[signals[i][1]]

\* What no signal will correct is right.
NothingToCorrect ==
  \A o \in Offsets :
    (\A i \in DOMAIN signals : signals[i][1] # o)
      /\ <<"lost", o>> \notin misled /\ told[o] \in States /\ dbus[o] \in States
    => told[o] = dbus[o]

SensorsInv ==
  /\ SensorTypes /\ ToldIsWatched /\ SignalsAreWatched
  /\ LastSignalIsPresent /\ NothingToCorrect
=============================================================================
