------------------------------ MODULE TerminusPdrs ------------------------------
(***************************************************************************)
(* platform-mc/terminus.cpp: what a terminus makes of its PDRs.  The       *)
(* initialization parses them in one step (platform_manager.cpp:95-119),   *)
(* registers an inventory item under the terminus' name and then creates   *)
(* one sensor per deferred event, while it awaits the answers of the       *)
(* commands that follow and while endpoints come and go.  Every object     *)
(* needs a D-Bus path of its own.                                          *)
(***************************************************************************)
EXTENDS Integers, Sequences, SequencesExt

CONSTANTS
  Termini,  \* TIDs
  Tables    \* the sequences of PDRs a terminus may answer GetPDR with

\* The name is "" where the PDR has no usable one.
Pdr == [type : {"sensorNames", "numeric", "compact", "entityNames"}, id : Nat,
        name : STRING, readable : BOOLEAN]

VARIABLES
  stage,           \* of each TID: absent, present, configuring (initTerminus
                   \* awaits the buffer size or the event receiver), removed
                   \* (erased from termini while initTerminus holds it) or
                   \* initialized
  terminus,        \* of each TID: its Terminus object
  refused          \* of each TID: sensors whose path was taken (history)

vars == <<stage, terminus, refused>>

NoSensor == [id |-> 0, name |-> <<"", "">>]

\* Terminus::Terminus
NewTerminus ==
  [terminusName |-> "", sensorAuxiliaryNamesTbl |-> <<>>, entityAuxiliaryNamesTbl |-> <<>>,
   numericSensorPdrs |-> <<>>, compactNumericSensorPdrs |-> <<>>,
   inventoryItemInft |-> FALSE, sensorPdrIt |-> 0,
   sensorCreationEvent |-> <<>>, numericSensors |-> <<>>]

Init ==
  /\ stage = [t \in Termini |-> "absent"]
  /\ terminus = [t \in Termini |-> NewTerminus]
  /\ refused = [t \in Termini |-> {}]

\* What is kept of each kind of PDR: a sequence of at most one record.
parseSensorAuxiliaryNamesPDR(p) == IF p.readable THEN <<p>> ELSE <<>>
parseNumericSensorPDR(p) == IF p.readable THEN <<p>> ELSE <<>>
parseCompactNumericSensorPDR(p) == IF p.readable THEN <<p>> ELSE <<>>
parseCompactNumericSensorNames(p) == IF p.name = "" THEN <<>> ELSE <<p>>
parseEntityAuxiliaryNamesPDR(p) == IF p.readable THEN <<p>> ELSE <<>>

\* A compact sensor without a name is not kept at all.
parsePDR(o, p) ==
  CASE p.type = "sensorNames" ->
         [o EXCEPT !.sensorAuxiliaryNamesTbl = @ \o parseSensorAuxiliaryNamesPDR(p)]
    [] p.type = "numeric" ->
         [o EXCEPT !.numericSensorPdrs = @ \o parseNumericSensorPDR(p)]
    [] p.type = "compact" /\ parseCompactNumericSensorNames(p) # <<>> ->
         [o EXCEPT !.compactNumericSensorPdrs = @ \o parseCompactNumericSensorPDR(p),
                   !.sensorAuxiliaryNamesTbl = @ \o parseCompactNumericSensorPDR(p)]
    [] p.type = "entityNames" ->
         [o EXCEPT !.entityAuxiliaryNamesTbl = @ \o parseEntityAuxiliaryNamesPDR(p)]
    [] OTHER -> o

\* The auxiliary name of the system container, 0 being its container id.
findTerminusName(o) ==
  LET i == SelectInSeq(o.entityAuxiliaryNamesTbl, LAMBDA p : p.id = 0 /\ p.name # "")
  IN  IF i = 0 THEN "" ELSE o.entityAuxiliaryNamesTbl[i].name

DefaultName(t) == "Terminus_" \o ToString(t)

InventoryNames == {terminus[t].terminusName :
                     t \in {u \in Termini : terminus[u].inventoryItemInft}}
SensorNames == UNION {{s.name : s \in ToSet(terminus[t].numericSensors)} : t \in Termini}

createInventoryPath(o) ==
  IF o.inventoryItemInft THEN o
  ELSE [o EXCEPT !.inventoryItemInft = o.terminusName \notin InventoryNames]

SensorPdrs(o) == o.numericSensorPdrs \o o.compactNumericSensorPdrs

\* Mutant for EverySensorMade: the index is not rebased for compact sensors.
MutAddNextSensorFromPDRs(o) ==
  LET n == Len(o.numericSensorPdrs) IN
  IF o.sensorPdrIt < n
  THEN [o EXCEPT !.sensorCreationEvent = <<o.numericSensorPdrs[o.sensorPdrIt + 1]>>,
                 !.sensorPdrIt = @ + 1]
  ELSE IF o.sensorPdrIt < Len(o.compactNumericSensorPdrs)
  THEN [o EXCEPT !.sensorCreationEvent = <<o.compactNumericSensorPdrs[o.sensorPdrIt + 1]>>,
                 !.sensorPdrIt = @ + 1]
  ELSE [o EXCEPT !.sensorCreationEvent = <<>>, !.sensorPdrIt = 0]

\* The numeric sensors first, then the compact ones, one deferred event each.
addNextSensorFromPDRs(o) ==
  IF o.sensorPdrIt < Len(SensorPdrs(o))
  THEN [o EXCEPT !.sensorCreationEvent = <<SensorPdrs(o)[o.sensorPdrIt + 1]>>,
                 !.sensorPdrIt = @ + 1]
  ELSE [o EXCEPT !.sensorCreationEvent = <<>>, !.sensorPdrIt = 0]

parseTerminusPDRs(t, pdrs) ==
  LET o == FoldLeft(parsePDR, terminus[t], pdrs)
      found == findTerminusName(o)
      named == [o EXCEPT !.terminusName = IF found = "" THEN DefaultName(t) ELSE found]
  IN  addNextSensorFromPDRs(createInventoryPath(named))

\* initTerminus initializes one terminus at a time.
Initializing == {t \in Termini : stage[t] \in {"configuring", "removed"}}

Found(t) ==
  /\ stage[t] = "absent"
  /\ stage' = [stage EXCEPT ![t] = "present"]
  /\ terminus' = [terminus EXCEPT ![t] = NewTerminus]
  /\ refused' = [refused EXCEPT ![t] = {}]

\* updateInventoryWithFru tries the path again and then writes the fields to
\* the item without looking whether there is one: the daemon dies.
FruLost(o, fru) == fru /\ ~createInventoryPath(o).inventoryItemInft

InitTerminus(t, pdrs, fru) ==
  /\ stage[t] = "present" /\ Initializing = {}
  /\ LET o == parseTerminusPDRs(t, pdrs) IN
     IF FruLost(o, fru)
     THEN /\ stage' = [u \in Termini |-> "absent"]
          /\ terminus' = [u \in Termini |-> NewTerminus]
          /\ refused' = [u \in Termini |-> {}]
     ELSE /\ stage' = [stage EXCEPT ![t] = "configuring"]
          /\ terminus' = [terminus EXCEPT ![t] = o]
          /\ UNCHANGED refused

\* The first entry of the table that names the sensor gives its name.
getSensorAuxiliaryNames(o, id) ==
  LET i == SelectInSeq(o.sensorAuxiliaryNamesTbl, LAMBDA p : p.id = id)
  IN  IF i = 0 THEN "" ELSE o.sensorAuxiliaryNamesTbl[i].name

getSensorNames(o, id) ==
  LET name == getSensorAuxiliaryNames(o, id)
  IN  <<o.terminusName, IF name = "" THEN "Sensor_" \o ToString(id) ELSE name>>

\* The constructor of NumericSensor throws if the path is taken, and the
\* creation goes on with the next PDR.
addSensor(t, pdr) ==
  LET o == terminus[t]
      sensor == [id |-> pdr.id, name |-> getSensorNames(o, pdr.id)]
      taken == sensor.name \in SensorNames
  IN  /\ terminus' = [terminus EXCEPT ![t] =
           addNextSensorFromPDRs(IF taken THEN o
                                 ELSE [o EXCEPT !.numericSensors = Append(@, sensor)])]
      /\ refused' = IF taken THEN [refused EXCEPT ![t] = @ \cup {pdr.id}] ELSE refused
      /\ UNCHANGED stage

addNumericSensor(t) == \E pdr \in ToSet(terminus[t].sensorCreationEvent) :
  pdr.type = "numeric" /\ addSensor(t, pdr)

addCompactNumericSensor(t) == \E pdr \in ToSet(terminus[t].sensorCreationEvent) :
  pdr.type = "compact" /\ addSensor(t, pdr)

\* The answers came; a terminus erased meanwhile is destroyed only now.
Configured(t) ==
  /\ t \in Initializing
  /\ IF stage[t] = "configuring"
     THEN stage' = [stage EXCEPT ![t] = "initialized"] /\ UNCHANGED terminus
     ELSE /\ stage' = [stage EXCEPT ![t] = "absent"]
          /\ terminus' = [terminus EXCEPT ![t] = NewTerminus]
  /\ UNCHANGED refused

RemoveMctpTerminus(t) ==
  /\ stage[t] \in {"present", "configuring", "initialized"}
  /\ IF stage[t] = "configuring"
     THEN stage' = [stage EXCEPT ![t] = "removed"] /\ UNCHANGED terminus
     ELSE /\ stage' = [stage EXCEPT ![t] = "absent"]
          /\ terminus' = [terminus EXCEPT ![t] = NewTerminus]
  /\ UNCHANGED refused

Next == \E t \in Termini :
  \/ Found(t)
  \/ \E pdrs \in Tables, fru \in BOOLEAN : InitTerminus(t, pdrs, fru)
  \/ addNumericSensor(t)
  \/ addCompactNumericSensor(t)
  \/ Configured(t)
  \/ RemoveMctpTerminus(t)

Spec == Init /\ [][Next]_vars

getSensorObject(o, id) ==
  LET i == SelectInSeq(o.numericSensors, LAMBDA s : s.id = id)
  IN  IF i = 0 THEN NoSensor ELSE o.numericSensors[i]

(***************************************************************************)
(* Once a terminus has no creation left, an event or a poll of each sensor *)
(* its PDRs describe finds a sensor object under the name the PDRs give,   *)
(* unless that path belonged to another sensor at the time: no record is   *)
(* skipped or taken twice by the walk over the two lists.                  *)
(***************************************************************************)
EverySensorMade == \A t \in Termini :
  LET o == terminus[t] IN
  o.terminusName # "" /\ o.sensorCreationEvent = <<>> =>
    /\ o.sensorPdrIt = 0
    /\ \A p \in ToSet(SensorPdrs(o)) \ {q \in ToSet(SensorPdrs(o)) : q.id \in refused[t]} :
         getSensorObject(o, p.id) = [id |-> p.id, name |-> getSensorNames(o, p.id)]
    /\ \A i, j \in DOMAIN o.numericSensors :
         o.numericSensors[i].name = o.numericSensors[j].name => i = j

\* Every FRU table finds the inventory item it is written to.
FruFindsItem == \A t \in Termini :
  terminus[t].terminusName # "" => terminus[t].inventoryItemInft

-----------------------------------------------------------------------------
\* Inductive: the walk over the two lists of a parsed terminus is at the sensor
\* whose creation is deferred, or over; every sensor before it was made under its
\* name or refused.
SensorsOf(o) ==
  Seq({[id |-> p.id, name |-> getSensorNames(o, p.id)] : p \in ToSet(SensorPdrs(o))})

Walk(o, r) ==
  /\ DOMAIN o = DOMAIN NewTerminus
  /\ o.numericSensorPdrs \in Seq(Pdr) /\ o.compactNumericSensorPdrs \in Seq(Pdr)
  /\ o.sensorPdrIt \in 0..Len(SensorPdrs(o))
  /\ o.sensorCreationEvent =
       IF o.sensorPdrIt = 0 THEN <<>> ELSE <<SensorPdrs(o)[o.sensorPdrIt]>>
  /\ o.numericSensors \in SensorsOf(o)
  /\ \A i, j \in DOMAIN o.numericSensors :
       o.numericSensors[i].name = o.numericSensors[j].name => i = j
  /\ \A j \in DOMAIN SensorPdrs(o) : o.sensorPdrIt = 0 \/ j < o.sensorPdrIt =>
       \/ SensorPdrs(o)[j].id \in r
       \/ \E i \in DOMAIN o.numericSensors : o.numericSensors[i].id = SensorPdrs(o)[j].id

SensorsInv ==
  /\ DOMAIN stage = Termini /\ DOMAIN terminus = Termini /\ DOMAIN refused = Termini
  /\ \A t \in Termini :
       IF stage[t] \in {"absent", "present"} THEN terminus[t] = NewTerminus
       ELSE Walk(terminus[t], refused[t])
=============================================================================
