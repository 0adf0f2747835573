------------------------ MODULE ResponderComponents -------------------------
(***************************************************************************)
(* What pldmd does for the host it is a responder of: the exchange of      *)
(* PDRs, sensors and effecters, BIOS attributes, FRU data, the main loop.  *)
(***************************************************************************)
EXTENDS ComponentVariables, FiniteSets

\* Each constant is that of a module, where it is described.
CONSTANTS
  HostRecords, MaxHostEvents, MaxHostChanges,       \* HostPdr
  SensorComposite, SensorStates, MaxSensorSignals,  \* PlatformSensors
  EffecterComposite, EffecterStates, NumericWidth, Settable, Scale, \* PlatformEffecters
  BiosKinds, BiosValid, BiosValues, BiosDefault, MaxBiosSignals, \* BiosConfig
  FruObjects, GeneratedPdrs,                        \* FruPdr
  Sources, Advertised, Registered, TapeEntries, MctpDemux, MaxMessages \* PldmDaemon

-----------------------------------------------------------------------------
HostPdrs == INSTANCE HostPdr WITH
  Host <- HostRecords, MaxEvents <- MaxHostEvents,
  MaxChanges <- MaxHostChanges, fetch <- v1, requests <- v2,
  collected <- v3, repo <- v4, objPathMap <- v5, available <- v6,
  sensors <- v7, host <- v8, events <- v9, crashed <- v10, unread <- v11,
  disturbed <- v12

Events == INSTANCE PlatformSensors WITH
  Composite <- SensorComposite, States <- SensorStates,
  MaxSignals <- MaxSensorSignals, mapped <- v1,
  listening <- v2, dbus <- v3, signals <- v4, sensorCache <- v5, told <- v6,
  misled <- v7

Effecters == INSTANCE PlatformEffecters WITH
  Composite <- EffecterComposite, States <- EffecterStates,
  Width <- NumericWidth, Settable <- Settable, Scale <- Scale,
  mapped <- v1, effecters <- v2, last <- v3, host <- v4

Bios == INSTANCE BiosConfig WITH
  Kind <- BiosKinds, Valid <- BiosValid, Values <- BiosValues,
  Default <- BiosDefault, MaxSignals <- MaxBiosSignals,
  tables <- v1, base <- v2, dbus <- v3, signals <- v4, fresh <- v5, mixed <- v6

Fru == INSTANCE FruPdr WITH
  Inventory <- FruObjects, Generated <- GeneratedPdrs, present <- v1, fru <- v2,
  node <- v3, repo <- v4, pdrCreated <- v5, answer <- v6, late <- v7

Daemon == INSTANCE PldmDaemon WITH
  Sources <- Sources, Capabilities <- Advertised, Handlers <- Registered,
  Entries <- TapeEntries, MctpDemux <- MctpDemux, MaxMessages <- MaxMessages,
  instance <- v1,
  tapeRecorder <- v2, index <- v3, tid <- v4, wire <- v5, requester <- v6,
  exitCode <- v7, recorded <- v8, arrived <- v9

ASSUME HostRecordsAssumption ==
  /\ HostRecords \in Seq({"tl", "assoc", "sensor", "fru"}) /\ HostRecords # <<>>
  /\ MaxHostChanges \in Nat
\* -1 and 0 stand for no state and for an unknown one.
ASSUME SensorAssumption == SensorComposite \in Nat /\ SensorStates \cap {-1, 0} = {}
ASSUME EffecterAssumption == EffecterComposite \in Nat /\ 0 \notin EffecterStates
ASSUME BiosAssumption == IsFiniteSet(DOMAIN BiosKinds)
ASSUME FruAssumption ==
  /\ FruObjects \in Seq([name : STRING, type : STRING, parent : STRING, records : Seq(Nat)])
  /\ GeneratedPdrs \in Nat
ASSUME TapeAssumption == TapeEntries \in Nat \ {0} /\ MaxMessages \in Nat

-----------------------------------------------------------------------------
ResponderInit ==
  /\ component \in Focus
  /\ \/ component = "host" /\ HostPdrs!Init
     \/ component = "events" /\ Events!Init /\ From8
     \/ component = "effecters" /\ Effecters!Init /\ From5
     \/ component = "bios" /\ Bios!Init /\ From7
     \/ component = "fru" /\ Fru!Init /\ From8
     \/ component = "daemon" /\ Daemon!Init /\ From10

HostPdrsStep == Only("host") /\ HostPdrs!Next
EventsStep == Only("events") /\ Events!Next /\ UNCHANGED Rest8
EffectersStep == Only("effecters") /\ Effecters!Next /\ UNCHANGED Rest5
\* Bound: once the host made the tables disagree (mixed), only a restart follows
BiosStep == Only("bios") /\ Bios!Next /\ (v6 => Bios!Restart) /\ UNCHANGED Rest7
FruStep == Only("fru") /\ Fru!Next /\ UNCHANGED Rest8
DaemonStep == Only("daemon") /\ Daemon!Next /\ UNCHANGED Rest10

ResponderNext ==
  \/ HostPdrsStep \/ EventsStep \/ EffectersStep \/ BiosStep \/ FruStep
  \/ DaemonStep

ResponderSpec == ResponderInit /\ [][ResponderNext]_vars

-----------------------------------------------------------------------------
\* An exchange with the host that neither the host nor the code itself cuts
\* short (the cases are listed there) reads every announced record and touches
\* live nodes only (HostPDRHandler).
UndisturbedExchange == component = "host" => HostPdrs!UndisturbedExchange

\* The host is not left with a stale sensor state (sendStateSensorEvent).
HostUpToDate == component = "events" => Events!HostUpToDate

\* A successful set has set every field, and a numeric effecter stays within
\* its settable range (setStateEffecterStates, setNumericEffecterValue).
EffectersObeyed ==
  component = "effecters" => Effecters!SuccessSetsAll /\ Effecters!NumericStaysSettable

\* The settings manager, the BIOS tables and the D-Bus properties agree
\* (setAttrValue, processBiosAttrChangeNotification).
BiosValuesAgree ==
  component = "bios" => Bios!BaseFollowsTable /\ Bios!TableFollowsDbus

\* A walk of GetPDR sees every record once, and the FRU metadata counts what
\* the table and the repository hold (getPDR, FruImpl).
FruAndPdrsAgree == component = "fru" => Fru!WalkSeesAll /\ Fru!CountsAgree

\* Each request is answered once at most and to its sender, and the flight
\* recorder holds the last messages, those the daemon sends of its own too (main,
\* processRxMsg, saveRecord).
MessagesAnsweredAndOnTape ==
  component = "daemon" => Daemon!MessagesAnsweredAndOnTape
=============================================================================
