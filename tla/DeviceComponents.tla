-------------------------- MODULE DeviceComponents --------------------------
(***************************************************************************)
(* What pldmd does towards the devices it is a requester of: PDRs, events, *)
(* sensors and effecters of a terminus, and the updates of its firmware.   *)
(***************************************************************************)
EXTENDS ComponentVariables

\* Each constant is that of a module, where it is described.
CONSTANTS
  FruParts, PdrParts, MaxUint, DeviceMayErr,        \* PdrRetrieval
  EventParts,                                       \* EventPolling
  Thresholds, RawHysteresis, Resolution, SensorOffset, Readings, NaN,
  MaxLogFailures,                                   \* NumericSensor
  Termini, PdrTables,                               \* TerminusPdrs
  StateEntries, PropertyValues, NoNumber, EffecterOffset, EffecterResolution,
  EffecterWidth, MaxPending,                        \* TerminusEffecters
  Endpoints, ItemComponents, MaxImages,             \* ItemUpdates
  Revisions, PackageDevices, PackageImages          \* FwPackage

-----------------------------------------------------------------------------
Fetch == INSTANCE PdrRetrieval WITH
  FruParts <- FruParts, Parts <- PdrParts, MaxUint <- MaxUint,
  DeviceMayErr <- DeviceMayErr,
  fru <- v1, retrieval <- v2, answer <- v3, pdrs <- v4, faults <- v5

Poll == INSTANCE EventPolling WITH
  EventParts <- EventParts, emitted <- v1, acked <- v2, poll <- v3,
  pollEvent <- v4, handled <- v5

Numeric == INSTANCE NumericSensor WITH
  Threshold <- Thresholds, RawHysteresis <- RawHysteresis,
  Resolution <- Resolution, Offset <- SensorOffset, Readings <- Readings,
  NaN <- NaN, MaxLogFailures <- MaxLogFailures, value <- v1, status <- v2, alarms <- v3,
  assertedLog <- v4, expected <- v5, pdr <- v6, normalRange <- v7,
  missed <- v8

SensorPdrs == INSTANCE TerminusPdrs WITH
  Termini <- Termini, Tables <- PdrTables, stage <- v1, terminus <- v2,
  refused <- v3

Follow == INSTANCE TerminusEffecters WITH
  Effecters <- StateEntries, Values <- PropertyValues, NaN <- NoNumber,
  Offset <- EffecterOffset, Resolution <- EffecterResolution,
  Width <- EffecterWidth, MaxPending <- MaxPending, dbus <- v1,
  propertyValue <- v2, hostOn <- v3, pending <- v4, device <- v5,
  followed <- v6

Items == INSTANCE ItemUpdates WITH
  Endpoints <- Endpoints, Components <- ItemComponents,
  MaxImages <- MaxImages, present <- v1,
  asked <- v2, descriptors <- v3, components <- v4, manager <- v5,
  package <- v6, working <- v7, served <- v8, images <- v9

Package == INSTANCE FwPackage WITH
  Revisions <- Revisions, Devices <- PackageDevices,
  ImageSizes <- PackageImages, stage <- v1, meta <- v2, file <- v3,
  result <- v4

\* The formats, descriptors and images the tool of the package accepts.
ASSUME PackageAssumption ==
  /\ Revisions \subseteq 1..4
  /\ \A d \in PackageDevices : d \in Seq([components : SUBSET Nat, length : Nat])
  /\ \A m \in PackageImages : m \in Seq(Nat)

\* A record has a part, the counters of the protocol hold every count.
ASSUME FetchAssumption ==
  /\ PdrParts \in Seq(Nat \ {0}) /\ PdrParts # <<>>
  /\ MaxUint \in Nat /\ FruParts \in Nat
  /\ Fetch!NumRecords < MaxUint
  /\ \A r \in 1..Fetch!NumRecords : PdrParts[r] < MaxUint
ASSUME PdrTablesAssumption == PdrTables \subseteq Seq(SensorPdrs!Pdr)
ASSUME EventPartsAssumption == EventParts \in Seq(Nat \ {0})
ASSUME StateEntriesAssumption ==
  /\ StateEntries \in Seq([values : Seq(Int), states : Seq(Nat)])
  /\ 2^EffecterWidth \in Nat
-----------------------------------------------------------------------------
DeviceInit ==
  /\ component \in Focus
  /\ \/ component = "fetch" /\ Fetch!Init /\ From6
     \/ component = "poll" /\ Poll!Init /\ From6
     \/ component = "numeric" /\ Numeric!Init /\ From9
     \/ component = "sensors" /\ SensorPdrs!Init /\ From4
     \/ component = "follow" /\ Follow!Init /\ From7
     \/ component = "item" /\ Items!Init /\ From10
     \/ component = "package" /\ Package!Init /\ From5

FetchStep == Only("fetch") /\ Fetch!Next /\ UNCHANGED Rest6
PollStep == Only("poll") /\ Poll!Next /\ UNCHANGED Rest6
NumericStep == Only("numeric") /\ Numeric!Next /\ UNCHANGED Rest9
SensorPdrsStep == Only("sensors") /\ SensorPdrs!Next /\ UNCHANGED Rest4
FollowStep == Only("follow") /\ Follow!Next /\ UNCHANGED Rest7
ItemsStep == Only("item") /\ Items!Next /\ UNCHANGED Rest10
PackageStep == Only("package") /\ Package!Next /\ UNCHANGED Rest5

DeviceNext ==
  \/ FetchStep \/ PollStep \/ NumericStep \/ SensorPdrsStep \/ FollowStep
  \/ ItemsStep \/ PackageStep

DeviceSpec == DeviceInit /\ [][DeviceNext]_vars

-----------------------------------------------------------------------------
\* A retrieval of PDRs that ends without error has the whole repository, and
\* the FRU table is whole or absent (getPDRs, getFRURecordTables).
WholeRepositoryRead == component = "fetch" => Fetch!WholeRepositoryRead

\* Event handlers get whole events, once and in order, wherever polls end
\* (pollForPlatformEventTask).
EventsHandledIntact == component = "poll" => Poll!EventsHandledIntact

\* An event leaves the alarms of its state, an open log entry belongs to an
\* asserted alarm, and the last log says whether an alarm is left unless one
\* could not be created (triggerThresholdEvent, setThresholdAlarm).
AlarmsFollowEvents ==
  component = "numeric" =>
    Numeric!EventsSettleAlarms /\ Numeric!LogsOfAlarmsOnly /\ Numeric!NormalRangeWhenNoAlarm

\* Every sensor of a terminus's PDRs gets its object, whatever else happens
\* between the deferred creations (addNextSensorFromPDRs).
EverySensorMade == component = "sensors" => SensorPdrs!EverySensorMade

\* An effecter of a terminus follows the D-Bus property its configuration gives
\* it, composites included, unless a change was not sent or was refused, or an
\* entry before it was left out (processHostEffecterChangeNotification,
\* parseEffecterJson).
TerminusFollows == component = "follow" => Follow!TerminusFollows

\* A device that is the only one in an update is not answered by the updater
\* of another item (AggregateUpdateManager::handleRequest).
DeviceHeardByItsUpdater ==
  [][component = "item" => Items!HeardByItsUpdater]_vars

\* The parser reads from a package what the creator meant, when the decoders of
\* libpldm take its areas (parsePkgHeader).
PackagesRead == component = "package" => Package!PackagesRead
=============================================================================
