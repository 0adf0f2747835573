CONSTANTS
  NaN = NaN
  FruParts = 2
  PdrParts <- MCPdrParts
  MaxUint = 7
  DeviceMayErr = TRUE
  EventParts <- MCPdrParts
  Thresholds <- MCThresholds
  RawHysteresis = 1
  Resolution = 1
  SensorOffset = 0
  Readings = {1, 3, 4}
  MaxLogFailures = 1
  Termini = {1, 2}
  PdrTables <- MCPdrTables
  StateEntries <- MCStateEntries
  PropertyValues = {1, 2}
  NoNumber = 99
  EffecterOffset = 0
  EffecterResolution = 2
  EffecterWidth = 2
  MaxPending = 2
  HostRecords <- MCHostRecords
  MaxHostEvents = 2
  MaxHostChanges = 2
  SensorComposite = 2
  SensorStates = {1, 2}
  MaxSensorSignals = 2
  EffecterComposite = 2
  EffecterStates = {1, 2}
  NumericWidth = 4
  Settable <- MCSettable
  Scale <- MCScale
  BiosKinds <- MCBiosKinds
  BiosValid = {1, 2}
  BiosValues = {1, 2, 3}
  BiosDefault = 1
  MaxBiosSignals = 2
  FruObjects <- MCFruObjects
  GeneratedPdrs = 2
  Lids = {"bmc", "host"}
  BmcLids = {"bmc"}
  MaxUpdates = 2
  NoImage = 0
  Slots = {1, 2, 3}
  Adapters = {1, 2}
  NoSlot = 0
  Dumps = {1, 2}
  Certs = {1, 2}
  CertSize = 2
  Numbers = {1, 2}
  ConfiguredFiles <- MCConfiguredFiles
  FileSizes <- MCFileSizes
  MinDma = 2
  MaxDma = 2
  Lengths = {1, 4}
  MaxFile = 4
  Endpoints = {1, 2}
  ItemComponents = {}
  MaxImages = 2
  ConfigEntries = {1, 2}
  MaxStrays = 2
  Revisions = {1, 2, 4}
  PackageDevices <- MCPackageDevices
  PackageImages <- MCPackageImages
  Sources = {7, 8, 254}
  Advertised <- MCAdvertised
  Registered <- MCRegistered
  TapeEntries = 3
  MctpDemux = FALSE
  MaxMessages = 3
  PcieEntries <- MCPcieEntries
  MaxVersion = 2
  DumpEntries = {1, 2, 3}
  ParameterParts = 2
  CsrHandles = {1, 2, 3}
  Focus = {"fetch", "poll", "numeric", "sensors", "follow", "host", "events",
           "effecters", "bios", "fru", "inband", "boot", "ibm", "ibmfiles",
           "fileio", "item", "softoff", "package", "daemon",
           "pcie", "resdump", "csr"}
SPECIFICATION Spec
CHECK_DEADLOCK FALSE
INVARIANT WholeRepositoryRead
INVARIANT EventsHandledIntact
INVARIANT AlarmsFollowEvents
INVARIANT EverySensorMade
INVARIANT TerminusFollows
INVARIANT UndisturbedExchange
INVARIANT HostUpToDate
INVARIANT EffectersObeyed
INVARIANT BiosValuesAgree
INVARIANT FruAndPdrsAgree
INVARIANT ImageIsWhole
INVARIANT WatchedForWhatRuns
INVARIANT HostDataInItsPlace
INVARIANT HostFetchesItsFile
INVARIANT TransfersExact
INVARIANT SuccessMeansShutdown
INVARIANT PackagesRead
INVARIANT MessagesAnsweredAndOnTape
PROPERTY DeviceHeardByItsUpdater
