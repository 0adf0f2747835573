--------------------------- MODULE OemComponents ----------------------------
(***************************************************************************)
(* What oem/ibm adds, and the program that shuts the host down.            *)
(***************************************************************************)
EXTENDS ComponentVariables

\* Each constant is that of a module, where it is described.
CONSTANTS
  Lids, BmcLids, MaxUpdates, NoImage,               \* InbandUpdate
  Slots, Adapters, NoSlot,                          \* IbmHost
  Dumps, Certs, CertSize, Numbers,                  \* IbmFiles
  ConfiguredFiles, FileSizes, MinDma, MaxDma, Lengths, MaxFile, \* FileIo
  ConfigEntries, MaxStrays,                         \* SoftPowerOff
  PcieEntries, MaxVersion,                          \* PcieInfo
  DumpEntries, ParameterParts,                      \* ResourceDump
  CsrHandles                                        \* CsrFiles

-----------------------------------------------------------------------------
Inband == INSTANCE InbandUpdate WITH
  Lids <- Lids, BmcLids <- BmcLids, MaxUpdates <- MaxUpdates,
  NoImage <- NoImage,
  cu <- v1, deferred <- v2, staged <- v3, dirs <- v4, child <- v5,
  images <- v6, told <- v7, host <- v8, answer <- v9

Boot == INSTANCE BootSide WITH
  file <- v1, side <- v2, image <- v3, pending <- v4, prioritySignal <- v5,
  up <- v6, kept <- v7

Ibm == INSTANCE IbmHost WITH
  Slots <- Slots, Adapters <- Adapters, None <- NoSlot, host <- v1, flags <- v2,
  survTimer <- v3, watchdog <- v4, chassisOffMatch <- v5, slot <- v6,
  pending <- v7, history <- v8

HostData == INSTANCE IbmFiles WITH
  Dumps <- Dumps, Certs <- Certs, CertSize <- CertSize, Numbers <- Numbers,
  entry <- v1, fd <- v2, opened <- v3, offload <- v4, certMap <- v5,
  issued <- v6, reused <- v7, strayed <- v8

Files == INSTANCE FileIo WITH
  Configured <- ConfiguredFiles, Sizes <- FileSizes, MinSize <- MinDma,
  MaxSize <- MaxDma, Lengths <- Lengths, MaxFile <- MaxFile, file <- v1, exists <- v2, table <- v3,
  acked <- v4, copy <- v5, answer <- v6, unnoticed <- v7

SoftOff == INSTANCE SoftPowerOff WITH
  Entries <- ConfigEntries, MaxStrays <- MaxStrays, stage <- v1,
  found <- v2, inbox <- v3, listening <- v4,
  responseReceived <- v5, completed <- v6, requestTimer <- v7,
  waitTimer <- v8, exitCode <- v9, reason <- v10, hostDown <- v11,
  strays <- v12

Pcie == INSTANCE PcieInfo WITH
  Entries <- PcieEntries, MaxVersion <- MaxVersion, file <- v1, receivedFiles <- v2,
  topologyInformation <- v3, cableInformation <- v4, sent <- v5, acked <- v6,
  done <- v7, orderly <- v8

ResDump == INSTANCE ResourceDump WITH
  Entries <- DumpEntries, Parts <- ParameterParts, entry <- v1, sourceIs1 <- v2, parameters <- v3,
  notices <- v4, serving <- v5, hostRead <- v6, trouble <- v7, orderly <- v8

Csr == INSTANCE CsrFiles WITH
  Handles <- CsrHandles, made <- v1, file <- v2, notices <- v3, wanted <- v4,
  hostRead <- v5, lost <- v6

\* 0 stands for no file, no socket and no dump.
ASSUME HostDataAssumption ==
  /\ 0 \notin Dumps /\ 0 \notin Certs /\ 0 \notin Numbers
  /\ CertSize \in Nat
ASSUME DumpAssumption == ResDump!None \notin DumpEntries /\ ParameterParts \in Nat
\* File sizes are counted, and a DMA operation moves something.
ASSUME FilesAssumption ==
  /\ ConfiguredFiles \in Seq(Files!Files)
  /\ \A f \in Files!Files : FileSizes[f] \in Nat
  /\ MinDma \in Nat \ {0} /\ MaxDma \in Nat \ {0}
  /\ Lengths \subseteq Nat /\ MaxFile \in Nat
ASSUME SlotsAssumption == Adapters \subseteq Slots /\ NoSlot \notin Slots
ASSUME InbandAssumption == MaxUpdates \in Nat
ASSUME PcieAssumption ==
  MaxVersion \in Nat /\ \A v \in 1..MaxVersion : PcieEntries[v] \in 0..2

-----------------------------------------------------------------------------
OemInit ==
  /\ component \in Focus
  /\ \/ component = "inband" /\ Inband!Init /\ From10
     \/ component = "boot" /\ Boot!Init /\ From8
     \/ component = "ibm" /\ Ibm!Init /\ From9
     \/ component = "ibmfiles" /\ HostData!Init /\ From9
     \/ component = "fileio" /\ Files!Init /\ From8
     \/ component = "softoff" /\ SoftOff!Init
     \/ component = "pcie" /\ Pcie!Init /\ From9
     \/ component = "resdump" /\ ResDump!Init /\ From9
     \/ component = "csr" /\ Csr!Init /\ From7

InbandStep == Only("inband") /\ Inband!Next /\ UNCHANGED Rest10
BootStep == Only("boot") /\ Boot!Next /\ UNCHANGED Rest8
IbmStep == Only("ibm") /\ Ibm!Next /\ UNCHANGED Rest9
HostDataStep == Only("ibmfiles") /\ HostData!Next /\ UNCHANGED Rest9
FilesStep == Only("fileio") /\ Files!Next /\ UNCHANGED Rest8
SoftOffStep == Only("softoff") /\ SoftOff!Next
PcieStep == Only("pcie") /\ Pcie!Next /\ UNCHANGED Rest9
ResDumpStep == Only("resdump") /\ ResDump!Next /\ UNCHANGED Rest9
CsrStep == Only("csr") /\ Csr!Next /\ UNCHANGED Rest7

OemNext ==
  \/ InbandStep \/ BootStep \/ IbmStep \/ HostDataStep \/ FilesStep
  \/ SoftOffStep \/ PcieStep \/ ResDumpStep \/ CsrStep

OemSpec == OemInit /\ [][OemNext]_vars

-----------------------------------------------------------------------------
\* An image assembled in-band holds each LID of its update once, and an update
\* the host was told is over is not in progress (writeFromMemory,
\* assembleCodeUpdateImage, _processStartUpdate).
ImageIsWhole ==
  component = "inband" => Inband!ImageIsWhole /\ Inband!EndMeansDone

\* An error of the surveillance follows a ping, of whatever terminus, that came
\* since the host last went off, and the last slot operation on an adapter is
\* answered for its slot, with the exceptions stated there (startStopTimer,
\* SlotHandler).
WatchedForWhatRuns ==
  component = "ibm" => Ibm!PingErrorOfThisRun /\ Ibm!SlotOperationWatched

\* Dumps and certificates the host transfers in order go where they belong,
\* unless a certificate got the number of a socket closed by a failure, and its
\* PCIe topology and cables are of one version (DumpHandler::fd,
\* CertHandler::certMap, PCIeInfoHandler::receivedFiles).
HostDataInItsPlace ==
  /\ component = "ibmfiles" => HostData!DumpToOwnSocket /\ HostData!CertToOwnFile
  /\ component = "pcie" => Pcie!TopologyOfOneVersion

\* What the host is told to fetch is there, and is what it was told of: the
\* parameters of a resource dump, which fails for its own request only, and a
\* CSR (DbusToFileHandler, DumpHandler::fileAck, CertHandler::readIntoMemory).
HostFetchesItsFile ==
  /\ component = "resdump" => ResDump!ParametersKeptApart
  /\ component = "csr" => Csr!CsrReachesHost

\* What the host believes read or written of a file is so, unless a read or a
\* write of it fell short where nothing looks (transferAll, readFile, ...).
TransfersExact == component = "fileio" => Files!TransfersExact

\* The power is cut only for a host that is off or shut down, unless the sensor
\* whose event says so was not looked up (softoff).
SuccessMeansShutdown == component = "softoff" => SoftOff!SuccessMeansShutdown
=============================================================================
