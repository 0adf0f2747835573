# Verification of openbmc/pldm

TLA+ models of the PLDM daemon of OpenBMC, checked with TLC, and proofs about
them checked with TLAPS. The models are translated from the C++ sources; every
definition's source lines are in `PROJECT.json` under `map`.

## The system

`pldmd` is one process with one sdeventplus event loop on one thread. It talks
PLDM over MCTP to other management controllers ("termini"), as a responder (it
answers the requests of a host) and as a requester (it discovers termini, reads
their sensors and events and updates their firmware). Nothing runs in parallel:
all concurrency is between callbacks of the event loop, and between coroutines
that are suspended at a `co_await` and resumed from such a callback. A step of
every model here is one callback, cut only at a point where other code of the
daemon runs before it returns.

| Component | State it keeps | Operations | What is hard | What makes it correct |
|---|---|---|---|---|
| Requester (`requester/handler.hpp`, `request.hpp`, `common/instance_id.hpp`) | per endpoint a deque of requests and the flag `activeRequest`; `handlers` by (eid, instance id, type, command); `removeRequestContainer`; two timers per request; the instance id database | registerRequest, pollEndpointQueue, handleResponse, instanceIdExpiryCallBack, removeRequestEntry, unregisterRequest, retransmission, the coroutine wrapper SendRecvMsgOperation | a response that races the expiry, deferred removal, handlers that register requests themselves, cancellation at any time, sends that fail, silent responders | one request at a time per endpoint, in order; each request completes once; ids neither leak nor are freed twice; every accepted request is answered |
| Firmware update agent (`fw-update/update_manager.cpp`, `device_updater.cpp`, `activation.cpp`, `update.cpp`) | the activation object, one DeviceUpdater per device (component index, component status, one deferred request, one timer), the completion map | package processing, activation, deletion; responses to five requests; four requests made by the device; data timeout | two state machines, the agent's and the device's, that must agree on the current component; devices that report while others still work; packages replaced at any time | the image served is of the component the device updates; Active means updated; a verdict is final; every activation ends |
| Package parser (`fw-update/package_parser.cpp`) | the records it read | parse, parsePkgHeader, validatePkgTotalSize | lengths and offsets that do not add up; the tool that writes packages fills them in afterwards | what the tool meant is what is read; a damaged package is refused |
| Firmware inventory (`inventory_manager.cpp`, `aggregate_update_manager.cpp`, `item_update_manager.cpp`, ...) | descriptor and component maps by endpoint; an ItemUpdateManager per item | discoverFDs, removeFDs, two response handlers, updates of one item | responses after the removal of their device; managers erased while they update; requests offered to every manager | entries belong to devices; a device is served by its own updater |
| MCTP discovery (`requester/mctp_endpoint_discovery.cpp`) | `existingMctpInfos` | InterfacesAdded/Removed, Connectivity changes | signals in any order, duplicates | its endpoints are those on D-Bus, each handed on once |
| Terminus manager (`platform-mc/terminus_manager.cpp`) | `tidPool[256]`, transport and MCTP tables, availability, `termini`, a queue of batches and one task | discoverMctpTerminus(Task), initMctpTerminus, removeMctpTerminus, mapTid, storeTerminusInfo, unmapTid | removal between two awaits, a failing batch at the front of the queue, TIDs a terminus already has | TIDs and endpoints are one to one; no queued batch is forgotten |
| Terminus (`terminus.cpp`) | PDRs, names, sensors, a Defer source | parseTerminusPDRs, addNextSensorFromPDRs, FRU update | sensors made one per event while endpoints go; colliding names | every readable sensor PDR gets its sensor |
| Platform manager (`platform_manager.cpp`) | per terminus: initialized, PDRs, FRU | initTerminus, getPDRs, getFRURecordTables, event receiver configuration | multi-part transfers, limits computed from earlier responses, lost responses | all records are fetched once and in order, or none |
| Sensor manager (`sensor_manager.cpp`, `numeric_sensor.cpp`) | per TID: timer, task, round-robin queue, availability; per sensor: value, alarms, logs | startPolling, stopPolling, doSensorPolling(Task), getSensorReading, thresholds | stopping a task that waits for a response; readings and events that both change alarms | each sensor gets its turn; no task of a stopped TID goes on; alarms, logs and events agree |
| Event manager (`event_manager.cpp`) | handlers of event classes | handlePlatformEvent, pollForPlatformEventTask | multi-part event data, acknowledgement, loss | handlers get whole events, once, in order |
| Terminus effecters (`dbus_to_terminus_effecters.cpp`) | D-Bus values last passed on | property changes to SetStateEffecterStates and SetNumericEffecterValue | host down, refused requests, composites, width of the value | the effecter has the value of its property |
| Host PDR exchange (`host-bmc/`) | the merged repository, pending handles, entity tree nodes, sensor caches | fetchPDR, processHostPDRs, host power state, sensor events | the host powering off or announcing changes in the middle | an undisturbed exchange reads all that was announced; the host is not left with an old sensor state |
| Responder (`libpldmresponder/`) | PDR repository, BIOS tables, FRU table, effecters | one handler per command | tables built lazily by whichever command comes first; one datum in three places | paging returns every record; BIOS tables, settings manager and D-Bus agree; a successful set has set everything |
| `softoff/` | timers, response and event flags | request, host event, timeouts | they race, with stray messages | the power is cut only for a host that is down |
| `pldmd/`, `common/` | flight recorder, transport, TID of the last sender | receive, dispatch, answer | one TID variable for all messages; the ring's boundary | one answer per request, to its sender |
| `oem/ibm/` | in-band update state, boot side file, host surveillance, slot operations, static descriptors and maps of file transfers | effecters and sensors of the platform, file I/O by handle or by type, D-Bus signals | a forked process, files that outlive the daemon, one static variable for many transfers | images are whole; files hold what the host was told; timeouts speak of what runs |
| `oem/meta`, `oem/ampere`, `oem/nvidia` | | event translation | | |
| `pldmtool/`, `utilities/`, `tools/`, `configurations/` | none: command line clients and data | | | |

How they interact: MCTP discovery calls the terminus manager and the inventory
manager; these, the platform, sensor and event managers and every DeviceUpdater
send through the one requester `Handler`, by callback (`registerRequest`) or by
coroutine (`sendRecvMsg`); `pldmd.cpp` gives it the responses, and gives the
requests of other endpoints to the responder, to `UpdateManager::handleRequest`
or to an OEM handler. Apart from that, and from the PDR repository that the
responder and `host-bmc` share, components keep their state to themselves.

## Modules

| Module | Content |
|---|---|
| `Requester`, `RequestService`, `MCRequester` | the requester, what it promises abstractly, instances |
| `FirmwareUpdate`, `MCFirmwareUpdate` | UpdateManager, Activation and DeviceUpdaters with the firmware devices |
| `TerminusManager` extends `SensorManager`; `MCTerminusManager` | MCTP discovery, terminus manager, platform manager and sensor polling, composed over their shared tables |
| `PdrRetrieval`, `EventPolling`, `NumericSensor`, `TerminusPdrs`, `TerminusEffecters` | the rest of `platform-mc/` |
| `HostPdr`, `PlatformSensors` | `host-bmc/` with the handlers of `libpldmresponder/platform.cpp` that call it |
| `PlatformEffecters`, `BiosConfig`, `FruPdr` | the rest of `libpldmresponder/` |
| `FwPackage`, `ItemUpdates` | package parser; firmware inventory and updates of items |
| `InbandUpdate`, `BootSide`, `IbmHost`, `IbmFiles`, `FileIo`, `PcieInfo`, `ResourceDump`, `CsrFiles` | `oem/ibm/` |
| `SoftPowerOff`, `PldmDaemon` | `softoff/`; `pldmd/` with the flight recorder and the transport |
| `DeviceComponents`, `ResponderComponents`, `OemComponents` over `ComponentVariables`; `MCComponents` | instances of the modules from `PdrRetrieval` on, in three groups; instance of all three for TLC |
| `RequesterProofs`, `FirmwareUpdateProofs`, `TerminusManagerProofs`, `TerminusTaskProofs`, `DeviceProofs`, `ResponderProofs`, `OemProofs` | theorems and proofs, see below |
| `FoldInduction` | induction over naturals and folds, used by the last three |

### Requester

The variables have the code's names where it has one (`queue` is `requestQueue`,
`allocated` the ids in use in libpldm's database). A request is a model value,
made once; its destination is the constant `Dest`, its instance id is chosen from
the free ones. `RequestKey` is then (endpoint, id); that no two live requests
share one is proved (`IdsAccountedFor`). Each operation is an action.
`handleResponse` and `instanceIdExpiryCallBack` call the response handler in
their middle, so each is two actions with the call in between (`answering`,
`expiring`): while it runs the event loop dispatches nothing, but the handler
(typically a coroutine that resumes there) may allocate, register and cancel.
`pollEndpointQueue` is an operator that the actions of its callers contain.
It sends the front of the queue or, with `TransportMayFail`, drops it, as it
also does when a timer cannot be started. The time is abstract: any armed timer
may fire at any time, whatever the other timers did.

Cancellation (`MayStop`, `UnregisterActive`, `UnregisterQueued`,
`UnregisterUnknown`) is possible for the requests in `Cancellable`, from when
the stop callback is installed until `onComplete` resets it. Unregistering a
request that is still queued is undefined behaviour (below) and ends the
model's process (`crashed`); nothing is claimed of what follows.

Not in the model: the contents of messages; allocation fails by not being
enabled; the reuse of the request objects by their callers.

`RequestService` has three variables per endpoint and request (phase, waiting
line, the request on the wire) and four actions. `Requester` implements it under
the mapping `servicePhase`, `queue`, `serviceWire`: an entry whose removal is
deferred serves nobody, one whose response handler is running still holds the
wire. `FirmwareUpdate` relies on these promises: it has a line of requests per
device, answered in order, each called back once.

### FirmwareUpdate

`updater[d]` are the fields of d's DeviceUpdater that decide what it does,
`requests[d]` what it registered and was not called back for, `fd[d]` the device
with the states of the PLDM firmware update specification (external: the model
fixes what it may do). One action per response handler, one per request of the
device, `SendDeferred` for the three senders run by the Defer source (there is
one Defer slot, so a later request replaces an earlier one), `RequestFwDataTimeout`
for the timer. The handlers have the same early returns for a missing, an
undecodable and a failed response, which are one outcome; the device may have
carried out the request even so. What is processed when a package arrives
(parsing, matching) is one choice: the set of devices that match, or none.

`orphans` counts the requests whose DeviceUpdater was destroyed when the package
was replaced: the oldest `orphans[d]` requests of d. Their callback has a
dangling `this`; `OrphanCallback` then ends the model's process.

Two history variables serve the properties: `outcome`, what became of each
component, and `outOfTurn`, the devices of which a message was handled out of
turn: an ApplyComplete sent twice (its response was lost), or a message of a
device that is still in the update of an earlier package. A repeated ApplyComplete
is handled as another completion, so the agent skips a component. The code keeps
the safety properties for the other devices only, so these are excluded, and the
two cases are listed as hazards.

The constants `SendMayFail`, `FDMayReset`, `LossyLink` and `SlowRequests` switch
the faults on. `SlowRequests` lets a request be pending for as long as the data
timer runs. In the code a request is called back after the instance id expiry (5 s,
`handler.hpp:142`) and the timer runs for 60 s (`device_updater.hpp:335`), so the
timer that an earlier component left running does not fire between a request and
its response. With `SlowRequests` TRUE `ActivatesSomethingNew` does not hold:
only these two intervals protect it.

### TerminusManager with SensorManager

The tables of the terminus manager are one function, `mctpInfoTable`: a TID is
taken in `tidPool`, has a transport layer and an endpoint all at once (`mapTid`
writes the three together). `task` is `discoverMctpTerminusTask` with the frames of
the coroutines it called; every `co_await` of `initMctpTerminus`, `initTerminus`
and `doSensorPollingTask` is a place where the model stops (a value of `pc`), and
`running` says which coroutine is executing, so that no event is dispatched in
between. Signals of mctpd arrive in `signals` and are handled in order;
`MctpDiscovery` turns them into `discoverMctpTerminus`, `removeMctpTerminus` and
`updateMctpEndpointAvailability`. A terminus answers or not; GetTID answers any TID,
also one that another endpoint has. What the answers say beyond that is left out;
`PdrRetrieval`, `EventPolling` and `TerminusPdrs` have it.

`initMctpTerminus` uses `termini[tid]` after each await. When
`removeMctpTerminus` erased the entry meanwhile, `operator[]` makes a null pointer
that is dereferenced: the model's process ends (`crashed`), and nothing is claimed
of what follows. It also ends when a removal calls `stop()` on the null pointer that
`operator[]` of `startSensorPollTimer` leaves in `sensorPollTimers` for a terminus
without a round-robin entry (`RemovalCrashes`, `sensor_manager.cpp:92-94`). A removal
looks up what D-Bus has, of which any endpoint may be unreadable
(`RemoveEndpoints(current)`), and a Connectivity signal is dropped when its endpoint
cannot be read (`SignalDropped`). `age` is a history variable: turns since a sensor
had its own.

### The rest of platform-mc

* `PdrRetrieval`: `getFRURecordTables`, then `getPDRs`; the locals that a response
  sets by reference (`answer`) keep the values of the last response, as in the
  code. Numbers are those of a machine with `MaxUint` as the largest.
* `EventPolling`: the loop of `pollForPlatformEventTask`, an action per outcome of
  a request; the terminus is external and forgets an event once acknowledged.
* `NumericSensor`: readings, failed readings, disabling, and threshold events; a
  sensor is made from a numeric or a compact PDR and may be a metric. Alarms
  change one by one, in the order of `updateThresholds` and of the threshold states
  an event passes. The hysteresis goes through `conversionFormula` like a reading,
  so an offset of the PDR is added to it, as in the code. The log service may
  refuse an entry, which the code catches and does not repeat: the sensor then has no
  entry to resolve, or the log no normal range entry (`missed`).
* `TerminusPdrs`: parsing the PDRs, the terminus' name, and one sensor per deferred
  event, for two termini whose objects need D-Bus paths of their own. A terminus
  removed while `initTerminus` holds it goes on creating sensors ("removed").
* `TerminusEffecters`: a composite state effecter entry, one that
  `parseEffecterJson` leaves out, and a numeric one with its cached value. The code
  takes an effecter's position in what is left for its position in the composite, so the
  requests of those after one left out go to the effecter before (`Described` is the
  configuration's assignment); the conversion to an unsigned type too small for the value is undefined behaviour and
  yields any value.

### Responder and host-bmc

* `HostPdr`: GetPDR requests and their callbacks, the Defer sources, the merge
  into the repository, the tree nodes behind `objPathMap` (live, null or junk), the
  sensors' readings and the FRU request, with repository change events and power
  offs at any point (`MaxEvents`). An event has several change records
  (`MaxChanges`), of which the last decides, and one may be refused after an earlier one
  set `isHostPdrModified`. A node may not be found when an association is merged.
* `PlatformSensors`: one composite sensor, its cache, the signals of its
  properties and the host's readings.
* `PlatformEffecters`: SetStateEffecterStates field by field with a D-Bus failure
  at any field; SetNumericEffecterValue and GetNumericEffecterValue with the
  conversion of both directions.
* `BiosConfig`: the string, attribute and value tables, `BaseBIOSTable`, the
  D-Bus properties, and their late notifications (`MaxSignals`). An attribute has
  one kind; an integer may be put out of its bounds by a property change. Pending
  attributes are set one after the other, each of which D-Bus may refuse.
* `FruPdr`: the FRU table, the entity tree and the repository, built by whichever
  command comes first; the inventory may not answer. `late` marks the case that the
  FRU table is built after the first GetPDR: `FruImpl` then counts record handles from
  where the platform's PDRs began, and the walk misses records.

### Firmware packages and items

* `FwPackage`: the creator tool step by step, then a file possibly cut or damaged,
  then the parser. Strings, descriptors and images are their lengths, the checksum
  of some bytes stands for those bytes. The tool writes format revisions 1 to 4, the
  parser takes revision 1 only. The decoders of libpldm may refuse a device described
  by nothing and an image of no bytes (`MayNotDecode`); the parser also refuses a package all of whose images are
  empty, and does not compare the applicable-component bits with the number of
  components (the property says what remains true).
* `ItemUpdates`: the two queries of `InventoryManager` and their answers at any
  time, `AggregateUpdateManager` with the managers of items in the order of their
  map, and `ItemUpdateManager` from startUpdate to its end. `updateDeviceCompletion`
  destroys the DeviceUpdater from inside a method of it
  (`device_updater.cpp:735-737`); a failing `dup()` leaves `updateInProgress` set
  for ever (`item_update_manager.cpp:93`). `ProcessPackage` joins startUpdate's Defer
  with what follows: sd-event dispatches a pending Defer before it reads the next D-Bus
  message, so nothing of the item comes in between.

### OEM IBM

* `InbandUpdate`: the host's START, LID writes (by message or DMA, two chunks
  a LID, the last of them repeated when its answer was lost), END or ABORT; the
  forked child in four steps, each of which may fail, concurrent with the daemon and
  the next update, and a second one when the host closes its update again; the
  software manager's image objects. The child clears its own copy
  of `codeUpdateInProgress`; a retry of the last DMA chunk leaves a hole in the LID.
* `BootSide`: the stored record, the two sides, the BIOS attribute and the
  Priority of the images.
* `IbmHost`: the surveillance timer and heartbeats, the power cycle, and the slot
  operations with their one timer and one match. A heartbeat of another terminus
  starts the surveillance timer too, a second operation takes the place of the one
  under way, and a slot without an adapter becomes the current one. `hostOff` stays TRUE when pldmd
  restarts beside a running host (`oem_ibm_handler.hpp:488`).
* `IbmFiles`: dumps (one static socket descriptor) and signed certificates (one
  static map), over one table of descriptor numbers: a failed write closes the socket
  and `DumpHandler::fd` keeps its number, which the next file opened may get. `PcieInfo`: topology and cables (static flags and caches, lost in a
  restart). `ResourceDump`: the parameters of resource dumps (one file for all) up to
  the acknowledgement. `CsrFiles`: signing requests.
* `FileIo`: the four file commands and the two by type, cut into DMA operations of
  which the k-th may fail, against a host that goes on where an answer says the last
  piece ended. Reads and writes may fall short: the code looks at none of them (it
  tests a DMA write for -1 only) and answers SUCCESS for the whole length
  (`unnoticed`). The table is cleared when the host goes off (`HostOff`).

### SoftPowerOff and PldmDaemon

`SoftPowerOff` is the whole process from its constructor to its exit code. If no
entry of the configuration has an effecter, `effecterID`, `sensorID` and
`sensorOffset` are never set (`softoff.cpp:64-89`): any event may then match
(`OtherSensorEvent`), and SuccessMeansShutdown excepts it. `PldmDaemon` is `main` of `pldmd.cpp`: start, one message at a time
through `recvMsg`, `processRxMsg` and `sendMsg`, requests of its own on the flight
recorder, and the socket's loss; the base
handler is modelled whole, other handlers by which commands they register. A
command the base handler advertises and nobody registers (PLDM_SET_EVENT_RECEIVER,
PLDM_GET_SENSOR_READING) is answered ERROR_UNSUPPORTED_PLDM_CMD.

### The components of DeviceComponents, ResponderComponents and OemComponents

The modules from `PdrRetrieval` on share no state in the code, so running them
side by side would only multiply their states. Three modules instantiate them on
the same variables `v1` to `v12` of `ComponentVariables`: `DeviceComponents` (what
pldmd does towards termini and firmware devices), `ResponderComponents` (what it
does for its host, and the daemon itself), `OemComponents` (`oem/ibm/` and
`softoff/`). The variable `component`, chosen at the start among `Focus`, says whose
behaviour this is, and every property is guarded by its component. `MCComponents`
takes the three together and gives their constants values: its one run explores
the sum of the state spaces. `BootSideForgotten` and `ItemRequestsMisrouted` run their
module alone. They have no variable for time: a timer that is armed may fire.

## Runs

| Run | Instance | Properties | States |
|---|---|---|---|
| Requester | endpoint e1 with r1, r2 (cancellable), r3; e2 with r4; 3 ids; sends may fail | OneOutstanding, IdsAccountedFor, CompletedOnce, ImplementsService | 262,240 |
| RequesterReliable | e1 with three requests, 2 ids, one retransmission; sends do not fail; fair | TypeOK, NoStrandedRequest, RetryOnlyWhileOutstanding, EveryRequestAnswered | 19,443 |
| RequesterLoss | violation | EveryLossReported | |
| RequesterUnregister | violation | UnregisterReturns | |
| FirmwareUpdate | one device, three components, all faults but SlowRequests | TypeOK, ServesRightComponent, ActivatesSomethingNew | 125,689 |
| FirmwareUpdateTwo | two devices, one component each, all faults | ActiveMeansUpdated, OutcomeStable | 1,381,271 |
| FirmwareUpdateConcludes | two devices, two components and one, no faults; fair | UpdateConcludes | 455,916 |
| FirmwareUpdateReplaced | violation | ReplacedOnlyWhenDone | |
| TerminusManager | two endpoints, two TIDs, two sensors each, two signals of mctpd; fair | TypeOK, TidsAccountedFor, NothingForgotten, PolledOnlyWhileManaged, NoStrandedPoll, SensorsTakeTurns, DiscoveryConcludes | 247,767 |
| Components | each component of the three groups | one or two each, 19 in all | 1,341,138 |
| BootSideForgotten | violation | BootSideRemembered | |
| ItemRequestsMisrouted | violation | RequestsReachTheirUpdater | |

What the properties of the run Components say:

| Property | Of | It says |
|---|---|---|
| WholeRepositoryRead | PdrRetrieval | a retrieval without error has every record once, in order, whole; a failed one has none |
| EventsHandledIntact | EventPolling | handlers get whole events, each at most once, in order, acknowledged |
| AlarmsFollowEvents | NumericSensor | an event leaves the alarms of its state, the log entries a sensor keeps belong to alarms, the last entry says normal range exactly when no alarm is left |
| EverySensorMade | TerminusPdrs | every readable sensor PDR has its sensor with its name |
| TerminusFollows | TerminusEffecters | the effecter that the configuration names has the value of its property once what was sent is answered well |
| UndisturbedExchange | HostPdr | an exchange that was not cut short reads all that was announced and uses live nodes |
| HostUpToDate | PlatformSensors | the host is not left with an old state of a sensor |
| EffectersObeyed | PlatformEffecters | a successful set has set every field; the numeric property stays settable |
| BiosValuesAgree | BiosConfig | table and settings manager agree, and table and D-Bus for what was last written there |
| FruAndPdrsAgree | FruPdr | walking the handles meets every record once; the metadata counts what is there |
| ImageIsWhole | InbandUpdate | an image of an undisturbed update has each LID of that update, whole; END and ABORT end an update |
| WatchedForWhatRuns | IbmHost | a ping error follows a ping since the host went off; the last slot operation on an adapter is answered for its slot, and no time-out follows that answer |
| HostDataInItsPlace | IbmFiles, PcieInfo | dumps and certificates of an orderly host go where they belong; topology and cables are of one version |
| HostFetchesItsFile | ResourceDump, CsrFiles | the host reads the parameters, or the request, it was told of |
| TransfersExact | FileIo | what the host believes written is in the file, what it read was in it |
| SuccessMeansShutdown | SoftPowerOff | exit code 0 only for a host that is off or said that it shut down |
| PackagesRead | FwPackage | the parser reads what the tool meant and refuses damage; it takes intact packages that libpldm decodes |
| MessagesAnsweredAndOnTape | PldmDaemon | one answer per request, to its sender, in order; the recorder holds the last messages, own requests included |
| DeviceHeardByItsUpdater | ItemUpdates | a device that is alone in an update is not answered by another item's updater |

Where the code does not keep what a reader would expect, the property excepts the case,
its comment says so, and it is listed here:

| Property | Says nothing of |
|---|---|
| PolledOnlyWhileManaged, NothingForgotten | what follows a null pointer that ended the process (`terminus_manager.cpp:409`, `sensor_manager.cpp:94`) |
| AlarmsFollowEvents | the last log entry when one could not be created (`numeric_sensor.cpp:1053`, `1072`); entries whose resolution failed |
| TerminusFollows | changes that were not sent or were refused (`dbus_to_terminus_effecters.cpp:385`); the effecters of a composite after a malformed entry (line 164) |
| UndisturbedExchange | exchanges that are cut short, in the ways the definition lists: an event or a power off during them, a lost response, handles left in a list at the last record (`host_pdr_handler.cpp:672`), a terminus locator that is known (602) or invalid with the host down (651), a last record among the modified ones (704), an event that mixes deletions with others or is refused half-way (`platform.cpp:577-587`), associations collected before a power off, or one whose container is not found after it (293) |
| FruAndPdrsAgree | a walk when the FRU table was built after the first GetPDR |
| EffectersObeyed | the fields set before one that fails: they keep their new state |
| BiosValuesAgree | tables the host itself made disagree |
| ImageIsWhole | images of a disturbed update: one begun while the last was at work or had left files, or closed twice |
| WatchedForWhatRuns | whose ping it was (`oem_ibm_handler.cpp:973-981`); operations that another replaced; the slot a time-out names after a slot without an adapter was named |
| HostDataInItsPlace | transfers of a host that does not finish one before the next; what happens once a certificate was opened under the number `DumpHandler::fd` kept (`file_io_type_dump.cpp:198-203`) |
| HostFetchesItsFile | several resource dumps at a time; which entry an acknowledgement reaches |
| TransfersExact | files of which a read or write fell short (`file_io.cpp:235`, `700-705`, `791-797`) |
| SuccessMeansShutdown | configurations without an effecter or sensor offset (`softoff.cpp:64-99`, `145`) |

Bounds. Three requests for an endpoint give one outstanding, one expired and
waiting for its removal, and one queued; two queued behind one show order. The
second endpoint has a handler that runs while the first is busy. Fewer ids than
requests make ids be reused while their earlier owner is just gone. Every request
is made once; the Handler keeps nothing about a request that is gone except the
freed id, so more of them only repeat this. Three components are a first, a middle
and a last one, which the code tells apart; two devices let one report early, late
or twice while the other works. `MaxRequests` bounds the requests that wait for
a device (`Register` is disabled beyond it); 3 covers a cancellation, the request
it overtook and one of the updater destroyed before.

`TerminusManager`: two endpoints compete for two TIDs, and one is known at the
start, so that batches queue while one is worked on; `MaxSignals` = 2 lets an
endpoint go and come back, or one go while the other comes, at any await;
`MaxTypeRequests` bounds the version and command requests per terminus, which
differ in nothing but the type.

`Components`: records and events of 1, 3 and 2 parts have a first, a middle and a
last part or are one; `MaxUint` = 7 is above every count. `MaxEvents` = 2 (HostPdr) is a
second announcement during the first exchange, or a power off; `MaxChanges` = 2 is an
operation overruled by the next in one event. `MaxLogFailures` = 1 (sensors) is one entry
lost per reading or event. `MaxSignals` = 2
(sensors, BIOS) is one notification overtaken by another change. `MaxUpdates` = 2
(in-band) is an update begun while the child of the last one works; what a third finds
is in the proof only. END is repeated in the last update only, and if that was
undisturbed (`EndsAgain`). `MaxImages` = 2 (items) is one more package while another is
used. `MaxPending` = 2 (effecters) is a second request before the first is answered. `MaxStrays` = 2 and
two configuration entries (soft off); the code treats further ones alike.
`MaxMessages` = 3 with a recorder of 3 entries wraps around, because an answered
request makes two records. `MaxFile` = 4 and DMA operations of 2 give two pieces;
lengths 1 and 4 are below a piece and beyond the end; a file has one short read or
write in its life, since nothing is claimed of it afterwards. `Numbers` = 2 descriptors
are a socket and a certificate, or either and one that is left open; the daemon sends a request of its
own while the recorder has seen fewer than `MaxMessages` records. `MaxVersion` = 2 (PCIe) is a
shorter topology after a longer one. Three resource dumps are one under way, one
refused and the next. For BIOS, once the host itself has made its tables disagree
(`mixed`) the run follows only a restart: nothing is claimed of the rest.

Deadlock checking is off: the models may stop, once every request was made, the
package parsed, the process ended or a bound is reached.

Fairness. `Requester`: a response handler that was called returns; the event loop
gets to a timer or a deferred event that is due infinitely often (strong fairness,
since other callbacks disable it for a while). Responders are not fair at all.
`FirmwareUpdate`: every request is called back, which is `EveryRequestAnswered`;
deferred requests are sent; a device that downloads, verifies or applies ends
that phase, well or badly. That last assumption is about the device. The code
has no timer for a device that falls silent outside the transfer, nor for one
that never starts it, and a failed `registerRequest` leaves the activation
Activating for ever, so `UpdateConcludes` is checked without these faults, and
the hazards list them. `TerminusManager`: the event loop handles the signals it was
sent and a resumed coroutine runs on (weak fairness of `SignalNext` and
`SensorStep`), and every request of the discovery concludes, answered or not, though
polling coroutines run in between (strong fairness of `DiscoveryNext`); that is
`EveryRequestAnswered` again. `DiscoveryConcludes` says that the coroutine ends, not
that the queue is empty: a batch that failed stays queued until the next signal.
`PdrRetrieval` and `EventPolling` state the fairness of a standalone run; the run
Components checks safety only.

### Disagreements with the documentation

* RequesterLoss: `pollEndpointQueue` drops a queued request that cannot be sent;
  nobody tells its owner, although the class comment promises an empty response
  on "any other failure". r1 is outstanding, r2 queued; when r1 ends, sending r2
  fails. A coroutine waiting for r2 never resumes.
* RequesterUnregister: `unregisterRequest` searches a copy of the deque and
  erases from the original with the copy's iterator.
* FirmwareUpdateReplaced: a failure is reported before the component is cancelled,
  so the activation no longer counts as in progress and the DeviceUpdater can be
  destroyed with its cancellation outstanding.
* BootSideForgotten: `readBootSideFile` returns an empty record, whatever it read.
* ItemRequestsMisrouted: the request of a device is served by the first item that
  updates anything.

Other statements of comments that the code does not keep are definitions of the
modules, each with the comment it quotes, and are in no run: `RemovalIsSurvived`
(`platform_manager.cpp:21-24`; `terminus_manager.cpp:395-441` uses an entry that was
erased), `TimerMeansRoundRobin` (`sensor_manager.cpp:37`), `FetchesAllPDRs`
(`platform_manager.hpp:42-46`; an error completion code of GetPDRRepositoryInfo or
GetPDR is taken for success), `HostNodesAreLive` (`host_pdr_handler.cpp:136-138`),
`PreviousStateIsPrevious` (`platform_state_sensor.hpp:186`), `GivesUpOnlyUnanswered`
(`softoff.cpp:347`; a stray message disables the listener before it is told from the
answer), `FruFindsItem` (`terminus.cpp:734`), `CachedIsReal`
(`dbus_to_terminus_effecters.cpp:385`), `HostPinged` (`oem_ibm_handler.hpp:385-386`; the
heartbeat of any terminus arms the timer), `SuccessIsExact` (`file_io.cpp:235`,
`700-705`, `791-797`; SUCCESS after a short read or write), `OnlyShutdownSucceeds`
(`softoff.cpp:64-99`; SuccessMeansShutdown without its exception), `LostSocketIsFailure` (`pldmd.cpp:407-415`),
`ReadsWhatItWrote` (`platform_numeric_effecter.hpp`; GetNumericEffecterValue does not
undo the conversion), `ToldIsStored` (`file_io_type_pcie.cpp`; `write` tests its buffer
the wrong way round and stores nothing), `RefusalReachesEntry`
(`file_io_type_dump.cpp:216`; the acknowledgement picks the entry with SourceDumpId 1),
`FailedReadMayBeRepeated` (`file_io_type_cert.cpp`; the file is removed first).


## Proofs

Every invariant and every action property of the passing runs, and the refinement of
`RequestService`, is proved for all values of the
constants that satisfy the named assumptions.

`RequesterProofs`, for all endpoints, requests, ids and retry counts that
satisfy `RequesterAssumption` (no finiteness is assumed):

* `TypeCorrect`, `OneOutstandingHolds`, `CompletedOnceHolds`: the invariants of
  these names.
* `RetryOnlyWhileOutstandingHolds`: the action property.
* `IdsAccountedForHolds`: ids in use are those of live requests, each held once.

`OneOutstanding` is not inductive: that polling starts the right request needs
that the queue holds no request with a handler entry and none twice (`QueueInv`),
that timers belong to entries not called back yet (`TimerInv`), that an entry is at
most one of deferred, answering, expiring (`EntryInv`), and that the handler was called
exactly for those (`ReplyInv`). With `TypeOK`, `RetryInv` and `OneOutstanding` these
are `IndInv`. All actions that poll share one lemma, `PollIndInv`: it says what
the caller of `pollEndpointQueue` has to provide; each action then provides it.
`RetryBound` (the count of a running timer does not exceed `NumRetries`) needs
only `TypeOK`, and with `IndInv` gives the action property. `AllIds`, on top of
`IndInv`, relates the database to the holders of ids; its steps are that freeing the
id of one holder frees nobody else's (`FreeIds`) and that polling frees the ids of
exactly those that leave (`PollIds`).

Its second part, from the same `IndInv`:

* `ImplementsServiceHolds`: every step of the Handler is a step of `RequestService`
  or a stutter, also when sending may fail. The phase of a request follows from
  `status`, `replies`, `handlers` and the queue (`PhaseInv`), and polling an endpoint
  answers or drops some requests at the head of its queue and puts the next on the
  wire (`PollAdvances`), in the order in which they were registered.
* `NoStrandedRequestHolds`, assuming `~TransportMayFail`: with a transport that fails
  it is false, which is the hazard at `handler.hpp:287`.

`FirmwareUpdateProofs`, for all devices, numbers of components and bounds that satisfy
`FirmwareUpdateAssumption`:

* `TypeCorrect`, from `Typed` (the maps have all devices for their domain) and
  `OrphansWait` (callbacks of replaced DeviceUpdaters still wait in the line of the
  requester).
* `OutcomeStableHolds`: `VerdictInv` says that Failed rests on a device that reported a
  failure and Active on all having reported success. A device reports only once more
  (`ReportStep`), so neither changes into the other.
* `ServesRightComponentHolds`, `ActiveMeansUpdatedHolds`: neither is inductive. Agent
  and device agree on the component because until its report there is one thing to
  wait for at a time (`OneThing`): an answer, a deferred request, or the device at work;
  and after its success nothing is under way (`Finished`). With what holds before the
  activation (`NotBegun`) and what has been applied so far (`FineBefore`, `AllFine`)
  this is `OrderInv`. Both theorems except devices `outOfTurn`, whose
  ApplyComplete was handled twice; see the hazards.
* `ActivatesSomethingNewHolds`, assuming `~SlowRequests`: with it the property is false, as
  the data timer can fire while UpdateComponent is unanswered, a late answer then marks
  the component as done, and ActivateFirmware follows although nothing was applied. The
  two intervals of the code give `~SlowRequests`. `StepInv` says that beside cancellations
  the line of a device holds one step at most, the last (`StepIsLast`), and none while the
  device is engaged in a component (`StepWaits`); so a cancellation it can still carry out
  is of a component marked as not updated (`CancelledIsFalse`), and a flag left behind by
  componentIndex tells the truth (`TrueWasApplied`). Which component was applied is
  `OrderInv` again.

`TerminusManagerProofs` and `TerminusTaskProofs`, for all
endpoints, TIDs and numbers of sensors, signals and types that satisfy `TerminusManagerAssumption`:

* `TidsAccountedForHolds`: `TableInv` adds to it what each frame of the coroutine relies
  on when it resumes: a TID without a terminus is the one that is being set up
  (`Claimed`); the endpoint asked for its TID has none yet, and the TID being set up has
  no terminus, although removals ran in between (`Pending`). `TaskInv` says that the
  coroutine works on the front of the queue and nothing else runs meanwhile.
* `PolledOnlyWhileManagedHolds`: from `TaskInv` and `TableInv`, because the
  coroutine starts polling only for a terminus that is in the map.
* `NoStrandedPollHolds`: `updateMctpEndpointAvailability` restarts the timer of one TID of
  an endpoint and marks all of them available; that these are the same needs `OneToOne`.
* `NothingForgottenHolds`: `PassedInv` says that a batch none of whose endpoints failed
  may be popped as far as it was worked off: each endpoint has a terminus, is gone from
  D-Bus, or was queued again. That a finished initMctpTerminus left a terminus
  is `Claimed`.
* `SensorsTakeTurnsHolds`: `TurnInv` says that a sensor has waited no longer than
  its distance from the round-robin iterator around the list (`Distance`). A coroutine
  that considers the sensor under the iterator ends that one's wait and moves the
  iterator by one (`NextTurn`); stopping, restarting and suspending move neither.
* `TypeCorrect`: from `TurnInv`, which types iterators, timers and coroutines,
  and `RestTypes` for the tables and the discovery.

`DeviceProofs`, `ResponderProofs` and `OemProofs` state the properties that the run
Components checks, for the specifications `DeviceSpec`, `ResponderSpec` and `OemSpec` and
all values of their constants that satisfy the named assumptions of these modules. Each
component has its inductive invariant, in parts, in its own module; here the
lemmas `<component>Init` and `<component>Next` prove it for the instance, and
`<component>Stays` adds that the steps of the others leave it alone (`OthersElsewhere`).

| Theorem | Why it holds, and what its invariant adds |
|---|---|
| WholeRepositoryReadHolds | `FetchInv`: the records before the present one are whole, and of it the parts before the handle asked for (`RecordsInOrder`, `FruInOrder`); without faults the bounds computed from GetPDRRepositoryInfo are above what comes (`LimitsSuffice`), which needs that they do not wrap (`FetchAssumption`) |
| EventsHandledIntactHolds | `PollInv`: the message under way is the first parts of the event that is polled (`PartsInOrder`), and that event is the one after the last acknowledged |
| AlarmsFollowEventsHolds | `NumericInv`: alarms are of thresholds the sensor has. An event changes alarms one by one, on the way to the normal state and out again; each piece of the way turns the alarms of a state into those of the next one nearer or farther (`PassedSettles`, `OneSideSettles`, `TriggeredSettles`), and any changes in any order, of which any may fail to be logged, keep the logs true to the alarms (`AlarmsSet`) |
| EverySensorMadeHolds | `SensorsInv`: the walk over the two lists of a parsed terminus is at the sensor whose creation is deferred, and each one before it was made under its name or refused (`Walk`); a removal in between leaves the walk or drops the terminus |
| PackagesReadHolds | `PackageInv`: the header has what is written up to each stage, and the checksum is that of the header the metadata determine, whatever happened to the file since. So a file that passes the checksum has that header (`HeaderKnown`), and the sizes of the images then say how much of them it holds (`TotalOfImages`) |
| TerminusFollowsHolds | `FollowInv`: what the code takes for an effecter follows, shifted or not (`PositionFollows`); a request for one field of a composite leaves the others alone (`OneField`), and the last request under way for an effecter that follows asks for the present value of its property (`LastRequestIsPresent`); requests are answered in order |
| DeviceHeardByItsUpdaterHolds | an action property: by `ItemsInv` an item has an updater only while its activation runs, so the item of a device that is alone is the only candidate |
| UndisturbedExchangeHolds | `HostInv`: one exchange is at one place (`OnePlace`), one of the lists of handles is in use (`OneList`), what is unread will be read (`UnreadIsRead`), and null nodes are mended by the walk before any record uses them (`NullsAreMended`) |
| HostUpToDateHolds | `SensorsInv`: the last signal waiting for a sensor carries its present state (`LastSignalIsPresent`), and where none waits the host was told it (`NothingToCorrect`) |
| BiosValuesAgreeHolds | `BiosInv`: the last notification under way for an attribute carries its property's value, and an attribute last written through D-Bus has that value already or such a notification (`Agrees`); each of several pending sets keeps this (`PendingSet`) |
| FruAndPdrsAgreeHolds | `FruInv`: record sets are numbered from 1 and each has a PDR (`Counted`), and record handles are positions (`Numbered`) unless the table was built late; the walk then is at its k-th record after k steps (`WalkEnds`) |
| EffectersObeyedHolds | `EffecterInv` adds types only: the loop sets a prefix of the fields, all if no set fails, and for any width the range test comes before the set |
| MessagesAnsweredAndOnTapeHolds | `DaemonInv`: `OnTape` states the ring without the remainder of a division, `PlaceIsModulo` relates the two, and `OneMoreRecord` is the step that overwrites the oldest record |
| ImageIsWholeHolds | `InbandInv`: in an update that started undisturbed, only its own process and images are at work (`Alone`), what is stored are exactly the LIDs received (`FilesStored`; a chunk repeated too late stays a hole beside them, `ChunksStaged`), the process works on them once (`MadeOnce`), and after an ABORT or its image it finds nothing (`NothingLeft`) |
| WatchedForWhatRunsHolds | `IbmInv`: a surveillance timer that runs was started by a ping since the host went off (`TimerOfThisRun`); the slot part is inductive: match, timer and current slot change together but for a slot without an adapter |
| HostDataInItsPlaceHolds | `HostDataInv` (under the number of `fd` is nothing but the socket of the current dump, `SocketOfCurrent`, and under that of the map's entry the file of the current certificate, `FileOfCurrent`) and `PcieInv` (a file acknowledged is stored whole and no later version has begun) |
| HostFetchesItsFileHolds | `ResDumpInv` (the parameter file is the one of the single request) and `CsrInv` (a handle is announced once) |
| TransfersExactHolds | `FileIoInv`: what the host believes written is no longer than the file, unless a write of it fell short, so no write leaves a gap. The DMA operations of a transfer follow each other without a gap (`OpsFollow`), so a transfer cut anywhere has moved a prefix (`TransferredFromHost`, `TransferredToHost`) |
| SuccessMeansShutdownHolds | `IndInv`: the timer of the wait runs only once the host accepted (`TimedAfterAnswer`), and expiry and completion exclude each other (`OneEnd`) |

Minima and maxima are CHOOSE over sets; that they exist is `LeastNat`, proved from the
well-foundedness of inclusion on the finite sets.

Alarms, PDR tables, packages, pending attributes, FRU objects and DMA operations are
worked off by folds or recursive functions, and the library's induction theorems take
an operator as a parameter, which cannot be instantiated here. `FoldInduction` does
without: `InductionOnSet` states induction for a set instead of an operator,
`IterExists` shows that the recursion in the definition of FoldLeft has a solution, and
`FoldInvariant`, `FoldOfOne` and `FoldOfParts` say what such a solution keeps. The folded
operator is the constant `Op` of the module, which is instantiated once for each fold of
the models; lemmas named `...Fold` identify the two.

The constants are assumed to be little more than of their types: `FetchAssumption` (with counters that
hold the counts), `PdrTablesAssumption`, `EventPartsAssumption`, `PackageAssumption` (the
tool writes revisions 1 to 4), `StateEntriesAssumption` (entries may be malformed; what
parseEffecterJson keeps of them is `StateEntriesKept`), `BiosAssumption` (finitely many
attributes), `FruAssumption`, `FilesAssumption` (a DMA operation moves at least a byte), and
those of the other components. TLC evaluates them all in the runs.

The proof of UndisturbedExchange found a case that the run's bound of two events
does not reach: an exchange of modified records leaves `entityAssociations` filled
(`host_pdr_handler.cpp:324`; it is cleared at line 689, at the end of a walk only). After a
power off these are nodes of the freed tree, and the next full exchange uses them.
The property now excepts it (`disturbed`). The proof of ImageIsWhole found another that
needs three updates, where the run has two: the image of an aborted update becomes active
late and ends the next update, too, while the host is writing it. END clears no
files (only ABORT does, `oem_ibm_handler.cpp:130`) and neither does START, so the third
update finds the LIDs of the second. `Undisturbed` now asks that nothing was left behind.

Only model-checked: liveness (`EveryRequestAnswered`, `UpdateConcludes`,
`DiscoveryConcludes`), which needs ENABLED and fairness; and the statements that do not
hold, in the runs that expect a violation.

No module declares a recursive operator; recursion is by functions and folds.

## Not modelled

* `pldmtool/`, `utilities/`, `tools/`, `configurations/`: command line clients that
  encode a request and print its answer, and data.
* `oem/meta`, `oem/ampere`, `oem/nvidia`: translation of one event or one
  file type into log entries, without state of their own.
* `host-bmc/dbus/`: setters of D-Bus objects that only store the value.
* `oem/ibm/`: VPD, PEL, progress code and PCIe adapter handlers besides those named above;
  they hand a buffer on.
* Encoding, parsing of messages and of JSON configurations, units and
  PDR formats (a numeric sensor of an unsupported base unit throws in its constructor,
  `numeric_sensor.cpp:162-167`): a message that cannot be decoded is one outcome of its action.
* `requestFwData`'s padding and `UpdateProgress`' percentages, downstream devices,
  the D-Bus objects of `FirmwareInventory`, the CPER dumps of `EventManager`,
  and the SIGUSR1 dump of the flight recorder (its ring is in `PldmDaemon`).
* `HostCondition`: it reads a D-Bus property.
* Code nothing calls: `removeIndividualFRU`, `deleteFRURecord` and
  `addHotPlugRecord` of `fru.cpp`, `sendQueryDownstreamDevicesRequest`.
* Ends of the daemon by an exception: `sendNewFileAvailableCmd` throws when no
  instance id is free; a message of an EID without a TID makes `recvMsg` fail over the
  demux daemon (`ReceiveFails` of `PldmDaemon` is that case).

## What is left

Models: `ItemUpdates` over `FirmwareUpdate`, so that several items run whole updates,
the padding of `requestFwData` with scaled word sizes, and the firmware devices'
downstream devices, should the agent come to ask for them.

## Running

`tlc -config Requester.cfg MCRequester`, and likewise for the other runs, whose
modules are in `PROJECT.json`; `tlapm RequesterProofs.tla`, and likewise for
the other modules named `...Proofs`.
