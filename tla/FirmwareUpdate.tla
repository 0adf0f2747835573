--------------------------- MODULE FirmwareUpdate ----------------------------
(***************************************************************************)
(* The PLDM firmware update (type 5) agent: UpdateManager and Activation   *)
(* (fw-update/update_manager.cpp, activation.cpp, update.cpp) driving one  *)
(* DeviceUpdater (device_updater.cpp) per matched firmware device, each in *)
(* concert with the firmware device's own state machine of DSP0267, which  *)
(* is external: what it may answer and send is all that is modelled of it. *)
(*                                                                         *)
(* Requests go through requester::Handler, here what RequestService says   *)
(* of it: in order, one at a time per device, one callback each.  No       *)
(* response, an undecodable one and an error code are handled alike by     *)
(* every response handler, and are one outcome here.                       *)
(***************************************************************************)
EXTENDS Naturals, Sequences

CONSTANTS
  Devices,      \* firmware devices, by endpoint
  NumComps,     \* NumComps[d]: applicable components of d in a package
  SendMayFail,  \* may registerRequest fail?
  FDMayReset,   \* may a device leave update mode by itself (power loss, FD_T1)?
  LossyLink,    \* may a device miss the response to its ApplyComplete?
  SlowRequests, \* may a request be pending for as long as reqFwDataTimer runs?
                \* (it runs for 60 s, a request without response for 5 to 6 s)
  MaxRequests   \* bound of the model: requests waiting for a device's answer

ASSUME FirmwareUpdateAssumption ==
  /\ NumComps \in [Devices -> Nat \ {0}]
  /\ SendMayFail \in BOOLEAN
  /\ FDMayReset \in BOOLEAN
  /\ LossyLink \in BOOLEAN
  /\ SlowRequests \in BOOLEAN
  /\ MaxRequests \in Nat

VARIABLES
  activation,       \* Activation::activation(), "absent" without the object
  deviceUpdaterMap, \* devices that have a DeviceUpdater
  completion,       \* UpdateManager::deviceUpdateCompletionMap
  updater,          \* the fields of each DeviceUpdater
  requests,         \* requests to each device not called back yet, oldest first
  orphans,          \* how many of them belong to a destroyed DeviceUpdater
  fd,               \* each firmware device
  outcome,          \* history: what became of each component of this update
  outOfTurn,        \* history: devices a message of which was handled out of turn
  crashed           \* a callback ran on a destroyed DeviceUpdater: what follows is
                    \* undefined, the model stops

vars == <<activation, deviceUpdaterMap, completion, updater, requests, orphans,
          fd, outcome, outOfTurn, crashed>>

managerVars == <<activation, completion>>
historyVars == <<outcome, outOfTurn>>

Comps(d) == 0 .. NumComps[d] - 1

\* Mutant for TypeOK: one component too many.
MutLastComp(d) == NumComps[d]

LastComp(d) == NumComps[d] - 1

RequestKinds == {"RequestUpdate", "PassComponentTable", "UpdateComponent",
                 "CancelUpdateComponent", "ActivateFirmware"}

NewUpdater(d) ==
  [componentIndex        |-> 0,
   componentUpdateStatus |-> [c \in Comps(d) |-> "unset"],
   pldmRequest           |-> "none",    \* the one Defer slot
   reqFwDataTimer        |-> "none"]

FDIdle == [state |-> "idle", comp |-> 0, session |-> "none", last |-> "none"]

Init ==
  /\ activation = "absent"
  /\ deviceUpdaterMap = {}
  /\ completion = [d \in Devices |-> "none"]
  /\ updater = [d \in Devices |-> NewUpdater(d)]
  /\ requests = [d \in Devices |-> <<>>]
  /\ orphans = [d \in Devices |-> 0]
  /\ fd = [d \in Devices |-> FDIdle]
  /\ outcome = [d \in Devices |-> [c \in Comps(d) |-> "pending"]]
  /\ outOfTurn = {}
  /\ crashed = FALSE

-----------------------------------------------------------------------------
(* UpdateManager *)

\* Mutant for UpdateConcludes: a device that failed has not reported.
MutReported(m) == {d \in deviceUpdaterMap : m[d] = "success"}

\* Devices of the update that reported (the keys of the completion map).
Reported(m) == {d \in deviceUpdaterMap : m[d] # "none"}

\* Mutant for OutcomeStable: insert_or_assign instead of emplace.
MutRecord(d, result) == [completion EXCEPT ![d] = result]

\* deviceUpdateCompletionMap.emplace: the first report of a device stands.
Record(d, result) ==
  IF completion[d] = "none" THEN [completion EXCEPT ![d] = result] ELSE completion

\* Mutant for ActiveMeansUpdated: one success is enough.
MutVerdict(m) ==
  IF \E d \in deviceUpdaterMap : m[d] = "success" THEN "Active" ELSE "Failed"

Verdict(m) ==
  IF \A d \in deviceUpdaterMap : m[d] = "success" THEN "Active" ELSE "Failed"

\* updateDeviceCompletion: when every device reported, the update is over.
UpdateDeviceCompletion(d, result) ==
  LET m == Record(d, result) IN
    /\ completion' = m
    /\ activation' = IF Reported(m) = deviceUpdaterMap THEN Verdict(m)
                                                      ELSE activation

\* registerRequest for device d; a failure is logged and nothing else.
Register(d, kind) ==
  \/ /\ Len(requests[d]) < MaxRequests
     /\ requests' = [requests EXCEPT ![d] = Append(@, kind)]
  \/ SendMayFail /\ UNCHANGED requests

\* resetActivationState destroys the DeviceUpdaters with their Defer slots and
\* timers; requests they registered stay with the handler, callbacks included.
DestroyUpdaters ==
  /\ orphans' = [d \in Devices |-> Len(requests[d])]
  /\ fd' = [d \in Devices |->
              IF fd[d].session = "current" THEN [fd[d] EXCEPT !.session = "stale"]
                                           ELSE fd[d]]

ResetUpdaters ==
  /\ completion' = [d \in Devices |-> "none"]
  /\ updater' = [d \in Devices |-> NewUpdater(d)]
  /\ outcome' = [d \in Devices |-> [c \in Comps(d) |-> "pending"]]
  /\ outOfTurn' = {}
  /\ DestroyUpdaters

\* startUpdate and processPackage refuse while a package is being activated.
MayStart == ~crashed /\ activation # "Activating"

\* startUpdate/processPackage, then processStream with a package that matches D.
ProcessPackage(D) ==
  /\ MayStart
  /\ D # {}
  /\ ResetUpdaters
  /\ deviceUpdaterMap' = D
  /\ activation' = "Ready"
  /\ UNCHANGED <<requests, crashed>>

\* The same with a package that is malformed or matches no device.
ProcessInvalidPackage ==
  /\ MayStart
  /\ ResetUpdaters
  /\ deviceUpdaterMap' = {}
  /\ activation' = "Invalid"
  /\ UNCHANGED <<requests, crashed>>

\* Activation::activation(Activating): startFwUpdateFlow on every device.
ActivatePackage ==
  /\ ~crashed
  /\ activation = "Ready"
  /\ activation' = "Activating"
  /\ \E sent \in SUBSET deviceUpdaterMap :
       /\ SendMayFail \/ sent = deviceUpdaterMap
       /\ \A d \in sent : Len(requests[d]) < MaxRequests
       /\ requests' = [d \in Devices |-> IF d \in sent
                         THEN Append(requests[d], "RequestUpdate")
                         ELSE requests[d]]
  /\ UNCHANGED <<deviceUpdaterMap, completion, updater, orphans, fd, historyVars,
                 crashed>>

\* Delete::delete_; the Delete object does not exist while Activating.
DeleteActivation ==
  /\ ~crashed
  /\ activation \notin {"absent", "Activating"}
  /\ ResetUpdaters
  /\ deviceUpdaterMap' = {}
  /\ activation' = "absent"
  /\ UNCHANGED <<requests, crashed>>

-----------------------------------------------------------------------------
(* The firmware device's side of a request (external). *)

FDExpects(d, kind) ==
  fd[d].state \in
    CASE kind = "RequestUpdate"         -> {"idle"}
      [] kind = "PassComponentTable"    -> {"learn"}
      [] kind = "UpdateComponent"       -> {"ready"}
      [] kind = "CancelUpdateComponent" -> {"download", "verify", "apply", "failed"}
      [] kind = "ActivateFirmware"      -> {"ready"}

\* Device d after it carried out the request `kind` of its current updater.
FDAccepting(d, kind) ==
  LET c == updater[d].componentIndex IN
    CASE kind = "RequestUpdate" ->
           [FDIdle EXCEPT !.state = "learn", !.session = "current"]
      [] kind = "PassComponentTable" ->
           [fd[d] EXCEPT !.state = IF c = LastComp(d) THEN "ready" ELSE "learn"]
      [] kind = "UpdateComponent" ->
           [fd[d] EXCEPT !.state = "download", !.comp = c, !.last = "none"]
      [] kind = "CancelUpdateComponent" ->
           [fd[d] EXCEPT !.state = "ready", !.last = "none"]
      [] kind = "ActivateFirmware" -> FDIdle

\* The oldest request to d is answered: accepted, or (fails) refused, or no
\* usable response arrives although the device may have carried it out.
Answered(d, kind) ==
  /\ ~crashed
  /\ requests[d] # <<>>
  /\ orphans[d] = 0
  /\ Head(requests[d]) = kind

Accepted(d, kind) ==
  /\ Answered(d, kind)
  /\ FDExpects(d, kind)
  /\ fd' = [fd EXCEPT ![d] = FDAccepting(d, kind)]

Unanswered(d, kind) ==
  /\ Answered(d, kind)
  /\ \/ UNCHANGED fd
     \/ FDExpects(d, kind) /\ fd' = [fd EXCEPT ![d] = FDAccepting(d, kind)]

DropRequest(d) == requests' = [requests EXCEPT ![d] = Tail(@)]

Defer(d, kind, index, status) ==
  updater' = [updater EXCEPT ![d] =
                [@ EXCEPT !.pldmRequest = kind, !.componentIndex = index,
                          !.componentUpdateStatus = status]]

-----------------------------------------------------------------------------
(* DeviceUpdater: responses *)

\* requestUpdate, passCompTable, updateComponent, activateFirmware without a
\* good response.
RequestFails(d, kind) ==
  /\ kind # "CancelUpdateComponent"
  /\ Unanswered(d, kind)
  /\ DropRequest(d)
  /\ UpdateDeviceCompletion(d, "failure")
  /\ UNCHANGED <<deviceUpdaterMap, updater, orphans, historyVars, crashed>>

RequestUpdateResponse(d) ==
  /\ Accepted(d, "RequestUpdate")
  /\ DropRequest(d)
  /\ updater' = [updater EXCEPT ![d].pldmRequest = "PassComponentTable"]
  /\ UNCHANGED <<deviceUpdaterMap, managerVars, orphans, historyVars, crashed>>

PassCompTableResponse(d) ==
  LET u == updater[d] IN
  /\ Accepted(d, "PassComponentTable")
  /\ DropRequest(d)
  /\ IF u.componentIndex = LastComp(d)
       THEN Defer(d, "UpdateComponent", 0, u.componentUpdateStatus)
       ELSE Defer(d, "PassComponentTable", u.componentIndex + 1,
                  u.componentUpdateStatus)
  /\ UNCHANGED <<deviceUpdaterMap, managerVars, orphans, historyVars, crashed>>

\* updateComponent, the component can be updated.
UpdateComponentResponse(d) ==
  /\ Accepted(d, "UpdateComponent")
  /\ DropRequest(d)
  /\ updater' = [updater EXCEPT ![d] =
                   [@ EXCEPT !.componentUpdateStatus[@.componentIndex] = "true",
                             !.reqFwDataTimer = "created"]]
  /\ UNCHANGED <<deviceUpdaterMap, managerVars, orphans, historyVars, crashed>>

\* updateComponent, the component cannot be updated: on to the next one, or
\* after the last to ActivateFirmware if some component was updated.
UpdateComponentRefused(d) ==
  LET u == updater[d]
      c == u.componentIndex
      status == [u.componentUpdateStatus EXCEPT ![c] = "false"]
  IN
  /\ Answered(d, "UpdateComponent")
  /\ FDExpects(d, "UpdateComponent")
  /\ DropRequest(d)
  /\ outcome' = [outcome EXCEPT ![d][c] = "refused"]
  /\ \/ /\ c # LastComp(d)
        /\ Defer(d, "UpdateComponent", c + 1, status)
        /\ UNCHANGED managerVars
     \/ /\ c = LastComp(d)
        /\ \E i \in Comps(d) : status[i] = "true"
        /\ Defer(d, "ActivateFirmware", 0, status)
        /\ UNCHANGED managerVars
     \/ /\ c = LastComp(d)
        /\ \A i \in Comps(d) : status[i] # "true"
        /\ Defer(d, u.pldmRequest, c, status)
        /\ UpdateDeviceCompletion(d, "failure")
  /\ UNCHANGED <<deviceUpdaterMap, orphans, fd, outOfTurn, crashed>>

\* cancelUpdateComponent with a good response.
CancelUpdateComponentResponse(d) ==
  LET u == updater[d]
      c == u.componentIndex
      status == u.componentUpdateStatus
  IN
  /\ Accepted(d, "CancelUpdateComponent")
  /\ DropRequest(d)
  /\ \/ /\ c # LastComp(d)
        /\ Defer(d, "UpdateComponent", c + 1, [status EXCEPT ![c + 1] = "true"])
        /\ UNCHANGED managerVars
     \/ /\ c = LastComp(d)
        /\ \E i \in Comps(d) : status[i] = "true"
        /\ Defer(d, "ActivateFirmware", 0, [i \in Comps(d) |-> "unset"])
        /\ UNCHANGED managerVars
     \/ /\ c = LastComp(d)
        /\ \A i \in Comps(d) : status[i] # "true"
        /\ UpdateDeviceCompletion(d, "failure")
        /\ UNCHANGED updater
  /\ UNCHANGED <<deviceUpdaterMap, orphans, historyVars, crashed>>

\* cancelUpdateComponent without a good response does nothing at all.
CancelFails(d) ==
  /\ Unanswered(d, "CancelUpdateComponent")
  /\ DropRequest(d)
  /\ UNCHANGED <<deviceUpdaterMap, managerVars, updater, orphans, historyVars,
                 crashed>>

ActivateFirmwareResponse(d) ==
  /\ Accepted(d, "ActivateFirmware")
  /\ DropRequest(d)
  /\ UpdateDeviceCompletion(d, "success")
  /\ UNCHANGED <<deviceUpdaterMap, updater, orphans, historyVars, crashed>>

\* The callback of a request whose DeviceUpdater is gone uses a dangling this;
\* only that of a cancellation without a response returns before it does so.
OrphanCallback(d) ==
  /\ ~crashed
  /\ orphans[d] > 0
  /\ \/ /\ crashed' = TRUE
        /\ UNCHANGED <<requests, orphans>>
     \/ /\ Head(requests[d]) = "CancelUpdateComponent"
        /\ DropRequest(d)
        /\ orphans' = [orphans EXCEPT ![d] = @ - 1]
        /\ UNCHANGED crashed
  /\ UNCHANGED <<deviceUpdaterMap, managerVars, updater, fd, historyVars>>

-----------------------------------------------------------------------------
(* DeviceUpdater: the deferred request and the timer *)

\* sendPassCompTableRequest, sendUpdateComponentRequest,
\* sendActivateFirmwareRequest, run by the Defer event source.
SendDeferred(d) ==
  /\ ~crashed
  /\ d \in deviceUpdaterMap
  /\ updater[d].pldmRequest # "none"
  /\ updater' = [updater EXCEPT ![d].pldmRequest = "none"]
  /\ Register(d, updater[d].pldmRequest)
  /\ UNCHANGED <<deviceUpdaterMap, managerVars, orphans, fd, historyVars, crashed>>

\* Mutant for ServesRightComponent: on to the next component before the device
\* confirmed that it cancelled this one.
MutGiveUpAtOnce(d, timer) ==
  LET c == updater[d].componentIndex IN
  /\ UpdateDeviceCompletion(d, "failure")
  /\ updater' = [updater EXCEPT ![d] =
                   [@ EXCEPT !.componentUpdateStatus[c] = "false",
                             !.componentIndex = IF c = LastComp(d) THEN c ELSE c + 1,
                             !.pldmRequest = "none", !.reqFwDataTimer = timer]]
  /\ Register(d, "CancelUpdateComponent")
  /\ outcome' = [outcome EXCEPT ![d][c] = "failed"]

\* Mutant for ActivatesSomethingNew: the status of the component is left as it is.
MutGiveUpSilently(d, timer) ==
  LET c == updater[d].componentIndex IN
  /\ UpdateDeviceCompletion(d, "failure")
  /\ updater' = [updater EXCEPT ![d] =
                   [@ EXCEPT !.pldmRequest = "none", !.reqFwDataTimer = timer]]
  /\ Register(d, "CancelUpdateComponent")
  /\ outcome' = [outcome EXCEPT ![d][c] = "failed"]

\* A component failed: it is marked so, the device reports failure, and
\* sendCancelUpdateComponentRequest takes the place of anything deferred.
GiveUpComponent(d, timer) ==
  LET c == updater[d].componentIndex IN
  /\ UpdateDeviceCompletion(d, "failure")
  /\ updater' = [updater EXCEPT ![d] =
                   [@ EXCEPT !.componentUpdateStatus[c] = "false",
                             !.pldmRequest = "none", !.reqFwDataTimer = timer]]
  /\ Register(d, "CancelUpdateComponent")
  /\ outcome' = [outcome EXCEPT ![d][c] = "failed"]

\* The callback of reqFwDataTimer.
RequestFwDataTimeout(d) ==
  /\ ~crashed
  /\ updater[d].reqFwDataTimer = "running"
  /\ SlowRequests \/ (requests[d] = <<>> /\ updater[d].pldmRequest = "none")
  /\ GiveUpComponent(d, "created")
  /\ UNCHANGED <<deviceUpdaterMap, orphans, fd, outOfTurn, crashed>>

-----------------------------------------------------------------------------
(* DeviceUpdater: requests of the firmware device (UpdateManager::handleRequest; *)
(* a device without an updater is answered PLDM_FWUP_COMMAND_NOT_EXPECTED).      *)

FDSends(d, state) ==
  /\ ~crashed
  /\ d \in deviceUpdaterMap
  /\ fd[d].state = state

\* Nothing in a request tells which update it belongs to: a device still busy
\* with the previous package is served by the DeviceUpdater of the new one.
NoteSession(d) ==
  outOfTurn' = IF fd[d].session = "current" THEN outOfTurn ELSE outOfTurn \cup {d}

\* requestFwData: data of the current component is served, the timer (re)starts.
RequestFwData(d) ==
  /\ FDSends(d, "download")
  /\ updater' = [updater EXCEPT ![d].reqFwDataTimer = "running"]
  /\ NoteSession(d)
  /\ UNCHANGED <<deviceUpdaterMap, managerVars, requests, orphans, fd, outcome,
                 crashed>>

\* transferComplete, success, or undecodable: the timer goes in either case.
TransferComplete(d) ==
  /\ FDSends(d, "download")
  /\ \/ fd' = [fd EXCEPT ![d].state = "verify"]
     \/ UNCHANGED fd
  /\ updater' = [updater EXCEPT ![d].reqFwDataTimer = "none"]
  /\ NoteSession(d)
  /\ UNCHANGED <<deviceUpdaterMap, managerVars, requests, orphans, outcome,
                 crashed>>

VerifyComplete(d) ==
  /\ FDSends(d, "verify")
  /\ fd' = [fd EXCEPT ![d].state = "apply"]
  /\ NoteSession(d)
  /\ UNCHANGED <<deviceUpdaterMap, managerVars, updater, requests, orphans,
                 outcome, crashed>>

\* transferComplete, verifyComplete and applyComplete with a bad result.
CompleteWithError(d) ==
  \E state \in {"download", "verify", "apply"} :
    /\ FDSends(d, state)
    /\ fd' = [fd EXCEPT ![d].state = "failed"]
    /\ GiveUpComponent(d, IF state = "download" THEN "none"
                          ELSE updater[d].reqFwDataTimer)
    /\ NoteSession(d)
    /\ UNCHANGED <<deviceUpdaterMap, orphans, crashed>>

\* applyComplete moves on to the next component, or after the last one to
\* ActivateFirmware.
NextAfterApply(d) ==
  LET u == updater[d]
      c == u.componentIndex
  IN
  IF c = LastComp(d)
    THEN Defer(d, "ActivateFirmware", 0,
               [i \in Comps(d) |-> IF i = 0 THEN "true" ELSE "unset"])
    ELSE Defer(d, "UpdateComponent", c + 1,
               [u.componentUpdateStatus EXCEPT ![c + 1] = "true"])

ApplyComplete(d) ==
  /\ FDSends(d, "apply")
  /\ fd' = [fd EXCEPT ![d].state = "ready", ![d].last = "applied"]
  /\ outcome' = [outcome EXCEPT ![d][fd[d].comp] = "applied"]
  /\ NextAfterApply(d)
  /\ NoteSession(d)
  /\ UNCHANGED <<deviceUpdaterMap, managerVars, requests, orphans, crashed>>

\* The response to ApplyComplete was lost and the device sends it again: it is
\* handled like the first time.
RepeatApplyComplete(d) ==
  /\ LossyLink
  /\ FDSends(d, "ready")
  /\ fd[d].last = "applied"
  /\ fd' = [fd EXCEPT ![d].last = "none"]
  /\ NextAfterApply(d)
  /\ outOfTurn' = outOfTurn \cup {d}
  /\ UNCHANGED <<deviceUpdaterMap, managerVars, requests, orphans, outcome, crashed>>

FDReset(d) ==
  /\ ~crashed
  /\ FDMayReset
  /\ fd[d].state # "idle"
  /\ fd' = [fd EXCEPT ![d] = FDIdle]
  /\ UNCHANGED <<deviceUpdaterMap, managerVars, updater, requests, orphans,
                 historyVars, crashed>>

-----------------------------------------------------------------------------
DeviceNext(d) ==
  \/ \E kind \in RequestKinds : RequestFails(d, kind)
  \/ RequestUpdateResponse(d)
  \/ PassCompTableResponse(d)
  \/ UpdateComponentResponse(d)
  \/ UpdateComponentRefused(d)
  \/ CancelUpdateComponentResponse(d)
  \/ CancelFails(d)
  \/ ActivateFirmwareResponse(d)
  \/ OrphanCallback(d)
  \/ SendDeferred(d)
  \/ RequestFwDataTimeout(d)
  \/ RequestFwData(d)
  \/ TransferComplete(d)
  \/ VerifyComplete(d)
  \/ CompleteWithError(d)
  \/ ApplyComplete(d)
  \/ RepeatApplyComplete(d)
  \/ FDReset(d)

Next ==
  \/ \E D \in SUBSET Devices : ProcessPackage(D)
  \/ ProcessInvalidPackage
  \/ ActivatePackage
  \/ DeleteActivation
  \/ \E d \in Devices : DeviceNext(d)

Spec == Init /\ [][Next]_vars

\* Requester calls every request back; the event loop gets to a deferred request
\* that stays due.
Answer(d) ==
  \/ \E kind \in RequestKinds : RequestFails(d, kind)
  \/ RequestUpdateResponse(d)
  \/ PassCompTableResponse(d)
  \/ UpdateComponentResponse(d)
  \/ UpdateComponentRefused(d)
  \/ CancelUpdateComponentResponse(d)
  \/ CancelFails(d)
  \/ ActivateFirmwareResponse(d)
  \/ OrphanCallback(d)

\* A firmware device in the middle of a component goes on to its end, good or bad
\* (TransferComplete with a decodable request).
FDProceeds(d) ==
  /\ \/ TransferComplete(d)
     \/ VerifyComplete(d)
     \/ CompleteWithError(d)
     \/ ApplyComplete(d)
  /\ fd'[d].state # fd[d].state

Fairness ==
  \A d \in Devices :
    /\ WF_vars(Answer(d))
    /\ WF_vars(SendDeferred(d))
    /\ WF_vars(FDProceeds(d))

FairSpec == Spec /\ Fairness

-----------------------------------------------------------------------------
TypeOK ==
  /\ activation \in {"absent", "Ready", "Activating", "Active", "Failed", "Invalid"}
  /\ deviceUpdaterMap \in SUBSET Devices
  /\ completion \in [Devices -> {"none", "success", "failure"}]
  /\ \A d \in Devices :
       /\ updater[d].componentIndex \in Comps(d)
       /\ updater[d].componentUpdateStatus \in
            [Comps(d) -> {"unset", "true", "false"}]
       /\ updater[d].pldmRequest \in RequestKinds \cup {"none"}
       /\ updater[d].reqFwDataTimer \in {"none", "created", "running"}
       /\ outcome[d] \in [Comps(d) -> {"pending", "applied", "refused", "failed"}]
       /\ fd[d].comp \in Nat
  /\ requests \in [Devices -> Seq(RequestKinds)]
  /\ orphans \in [Devices -> Nat]
  /\ outOfTurn \in SUBSET Devices
  /\ crashed \in BOOLEAN

\* The image a device downloads for a component is the one it was told to update:
\* requestFwData serves componentIndex without knowing what the device is doing.
\* (Unless an ApplyComplete was handled twice, see hazards.)
ServesRightComponent ==
  \A d \in deviceUpdaterMap \ outOfTurn :
    fd[d].session = "current" /\ fd[d].state \in {"download", "verify", "apply"} =>
      fd[d].comp = updater[d].componentIndex

\* The package becomes Active only if every component of every device was applied,
\* or refused by its device: no component that failed or was never tried.
ActiveMeansUpdated ==
  activation = "Active" =>
    \A d \in deviceUpdaterMap \ outOfTurn : \A c \in Comps(d) :
      outcome[d][c] \in {"applied", "refused"}

\* ActivateFirmware goes to a device only after it applied some component in this
\* update, whatever failures, cancellations and refusals came between.
ActivatesSomethingNew ==
  \A d \in deviceUpdaterMap \ outOfTurn :
    \/ updater[d].pldmRequest = "ActivateFirmware"
    \/ \E k \in DOMAIN requests[d] :
         k > orphans[d] /\ requests[d][k] = "ActivateFirmware"
    => \E c \in Comps(d) : outcome[d][c] = "applied"

\* Once announced, the outcome of an update stands until the package is replaced
\* or deleted, although devices keep reporting after a first failure.
OutcomeStable ==
  [][/\ activation = "Failed" => activation' # "Active"
     /\ activation = "Active" => activation' # "Failed"]_vars

\* An activation ends, Active or Failed: every path through the components of a
\* device leads to updateDeviceCompletion.  (When registering a request never
\* fails and devices neither reset nor fall silent: see hazards.)
UpdateConcludes == activation = "Activating" ~> activation # "Activating" \/ crashed

\* update_manager.cpp, processPackage: "If a firmware activation of a package is in
\* progress, don't proceed with package processing": the DeviceUpdaters of a package
\* are not replaced while requests of theirs, and their callbacks, are pending.
ReplacedOnlyWhenDone == \A d \in Devices : orphans[d] = 0
=============================================================================
