------------------------ MODULE FirmwareUpdateProofs ------------------------
(***************************************************************************)
(* Proofs about FirmwareUpdate, for any number of devices and components,  *)
(* with all its faults: type correctness, that an outcome is final, that   *)
(* the image served is of the device's component and that Active means     *)
(* updated; and, when requests are over before reqFwDataTimer is, that     *)
(* ActivateFirmware has something to activate.                             *)
(***************************************************************************)
EXTENDS FirmwareUpdate, SequenceTheorems, TLAPS

USE FirmwareUpdateAssumption

-----------------------------------------------------------------------------
(* Types *)

Activations == {"absent", "Ready", "Activating", "Active", "Failed", "Invalid"}
UpdaterType(d) ==
  [componentIndex        : Comps(d),
   componentUpdateStatus : [Comps(d) -> {"unset", "true", "false"}],
   pldmRequest           : RequestKinds \cup {"none"},
   reqFwDataTimer        : {"none", "created", "running"}]
FDType == [state   : {"idle", "learn", "ready", "download", "verify", "apply", "failed"},
           comp    : Nat,
           session : {"none", "current", "stale"},
           last    : {"none", "applied"}]
OutcomeType(d) == [Comps(d) -> {"pending", "applied", "refused", "failed"}]

\* TypeOK, and that the functions are functions on Devices.
Typed ==
  /\ activation \in Activations
  /\ deviceUpdaterMap \in SUBSET Devices
  /\ completion \in [Devices -> {"none", "success", "failure"}]
  /\ updater \in [Devices -> UNION {UpdaterType(d) : d \in Devices}]
  /\ \A d \in Devices : updater[d] \in UpdaterType(d)
  /\ outcome \in [Devices -> UNION {OutcomeType(d) : d \in Devices}]
  /\ \A d \in Devices : outcome[d] \in OutcomeType(d)
  /\ requests \in [Devices -> Seq(RequestKinds)]
  /\ orphans \in [Devices -> Nat]
  /\ fd \in [Devices -> FDType]
  /\ outOfTurn \in SUBSET Devices

\* The callbacks of destroyed DeviceUpdaters are of requests still in the line.
OrphansWait == \A d \in Devices : orphans[d] <= Len(requests[d])

LEMMA ComponentsExist ==
  ASSUME NEW d \in Devices
  PROVE  /\ LastComp(d) \in Nat /\ LastComp(d) \in Comps(d) /\ 0 \in Comps(d)
         /\ Comps(d) \subseteq Nat
         /\ \A c \in Comps(d) : c <= LastComp(d)
         /\ \A c \in Comps(d) : c # LastComp(d) => c + 1 \in Comps(d)
  BY DEF LastComp, Comps

\* A field of a device is changed to another of its type.
LEMMA UpdaterChanged ==
  ASSUME Typed, NEW d \in Devices, NEW u \in UpdaterType(d),
         updater' = [updater EXCEPT ![d] = u]
  PROVE  /\ updater' \in [Devices -> UNION {UpdaterType(e) : e \in Devices}]
         /\ \A e \in Devices : updater'[e] \in UpdaterType(e)
  BY DEF Typed

LEMMA OutcomeChanged ==
  ASSUME Typed, NEW d \in Devices, NEW o \in OutcomeType(d),
         outcome' = [outcome EXCEPT ![d] = o]
  PROVE  /\ outcome' \in [Devices -> UNION {OutcomeType(e) : e \in Devices}]
         /\ \A e \in Devices : outcome'[e] \in OutcomeType(e)
  BY DEF Typed

LEMMA CompletionTyped ==
  ASSUME Typed, NEW d \in Devices, NEW result \in {"success", "failure"},
         UpdateDeviceCompletion(d, result)
  PROVE  /\ completion' \in [Devices -> {"none", "success", "failure"}]
         /\ activation' \in Activations
  BY DEF Typed, UpdateDeviceCompletion, Record, Verdict, Activations

LEMMA DropTyped ==
  ASSUME Typed, NEW d \in Devices, requests[d] # <<>>, DropRequest(d)
  PROVE  requests' \in [Devices -> Seq(RequestKinds)]
  BY DEF Typed, DropRequest

LEMMA RegisterTyped ==
  ASSUME Typed, NEW d \in Devices, NEW kind \in RequestKinds, Register(d, kind)
  PROVE  requests' \in [Devices -> Seq(RequestKinds)]
<1>1. Append(requests[d], kind) \in Seq(RequestKinds)
  BY AppendProperties DEF Typed
<1>2. \/ requests' = [requests EXCEPT ![d] = Append(requests[d], kind)]
      \/ requests' = requests
  BY DEF Register, Typed
<1> QED
  BY <1>1, <1>2 DEF Typed

LEMMA DeviceTyped ==
  ASSUME Typed, NEW d \in Devices, NEW kind \in RequestKinds
  PROVE  FDAccepting(d, kind) \in FDType
<1>1. fd[d] \in FDType /\ updater[d].componentIndex \in Nat
  BY ComponentsExist DEF Typed, UpdaterType
<1> QED
  BY <1>1 DEF FDAccepting, FDType, FDIdle, RequestKinds

LEMMA AnswerTyped ==
  ASSUME Typed, NEW d \in Devices, NEW kind \in RequestKinds,
         Accepted(d, kind) \/ Unanswered(d, kind)
  PROVE  fd' \in [Devices -> FDType] /\ requests[d] # <<>>
<1>1. fd' = fd \/ fd' = [fd EXCEPT ![d] = FDAccepting(d, kind)]
  BY DEF Accepted, Unanswered
<1>2. requests[d] # <<>>
  BY DEF Accepted, Unanswered, Answered
<1>3. fd \in [Devices -> FDType] /\ FDAccepting(d, kind) \in FDType
  BY DeviceTyped DEF Typed
<1> QED
  BY <1>1, <1>2, <1>3

LEMMA DeferTyped ==
  ASSUME Typed, NEW d \in Devices, NEW kind \in RequestKinds \cup {"none"},
         NEW c \in Comps(d), NEW s \in [Comps(d) -> {"unset", "true", "false"}],
         Defer(d, kind, c, s)
  PROVE  /\ updater' \in [Devices -> UNION {UpdaterType(e) : e \in Devices}]
         /\ \A e \in Devices : updater'[e] \in UpdaterType(e)
<1> DEFINE u == [updater[d] EXCEPT !.pldmRequest = kind, !.componentIndex = c,
                                   !.componentUpdateStatus = s]
<1>1. u \in UpdaterType(d)
  BY DEF Typed, UpdaterType
<1>2. updater' = [updater EXCEPT ![d] = u]
  BY DEF Defer, Typed
<1> QED
  BY <1>1, <1>2, UpdaterChanged

LEMMA GiveUpTyped ==
  ASSUME Typed, NEW d \in Devices, NEW timer \in {"none", "created", "running"},
         GiveUpComponent(d, timer)
  PROVE  /\ completion' \in [Devices -> {"none", "success", "failure"}]
         /\ activation' \in Activations
         /\ updater' \in [Devices -> UNION {UpdaterType(e) : e \in Devices}]
         /\ \A e \in Devices : updater'[e] \in UpdaterType(e)
         /\ outcome' \in [Devices -> UNION {OutcomeType(e) : e \in Devices}]
         /\ \A e \in Devices : outcome'[e] \in OutcomeType(e)
         /\ requests' \in [Devices -> Seq(RequestKinds)]
<1> DEFINE c == updater[d].componentIndex
           u == [updater[d] EXCEPT !.componentUpdateStatus[c] = "false",
                                   !.pldmRequest = "none", !.reqFwDataTimer = timer]
           o == [outcome[d] EXCEPT ![c] = "failed"]
<1>1. u \in UpdaterType(d) /\ o \in OutcomeType(d)
  BY DEF Typed, UpdaterType, OutcomeType
<1>2. /\ updater' = [updater EXCEPT ![d] = u]
      /\ outcome' = [outcome EXCEPT ![d] = o]
      /\ UpdateDeviceCompletion(d, "failure")
      /\ Register(d, "CancelUpdateComponent")
  BY DEF GiveUpComponent, Typed
<1> HIDE DEF u, o
<1>3. "CancelUpdateComponent" \in RequestKinds
  BY DEF RequestKinds
<1> QED
  BY <1>1, <1>2, <1>3, UpdaterChanged, OutcomeChanged, CompletionTyped, RegisterTyped

LEMMA ResetTyped ==
  ASSUME Typed, ResetUpdaters, requests' = requests
  PROVE  /\ completion' \in [Devices -> {"none", "success", "failure"}]
         /\ updater' \in [Devices -> UNION {UpdaterType(e) : e \in Devices}]
         /\ \A e \in Devices : updater'[e] \in UpdaterType(e)
         /\ outcome' \in [Devices -> UNION {OutcomeType(e) : e \in Devices}]
         /\ \A e \in Devices : outcome'[e] \in OutcomeType(e)
         /\ requests' \in [Devices -> Seq(RequestKinds)]
         /\ orphans' \in [Devices -> Nat]
         /\ fd' \in [Devices -> FDType]
         /\ outOfTurn' = {}
<1>1. /\ completion' = [d \in Devices |-> "none"]
      /\ updater' = [d \in Devices |-> NewUpdater(d)]
      /\ outcome' = [d \in Devices |-> [c \in Comps(d) |-> "pending"]]
      /\ outOfTurn' = {}
      /\ orphans' = [d \in Devices |-> Len(requests[d])]
      /\ fd' = [d \in Devices |->
                  IF fd[d].session = "current" THEN [fd[d] EXCEPT !.session = "stale"]
                                               ELSE fd[d]]
  BY DEF ResetUpdaters, DestroyUpdaters
<1>2. ASSUME NEW d \in Devices
      PROVE  /\ NewUpdater(d) \in UpdaterType(d)
             /\ [c \in Comps(d) |-> "pending"] \in OutcomeType(d)
  BY ComponentsExist DEF NewUpdater, UpdaterType, OutcomeType
<1>3. \A d \in Devices : Len(requests[d]) \in Nat
  BY DEF Typed
<1>4. fd' \in [Devices -> FDType]
  BY <1>1 DEF Typed, FDType
<1>5. /\ completion' \in [Devices -> {"none", "success", "failure"}]
      /\ orphans' \in [Devices -> Nat]
  BY <1>1, <1>3
<1>6. /\ updater' \in [Devices -> UNION {UpdaterType(e) : e \in Devices}]
      /\ \A e \in Devices : updater'[e] \in UpdaterType(e)
  BY <1>1, <1>2
<1>7. /\ outcome' \in [Devices -> UNION {OutcomeType(e) : e \in Devices}]
      /\ \A e \in Devices : outcome'[e] \in OutcomeType(e)
  BY <1>1, <1>2
<1>8. requests' \in [Devices -> Seq(RequestKinds)]
  BY DEF Typed
<1> QED
  BY <1>1, <1>4, <1>5, <1>6, <1>7, <1>8

LEMMA InitTyped == Init => Typed
<1> SUFFICES ASSUME Init
             PROVE  Typed
  OBVIOUS
<1>1. ASSUME NEW d \in Devices
      PROVE  /\ NewUpdater(d) \in UpdaterType(d)
             /\ [c \in Comps(d) |-> "pending"] \in OutcomeType(d)
             /\ FDIdle \in FDType
  BY ComponentsExist DEF NewUpdater, UpdaterType, OutcomeType, FDIdle, FDType
<1>2. /\ updater \in [Devices -> UNION {UpdaterType(e) : e \in Devices}]
      /\ \A e \in Devices : updater[e] \in UpdaterType(e)
  BY <1>1 DEF Init
<1>3. /\ outcome \in [Devices -> UNION {OutcomeType(e) : e \in Devices}]
      /\ \A e \in Devices : outcome[e] \in OutcomeType(e)
  BY <1>1 DEF Init
<1>4. /\ requests \in [Devices -> Seq(RequestKinds)]
      /\ orphans \in [Devices -> Nat]
      /\ fd \in [Devices -> FDType]
  <2>1. <<>> \in Seq(RequestKinds) /\ FDIdle \in FDType
    BY DEF FDIdle, FDType
  <2>2. /\ requests = [d \in Devices |-> <<>>]
        /\ orphans = [d \in Devices |-> 0]
        /\ fd = [d \in Devices |-> FDIdle]
    BY DEF Init
  <2> QED
    BY <2>1, <2>2
<1>5. /\ activation \in Activations
      /\ deviceUpdaterMap \in SUBSET Devices
      /\ completion \in [Devices -> {"none", "success", "failure"}]
      /\ outOfTurn \in SUBSET Devices
  BY DEF Init, Activations
<1> QED
  BY <1>2, <1>3, <1>4, <1>5 DEF Typed

-----------------------------------------------------------------------------
(* Each action keeps the types. *)

\* The conjuncts of Typed that an action may disturb, one by one.
LEMMA ManagerTyped ==
  ASSUME Typed,
         \/ \E D \in SUBSET Devices : ProcessPackage(D)
         \/ ProcessInvalidPackage
         \/ DeleteActivation
  PROVE  Typed'
<1>1. ResetUpdaters /\ requests' = requests
  BY DEF ProcessPackage, ProcessInvalidPackage, DeleteActivation
<1>2. activation' \in Activations /\ deviceUpdaterMap' \in SUBSET Devices
  BY DEF ProcessPackage, ProcessInvalidPackage, DeleteActivation, Activations
<1> QED
  BY <1>1, <1>2, ResetTyped DEF Typed

LEMMA ActivateTyped == Typed /\ ActivatePackage => Typed'
<1> SUFFICES ASSUME Typed, ActivatePackage
             PROVE  Typed'
  OBVIOUS
<1>1. PICK sent \in SUBSET deviceUpdaterMap :
        requests' = [d \in Devices |-> IF d \in sent
                       THEN Append(requests[d], "RequestUpdate") ELSE requests[d]]
  BY DEF ActivatePackage
<1>2. ASSUME NEW d \in Devices
      PROVE  /\ requests[d] \in Seq(RequestKinds)
             /\ Append(requests[d], "RequestUpdate") \in Seq(RequestKinds)
  <2>1. "RequestUpdate" \in RequestKinds /\ requests[d] \in Seq(RequestKinds)
    BY DEF RequestKinds, Typed
  <2> QED
    BY <2>1, AppendProperties
<1>3. requests' \in [Devices -> Seq(RequestKinds)]
  BY <1>1, <1>2
<1>4. /\ activation' \in Activations
      /\ UNCHANGED <<deviceUpdaterMap, completion, updater, orphans, fd, historyVars>>
  BY DEF ActivatePackage, Activations
<1> QED
  BY <1>3, <1>4 DEF Typed, historyVars

LEMMA ResponseTyped ==
  ASSUME Typed, OrphansWait, NEW d \in Devices, Answer(d)
  PROVE  Typed'
<1> USE DEF managerVars, historyVars
<1>1. ASSUME NEW kind \in RequestKinds, RequestFails(d, kind)
      PROVE  Typed'
  <2>1. /\ fd' \in [Devices -> FDType] /\ requests[d] # <<>>
        /\ DropRequest(d) /\ UpdateDeviceCompletion(d, "failure")
        /\ UNCHANGED <<deviceUpdaterMap, updater, orphans, historyVars>>
    BY <1>1, AnswerTyped DEF RequestFails
  <2> QED
    BY <2>1, DropTyped, CompletionTyped DEF Typed
<1>2. CASE RequestUpdateResponse(d)
  <2>1. /\ fd' \in [Devices -> FDType] /\ requests[d] # <<>>
        /\ DropRequest(d)
        /\ UNCHANGED <<deviceUpdaterMap, managerVars, orphans, historyVars>>
    BY <1>2, AnswerTyped DEF RequestUpdateResponse, RequestKinds
  <2>2. [updater[d] EXCEPT !.pldmRequest = "PassComponentTable"] \in UpdaterType(d)
    BY DEF Typed, UpdaterType, RequestKinds
  <2>3. updater' = [updater EXCEPT ![d] =
                      [updater[d] EXCEPT !.pldmRequest = "PassComponentTable"]]
    BY <1>2 DEF RequestUpdateResponse, Typed
  <2> QED
    BY <2>1, <2>2, <2>3, DropTyped, UpdaterChanged DEF Typed
<1>3. CASE PassCompTableResponse(d)
  <2> DEFINE u == updater[d]
  <2>1. /\ fd' \in [Devices -> FDType] /\ requests[d] # <<>>
        /\ DropRequest(d)
        /\ UNCHANGED <<deviceUpdaterMap, managerVars, orphans, historyVars>>
    BY <1>3, AnswerTyped DEF PassCompTableResponse, RequestKinds
  <2>2. \/ Defer(d, "UpdateComponent", 0, u.componentUpdateStatus)
        \/ /\ u.componentIndex # LastComp(d)
           /\ Defer(d, "PassComponentTable", u.componentIndex + 1,
                    u.componentUpdateStatus)
    BY <1>3 DEF PassCompTableResponse
  <2>3. /\ u.componentIndex \in Comps(d)
        /\ u.componentUpdateStatus \in [Comps(d) -> {"unset", "true", "false"}]
        /\ 0 \in Comps(d)
        /\ u.componentIndex # LastComp(d) => u.componentIndex + 1 \in Comps(d)
    BY ComponentsExist DEF Typed, UpdaterType
  <2>4. /\ updater' \in [Devices -> UNION {UpdaterType(e) : e \in Devices}]
        /\ \A e \in Devices : updater'[e] \in UpdaterType(e)
    BY <2>2, <2>3, DeferTyped DEF RequestKinds
  <2> QED
    BY <2>1, <2>4, DropTyped DEF Typed
<1>4. CASE UpdateComponentResponse(d)
  <2> DEFINE u == [updater[d] EXCEPT
                     !.componentUpdateStatus[updater[d].componentIndex] = "true",
                     !.reqFwDataTimer = "created"]
  <2>1. /\ fd' \in [Devices -> FDType] /\ requests[d] # <<>>
        /\ DropRequest(d)
        /\ UNCHANGED <<deviceUpdaterMap, managerVars, orphans, historyVars>>
    BY <1>4, AnswerTyped DEF UpdateComponentResponse, RequestKinds
  <2>2. u \in UpdaterType(d)
    BY DEF Typed, UpdaterType
  <2>3. updater' = [updater EXCEPT ![d] = u]
    BY <1>4 DEF UpdateComponentResponse, Typed
  <2> QED
    BY <2>1, <2>2, <2>3, DropTyped, UpdaterChanged DEF Typed
<1>5. CASE UpdateComponentRefused(d)
  <2> DEFINE u == updater[d]
             c == u.componentIndex
             status == [u.componentUpdateStatus EXCEPT ![c] = "false"]
             o == [outcome[d] EXCEPT ![c] = "refused"]
  <2>1. /\ requests[d] # <<>> /\ DropRequest(d)
        /\ UNCHANGED <<deviceUpdaterMap, orphans, fd, outOfTurn>>
    BY <1>5 DEF UpdateComponentRefused, Answered
  <2>2. o \in OutcomeType(d) /\ outcome' = [outcome EXCEPT ![d] = o]
    BY <1>5 DEF UpdateComponentRefused, Typed, OutcomeType
  <2>3. /\ c \in Comps(d)
        /\ status \in [Comps(d) -> {"unset", "true", "false"}]
        /\ u.pldmRequest \in RequestKinds \cup {"none"}
        /\ 0 \in Comps(d)
        /\ c # LastComp(d) => c + 1 \in Comps(d)
    BY ComponentsExist DEF Typed, UpdaterType
  <2>4. /\ \/ c # LastComp(d) /\ Defer(d, "UpdateComponent", c + 1, status)
           \/ Defer(d, "ActivateFirmware", 0, status)
           \/ Defer(d, u.pldmRequest, c, status)
        /\ UNCHANGED managerVars \/ UpdateDeviceCompletion(d, "failure")
    BY <1>5 DEF UpdateComponentRefused
  <2> HIDE DEF u, c, status, o
  <2>5. /\ updater' \in [Devices -> UNION {UpdaterType(e) : e \in Devices}]
        /\ \A e \in Devices : updater'[e] \in UpdaterType(e)
    BY <2>3, <2>4, DeferTyped DEF RequestKinds
  <2> QED
    BY <2>1, <2>2, <2>4, <2>5, DropTyped, CompletionTyped, OutcomeChanged DEF Typed
<1>6. CASE CancelUpdateComponentResponse(d)
  <2> DEFINE u == updater[d]
             c == u.componentIndex
             status == u.componentUpdateStatus
             next == [status EXCEPT ![c + 1] = "true"]
             unset == [i \in Comps(d) |-> "unset"]
  <2>1. /\ fd' \in [Devices -> FDType] /\ requests[d] # <<>>
        /\ DropRequest(d)
        /\ UNCHANGED <<deviceUpdaterMap, orphans, historyVars>>
    BY <1>6, AnswerTyped DEF CancelUpdateComponentResponse, RequestKinds
  <2>2. /\ c \in Comps(d)
        /\ next \in [Comps(d) -> {"unset", "true", "false"}]
        /\ unset \in [Comps(d) -> {"unset", "true", "false"}]
        /\ 0 \in Comps(d)
        /\ c # LastComp(d) => c + 1 \in Comps(d)
    BY ComponentsExist DEF Typed, UpdaterType
  <2>3. /\ \/ c # LastComp(d) /\ Defer(d, "UpdateComponent", c + 1, next)
           \/ Defer(d, "ActivateFirmware", 0, unset)
           \/ UNCHANGED updater
        /\ UNCHANGED managerVars \/ UpdateDeviceCompletion(d, "failure")
    BY <1>6 DEF CancelUpdateComponentResponse
  <2> HIDE DEF u, c, status, next, unset
  <2>4. /\ updater' \in [Devices -> UNION {UpdaterType(e) : e \in Devices}]
        /\ \A e \in Devices : updater'[e] \in UpdaterType(e)
    <3>1. CASE UNCHANGED updater
      BY <3>1 DEF Typed
    <3>2. CASE c # LastComp(d) /\ Defer(d, "UpdateComponent", c + 1, next)
      BY <3>2, <2>2, DeferTyped DEF RequestKinds
    <3>3. CASE Defer(d, "ActivateFirmware", 0, unset)
      BY <3>3, <2>2, DeferTyped DEF RequestKinds
    <3> QED
      BY <2>3, <3>1, <3>2, <3>3
  <2> QED
    BY <2>1, <2>3, <2>4, DropTyped, CompletionTyped DEF Typed
<1>7. CASE CancelFails(d)
  <2>1. /\ fd' \in [Devices -> FDType] /\ requests[d] # <<>>
        /\ DropRequest(d)
        /\ UNCHANGED <<deviceUpdaterMap, managerVars, updater, orphans, historyVars>>
    BY <1>7, AnswerTyped DEF CancelFails, RequestKinds
  <2> QED
    BY <2>1, DropTyped DEF Typed
<1>8. CASE ActivateFirmwareResponse(d)
  <2>1. /\ fd' \in [Devices -> FDType] /\ requests[d] # <<>>
        /\ DropRequest(d) /\ UpdateDeviceCompletion(d, "success")
        /\ UNCHANGED <<deviceUpdaterMap, updater, orphans, historyVars>>
    BY <1>8, AnswerTyped DEF ActivateFirmwareResponse, RequestKinds
  <2> QED
    BY <2>1, DropTyped, CompletionTyped DEF Typed
<1>9. CASE OrphanCallback(d)
  <2>1. UNCHANGED <<deviceUpdaterMap, managerVars, updater, fd, historyVars>>
    BY <1>9 DEF OrphanCallback
  <2>2. \/ UNCHANGED <<requests, orphans>>
        \/ /\ Head(requests[d]) = "CancelUpdateComponent"
           /\ orphans[d] > 0
           /\ DropRequest(d)
           /\ orphans' = [orphans EXCEPT ![d] = orphans[d] - 1]
    BY <1>9 DEF OrphanCallback, Typed
  <2>3. CASE UNCHANGED <<requests, orphans>>
    BY <2>1, <2>3 DEF Typed
  <2>4. CASE orphans[d] > 0 /\ requests[d] # <<>> /\ DropRequest(d)
             /\ orphans' = [orphans EXCEPT ![d] = orphans[d] - 1]
    <3>1. orphans \in [Devices -> Nat] /\ orphans[d] - 1 \in Nat
      <4>1. orphans \in [Devices -> Nat]
        BY DEF Typed
      <4> QED
        BY <2>4, <4>1
    <3>2. orphans' \in [Devices -> Nat]
      BY <2>4, <3>1
    <3> QED
      BY <2>1, <2>4, <3>2, DropTyped DEF Typed
  <2>5. orphans[d] > 0 => requests[d] # <<>>
    BY DEF OrphansWait, Typed
  <2> QED
    BY <2>2, <2>3, <2>4, <2>5
<1> QED
  BY <1>1, <1>2, <1>3, <1>4, <1>5, <1>6, <1>7, <1>8, <1>9 DEF Answer

\* What the device asks, the deferred request and the timer.
LEMMA EventTyped ==
  ASSUME Typed, NEW d \in Devices,
         \/ SendDeferred(d) \/ RequestFwDataTimeout(d) \/ RequestFwData(d)
         \/ TransferComplete(d) \/ VerifyComplete(d) \/ CompleteWithError(d)
         \/ ApplyComplete(d) \/ RepeatApplyComplete(d) \/ FDReset(d)
  PROVE  Typed'
<1> USE DEF managerVars, historyVars
<1>1. CASE SendDeferred(d)
  <2> DEFINE u == [updater[d] EXCEPT !.pldmRequest = "none"]
  <2>1. u \in UpdaterType(d) /\ updater[d].pldmRequest \in RequestKinds
    BY <1>1 DEF SendDeferred, Typed, UpdaterType
  <2>2. /\ updater' = [updater EXCEPT ![d] = u]
        /\ Register(d, updater[d].pldmRequest)
        /\ UNCHANGED <<deviceUpdaterMap, managerVars, orphans, fd, historyVars>>
    BY <1>1 DEF SendDeferred, Typed
  <2> HIDE DEF u
  <2> QED
    BY <2>1, <2>2, UpdaterChanged, RegisterTyped DEF Typed
<1>2. CASE RequestFwDataTimeout(d)
  <2>1. /\ GiveUpComponent(d, "created")
        /\ UNCHANGED <<deviceUpdaterMap, orphans, fd, outOfTurn>>
    BY <1>2 DEF RequestFwDataTimeout
  <2> QED
    BY <2>1, GiveUpTyped DEF Typed
<1>3. CASE RequestFwData(d)
  <2> DEFINE u == [updater[d] EXCEPT !.reqFwDataTimer = "running"]
  <2>1. u \in UpdaterType(d)
    BY DEF Typed, UpdaterType
  <2>2. /\ updater' = [updater EXCEPT ![d] = u]
        /\ outOfTurn' \in SUBSET Devices
        /\ UNCHANGED <<deviceUpdaterMap, managerVars, requests, orphans, fd, outcome>>
    BY <1>3 DEF RequestFwData, NoteSession, Typed
  <2> HIDE DEF u
  <2> QED
    BY <2>1, <2>2, UpdaterChanged DEF Typed
<1>4. CASE TransferComplete(d)
  <2> DEFINE u == [updater[d] EXCEPT !.reqFwDataTimer = "none"]
             f == [fd[d] EXCEPT !.state = "verify"]
  <2>1. u \in UpdaterType(d) /\ f \in FDType
    <3>1. u \in UpdaterType(d)
      BY DEF Typed, UpdaterType
    <3>2. f \in FDType
      BY DEF Typed, FDType
    <3> QED
      BY <3>1, <3>2
  <2>2. /\ updater' = [updater EXCEPT ![d] = u]
        /\ fd' = [fd EXCEPT ![d] = f] \/ fd' = fd
        /\ outOfTurn' \in SUBSET Devices
        /\ UNCHANGED <<deviceUpdaterMap, managerVars, requests, orphans, outcome>>
    BY <1>4 DEF TransferComplete, NoteSession, Typed
  <2> HIDE DEF u, f
  <2>3. fd' \in [Devices -> FDType]
    BY <2>1, <2>2 DEF Typed
  <2> QED
    BY <2>1, <2>2, <2>3, UpdaterChanged DEF Typed
<1>5. CASE VerifyComplete(d)
  <2> DEFINE f == [fd[d] EXCEPT !.state = "apply"]
  <2>1. f \in FDType
    BY DEF Typed, FDType
  <2>2. /\ fd' = [fd EXCEPT ![d] = f]
        /\ outOfTurn' \in SUBSET Devices
        /\ UNCHANGED <<deviceUpdaterMap, managerVars, updater, requests, orphans, outcome>>
    BY <1>5 DEF VerifyComplete, NoteSession, Typed
  <2> HIDE DEF f
  <2> QED
    BY <2>1, <2>2 DEF Typed
<1>6. CASE CompleteWithError(d)
  <2> DEFINE f == [fd[d] EXCEPT !.state = "failed"]
  <2>1. f \in FDType /\ updater[d].reqFwDataTimer \in {"none", "created", "running"}
    <3>1. f \in FDType
      BY DEF Typed, FDType
    <3>2. updater[d].reqFwDataTimer \in {"none", "created", "running"}
      BY DEF Typed, UpdaterType
    <3> QED
      BY <3>1, <3>2
  <2>2. PICK state \in {"download", "verify", "apply"} :
          GiveUpComponent(d, IF state = "download" THEN "none"
                             ELSE updater[d].reqFwDataTimer)
    BY <1>6 DEF CompleteWithError
  <2>3. PICK timer \in {"none", "created", "running"} : GiveUpComponent(d, timer)
    BY <2>1, <2>2
  <2>4. /\ fd' = [fd EXCEPT ![d] = f]
        /\ outOfTurn' \in SUBSET Devices
        /\ UNCHANGED <<deviceUpdaterMap, orphans>>
    BY <1>6 DEF CompleteWithError, NoteSession, Typed
  <2> HIDE DEF f
  <2>5. fd' \in [Devices -> FDType]
    BY <2>1, <2>4 DEF Typed
  <2> QED
    BY <2>3, <2>4, <2>5, GiveUpTyped DEF Typed
<1>7. ASSUME NextAfterApply(d)
      PROVE  /\ updater' \in [Devices -> UNION {UpdaterType(e) : e \in Devices}]
             /\ \A e \in Devices : updater'[e] \in UpdaterType(e)
  <2> DEFINE u == updater[d]
             c == u.componentIndex
             next == [u.componentUpdateStatus EXCEPT ![c + 1] = "true"]
             first == [i \in Comps(d) |-> IF i = 0 THEN "true" ELSE "unset"]
  <2>1. /\ next \in [Comps(d) -> {"unset", "true", "false"}]
        /\ first \in [Comps(d) -> {"unset", "true", "false"}]
        /\ 0 \in Comps(d)
        /\ c # LastComp(d) => c + 1 \in Comps(d)
    BY ComponentsExist DEF Typed, UpdaterType
  <2>2. \/ Defer(d, "ActivateFirmware", 0, first)
        \/ c # LastComp(d) /\ Defer(d, "UpdateComponent", c + 1, next)
    BY <1>7 DEF NextAfterApply
  <2> HIDE DEF u, c, next, first
  <2>3. CASE Defer(d, "ActivateFirmware", 0, first)
    BY <2>1, <2>3, DeferTyped DEF RequestKinds
  <2>4. CASE c # LastComp(d) /\ Defer(d, "UpdateComponent", c + 1, next)
    BY <2>1, <2>4, DeferTyped DEF RequestKinds
  <2> QED
    BY <2>2, <2>3, <2>4
<1>8. CASE ApplyComplete(d)
  <2> DEFINE f == [fd[d] EXCEPT !.state = "ready", !.last = "applied"]
             o == [outcome[d] EXCEPT ![fd[d].comp] = "applied"]
  <2>1. f \in FDType /\ o \in OutcomeType(d)
    <3>1. f \in FDType
      BY DEF Typed, FDType
    <3>2. o \in OutcomeType(d)
      BY DEF Typed, OutcomeType
    <3> QED
      BY <3>1, <3>2
  <2>2. /\ fd' = [fd EXCEPT ![d] = f]
        /\ outcome' = [outcome EXCEPT ![d] = o]
        /\ NextAfterApply(d)
        /\ outOfTurn' \in SUBSET Devices
        /\ UNCHANGED <<deviceUpdaterMap, managerVars, requests, orphans>>
    BY <1>8 DEF ApplyComplete, NoteSession, Typed
  <2> HIDE DEF f, o
  <2>3. fd' \in [Devices -> FDType]
    BY <2>1, <2>2 DEF Typed
  <2> QED
    BY <2>1, <2>2, <2>3, <1>7, OutcomeChanged DEF Typed
<1>9. CASE RepeatApplyComplete(d)
  <2> DEFINE f == [fd[d] EXCEPT !.last = "none"]
  <2>1. f \in FDType
    BY DEF Typed, FDType
  <2>2. /\ fd' = [fd EXCEPT ![d] = f]
        /\ NextAfterApply(d)
        /\ outOfTurn' \in SUBSET Devices
        /\ UNCHANGED <<deviceUpdaterMap, managerVars, requests, orphans, outcome>>
    BY <1>9 DEF RepeatApplyComplete, Typed
  <2> HIDE DEF f
  <2>3. fd' \in [Devices -> FDType]
    BY <2>1, <2>2 DEF Typed
  <2> QED
    BY <2>2, <2>3, <1>7 DEF Typed
<1>10. CASE FDReset(d)
  <2>1. /\ fd' = [fd EXCEPT ![d] = FDIdle]
        /\ UNCHANGED <<deviceUpdaterMap, managerVars, updater, requests, orphans,
                       historyVars>>
    BY <1>10 DEF FDReset
  <2>2. FDIdle \in FDType
    BY DEF FDIdle, FDType
  <2> QED
    BY <2>1, <2>2 DEF Typed
<1> QED
  BY <1>1, <1>2, <1>3, <1>4, <1>5, <1>6, <1>8, <1>9, <1>10

-----------------------------------------------------------------------------
(* The line of requests, and TypeOK *)

\* What an action of a device's updater, its event or its request does to the
\* line: nothing, or it takes the front away, or it puts one request at the end.
LEMMA LineStep ==
  ASSUME Typed, OrphansWait, NEW d \in Devices, DeviceNext(d)
  PROVE  \/ UNCHANGED <<requests, orphans>>
         \/ /\ requests[d] # <<>> /\ orphans[d] = 0
            /\ requests' = [requests EXCEPT ![d] = Tail(requests[d])]
            /\ orphans' = orphans
         \/ /\ requests[d] # <<>> /\ orphans[d] > 0
            /\ requests' = [requests EXCEPT ![d] = Tail(requests[d])]
            /\ orphans' = [orphans EXCEPT ![d] = orphans[d] - 1]
         \/ /\ \E kind \in RequestKinds :
                 requests' = [requests EXCEPT ![d] = Append(requests[d], kind)]
            /\ orphans' = orphans
<1> USE DEF managerVars, historyVars
<1>1. requests \in [Devices -> Seq(RequestKinds)] /\ orphans \in [Devices -> Nat]
  BY DEF Typed
<1>2. ASSUME Answer(d), ~OrphanCallback(d)
      PROVE  /\ requests[d] # <<>> /\ orphans[d] = 0
             /\ requests' = [requests EXCEPT ![d] = Tail(requests[d])]
             /\ orphans' = orphans
  BY <1>1, <1>2
     DEF Answer, RequestFails, RequestUpdateResponse, PassCompTableResponse,
         UpdateComponentResponse, UpdateComponentRefused,
         CancelUpdateComponentResponse, CancelFails, ActivateFirmwareResponse,
         Accepted, Unanswered, Answered, DropRequest
<1>3. CASE OrphanCallback(d)
  <2>1. orphans[d] > 0 => requests[d] # <<>>
    BY <1>1 DEF OrphansWait
  <2> QED
    BY <1>1, <1>3, <2>1 DEF OrphanCallback, DropRequest
<1>4. ASSUME NEW kind \in RequestKinds, Register(d, kind), orphans' = orphans
      PROVE  \/ UNCHANGED <<requests, orphans>>
             \/ /\ \E k \in RequestKinds :
                     requests' = [requests EXCEPT ![d] = Append(requests[d], k)]
                /\ orphans' = orphans
  BY <1>1, <1>4 DEF Register
<1>5. CASE SendDeferred(d)
  <2>1. updater[d].pldmRequest \in RequestKinds
    BY <1>5 DEF SendDeferred, Typed, UpdaterType
  <2> QED
    BY <1>4, <1>5, <2>1 DEF SendDeferred
<1>6. CASE RequestFwDataTimeout(d) \/ CompleteWithError(d)
  <2>1. "CancelUpdateComponent" \in RequestKinds
    BY DEF RequestKinds
  <2> QED
    BY <1>4, <1>6, <2>1 DEF RequestFwDataTimeout, CompleteWithError, GiveUpComponent
<1>7. CASE \/ RequestFwData(d) \/ TransferComplete(d) \/ VerifyComplete(d)
           \/ ApplyComplete(d) \/ RepeatApplyComplete(d) \/ FDReset(d)
  BY <1>7 DEF RequestFwData, TransferComplete, VerifyComplete, ApplyComplete,
              RepeatApplyComplete, FDReset
<1> QED
  BY <1>2, <1>3, <1>5, <1>6, <1>7 DEF DeviceNext, Answer

LEMMA NextTyped == Typed /\ OrphansWait /\ [Next]_vars => Typed' /\ OrphansWait'
<1> SUFFICES ASSUME Typed, OrphansWait, [Next]_vars
             PROVE  Typed' /\ OrphansWait'
  OBVIOUS
<1>1. requests \in [Devices -> Seq(RequestKinds)] /\ orphans \in [Devices -> Nat]
  BY DEF Typed
<1>2. CASE \/ \E D \in SUBSET Devices : ProcessPackage(D)
           \/ ProcessInvalidPackage
           \/ DeleteActivation
  <2>1. requests' = requests /\ orphans' = [d \in Devices |-> Len(requests[d])]
    BY <1>2 DEF ProcessPackage, ProcessInvalidPackage, DeleteActivation,
                ResetUpdaters, DestroyUpdaters
  <2>2. OrphansWait'
    BY <1>1, <2>1 DEF OrphansWait
  <2> QED
    BY <1>2, <2>2, ManagerTyped
<1>3. CASE ActivatePackage
  <2>1. PICK sent \in SUBSET deviceUpdaterMap :
          requests' = [d \in Devices |-> IF d \in sent
                         THEN Append(requests[d], "RequestUpdate") ELSE requests[d]]
    BY <1>3 DEF ActivatePackage
  <2>2. orphans' = orphans
    BY <1>3 DEF ActivatePackage
  <2>3. ASSUME NEW d \in Devices
        PROVE  orphans'[d] <= Len(requests'[d])
    <3>1. requests[d] \in Seq(RequestKinds) /\ "RequestUpdate" \in RequestKinds
      BY <1>1 DEF RequestKinds
    <3>2. Len(Append(requests[d], "RequestUpdate")) = Len(requests[d]) + 1
      BY <3>1, AppendProperties
    <3>3. Len(requests[d]) \in Nat /\ orphans[d] \in Nat /\ orphans[d] <= Len(requests[d])
      BY <1>1, <3>1 DEF OrphansWait
    <3> QED
      BY <2>1, <2>2, <3>2, <3>3
  <2> QED
    BY <1>3, <2>3, ActivateTyped DEF OrphansWait
<1>4. ASSUME NEW d \in Devices, DeviceNext(d)
      PROVE  Typed' /\ OrphansWait'
  <2>1. Typed'
    BY <1>4, ResponseTyped, EventTyped DEF DeviceNext, Answer
  <2>2. ASSUME NEW e \in Devices
        PROVE  orphans'[e] <= Len(requests'[e])
    <3>1. /\ requests[e] \in Seq(RequestKinds) /\ orphans[e] \in Nat
          /\ orphans[e] <= Len(requests[e])
      BY <1>1 DEF OrphansWait
    <3>2. \A kind \in RequestKinds : Len(Append(requests[e], kind)) = Len(requests[e]) + 1
      BY <3>1, AppendProperties
    <3>3. requests[e] # <<>> => Len(Tail(requests[e])) = Len(requests[e]) - 1
                               /\ Len(requests[e]) >= 1
      BY <3>1
    <3>4. Len(requests[e]) \in Nat
      BY <3>1
    <3>5. \/ requests'[e] = requests[e] /\ orphans'[e] = orphans[e]
          \/ /\ requests[e] # <<>> /\ requests'[e] = Tail(requests[e])
             /\ orphans[e] = 0 /\ orphans'[e] = 0
          \/ /\ requests[e] # <<>> /\ requests'[e] = Tail(requests[e])
             /\ orphans'[e] = orphans[e] - 1
          \/ /\ \E kind \in RequestKinds : requests'[e] = Append(requests[e], kind)
             /\ orphans'[e] = orphans[e]
      <4>1. CASE e = d
        BY <1>1, <1>4, <4>1, LineStep
      <4>2. CASE e # d
        BY <1>1, <1>4, <4>2, LineStep
      <4> QED
        BY <4>1, <4>2
    <3> DEFINE L == Len(requests[e])
               L2 == Len(requests'[e])
               o == orphans[e]
               o2 == orphans'[e]
    <3>6. \/ L2 = L /\ o2 = o
          \/ L >= 1 /\ L2 = L - 1 /\ o = 0 /\ o2 = 0
          \/ L >= 1 /\ L2 = L - 1 /\ o2 = o - 1
          \/ L2 = L + 1 /\ o2 = o
      BY <3>2, <3>3, <3>5
    <3>7. L \in Nat /\ o \in Nat /\ o <= L
      BY <3>1, <3>4
    <3> HIDE DEF L, L2, o, o2
    <3>8. o2 <= L2
      BY <3>6, <3>7
    <3> QED
      BY <3>8 DEF L2, o2
  <2> QED
    BY <2>1, <2>2 DEF OrphansWait
<1>5. CASE UNCHANGED vars
  BY <1>5 DEF vars, Typed, OrphansWait
<1> QED
  BY <1>2, <1>3, <1>4, <1>5 DEF Next

LEMMA InitOrphans == Init => OrphansWait
<1> SUFFICES ASSUME Init, NEW d \in Devices
             PROVE  orphans[d] <= Len(requests[d])
  BY DEF OrphansWait
<1>1. requests[d] = <<>> /\ orphans[d] = 0
  BY DEF Init
<1> QED
  BY <1>1

\* The tables of the UpdateManager and of every DeviceUpdater hold what they
\* may, for any packages, devices and faults: no component index beyond the last.
THEOREM TypeCorrect == Spec => []TypeOK
<1> DEFINE Crash == crashed \in BOOLEAN
<1>1. Init => Crash
  BY DEF Init
<1>2. Crash /\ [Next]_vars => Crash'
  <2> SUFFICES ASSUME Crash, [Next]_vars
               PROVE  Crash'
    OBVIOUS
  <2>1. crashed' = crashed \/ crashed' = TRUE
    BY DEF Next, vars, ProcessPackage, ProcessInvalidPackage, ActivatePackage,
           DeleteActivation, DeviceNext, RequestFails, RequestUpdateResponse,
           PassCompTableResponse, UpdateComponentResponse, UpdateComponentRefused,
           CancelUpdateComponentResponse, CancelFails, ActivateFirmwareResponse,
           OrphanCallback, SendDeferred, RequestFwDataTimeout, RequestFwData,
           TransferComplete, VerifyComplete, CompleteWithError, ApplyComplete,
           RepeatApplyComplete, FDReset
  <2> QED
    BY <2>1, Zenon
<1>3. Typed /\ Crash => TypeOK
  BY ComponentsExist DEF Typed, TypeOK, Activations, UpdaterType, OutcomeType, FDType
<1> QED
  BY <1>1, <1>2, <1>3, InitTyped, InitOrphans, NextTyped, PTL DEF Spec

-----------------------------------------------------------------------------
(* The outcome of the update *)

\* An outcome is backed by the reports of the devices.
VerdictInv ==
  /\ activation = "Failed" => \E d \in deviceUpdaterMap : completion[d] = "failure"
  /\ activation = "Active" => \A d \in deviceUpdaterMap : completion[d] = "success"

\* What a device's action does to the UpdateManager: nothing, or a report.
LEMMA ReportStep ==
  ASSUME Typed, NEW d \in Devices, DeviceNext(d)
  PROVE  /\ deviceUpdaterMap' = deviceUpdaterMap
         /\ \/ UNCHANGED managerVars
            \/ UpdateDeviceCompletion(d, "failure")
            \/ ActivateFirmwareResponse(d) /\ UpdateDeviceCompletion(d, "success")
<1>1. CASE Answer(d)
  BY <1>1
     DEF Answer, RequestFails, RequestUpdateResponse, PassCompTableResponse,
         UpdateComponentResponse, UpdateComponentRefused,
         CancelUpdateComponentResponse, CancelFails, ActivateFirmwareResponse,
         OrphanCallback, managerVars
<1>2. CASE ~Answer(d)
  BY <1>2
     DEF DeviceNext, Answer, SendDeferred, RequestFwDataTimeout, RequestFwData,
         TransferComplete, VerifyComplete, CompleteWithError, ApplyComplete,
         RepeatApplyComplete, FDReset, GiveUpComponent, managerVars
<1> QED
  BY <1>1, <1>2

\* A report does not change an earlier one.
LEMMA ReportKeeps ==
  ASSUME Typed, NEW d \in Devices, NEW result \in {"success", "failure"},
         UpdateDeviceCompletion(d, result)
  PROVE  /\ \A e \in Devices : completion[e] # "none" => completion'[e] = completion[e]
         /\ \A e \in Devices : e # d => completion'[e] = completion[e]
         /\ completion'[d] = IF completion[d] = "none" THEN result ELSE completion[d]
         /\ \A e \in Devices : completion'[e] \in {"none", "success", "failure"}
         /\ activation' = IF \A e \in deviceUpdaterMap : completion'[e] # "none"
                          THEN IF \A e \in deviceUpdaterMap : completion'[e] = "success"
                               THEN "Active" ELSE "Failed"
                          ELSE activation
<1>1. /\ completion \in [Devices -> {"none", "success", "failure"}]
      /\ deviceUpdaterMap \subseteq Devices
  BY DEF Typed
<1>2. completion' = Record(d, result)
  BY DEF UpdateDeviceCompletion
<1>3. /\ completion' \in [Devices -> {"none", "success", "failure"}]
      /\ \A e \in Devices : completion[e] # "none" => completion'[e] = completion[e]
      /\ \A e \in Devices : e # d => completion'[e] = completion[e]
      /\ completion'[d] = IF completion[d] = "none" THEN result ELSE completion[d]
  BY <1>1, <1>2 DEF Record
<1>4. activation' = IF Reported(completion') = deviceUpdaterMap
                    THEN Verdict(completion') ELSE activation
  BY <1>2 DEF UpdateDeviceCompletion
<1>5. Reported(completion') = deviceUpdaterMap
        <=> \A e \in deviceUpdaterMap : completion'[e] # "none"
  BY DEF Reported
<1> QED
  BY <1>1, <1>3, <1>4, <1>5 DEF Verdict

\* With VerdictInv, a step keeps it and keeps an outcome that was announced.
LEMMA VerdictStep ==
  ASSUME Typed, VerdictInv, [Next]_vars
  PROVE  /\ VerdictInv'
         /\ activation = "Failed" => activation' # "Active"
         /\ activation = "Active" => activation' # "Failed"
<1>1. CASE \/ \E D \in SUBSET Devices : ProcessPackage(D)
           \/ ProcessInvalidPackage
           \/ ActivatePackage
           \/ DeleteActivation
  BY <1>1 DEF ProcessPackage, ProcessInvalidPackage, ActivatePackage,
              DeleteActivation, VerdictInv
<1>2. ASSUME NEW d \in Devices, NEW result \in {"success", "failure"},
             UpdateDeviceCompletion(d, result), deviceUpdaterMap' = deviceUpdaterMap
      PROVE  /\ VerdictInv'
             /\ activation = "Failed" => activation' # "Active"
             /\ activation = "Active" => activation' # "Failed"
  <2>1. /\ deviceUpdaterMap \subseteq Devices
        /\ \A e \in Devices : completion'[e] \in {"none", "success", "failure"}
        /\ \A e \in Devices : completion[e] # "none" => completion'[e] = completion[e]
        /\ activation' = IF \A e \in deviceUpdaterMap : completion'[e] # "none"
                         THEN IF \A e \in deviceUpdaterMap : completion'[e] = "success"
                              THEN "Active" ELSE "Failed"
                         ELSE activation
    BY <1>2, ReportKeeps DEF Typed
  <2> QED
    BY <1>2, <2>1 DEF VerdictInv
<1>3. ASSUME NEW d \in Devices, DeviceNext(d)
      PROVE  /\ VerdictInv'
             /\ activation = "Failed" => activation' # "Active"
             /\ activation = "Active" => activation' # "Failed"
  BY <1>2, <1>3, ReportStep DEF managerVars, VerdictInv
<1>4. CASE UNCHANGED vars
  BY <1>4 DEF vars, VerdictInv
<1> QED
  BY <1>1, <1>3, <1>4 DEF Next

\* However many devices go on reporting, failing and timing out after the first
\* failure or the last success, the announced outcome stands until the package is
\* replaced or deleted.
THEOREM OutcomeStableHolds == Spec => OutcomeStable
<1>1. Init => VerdictInv
  BY DEF Init, VerdictInv
<1>2. Typed /\ VerdictInv /\ [Next]_vars => VerdictInv'
  BY VerdictStep
<1>3. Typed /\ VerdictInv /\ [Next]_vars
        => [/\ activation = "Failed" => activation' # "Active"
            /\ activation = "Active" => activation' # "Failed"]_vars
  BY VerdictStep
<1> QED
  BY <1>1, <1>2, <1>3, InitTyped, InitOrphans, NextTyped, PTL DEF Spec, OutcomeStable

-----------------------------------------------------------------------------
(* The component a device works on *)

\* What a device's action leaves alone of the other devices.
LEMMA OthersStep ==
  ASSUME Typed, NEW d \in Devices, DeviceNext(d), NEW e \in Devices, e # d
  PROVE  /\ updater'[e] = updater[e] /\ fd'[e] = fd[e] /\ outcome'[e] = outcome[e]
         /\ requests'[e] = requests[e] /\ orphans'[e] = orphans[e]
         /\ e \in outOfTurn' <=> e \in outOfTurn
<1> USE DEF managerVars, historyVars
<1>1. CASE Answer(d)
  BY <1>1
     DEF Answer, RequestFails, RequestUpdateResponse, PassCompTableResponse,
         UpdateComponentResponse, UpdateComponentRefused,
         CancelUpdateComponentResponse, CancelFails, ActivateFirmwareResponse,
         OrphanCallback, Accepted, Unanswered, DropRequest, Defer, Typed
<1>2. CASE ~Answer(d)
  BY <1>2
     DEF DeviceNext, Answer, SendDeferred, RequestFwDataTimeout, RequestFwData,
         TransferComplete, VerifyComplete, CompleteWithError, ApplyComplete,
         RepeatApplyComplete, FDReset, GiveUpComponent, NextAfterApply, Register,
         NoteSession, Defer, Typed
<1> QED
  BY <1>1, <1>2

-----------------------------------------------------------------------------
(* What an update without failure looks like *)

Busy == {"download", "verify", "apply"}

\* Requests of the present DeviceUpdater that were not called back yet.
Live(d) == Len(requests[d]) - orphans[d]

Quiet(d) == Live(d) = 0 /\ updater[d].pldmRequest = "none"

Pending(d, kind) ==
  \/ updater[d].pldmRequest = kind
  \/ Live(d) = 1 /\ requests[d][Len(requests[d])] = kind

\* The device works on a component of this update.
Working(d) == fd[d].session = "current" /\ fd[d].state \in Busy

Fine(d, c) == outcome[d][c] \in {"applied", "refused"}
FineBefore(d) == \A c \in Comps(d) : c < updater[d].componentIndex => Fine(d, c)
AllFine(d) == \A c \in Comps(d) : Fine(d, c)

\* Until a device reports there is one thing to wait for at a time: an answer, a
\* deferred request, or the device at work on the component of componentIndex; and
\* what came before was applied or refused.
OneThing(d) ==
  /\ Live(d) <= 1
  /\ updater[d].pldmRequest # "none" => Live(d) = 0
  /\ updater[d].reqFwDataTimer = "running" => Quiet(d)
  /\ ~Pending(d, "CancelUpdateComponent")
  /\ Pending(d, "UpdateComponent") => FineBefore(d)
  /\ Pending(d, "ActivateFirmware") => AllFine(d)
  /\ Working(d) => Quiet(d) /\ FineBefore(d)
  /\ Working(d) /\ fd[d].state # "download" => updater[d].reqFwDataTimer # "running"

\* After it reported success nothing goes on that could fail.
Finished(d) ==
  /\ Quiet(d) /\ ~Working(d) /\ AllFine(d)
  /\ updater[d].reqFwDataTimer # "running"

\* Before the activation nothing has begun.
NotBegun(d) ==
  /\ completion[d] = "none" /\ Quiet(d)
  /\ updater[d].reqFwDataTimer # "running"
  /\ fd[d].session # "current"

Orderly(d) ==
  /\ Working(d) => fd[d].comp = updater[d].componentIndex
  /\ completion[d] = "none" => OneThing(d)
  /\ completion[d] = "success" => Finished(d)
  /\ activation = "Ready" => NotBegun(d)

OrderInv == \A d \in deviceUpdaterMap : d \notin outOfTurn => Orderly(d)

\* The line of a device and its present DeviceUpdater.
LEMMA LiveFacts ==
  ASSUME Typed, OrphansWait, NEW d \in Devices
  PROVE  /\ Live(d) \in Nat
         /\ requests[d] \in Seq(RequestKinds) /\ orphans[d] \in Nat
         /\ requests[d] # <<>> => Len(requests[d]) >= 1
         /\ requests[d] # <<>> =>
              /\ Len(Tail(requests[d])) = Len(requests[d]) - 1
              /\ Len(requests[d]) >= 2 =>
                   Tail(requests[d])[Len(Tail(requests[d]))] = requests[d][Len(requests[d])]
              /\ Len(requests[d]) = 1 => Head(requests[d]) = requests[d][Len(requests[d])]
<1>1. requests[d] \in Seq(RequestKinds) /\ orphans[d] \in Nat
  BY DEF Typed
<1>2. Len(requests[d]) \in Nat /\ orphans[d] <= Len(requests[d])
  BY <1>1 DEF OrphansWait
<1>3. Live(d) \in Nat
  BY <1>1, <1>2 DEF Live
<1>4. requests[d] # <<>> => Len(requests[d]) >= 1
  BY <1>1
<1>5. requests[d] # <<>> =>
        /\ Len(Tail(requests[d])) = Len(requests[d]) - 1
        /\ Len(requests[d]) >= 2 =>
             Tail(requests[d])[Len(Tail(requests[d]))] = requests[d][Len(requests[d])]
        /\ Len(requests[d]) = 1 => Head(requests[d]) = requests[d][Len(requests[d])]
  BY <1>1
<1> QED
  BY <1>1, <1>3, <1>4, <1>5

\* An answer belongs to the one thing the device is waited for, if it has not
\* reported; it never comes before the activation or after a success.
LEMMA AnswerInOrder ==
  ASSUME Typed, OrphansWait, NEW d \in Devices, NEW kind \in RequestKinds,
         Orderly(d), Answered(d, kind), DropRequest(d), orphans' = orphans
  PROVE  /\ completion[d] # "success" /\ activation # "Ready"
         /\ completion[d] = "none" =>
              /\ Live(d)' = 0 /\ updater[d].pldmRequest = "none"
              /\ updater[d].reqFwDataTimer # "running"
              /\ Pending(d, kind) /\ kind # "CancelUpdateComponent"
              /\ ~Working(d)
<1>1. requests[d] # <<>> /\ orphans[d] = 0 /\ Head(requests[d]) = kind
  BY DEF Answered
<1>2. requests'[d] = Tail(requests[d]) /\ orphans'[d] = 0
  BY <1>1 DEF DropRequest, Typed
<1>3. Live(d) = Len(requests[d]) /\ Live(d) >= 1 /\ Live(d)' = Live(d) - 1
  BY <1>1, <1>2, LiveFacts DEF Live
<1>4. Live(d) = 1 => Pending(d, kind)
  BY <1>1, <1>3, LiveFacts DEF Pending
<1>5. Live(d) # 0
  BY <1>3, LiveFacts
<1>6. completion[d] # "success" /\ activation # "Ready"
  BY <1>5 DEF Orderly, Finished, NotBegun, Quiet
<1>7. ASSUME completion[d] = "none"
      PROVE  /\ Live(d)' = 0 /\ updater[d].pldmRequest = "none"
             /\ updater[d].reqFwDataTimer # "running"
             /\ Pending(d, kind) /\ kind # "CancelUpdateComponent"
             /\ ~Working(d)
  <2>1. OneThing(d)
    BY <1>7 DEF Orderly
  <2>2. Live(d) = 1
    <3>1. Live(d) <= 1
      BY <2>1 DEF OneThing
    <3>2. Live(d) \in Nat /\ Live(d) >= 1
      BY <1>3, LiveFacts
    <3> HIDE DEF Live
    <3> QED
      BY <3>1, <3>2
  <2>3. Live(d)' = 0
    BY <2>2, <1>3
  <2>4. Pending(d, kind)
    BY <1>4, <2>2
  <2>5. kind # "CancelUpdateComponent"
    BY <2>1, <2>4 DEF OneThing
  <2>6. ~Quiet(d)
    BY <1>5 DEF Quiet
  <2> QED
    BY <2>1, <1>5, <2>3, <2>4, <2>5, <2>6 DEF OneThing
<1> QED
  BY <1>6, <1>7

\* What a request makes of the device.
LEMMA DeviceAfter ==
  ASSUME Typed, NEW d \in Devices, NEW kind \in RequestKinds,
         Accepted(d, kind) \/ Unanswered(d, kind)
  PROVE  \/ fd'[d] = fd[d]
         \/ /\ kind = "UpdateComponent"
            /\ fd'[d].state = "download"
            /\ fd'[d].comp = updater[d].componentIndex
         \/ kind # "UpdateComponent" /\ fd'[d].state \notin Busy
<1>1. fd \in [Devices -> FDType] /\ fd[d] \in FDType
  BY DEF Typed
<1>2. fd'[d] = fd[d] \/ fd'[d] = FDAccepting(d, kind)
  BY <1>1 DEF Accepted, Unanswered
<1>3. CASE kind = "UpdateComponent"
  <2>1. /\ FDAccepting(d, kind).state = "download"
        /\ FDAccepting(d, kind).comp = updater[d].componentIndex
    BY <1>1, <1>3 DEF FDAccepting, FDType
  <2> QED
    BY <1>2, <1>3, <2>1
<1>4. CASE kind # "UpdateComponent"
  <2>1. FDAccepting(d, kind).state \notin Busy
    BY <1>1, <1>4 DEF FDAccepting, FDType, FDIdle, RequestKinds, Busy
  <2> QED
    BY <1>2, <1>4, <2>1
<1> QED
  BY <1>3, <1>4

\* Before the activation begins a device's action does not end.
LEMMA ReadyStays ==
  ASSUME Typed, NEW d \in Devices, DeviceNext(d), activation' = "Ready"
  PROVE  activation = "Ready"
<1>1. ASSUME NEW result \in {"success", "failure"}, UpdateDeviceCompletion(d, result)
      PROVE  activation = "Ready"
  BY <1>1, ReportKeeps
<1> QED
  BY <1>1, ReportStep DEF managerVars

LEMMA ReportOf ==
  ASSUME Typed, NEW d \in Devices, UpdateDeviceCompletion(d, "failure")
  PROVE  completion'[d] # "none" /\ (completion'[d] = "success" => completion[d] = "success")
  BY ReportKeeps

LEMMA ResponseOrder ==
  ASSUME Typed, OrphansWait, NEW d \in Devices, Orderly(d), Answer(d)
  PROVE  Orderly(d)'
<1> USE DEF managerVars, historyVars
<1>0. DeviceNext(d)
  BY DEF DeviceNext, Answer
<1>1. activation' = "Ready" => activation = "Ready"
  BY <1>0, ReadyStays
<1>2. updater[d] \in UpdaterType(d) /\ outcome[d] \in OutcomeType(d)
  BY DEF Typed
<1>3. ASSUME NEW kind \in RequestKinds, RequestFails(d, kind)
      PROVE  Orderly(d)'
  <2>1. /\ Answered(d, kind) /\ Unanswered(d, kind) /\ DropRequest(d)
        /\ orphans' = orphans
        /\ UpdateDeviceCompletion(d, "failure") /\ updater' = updater
    BY <1>3 DEF RequestFails, Unanswered
  <2>2. completion[d] # "success" /\ activation # "Ready"
    BY <2>1, AnswerInOrder
  <2>3. completion'[d] # "none" /\ completion'[d] # "success" /\ activation' # "Ready"
    BY <2>1, <2>2, <1>1, ReportOf
  <2>4. Working(d)' => fd'[d].comp = updater'[d].componentIndex
    BY <2>1, DeviceAfter DEF Working, Orderly
  <2> QED
    BY <2>3, <2>4 DEF Orderly
<1>4. CASE RequestUpdateResponse(d)
  <2>1. /\ Answered(d, "RequestUpdate") /\ Accepted(d, "RequestUpdate")
        /\ DropRequest(d) /\ orphans' = orphans
        /\ UNCHANGED <<activation, completion, outcome>>
        /\ updater'[d] = [updater[d] EXCEPT !.pldmRequest = "PassComponentTable"]
    BY <1>4 DEF RequestUpdateResponse, Accepted, Typed
  <2>2. "RequestUpdate" \in RequestKinds
    BY DEF RequestKinds
  <2>3. /\ completion[d] # "success" /\ activation # "Ready"
        /\ completion[d] = "none" =>
              /\ Live(d)' = 0 /\ updater[d].reqFwDataTimer # "running"
              /\ ~Working(d)
    BY <2>1, <2>2, AnswerInOrder
  <2>4. /\ updater'[d].pldmRequest = "PassComponentTable"
        /\ updater'[d].componentIndex = updater[d].componentIndex
        /\ updater'[d].reqFwDataTimer = updater[d].reqFwDataTimer
    BY <2>1, <1>2 DEF UpdaterType
  <2>5. fd'[d] = fd[d] \/ fd'[d].state \notin Busy
    BY <2>1, <2>2, DeviceAfter
  <2>6. Working(d)' => Working(d) /\ fd'[d] = fd[d]
    BY <2>5 DEF Working
  <2>7. completion[d] = "none" => OneThing(d)'
    BY <2>3, <2>4, <2>6 DEF OneThing, Pending, Quiet
  <2> QED
    BY <2>1, <2>3, <2>4, <2>6, <2>7 DEF Orderly
<1>5. CASE PassCompTableResponse(d)
  <2> DEFINE u == updater[d]
             k == IF u.componentIndex = LastComp(d) THEN "UpdateComponent"
                                                    ELSE "PassComponentTable"
             i == IF u.componentIndex = LastComp(d) THEN 0 ELSE u.componentIndex + 1
  <2>1. /\ Answered(d, "PassComponentTable") /\ Accepted(d, "PassComponentTable")
        /\ DropRequest(d) /\ orphans' = orphans
        /\ UNCHANGED <<activation, completion, outcome>>
        /\ updater'[d] = [u EXCEPT !.pldmRequest = k, !.componentIndex = i,
                                   !.componentUpdateStatus = u.componentUpdateStatus]
    BY <1>5 DEF PassCompTableResponse, Accepted, Defer, Typed
  <2>2. "PassComponentTable" \in RequestKinds
    BY DEF RequestKinds
  <2>3. /\ completion[d] # "success" /\ activation # "Ready"
        /\ completion[d] = "none" =>
              /\ Live(d)' = 0 /\ updater[d].reqFwDataTimer # "running"
              /\ ~Working(d)
    BY <2>1, <2>2, AnswerInOrder
  <2>4. /\ updater'[d].pldmRequest = k
        /\ updater'[d].componentIndex = i
        /\ updater'[d].reqFwDataTimer = updater[d].reqFwDataTimer
    BY <2>1, <1>2 DEF UpdaterType
  <2>5. ~Working(d)'
    <3>1. fd[d].state = "learn" /\ fd'[d] = FDAccepting(d, "PassComponentTable")
      BY <2>1 DEF Accepted, FDExpects, Typed
    <3>2. fd'[d].state \notin Busy
      <4>1. fd[d] \in FDType
        BY DEF Typed
      <4> QED
        BY <3>1, <4>1 DEF FDAccepting, FDType, Busy
    <3> QED
      BY <3>2 DEF Working
  <2>6. k = "UpdateComponent" => FineBefore(d)'
    BY <2>4 DEF FineBefore, Comps
  <2>7. completion[d] = "none" => OneThing(d)'
    BY <2>3, <2>4, <2>5, <2>6 DEF OneThing, Pending, Quiet
  <2> QED
    BY <2>1, <2>3, <2>5, <2>7 DEF Orderly
<1>6. CASE UpdateComponentResponse(d)
  <2> DEFINE u == updater[d]
  <2>1. /\ Answered(d, "UpdateComponent") /\ Accepted(d, "UpdateComponent")
        /\ DropRequest(d) /\ orphans' = orphans
        /\ UNCHANGED <<activation, completion, outcome>>
        /\ updater'[d] = [u EXCEPT !.componentUpdateStatus[u.componentIndex] = "true",
                                   !.reqFwDataTimer = "created"]
    BY <1>6 DEF UpdateComponentResponse, Accepted, Typed
  <2>2. "UpdateComponent" \in RequestKinds
    BY DEF RequestKinds
  <2>3. /\ completion[d] # "success" /\ activation # "Ready"
        /\ completion[d] = "none" =>
              /\ Live(d)' = 0 /\ updater[d].pldmRequest = "none"
              /\ Pending(d, "UpdateComponent")
    BY <2>1, <2>2, AnswerInOrder
  <2>4. /\ updater'[d].pldmRequest = u.pldmRequest
        /\ updater'[d].componentIndex = u.componentIndex
        /\ updater'[d].reqFwDataTimer = "created"
    BY <2>1, <1>2 DEF UpdaterType
  <2>5. fd'[d].comp = u.componentIndex
    <3>1. fd \in [Devices -> FDType]
      BY DEF Typed
    <3>2. fd'[d] = FDAccepting(d, "UpdateComponent")
      BY <2>1, <3>1 DEF Accepted
    <3> QED
      BY <3>1, <3>2 DEF FDAccepting, FDType
  <2>6. completion[d] = "none" => FineBefore(d)'
    BY <2>1, <2>3, <2>4 DEF Orderly, OneThing, FineBefore, Fine
  <2>7. completion[d] = "none" => OneThing(d)'
    BY <2>3, <2>4, <2>6 DEF OneThing, Pending, Quiet
  <2> QED
    BY <2>1, <2>3, <2>4, <2>5, <2>7 DEF Orderly
<1>7. CASE UpdateComponentRefused(d)
  <2> DEFINE u == updater[d]
             c == u.componentIndex
             status == [u.componentUpdateStatus EXCEPT ![c] = "false"]
  <2>1. /\ Answered(d, "UpdateComponent") /\ FDExpects(d, "UpdateComponent")
        /\ DropRequest(d) /\ orphans' = orphans /\ fd' = fd
        /\ outcome'[d] = [outcome[d] EXCEPT ![c] = "refused"]
    BY <1>7 DEF UpdateComponentRefused, Typed
  <2>2. "UpdateComponent" \in RequestKinds /\ c \in Comps(d)
    BY <1>2 DEF RequestKinds, UpdaterType
  <2>3. /\ completion[d] # "success" /\ activation # "Ready"
        /\ completion[d] = "none" =>
              /\ Live(d)' = 0 /\ u.reqFwDataTimer # "running"
              /\ Pending(d, "UpdateComponent")
    BY <2>1, <2>2, AnswerInOrder
  <2>4. ~Working(d)'
    BY <2>1 DEF FDExpects, Working, Busy
  <2>5. completion[d] = "none" =>
          \A j \in Comps(d) : j < c => outcome[d][j] \in {"applied", "refused"}
    BY <2>3 DEF Orderly, OneThing, FineBefore, Fine
  <2>6. completion[d] = "none" =>
          \A j \in Comps(d) : j <= c => outcome'[d][j] \in {"applied", "refused"}
    BY <2>1, <2>2, <2>5, <1>2, ComponentsExist DEF OutcomeType
  <2>7. CASE c # LastComp(d) /\ Defer(d, "UpdateComponent", c + 1, status)
             /\ UNCHANGED managerVars
    <3>1. updater'[d] = [u EXCEPT !.pldmRequest = "UpdateComponent",
                                  !.componentIndex = c + 1,
                                  !.componentUpdateStatus = status]
      BY <2>7 DEF Defer, Typed
    <3>2. /\ updater'[d].pldmRequest = "UpdateComponent"
          /\ updater'[d].componentIndex = c + 1
          /\ updater'[d].reqFwDataTimer = u.reqFwDataTimer
      BY <3>1, <1>2 DEF UpdaterType
    <3>3. completion[d] = "none" => FineBefore(d)'
      BY <2>2, <2>6, <3>2, ComponentsExist DEF FineBefore, Fine
    <3>4. completion[d] = "none" => OneThing(d)'
      BY <2>3, <2>4, <3>2, <3>3 DEF OneThing, Pending, Quiet
    <3> QED
      BY <2>3, <2>4, <2>7, <3>4 DEF Orderly
  <2>8. CASE c = LastComp(d) /\ Defer(d, "ActivateFirmware", 0, status)
             /\ UNCHANGED managerVars
    <3>1. updater'[d] = [u EXCEPT !.pldmRequest = "ActivateFirmware",
                                  !.componentIndex = 0,
                                  !.componentUpdateStatus = status]
      BY <2>8 DEF Defer, Typed
    <3>2. /\ updater'[d].pldmRequest = "ActivateFirmware"
          /\ updater'[d].reqFwDataTimer = u.reqFwDataTimer
      BY <3>1, <1>2 DEF UpdaterType
    <3>3. completion[d] = "none" => AllFine(d)'
      BY <2>6, <2>8, ComponentsExist DEF AllFine, Fine
    <3>4. completion[d] = "none" => OneThing(d)'
      BY <2>3, <2>4, <3>2, <3>3 DEF OneThing, Pending, Quiet
    <3> QED
      BY <2>3, <2>4, <2>8, <3>4 DEF Orderly
  <2>9. CASE UpdateDeviceCompletion(d, "failure")
    BY <2>3, <2>4, <2>9, <1>1, ReportOf DEF Orderly
  <2> QED
    BY <1>7, <2>7, <2>8, <2>9 DEF UpdateComponentRefused
<1>8. CASE CancelUpdateComponentResponse(d)
  <2>1. /\ Answered(d, "CancelUpdateComponent") /\ Accepted(d, "CancelUpdateComponent")
        /\ DropRequest(d) /\ orphans' = orphans
    BY <1>8 DEF CancelUpdateComponentResponse, Accepted
  <2>2. "CancelUpdateComponent" \in RequestKinds
    BY DEF RequestKinds
  <2>3. completion[d] # "success" /\ activation # "Ready" /\ completion[d] # "none"
    BY <2>1, <2>2, AnswerInOrder
  <2>4. ~Working(d)'
    <3>1. fd \in [Devices -> FDType]
      BY DEF Typed
    <3>2. fd'[d] = FDAccepting(d, "CancelUpdateComponent")
      BY <2>1, <3>1 DEF Accepted
    <3>3. fd'[d].state = "ready"
      BY <3>1, <3>2 DEF FDAccepting, FDType
    <3> QED
      BY <3>3 DEF Working, Busy
  <2>5. completion'[d] = completion[d]
    <3>1. UNCHANGED managerVars \/ UpdateDeviceCompletion(d, "failure")
      BY <1>8 DEF CancelUpdateComponentResponse
    <3> QED
      BY <2>3, <3>1, ReportKeeps
  <2> QED
    BY <2>3, <2>4, <2>5, <1>1 DEF Orderly
<1>9. CASE CancelFails(d)
  <2>1. /\ Answered(d, "CancelUpdateComponent") /\ Unanswered(d, "CancelUpdateComponent")
        /\ DropRequest(d) /\ orphans' = orphans
        /\ UNCHANGED <<activation, completion, updater>>
    BY <1>9 DEF CancelFails, Unanswered
  <2>2. "CancelUpdateComponent" \in RequestKinds
    BY DEF RequestKinds
  <2>3. completion[d] # "success" /\ activation # "Ready" /\ completion[d] # "none"
    BY <2>1, <2>2, AnswerInOrder
  <2>4. Working(d)' => fd'[d].comp = updater'[d].componentIndex
    BY <2>1, <2>2, DeviceAfter DEF Working, Orderly
  <2> QED
    BY <2>1, <2>3, <2>4 DEF Orderly
<1>10. CASE ActivateFirmwareResponse(d)
  <2>1. /\ Answered(d, "ActivateFirmware") /\ Accepted(d, "ActivateFirmware")
        /\ DropRequest(d) /\ UpdateDeviceCompletion(d, "success")
        /\ UNCHANGED <<orphans, updater, outcome>>
    BY <1>10 DEF ActivateFirmwareResponse, Accepted
  <2>2. "ActivateFirmware" \in RequestKinds
    BY DEF RequestKinds
  <2>3. /\ completion[d] # "success" /\ activation # "Ready"
        /\ completion[d] = "none" =>
              /\ Live(d)' = 0 /\ updater[d].pldmRequest = "none"
              /\ updater[d].reqFwDataTimer # "running"
              /\ Pending(d, "ActivateFirmware")
    BY <2>1, <2>2, AnswerInOrder
  <2>4. ~Working(d)'
    <3>1. fd \in [Devices -> FDType]
      BY DEF Typed
    <3>2. fd'[d] = FDIdle
      BY <2>1, <3>1 DEF Accepted, FDAccepting
    <3> QED
      BY <3>2 DEF Working, Busy, FDIdle
  <2>5. completion[d] = "none" => AllFine(d)'
    BY <2>1, <2>3 DEF Orderly, OneThing, AllFine, Fine
  <2>6. completion[d] = "none" => Finished(d)'
    BY <2>1, <2>3, <2>4, <2>5 DEF Finished, Quiet
  <2>7. completion'[d] = IF completion[d] = "none" THEN "success" ELSE completion[d]
    BY <2>1, ReportKeeps
  <2> QED
    BY <2>3, <2>4, <2>6, <2>7, <1>1 DEF Orderly
<1>11. CASE OrphanCallback(d)
  <2>1. UNCHANGED <<activation, completion, updater, fd, outcome>>
    BY <1>11 DEF OrphanCallback
  <2>2. /\ Live(d)' = Live(d)
        /\ Live(d) = 1 => requests'[d][Len(requests'[d])] = requests[d][Len(requests[d])]
    <3>1. \/ UNCHANGED <<requests, orphans>>
          \/ /\ requests[d] # <<>> /\ orphans[d] > 0
             /\ requests'[d] = Tail(requests[d])
             /\ orphans'[d] = orphans[d] - 1
      <4>1. orphans[d] > 0 /\ requests[d] # <<>>
        BY <1>11, LiveFacts DEF OrphanCallback, OrphansWait, Typed
      <4> QED
        BY <1>11, <4>1 DEF OrphanCallback, DropRequest, Typed
    <3>2. CASE UNCHANGED <<requests, orphans>>
      BY <3>2 DEF Live
    <3>3. CASE /\ requests[d] # <<>> /\ orphans[d] > 0
               /\ requests'[d] = Tail(requests[d])
               /\ orphans'[d] = orphans[d] - 1
      BY <3>3, LiveFacts DEF Live
    <3> QED
      BY <3>1, <3>2, <3>3
  <2>3. \A k \in RequestKinds : Pending(d, k)' <=> Pending(d, k)
    BY <2>1, <2>2 DEF Pending
  <2> QED
    BY <2>1, <2>2, <2>3
       DEF Orderly, OneThing, Finished, NotBegun, Working, Quiet, AllFine, FineBefore,
           Fine, RequestKinds
<1> QED
  BY <1>3, <1>4, <1>5, <1>6, <1>7, <1>8, <1>9, <1>10, <1>11 DEF Answer

\* NextAfterApply makes one thing pending: the next component or the activation.
LEMMA AfterApply ==
  ASSUME Typed, NEW d \in Devices, NextAfterApply(d)
  PROVE  LET c == updater[d].componentIndex IN
         /\ updater'[d].reqFwDataTimer = updater[d].reqFwDataTimer
         /\ \/ /\ c # LastComp(d)
               /\ updater'[d].pldmRequest = "UpdateComponent"
               /\ updater'[d].componentIndex = c + 1
            \/ /\ c = LastComp(d)
               /\ updater'[d].pldmRequest = "ActivateFirmware"
<1> DEFINE u == updater[d]
           c == u.componentIndex
<1>1. updater[d] \in UpdaterType(d)
        /\ updater \in [Devices -> UNION {UpdaterType(e) : e \in Devices}]
  BY DEF Typed
<1>2. CASE c = LastComp(d)
  <2>1. updater'[d] = [u EXCEPT !.pldmRequest = "ActivateFirmware", !.componentIndex = 0,
                         !.componentUpdateStatus =
                            [i \in Comps(d) |-> IF i = 0 THEN "true" ELSE "unset"]]
    BY <1>1, <1>2 DEF NextAfterApply, Defer
  <2> QED
    BY <1>1, <1>2, <2>1 DEF UpdaterType
<1>3. CASE c # LastComp(d)
  <2>1. updater'[d] = [u EXCEPT !.pldmRequest = "UpdateComponent",
                         !.componentIndex = c + 1,
                         !.componentUpdateStatus =
                            [u.componentUpdateStatus EXCEPT ![c + 1] = "true"]]
    BY <1>1, <1>3 DEF NextAfterApply, Defer
  <2> QED
    BY <1>1, <1>3, <2>1 DEF UpdaterType
<1> QED
  BY <1>2, <1>3

LEMMA EventOrder ==
  ASSUME Typed, OrphansWait, NEW d \in Devices, Orderly(d),
         DeviceNext(d), ~Answer(d), d \notin outOfTurn'
  PROVE  Orderly(d)'
<1> USE DEF managerVars, historyVars
<1>1. activation' = "Ready" => activation = "Ready"
  BY ReadyStays
<1>2. /\ updater[d] \in UpdaterType(d) /\ outcome[d] \in OutcomeType(d)
      /\ fd[d] \in FDType
  BY DEF Typed
<1>3. ASSUME NoteSession(d)
      PROVE  fd[d].session = "current"
  BY <1>3 DEF NoteSession, Typed
<1>4. ASSUME NEW timer, GiveUpComponent(d, timer), Working(d)' => Working(d),
             completion[d] # "success", activation # "Ready", fd'[d].comp = fd[d].comp
      PROVE  Orderly(d)'
  <2>1. UpdateDeviceCompletion(d, "failure")
    BY <1>4 DEF GiveUpComponent
  <2>2. updater'[d].componentIndex = updater[d].componentIndex
    BY <1>2, <1>4 DEF GiveUpComponent, Typed, UpdaterType
  <2> QED
    BY <1>1, <1>4, <2>1, <2>2, ReportOf DEF Orderly
<1>5. CASE SendDeferred(d)
  <2> DEFINE k == updater[d].pldmRequest
  <2>1. /\ UNCHANGED <<activation, completion, orphans, fd, outcome>>
        /\ updater'[d] = [updater[d] EXCEPT !.pldmRequest = "none"]
        /\ k # "none" /\ k \in RequestKinds /\ Register(d, k)
    BY <1>2, <1>5 DEF SendDeferred, Typed, UpdaterType
  <2>2. /\ updater'[d].pldmRequest = "none"
        /\ updater'[d].componentIndex = updater[d].componentIndex
        /\ updater'[d].reqFwDataTimer = updater[d].reqFwDataTimer
    BY <2>1, <1>2 DEF UpdaterType
  <2>3. \/ requests'[d] = requests[d]
        \/ requests'[d] = Append(requests[d], k)
    BY <2>1 DEF Register, Typed
  <2>4. \/ Live(d)' = Live(d)
        \/ Live(d)' = Live(d) + 1 /\ requests'[d][Len(requests'[d])] = k
    <3>1. /\ Len(Append(requests[d], k)) = Len(requests[d]) + 1
          /\ Append(requests[d], k)[Len(requests[d]) + 1] = k
      BY <2>1, LiveFacts, AppendProperties
    <3>2. Len(requests[d]) \in Nat /\ orphans[d] \in Nat /\ orphans'[d] = orphans[d]
      BY <2>1, LiveFacts
    <3>3. CASE requests'[d] = requests[d]
      BY <3>2, <3>3 DEF Live
    <3>4. CASE requests'[d] = Append(requests[d], k)
      <4>1. /\ Len(requests'[d]) = Len(requests[d]) + 1
            /\ requests'[d][Len(requests'[d])] = k
        BY <3>1, <3>4
      <4> QED
        BY <3>2, <4>1 DEF Live
    <3> QED
      BY <2>3, <3>3, <3>4
  <2>5. /\ completion[d] # "success" /\ activation # "Ready"
        /\ completion[d] = "none" =>
             /\ OneThing(d) /\ Live(d) = 0 /\ Pending(d, k)
             /\ updater[d].reqFwDataTimer # "running" /\ ~Working(d)
    BY <2>1 DEF Orderly, OneThing, Finished, NotBegun, Quiet, Pending
  <2>6. /\ Working(d)' <=> Working(d)
        /\ FineBefore(d)' <=> FineBefore(d)
        /\ AllFine(d)' <=> AllFine(d)
        /\ fd'[d].comp = fd[d].comp
    BY <2>1, <2>2 DEF Working, FineBefore, AllFine, Fine
  <2>7. ASSUME completion[d] = "none"
        PROVE  OneThing(d)'
    <3>1. \A x \in RequestKinds : Pending(d, x)' => x = k /\ Pending(d, x)
      BY <2>1, <2>2, <2>4, <2>5, <2>7 DEF Pending, RequestKinds
    <3>2. Live(d)' \in {0, 1}
      BY <2>4, <2>5, <2>7
    <3>3. k # "CancelUpdateComponent" /\ (k = "UpdateComponent" => FineBefore(d))
          /\ (k = "ActivateFirmware" => AllFine(d))
      BY <2>5, <2>7 DEF OneThing
    <3> QED
      BY <2>2, <2>5, <2>6, <2>7, <3>1, <3>2, <3>3 DEF OneThing, RequestKinds
  <2> QED
    BY <2>1, <2>2, <2>5, <2>6, <2>7 DEF Orderly
<1>6. CASE RequestFwDataTimeout(d)
  <2>1. GiveUpComponent(d, "created") /\ fd' = fd
        /\ updater[d].reqFwDataTimer = "running"
    BY <1>6 DEF RequestFwDataTimeout
  <2>2. completion[d] # "success" /\ activation # "Ready"
    BY <2>1 DEF Orderly, Finished, NotBegun
  <2> QED
    BY <2>1, <2>2, <1>4 DEF Working
<1>7. CASE RequestFwData(d)
  <2>1. /\ NoteSession(d) /\ fd[d].state = "download"
        /\ UNCHANGED <<activation, completion, requests, orphans, fd, outcome>>
        /\ updater'[d] = [updater[d] EXCEPT !.reqFwDataTimer = "running"]
    BY <1>7 DEF RequestFwData, FDSends, Typed
  <2>2. /\ updater'[d].pldmRequest = updater[d].pldmRequest
        /\ updater'[d].componentIndex = updater[d].componentIndex
    BY <2>1, <1>2 DEF UpdaterType
  <2>3. Working(d) /\ fd[d].session = "current"
    BY <2>1, <1>3 DEF Working, Busy
  <2>4. completion[d] # "success" /\ activation # "Ready"
    BY <2>3 DEF Orderly, Finished, NotBegun
  <2>5. /\ Live(d)' = Live(d) /\ (Quiet(d)' <=> Quiet(d))
        /\ \A k \in RequestKinds : Pending(d, k)' <=> Pending(d, k)
        /\ FineBefore(d)' <=> FineBefore(d)
        /\ AllFine(d)' <=> AllFine(d)
        /\ Working(d)' <=> Working(d)
    BY <2>1, <2>2 DEF Live, Quiet, Pending, FineBefore, AllFine, Fine, Working
  <2>6. completion[d] = "none" => OneThing(d)'
    BY <2>1, <2>2, <2>3, <2>5 DEF Orderly, OneThing, RequestKinds
  <2> QED
    BY <2>1, <2>2, <2>3, <2>4, <2>6 DEF Orderly
<1>8. CASE TransferComplete(d) \/ VerifyComplete(d)
  <2>1. /\ NoteSession(d) /\ fd[d].state \in {"download", "verify"}
        /\ UNCHANGED <<activation, completion, requests, orphans, outcome>>
        /\ \/ /\ fd[d].state = "download"
              /\ updater'[d] = [updater[d] EXCEPT !.reqFwDataTimer = "none"]
           \/ fd[d].state = "verify" /\ updater'[d] = updater[d]
        /\ \/ fd'[d] = fd[d]
           \/ fd'[d] = [fd[d] EXCEPT !.state = "verify"]
           \/ fd'[d] = [fd[d] EXCEPT !.state = "apply"]
    BY <1>8 DEF TransferComplete, VerifyComplete, FDSends, Typed
  <2>2. /\ updater'[d].pldmRequest = updater[d].pldmRequest
        /\ updater'[d].componentIndex = updater[d].componentIndex
        /\ \/ updater'[d].reqFwDataTimer = "none"
           \/ /\ fd[d].state # "download"
              /\ updater'[d].reqFwDataTimer = updater[d].reqFwDataTimer
    BY <2>1, <1>2 DEF UpdaterType
  <2>3. /\ fd'[d].comp = fd[d].comp /\ fd'[d].session = fd[d].session
        /\ fd'[d].state \in Busy
    BY <2>1, <1>2 DEF FDType, Busy
  <2>4. Working(d) /\ Working(d)' /\ fd[d].session = "current"
    BY <2>1, <2>3, <1>3 DEF Working, Busy
  <2>5. completion[d] # "success" /\ activation # "Ready"
    BY <2>4 DEF Orderly, Finished, NotBegun
  <2>6. /\ Live(d)' = Live(d) /\ (Quiet(d)' <=> Quiet(d))
        /\ \A k \in RequestKinds : Pending(d, k)' <=> Pending(d, k)
        /\ FineBefore(d)' <=> FineBefore(d)
        /\ AllFine(d)' <=> AllFine(d)
    BY <2>1, <2>2 DEF Live, Quiet, Pending, FineBefore, AllFine, Fine
  <2>7. completion[d] = "none" => updater'[d].reqFwDataTimer # "running"
    BY <2>2, <2>4 DEF Orderly, OneThing
  <2>8. completion[d] = "none" => OneThing(d)'
    BY <2>1, <2>2, <2>4, <2>6, <2>7 DEF Orderly, OneThing, RequestKinds
  <2> QED
    BY <2>1, <2>2, <2>3, <2>4, <2>5, <2>8 DEF Orderly
<1>9. CASE CompleteWithError(d)
  <2>1. /\ NoteSession(d) /\ fd[d].state \in Busy
        /\ \E timer : GiveUpComponent(d, timer)
        /\ fd'[d] = [fd[d] EXCEPT !.state = "failed"]
    BY <1>9 DEF CompleteWithError, FDSends, Typed, Busy
  <2>2. fd'[d].comp = fd[d].comp /\ fd'[d].state = "failed"
    BY <2>1, <1>2 DEF FDType
  <2>3. Working(d) /\ ~Working(d)' /\ fd[d].session = "current"
    BY <2>1, <2>2, <1>3 DEF Working, Busy
  <2>4. completion[d] # "success" /\ activation # "Ready"
    BY <2>3 DEF Orderly, Finished, NotBegun
  <2> QED
    BY <2>1, <2>2, <2>3, <2>4, <1>4
<1>10. CASE ApplyComplete(d)
  <2> DEFINE c == updater[d].componentIndex
  <2>1. /\ NoteSession(d) /\ fd[d].state = "apply" /\ NextAfterApply(d)
        /\ UNCHANGED <<activation, completion, requests, orphans>>
        /\ fd'[d] = [fd[d] EXCEPT !.state = "ready", !.last = "applied"]
        /\ outcome'[d] = [outcome[d] EXCEPT ![fd[d].comp] = "applied"]
    BY <1>10 DEF ApplyComplete, FDSends, Typed
  <2>2. Working(d) /\ ~Working(d)' /\ fd[d].session = "current" /\ fd[d].comp = c
    BY <2>1, <1>2, <1>3 DEF Working, Busy, FDType, Orderly
  <2>3. completion[d] # "success" /\ activation # "Ready"
    BY <2>2 DEF Orderly, Finished, NotBegun
  <2>4. ASSUME completion[d] = "none"
        PROVE  OneThing(d)'
    <3>1. /\ Live(d) = 0 /\ Live(d)' = 0 /\ FineBefore(d)
          /\ updater[d].reqFwDataTimer # "running"
      BY <2>1, <2>2, <2>4 DEF Orderly, OneThing, Quiet, Live
    <3>2. c \in Comps(d)
      BY <1>2 DEF UpdaterType
    <3>3. \A j \in Comps(d) : j <= c => outcome'[d][j] \in {"applied", "refused"}
      BY <2>1, <2>2, <3>1, <3>2, <1>2, ComponentsExist DEF FineBefore, Fine, OutcomeType
    <3>4. CASE /\ c # LastComp(d)
               /\ updater'[d].pldmRequest = "UpdateComponent"
               /\ updater'[d].componentIndex = c + 1
               /\ updater'[d].reqFwDataTimer = updater[d].reqFwDataTimer
      <4>1. FineBefore(d)'
        BY <3>2, <3>3, <3>4, ComponentsExist DEF FineBefore, Fine
      <4> QED
        BY <2>2, <3>1, <3>4, <4>1 DEF OneThing, Pending, Quiet
    <3>5. CASE /\ c = LastComp(d)
               /\ updater'[d].pldmRequest = "ActivateFirmware"
               /\ updater'[d].reqFwDataTimer = updater[d].reqFwDataTimer
      <4>1. AllFine(d)'
        BY <3>3, <3>5, ComponentsExist DEF AllFine, Fine
      <4> QED
        BY <2>2, <3>1, <3>5, <4>1 DEF OneThing, Pending, Quiet
    <3> QED
      BY <2>1, <3>4, <3>5, AfterApply
  <2> QED
    BY <2>1, <2>2, <2>3, <2>4 DEF Orderly
<1>11. CASE RepeatApplyComplete(d)
  <2>1. d \in outOfTurn'
    BY <1>11 DEF RepeatApplyComplete
  <2> QED
    BY <2>1
<1>12. CASE FDReset(d)
  <2>1. /\ UNCHANGED <<activation, completion, updater, requests, orphans, outcome>>
        /\ fd'[d] = FDIdle
    BY <1>12 DEF FDReset, Typed
  <2>2. ~Working(d)' /\ fd'[d].session # "current"
    BY <2>1 DEF Working, Busy, FDIdle
  <2>3. /\ Live(d)' = Live(d) /\ (Quiet(d)' <=> Quiet(d))
        /\ \A k \in RequestKinds : Pending(d, k)' <=> Pending(d, k)
        /\ FineBefore(d)' <=> FineBefore(d)
        /\ AllFine(d)' <=> AllFine(d)
    BY <2>1 DEF Live, Quiet, Pending, FineBefore, AllFine, Fine
  <2>4. OneThing(d) => OneThing(d)'
    BY <2>1, <2>2, <2>3 DEF OneThing, RequestKinds
  <2>5. (Finished(d) => Finished(d)') /\ (NotBegun(d) => NotBegun(d)')
    BY <2>1, <2>2, <2>3 DEF Finished, NotBegun
  <2> QED
    BY <2>1, <2>2, <2>4, <2>5 DEF Orderly
<1> QED
  BY <1>5, <1>6, <1>7, <1>8, <1>9, <1>10, <1>11, <1>12 DEF DeviceNext, Answer

LEMMA InitOrder == Init => OrderInv
  BY DEF Init, OrderInv

LEMMA NextOrder ==
  ASSUME Typed, OrphansWait, OrderInv, [Next]_vars
  PROVE  OrderInv'
<1> SUFFICES ASSUME NEW e \in Devices, e \in deviceUpdaterMap', e \notin outOfTurn'
             PROVE  Orderly(e)'
  <2>1. deviceUpdaterMap' \subseteq Devices
    BY NextTyped DEF Typed
  <2> QED
    BY <2>1 DEF OrderInv
<1>1. CASE \E D \in SUBSET Devices : ProcessPackage(D)
  <2>1. ResetUpdaters /\ requests' = requests
    BY <1>1 DEF ProcessPackage
  <2>2. /\ completion'[e] = "none"
        /\ updater'[e] = NewUpdater(e)
        /\ requests'[e] = requests[e] /\ orphans'[e] = Len(requests[e])
        /\ fd'[e] = IF fd[e].session = "current" THEN [fd[e] EXCEPT !.session = "stale"]
                                                 ELSE fd[e]
    BY <2>1 DEF ResetUpdaters, DestroyUpdaters
  <2>3. updater'[e].pldmRequest = "none" /\ updater'[e].reqFwDataTimer = "none"
    BY <2>2 DEF NewUpdater
  <2>4. fd'[e].session # "current"
    <3>1. fd[e] \in FDType
      BY DEF Typed
    <3> QED
      BY <2>2, <3>1 DEF FDType
  <2>5. Live(e)' = 0
    BY <2>2, LiveFacts DEF Live
  <2>6. \A k \in RequestKinds : ~Pending(e, k)'
    BY <2>3, <2>5 DEF Pending, RequestKinds
  <2> QED
    BY <2>2, <2>3, <2>4, <2>5, <2>6
       DEF Orderly, OneThing, NotBegun, Quiet, Working, RequestKinds
<1>2. CASE ProcessInvalidPackage \/ DeleteActivation
  BY <1>2 DEF ProcessInvalidPackage, DeleteActivation
<1>3. CASE ActivatePackage
  <2>1. /\ activation = "Ready" /\ activation' = "Activating"
        /\ e \in deviceUpdaterMap /\ e \notin outOfTurn
        /\ UNCHANGED <<completion, updater, orphans, fd, outcome>>
        /\ \/ requests'[e] = requests[e]
           \/ requests'[e] = Append(requests[e], "RequestUpdate")
    BY <1>3 DEF ActivatePackage, historyVars
  <2>2. Orderly(e) /\ NotBegun(e)
    BY <2>1 DEF OrderInv, Orderly
  <2>3. \/ Live(e)' = 0
        \/ Live(e)' = 1 /\ requests'[e][Len(requests'[e])] = "RequestUpdate"
    <3>1. /\ Len(Append(requests[e], "RequestUpdate")) = Len(requests[e]) + 1
          /\ Append(requests[e], "RequestUpdate")[Len(requests[e]) + 1] = "RequestUpdate"
      BY LiveFacts, AppendProperties DEF RequestKinds
    <3>2. /\ Len(requests[e]) \in Nat /\ orphans[e] \in Nat /\ orphans'[e] = orphans[e]
          /\ Live(e) = 0
      BY <2>1, <2>2, LiveFacts DEF NotBegun, Quiet
    <3>3. CASE requests'[e] = requests[e]
      BY <3>2, <3>3 DEF Live
    <3>4. CASE requests'[e] = Append(requests[e], "RequestUpdate")
      <4>1. /\ Len(requests'[e]) = Len(requests[e]) + 1
            /\ requests'[e][Len(requests'[e])] = "RequestUpdate"
        BY <3>1, <3>4
      <4> QED
        BY <3>2, <4>1 DEF Live
    <3> QED
      BY <2>1, <3>3, <3>4
  <2>4. \A k \in RequestKinds : Pending(e, k)' => k = "RequestUpdate"
    BY <2>1, <2>2, <2>3 DEF Pending, NotBegun, Quiet, RequestKinds
  <2>5. ~Working(e)'
    BY <2>1, <2>2 DEF NotBegun, Working
  <2> QED
    BY <2>1, <2>2, <2>3, <2>4, <2>5
       DEF Orderly, OneThing, NotBegun, Quiet, RequestKinds
<1>4. ASSUME NEW d \in Devices, DeviceNext(d)
      PROVE  Orderly(e)'
  <2>1. e \in deviceUpdaterMap
    BY <1>4, ReportStep
  <2>2. CASE e = d
    <3>1. d \notin outOfTurn
      BY <1>4, <2>2
         DEF DeviceNext, RequestFails, RequestUpdateResponse, PassCompTableResponse,
             UpdateComponentResponse, UpdateComponentRefused,
             CancelUpdateComponentResponse, CancelFails, ActivateFirmwareResponse,
             OrphanCallback, SendDeferred, RequestFwDataTimeout, RequestFwData,
             TransferComplete, VerifyComplete, CompleteWithError, ApplyComplete,
             RepeatApplyComplete, FDReset, NoteSession, historyVars
    <3>2. Orderly(d)
      BY <2>1, <2>2, <3>1 DEF OrderInv
    <3> QED
      BY <1>4, <2>2, <3>2, ResponseOrder, EventOrder
  <2>3. CASE e # d
    <3>1. /\ updater'[e] = updater[e] /\ fd'[e] = fd[e] /\ outcome'[e] = outcome[e]
          /\ requests'[e] = requests[e] /\ orphans'[e] = orphans[e]
          /\ e \notin outOfTurn
      BY <1>4, <2>3, OthersStep
    <3>2. completion'[e] = completion[e]
      BY <1>4, <2>3, ReportStep, ReportKeeps DEF managerVars
    <3>3. activation' = "Ready" => activation = "Ready"
      BY <1>4, ReadyStays
    <3>4. Orderly(e)
      BY <2>1, <3>1 DEF OrderInv
    <3>5. /\ Live(e)' = Live(e) /\ (Quiet(e)' <=> Quiet(e))
          /\ \A k \in RequestKinds : Pending(e, k)' <=> Pending(e, k)
          /\ FineBefore(e)' <=> FineBefore(e)
          /\ AllFine(e)' <=> AllFine(e)
          /\ Working(e)' <=> Working(e)
      BY <3>1 DEF Live, Quiet, Pending, FineBefore, AllFine, Fine, Working
    <3>6. /\ OneThing(e) => OneThing(e)'
          /\ Finished(e) => Finished(e)'
          /\ NotBegun(e) => NotBegun(e)'
      BY <3>1, <3>2, <3>5 DEF OneThing, Finished, NotBegun, RequestKinds
    <3> QED
      BY <3>1, <3>2, <3>3, <3>4, <3>5, <3>6 DEF Orderly
  <2> QED
    BY <2>2, <2>3
<1>5. CASE UNCHANGED vars
  <2>1. Orderly(e)
    BY <1>5 DEF OrderInv, vars
  <2> QED
    BY <1>5, <2>1
       DEF vars, Orderly, OneThing, Finished, NotBegun, Live, Quiet, Pending,
           FineBefore, AllFine, Fine, Working
<1> QED
  BY <1>1, <1>2, <1>3, <1>4, <1>5 DEF Next

\* The image that a device downloads, verifies and applies is of the component
\* that its DeviceUpdater serves: whatever failed, was cancelled, timed out or was
\* refused before, and whatever the other devices do.
THEOREM ServesRightComponentHolds == Spec => []ServesRightComponent
<1>1. Typed /\ OrderInv => ServesRightComponent
  BY DEF Typed, OrderInv, Orderly, Working, Busy, ServesRightComponent
<1> QED
  BY <1>1, InitTyped, InitOrphans, InitOrder, NextTyped, NextOrder, PTL DEF Spec

\* The package becomes Active only when every component of every device was
\* applied or refused by its device, even if requests may be slow, get lost or not
\* be sent at all.
THEOREM ActiveMeansUpdatedHolds == Spec => []ActiveMeansUpdated
<1>1. Init => VerdictInv
  BY DEF Init, VerdictInv
<1>2. Typed /\ VerdictInv /\ [Next]_vars => VerdictInv'
  BY VerdictStep
<1>3. OrderInv /\ VerdictInv => ActiveMeansUpdated
  BY DEF OrderInv, VerdictInv, Orderly, Finished, AllFine, Fine, ActiveMeansUpdated
<1> QED
  BY <1>1, <1>2, <1>3, InitTyped, InitOrphans, InitOrder, NextTyped, NextOrder,
     PTL DEF Spec

-----------------------------------------------------------------------------
(* What goes before ActivateFirmware *)

\* The request at k is of the present DeviceUpdater.
LiveAt(d, k) == k \in DOMAIN requests[d] /\ k > orphans[d]

Waiting(d, kind) == \E k \in DOMAIN requests[d] : LiveAt(d, k) /\ requests[d][k] = kind
Due(d, kind) == updater[d].pldmRequest = kind \/ Waiting(d, kind)

\* A request that takes the update on, as every one but a cancellation does.
Steps == RequestKinds \ {"CancelUpdateComponent"}
StepDue(d) == \E kind \in Steps : Due(d, kind)

Engaged(d) == fd[d].state \in Busy \cup {"failed"}
NoneTrue(d) == \A c \in Comps(d) : updater[d].componentUpdateStatus[c] # "true"
SomeApplied(d) == \E c \in Comps(d) : outcome[d][c] = "applied"

\* Before the activation nothing was sent, marked or timed.
Untouched(d) ==
  activation = "Ready" =>
    /\ updater[d].pldmRequest = "none" /\ \A kind \in RequestKinds : ~Waiting(d, kind)
    /\ updater[d].reqFwDataTimer # "running"
    /\ fd[d].session # "current" /\ NoneTrue(d)

\* Only a next step is deferred; RequestUpdate and cancellations are sent at once.
DeferredStep(d) ==
  updater[d].pldmRequest \notin {"RequestUpdate", "CancelUpdateComponent"}

\* A step has nothing behind it in the line, nor a step deferred.
StepIsLast(d) ==
  \A k \in DOMAIN requests[d] :
    LiveAt(d, k) /\ requests[d][k] # "CancelUpdateComponent" =>
      k = Len(requests[d]) /\ updater[d].pldmRequest = "none"

\* RequestUpdate is the first of its DeviceUpdater: the device is not in its update.
StartIsFirst(d) ==
  \A k \in DOMAIN requests[d] :
    LiveAt(d, k) /\ requests[d][k] = "RequestUpdate" =>
      k = orphans[d] + 1 /\ fd[d].session # "current"

\* While the device is engaged in a component there is no step to take, but to start.
StepWaits(d) == StepDue(d) /\ Engaged(d) => Waiting(d, "RequestUpdate")

\* The flag of a component that was left behind tells the truth.
TrueWasApplied(d) ==
  \A c \in Comps(d) :
    c < updater[d].componentIndex /\ updater[d].componentUpdateStatus[c] = "true" =>
      outcome[d][c] = "applied"

\* A component that the device may still cancel is marked as not updated.
CancelledIsFalse(d) ==
  Waiting(d, "CancelUpdateComponent") /\ Engaged(d) =>
    updater[d].componentUpdateStatus[updater[d].componentIndex] = "false"

NoneTrueYet(d) ==
  Due(d, "RequestUpdate") \/ Due(d, "PassComponentTable") => NoneTrue(d)

AppliedFirst(d) == Due(d, "ActivateFirmware") => SomeApplied(d)

Stepwise(d) ==
  /\ Untouched(d) /\ DeferredStep(d) /\ StepIsLast(d) /\ StartIsFirst(d) /\ StepWaits(d)
  /\ TrueWasApplied(d) /\ CancelledIsFalse(d) /\ NoneTrueYet(d) /\ AppliedFirst(d)

StepInv == \A d \in deviceUpdaterMap : d \notin outOfTurn => Stepwise(d)

\* What becomes of the line when its head is answered, or something joins it.
LEMMA LineFacts ==
  ASSUME Typed, OrphansWait, NEW d \in Devices
  PROVE  /\ requests[d] \in Seq(RequestKinds) /\ DOMAIN requests[d] = 1..Len(requests[d])
         /\ Len(requests[d]) \in Nat /\ orphans[d] \in Nat
         /\ orphans[d] <= Len(requests[d])
<1>1. requests[d] \in Seq(RequestKinds) /\ orphans[d] \in Nat
  BY DEF Typed
<1> QED
  BY <1>1 DEF OrphansWait

LEMMA LineDropped ==
  ASSUME Typed, OrphansWait, NEW d \in Devices, requests[d] # <<>>,
         requests'[d] = Tail(requests[d]),
         orphans'[d] = IF orphans[d] = 0 THEN 0 ELSE orphans[d] - 1
  PROVE  /\ DOMAIN requests'[d] = 1..Len(requests'[d])
         /\ Len(requests'[d]) = Len(requests[d]) - 1
         /\ \A k \in DOMAIN requests'[d] :
              /\ k \in Nat \ {0} /\ requests'[d][k] = requests[d][k + 1]
              /\ LiveAt(d, k)' => LiveAt(d, k + 1)
         /\ \A kind : Waiting(d, kind)' => Waiting(d, kind)
<1>1. /\ requests[d] \in Seq(RequestKinds) /\ DOMAIN requests[d] = 1..Len(requests[d])
      /\ Len(requests[d]) \in Nat /\ orphans[d] \in Nat
      /\ orphans[d] <= Len(requests[d])
  BY LineFacts
<1>2. /\ Tail(requests[d]) \in Seq(RequestKinds)
      /\ Len(Tail(requests[d])) = Len(requests[d]) - 1
      /\ \A k \in 1..Len(Tail(requests[d])) : Tail(requests[d])[k] = requests[d][k + 1]
  BY <1>1
<1>3. DOMAIN requests'[d] = 1..Len(requests'[d])
  BY <1>2
<1>4. ASSUME NEW k \in DOMAIN requests'[d]
      PROVE  /\ k \in Nat \ {0} /\ requests'[d][k] = requests[d][k + 1]
             /\ LiveAt(d, k)' => LiveAt(d, k + 1)
  <2>1. k \in 1..Len(Tail(requests[d])) /\ k \in Nat \ {0} /\ k + 1 \in 1..Len(requests[d])
    BY <1>1, <1>2, <1>3
  <2>2. LiveAt(d, k)' => k > orphans'[d]
    BY DEF LiveAt
  <2>3. k > orphans'[d] => k + 1 > orphans[d]
    BY <1>1, <2>1
  <2> QED
    BY <1>1, <1>2, <2>1, <2>2, <2>3 DEF LiveAt
<1>5. ASSUME NEW kind, Waiting(d, kind)'
      PROVE  Waiting(d, kind)
  <2>1. PICK k \in DOMAIN requests'[d] : LiveAt(d, k)' /\ requests'[d][k] = kind
    BY <1>5 DEF Waiting
  <2> QED
    BY <2>1, <1>4 DEF Waiting, LiveAt
<1> QED
  BY <1>2, <1>3, <1>4, <1>5

LEMMA LineJoined ==
  ASSUME Typed, OrphansWait, NEW d \in Devices, NEW kind \in RequestKinds,
         requests'[d] = requests[d] \/ requests'[d] = Append(requests[d], kind),
         orphans'[d] = orphans[d]
  PROVE  \A k \in DOMAIN requests'[d] : LiveAt(d, k)' =>
           \/ LiveAt(d, k) /\ requests'[d][k] = requests[d][k]
           \/ /\ k = Len(requests[d]) + 1 /\ k = Len(requests'[d]) /\ requests'[d][k] = kind
<1>1. /\ requests[d] \in Seq(RequestKinds) /\ DOMAIN requests[d] = 1..Len(requests[d])
      /\ Len(requests[d]) \in Nat /\ orphans[d] \in Nat
  BY LineFacts
<1>2. /\ Append(requests[d], kind) \in Seq(RequestKinds)
      /\ Len(Append(requests[d], kind)) = Len(requests[d]) + 1
      /\ \A k \in 1..Len(requests[d]) : Append(requests[d], kind)[k] = requests[d][k]
      /\ Append(requests[d], kind)[Len(requests[d]) + 1] = kind
  BY <1>1, AppendProperties
<1>3. DOMAIN Append(requests[d], kind) = 1..(Len(requests[d]) + 1)
  BY <1>2
<1>4. CASE requests'[d] = requests[d]
  BY <1>4 DEF LiveAt
<1>5. CASE requests'[d] = Append(requests[d], kind)
  BY <1>1, <1>2, <1>3, <1>5 DEF LiveAt
<1> QED
  BY <1>4, <1>5

\* A step keeps Stepwise when it leaves only cancellations in the line and a truthful
\* updater: what it defers, if anything, is then due alone.
LEMMA OnlyCancels ==
  ASSUME NEW d \in Devices, NEW p \in RequestKinds \cup {"none"},
         updater'[d].pldmRequest = p,
         p \notin {"RequestUpdate", "CancelUpdateComponent"},
         activation' # "Ready",
         \A k \in DOMAIN requests'[d] :
           LiveAt(d, k)' => requests'[d][k] = "CancelUpdateComponent",
         p # "none" => ~Engaged(d)',
         CancelledIsFalse(d)', TrueWasApplied(d)',
         p = "PassComponentTable" => NoneTrue(d)',
         p = "ActivateFirmware" => SomeApplied(d)'
  PROVE  Stepwise(d)'
<1>1. \A kind : Waiting(d, kind)' => kind = "CancelUpdateComponent"
  BY DEF Waiting
<1>2. Untouched(d)' /\ DeferredStep(d)' /\ StepIsLast(d)' /\ StartIsFirst(d)'
  BY DEF Untouched, DeferredStep, StepIsLast, StartIsFirst
<1>3. StepWaits(d)'
  BY <1>1 DEF StepWaits, StepDue, Steps, Due, RequestKinds
<1>4. NoneTrueYet(d)' /\ AppliedFirst(d)'
  BY <1>1 DEF NoneTrueYet, AppliedFirst, Due
<1> QED
  BY <1>2, <1>3, <1>4 DEF Stepwise

\* So does one that changes neither the updater's progress nor the outcome and adds
\* nothing to the line.
LEMMA NothingNew ==
  ASSUME NEW d \in Devices, Stepwise(d),
         updater'[d].pldmRequest = updater[d].pldmRequest,
         updater'[d].componentIndex = updater[d].componentIndex,
         updater'[d].componentUpdateStatus = updater[d].componentUpdateStatus,
         outcome'[d] = outcome[d],
         activation' = "Ready" => /\ activation = "Ready"
                                  /\ updater'[d].reqFwDataTimer # "running",
         fd'[d].session = "current" => fd[d].session = "current",
         Engaged(d)' => Engaged(d),
         \A kind : Waiting(d, kind)' => Waiting(d, kind),
         Waiting(d, "RequestUpdate") => Waiting(d, "RequestUpdate")' \/ ~Engaged(d)',
         StepIsLast(d)', StartIsFirst(d)'
  PROVE  Stepwise(d)'
<1>1. \A kind : Due(d, kind)' => Due(d, kind)
  BY DEF Due
<1>2. StepDue(d)' => StepDue(d)
  BY <1>1 DEF StepDue
<1>3. (NoneTrue(d)' <=> NoneTrue(d)) /\ (SomeApplied(d)' <=> SomeApplied(d))
  BY DEF NoneTrue, SomeApplied
<1>4. Untouched(d)' /\ DeferredStep(d)'
  BY <1>3 DEF Stepwise, Untouched, DeferredStep
<1>5. StepWaits(d)'
  BY <1>2 DEF Stepwise, StepWaits
<1>6. TrueWasApplied(d)' /\ CancelledIsFalse(d)'
  BY DEF Stepwise, TrueWasApplied, CancelledIsFalse
<1>7. NoneTrueYet(d)' /\ AppliedFirst(d)'
  BY <1>1, <1>3 DEF Stepwise, NoneTrueYet, AppliedFirst
<1> QED
  BY <1>4, <1>5, <1>6, <1>7 DEF Stepwise

\* An answer to a step: it was the whole line.
LEMMA StepAnswered ==
  ASSUME Typed, OrphansWait, NEW d \in Devices, NEW kind \in Steps, Stepwise(d),
         Answered(d, kind), DropRequest(d), orphans' = orphans
  PROVE  /\ activation # "Ready" /\ updater[d].pldmRequest = "none" /\ Due(d, kind)
         /\ \A k \in DOMAIN requests'[d] : ~LiveAt(d, k)'
<1>1. requests[d] # <<>> /\ orphans[d] = 0 /\ Head(requests[d]) = kind
  BY DEF Answered
<1>2. requests'[d] = Tail(requests[d]) /\ orphans'[d] = 0
  BY <1>1 DEF DropRequest, Typed
<1>3. /\ DOMAIN requests[d] = 1..Len(requests[d]) /\ Len(requests[d]) \in Nat
      /\ requests[d] \in Seq(RequestKinds)
  BY LineFacts
<1>4. 1 \in DOMAIN requests[d] /\ requests[d][1] = kind /\ LiveAt(d, 1)
  BY <1>1, <1>3 DEF LiveAt
<1>5. kind \in RequestKinds /\ Waiting(d, kind) /\ kind # "CancelUpdateComponent"
  BY <1>4 DEF Steps, Waiting
<1>6. activation # "Ready"
  BY <1>5 DEF Stepwise, Untouched
<1>7. Len(requests[d]) = 1 /\ updater[d].pldmRequest = "none"
  BY <1>4, <1>5 DEF Stepwise, StepIsLast
<1>8. DOMAIN requests'[d] = {}
  <2>1. /\ DOMAIN requests'[d] = 1..Len(requests'[d])
        /\ Len(requests'[d]) = Len(requests[d]) - 1
    BY <1>1, <1>2, LineDropped
  <2> QED
    BY <1>7, <2>1
<1> QED
  BY <1>5, <1>6, <1>7, <1>8 DEF Due

\* An answer to a cancellation that the device carries out: no step is due.
LEMMA CancelAnswered ==
  ASSUME Typed, OrphansWait, NEW d \in Devices, Stepwise(d),
         Answered(d, "CancelUpdateComponent"), Engaged(d), DropRequest(d),
         orphans' = orphans
  PROVE  /\ activation # "Ready" /\ updater[d].pldmRequest = "none"
         /\ updater[d].componentUpdateStatus[updater[d].componentIndex] = "false"
         /\ \A k \in DOMAIN requests'[d] :
              LiveAt(d, k)' => requests'[d][k] = "CancelUpdateComponent"
<1>1. /\ requests[d] # <<>> /\ orphans[d] = 0
      /\ Head(requests[d]) = "CancelUpdateComponent"
  BY DEF Answered
<1>2. requests'[d] = Tail(requests[d]) /\ orphans'[d] = 0
  BY <1>1 DEF DropRequest, Typed
<1>3. /\ DOMAIN requests[d] = 1..Len(requests[d]) /\ Len(requests[d]) \in Nat
      /\ requests[d] \in Seq(RequestKinds)
  BY LineFacts
<1>4. /\ 1 \in DOMAIN requests[d] /\ requests[d][1] = "CancelUpdateComponent"
      /\ LiveAt(d, 1)
  BY <1>1, <1>3 DEF LiveAt
<1>5. Waiting(d, "CancelUpdateComponent") /\ "CancelUpdateComponent" \in RequestKinds
  BY <1>4 DEF Waiting, RequestKinds
<1>6. activation # "Ready"
  BY <1>5 DEF Stepwise, Untouched
<1>7. ~Waiting(d, "RequestUpdate")
  BY <1>1, <1>4 DEF Waiting, Stepwise, StartIsFirst
<1>8. ~StepDue(d)
  BY <1>7 DEF Stepwise, StepWaits
<1>9. updater[d].pldmRequest = "none"
  <2>1. updater[d].pldmRequest \in RequestKinds \cup {"none"}
    BY DEF Typed, UpdaterType
  <2> QED
    BY <1>8, <2>1 DEF Stepwise, DeferredStep, StepDue, Steps, Due
<1>10. ASSUME NEW k \in DOMAIN requests'[d], LiveAt(d, k)'
       PROVE  requests'[d][k] = "CancelUpdateComponent"
  <2>1. LiveAt(d, k + 1) /\ requests'[d][k] = requests[d][k + 1]
    BY <1>1, <1>2, <1>10, LineDropped
  <2>2. k + 1 \in DOMAIN requests[d] /\ requests[d][k + 1] \in RequestKinds
    BY <1>3, <2>1 DEF LiveAt
  <2> QED
    BY <1>8, <2>1, <2>2 DEF StepDue, Steps, Due, Waiting
<1> QED
  BY <1>5, <1>6, <1>9, <1>10 DEF Stepwise, CancelledIsFalse

\* The device gives up a component: the cancellation joins a line without steps.
LEMMA GivesUpStepwise ==
  ASSUME Typed, OrphansWait, NEW d \in Devices, NEW timer, Stepwise(d), ~StepDue(d),
         GiveUpComponent(d, timer), orphans' = orphans, activation' # "Ready"
  PROVE  Stepwise(d)'
<1> DEFINE c == updater[d].componentIndex
<1>1. updater[d] \in UpdaterType(d) /\ outcome[d] \in OutcomeType(d)
  BY DEF Typed
<1>2. /\ updater'[d] = [updater[d] EXCEPT !.componentUpdateStatus[c] = "false",
                                          !.pldmRequest = "none",
                                          !.reqFwDataTimer = timer]
      /\ outcome'[d] = [outcome[d] EXCEPT ![c] = "failed"]
      /\ Register(d, "CancelUpdateComponent")
  BY DEF GiveUpComponent, Typed
<1>3. /\ updater'[d].pldmRequest = "none" /\ updater'[d].componentIndex = c
      /\ updater'[d].componentUpdateStatus =
           [updater[d].componentUpdateStatus EXCEPT ![c] = "false"]
      /\ c \in Comps(d)
  BY <1>1, <1>2 DEF UpdaterType
<1>4. updater'[d].componentUpdateStatus[c] = "false"
  BY <1>1, <1>3 DEF UpdaterType
<1>5. ASSUME NEW k \in DOMAIN requests'[d], LiveAt(d, k)'
      PROVE  requests'[d][k] = "CancelUpdateComponent"
  <2>1. \/ requests'[d] = requests[d]
        \/ requests'[d] = Append(requests[d], "CancelUpdateComponent")
    BY <1>2 DEF Register, Typed
  <2>2. \/ LiveAt(d, k) /\ requests'[d][k] = requests[d][k]
        \/ requests'[d][k] = "CancelUpdateComponent"
    BY <1>5, <2>1, LineJoined DEF RequestKinds
  <2>3. LiveAt(d, k) => requests[d][k] \in RequestKinds
    BY LineFacts DEF LiveAt
  <2> QED
    BY <2>2, <2>3 DEF StepDue, Steps, Due, Waiting, LiveAt
<1>6. CancelledIsFalse(d)'
  BY <1>3, <1>4 DEF CancelledIsFalse
<1>7. TrueWasApplied(d)'
  <2>1. ASSUME NEW j \in Comps(d), j < c, updater'[d].componentUpdateStatus[j] = "true"
        PROVE  outcome'[d][j] = "applied"
    <3>1. j # c
      BY <2>1, <1>3, ComponentsExist
    <3>2. updater[d].componentUpdateStatus[j] = "true"
      BY <1>1, <1>3, <2>1, <3>1 DEF UpdaterType
    <3>3. outcome[d][j] = "applied"
      BY <2>1, <3>2 DEF Stepwise, TrueWasApplied
    <3> QED
      BY <1>1, <1>2, <3>1, <3>3 DEF OutcomeType
  <2> QED
    BY <1>3, <2>1 DEF TrueWasApplied
<1> QED
  BY <1>3, <1>5, <1>6, <1>7, OnlyCancels

\* The head of the line is answered and nothing else: what is left keeps its order.
LEMMA LineShorter ==
  ASSUME Typed, OrphansWait, NEW d \in Devices, Stepwise(d), requests[d] # <<>>,
         requests'[d] = Tail(requests[d]),
         orphans'[d] = IF orphans[d] = 0 THEN 0 ELSE orphans[d] - 1,
         updater'[d].pldmRequest = updater[d].pldmRequest,
         fd'[d].session = "current" => fd[d].session = "current"
  PROVE  /\ StepIsLast(d)' /\ StartIsFirst(d)'
         /\ Waiting(d, "RequestUpdate") => Waiting(d, "RequestUpdate")' \/ orphans[d] = 0
<1>1. /\ DOMAIN requests[d] = 1..Len(requests[d])
      /\ Len(requests[d]) \in Nat /\ orphans[d] \in Nat
  BY LineFacts
<1>2. /\ DOMAIN requests'[d] = 1..Len(requests'[d])
      /\ Len(requests'[d]) = Len(requests[d]) - 1
      /\ \A k \in DOMAIN requests'[d] :
           /\ k \in Nat \ {0} /\ requests'[d][k] = requests[d][k + 1]
           /\ LiveAt(d, k)' => LiveAt(d, k + 1)
  BY LineDropped
<1>3. ASSUME NEW k \in DOMAIN requests'[d], LiveAt(d, k)',
             requests'[d][k] # "CancelUpdateComponent"
      PROVE  k = Len(requests'[d]) /\ updater'[d].pldmRequest = "none"
  <2>1. /\ k + 1 \in DOMAIN requests[d] /\ LiveAt(d, k + 1)
        /\ requests[d][k + 1] # "CancelUpdateComponent"
    BY <1>2, <1>3 DEF LiveAt
  <2>2. k + 1 = Len(requests[d]) /\ updater[d].pldmRequest = "none"
    BY <2>1 DEF Stepwise, StepIsLast
  <2>3. k \in Nat
    BY <1>2
  <2> QED
    BY <1>1, <1>2, <2>2, <2>3
<1>4. ASSUME NEW k \in DOMAIN requests'[d], LiveAt(d, k)',
             requests'[d][k] = "RequestUpdate"
      PROVE  k = orphans'[d] + 1 /\ fd'[d].session # "current"
  <2>1. /\ k + 1 \in DOMAIN requests[d] /\ LiveAt(d, k + 1)
        /\ requests[d][k + 1] = "RequestUpdate" /\ k \in Nat \ {0}
    BY <1>2, <1>4 DEF LiveAt
  <2>2. k + 1 = orphans[d] + 1 /\ fd[d].session # "current"
    BY <2>1 DEF Stepwise, StartIsFirst
  <2> QED
    BY <1>1, <2>1, <2>2
<1>5. ASSUME Waiting(d, "RequestUpdate"), orphans[d] # 0
      PROVE  Waiting(d, "RequestUpdate")'
  <2>1. PICK k \in DOMAIN requests[d] : LiveAt(d, k) /\ requests[d][k] = "RequestUpdate"
    BY <1>5 DEF Waiting
  <2>2. k = orphans[d] + 1
    BY <2>1 DEF Stepwise, StartIsFirst
  <2>3. /\ orphans[d] \in DOMAIN requests'[d] /\ orphans[d] > orphans'[d]
        /\ requests'[d][orphans[d]] = "RequestUpdate"
    BY <1>1, <1>2, <1>5, <2>1, <2>2
  <2> QED
    BY <2>3 DEF Waiting, LiveAt
<1> QED
  BY <1>3, <1>4, <1>5 DEF StepIsLast, StartIsFirst

\* The responses: what each step was followed by.
LEMMA ResponseStepwise ==
  ASSUME Typed, OrphansWait, NEW d \in Devices, Stepwise(d), Answer(d)
  PROVE  Stepwise(d)'
<1> USE DEF managerVars, historyVars
<1> DEFINE u == updater[d]
           c == u.componentIndex
           status == u.componentUpdateStatus
<1>0. DeviceNext(d)
  BY DEF DeviceNext, Answer
<1>1. activation' = "Ready" => activation = "Ready"
  BY <1>0, ReadyStays
<1>2. /\ u \in UpdaterType(d) /\ outcome[d] \in OutcomeType(d) /\ fd[d] \in FDType
      /\ c \in Comps(d) /\ status \in [Comps(d) -> {"unset", "true", "false"}]
  BY DEF Typed, UpdaterType
<1>3. ASSUME NEW kind \in RequestKinds, RequestFails(d, kind)
      PROVE  Stepwise(d)'
  <2>1. /\ Answered(d, kind) /\ DropRequest(d) /\ orphans' = orphans
        /\ kind \in Steps /\ updater' = updater /\ outcome' = outcome
    BY <1>3 DEF RequestFails, Unanswered, Steps
  <2>2. /\ activation # "Ready" /\ u.pldmRequest = "none"
        /\ \A k \in DOMAIN requests'[d] : ~LiveAt(d, k)'
    BY <2>1, StepAnswered
  <2>3. CancelledIsFalse(d)' /\ TrueWasApplied(d)'
    BY <2>1, <2>2 DEF CancelledIsFalse, Waiting, TrueWasApplied, Stepwise
  <2> QED
    BY <1>1, <2>1, <2>2, <2>3, OnlyCancels
<1>4. CASE RequestUpdateResponse(d)
  <2>1. /\ Answered(d, "RequestUpdate") /\ DropRequest(d) /\ orphans' = orphans
        /\ outcome' = outcome /\ fd'[d] = FDAccepting(d, "RequestUpdate")
        /\ updater'[d] = [u EXCEPT !.pldmRequest = "PassComponentTable"]
    BY <1>4 DEF RequestUpdateResponse, Accepted, Typed
  <2>2. "RequestUpdate" \in Steps /\ "PassComponentTable" \in RequestKinds
    BY DEF Steps, RequestKinds
  <2>3. /\ activation # "Ready" /\ Due(d, "RequestUpdate")
        /\ \A k \in DOMAIN requests'[d] : ~LiveAt(d, k)'
    BY <2>1, <2>2, StepAnswered
  <2>4. /\ updater'[d].pldmRequest = "PassComponentTable"
        /\ updater'[d].componentIndex = c
        /\ updater'[d].componentUpdateStatus = status
    BY <2>1, <1>2 DEF UpdaterType
  <2>5. ~Engaged(d)'
    BY <2>1 DEF Engaged, Busy, FDAccepting, FDIdle
  <2>6. NoneTrue(d)'
    BY <2>3, <2>4 DEF NoneTrue, Stepwise, NoneTrueYet
  <2>7. CancelledIsFalse(d)' /\ TrueWasApplied(d)'
    BY <2>1, <2>4, <2>5 DEF CancelledIsFalse, TrueWasApplied, Stepwise
  <2> QED
    BY <1>1, <2>2, <2>3, <2>4, <2>5, <2>6, <2>7, OnlyCancels
<1>5. CASE PassCompTableResponse(d)
  <2> DEFINE p == IF c = LastComp(d) THEN "UpdateComponent" ELSE "PassComponentTable"
             i == IF c = LastComp(d) THEN 0 ELSE c + 1
  <2>1. /\ Answered(d, "PassComponentTable") /\ DropRequest(d) /\ orphans' = orphans
        /\ FDExpects(d, "PassComponentTable")
        /\ outcome' = outcome /\ fd'[d] = FDAccepting(d, "PassComponentTable")
        /\ updater'[d] = [u EXCEPT !.pldmRequest = p, !.componentIndex = i,
                                   !.componentUpdateStatus = status]
    BY <1>5 DEF PassCompTableResponse, Accepted, Defer, Typed
  <2>2. "PassComponentTable" \in Steps /\ p \in RequestKinds
    BY DEF Steps, RequestKinds
  <2>3. /\ activation # "Ready" /\ Due(d, "PassComponentTable")
        /\ \A k \in DOMAIN requests'[d] : ~LiveAt(d, k)'
    BY <2>1, <2>2, StepAnswered
  <2>4. /\ updater'[d].pldmRequest = p
        /\ updater'[d].componentIndex = i
        /\ updater'[d].componentUpdateStatus = status
    BY <2>1, <1>2 DEF UpdaterType
  <2>5. ~Engaged(d)'
    BY <2>1, <1>2 DEF Engaged, Busy, FDAccepting, FDType
  <2>6. NoneTrue(d)'
    BY <2>3, <2>4 DEF NoneTrue, Stepwise, NoneTrueYet
  <2>7. CancelledIsFalse(d)' /\ TrueWasApplied(d)'
    BY <2>5, <2>6 DEF CancelledIsFalse, TrueWasApplied, NoneTrue
  <2>8. p \notin {"RequestUpdate", "CancelUpdateComponent", "ActivateFirmware"}
    OBVIOUS
  <2> HIDE DEF p
  <2> QED
    BY <1>1, <2>2, <2>3, <2>4, <2>5, <2>6, <2>7, <2>8, OnlyCancels
<1>6. CASE UpdateComponentResponse(d)
  <2>1. /\ Answered(d, "UpdateComponent") /\ DropRequest(d) /\ orphans' = orphans
        /\ outcome' = outcome
        /\ updater'[d] = [u EXCEPT !.componentUpdateStatus[c] = "true",
                                   !.reqFwDataTimer = "created"]
    BY <1>6 DEF UpdateComponentResponse, Accepted, Typed
  <2>2. "UpdateComponent" \in Steps
    BY DEF Steps, RequestKinds
  <2>3. /\ activation # "Ready" /\ u.pldmRequest = "none"
        /\ \A k \in DOMAIN requests'[d] : ~LiveAt(d, k)'
    BY <2>1, <2>2, StepAnswered
  <2>4. /\ updater'[d].pldmRequest = "none"
        /\ updater'[d].componentIndex = c
        /\ updater'[d].componentUpdateStatus = [status EXCEPT ![c] = "true"]
    BY <2>1, <2>3, <1>2 DEF UpdaterType
  <2>5. CancelledIsFalse(d)'
    BY <2>3 DEF CancelledIsFalse, Waiting
  <2>6. TrueWasApplied(d)'
    <3>1. ASSUME NEW j \in Comps(d), j < c, updater'[d].componentUpdateStatus[j] = "true"
          PROVE  outcome'[d][j] = "applied"
      <4>1. j # c
        BY <1>2, <3>1, ComponentsExist
      <4>2. status[j] = "true"
        BY <1>2, <2>4, <3>1, <4>1
      <4> QED
        BY <2>1, <3>1, <4>2 DEF Stepwise, TrueWasApplied
    <3> QED
      BY <2>4, <3>1 DEF TrueWasApplied
  <2> QED
    BY <1>1, <2>3, <2>4, <2>5, <2>6, OnlyCancels
<1>7. CASE UpdateComponentRefused(d)
  <2> DEFINE status2 == [status EXCEPT ![c] = "false"]
  <2>1. /\ Answered(d, "UpdateComponent") /\ FDExpects(d, "UpdateComponent")
        /\ DropRequest(d) /\ orphans' = orphans /\ fd' = fd
        /\ outcome'[d] = [outcome[d] EXCEPT ![c] = "refused"]
    BY <1>7 DEF UpdateComponentRefused, Typed
  <2>2. /\ "UpdateComponent" \in Steps
        /\ {"UpdateComponent", "ActivateFirmware"} \subseteq RequestKinds
    BY DEF Steps, RequestKinds
  <2>3. /\ activation # "Ready" /\ u.pldmRequest = "none"
        /\ \A k \in DOMAIN requests'[d] : ~LiveAt(d, k)'
    BY <2>1, <2>2, StepAnswered
  <2>4. ~Engaged(d)' /\ CancelledIsFalse(d)'
    BY <2>1, <2>3 DEF Engaged, Busy, FDExpects, CancelledIsFalse
  <2>5. ASSUME NEW j \in Comps(d), j <= c, status2[j] = "true"
        PROVE  j < c /\ outcome'[d][j] = "applied"
    <3>1. j # c
      BY <1>2, <2>5
    <3>2. j < c
      BY <1>2, <2>5, <3>1, ComponentsExist
    <3>3. status[j] = "true"
      BY <1>2, <2>5, <3>1
    <3>4. outcome[d][j] = "applied"
      BY <3>2, <3>3 DEF Stepwise, TrueWasApplied
    <3> QED
      BY <1>2, <2>1, <3>1, <3>2, <3>4 DEF OutcomeType
  <2>6. CASE c # LastComp(d) /\ Defer(d, "UpdateComponent", c + 1, status2)
    <3>1. updater'[d] = [u EXCEPT !.pldmRequest = "UpdateComponent",
                                  !.componentIndex = c + 1,
                                  !.componentUpdateStatus = status2]
      BY <2>6 DEF Defer, Typed
    <3>2. /\ updater'[d].pldmRequest = "UpdateComponent"
          /\ updater'[d].componentIndex = c + 1
          /\ updater'[d].componentUpdateStatus = status2
      BY <3>1, <1>2 DEF UpdaterType
    <3> HIDE DEF status2
    <3>3. TrueWasApplied(d)'
      BY <1>2, <2>5, <3>2, ComponentsExist DEF TrueWasApplied
    <3> QED
      BY <1>1, <2>2, <2>3, <2>4, <3>2, <3>3, OnlyCancels
  <2>7. CASE /\ c = LastComp(d) /\ \E j \in Comps(d) : status2[j] = "true"
             /\ Defer(d, "ActivateFirmware", 0, status2)
    <3>1. updater'[d] = [u EXCEPT !.pldmRequest = "ActivateFirmware",
                                  !.componentIndex = 0,
                                  !.componentUpdateStatus = status2]
      BY <2>7 DEF Defer, Typed
    <3>2. /\ updater'[d].pldmRequest = "ActivateFirmware"
          /\ updater'[d].componentIndex = 0
      BY <3>1, <1>2 DEF UpdaterType
    <3> HIDE DEF status2
    <3>3. TrueWasApplied(d)'
      BY <3>2, ComponentsExist DEF TrueWasApplied
    <3>4. SomeApplied(d)'
      BY <2>5, <2>7, ComponentsExist DEF SomeApplied
    <3> QED
      BY <1>1, <2>2, <2>3, <2>4, <3>2, <3>3, <3>4, OnlyCancels
  <2>8. CASE Defer(d, u.pldmRequest, c, status2)
    <3>1. updater'[d] = [u EXCEPT !.pldmRequest = u.pldmRequest,
                                  !.componentIndex = c,
                                  !.componentUpdateStatus = status2]
      BY <2>8 DEF Defer, Typed
    <3>2. /\ updater'[d].pldmRequest = "none"
          /\ updater'[d].componentIndex = c
          /\ updater'[d].componentUpdateStatus = status2
      BY <3>1, <1>2, <2>3 DEF UpdaterType
    <3> HIDE DEF status2
    <3>3. TrueWasApplied(d)'
      BY <1>2, <2>5, <3>2, ComponentsExist DEF TrueWasApplied
    <3> QED
      BY <1>1, <2>3, <2>4, <3>2, <3>3, OnlyCancels
  <2> QED
    BY <1>7, <2>6, <2>7, <2>8 DEF UpdateComponentRefused
<1>8. CASE CancelUpdateComponentResponse(d)
  <2>1. /\ Answered(d, "CancelUpdateComponent") /\ FDExpects(d, "CancelUpdateComponent")
        /\ DropRequest(d) /\ orphans' = orphans /\ outcome' = outcome
        /\ fd'[d] = FDAccepting(d, "CancelUpdateComponent")
    BY <1>8 DEF CancelUpdateComponentResponse, Accepted, Typed
  <2>2. Engaged(d)
    BY <2>1 DEF FDExpects, Engaged, Busy
  <2>3. /\ activation # "Ready" /\ u.pldmRequest = "none" /\ status[c] = "false"
        /\ \A k \in DOMAIN requests'[d] :
             LiveAt(d, k)' => requests'[d][k] = "CancelUpdateComponent"
    BY <2>1, <2>2, CancelAnswered
  <2>4. ~Engaged(d)' /\ CancelledIsFalse(d)'
    <3>1. fd'[d].state = "ready"
      BY <2>1, <1>2 DEF FDAccepting, FDType
    <3> QED
      BY <3>1 DEF Engaged, Busy, CancelledIsFalse
  <2>5. ASSUME NEW j \in Comps(d), j <= c, status[j] = "true"
        PROVE  j < c /\ outcome'[d][j] = "applied"
    <3>1. j # c /\ j < c
      BY <1>2, <2>3, <2>5, ComponentsExist
    <3> QED
      BY <2>1, <2>5, <3>1 DEF Stepwise, TrueWasApplied
  <2>6. CASE c # LastComp(d)
             /\ Defer(d, "UpdateComponent", c + 1, [status EXCEPT ![c + 1] = "true"])
    <3>1. updater'[d] = [u EXCEPT !.pldmRequest = "UpdateComponent",
                           !.componentIndex = c + 1,
                           !.componentUpdateStatus = [status EXCEPT ![c + 1] = "true"]]
      BY <2>6 DEF Defer, Typed
    <3>2. /\ updater'[d].pldmRequest = "UpdateComponent"
          /\ updater'[d].componentIndex = c + 1
          /\ updater'[d].componentUpdateStatus = [status EXCEPT ![c + 1] = "true"]
      BY <3>1, <1>2 DEF UpdaterType
    <3>3. TrueWasApplied(d)'
      BY <1>2, <2>5, <3>2, ComponentsExist DEF TrueWasApplied
    <3> QED
      BY <1>1, <2>3, <2>4, <3>2, <3>3, OnlyCancels DEF RequestKinds
  <2>7. CASE /\ c = LastComp(d) /\ \E j \in Comps(d) : status[j] = "true"
             /\ Defer(d, "ActivateFirmware", 0, [j \in Comps(d) |-> "unset"])
    <3>1. updater'[d] = [u EXCEPT !.pldmRequest = "ActivateFirmware",
                           !.componentIndex = 0,
                           !.componentUpdateStatus = [j \in Comps(d) |-> "unset"]]
      BY <2>7 DEF Defer, Typed
    <3>2. /\ updater'[d].pldmRequest = "ActivateFirmware"
          /\ updater'[d].componentIndex = 0
      BY <3>1, <1>2 DEF UpdaterType
    <3>3. TrueWasApplied(d)'
      BY <3>2, ComponentsExist DEF TrueWasApplied
    <3>4. SomeApplied(d)'
      BY <2>5, <2>7, ComponentsExist DEF SomeApplied
    <3> QED
      BY <1>1, <2>3, <2>4, <3>2, <3>3, <3>4, OnlyCancels DEF RequestKinds
  <2>8. CASE updater' = updater
    <3>1. TrueWasApplied(d)'
      BY <2>1, <2>8 DEF TrueWasApplied, Stepwise
    <3> QED
      BY <1>1, <2>3, <2>4, <2>8, <3>1, OnlyCancels
  <2> QED
    BY <1>8, <2>6, <2>7, <2>8 DEF CancelUpdateComponentResponse
<1>9. CASE CancelFails(d)
  <2>1. /\ Answered(d, "CancelUpdateComponent") /\ DropRequest(d)
        /\ UNCHANGED <<activation, updater, orphans, outcome>>
        /\ fd'[d] = fd[d] \/ fd'[d] = FDAccepting(d, "CancelUpdateComponent")
    BY <1>9 DEF CancelFails, Unanswered, Typed
  <2>2. /\ fd'[d].session = fd[d].session /\ (Engaged(d)' => Engaged(d))
    BY <2>1, <1>2 DEF FDAccepting, FDType, Engaged, Busy
  <2>3. /\ requests[d] # <<>> /\ Head(requests[d]) = "CancelUpdateComponent"
        /\ orphans[d] = 0 /\ orphans'[d] = 0 /\ requests'[d] = Tail(requests[d])
    BY <2>1 DEF Answered, DropRequest, Typed
  <2>4. ~Waiting(d, "RequestUpdate")
    <3>1. requests[d][1] = "CancelUpdateComponent"
      BY <2>3
    <3> QED
      BY <2>3, <3>1 DEF Waiting, Stepwise, StartIsFirst
  <2>5. /\ StepIsLast(d)' /\ StartIsFirst(d)'
        /\ \A kind : Waiting(d, kind)' => Waiting(d, kind)
    BY <2>1, <2>2, <2>3, LineShorter, LineDropped
  <2>6. activation' = "Ready" => updater'[d].reqFwDataTimer # "running"
    BY <2>1 DEF Stepwise, Untouched
  <2> QED
    BY <2>1, <2>2, <2>4, <2>5, <2>6, NothingNew
<1>10. CASE ActivateFirmwareResponse(d)
  <2>1. /\ Answered(d, "ActivateFirmware") /\ DropRequest(d)
        /\ UNCHANGED <<orphans, updater, outcome>>
    BY <1>10 DEF ActivateFirmwareResponse, Accepted
  <2>2. "ActivateFirmware" \in Steps
    BY DEF Steps, RequestKinds
  <2>3. /\ activation # "Ready" /\ u.pldmRequest = "none"
        /\ \A k \in DOMAIN requests'[d] : ~LiveAt(d, k)'
    BY <2>1, <2>2, StepAnswered
  <2>4. CancelledIsFalse(d)' /\ TrueWasApplied(d)'
    BY <2>1, <2>3 DEF CancelledIsFalse, Waiting, TrueWasApplied, Stepwise
  <2> QED
    BY <1>1, <2>1, <2>3, <2>4, OnlyCancels
<1>11. CASE OrphanCallback(d)
  <2>1. UNCHANGED <<activation, completion, updater, fd, outcome>>
    BY <1>11 DEF OrphanCallback
  <2>2. \/ UNCHANGED <<requests, orphans>>
        \/ /\ requests[d] # <<>> /\ orphans[d] > 0
           /\ requests'[d] = Tail(requests[d])
           /\ orphans'[d] = orphans[d] - 1
    <3>1. orphans[d] > 0 /\ requests[d] # <<>>
      BY <1>11, LiveFacts DEF OrphanCallback, OrphansWait, Typed
    <3> QED
      BY <1>11, <3>1 DEF OrphanCallback, DropRequest, Typed
  <2>3. CASE UNCHANGED <<requests, orphans>>
    BY <2>1, <2>3
       DEF Stepwise, Untouched, DeferredStep, StepIsLast, StartIsFirst, StepWaits,
           TrueWasApplied, CancelledIsFalse, NoneTrueYet, AppliedFirst, LiveAt, Waiting,
           Due, StepDue, Engaged, NoneTrue, SomeApplied
  <2>4. CASE /\ requests[d] # <<>> /\ orphans[d] > 0
             /\ requests'[d] = Tail(requests[d])
             /\ orphans'[d] = orphans[d] - 1
    <3>1. orphans[d] # 0
      BY <2>4
    <3>2. /\ StepIsLast(d)' /\ StartIsFirst(d)'
          /\ Waiting(d, "RequestUpdate") => Waiting(d, "RequestUpdate")'
          /\ \A kind : Waiting(d, kind)' => Waiting(d, kind)
      BY <2>1, <2>4, <3>1, LineShorter, LineDropped
    <3>3. activation' = "Ready" => updater'[d].reqFwDataTimer # "running"
      BY <2>1 DEF Stepwise, Untouched
    <3>4. Engaged(d)' => Engaged(d)
      BY <2>1 DEF Engaged
    <3> QED
      BY <2>1, <3>2, <3>3, <3>4, NothingNew
  <2> QED
    BY <2>2, <2>3, <2>4
<1> QED
  BY <1>3, <1>4, <1>5, <1>6, <1>7, <1>8, <1>9, <1>10, <1>11 DEF Answer

\* What the DeviceUpdater sends by itself, and what the device sends it.
LEMMA EventStepwise ==
  ASSUME ~SlowRequests, Typed, OrphansWait, NEW d \in Devices, Stepwise(d), Orderly(d),
         DeviceNext(d), ~Answer(d), d \notin outOfTurn'
  PROVE  Stepwise(d)'
<1> USE DEF managerVars, historyVars
<1> DEFINE u == updater[d]
           c == u.componentIndex
           status == u.componentUpdateStatus
<1>1. activation' = "Ready" => activation = "Ready"
  BY ReadyStays
<1>2. /\ u \in UpdaterType(d) /\ outcome[d] \in OutcomeType(d) /\ fd[d] \in FDType
      /\ c \in Comps(d) /\ status \in [Comps(d) -> {"unset", "true", "false"}]
  BY DEF Typed, UpdaterType
<1>3. ASSUME NoteSession(d)
      PROVE  fd[d].session = "current" /\ activation # "Ready" /\ activation' # "Ready"
  BY <1>1, <1>3 DEF NoteSession, Typed, Stepwise, Untouched
<1>4. ASSUME NoteSession(d), fd[d].state \in Busy
      PROVE  /\ ~StepDue(d) /\ u.pldmRequest = "none"
             /\ \A k \in DOMAIN requests[d] :
                  LiveAt(d, k) => requests[d][k] = "CancelUpdateComponent"
  <2>1. ~Waiting(d, "RequestUpdate")
    BY <1>3, <1>4 DEF Waiting, Stepwise, StartIsFirst
  <2>2. ~StepDue(d)
    BY <1>4, <2>1 DEF Stepwise, StepWaits, Engaged
  <2>3. u.pldmRequest \in RequestKinds \cup {"none"}
    BY <1>2 DEF UpdaterType
  <2>4. \A k \in DOMAIN requests[d] : requests[d][k] \in RequestKinds
    BY LineFacts
  <2> QED
    BY <2>2, <2>3, <2>4 DEF Stepwise, DeferredStep, StepDue, Steps, Due, Waiting
<1>5. ASSUME UNCHANGED <<requests, orphans>>,
             updater'[d].pldmRequest = u.pldmRequest,
             fd'[d].session = "current" => fd[d].session = "current"
      PROVE  /\ StepIsLast(d)' /\ StartIsFirst(d)'
             /\ \A kind : Waiting(d, kind)' <=> Waiting(d, kind)
  BY <1>5 DEF Stepwise, StepIsLast, StartIsFirst, Waiting, LiveAt
<1>6. CASE SendDeferred(d)
  <2> DEFINE p == u.pldmRequest
  <2>1. /\ UNCHANGED <<activation, completion, orphans, fd, outcome>>
        /\ updater'[d] = [u EXCEPT !.pldmRequest = "none"]
        /\ p # "none" /\ p \in RequestKinds /\ Register(d, p)
    BY <1>2, <1>6 DEF SendDeferred, Typed, UpdaterType
  <2>2. /\ updater'[d].pldmRequest = "none"
        /\ updater'[d].componentIndex = c
        /\ updater'[d].componentUpdateStatus = status
    BY <2>1, <1>2 DEF UpdaterType
  <2>3. requests'[d] = requests[d] \/ requests'[d] = Append(requests[d], p)
    BY <2>1 DEF Register, Typed
  <2>4. \A k \in DOMAIN requests'[d] : LiveAt(d, k)' =>
           \/ LiveAt(d, k) /\ requests'[d][k] = requests[d][k]
           \/ k = Len(requests'[d]) /\ requests'[d][k] = p
    BY <2>1, <2>3, LineJoined
  <2>5. /\ activation # "Ready" /\ p \notin {"RequestUpdate", "CancelUpdateComponent"}
        /\ \A k \in DOMAIN requests[d] :
             LiveAt(d, k) => requests[d][k] = "CancelUpdateComponent"
    BY <2>1 DEF Stepwise, Untouched, DeferredStep, StepIsLast
  <2> HIDE DEF p
  <2>6. \A k \in DOMAIN requests'[d] : LiveAt(d, k)' =>
           \/ requests'[d][k] = "CancelUpdateComponent"
           \/ k = Len(requests'[d]) /\ requests'[d][k] = p
    BY <2>4, <2>5 DEF LiveAt
  <2>7. Untouched(d)' /\ DeferredStep(d)' /\ StepIsLast(d)' /\ StartIsFirst(d)'
    BY <2>1, <2>2, <2>5, <2>6 DEF Untouched, DeferredStep, StepIsLast, StartIsFirst
  <2>8. \A kind : Waiting(d, kind)' => kind \in {p, "CancelUpdateComponent"}
    BY <2>6 DEF Waiting
  <2>9. \A kind \in Steps : Due(d, kind)' => kind = p
    BY <2>2, <2>8 DEF Due, Steps, RequestKinds
  <2>10. Due(d, p) /\ p \in Steps
    BY <2>1, <2>5 DEF Due, Steps, p
  <2>11. StepWaits(d)'
    <3>1. ~Waiting(d, "RequestUpdate")
      BY <2>5 DEF Waiting
    <3>2. ~Engaged(d)
      BY <2>10, <3>1 DEF Stepwise, StepWaits, StepDue
    <3> QED
      BY <2>1, <3>2 DEF StepWaits, Engaged
  <2>12. Waiting(d, "CancelUpdateComponent")' => Waiting(d, "CancelUpdateComponent")
    BY <2>4, <2>5 DEF Waiting, LiveAt
  <2>13. TrueWasApplied(d)' /\ CancelledIsFalse(d)'
    BY <2>1, <2>2, <2>12 DEF Stepwise, TrueWasApplied, CancelledIsFalse, Engaged
  <2>14. NoneTrueYet(d)' /\ AppliedFirst(d)'
    <3>1. (NoneTrue(d)' <=> NoneTrue(d)) /\ (SomeApplied(d)' <=> SomeApplied(d))
      BY <2>1, <2>2 DEF NoneTrue, SomeApplied
    <3>2. {"RequestUpdate", "PassComponentTable", "ActivateFirmware"} \subseteq Steps
      BY DEF Steps, RequestKinds
    <3> QED
      BY <2>9, <2>10, <3>1, <3>2 DEF Stepwise, NoneTrueYet, AppliedFirst
  <2> QED
    BY <2>7, <2>11, <2>13, <2>14 DEF Stepwise
<1>7. CASE RequestFwDataTimeout(d)
  <2>1. /\ GiveUpComponent(d, "created") /\ orphans' = orphans
        /\ u.reqFwDataTimer = "running" /\ requests[d] = <<>> /\ u.pldmRequest = "none"
    BY <1>7 DEF RequestFwDataTimeout
  <2>2. activation' # "Ready"
    BY <1>1, <2>1 DEF Stepwise, Untouched
  <2>3. ~StepDue(d)
    <3>1. DOMAIN requests[d] = {}
      BY <2>1
    <3> QED
      BY <2>1, <3>1 DEF StepDue, Due, Waiting, Steps, RequestKinds
  <2> QED
    BY <2>1, <2>2, <2>3, GivesUpStepwise
<1>8. CASE RequestFwData(d)
  <2>1. /\ NoteSession(d)
        /\ UNCHANGED <<activation, completion, requests, orphans, fd, outcome>>
        /\ updater'[d] = [u EXCEPT !.reqFwDataTimer = "running"]
    BY <1>8 DEF RequestFwData, Typed
  <2>2. /\ updater'[d].pldmRequest = u.pldmRequest
        /\ updater'[d].componentIndex = c
        /\ updater'[d].componentUpdateStatus = status
    BY <2>1, <1>2 DEF UpdaterType
  <2>3. Engaged(d)' => Engaged(d)
    BY <2>1 DEF Engaged
  <2> QED
    BY <2>1, <2>2, <2>3, <1>3, <1>5, NothingNew
<1>9. CASE TransferComplete(d) \/ VerifyComplete(d)
  <2>1. /\ NoteSession(d) /\ fd[d].state \in {"download", "verify"}
        /\ UNCHANGED <<activation, completion, requests, orphans, outcome>>
        /\ \/ updater'[d] = [u EXCEPT !.reqFwDataTimer = "none"]
           \/ updater'[d] = u
        /\ \/ fd'[d] = fd[d]
           \/ fd'[d] = [fd[d] EXCEPT !.state = "verify"]
           \/ fd'[d] = [fd[d] EXCEPT !.state = "apply"]
    BY <1>9 DEF TransferComplete, VerifyComplete, FDSends, Typed
  <2>2. /\ updater'[d].pldmRequest = u.pldmRequest
        /\ updater'[d].componentIndex = c
        /\ updater'[d].componentUpdateStatus = status
    BY <2>1, <1>2 DEF UpdaterType
  <2>3. fd'[d].session = fd[d].session /\ Engaged(d)
    BY <2>1, <1>2 DEF FDType, Engaged, Busy
  <2> QED
    BY <2>1, <2>2, <2>3, <1>3, <1>5, NothingNew
<1>10. CASE CompleteWithError(d)
  <2>1. /\ NoteSession(d) /\ fd[d].state \in Busy /\ orphans' = orphans
        /\ \E timer : GiveUpComponent(d, timer)
    BY <1>10 DEF CompleteWithError, FDSends, Busy
  <2> QED
    BY <2>1, <1>3, <1>4, GivesUpStepwise
<1>11. CASE ApplyComplete(d)
  <2>1. /\ NoteSession(d) /\ fd[d].state = "apply" /\ NextAfterApply(d)
        /\ UNCHANGED <<activation, completion, requests, orphans>>
        /\ fd'[d] = [fd[d] EXCEPT !.state = "ready", !.last = "applied"]
        /\ outcome'[d] = [outcome[d] EXCEPT ![fd[d].comp] = "applied"]
    BY <1>11 DEF ApplyComplete, FDSends, Typed
  <2>2. fd[d].comp = c /\ fd[d].state \in Busy
    BY <2>1, <1>3 DEF Orderly, Working, Busy
  <2>3. \A k \in DOMAIN requests'[d] :
          LiveAt(d, k)' => requests'[d][k] = "CancelUpdateComponent"
    BY <2>1, <2>2, <1>4 DEF LiveAt
  <2>4. ~Engaged(d)' /\ CancelledIsFalse(d)'
    <3>1. fd'[d].state = "ready"
      BY <2>1, <1>2 DEF FDType
    <3> QED
      BY <3>1 DEF Engaged, Busy, CancelledIsFalse
  <2>5. outcome'[d][c] = "applied"
    BY <2>1, <2>2, <1>2 DEF OutcomeType
  <2>6. ASSUME NEW j \in Comps(d), j <= c, status[j] = "true"
        PROVE  outcome'[d][j] = "applied"
    <3>1. CASE j = c
      BY <2>5, <3>1
    <3>2. CASE j # c
      <4>1. j < c
        BY <1>2, <2>6, <3>2, ComponentsExist
      <4>2. outcome[d][j] = "applied"
        BY <2>6, <4>1 DEF Stepwise, TrueWasApplied
      <4> QED
        BY <2>1, <2>2, <3>2, <4>2, <1>2 DEF OutcomeType
    <3> QED
      BY <3>1, <3>2
  <2>7. CASE c = LastComp(d)
    <3>1. updater'[d] = [u EXCEPT !.pldmRequest = "ActivateFirmware", !.componentIndex = 0,
                           !.componentUpdateStatus =
                              [i \in Comps(d) |-> IF i = 0 THEN "true" ELSE "unset"]]
      BY <2>1, <2>7 DEF NextAfterApply, Defer, Typed
    <3>2. /\ updater'[d].pldmRequest = "ActivateFirmware"
          /\ updater'[d].componentIndex = 0
      BY <3>1, <1>2 DEF UpdaterType
    <3>3. TrueWasApplied(d)' /\ SomeApplied(d)'
      BY <1>2, <2>5, <3>2, ComponentsExist DEF TrueWasApplied, SomeApplied
    <3> QED
      BY <1>3, <2>1, <2>3, <2>4, <3>2, <3>3, OnlyCancels DEF RequestKinds
  <2>8. CASE c # LastComp(d)
    <3>1. updater'[d] = [u EXCEPT !.pldmRequest = "UpdateComponent",
                           !.componentIndex = c + 1,
                           !.componentUpdateStatus = [status EXCEPT ![c + 1] = "true"]]
      BY <2>1, <2>8 DEF NextAfterApply, Defer, Typed
    <3>2. /\ updater'[d].pldmRequest = "UpdateComponent"
          /\ updater'[d].componentIndex = c + 1
          /\ updater'[d].componentUpdateStatus = [status EXCEPT ![c + 1] = "true"]
      BY <3>1, <1>2 DEF UpdaterType
    <3>3. TrueWasApplied(d)'
      BY <1>2, <2>6, <3>2, ComponentsExist DEF TrueWasApplied
    <3> QED
      BY <1>3, <2>1, <2>3, <2>4, <3>2, <3>3, OnlyCancels DEF RequestKinds
  <2> QED
    BY <2>7, <2>8
<1>12. CASE RepeatApplyComplete(d)
  BY <1>12 DEF RepeatApplyComplete
<1>13. CASE FDReset(d)
  <2>1. /\ UNCHANGED <<activation, completion, updater, requests, orphans, outcome>>
        /\ fd'[d] = FDIdle
    BY <1>13 DEF FDReset, Typed
  <2>2. ~Engaged(d)' /\ fd'[d].session # "current"
    BY <2>1 DEF Engaged, Busy, FDIdle
  <2>3. activation' = "Ready" => updater'[d].reqFwDataTimer # "running"
    BY <2>1 DEF Stepwise, Untouched
  <2> QED
    BY <2>1, <2>2, <2>3, <1>5, NothingNew
<1> QED
  BY <1>6, <1>7, <1>8, <1>9, <1>10, <1>11, <1>12, <1>13 DEF DeviceNext, Answer

\* A device whose messages came in turn so far.
LEMMA TurnKept ==
  ASSUME NEW d \in Devices, DeviceNext(d), d \notin outOfTurn'
  PROVE  d \notin outOfTurn
  BY DEF DeviceNext, RequestFails, RequestUpdateResponse, PassCompTableResponse,
         UpdateComponentResponse, UpdateComponentRefused,
         CancelUpdateComponentResponse, CancelFails, ActivateFirmwareResponse,
         OrphanCallback, SendDeferred, RequestFwDataTimeout, RequestFwData,
         TransferComplete, VerifyComplete, CompleteWithError, ApplyComplete,
         RepeatApplyComplete, FDReset, NoteSession, historyVars

LEMMA NextStepwise ==
  ASSUME ~SlowRequests, Typed, OrphansWait, OrderInv, StepInv, [Next]_vars
  PROVE  StepInv'
<1> SUFFICES ASSUME NEW e \in Devices, e \in deviceUpdaterMap', e \notin outOfTurn'
             PROVE  Stepwise(e)'
  <2>1. deviceUpdaterMap' \subseteq Devices
    BY NextTyped DEF Typed
  <2> QED
    BY <2>1 DEF StepInv
<1> USE DEF managerVars, historyVars
<1>1. CASE \E D \in SUBSET Devices : ProcessPackage(D)
  <2>1. ResetUpdaters /\ requests' = requests
    BY <1>1 DEF ProcessPackage
  <2>2. /\ updater'[e] = NewUpdater(e)
        /\ requests'[e] = requests[e] /\ orphans'[e] = Len(requests[e])
        /\ fd'[e] = IF fd[e].session = "current" THEN [fd[e] EXCEPT !.session = "stale"]
                                                 ELSE fd[e]
    BY <2>1 DEF ResetUpdaters, DestroyUpdaters
  <2>3. /\ updater'[e].pldmRequest = "none" /\ updater'[e].reqFwDataTimer = "none"
        /\ updater'[e].componentUpdateStatus = [c \in Comps(e) |-> "unset"]
    BY <2>2 DEF NewUpdater
  <2>4. fd'[e].session # "current"
    <3>1. fd[e] \in FDType
      BY DEF Typed
    <3> QED
      BY <2>2, <3>1 DEF FDType
  <2>5. \A k \in DOMAIN requests'[e] : ~LiveAt(e, k)'
    BY <2>2, LineFacts DEF LiveAt
  <2>6. \A kind : ~Waiting(e, kind)'
    BY <2>5 DEF Waiting
  <2>7. NoneTrue(e)'
    BY <2>3 DEF NoneTrue
  <2>8. Untouched(e)' /\ DeferredStep(e)' /\ StepIsLast(e)' /\ StartIsFirst(e)'
    BY <2>3, <2>4, <2>5, <2>6, <2>7 DEF Untouched, DeferredStep, StepIsLast, StartIsFirst
  <2>9. StepWaits(e)' /\ NoneTrueYet(e)' /\ AppliedFirst(e)' /\ CancelledIsFalse(e)'
    BY <2>3, <2>6, <2>7
       DEF StepWaits, StepDue, Steps, RequestKinds, Due, NoneTrueYet, AppliedFirst,
           CancelledIsFalse
  <2>10. TrueWasApplied(e)'
    BY <2>7 DEF TrueWasApplied, NoneTrue
  <2> QED
    BY <2>8, <2>9, <2>10 DEF Stepwise
<1>2. CASE ProcessInvalidPackage \/ DeleteActivation
  BY <1>2 DEF ProcessInvalidPackage, DeleteActivation
<1>3. CASE ActivatePackage
  <2>1. /\ activation = "Ready" /\ activation' = "Activating"
        /\ e \in deviceUpdaterMap /\ e \notin outOfTurn
        /\ UNCHANGED <<completion, updater, orphans, fd, outcome>>
        /\ \/ requests'[e] = requests[e]
           \/ requests'[e] = Append(requests[e], "RequestUpdate")
    BY <1>3 DEF ActivatePackage
  <2>2. /\ Stepwise(e) /\ updater[e].pldmRequest = "none"
        /\ \A kind \in RequestKinds : ~Waiting(e, kind)
        /\ fd[e].session # "current" /\ NoneTrue(e)
    BY <2>1 DEF StepInv, Stepwise, Untouched
  <2>3. \A k \in DOMAIN requests[e] : ~LiveAt(e, k)
    <3>1. \A k \in DOMAIN requests[e] : requests[e][k] \in RequestKinds
      BY LineFacts
    <3> QED
      BY <2>2, <3>1 DEF Waiting
  <2>4. \A k \in DOMAIN requests'[e] : LiveAt(e, k)' =>
          /\ k = Len(requests[e]) + 1 /\ k = Len(requests'[e])
          /\ requests'[e][k] = "RequestUpdate"
    BY <2>1, <2>3, LineJoined DEF RequestKinds, LiveAt
  <2>5. Len(requests[e]) = orphans[e]
    <3>1. CASE Len(requests[e]) > orphans[e]
      BY <2>3, <3>1, LineFacts DEF LiveAt
    <3> QED
      BY <3>1, LineFacts
  <2>6. Untouched(e)' /\ DeferredStep(e)' /\ StepIsLast(e)' /\ StartIsFirst(e)'
    BY <2>1, <2>2, <2>4, <2>5 DEF Untouched, DeferredStep, StepIsLast, StartIsFirst
  <2>7. \A kind : Waiting(e, kind)' => kind = "RequestUpdate"
    BY <2>4 DEF Waiting
  <2>8. NoneTrue(e)'
    BY <2>1, <2>2 DEF NoneTrue
  <2>9. StepWaits(e)' /\ NoneTrueYet(e)' /\ AppliedFirst(e)' /\ CancelledIsFalse(e)'
    BY <2>1, <2>2, <2>7, <2>8
       DEF StepWaits, StepDue, Steps, RequestKinds, Due, NoneTrueYet, AppliedFirst,
           CancelledIsFalse
  <2>10. TrueWasApplied(e)'
    BY <2>8 DEF TrueWasApplied, NoneTrue
  <2> QED
    BY <2>6, <2>9, <2>10 DEF Stepwise
<1>4. ASSUME NEW d \in Devices, DeviceNext(d)
      PROVE  Stepwise(e)'
  <2>1. e \in deviceUpdaterMap
    BY <1>4, ReportStep
  <2>2. CASE e = d
    <3>1. Stepwise(d) /\ Orderly(d)
      BY <1>4, <2>1, <2>2, TurnKept DEF OrderInv, StepInv
    <3> QED
      BY <1>4, <2>2, <3>1, ResponseStepwise, EventStepwise
  <2>3. CASE e # d
    <3>1. /\ updater'[e] = updater[e] /\ fd'[e] = fd[e] /\ outcome'[e] = outcome[e]
          /\ requests'[e] = requests[e] /\ orphans'[e] = orphans[e]
          /\ e \notin outOfTurn
      BY <1>4, <2>3, OthersStep
    <3>2. activation' = "Ready" => activation = "Ready"
      BY <1>4, ReadyStays
    <3>3. Stepwise(e)
      BY <2>1, <3>1 DEF StepInv
    <3>4. /\ \A kind : Waiting(e, kind)' <=> Waiting(e, kind)
          /\ (Engaged(e)' <=> Engaged(e))
          /\ StepIsLast(e)' /\ StartIsFirst(e)'
      BY <3>1, <3>3
         DEF Waiting, LiveAt, Engaged, Stepwise, StepIsLast, StartIsFirst
    <3>5. activation' = "Ready" => updater'[e].reqFwDataTimer # "running"
      BY <3>1, <3>2, <3>3 DEF Stepwise, Untouched
    <3> QED
      BY <3>1, <3>2, <3>3, <3>4, <3>5, NothingNew
  <2> QED
    BY <2>2, <2>3
<1>5. CASE UNCHANGED vars
  <2>1. Stepwise(e)
    BY <1>5 DEF StepInv, vars
  <2> QED
    BY <1>5, <2>1
       DEF vars, Stepwise, Untouched, DeferredStep, StepIsLast, StartIsFirst, StepWaits,
           TrueWasApplied, CancelledIsFalse, NoneTrueYet, AppliedFirst, LiveAt, Waiting,
           Due, StepDue, Engaged, NoneTrue, SomeApplied
<1> QED
  BY <1>1, <1>2, <1>3, <1>4, <1>5 DEF Next

\* ActivateFirmware goes to a device only after it applied some component in this
\* update: failed, cancelled and refused components leave no flag behind that would
\* make the last one's handler activate nothing (reqFwDataTimer outlasting a request
\* is excluded: it runs ten times as long).
THEOREM ActivatesSomethingNewHolds ==
  ASSUME ~SlowRequests
  PROVE  Spec => []ActivatesSomethingNew
<1>1. Init => StepInv
  BY DEF Init, StepInv
<1>2. Typed /\ OrphansWait /\ OrderInv /\ StepInv /\ [Next]_vars => StepInv'
  BY NextStepwise
<1>3. Typed /\ StepInv => ActivatesSomethingNew
  BY DEF Typed, StepInv, Stepwise, AppliedFirst, Due, Waiting, LiveAt, SomeApplied,
         ActivatesSomethingNew
<1> QED
  BY <1>1, <1>2, <1>3, InitTyped, InitOrphans, InitOrder, NextTyped, NextOrder,
     PTL DEF Spec

=============================================================================
