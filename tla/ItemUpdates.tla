---------------------------- MODULE ItemUpdates ----------------------------
(***************************************************************************)
(* The inventory of firmware devices and the updates of single items.      *)
(*                                                                         *)
(* InventoryManager asks each endpoint for its identifiers, then for its   *)
(* firmware parameters, and creates one ItemUpdateManager for the image    *)
(* set (component 0) and one per component.  Each is a D-Bus object that   *)
(* takes an image of its own; AggregateUpdateManager offers a device's     *)
(* request to the manager of whole packages first, and then to the item    *)
(* managers in the order of their map, until one does not answer           *)
(* COMMAND_NOT_EXPECTED.                                                   *)
(*                                                                         *)
(* The protocol between one DeviceUpdater and its device is that of        *)
(* FirmwareUpdate; here it is three steps: accepted, one request, over.    *)
(* Nothing calls sendQueryDownstreamDevicesRequest: the queries of         *)
(* downstream devices that hang on it never run and are not modelled.      *)
(***************************************************************************)
EXTENDS Integers, FiniteSets, FiniteSetsExt

CONSTANTS
    Endpoints,  \* endpoint ids, a set of naturals
    Components, \* identifiers of the components each device reports, all > 0
    MaxImages   \* bound: packages handed to item managers

VARIABLES
    present,     \* endpoints MCTP discovery has announced
    asked,       \* requests of InventoryManager on their way, by endpoint
    descriptors, \* endpoints in descriptorMap (and firmwareDeviceNameMap)
    components,  \* endpoints in componentInfoMap
    manager,     \* updateManagers of AggregateUpdateManager, with softwareMap
    package,     \* endpoints in deviceUpdaterMap of the package's UpdateManager
    working,     \* whose update each device is in
    served,      \* who answered the last request of a device
    images       \* packages handed over so far

vars == <<present, asked, descriptors, components, manager, package, working,
          served, images>>

\* A SoftwareIdentifier: the endpoint and a component, or 0 for the image set.
Items == Endpoints \X ({0} \cup Components)

\* std::map orders its keys, pairs, lexicographically.
Before(i, j) == \/ i[1] < j[1]
                \/ i[1] = j[1] /\ i[2] < j[2]

\* An ItemUpdateManager: updateInProgress, its Activation object, whether the
\* deferred event for its package is pending and whether it has a DeviceUpdater.
NewManager == [exists |-> TRUE, inProgress |-> FALSE, activation |-> "none",
               deferred |-> FALSE, updater |-> FALSE]
NoManager == [NewManager EXCEPT !.exists = FALSE]
Updating(i) == manager[i].updater

\* Who updates a device when no item does; no endpoint is numbered 0.
Nobody == <<0, 0>>
Package == <<0, 1>>

Init ==
    /\ present = {} /\ descriptors = {} /\ components = {} /\ package = {}
    /\ asked = [e \in Endpoints |-> {}]
    /\ manager = [i \in Items |-> NoManager]
    /\ working = [e \in Endpoints |-> Nobody]
    /\ served = "own"
    /\ images = 0

-----------------------------------------------------------------------------
(* The inventory.                                                          *)

\* Without an instance id, or when it cannot be sent, no request goes out.
SendQueryDeviceIdentifiersRequest(sent) == IF sent THEN {"identifiers"} ELSE {}
SendGetFirmwareParametersRequest(sent) == IF sent THEN {"parameters"} ELSE {}

\* An endpoint is announced.  The exception of a request that does not go out
\* is caught for each endpoint: nothing asks that one again.
DiscoverFDs(e, sent) ==
    /\ e \notin present
    /\ present' = present \cup {e}
    /\ asked' = [asked EXCEPT ![e] = @ \cup SendQueryDeviceIdentifiersRequest(sent)]
    /\ UNCHANGED <<descriptors, components, manager, package, working, served, images>>

\* deleteFirmwareEntry: the managers of the endpoint go, updates included.
Erased(e) == [i \in Items |-> IF i[1] = e THEN NoManager ELSE manager[i]]

\* An endpoint is gone, with whatever it was doing.  Requests to it are not
\* recalled: their answers may still come.
RemoveFDs(e) ==
    /\ e \in present
    /\ present' = present \ {e}
    /\ descriptors' = descriptors \ {e}
    /\ components' = components \ {e}
    /\ manager' = Erased(e)
    /\ working' = [working EXCEPT ![e] = Nobody]
    /\ UNCHANGED <<asked, package, served, images>>

\* The name of a device: of the configuration, of its descriptors or, at last,
\* of its endpoint id.  There always is one, so that the two maps of names and
\* of descriptors have the same keys.
ObtainFirmwareDeviceName(e) == descriptors \cup {e}

\* The answer to QueryDeviceIdentifiers, or none, or one that does not decode.
QueryDeviceIdentifiers(e, ok, sent) ==
    /\ "identifiers" \in asked[e]
    /\ asked' = [asked EXCEPT ![e] = (@ \ {"identifiers"})
                    \cup SendGetFirmwareParametersRequest(ok /\ sent)]
    /\ descriptors' = IF ok THEN ObtainFirmwareDeviceName(e) ELSE descriptors
    /\ UNCHANGED <<present, components, manager, package, working, served, images>>

\* No answer to GetFirmwareParameters forgets the identifiers again; a failed
\* one does not.
NoFirmwareParameters(e, silent) ==
    /\ "parameters" \in asked[e]
    /\ asked' = [asked EXCEPT ![e] = @ \ {"parameters"}]
    /\ descriptors' = IF silent THEN descriptors \ {e} ELSE descriptors
    /\ UNCHANGED <<present, components, manager, package, working, served, images>>

\* createUpdateManager: a manager that exists is replaced, whatever it does.
Created(e, reported) ==
    [i \in Items |-> IF i[1] = e /\ i[2] \in reported THEN NewManager ELSE manager[i]]

\* The table names the image set, if it has a version, and then the components
\* one by one; an entry that does not decode ends it with those before kept.
GetFirmwareParameters(e, imageSet, reported, whole) ==
    /\ "parameters" \in asked[e]
    /\ asked' = [asked EXCEPT ![e] = @ \ {"parameters"}]
    /\ manager' = IF e \in descriptors
                  THEN Created(e, reported \cup (IF imageSet THEN {0} ELSE {}))
                  ELSE manager
    /\ components' = IF whole THEN components \cup {e} ELSE components
    /\ UNCHANGED <<present, descriptors, package, working, served, images>>

-----------------------------------------------------------------------------
(* The update of an item.                                                  *)

\* The caller gets the object path at once.  If the file cannot be duplicated
\* the call fails with updateInProgress set: nothing will ever clear it but the
\* Delete object of an earlier activation.
StartUpdate(i, duplicated) ==
    /\ manager[i].exists /\ ~manager[i].inProgress
    /\ images < MaxImages
    /\ images' = images + 1
    /\ manager' = [manager EXCEPT ![i].inProgress = TRUE, ![i].deferred = duplicated]
    /\ UNCHANGED <<present, asked, descriptors, components, package, working, served>>

\* The deferred event.  Only Activating is visible of NotReady, Ready and
\* Activating, which follow each other in one call.  A file that cannot be
\* mapped leaves the last activation, a package that cannot be used is Invalid.
ProcessPackage(i, outcome) ==
    /\ manager[i].exists /\ manager[i].deferred
    /\ manager' = [manager EXCEPT ![i] =
          CASE outcome = "unmapped" -> [@ EXCEPT !.deferred = FALSE, !.inProgress = FALSE]
            [] outcome = "unusable" -> [@ EXCEPT !.deferred = FALSE, !.inProgress = FALSE,
                                                 !.activation = "Invalid"]
            [] OTHER -> [@ EXCEPT !.deferred = FALSE, !.updater = TRUE,
                                  !.activation = "Activating"]]
    /\ UNCHANGED <<present, asked, descriptors, components, package, working, served, images>>

\* Mutant for DeviceHeardByItsUpdater: the DeviceUpdater outlives its update.
MutUpdateDeviceCompletion(m, status) ==
    [m EXCEPT !.activation = IF status THEN "Active" ELSE "Failed", !.inProgress = FALSE]

UpdateDeviceCompletion(m, status) ==
    [m EXCEPT !.activation = IF status THEN "Active" ELSE "Failed",
              !.updater = FALSE, !.inProgress = FALSE]

\* The device takes RequestUpdate: it is in no other update.
RequestUpdateAccepted(i) ==
    /\ Updating(i) /\ i[1] \in present
    /\ working[i[1]] = Nobody
    /\ working' = [working EXCEPT ![i[1]] = i]
    /\ UNCHANGED <<present, asked, descriptors, components, manager, package, served, images>>

\* Refused, unanswered, or the data timer: the updater reports a failure and
\* the device leaves the update.
UpdateFails(i) ==
    /\ Updating(i)
    /\ manager' = [manager EXCEPT ![i] = UpdateDeviceCompletion(@, FALSE)]
    /\ working' = [working EXCEPT ![i[1]] = IF @ = i THEN Nobody ELSE @]
    /\ UNCHANGED <<present, asked, descriptors, components, package, served, images>>

\* The ActivateFirmware that follows the last component was answered.
UpdateSucceeds(i) ==
    /\ Updating(i) /\ working[i[1]] = i
    /\ manager' = [manager EXCEPT ![i] = UpdateDeviceCompletion(@, TRUE)]
    /\ working' = [working EXCEPT ![i[1]] = Nobody]
    /\ UNCHANGED <<present, asked, descriptors, components, package, served, images>>

\* Delete exists once an activation is Active or Failed.  The deferred event of
\* a package was pending before the call came and is dispatched before it.
DeleteActivation(i) ==
    /\ manager[i].exists /\ ~manager[i].deferred
    /\ manager[i].activation \in {"Active", "Failed"}
    /\ manager' = [manager EXCEPT ![i].activation = "none", ![i].inProgress = FALSE]
    /\ UNCHANGED <<present, asked, descriptors, components, package, working, served, images>>

-----------------------------------------------------------------------------
(* The update of a package, as far as requests are concerned: an endpoint  *)
(* stays in deviceUpdaterMap until the activation is reset, long after its *)
(* update is over.                                                         *)

\* A device that matches by its descriptors needs an entry in componentInfoMap,
\* which processStream dereferences without looking.
PackageStarts(e) ==
    /\ package = {} /\ e \in descriptors \cap components \cap present
    /\ working[e] = Nobody
    /\ images < MaxImages
    /\ images' = images + 1
    /\ package' = {e}
    /\ working' = [working EXCEPT ![e] = Package]
    /\ UNCHANGED <<present, asked, descriptors, components, manager, served>>

PackageUpdateEnds(e) ==
    /\ working[e] = Package
    /\ working' = [working EXCEPT ![e] = Nobody]
    /\ UNCHANGED <<present, asked, descriptors, components, manager, package, served, images>>

ResetActivationState ==
    /\ package # {} /\ \A e \in Endpoints : working[e] # Package
    /\ package' = {}
    /\ UNCHANGED <<present, asked, descriptors, components, manager, working, served, images>>

-----------------------------------------------------------------------------
\* AggregateUpdateManager::handleRequest: the item managers do not look at eid.
Answers(e) ==
    LET candidates == {i \in Items : Updating(i)}
    IN IF e \in package THEN Package
       ELSE IF candidates = {} THEN Nobody
       ELSE CHOOSE i \in candidates : \A j \in candidates \ {i} : Before(i, j)

\* The device sends RequestFirmwareData, TransferComplete, VerifyComplete or
\* ApplyComplete of the update it is in.
HandleRequest(e) ==
    /\ working[e] # Nobody
    /\ served' = CASE Answers(e) = working[e] -> "own"
                 [] Answers(e) = Nobody -> "nobody"
                 [] OTHER -> "other"
    /\ UNCHANGED <<present, asked, descriptors, components, manager, package, working, images>>

Next ==
    \/ \E e \in Endpoints : \/ \E sent \in BOOLEAN : DiscoverFDs(e, sent)
                            \/ RemoveFDs(e)
                            \/ \E ok, sent \in BOOLEAN : QueryDeviceIdentifiers(e, ok, sent)
                            \/ \E silent \in BOOLEAN : NoFirmwareParameters(e, silent)
                            \/ \E imageSet, whole \in BOOLEAN, c \in SUBSET Components :
                                  GetFirmwareParameters(e, imageSet, c, whole)
                            \/ PackageStarts(e)
                            \/ PackageUpdateEnds(e)
                            \/ HandleRequest(e)
    \/ \E i \in Items : \/ \E duplicated \in BOOLEAN : StartUpdate(i, duplicated)
                        \/ \E outcome \in {"unmapped", "unusable", "activating"} :
                              ProcessPackage(i, outcome)
                        \/ RequestUpdateAccepted(i)
                        \/ UpdateFails(i)
                        \/ UpdateSucceeds(i)
                        \/ DeleteActivation(i)
    \/ ResetActivationState

Spec == Init /\ [][Next]_vars

-----------------------------------------------------------------------------
\* A request goes to the update the device is in, for whatever other items are
\* being updated (aggregate_update_manager.hpp, handleRequest, "dispatches them
\* to the appropriate update manager based on the software identifier").
RequestsReachTheirUpdater == served # "other"

\* The device's update is the only one in progress by what the managers say:
\* no other startUpdate is open, and no package holds an updater for the device.
Alone(e) == /\ e \notin package
            /\ {i \in Items : manager[i].exists /\ manager[i].inProgress} = {working[e]}

\* A device updated while nothing else is is never answered by the updater of
\* another item, though devices come, go and come back, images are unusable,
\* activations are deleted and the managers of items are created again while an
\* update runs: no updater outlives the updateInProgress of its manager
\* (updateDeviceCompletion, resetActivationState, eraseUpdateManagerIf).
HeardByItsUpdater ==
    \A e \in Endpoints : HandleRequest(e) /\ Alone(e) => served' # "other"
DeviceHeardByItsUpdater == [][HeardByItsUpdater]_vars

-----------------------------------------------------------------------------
\* The inductive invariant that HeardByItsUpdater needs: a DeviceUpdater, or
\* the deferred event for one, belongs to an update in progress.
ItemsInv ==
  /\ manager \in [Items -> [exists : BOOLEAN, inProgress : BOOLEAN, deferred : BOOLEAN,
                            updater : BOOLEAN,
                            activation : {"none", "Invalid", "Activating", "Active", "Failed"}]]
  /\ \A i \in Items :
       /\ manager[i].deferred => manager[i].inProgress /\ ~manager[i].updater
       /\ manager[i].updater => /\ manager[i].exists /\ manager[i].inProgress
                                /\ manager[i].activation = "Activating"
=============================================================================
