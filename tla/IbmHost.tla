------------------------------- MODULE IbmHost -------------------------------
(***************************************************************************)
(* oem/ibm: how the platform handler watches the host (heartbeats, the    *)
(* host watchdog, the power cycle the host may ask for), and the slot     *)
(* operations it performs for it.                                          *)
(***************************************************************************)
EXTENDS Integers, FiniteSets

CONSTANTS
  Slots,        \* PCIe slots
  Adapters,     \* those with an adapter in the inventory
  None

VARIABLES
  host,         \* D-Bus: CurrentHostState
  flags,        \* Handler: [hostOff, hostTransitioningToOff]
  survTimer,    \* the surveillance timer is enabled
  watchdog,     \* [enabled: D-Bus property, cnt: setEventReceiverCnt,
                \*  survEvent: the deferred SetEventReceiver of getTID]
  chassisOffMatch, \* the match a power cycle of the host creates
  slot,         \* SlotHandler: [current, match, timer]
  pending,      \* slot of the last operation on an adapter, until the host is told
                \* of its outcome (history)
  history       \* [armedBy: whose ping armed the surveillance timer since the host
                \*  went off: none, host, early (it was taken to be off) or other,
                \*  error: the last check of the timer reported the ping error,
                \*  bare: a slot without an adapter was named since pending was,
                \*  told: last sensor event, [slot, state]]

vars == <<host, flags, survTimer, watchdog, chassisOffMatch, slot, pending, history>>

NoMatch == [slot |-> None, op |-> ""]

Init ==
  /\ host \in {"Off", "Running"}   \* the daemon may start beside a running host
  /\ flags = [hostOff |-> TRUE, hostTransitioningToOff |-> TRUE]
  /\ survTimer = FALSE
  /\ watchdog \in [enabled : BOOLEAN, cnt : {0}, survEvent : {FALSE}]
  /\ chassisOffMatch = FALSE
  /\ slot = [current |-> None, match |-> NoMatch, timer |-> FALSE]
  /\ pending = None
  /\ history = [armedBy |-> "none", error |-> FALSE, bare |-> FALSE,
                told |-> [slot |-> None, state |-> ""]]

SlotSide == <<slot, pending>>
HostSide == <<host, flags, survTimer, watchdog, chassisOffMatch>>

-----------------------------------------------------------------------------
\* disableWatchDogTimer: the count starts again, whoever asks.
Disabled(w) == [w EXCEPT !.enabled = FALSE, !.cnt = 0]

\* Mutant for PingErrorOfThisRun: the host's going off leaves the timer.
MutTimerAfter(state) == survTimer
TimerAfter(state) == IF state = "Off" THEN FALSE ELSE survTimer

\* hostOffMatch
HostStateChanged(state) ==
  /\ <<host, state>> \in {<<"Off", "Running">>, <<"Running", "Off">>,
                        <<"Running", "TransitioningToOff">>,
                        <<"TransitioningToOff", "Off">>}
  /\ host' = state
  /\ flags' = CASE state = "Off" -> [flags EXCEPT !.hostOff = TRUE]
                [] state = "Running" -> [hostOff |-> FALSE, hostTransitioningToOff |-> FALSE]
                [] OTHER -> [flags EXCEPT !.hostTransitioningToOff = TRUE]
  /\ survTimer' = TimerAfter(state)
  /\ watchdog' = IF state = "Off" THEN Disabled(watchdog) ELSE watchdog
  /\ history' = [history EXCEPT !.error = FALSE,
                                !.armedBy = IF state = "Off" THEN "none" ELSE @]
  /\ UNCHANGED <<chassisOffMatch, slot, pending>>

\* phosphor-state-manager arms the host watchdog when the host boots.
WatchdogArmed ==
  /\ host = "Running" /\ ~watchdog.enabled
  /\ watchdog' = [watchdog EXCEPT !.enabled = TRUE]
  /\ UNCHANGED <<host, flags, survTimer, chassisOffMatch, slot, pending, history>>

\* setSurvTimer: with the host off, or for a terminus that is not the
\* hypervisor, an enabled timer stops; one that is not enabled is started all
\* the same.
Pinger(hypervisor) ==
  IF flags.hostOff THEN "early" ELSE IF hypervisor THEN "host" ELSE "other"

setSurvTimer(hypervisor, value) ==
  LET stops == (flags.hostOff \/ flags.hostTransitioningToOff \/ ~hypervisor)
                 /\ survTimer IN
  /\ survTimer' = (~stops /\ value)
  /\ history' = [history EXCEPT
       !.error = ~stops /\ ~value /\ survTimer,
       !.armedBy = IF ~stops /\ value THEN Pinger(hypervisor) ELSE @]

\* PlatformEventMessage with a heartbeat, of the host or of another terminus.
Heartbeat(hypervisor) ==
  /\ IF watchdog.enabled THEN UNCHANGED <<survTimer, history>>
     ELSE setSurvTimer(hypervisor, TRUE)
  /\ UNCHANGED <<host, flags, watchdog, chassisOffMatch, slot, pending>>

SurvTimerExpires ==
  /\ survTimer
  /\ setSurvTimer(TRUE, FALSE)
  /\ UNCHANGED <<host, flags, watchdog, chassisOffMatch, slot, pending>>

\* GetTID defers setEventReceiver; a second one before that replaces it.
getTID ==
  /\ watchdog' = [watchdog EXCEPT !.survEvent = TRUE]
  /\ UNCHANGED <<host, flags, survTimer, chassisOffMatch, slot, pending, history>>

\* setEventReceiver counts what it sends, answered or not: the second one hands
\* the host's surveillance over from the watchdog.
processSetEventReceiver ==
  /\ watchdog.survEvent
  /\ LET sent == [watchdog EXCEPT !.survEvent = FALSE,
                                  !.cnt = IF @ < 3 THEN @ + 1 ELSE @] IN
     watchdog' = IF ~flags.hostOff /\ sent.cnt = 2 THEN Disabled(sent) ELSE sent
  /\ UNCHANGED <<host, flags, survTimer, chassisOffMatch, slot, pending, history>>

\* POWER_CYCLE_HARD asks the chassis to go off; from then on every power-off
\* sets the one-time restore policy and reboots the BMC, which ends the daemon.
processSystemReboot ==
  /\ chassisOffMatch' = TRUE
  /\ UNCHANGED <<host, flags, survTimer, watchdog, slot, pending, history>>

ChassisOff ==
  /\ chassisOffMatch
  /\ chassisOffMatch' = FALSE /\ survTimer' = FALSE /\ host' = "Off"
  /\ flags' = [hostOff |-> TRUE, hostTransitioningToOff |-> TRUE]
  /\ watchdog' = [watchdog EXCEPT !.cnt = 0, !.survEvent = FALSE]
  /\ slot' = [current |-> None, match |-> NoMatch, timer |-> FALSE]
  /\ pending' = None
  /\ history' = [history EXCEPT !.armedBy = "none", !.error = FALSE, !.bare = FALSE]

-----------------------------------------------------------------------------
\* enableSlot: the slot is the current one even when it turns out to have no
\* adapter.  processSlotOperations puts the match and the 1 min timer in place of
\* those of an operation under way, whatever callVPDManager does.
enableSlot(s, op) ==
  /\ slot' = IF s \in Adapters
               THEN [current |-> s, match |-> [slot |-> s, op |-> op], timer |-> TRUE]
             ELSE [slot EXCEPT !.current = s]
  /\ pending' = IF s \in Adapters THEN s ELSE pending
  /\ history' = [history EXCEPT !.bare = s \notin Adapters]
  /\ UNCHANGED HostSide

Tell(s, state) ==
  /\ history' = [history EXCEPT !.told = [slot |-> s, state |-> state]]
  /\ pending' = IF s = pending THEN None ELSE pending

\* The timeout stops the timer and keeps the match.
timeOutHandler ==
  /\ slot.timer
  /\ slot' = [slot EXCEPT !.timer = FALSE]
  /\ Tell(slot.current, "error")
  /\ UNCHANGED HostSide

\* Mutant for SlotOperationWatched: a change of presence leaves the timer.
MutTimerAfterChange == slot.timer
TimerAfterChange == FALSE

\* The match is destroyed by its own callback, whose slot is read after that.
processPresentPropertyChange(present) ==
  /\ slot.match # NoMatch
  /\ slot' = [slot EXCEPT !.timer = TimerAfterChange, !.match = NoMatch]
  /\ Tell(slot.match.slot, IF present THEN "enabled"
                           ELSE IF slot.match.op = "replace" THEN "unknown"
                           ELSE "disabled")
  /\ UNCHANGED HostSide

Next ==
  \/ \E state \in {"Off", "Running", "TransitioningToOff"} : HostStateChanged(state)
  \/ WatchdogArmed \/ SurvTimerExpires \/ getTID \/ processSetEventReceiver
  \/ processSystemReboot \/ ChassisOff \/ timeOutHandler
  \/ \E b \in BOOLEAN : Heartbeat(b) \/ processPresentPropertyChange(b)
  \/ \E s \in Slots, op \in {"add", "remove", "replace"} : enableSlot(s, op)

Spec == Init /\ [][Next]_vars

(* The missed-ping error follows a ping that came since the host last went      *)
(* off, and is never about a host taken to be off or going off.  The ping need   *)
(* not be the host's: see HostPinged.                                            *)
PingErrorOfThisRun ==
  history.error =>
    history.armedBy # "none" /\ ~flags.hostOff /\ ~flags.hostTransitioningToOff

(* oem_ibm_handler.hpp:385-386 "logs informational error if remote terminus     *)
(* fails to send the surveillance pings": not so when a heartbeat of another     *)
(* terminus, or one from before the host is taken to run, armed the timer.       *)
HostPinged == history.error => history.armedBy = "host"

(* The timer runs only while the host waits for the last operation on an adapter *)
(* it asked for, and a time-out cannot follow the answer a change of presence    *)
(* gave.  While the host waits, that change will answer it with its slot, and    *)
(* the time-out too, unless the host named a slot without an adapter since: then *)
(* the error names that one.  An operation another one replaces is not answered. *)
SlotOperationWatched ==
  /\ slot.timer => pending # None
  /\ pending # None => slot.match # NoMatch /\ slot.match.slot = pending
  /\ pending # None /\ ~history.bare => slot.timer /\ slot.current = pending

-----------------------------------------------------------------------------
\* The inductive invariant that the two properties need.
IbmTypes ==
  /\ host \in {"Off", "Running", "TransitioningToOff"}
  /\ flags \in [hostOff : BOOLEAN, hostTransitioningToOff : BOOLEAN]
  /\ survTimer \in BOOLEAN
  /\ history.armedBy \in {"none", "host", "early", "other"}
  /\ history.error \in BOOLEAN /\ history.bare \in BOOLEAN
  /\ history = [armedBy |-> history.armedBy, error |-> history.error,
                bare |-> history.bare, told |-> history.told]
  /\ slot = [current |-> slot.current, match |-> slot.match, timer |-> slot.timer]

\* A timer that runs was started by a ping since the host went off.
TimerOfThisRun == survTimer => history.armedBy # "none"

IbmInv == IbmTypes /\ TimerOfThisRun /\ PingErrorOfThisRun /\ SlotOperationWatched
=============================================================================
