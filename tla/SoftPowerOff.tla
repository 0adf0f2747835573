---------------------------- MODULE SoftPowerOff ----------------------------
(***************************************************************************)
(* pldm-softpoweroff: one process that asks the host to shut down through  *)
(* a state effecter and waits, in its own event loop, for the answer and   *)
(* for the event that says the host is down.  Two timers bound the two     *)
(* waits; the loop looks at its two flags after every event.               *)
(***************************************************************************)
EXTENDS Integers, Sequences

CONSTANTS
    Entries,    \* of the configuration file, in their order: a set of numbers
    MaxStrays   \* bound: messages at the socket that answer something else

VARIABLES
    stage,            \* of main: "constructor", "built", "loop" or "exited"
    found,            \* effecterID, sensorID and sensorOffset were looked up
    inbox,            \* messages at the transport's socket
    listening,        \* the IO source is enabled
    responseReceived, \* the host accepted the request
    completed,        \* the shutdown event was matched
    requestTimer,     \* the 30 seconds of the request: "off", "armed", "fired"
    waitTimer,        \* SOFTOFF_TIMEOUT_SECONDS: "off", "armed", "expired"
    exitCode,         \* 0 or -1 once exited
    reason,           \* why main ended
    hostDown,         \* the host said it shut down
    strays            \* stray messages so far

vars == <<stage, found, inbox, listening, responseReceived, completed,
          requestTimer, waitTimer, exitCode, reason, hostDown, strays>>

Init ==
    /\ stage = "constructor" /\ found = FALSE /\ inbox = <<>>
    /\ listening = FALSE /\ responseReceived = FALSE /\ completed = FALSE
    /\ requestTimer = "off" /\ waitTimer = "off"
    /\ exitCode = 0 /\ reason = "none" /\ hostDown = FALSE /\ strays = 0

Exit(code, why) == stage' = "exited" /\ exitCode' = code /\ reason' = why
GoOn == UNCHANGED <<stage, exitCode, reason>>

\* A file that is missing or empty makes a number, in which nothing can be
\* looked up; one that does not parse throws at once.
parseConfig(file) == CASE file = "missing" -> "number"
                       [] file = "malformed" -> "thrown"
                       [] file = "good" -> "entries"

getHostState(current) ==
    CASE current = "unreadable" -> "unknown"
      [] current \in {"Running", "TransitioningToOff"} -> "running"
      [] OTHER -> "off"

\* pldmd answers with the PDRs of the entry; none, or no answer, is not found.
getEffecterID(e, pdrs) == e \in pdrs.effecters

\* The offset is that of the termination state set, if the sensor has it.
getSensorInfo(e, pdrs) == CASE e \notin pdrs.sensors -> "error"
                            [] e \notin pdrs.terminations -> "noOffset"
                            [] OTHER -> "success"

\* The first entry with an effecter is taken.  Without a sensor that is an error;
\* if no entry has an effecter nothing is: the request goes out with whatever
\* effecterID holds.
LookUp(pdrs) ==
    LET ok == {e \in Entries : getEffecterID(e, pdrs)}
        first == CHOOSE e \in ok : \A f \in ok : e <= f
    IN IF ok # {} /\ getSensorInfo(first, pdrs) = "error"
       THEN Exit(-1, "noSensor") /\ UNCHANGED found
       ELSE /\ stage' = "built"
            /\ found' = (ok # {} /\ getSensorInfo(first, pdrs) = "success")
            /\ UNCHANGED <<exitCode, reason>>

\* The host is asked only if it runs.
Construct(file, current, pdrs) ==
    /\ stage = "constructor"
    /\ LET json == parseConfig(file) host == getHostState(current) IN
       \/ json = "thrown" /\ Exit(-1, "aborted") /\ UNCHANGED found
       \/ json # "thrown" /\ host = "unknown" /\ Exit(-1, "hostState") /\ UNCHANGED found
       \/ json # "thrown" /\ host = "off" /\ Exit(0, "hostOff") /\ UNCHANGED found
       \/ json = "number" /\ host = "running" /\ Exit(-1, "aborted") /\ UNCHANGED found
       \/ json = "entries" /\ host = "running" /\ LookUp(pdrs)
    /\ UNCHANGED <<inbox, listening, responseReceived, completed, requestTimer,
                   waitTimer, hostDown, strays>>

\* Mutant for SuccessMeansShutdown: one timer for the answer and for the host.
MutWaitTimerAtSend == "armed"

WaitTimerAtSend == "off"

\* hostSoftOff up to its loop.
HostSoftOff(sent) ==
    /\ stage = "built"
    /\ IF sent
       THEN /\ stage' = "loop" /\ listening' = TRUE /\ requestTimer' = "armed"
            /\ waitTimer' = WaitTimerAtSend
            /\ UNCHANGED <<exitCode, reason>>
       ELSE /\ Exit(-1, "notSent")
            /\ UNCHANGED <<listening, requestTimer, waitTimer>>
    /\ UNCHANGED <<found, inbox, responseReceived, completed, hostDown, strays>>

-----------------------------------------------------------------------------
(* The host, and whatever else writes to the socket.                       *)

HostResponds(code) ==
    /\ stage = "loop" /\ ~responseReceived
    /\ \A k \in DOMAIN inbox : inbox[k] = "stray"
    /\ inbox' = Append(inbox, code)
    /\ UNCHANGED <<stage, found, listening, responseReceived, completed, requestTimer,
                   waitTimer, exitCode, reason, hostDown, strays>>

StrayArrives ==
    /\ stage = "loop" /\ strays < MaxStrays
    /\ strays' = strays + 1
    /\ inbox' = Append(inbox, "stray")
    /\ UNCHANGED <<stage, found, listening, responseReceived, completed, requestTimer,
                   waitTimer, exitCode, reason, hostDown>>

-----------------------------------------------------------------------------
(* The event loop: one event at a time while neither flag is up.           *)

Looping == stage = "loop" /\ ~completed /\ waitTimer # "expired"

\* EPOLLIN.  The source is disabled before the message is looked at: after a
\* message that is not the answer nobody reads the answer any more.
Receive(armed) ==
    /\ Looping /\ listening /\ inbox # <<>>
    /\ inbox' = Tail(inbox)
    /\ listening' = FALSE
    /\ CASE Head(inbox) = "stray"   -> GoOn /\ UNCHANGED <<responseReceived, waitTimer>>
         [] Head(inbox) = "refused" -> Exit(-1, "refused")
                                       /\ UNCHANGED <<responseReceived, waitTimer>>
         [] Head(inbox) = "accepted" ->
               /\ responseReceived' = TRUE
               /\ IF armed THEN waitTimer' = "armed" /\ GoOn
                  ELSE Exit(-1, "noTimer") /\ UNCHANGED waitTimer
    /\ UNCHANGED <<found, completed, requestTimer, hostDown, strays>>

RequestTimeout ==
    /\ Looping /\ requestTimer = "armed"
    /\ requestTimer' = "fired"
    /\ IF responseReceived THEN GoOn ELSE Exit(-1, "unanswered")
    /\ UNCHANGED <<found, inbox, listening, responseReceived, completed, waitTimer,
                   hostDown, strays>>

\* The StateSensorEvent signal of the host's termination sensor; the host may
\* report before it answers, or without having been asked.
HostSoftOffComplete ==
    /\ Looping
    /\ hostDown' = TRUE
    /\ completed' = TRUE
    /\ waitTimer' = "off"
    /\ UNCHANGED <<stage, found, inbox, listening, responseReceived, requestTimer,
                   exitCode, reason, strays>>

\* Another sensor's event with the same numbers: told apart by a sensorID that
\* was never set if no effecter was found.
OtherSensorEvent ==
    /\ Looping /\ ~found
    /\ completed' = TRUE
    /\ waitTimer' = "off"
    /\ UNCHANGED <<stage, found, inbox, listening, responseReceived, requestTimer,
                   exitCode, reason, hostDown, strays>>

WaitTimeout ==
    /\ Looping /\ waitTimer = "armed"
    /\ waitTimer' = "expired"
    /\ UNCHANGED <<stage, found, inbox, listening, responseReceived, completed,
                   requestTimer, exitCode, reason, hostDown, strays>>

\* The loop ends and main returns.
Return ==
    /\ stage = "loop" /\ ~Looping
    /\ IF waitTimer = "expired" /\ responseReceived
       THEN Exit(-1, "timeout") ELSE Exit(0, "completed")
    /\ UNCHANGED <<found, inbox, listening, responseReceived, completed, requestTimer,
                   waitTimer, hostDown, strays>>

Next ==
    \/ \E file \in {"missing", "malformed", "good"},
          current \in {"unreadable", "Running", "TransitioningToOff", "Off"},
          pdrs \in [effecters : SUBSET Entries, sensors : SUBSET Entries,
                   terminations : SUBSET Entries] : Construct(file, current, pdrs)
    \/ \E sent \in BOOLEAN : HostSoftOff(sent)
    \/ \E code \in {"accepted", "refused"} : HostResponds(code)
    \/ StrayArrives
    \/ \E armed \in BOOLEAN : Receive(armed)
    \/ RequestTimeout
    \/ HostSoftOffComplete
    \/ OtherSensorEvent
    \/ WaitTimeout
    \/ Return

Spec == Init /\ [][Next]_vars

-----------------------------------------------------------------------------
\* The process reports success, and the power is cut, only for a host that was
\* off or said it shut down: no timer, answer or stray message ends the wait as
\* if it had (main, hostSoftOffComplete, the loop of hostSoftOff).  Except when no
\* entry had an effecter, or the sensor no offset of the termination state:
\* sensorID or sensorOffset is then never set, and the event of any sensor may
\* match what the memory holds.
SuccessMeansShutdown ==
    stage = "exited" /\ exitCode = 0 /\ (found \/ ~completed) =>
        hostDown \/ reason = "hostOff"

\* Without the exception, which the code does not keep: see OtherSensorEvent.
OnlyShutdownSucceeds ==
    stage = "exited" /\ exitCode = 0 => hostDown \/ reason = "hostOff"

\* "can't get the response for the PLDM request msg" is said of a response that
\* did not come (softoff.cpp:347).  Not kept: see Receive.
GivesUpOnlyUnanswered ==
    reason = "unanswered" => \A k \in DOMAIN inbox : inbox[k] = "stray"

-----------------------------------------------------------------------------
\* The inductive invariant that SuccessMeansShutdown needs.
\* The state of the wait, as far as the exit code depends on it.
Typed ==
  /\ stage \in {"constructor", "built", "loop", "exited"}
  /\ exitCode \in {0, -1}
  /\ inbox \in Seq({"stray", "accepted", "refused"})
  /\ waitTimer \in {"off", "armed", "expired"}

\* The wait ends as completed only for a reason: the host's event or, if nothing
\* was looked up, some event with the same numbers.
CompletedForReason == completed => hostDown \/ ~found

\* The timer of the wait runs from the host's answer on: it never expires for a
\* host that did not accept the request.
TimedAfterAnswer == waitTimer # "off" => responseReceived

\* A timer that expired never meets a shutdown that was matched.
OneEnd == completed => waitTimer = "off"

\* Before the loop nothing was matched and no timer was started.
QuietBefore ==
  stage \in {"constructor", "built"} => ~completed /\ waitTimer = "off"

IndInv ==
  /\ Typed
  /\ CompletedForReason
  /\ TimedAfterAnswer
  /\ OneEnd
  /\ QuietBefore
  /\ SuccessMeansShutdown
=============================================================================
