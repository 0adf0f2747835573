----------------------------- MODULE EventPolling -----------------------------
(***************************************************************************)
(* platform-mc/event_manager.cpp: pollForPlatformEventTask fetches the     *)
(* events of a terminus part by part, acknowledges each and hands it to    *)
(* the handlers of its class.  Requests and responses can be lost; the     *)
(* terminus (external, DSP0248) forgets an event once it is acknowledged.  *)
(***************************************************************************)
EXTENDS Integers, Sequences

CONSTANTS
  EventParts  \* EventParts[n]: the parts of the n-th event of the terminus

VARIABLES
  emitted,    \* events the terminus has queued so far
  acked,      \* ... and how many of them it has dropped again
  poll,       \* the locals of pollForPlatformEventTask
  pollEvent,  \* Terminus::pollEvent
  handled     \* messages given to the event handlers (history)

vars == <<emitted, acked, poll, pollEvent, handled>>

NoEvent == 0    \* PLDM_PLATFORM_EVENT_ID_NONE
AckId == -1     \* PLDM_PLATFORM_EVENT_ID_ACK
NumEvents == Len(EventParts)

NotPolling == [op |-> "none", handle |-> 0, ack |-> NoEvent, message |-> <<>>,
               polled |-> NoEvent]

Init ==
  /\ emitted = 0 /\ acked = 0
  /\ poll = NotPolling
  /\ pollEvent = FALSE
  /\ handled = <<>>

\* The terminus queues an event and announces it: handlePlatformEvent
EventArrives ==
  /\ emitted < NumEvents
  /\ emitted' = emitted + 1
  /\ pollEvent' \in {TRUE, pollEvent}  \* the announcement can be lost
  /\ UNCHANGED <<acked, poll, handled>>

\* doSensorPollingTask polls the events of a terminus that announced some.
PollForPlatformEvent ==
  /\ pollEvent /\ poll = NotPolling
  /\ poll' = [NotPolling EXCEPT !.op = "getFirstPart"]
  /\ UNCHANGED <<emitted, acked, pollEvent, handled>>

\* The task ends, with or without error; Manager::pollForPlatformEvent clears
\* the flag, whatever was announced meanwhile.
Ends == poll' = NotPolling /\ pollEvent' = FALSE

\* What the terminus answers; an error completion code if nothing fits
Answer ==
  LET e == acked + 1
  IN  CASE poll.op = "getFirstPart" /\ e > emitted ->
             [event |-> NoEvent, part |-> 0, flag |-> "startAndEnd"]
        [] poll.op = "getFirstPart" /\ e <= emitted ->
             [event |-> e, part |-> 1,
              flag |-> IF EventParts[e] = 1 THEN "startAndEnd" ELSE "start"]
        [] poll.op = "getNextPart" /\ e <= emitted ->
             [event |-> e, part |-> poll.handle,
              flag |-> IF EventParts[e] = poll.handle THEN "end" ELSE "middle"]
        [] poll.op = "ack" ->
             [event |-> IF e < emitted THEN AckId ELSE NoEvent, part |-> 0,
              flag |-> "startAndEnd"]

\* Mutant for EventsHandledIntact: parts are kept from one event to the next.
MutFirstPart(message) == [NotPolling EXCEPT !.op = "getFirstPart", !.message = message]

\* On to the next event; the message that was handled is dropped.
FirstPart(message) == [NotPolling EXCEPT !.op = "getFirstPart"]

\* getNextPartParameters, which checks the data of a multipart event
NextRequest(a, message) ==
  IF a.flag \in {"start", "middle"}
    THEN [poll EXCEPT !.op = "getNextPart", !.handle = a.part + 1,
                      !.message = message]
    ELSE [poll EXCEPT !.op = "ack", !.ack = a.event, !.message = message,
                      !.polled = a.event]

\* The handlers of its class get an event; their failures are logged only.
callPolledEventHandlers == handled' = Append(handled, poll.message)

\* The answer to PollForPlatformEventMessage arrives.
Answered ==
  LET a == Answer
      message == IF a.part = 0 THEN poll.message
                               ELSE Append(poll.message, <<a.event, a.part>>)
  IN  /\ poll.op # "none"
      /\ IF poll.op = "ack"
           THEN /\ callPolledEventHandlers
                /\ acked' = acked + 1
                /\ IF a.event = AckId
                     THEN poll' = FirstPart(message) /\ UNCHANGED pollEvent
                     ELSE Ends
           ELSE /\ UNCHANGED <<handled, acked>>
                /\ IF a.event = NoEvent
                     THEN Ends
                     ELSE /\ poll' = NextRequest(a, message)
                          /\ UNCHANGED pollEvent
      /\ UNCHANGED emitted

\* No usable answer: the request, or the response to it, was lost, the
\* terminus answered an error, or the checksum of the data is wrong.
PollFails ==
  /\ poll.op # "none"
  /\ acked' \in IF poll.op = "ack" THEN {acked, acked + 1} ELSE {acked}
  /\ Ends
  /\ UNCHANGED <<emitted, handled>>

\* The terminus becomes unavailable: the coroutine is stopped at its await,
\* and the flag of the terminus stays.
PollStopped ==
  /\ poll.op # "none"
  /\ poll' = NotPolling
  /\ acked' \in IF poll.op = "ack" THEN {acked, acked + 1} ELSE {acked}
  /\ UNCHANGED <<emitted, pollEvent, handled>>

Next == \/ EventArrives \/ PollForPlatformEvent
        \/ Answered \/ PollFails \/ PollStopped

Spec == Init /\ [][Next]_vars /\ WF_vars(Answered \/ PollFails)

-----------------------------------------------------------------------------
Message(n) == [k \in 1..EventParts[n] |-> <<n, k>>]

\* What the handlers get are whole events, each at most once and in the order
\* of the terminus, although a poll may end between any two parts, before or
\* after its acknowledgement, and the next one starts over.
EventsHandledIntact ==
  \E n \in [DOMAIN handled -> 1..NumEvents] :
    /\ \A k \in DOMAIN handled : handled[k] = Message(n[k])
    /\ \A j, k \in DOMAIN handled : j < k => n[j] < n[k]
    /\ \A k \in DOMAIN handled : n[k] <= acked

-----------------------------------------------------------------------------
\* The inductive invariant that EventsHandledIntact needs.
PollTypes ==
  /\ acked \in Nat /\ emitted \in 0..NumEvents /\ acked <= emitted
  /\ poll \in [op : {"none", "getFirstPart", "getNextPart", "ack"}, handle : Nat,
               ack : Int, message : Seq(Nat \X Nat), polled : Nat]
  /\ handled \in Seq(Seq(Nat \X Nat))

\* The message under way has the first parts of the event that is polled.
PartsInOrder ==
  /\ poll.op = "getFirstPart" => poll.message = <<>>
  /\ poll.op = "getNextPart" =>
       /\ acked < emitted /\ poll.handle \in 2..EventParts[acked + 1]
       /\ poll.message = [k \in 1..poll.handle - 1 |-> <<acked + 1, k>>]
  /\ poll.op = "ack" => acked < emitted /\ poll.message = Message(acked + 1)

PollInv == PollTypes /\ PartsInOrder /\ EventsHandledIntact
=============================================================================
