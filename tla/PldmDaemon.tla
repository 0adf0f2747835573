------------------------------ MODULE PldmDaemon ------------------------------
(***************************************************************************)
(* pldmd/pldmd.cpp: the loop of the daemon.  One message at a time is      *)
(* taken from the transport, saved in the flight recorder and, if it is a  *)
(* request, handled and answered to the terminus it came from; a response  *)
(* goes to the requester.  The handlers are those of the invoker, the base *)
(* handler is modelled whole.  What a recorded message holds is abstracted *)
(* to what tells messages apart.  A request of the daemon's own is recorded *)
(* between two messages, also when a handler sends it.                     *)
(***************************************************************************)
EXTENDS Integers, Sequences, SequencesExt

CONSTANTS
  Sources,        \* EIDs of the endpoints that send to this daemon
  Capabilities,   \* Capabilities[t]: the commands advertised for the type t
  Handlers,       \* Handlers[t]: the commands the handler of t registers
  Entries,        \* FLIGHT_RECORDER_MAX_ENTRIES
  MctpDemux,      \* TRUE: transport over the demux daemon, FALSE: AF_MCTP
  MaxMessages     \* bound: messages received, and records saved before the daemon
                  \* sends a request of its own

VARIABLES
  instance,       \* number of the messages received so far
  tapeRecorder,   \* the records by their place
  index,          \* ... and the place of the next
  tid,            \* TID, captured by the callback and updated by recvMsg
  wire,           \* responses sent
  requester,      \* responses given to requester::Handler
  exitCode,       \* of the process, "starting" and "running" before
  recorded,       \* every record saved (history)
  arrived         \* every message received (history)

vars == <<instance, tapeRecorder, index, tid, wire, requester, exitCode,
          recorded, arrived>>

Blank == [rq |-> FALSE, n |-> 0]
FreshTape == [i \in 0..Entries - 1 |-> Blank]

Init ==
  /\ instance = 0
  /\ tapeRecorder = FreshTape
  /\ index = 0
  /\ tid = CHOOSE s \in Sources : TRUE   \* readHostEID()
  /\ wire = <<>> /\ requester = <<>>
  /\ exitCode = "starting"
  /\ recorded = <<>> /\ arrived = <<>>

-------------------------------------------------------------------------------
\* common/transport.cpp: each EID is its own TID, but for the reserved ones and
\* the broadcast EID, which have none
MCTP_EID_VALID_MIN == 8
MCTP_EID_VALID_MAX == 255
MappedTids == [eid \in MCTP_EID_VALID_MIN..MCTP_EID_VALID_MAX - 1 |-> eid]

\* What the library's steps make of the transport: none, if one of them fails.
\* Only AF_MCTP is bound
transport_impl_init(opened, mapped, bound, core) ==
  opened /\ mapped /\ (MctpDemux \/ bound) /\ core

\* The constructor of PldmTransport throws where nothing catches it
Start(opened, mapped, bound, core) ==
  /\ exitCode = "starting"
  /\ exitCode' = IF transport_impl_init(opened, mapped, bound, core)
                 THEN "running" ELSE "aborted"
  /\ UNCHANGED <<instance, tapeRecorder, index, tid, wire, requester, recorded,
                 arrived>>

-------------------------------------------------------------------------------
\* What a remote can send: <<kind, type, command, type asked about>>
Messages ==
  {<<"request", t, c, a>> : t \in DOMAIN Handlers \cup {"fwup", "none"},
     c \in UNION {Capabilities[u] : u \in DOMAIN Capabilities},
     a \in DOMAIN Capabilities \cup {"none"}}
  \cup {<<"response", "", "", "">>, <<"malformed", "", "", "">>}

\* Requests that differ in nothing a handler reads are one
Sendable ==
  {m \in Messages :
     m[1] = "request" =>
       /\ m[2] = "base" \/ m[4] = "none"
       /\ m[2] \in DOMAIN Capabilities => m[3] \in Capabilities[m[2]]
       /\ m[2] \notin DOMAIN Capabilities => m[3] = "getTypes"}

CcOnly(cc) == [cc |-> cc, data |-> {}]

\* The answers of base::Handler
getPLDMTypes(about) == [cc |-> "SUCCESS", data |-> DOMAIN Capabilities]
getPLDMCommands(about) ==
  IF about \in DOMAIN Capabilities
  THEN [cc |-> "SUCCESS", data |-> Capabilities[about]]
  ELSE CcOnly("INVALID_PLDM_TYPE")
getPLDMVersion(about) ==
  IF about \in DOMAIN Capabilities
  THEN [cc |-> "SUCCESS", data |-> {"version"}] ELSE CcOnly("INVALID_PLDM_TYPE")

\* CmdHandler::handle.  A handler of another type answers or throws; an
\* out_of_range from inside it looks like the one of handlers.at
HandlerAnswers(type, command, about) ==
  IF command \notin Handlers[type] THEN {CcOnly("UNSUPPORTED_PLDM_CMD")}
  ELSE IF type = "base"
  THEN {CASE command = "getTypes" -> getPLDMTypes(about)
          [] command = "getCommands" -> getPLDMCommands(about)
          [] command = "getVersion" -> getPLDMVersion(about)}
  ELSE {CcOnly("SUCCESS"), CcOnly("UNSUPPORTED_PLDM_CMD")}

\* Invoker::handle
Invoke(type, command, about) ==
  IF type \notin DOMAIN Handlers THEN {CcOnly("INVALID_PLDM_TYPE")}
  ELSE HandlerAnswers(type, command, about)

\* processRxMsg for a request
Answers(m) ==
  IF m[2] = "fwup" THEN {CcOnly("SUCCESS")} ELSE Invoke(m[2], m[3], m[4])

\* FlightRecorder::saveRecord.  Each item of rs is saved in turn.
\* Mutant for EveryMessageOnTape: the index wraps one place early
MutWrapped(i) == IF i = Entries - 2 THEN 0 ELSE i + 1
Wrapped(i) == IF i = Entries - 1 THEN 0 ELSE i + 1

saveRecords(rs) ==
  /\ recorded' = recorded \o rs
  /\ tapeRecorder' = IF Len(rs) = 1 THEN [tapeRecorder EXCEPT ![index] = rs[1]]
                     ELSE [tapeRecorder EXCEPT ![index] = rs[1],
                                               ![Wrapped(index)] = rs[2]]
  /\ index' = IF Len(rs) = 1 THEN Wrapped(index) ELSE Wrapped(Wrapped(index))

-------------------------------------------------------------------------------
\* The callback of the transport: recvMsg, saveRecord, processRxMsg and,
\* for a request, saveRecord and sendMsg
\* Mutant for OneAnswerToItsSender: the answer goes to the previous sender
MutAddressee(from) == tid
Addressee(from) == from

Received(from, m) ==
  /\ exitCode = "running" /\ instance < MaxMessages
  /\ from \in DOMAIN MappedTids
  /\ instance' = instance + 1
  /\ tid' = MappedTids[from]
  /\ arrived' = Append(arrived, [from |-> from, kind |-> m[1]])

Request(from, m) ==
  /\ m[1] = "request"
  /\ Received(from, m)
  /\ \E answer \in Answers(m), sent \in BOOLEAN :
       /\ saveRecords(<<[rq |-> FALSE, n |-> instance'], [rq |-> TRUE, n |-> instance']>>)
       /\ wire' = IF sent
                  THEN Append(wire, [to |-> Addressee(from), n |-> instance',
                                     cc |-> answer.cc, data |-> answer.data])
                  ELSE wire   \* sendMsg failed: a warning
  /\ UNCHANGED <<requester, exitCode>>

ResponseArrives(from, m) ==
  /\ m[1] = "response"
  /\ Received(from, m)
  /\ saveRecords(<<[rq |-> FALSE, n |-> instance']>>)
  /\ requester' = Append(requester, [from |-> from, n |-> instance'])
  /\ UNCHANGED <<wire, exitCode>>

Malformed(from, m) ==
  /\ m[1] = "malformed"
  /\ Received(from, m)
  /\ saveRecords(<<[rq |-> FALSE, n |-> instance']>>)
  /\ UNCHANGED <<wire, requester, exitCode>>

\* Request::send saves a request of the daemon's own, and each repetition, before
\* it goes out; numbers from MaxMessages tell these from the messages received.
OwnRequest ==
  /\ exitCode = "running" /\ Len(recorded) < MaxMessages
  /\ saveRecords(<<[rq |-> TRUE, n |-> MaxMessages + Len(recorded)]>>)
  /\ UNCHANGED <<instance, tid, wire, requester, exitCode, arrived>>

\* POLLHUP or POLLERR: the event loop is left by exit(0), and main returns
\* EXIT_SUCCESS for a loop's 0
SocketLost ==
  /\ exitCode = "running"
  /\ exitCode' = "EXIT_SUCCESS"
  /\ UNCHANGED <<instance, tapeRecorder, index, tid, wire, requester, recorded,
                 arrived>>

\* A failed recvMsg, which is also what a message of an EID without a TID is:
\* the end of the daemon with the demux daemon, ignored with AF_MCTP
ReceiveFails ==
  /\ exitCode = "running"
  /\ exitCode' = IF MctpDemux THEN "EXIT_SUCCESS" ELSE exitCode
  /\ UNCHANGED <<instance, tapeRecorder, index, tid, wire, requester, recorded,
                 arrived>>

Next ==
  \/ \E opened, mapped, bound, core \in BOOLEAN : Start(opened, mapped, bound, core)
  \/ \E from \in Sources, m \in Sendable :
       Request(from, m) \/ ResponseArrives(from, m) \/ Malformed(from, m)
  \/ OwnRequest
  \/ SocketLost
  \/ ReceiveFails

Spec == Init /\ [][Next]_vars

-------------------------------------------------------------------------------
\* The flight recorder holds the last messages, received and sent, none
\* missing and oldest first from its index: saveRecord wraps where the tape
\* ends, with one record or two per message
EveryMessageOnTape ==
  \A k \in 1..Entries :
    k <= Len(recorded) =>
      tapeRecorder[(index - k + Entries) % Entries]
        = recorded[Len(recorded) + 1 - k]

\* A request is answered once at most, in the order of arrival, and to the
\* terminus that sent it, with the tid variable shared by all messages; a
\* response or a malformed message is never answered
OneAnswerToItsSender ==
  /\ \A i \in 1..Len(wire) :
       arrived[wire[i].n] = [from |-> wire[i].to, kind |-> "request"]
  /\ \A i, j \in 1..Len(wire) : i < j => wire[i].n < wire[j].n
  /\ \A i \in 1..Len(requester) :
       arrived[requester[i].n] = [from |-> requester[i].from, kind |-> "response"]

\* Both, of every message in the daemon's life
MessagesAnsweredAndOnTape == OneAnswerToItsSender /\ EveryMessageOnTape

\* The comment on the lost socket: the daemon exits with a failure code
LostSocketIsFailure == exitCode # "EXIT_SUCCESS"

-----------------------------------------------------------------------------
\* The inductive invariant that MessagesAnsweredAndOnTape needs.
Arrivals == [from : DOMAIN MappedTids, kind : {"request", "response", "malformed"}]
ToRequester == [from : DOMAIN MappedTids, n : Nat]
AnswersToAll == UNION {Answers(m) : m \in Messages}
Responses == {[to |-> t, n |-> k, cc |-> a.cc, data |-> a.data] :
                t \in DOMAIN MappedTids, k \in Nat, a \in AnswersToAll}

\* Whatever is answered or passed on belongs to a message that arrived, and what
\* is known of an arrival does not change.
AnswersInv ==
  /\ instance \in Nat
  /\ arrived \in Seq(Arrivals)
  /\ Len(arrived) = instance
  /\ wire \in Seq(Responses)
  /\ requester \in Seq(ToRequester)
  /\ \A i \in 1..Len(wire) : wire[i].n \in 1..instance
  /\ \A i \in 1..Len(requester) : requester[i].n \in 1..instance
  /\ OneAnswerToItsSender

Records == {[rq |-> FALSE, n |-> k] : k \in Nat} \cup {[rq |-> TRUE, n |-> k] : k \in Nat}

\* The place of the k-th last record before the place i.
Place(i, k) == IF k <= i THEN i - k ELSE i - k + Entries

OnTape(tape, i, rs) ==
  \A k \in 1..Entries : k <= Len(rs) => tape[Place(i, k)] = rs[Len(rs) + 1 - k]

TapeInv ==
  /\ instance \in Nat
  /\ index \in 0..Entries - 1
  /\ tapeRecorder \in [0..Entries - 1 -> Records]
  /\ recorded \in Seq(Records)
  /\ OnTape(tapeRecorder, index, recorded)

DaemonInv == AnswersInv /\ TapeInv
=============================================================================
