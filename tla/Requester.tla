------------------------------ MODULE Requester ------------------------------
(***************************************************************************)
(* The PLDM requester of pldmd: requester/handler.hpp (one message queue   *)
(* per endpoint, one request on the wire per endpoint, instance-id         *)
(* expiry), requester/request.hpp (periodic retransmission) and the        *)
(* wrapper common/instance_id.hpp of libpldm's instance id database.       *)
(*                                                                         *)
(* pldmd runs one event loop on one thread.  A step is the dispatch of one *)
(* event, cut only where the Handler calls back into the code that         *)
(* registered a request: that code (usually a coroutine that resumes       *)
(* there) may register or cancel further requests before it returns.       *)
(***************************************************************************)
EXTENDS Naturals, Sequences

CONSTANTS
  Eids,              \* MCTP endpoints
  Requests,          \* calls of registerRequest, each made at most once
  Dest,              \* Dest[r]: the endpoint request r is for
  InstanceIds,       \* instance ids of an endpoint (0..31 in libpldm)
  NumRetries,        \* retransmissions of a request that gets no response
  Cancellable,       \* requests issued through the coroutine API sendRecvMsg
  TransportMayFail   \* may PldmTransport::sendMsg, or starting a timer, fail?

ASSUME RequesterAssumption ==
  /\ Dest \in [Requests -> Eids]
  /\ InstanceIds # {}
  /\ NumRetries \in 0..255
  /\ Cancellable \subseteq Requests
  /\ TransportMayFail \in BOOLEAN

VARIABLES
  allocated,     \* InstanceIdDb: the ids in use, per endpoint
  iid,           \* the id in the header of each request, once allocated
  status,        \* what the caller of each request knows of its registration
  queue,         \* EndpointMessageQueue::requestQueue
  activeRequest, \* EndpointMessageQueue::activeRequest
  handlers,      \* requests with an entry in Handler::handlers
  removeRequestContainer, \* ... whose removal is deferred after an expiry
  expiryTimers,  \* requests whose instance id expiry timer is armed
  retryTimers,   \* requests whose retransmission timer is armed
  retriesLeft,   \* RequestRetryTimer::numRetries of each request
  answering,     \* request whose handler is running with its response
  expiring,      \* request whose handler is running with a null response
  replies,       \* how often the response handler of each request was called
  crashed        \* the process ended

vars == <<allocated, iid, status, queue, activeRequest, handlers,
          removeRequestContainer, expiryTimers, retryTimers, retriesLeft,
          answering, expiring, replies, crashed>>

timerVars == <<expiryTimers, retryTimers, retriesLeft>>
queueVars == <<queue, activeRequest, handlers>>

Statuses == {"idle", "ready", "unissued", "accepted", "refused", "cancelled"}

Init ==
  /\ allocated = [e \in Eids |-> {}]
  /\ iid = [r \in Requests |-> CHOOSE i \in InstanceIds : TRUE]
  /\ status = [r \in Requests |-> "idle"]
  /\ queue = [e \in Eids |-> <<>>]
  /\ activeRequest = [e \in Eids |-> FALSE]
  /\ handlers = {}
  /\ removeRequestContainer = {}
  /\ expiryTimers = {}
  /\ retryTimers = {}
  /\ retriesLeft = [r \in Requests |-> 0]
  /\ answering = {}
  /\ expiring = {}
  /\ replies = [r \in Requests |-> 0]
  /\ crashed = FALSE

-----------------------------------------------------------------------------
Queued(e) == {queue[e][k] : k \in DOMAIN queue[e]}

\* RequestKey.  The type and command it also holds do not tell two live
\* requests apart: no two of them share an instance id (IdsAccountedFor).
Key(r) == <<Dest[r], iid[r]>>

\* A response handler is on the stack: the event loop dispatches nothing.
InCallback == answering \cup expiring # {}

EventLoop == ~crashed /\ ~InCallback

\* Mutant for TypeOK: the counter of retries is not an unsigned byte.
MutDecrement(n) == n + 255

\* uint8_t numRetries--.
Decrement(n) == (n + 255) % 256

\* Mutant for ImplementsService: a new request jumps the queue.
MutPushFront(q, r) == <<r>> \o q

\* requestQueue.push_back.
PushBack(q, r) == Append(q, r)

\* Mutant for IdsAccountedFor: a request that cannot be sent keeps its id.
MutFreed(done, failed) == done

\* Requests whose ids pollEndpointQueue and its caller free.
Freed(done, failed) == done \cup failed

\* Mutant for EveryRequestAnswered: no expiry timer for a request with retries.
MutExpiryArmed(started) == IF NumRetries = 0 THEN started ELSE {}

\* RequestRetryTimer::start arms the retransmission timer if it may be needed;
\* the instance id expiry timer is armed for every request sent.
RetryArmed(started) == IF NumRetries > 0 THEN started ELSE {}
ExpiryArmed(started) == started

\* Mutant for RetryOnlyWhileOutstanding: request->stop() is forgotten.
MutStopTimers(r) == expiryTimers' = expiryTimers \ {r} /\ UNCHANGED retryTimers

\* Both timers of r are stopped (request->stop(), timerInstance->stop()).
StopTimers(r) ==
  /\ expiryTimers' = expiryTimers \ {r}
  /\ retryTimers' = retryTimers \ {r}

\* Mutant for CompletedOnce: a late response finds an entry that expired.
MutAwaitsResponse(r) == r \in handlers

\* handleResponse ignores what matches no entry, or an expired one.
AwaitsResponse(r) == r \in handlers /\ r \notin removeRequestContainer

\* The common effect of taking requests out of service: `done` leaves the
\* handlers, the request in `started` was sent and gets an entry and its
\* timers, the one in `failed` could not be sent and only its id is freed.
Dispatch(e, q, done, started, failed) ==
  /\ queue' = [queue EXCEPT ![e] = IF q = <<>> THEN q ELSE Tail(q)]
  /\ activeRequest' = [activeRequest EXCEPT ![e] = started # {}]
  /\ handlers' = (handlers \ done) \cup started
  /\ expiryTimers' = (expiryTimers \ done) \cup ExpiryArmed(started)
  /\ retryTimers' = (retryTimers \ done) \cup RetryArmed(started)
  /\ retriesLeft' = [r \in Requests |->
                       IF r \in started THEN NumRetries ELSE retriesLeft[r]]
  /\ allocated' = [allocated EXCEPT
                     ![e] = @ \ {iid[r] : r \in Freed(done, failed)}]

\* pollEndpointQueue(e) once e has no active request: nothing is queued, or
\* the front of the queue is sent, or sending it (or arming a timer) fails
\* and it is dropped.  After a failure the rest of the queue is not tried.
PollEndpointQueue(e, q, done) ==
  \/ q = <<>> /\ Dispatch(e, q, done, {}, {})
  \/ q # <<>> /\ Dispatch(e, q, done, {Head(q)}, {})
  \/ q # <<>> /\ TransportMayFail /\ Dispatch(e, q, done, {}, {Head(q)})

-----------------------------------------------------------------------------
\* The caller takes an instance id (InstanceIdDb::next) and encodes r.
AllocateInstanceId(r) ==
  /\ ~crashed
  /\ status[r] = "idle"
  /\ \E i \in InstanceIds \ allocated[Dest[r]] :
       /\ iid' = [iid EXCEPT ![r] = i]
       /\ allocated' = [allocated EXCEPT ![Dest[r]] = @ \cup {i}]
  /\ status' = [status EXCEPT ![r] = "ready"]
  /\ UNCHANGED <<queueVars, timerVars, removeRequestContainer, answering,
                 expiring, replies, crashed>>

\* registerRequest: append to the endpoint's queue and poll it.  The caller
\* is told the result of the poll, which is about the front of the queue.
\* No entry has r's key then, it would share an instance id with r
\* (IdsAccountedFor), so the error return for one is never taken.
RegisterRequest(r) ==
  /\ ~crashed
  /\ status[r] = "ready"
  /\ Key(r) \notin {Key(h) : h \in handlers}
  /\ LET e == Dest[r]  q == PushBack(queue[e], r) IN
       \/ /\ activeRequest[e]
          /\ queue' = [queue EXCEPT ![e] = q]
          /\ status' = [status EXCEPT ![r] = "accepted"]
          /\ UNCHANGED <<activeRequest, handlers, timerVars, allocated>>
       \/ /\ ~activeRequest[e]
          /\ PollEndpointQueue(e, q, {})
          /\ status' = [status EXCEPT
                          ![r] = IF activeRequest'[e] THEN "accepted"
                                                      ELSE "refused"]
  /\ UNCHANGED <<iid, removeRequestContainer, answering, expiring, replies,
                 crashed>>

\* SendRecvMsgOperation::start when a stop was already requested: set_stopped
\* is all that happens, the instance id of r stays allocated.
StartStopped(r) ==
  /\ ~crashed
  /\ r \in Cancellable
  /\ status[r] = "ready"
  /\ status' = [status EXCEPT ![r] = "unissued"]
  /\ UNCHANGED <<allocated, iid, queueVars, timerVars, removeRequestContainer,
                 answering, expiring, replies, crashed>>

\* handleResponse, up to and including the call of the response handler.
HandleResponse(r) ==
  /\ EventLoop
  /\ AwaitsResponse(r)
  /\ StopTimers(r)
  /\ answering' = {r}
  /\ replies' = [replies EXCEPT ![r] = @ + 1]
  /\ UNCHANGED <<allocated, iid, status, queueVars, removeRequestContainer,
                 retriesLeft, expiring, crashed>>

\* handleResponse, the rest of it.
ResponseHandled(r) ==
  /\ ~crashed
  /\ r \in answering
  /\ answering' = {}
  /\ PollEndpointQueue(Dest[r], queue[Dest[r]], {r})
  /\ UNCHANGED <<iid, status, removeRequestContainer, expiring, replies,
                 crashed>>

\* instanceIdExpiryCallBack, up to and including the call of the handler.
InstanceIdExpiry(r) ==
  /\ EventLoop
  /\ r \in expiryTimers
  /\ StopTimers(r)
  /\ expiring' = {r}
  /\ replies' = [replies EXCEPT ![r] = @ + 1]
  /\ UNCHANGED <<allocated, iid, status, queueVars, removeRequestContainer,
                 retriesLeft, answering, crashed>>

\* Mutant for NoStrandedRequest: the queue is not polled after an expiry.
MutExpiryDoesNotPoll(r) ==
  /\ ~crashed
  /\ r \in expiring
  /\ expiring' = {}
  /\ removeRequestContainer' = removeRequestContainer \cup {r}
  /\ activeRequest' = [activeRequest EXCEPT ![Dest[r]] = FALSE]
  /\ UNCHANGED <<allocated, queue, handlers, timerVars, iid, status, answering,
                 replies, crashed>>

\* instanceIdExpiryCallBack, the rest: the entry of r stays in handlers until
\* the deferred event runs, but the endpoint already serves its next request.
ExpiryHandled(r) ==
  /\ ~crashed
  /\ r \in expiring
  /\ expiring' = {}
  /\ removeRequestContainer' = removeRequestContainer \cup {r}
  /\ PollEndpointQueue(Dest[r], queue[Dest[r]], {})
  /\ UNCHANGED <<iid, status, answering, replies, crashed>>

\* removeRequestEntry, run by the sdeventplus Defer source.
RemoveRequestEntry(r) ==
  /\ EventLoop
  /\ r \in removeRequestContainer
  /\ removeRequestContainer' = removeRequestContainer \ {r}
  /\ handlers' = handlers \ {r}
  /\ allocated' = [allocated EXCEPT ![Dest[r]] = @ \ {iid[r]}]
  /\ UNCHANGED <<iid, status, queue, activeRequest, timerVars, answering,
                 expiring, replies, crashed>>

\* RequestRetryTimer::callback; numRetries is a uint8_t.
RetryTimeout(r) ==
  /\ EventLoop
  /\ r \in retryTimers
  /\ retriesLeft' = [retriesLeft EXCEPT ![r] = Decrement(@)]
  /\ retryTimers' = IF retriesLeft[r] = 0 THEN retryTimers \ {r}
                                          ELSE retryTimers
  /\ UNCHANGED <<allocated, iid, status, queueVars, removeRequestContainer,
                 expiryTimers, answering, expiring, replies, crashed>>

-----------------------------------------------------------------------------
\* Mutant for OneOutstanding: onComplete does not reset the stop callback, so a
\* stop may come between an expiry and the deferred removal.
MutMayStopLate(r) ==
  /\ ~crashed
  /\ r \in Cancellable
  /\ status[r] = "accepted"

\* A stop is requested for a coroutine whose stop callback is installed and
\* whose operation has not completed (onStop, then unregisterRequest).
MayStop(r) ==
  /\ ~crashed
  /\ r \in Cancellable
  /\ status[r] = "accepted"
  /\ replies[r] = 0

UnregisterActive(r) ==
  /\ MayStop(r)
  /\ r \in handlers
  /\ status' = [status EXCEPT ![r] = "cancelled"]
  /\ PollEndpointQueue(Dest[r], queue[Dest[r]], {r})
  /\ UNCHANGED <<iid, removeRequestContainer, answering, expiring, replies,
                 crashed>>

\* The request is still queued.  unregisterRequest searches a copy of the
\* queue and passes the copy's iterator to erase() of the queue itself: this
\* is undefined.  libstdc++ walks from the node map of the copy to that of the
\* queue through unrelated memory; the outcome modelled is the process's end.
UnregisterQueued(r) ==
  /\ MayStop(r)
  /\ r \in Queued(Dest[r])
  /\ crashed' = TRUE
  /\ UNCHANGED <<allocated, iid, status, queueVars, timerVars,
                 removeRequestContainer, answering, expiring, replies>>

\* The request was dropped when it could not be sent: PLDM_ERROR, unnoticed.
UnregisterUnknown(r) ==
  /\ MayStop(r)
  /\ r \notin handlers
  /\ r \notin Queued(Dest[r])
  /\ status' = [status EXCEPT ![r] = "cancelled"]
  /\ UNCHANGED <<allocated, iid, queueVars, timerVars, removeRequestContainer,
                 answering, expiring, replies, crashed>>

-----------------------------------------------------------------------------
Next ==
  \E r \in Requests :
    \/ AllocateInstanceId(r)
    \/ RegisterRequest(r)
    \/ StartStopped(r)
    \/ HandleResponse(r)
    \/ ResponseHandled(r)
    \/ InstanceIdExpiry(r)
    \/ ExpiryHandled(r)
    \/ RemoveRequestEntry(r)
    \/ RetryTimeout(r)
    \/ UnregisterActive(r)
    \/ UnregisterQueued(r)
    \/ UnregisterUnknown(r)

Spec == Init /\ [][Next]_vars

\* Response handlers return, and the event loop gets to every timer and every
\* deferred event that stays due.  Nothing makes a responder answer.
Fairness ==
  \A r \in Requests :
    /\ WF_vars(ResponseHandled(r))
    /\ WF_vars(ExpiryHandled(r))
    /\ SF_vars(InstanceIdExpiry(r))
    /\ SF_vars(RemoveRequestEntry(r))

FairSpec == Spec /\ Fairness

-----------------------------------------------------------------------------
TypeOK ==
  /\ allocated \in [Eids -> SUBSET InstanceIds]
  /\ iid \in [Requests -> InstanceIds]
  /\ status \in [Requests -> Statuses]
  /\ queue \in [Eids -> Seq(Requests)]
  /\ activeRequest \in [Eids -> BOOLEAN]
  /\ handlers \in SUBSET Requests
  /\ removeRequestContainer \in SUBSET Requests
  /\ expiryTimers \in SUBSET Requests
  /\ retryTimers \in SUBSET Requests
  /\ retriesLeft \in [Requests -> 0..255]
  /\ answering \in SUBSET Requests
  /\ expiring \in SUBSET Requests
  /\ replies \in [Requests -> Nat]
  /\ crashed \in BOOLEAN

\* Requests on the wire or waiting in pollEndpointQueue's sense: those with a
\* handler entry that is not just waiting for its deferred removal.
Live(e) == {r \in handlers \ removeRequestContainer : Dest[r] = e}

\* The flag activeRequest of an endpoint is set exactly while one request of it
\* is outstanding, so two requests are never on the wire to one endpoint and a
\* flag left set never blocks an idle endpoint (handler.hpp, activeRequest).
OneOutstanding ==
  \A e \in Eids : IF activeRequest[e] THEN \E r \in Requests : Live(e) = {r}
                                      ELSE Live(e) = {}

\* Requests that own an instance id of endpoint e.  "unissued" ones own it for
\* ever: start() of a stopped coroutine forgets it.
Holders(e) ==
  {r \in Requests : /\ Dest[r] = e
                    /\ \/ status[r] \in {"ready", "unissued"}
                       \/ r \in handlers
                       \/ r \in Queued(e)}

\* The database and the Handler agree: the ids in use are those of the requests
\* that hold one, no two requests share one, and whatever is yet to free its
\* id still holds it.  InstanceIdDb::free never throws, no id leaks.
IdsAccountedFor ==
  /\ \A e \in Eids : /\ allocated[e] = {iid[r] : r \in Holders(e)}
                     /\ \A r, s \in Holders(e) : iid[r] = iid[s] => r = s
  /\ removeRequestContainer \cup answering \cup expiring \subseteq handlers

\* A caller hears of its request at most once: one call of the response handler
\* or set_stopped, though a late response, the expiry timer, the deferred
\* removal and a stop request race for the entry.
CompletedOnce ==
  \A r \in Requests :
    replies[r] + (IF status[r] = "cancelled" THEN 1 ELSE 0) <= 1

\* RequestRetryTimer sends again only for the request its endpoint waits for, not
\* after a response, an expiry or a cancellation stopped it, and NumRetries times
\* at most although numRetries-- wraps at zero.
RetryOnlyWhileOutstanding ==
  [][\A r \in Requests :
       retriesLeft'[r] < retriesLeft[r] =>
         /\ r \in Live(Dest[r])
         /\ replies[r] = 0
         /\ activeRequest[Dest[r]]
         /\ retriesLeft[r] <= NumRetries]_vars

\* The state of Requester as RequestService sees it: an entry whose removal is
\* deferred serves nobody, one whose handler is running still occupies the wire.
servicePhase ==
  [r \in Requests |->
     CASE status[r] = "cancelled" -> "withdrawn"
       [] status[r] # "cancelled" /\ replies[r] > 0 -> "answered"
       [] status[r] # "cancelled" /\ replies[r] = 0 /\ r \in handlers -> "onWire"
       [] status[r] # "cancelled" /\ replies[r] = 0 /\ r \notin handlers ->
            IF r \in Queued(Dest[r]) THEN "waiting"
            ELSE IF status[r] \in {"accepted", "refused"} THEN "dropped"
            ELSE "new"]

serviceWire == [e \in Eids |-> Live(e)]

Service == INSTANCE RequestService
             WITH phase <- servicePhase, line <- queue, wire <- serviceWire

\* The Handler keeps the promises of RequestService: order, one request at a
\* time, one completion each, through expiries, cancellations and failed sends.
ImplementsService == Service!SSpec

\* A request waits in its queue only behind an outstanding one: pollEndpointQueue
\* is called wherever an endpoint becomes free.  (When sending never fails.)
NoStrandedRequest ==
  \A e \in Eids : queue[e] # <<>> => activeRequest[e]

\* Every accepted request is answered, or was cancelled.  (When sending never
\* fails; a responder that stays silent is covered by the expiry timer.)
EveryRequestAnswered ==
  \A r \in Requests :
    status[r] = "accepted" ~>
      replies[r] = 1 \/ status[r] = "cancelled" \/ crashed

\* handler.hpp: "If no response is received within the instance ID expiration
\* interval or any other failure the response handler is invoked with the empty
\* response": no accepted request disappears unanswered.
EveryLossReported ==
  \A r \in Requests :
    status[r] = "accepted" =>
      replies[r] = 1 \/ r \in handlers \/ r \in Queued(Dest[r])

\* registerRequest: "return PLDM_SUCCESS on success and PLDM_ERROR otherwise": a
\* request whose registration failed is neither sent nor answered later.
RefusedNotPending ==
  \A r \in Requests :
    status[r] = "refused" => r \notin handlers /\ r \notin Queued(Dest[r])

\* unregisterRequest: "Unregister a PLDM request message ... return PLDM_SUCCESS
\* on success and PLDM_ERROR otherwise": it returns.
UnregisterReturns == ~crashed
=============================================================================
