--------------------------- MODULE RequesterProofs ---------------------------
(***************************************************************************)
(* Proofs about Requester, for all endpoints, requests, instance ids and   *)
(* retry counts: type correctness; the invariants OneOutstanding and       *)
(* CompletedOnce and the action property RetryOnlyWhileOutstanding from    *)
(* one inductive invariant, IndInv; on it, IdsAccountedFor; and that       *)
(* Requester implements RequestService, whether or not the transport may   *)
(* fail, and strands nothing in a queue when it may not.                   *)
(***************************************************************************)
EXTENDS Requester, SequenceTheorems, TLAPS

USE RequesterAssumption

-----------------------------------------------------------------------------
(* Sequences without duplicates *)

Elems(q) == {q[k] : k \in DOMAIN q}

Distinct(q) == \A j, k \in DOMAIN q : q[j] = q[k] => j = k

\* What push_back does to the elements of a queue.
LEMMA AppendElems ==
  ASSUME NEW S, NEW q \in Seq(S), NEW r \in S
  PROVE  /\ Append(q, r) \in Seq(S)
         /\ Append(q, r) # <<>>
         /\ Elems(Append(q, r)) = Elems(q) \cup {r}
         /\ Distinct(q) /\ r \notin Elems(q) => Distinct(Append(q, r))
<1>1. /\ Append(q, r) \in Seq(S)
      /\ Len(Append(q, r)) = Len(q) + 1
      /\ Append(q, r)[Len(q) + 1] = r
      /\ \A k \in 1 .. Len(q) : Append(q, r)[k] = q[k]
      /\ Len(q) \in Nat
  OBVIOUS
<1>2. /\ DOMAIN Append(q, r) = 1 .. Len(q) + 1
      /\ DOMAIN q = 1 .. Len(q)
  BY <1>1
<1>3. Append(q, r) # <<>>
  BY <1>1
<1>4. Elems(Append(q, r)) = Elems(q) \cup {r}
  BY <1>1, <1>2 DEF Elems
<1>5. Distinct(q) /\ r \notin Elems(q) => Distinct(Append(q, r))
  BY <1>1, <1>2 DEF Elems, Distinct
<1> QED
  BY <1>1, <1>3, <1>4, <1>5

\* What front and pop_front do to them.
LEMMA HeadTailElems ==
  ASSUME NEW S, NEW q \in Seq(S), q # <<>>
  PROVE  /\ Head(q) \in S
         /\ Tail(q) \in Seq(S)
         /\ Elems(q) = Elems(Tail(q)) \cup {Head(q)}
         /\ Distinct(q) => Distinct(Tail(q)) /\ Head(q) \notin Elems(Tail(q))
<1>1. /\ Head(q) = q[1]
      /\ Head(q) \in S
      /\ Tail(q) \in Seq(S)
      /\ Len(Tail(q)) = Len(q) - 1
      /\ \A k \in 1 .. Len(q) - 1 : Tail(q)[k] = q[k + 1]
      /\ Len(q) \in Nat \ {0}
  OBVIOUS
<1>2. /\ DOMAIN Tail(q) = 1 .. Len(q) - 1
      /\ DOMAIN q = 1 .. Len(q)
  BY <1>1
<1>3. Elems(q) = Elems(Tail(q)) \cup {Head(q)}
  <2>1. ASSUME NEW k \in 1 .. Len(q)
        PROVE  q[k] \in Elems(Tail(q)) \cup {Head(q)}
    <3>1. CASE k = 1
      BY <3>1, <1>1
    <3>2. CASE k # 1
      <4>1. k - 1 \in 1 .. Len(q) - 1 /\ Tail(q)[k - 1] = q[k]
        BY <3>2, <1>1
      <4> QED
        BY <4>1, <1>2 DEF Elems
    <3> QED
      BY <3>1, <3>2
  <2>2. ASSUME NEW k \in 1 .. Len(q) - 1
        PROVE  Tail(q)[k] \in Elems(q)
    BY <1>1, <1>2 DEF Elems
  <2>3. Head(q) \in Elems(q)
    BY <1>1, <1>2 DEF Elems
  <2> QED
    BY <2>1, <2>2, <2>3, <1>2 DEF Elems
<1>4. ASSUME Distinct(q)
      PROVE  Distinct(Tail(q)) /\ Head(q) \notin Elems(Tail(q))
  BY <1>1, <1>2, <1>4 DEF Elems, Distinct
<1> QED
  BY <1>1, <1>3, <1>4

-----------------------------------------------------------------------------
(* pollEndpointQueue *)

\* What Dispatch does, its three cases in one: `rest` stays queued.
Polled(e, q, done, rest, started, failed) ==
  /\ rest \in Seq(Requests)
  /\ started \in SUBSET Requests
  /\ failed \in SUBSET Requests
  /\ Elems(q) = Elems(rest) \cup started \cup failed
  /\ started = {} \/ \E r \in Requests : started = {r}
  /\ Distinct(q) => /\ Distinct(rest)
                    /\ Elems(rest) \cap (started \cup failed) = {}
                    /\ started \cap failed = {}
  /\ queue' = [queue EXCEPT ![e] = rest]
  /\ activeRequest' = [activeRequest EXCEPT ![e] = started # {}]
  /\ handlers' = (handlers \ done) \cup started
  /\ expiryTimers' = (expiryTimers \ done) \cup started
  /\ retryTimers' \subseteq (retryTimers \ done) \cup started
  /\ retriesLeft' = [r \in Requests |->
                       IF r \in started THEN NumRetries ELSE retriesLeft[r]]
  /\ allocated' = [allocated EXCEPT
                     ![e] = @ \ {iid[r] : r \in done \cup failed}]

LEMMA PollIsPolled ==
  ASSUME NEW e \in Eids, NEW q \in Seq(Requests), NEW done \in SUBSET Requests,
         PollEndpointQueue(e, q, done)
  PROVE  \E rest, started, failed : Polled(e, q, done, rest, started, failed)
<1> USE DEF Dispatch, RetryArmed, ExpiryArmed, Freed
<1>1. CASE q = <<>> /\ Dispatch(e, q, done, {}, {})
  <2>1. Polled(e, q, done, q, {}, {})
    BY <1>1 DEF Polled, Elems
  <2> QED
    BY <2>1
<1>2. ASSUME q # <<>>
      PROVE  /\ Head(q) \in Requests
             /\ Tail(q) \in Seq(Requests)
             /\ Elems(q) = Elems(Tail(q)) \cup {Head(q)}
             /\ Distinct(q) => Distinct(Tail(q)) /\ Head(q) \notin Elems(Tail(q))
  BY <1>2, HeadTailElems
<1>3. CASE q # <<>> /\ Dispatch(e, q, done, {Head(q)}, {})
  <2>1. Polled(e, q, done, Tail(q), {Head(q)}, {})
    BY <1>2, <1>3 DEF Polled
  <2> QED
    BY <2>1
<1>4. CASE q # <<>> /\ Dispatch(e, q, done, {}, {Head(q)})
  <2>1. Polled(e, q, done, Tail(q), {}, {Head(q)})
    BY <1>2, <1>4 DEF Polled
  <2> QED
    BY <2>1
<1> QED
  BY <1>1, <1>3, <1>4 DEF PollEndpointQueue

-----------------------------------------------------------------------------
(* Type correctness *)

\* The part of the state that polling a queue changes keeps its type.
LEMMA PolledTypes ==
  ASSUME TypeOK, NEW e \in Eids, NEW q \in Seq(Requests), NEW done \in SUBSET Requests,
         PollEndpointQueue(e, q, done)
  PROVE  /\ allocated' \in [Eids -> SUBSET InstanceIds]
         /\ queue' \in [Eids -> Seq(Requests)]
         /\ activeRequest' \in [Eids -> BOOLEAN]
         /\ handlers' \in SUBSET Requests
         /\ expiryTimers' \in SUBSET Requests
         /\ retryTimers' \in SUBSET Requests
         /\ retriesLeft' \in [Requests -> 0..255]
<1>1. PICK rest, started, failed : Polled(e, q, done, rest, started, failed)
  BY PollIsPolled
<1>2. /\ queue' \in [Eids -> Seq(Requests)]
      /\ activeRequest' \in [Eids -> BOOLEAN]
  BY <1>1 DEF TypeOK, Polled
<1>3. allocated' \in [Eids -> SUBSET InstanceIds]
  BY <1>1 DEF TypeOK, Polled
<1>4. /\ handlers' \in SUBSET Requests
      /\ expiryTimers' \in SUBSET Requests
      /\ retryTimers' \in SUBSET Requests
  BY <1>1 DEF TypeOK, Polled
<1>5. retriesLeft' \in [Requests -> 0..255]
  BY <1>1 DEF TypeOK, Polled
<1> QED
  BY <1>2, <1>3, <1>4, <1>5

\* ... so a step that polls and types the rest of the state preserves TypeOK.
LEMMA PollTypeOK ==
  ASSUME TypeOK, NEW e \in Eids, NEW q \in Seq(Requests), NEW done \in SUBSET Requests,
         PollEndpointQueue(e, q, done),
         iid' \in [Requests -> InstanceIds],
         status' \in [Requests -> Statuses],
         removeRequestContainer' \in SUBSET Requests,
         answering' \in SUBSET Requests,
         expiring' \in SUBSET Requests,
         replies' \in [Requests -> Nat],
         crashed' \in BOOLEAN
  PROVE  TypeOK'
  BY PolledTypes DEF TypeOK

\* The arguments with which a callback or a cancellation polls.
LEMMA PollArguments ==
  ASSUME TypeOK, NEW r \in Requests
  PROVE  /\ Dest[r] \in Eids
         /\ queue[Dest[r]] \in Seq(Requests)
         /\ PushBack(queue[Dest[r]], r) \in Seq(Requests)
         /\ {r} \in SUBSET Requests
         /\ {} \in SUBSET Requests
<1>1. Dest[r] \in Eids /\ queue[Dest[r]] \in Seq(Requests)
  BY DEF TypeOK
<1>2. PushBack(queue[Dest[r]], r) \in Seq(Requests)
  BY <1>1, AppendElems DEF PushBack
<1> QED
  BY <1>1, <1>2

LEMMA InitTypeOK == Init => TypeOK
<1>1. (CHOOSE i \in InstanceIds : TRUE) \in InstanceIds
  OBVIOUS
<1> SUFFICES ASSUME Init
             PROVE  TypeOK
  OBVIOUS
<1>2. /\ allocated \in [Eids -> SUBSET InstanceIds]
      /\ activeRequest \in [Eids -> BOOLEAN]
  BY DEF Init
<1>3. iid \in [Requests -> InstanceIds]
  BY <1>1 DEF Init
<1>4. status \in [Requests -> Statuses]
  BY DEF Init, Statuses
<1>5. queue \in [Eids -> Seq(Requests)]
  BY DEF Init
<1>6. /\ retriesLeft \in [Requests -> 0..255]
      /\ replies \in [Requests -> Nat]
  BY DEF Init
<1> QED
  BY <1>2, <1>3, <1>4, <1>5, <1>6 DEF Init, TypeOK

LEMMA NextTypeOK == TypeOK /\ [Next]_vars => TypeOK'
<1> SUFFICES ASSUME TypeOK, [Next]_vars
             PROVE  TypeOK'
  OBVIOUS
<1> USE DEF queueVars, timerVars
<1>1. CASE UNCHANGED vars
  BY <1>1 DEF vars, TypeOK
<1>2. ASSUME NEW r \in Requests, AllocateInstanceId(r)
      PROVE  TypeOK'
  BY <1>2 DEF AllocateInstanceId, TypeOK, Statuses
<1>3. ASSUME NEW r \in Requests, RegisterRequest(r)
      PROVE  TypeOK'
  <2>1. status' \in [Requests -> Statuses]
    BY ZenonT(30), <1>3 DEF RegisterRequest, TypeOK, Statuses
  <2>2. UNCHANGED <<iid, removeRequestContainer, answering, expiring, replies,
                    crashed>>
    BY <1>3 DEF RegisterRequest
  <2>3. CASE activeRequest[Dest[r]]
    <3>1. /\ queue' = [queue EXCEPT ![Dest[r]] = PushBack(queue[Dest[r]], r)]
          /\ UNCHANGED <<activeRequest, handlers, timerVars, allocated>>
      BY <1>3, <2>3 DEF RegisterRequest
    <3>2. queue' \in [Eids -> Seq(Requests)]
      BY <3>1, PollArguments DEF TypeOK
    <3> QED
      BY <2>1, <2>2, <3>1, <3>2 DEF TypeOK
  <2>4. CASE ~activeRequest[Dest[r]]
    <3>1. PollEndpointQueue(Dest[r], PushBack(queue[Dest[r]], r), {})
      BY <1>3, <2>4 DEF RegisterRequest
    <3>2. /\ iid' \in [Requests -> InstanceIds]
          /\ removeRequestContainer' \in SUBSET Requests
          /\ answering' \in SUBSET Requests
          /\ expiring' \in SUBSET Requests
          /\ replies' \in [Requests -> Nat]
          /\ crashed' \in BOOLEAN
      BY <2>2 DEF TypeOK
    <3> QED
      BY <2>1, <3>1, <3>2, PollArguments, PollTypeOK
  <2> QED
    BY <2>3, <2>4
<1>4. ASSUME NEW r \in Requests, StartStopped(r)
      PROVE  TypeOK'
  BY <1>4 DEF StartStopped, TypeOK, Statuses
<1>5. ASSUME NEW r \in Requests, HandleResponse(r)
      PROVE  TypeOK'
  <2>1. replies' \in [Requests -> Nat]
    BY <1>5 DEF HandleResponse, TypeOK
  <2> QED
    BY <1>5, <2>1 DEF HandleResponse, StopTimers, TypeOK
<1>6. ASSUME NEW r \in Requests, ResponseHandled(r)
      PROVE  TypeOK'
  <2>1. PollEndpointQueue(Dest[r], queue[Dest[r]], {r})
    BY <1>6 DEF ResponseHandled
  <2>2. /\ iid' \in [Requests -> InstanceIds]
        /\ status' \in [Requests -> Statuses]
        /\ removeRequestContainer' \in SUBSET Requests
        /\ answering' \in SUBSET Requests
        /\ expiring' \in SUBSET Requests
        /\ replies' \in [Requests -> Nat]
        /\ crashed' \in BOOLEAN
    BY <1>6 DEF ResponseHandled, TypeOK, Statuses
  <2> QED
    BY <2>1, <2>2, PollArguments, PollTypeOK
<1>7. ASSUME NEW r \in Requests, InstanceIdExpiry(r)
      PROVE  TypeOK'
  <2>1. replies' \in [Requests -> Nat]
    BY <1>7 DEF InstanceIdExpiry, TypeOK
  <2> QED
    BY <1>7, <2>1 DEF InstanceIdExpiry, StopTimers, TypeOK
<1>8. ASSUME NEW r \in Requests, ExpiryHandled(r)
      PROVE  TypeOK'
  <2>1. PollEndpointQueue(Dest[r], queue[Dest[r]], {})
    BY <1>8 DEF ExpiryHandled
  <2>2. /\ iid' \in [Requests -> InstanceIds]
        /\ status' \in [Requests -> Statuses]
        /\ removeRequestContainer' \in SUBSET Requests
        /\ answering' \in SUBSET Requests
        /\ expiring' \in SUBSET Requests
        /\ replies' \in [Requests -> Nat]
        /\ crashed' \in BOOLEAN
    BY <1>8 DEF ExpiryHandled, TypeOK, Statuses
  <2> QED
    BY <2>1, <2>2, PollArguments, PollTypeOK
<1>9. ASSUME NEW r \in Requests, RemoveRequestEntry(r)
      PROVE  TypeOK'
  BY <1>9 DEF RemoveRequestEntry, TypeOK
<1>10. ASSUME NEW r \in Requests, RetryTimeout(r)
       PROVE  TypeOK'
  <2>1. \A n \in 0..255 : (n + 255) % 256 \in 0..255
    BY SMT
  <2>2. Decrement(retriesLeft[r]) \in 0..255
    BY ZenonT(30), <2>1 DEF Decrement, TypeOK
  <2> QED
    BY <1>10, <2>2 DEF RetryTimeout, TypeOK
<1>11. ASSUME NEW r \in Requests, UnregisterActive(r)
       PROVE  TypeOK'
  <2>1. PollEndpointQueue(Dest[r], queue[Dest[r]], {r})
    BY <1>11 DEF UnregisterActive
  <2>2. /\ iid' \in [Requests -> InstanceIds]
        /\ status' \in [Requests -> Statuses]
        /\ removeRequestContainer' \in SUBSET Requests
        /\ answering' \in SUBSET Requests
        /\ expiring' \in SUBSET Requests
        /\ replies' \in [Requests -> Nat]
        /\ crashed' \in BOOLEAN
    BY <1>11 DEF UnregisterActive, TypeOK, Statuses
  <2> QED
    BY <2>1, <2>2, PollArguments, PollTypeOK
<1>12. ASSUME NEW r \in Requests, UnregisterQueued(r)
       PROVE  TypeOK'
  BY <1>12 DEF UnregisterQueued, TypeOK
<1>13. ASSUME NEW r \in Requests, UnregisterUnknown(r)
       PROVE  TypeOK'
  BY <1>13 DEF UnregisterUnknown, TypeOK, Statuses
<1> QED
  BY <1>1, <1>2, <1>3, <1>4, <1>5, <1>6, <1>7, <1>8, <1>9, <1>10, <1>11, <1>12,
     <1>13 DEF Next

\* Every variable keeps its type, for any number of endpoints and requests; in
\* particular the uint8_t numRetries stays a byte and queues hold requests.
THEOREM TypeCorrect == Spec => []TypeOK
  BY InitTypeOK, NextTypeOK, PTL DEF Spec

-----------------------------------------------------------------------------
(* The inductive invariant *)

\* Requests whose response handler runs, and those it was called for at all
\* among the entries of handlers.
Serving == answering \cup expiring

Called == removeRequestContainer \cup Serving

\* What waits for an endpoint waits once, is for that endpoint and has neither
\* an entry in handlers nor an answer.
QueueInv ==
  \A e \in Eids :
    /\ Distinct(queue[e])
    /\ \A r \in Elems(queue[e]) : /\ Dest[r] = e
                                  /\ r \notin handlers
                                  /\ status[r] \in {"accepted", "refused"}
                                  /\ replies[r] = 0

\* A deferred removal and a running handler have an entry each, which is theirs
\* alone; at most one handler runs.
EntryInv ==
  /\ Called \subseteq handlers
  /\ removeRequestContainer \cap Serving = {}
  /\ answering \cap expiring = {}
  /\ \A r, s \in Serving : r = s
  /\ \A r \in handlers : status[r] \in {"accepted", "refused"}

\* Timers run only for the request that the endpoint waits for.
TimerInv == expiryTimers \cup retryTimers \subseteq handlers \ Called

\* The handler was called for the entries that are Called and no others, and not
\* for what was never registered or is cancelled.
ReplyInv ==
  /\ \A r \in handlers : replies[r] = IF r \in Called THEN 1 ELSE 0
  /\ \A r \in Requests : replies[r] <= 1
  /\ \A r \in Requests :
       status[r] \in {"idle", "ready", "unissued", "cancelled"} => replies[r] = 0

\* A request that was never sent has the count of retries it was made with.
RetryInv ==
  \A r \in Requests :
    status[r] \in {"idle", "ready"} \/ (\E e \in Eids : r \in Elems(queue[e])) =>
      retriesLeft[r] = 0

IndInv ==
  /\ TypeOK
  /\ QueueInv
  /\ EntryInv
  /\ TimerInv
  /\ ReplyInv
  /\ RetryInv
  /\ OneOutstanding

LEMMA InitIndInv == Init => IndInv
<1> SUFFICES ASSUME Init
             PROVE  IndInv
  OBVIOUS
<1>1. TypeOK
  BY InitTypeOK
<1>2. QueueInv
  <2>1. \A e \in Eids : queue[e] = <<>>
    BY DEF Init
  <2>2. Distinct(<<>>) /\ Elems(<<>>) = {}
    BY DEF Distinct, Elems
  <2> QED
    BY <2>1, <2>2 DEF QueueInv
<1>3. EntryInv /\ TimerInv
  BY DEF Init, EntryInv, TimerInv, Called, Serving
<1>4. ReplyInv
  BY DEF Init, ReplyInv
<1>5. RetryInv
  BY DEF Init, RetryInv
<1>6. OneOutstanding
  BY DEF Init, OneOutstanding, Live
<1> QED
  BY <1>1, <1>2, <1>3, <1>4, <1>5, <1>6 DEF IndInv

\* Polling the queue q of an endpoint e after `done` left the handlers preserves
\* the invariant if nothing of e is outstanding then and the step changes who is
\* served and what callers know in the way every step that polls does.
LEMMA PollIndInv ==
  ASSUME IndInv, TypeOK', NEW e \in Eids, NEW q \in Seq(Requests),
         NEW done \in SUBSET Requests,
         PollEndpointQueue(e, q, done),
         Distinct(q),
         \A r \in Elems(q) : Dest[r] = e /\ r \notin handlers /\ replies[r] = 0,
         \A r \in done : Dest[r] = e,
         \A r \in handlers \ done : Dest[r] = e => r \in removeRequestContainer',
         \A r \in Requests : Dest[r] # e =>
           (r \in removeRequestContainer' <=> r \in removeRequestContainer),
         Called' = Called \ done,
         Serving' \subseteq Serving,
         removeRequestContainer' \cap Serving' = {},
         answering' \cap expiring' = {},
         \A r \in Requests : (r \in Elems(q) \/ r \in handlers \ done
                                \/ \E f \in Eids \ {e} : r \in Elems(queue[f])) =>
           status'[r] \in {"accepted", "refused"},
         \A r \in Requests :
           status'[r] \in {"idle", "ready", "unissued", "cancelled"} => replies[r] = 0,
         \A r \in Requests :
           (status'[r] \in {"idle", "ready"} \/ r \in Elems(q)
              \/ \E f \in Eids \ {e} : r \in Elems(queue[f])) => retriesLeft[r] = 0,
         replies' = replies
  PROVE  IndInv'
<1>1. PICK rest, started, failed : Polled(e, q, done, rest, started, failed)
  BY PollIsPolled
<1>2. /\ rest \in Seq(Requests)
      /\ started \subseteq Elems(q)
      /\ Elems(rest) \subseteq Elems(q)
      /\ Distinct(rest)
      /\ Elems(rest) \cap started = {}
      /\ started = {} \/ \E r \in Requests : started = {r}
      /\ started \subseteq Requests
  BY <1>1 DEF Polled
<1>3. /\ queue' = [queue EXCEPT ![e] = rest]
      /\ activeRequest' = [activeRequest EXCEPT ![e] = started # {}]
      /\ handlers' = (handlers \ done) \cup started
      /\ expiryTimers' = (expiryTimers \ done) \cup started
      /\ retryTimers' \subseteq (retryTimers \ done) \cup started
      /\ \A r \in Requests \ started : retriesLeft'[r] = retriesLeft[r]
  BY <1>1 DEF Polled
<1>4. /\ TypeOK /\ QueueInv /\ EntryInv /\ TimerInv /\ ReplyInv /\ OneOutstanding
      /\ handlers \subseteq Requests
      /\ Called \subseteq handlers
  BY DEF IndInv, TypeOK, EntryInv
<1>5. started \cap handlers = {}
  BY <1>2
<1>6. QueueInv'
  <2>1. ASSUME NEW f \in Eids
        PROVE  /\ Distinct(queue'[f])
               /\ \A r \in Elems(queue'[f]) : /\ Dest[r] = f
                                              /\ r \notin handlers'
                                              /\ status'[r] \in {"accepted", "refused"}
                                              /\ replies'[r] = 0
    <3>1. CASE f = e
      <4>1. queue'[f] = rest
        BY <1>3, <1>4, <3>1 DEF TypeOK
      <4>2. Elems(rest) \subseteq Requests
        BY <1>2 DEF Elems
      <4> QED
        BY <1>2, <1>3, <3>1, <4>1, <4>2
    <3>2. CASE f # e
      <4>1. queue'[f] = queue[f]
        BY <1>3, <1>4, <3>2 DEF TypeOK
      <4>2. /\ Distinct(queue[f])
            /\ \A r \in Elems(queue[f]) : /\ Dest[r] = f
                                          /\ r \notin handlers
                                          /\ replies[r] = 0
        BY <1>4 DEF QueueInv
      <4>3. Elems(queue[f]) \subseteq Requests
        BY <1>4 DEF TypeOK, Elems
      <4>4. Elems(queue[f]) \cap started = {}
        BY <1>2, <3>2, <4>2
      <4> QED
        BY <1>3, <3>2, <4>1, <4>2, <4>3, <4>4
    <3> QED
      BY <3>1, <3>2
  <2> QED
    BY <2>1 DEF QueueInv, Distinct, Elems
<1>7. EntryInv'
  <2>1. Called' \subseteq handlers'
    BY <1>3, <1>4
  <2>2. \A r, s \in Serving' : r = s
    BY <1>4 DEF EntryInv
  <2>3. \A r \in handlers' : status'[r] \in {"accepted", "refused"}
    BY <1>2, <1>3, <1>4
  <2> QED
    BY <2>1, <2>2, <2>3 DEF EntryInv
<1>8. TimerInv'
  BY <1>3, <1>4, <1>5 DEF TimerInv
<1>9. ReplyInv'
  <2>1. \A r \in handlers' : replies'[r] = IF r \in Called' THEN 1 ELSE 0
    <3>1. \A r \in started : replies[r] = 0 /\ r \notin Called'
      BY <1>2, <1>4, <1>5
    <3>2. \A r \in handlers \ done : replies[r] = IF r \in Called' THEN 1 ELSE 0
      BY <1>4 DEF ReplyInv
    <3> QED
      BY <1>3, <3>1, <3>2
  <2> QED
    BY <2>1, <1>4 DEF ReplyInv
<1>10. OneOutstanding'
  <2>1. removeRequestContainer' \subseteq Called'
    BY DEF Called
  <2>2. Live(e)' = started
    BY <1>2, <1>3, <1>4, <1>5, <2>1 DEF Live
  <2>3. activeRequest'[e] = (started # {})
    BY <1>3, <1>4 DEF TypeOK
  <2>4. ASSUME NEW f \in Eids, f # e
        PROVE  activeRequest'[f] = activeRequest[f] /\ Live(f)' = Live(f)
    <3>1. activeRequest'[f] = activeRequest[f]
      BY <1>3, <1>4, <2>4 DEF TypeOK
    <3>2. \A r \in started \cup done : Dest[r] # f
      BY <1>2, <2>4
    <3>3. Live(f)' = Live(f)
      BY <1>3, <1>4, <2>4, <3>2 DEF Live
    <3> QED
      BY <3>1, <3>3
  <2> QED
    BY <1>2, <1>4, <2>2, <2>3, <2>4 DEF OneOutstanding
<1>11. RetryInv'
  <2>1. ASSUME NEW r \in Requests,
               status'[r] \in {"idle", "ready"} \/ \E f \in Eids : r \in Elems(queue'[f])
        PROVE  retriesLeft'[r] = 0
    <3>1. /\ queue'[e] = rest
          /\ \A f \in Eids \ {e} : queue'[f] = queue[f]
      BY <1>3, <1>4 DEF TypeOK
    <3>2. r \notin started
      <4>1. CASE status'[r] \in {"idle", "ready"}
        BY <4>1, <1>2
      <4>2. CASE \E f \in Eids : r \in Elems(queue'[f])
        <5>1. PICK f \in Eids : r \in Elems(queue'[f])
          BY <4>2
        <5>2. CASE f = e
          BY <5>1, <5>2, <3>1, <1>2
        <5>3. CASE f # e
          BY <5>1, <5>3, <3>1, <1>2, <1>4 DEF QueueInv
        <5> QED
          BY <5>2, <5>3
      <4> QED
        BY <2>1, <4>1, <4>2
    <3>3. retriesLeft[r] = 0
      BY <2>1, <3>1, <1>2
    <3> QED
      BY <1>3, <3>2, <3>3
  <2> QED
    BY <2>1 DEF RetryInv, Elems
<1> QED
  BY <1>6, <1>7, <1>8, <1>9, <1>10, <1>11 DEF IndInv
LEMMA NextIndInv == IndInv /\ [Next]_vars => IndInv'
<1> SUFFICES ASSUME IndInv, [Next]_vars
             PROVE  IndInv'
  OBVIOUS
<1>0. /\ TypeOK /\ QueueInv /\ EntryInv /\ TimerInv /\ ReplyInv /\ RetryInv
      /\ OneOutstanding /\ TypeOK'
  BY NextTypeOK DEF IndInv
<1>a. \A e \in Eids : Elems(queue[e]) \subseteq Requests
  BY <1>0 DEF TypeOK, Elems
<1> USE DEF queueVars, timerVars
<1>1. CASE UNCHANGED vars
  BY <1>0, <1>1 DEF vars, IndInv, QueueInv, Distinct, Elems, EntryInv, TimerInv, ReplyInv,
     RetryInv, Called, Serving, OneOutstanding, Live
\* The steps that change only `status`, of a request that is neither queued nor in
\* handlers, from one that was never answered to another.
<1>2. ASSUME NEW r \in Requests, NEW s \in Statuses,
             status' = [status EXCEPT ![r] = s], replies[r] = 0,
             s \in {"idle", "ready"} => retriesLeft[r] = 0,
             r \notin handlers, \A e \in Eids : r \notin Elems(queue[e]),
             UNCHANGED <<queueVars, timerVars, removeRequestContainer, answering,
                         expiring, replies>>
      PROVE  IndInv'
  <2>1. \A x \in Requests \ {r} : status'[x] = status[x]
    BY <1>0, <1>2 DEF TypeOK
  <2>2. QueueInv'
    BY <1>0, <1>a, <1>2, <2>1 DEF QueueInv, Distinct, Elems
  <2>3. EntryInv'
    BY <1>0, <1>2, <2>1 DEF EntryInv, Called, Serving, TypeOK
  <2>4. TimerInv' /\ ReplyInv'
    BY <1>0, <1>2, <2>1 DEF TimerInv, ReplyInv, Called, Serving
  <2>5. OneOutstanding'
    BY <1>0, <1>2 DEF OneOutstanding, Live
  <2>6. RetryInv'
    BY <1>0, <1>2, <2>1 DEF RetryInv, Elems, TypeOK
  <2> QED
    BY <1>0, <2>2, <2>3, <2>4, <2>5, <2>6 DEF IndInv
\* A request with one of these statuses is nowhere.
<1>3. ASSUME NEW r \in Requests, status[r] \notin {"accepted", "refused"}
      PROVE  r \notin handlers /\ \A e \in Eids : r \notin Elems(queue[e])
  BY <1>0, <1>3 DEF QueueInv, EntryInv
<1>4. ASSUME NEW r \in Requests, AllocateInstanceId(r)
      PROVE  IndInv'
  <2>1. replies[r] = 0 /\ retriesLeft[r] = 0
    BY <1>0, <1>4 DEF AllocateInstanceId, ReplyInv, RetryInv
  <2> QED
    BY <1>2, <1>3, <1>4, <2>1 DEF AllocateInstanceId, Statuses
<1>5. ASSUME NEW r \in Requests, StartStopped(r)
      PROVE  IndInv'
  <2>1. replies[r] = 0
    BY <1>0, <1>5 DEF StartStopped, ReplyInv
  <2> QED
    BY <1>2, <1>3, <1>5, <2>1 DEF StartStopped, Statuses
<1>6. ASSUME NEW r \in Requests, UnregisterUnknown(r)
      PROVE  IndInv'
  <2>1. \A e \in Eids : r \notin Elems(queue[e])
    BY <1>0, <1>6 DEF UnregisterUnknown, Queued, QueueInv, Elems
  <2> QED
    BY <1>2, <1>6, <2>1 DEF UnregisterUnknown, MayStop, Statuses
<1>7. ASSUME NEW r \in Requests, UnregisterQueued(r)
      PROVE  IndInv'
  BY <1>0, <1>7 DEF UnregisterQueued, IndInv, QueueInv, Distinct, Elems, EntryInv,
     TimerInv, ReplyInv, RetryInv, Called, Serving, OneOutstanding, Live
\* What the endpoint of an entry that is not due for removal waits for.
<1>8. ASSUME NEW r \in handlers \ removeRequestContainer
      PROVE  /\ Dest[r] \in Eids
             /\ Live(Dest[r]) = {r}
             /\ \A x \in handlers \ {r} :
                  Dest[x] = Dest[r] => x \in removeRequestContainer
             /\ Distinct(queue[Dest[r]])
             /\ \A x \in Elems(queue[Dest[r]]) :
                  Dest[x] = Dest[r] /\ x \notin handlers /\ replies[x] = 0
  <2>1. r \in Requests /\ Dest[r] \in Eids /\ r \in Live(Dest[r])
    BY <1>0, <1>8 DEF TypeOK, Live
  <2>2. Live(Dest[r]) = {r}
    BY <1>0, <2>1 DEF OneOutstanding
  <2> QED
    BY <1>0, <1>8, <2>1, <2>2 DEF Live, QueueInv
<1>9. ASSUME NEW r \in Requests, RegisterRequest(r)
      PROVE  IndInv'
  <2> DEFINE e == Dest[r]
             q == PushBack(queue[e], r)
  <2>1. /\ status[r] = "ready"
        /\ status' \in [Requests -> Statuses]
        /\ status'[r] \in {"accepted", "refused"}
        /\ \A x \in Requests \ {r} : status'[x] = status[x]
        /\ UNCHANGED <<removeRequestContainer, answering, expiring, replies>>
    BY <1>0, <1>9 DEF RegisterRequest, TypeOK
  <2>2. /\ r \notin handlers
        /\ \A f \in Eids : r \notin Elems(queue[f])
        /\ replies[r] = 0
        /\ retriesLeft[r] = 0
    BY <1>0, <1>3, <2>1 DEF ReplyInv, RetryInv
  <2>3. e \in Eids /\ queue[e] \in Seq(Requests) /\ Distinct(queue[e])
    BY <1>0 DEF TypeOK, QueueInv
  <2>4. /\ q \in Seq(Requests)
        /\ Elems(q) = Elems(queue[e]) \cup {r}
        /\ Distinct(q)
    BY <2>2, <2>3, AppendElems DEF PushBack
  <2>5. CASE activeRequest[e]
    <3>1. /\ queue' = [queue EXCEPT ![e] = q]
          /\ UNCHANGED <<activeRequest, handlers, timerVars>>
      BY <1>9, <2>5 DEF RegisterRequest
    <3>2. QueueInv'
      <4>1. ASSUME NEW f \in Eids
            PROVE  /\ Distinct(queue'[f])
                   /\ \A x \in Elems(queue'[f]) :
                        /\ Dest[x] = f
                        /\ x \notin handlers'
                        /\ status'[x] \in {"accepted", "refused"}
                        /\ replies'[x] = 0
        <5>1. CASE f = e
          <6>1. queue'[f] = q
            BY <1>0, <3>1, <5>1 DEF TypeOK
          <6>2. \A x \in Elems(queue[e]) :
                  /\ x \in Requests \ {r}
                  /\ Dest[x] = e /\ x \notin handlers /\ replies[x] = 0
                  /\ status[x] \in {"accepted", "refused"}
            BY <1>0, <1>a, <2>2, <2>3 DEF QueueInv
          <6> QED
            BY <2>1, <2>2, <2>4, <3>1, <5>1, <6>1, <6>2
        <5>2. CASE f # e
          <6>1. queue'[f] = queue[f]
            BY <1>0, <3>1, <5>2 DEF TypeOK
          <6> QED
            BY <1>0, <1>a, <2>1, <2>2, <3>1, <6>1 DEF QueueInv
        <5> QED
          BY <5>1, <5>2
      <4> QED
        BY <4>1 DEF QueueInv, Distinct, Elems
    <3>3. EntryInv'
      BY <1>0, <2>1, <2>2, <3>1 DEF EntryInv, Called, Serving, TypeOK
    <3>4. TimerInv' /\ ReplyInv'
      BY <1>0, <2>1, <2>2, <3>1 DEF TimerInv, ReplyInv, Called, Serving
    <3>5. OneOutstanding'
      BY <1>0, <2>1, <3>1 DEF OneOutstanding, Live
    <3>6. RetryInv'
      <4>1. ASSUME NEW x \in Requests, NEW f \in Eids, x \in Elems(queue'[f])
            PROVE  retriesLeft[x] = 0
        <5>1. queue'[f] = IF f = e THEN q ELSE queue[f]
          BY <1>0, <3>1 DEF TypeOK
        <5> QED
          BY <1>0, <2>2, <2>4, <4>1, <5>1 DEF RetryInv
      <4>2. \A x \in Requests : status'[x] \in {"idle", "ready"} => retriesLeft[x] = 0
        BY <1>0, <2>1 DEF RetryInv
      <4> QED
        BY <3>1, <4>1, <4>2 DEF RetryInv, Elems
    <3> QED
      BY <1>0, <3>2, <3>3, <3>4, <3>5, <3>6 DEF IndInv
  <2>6. CASE ~activeRequest[e]
    <3>1. PollEndpointQueue(e, q, {})
      BY <1>9, <2>6 DEF RegisterRequest
    <3>2. \A x \in Elems(q) : Dest[x] = e /\ x \notin handlers /\ replies[x] = 0
      BY <1>0, <2>2, <2>3, <2>4 DEF QueueInv
    <3>3. \A x \in handlers : Dest[x] = e => x \in removeRequestContainer
      BY <1>0, <2>3, <2>6 DEF OneOutstanding, Live, TypeOK
    <3>4. \A x \in Requests : (x \in Elems(q) \/ x \in handlers
                                 \/ \E f \in Eids \ {e} : x \in Elems(queue[f])) =>
            status'[x] \in {"accepted", "refused"}
      BY <1>0, <2>1, <2>3, <2>4 DEF QueueInv, EntryInv
    <3>5. \A x \in Requests :
            status'[x] \in {"idle", "ready", "unissued", "cancelled"} => replies[x] = 0
      BY <1>0, <2>1, <2>2 DEF ReplyInv
    <3>6. /\ Called' = Called \ {}
          /\ Serving' \subseteq Serving
          /\ removeRequestContainer' \cap Serving' = {}
          /\ answering' \cap expiring' = {}
      BY <1>0, <2>1 DEF Called, Serving, EntryInv
    <3>7. \A x \in Requests :
            (status'[x] \in {"idle", "ready"} \/ x \in Elems(q)
               \/ \E f \in Eids \ {e} : x \in Elems(queue[f])) => retriesLeft[x] = 0
      BY <1>0, <2>1, <2>2, <2>3, <2>4 DEF RetryInv
    <3> QED
      BY <1>0, <2>1, <2>3, <2>4, <3>1, <3>2, <3>3, <3>4, <3>5, <3>6, <3>7, PollIndInv
  <2> QED
    BY <2>5, <2>6
\* The steps that call the response handler of r: it is marked as such in
\* answering or expiring, which are empty before, and its timers stop.
<1>10. ASSUME NEW r \in handlers \ removeRequestContainer, Serving = {},
              StopTimers(r),
              \/ answering' = {r} /\ UNCHANGED expiring
              \/ expiring' = {r} /\ UNCHANGED answering,
              replies' = [replies EXCEPT ![r] = @ + 1],
              UNCHANGED <<status, queueVars, removeRequestContainer, retriesLeft>>
       PROVE  IndInv'
  <2>1. /\ Serving' = {r} /\ answering' \cap expiring' = {}
        /\ Called' = Called \cup {r} /\ r \notin Called
    BY <1>10 DEF Serving, Called
  <2>2. /\ replies'[r] = 1
        /\ \A x \in Requests \ {r} : replies'[x] = replies[x]
    BY <1>0, <1>10, <2>1 DEF ReplyInv, TypeOK
  <2>3. QueueInv'
    BY <1>0, <1>a, <1>10, <2>2 DEF QueueInv, Distinct, Elems
  <2>4. EntryInv'
    BY <1>0, <1>10, <2>1 DEF EntryInv
  <2>5. TimerInv'
    BY <1>0, <1>10, <2>1 DEF TimerInv, StopTimers
  <2>6. ReplyInv'
    <3>1. r \in Requests /\ status[r] \in {"accepted", "refused"}
      BY <1>0, <1>10 DEF EntryInv, TypeOK
    <3>2. \A x \in handlers : replies'[x] = IF x \in Called' THEN 1 ELSE 0
      BY <1>0, <1>10, <2>1, <2>2 DEF ReplyInv, TypeOK
    <3>3. \A x \in Requests : replies'[x] <= 1
      BY <1>0, <2>2 DEF ReplyInv
    <3>4. \A x \in Requests :
            status'[x] \in {"idle", "ready", "unissued", "cancelled"} => replies'[x] = 0
      BY <1>0, <1>10, <2>2, <3>1 DEF ReplyInv
    <3> QED
      BY <1>10, <3>2, <3>3, <3>4 DEF ReplyInv
  <2>7. OneOutstanding'
    BY <1>0, <1>10 DEF OneOutstanding, Live
  <2>8. RetryInv'
    BY <1>0, <1>10 DEF RetryInv, Elems
  <2> QED
    BY <1>0, <2>3, <2>4, <2>5, <2>6, <2>7, <2>8 DEF IndInv
<1>11. ASSUME NEW r \in Requests, HandleResponse(r)
       PROVE  IndInv'
  BY <1>10, <1>11 DEF HandleResponse, EventLoop, InCallback, AwaitsResponse, Serving
<1>12. ASSUME NEW r \in Requests, InstanceIdExpiry(r)
       PROVE  IndInv'
  <2>1. r \in handlers \ removeRequestContainer
    BY <1>0, <1>12 DEF InstanceIdExpiry, TimerInv, Called
  <2> QED
    BY <1>10, <1>12, <2>1 DEF InstanceIdExpiry, EventLoop, InCallback, Serving
<1>13. ASSUME NEW r \in Requests, ResponseHandled(r)
       PROVE  IndInv'
  <2>1. /\ r \in answering /\ answering' = {}
        /\ PollEndpointQueue(Dest[r], queue[Dest[r]], {r})
        /\ UNCHANGED <<status, removeRequestContainer, expiring, replies>>
    BY <1>13 DEF ResponseHandled
  <2>2. r \in handlers \ removeRequestContainer
    BY <1>0, <2>1 DEF EntryInv, Called, Serving
  <2>3. /\ Called' = Called \ {r}
        /\ Serving' \subseteq Serving
        /\ removeRequestContainer' \cap Serving' = {}
        /\ answering' \cap expiring' = {}
    BY <1>0, <2>1 DEF Called, Serving, EntryInv
  <2>4. \A x \in Requests :
          (x \in Elems(queue[Dest[r]]) \/ x \in handlers \ {r}
             \/ \E f \in Eids \ {Dest[r]} : x \in Elems(queue[f])) =>
          status'[x] \in {"accepted", "refused"}
    BY <1>0, <1>8, <2>1, <2>2 DEF QueueInv, EntryInv
  <2>5. \A x \in Requests :
          status'[x] \in {"idle", "ready", "unissued", "cancelled"} => replies[x] = 0
    BY <1>0, <2>1 DEF ReplyInv
  <2>6. queue[Dest[r]] \in Seq(Requests) /\ {r} \in SUBSET Requests
    BY <1>0 DEF TypeOK
  <2>7. \A x \in Requests :
          (status'[x] \in {"idle", "ready"} \/ x \in Elems(queue[Dest[r]])
             \/ \E f \in Eids \ {Dest[r]} : x \in Elems(queue[f])) =>
          retriesLeft[x] = 0
    BY <1>0, <1>8, <2>1, <2>2 DEF RetryInv
  <2> QED
    BY <1>0, <1>8, <2>1, <2>2, <2>3, <2>4, <2>5, <2>6, <2>7, PollIndInv
<1>14. ASSUME NEW r \in Requests, ExpiryHandled(r)
       PROVE  IndInv'
  <2>1. /\ r \in expiring /\ expiring' = {}
        /\ removeRequestContainer' = removeRequestContainer \cup {r}
        /\ PollEndpointQueue(Dest[r], queue[Dest[r]], {})
        /\ UNCHANGED <<status, answering, replies>>
    BY <1>14 DEF ExpiryHandled
  <2>2. r \in handlers \ removeRequestContainer
    BY <1>0, <2>1 DEF EntryInv, Called, Serving
  <2>3. /\ Called' = Called \ {}
        /\ Serving' \subseteq Serving
        /\ removeRequestContainer' \cap Serving' = {}
        /\ answering' \cap expiring' = {}
    <3>1. expiring = {r} /\ answering = {}
      BY <1>0, <2>1 DEF EntryInv, Serving
    <3> QED
      BY <2>1, <3>1 DEF Called, Serving
  <2>4. \A x \in Requests :
          (x \in Elems(queue[Dest[r]]) \/ x \in handlers \ {}
             \/ \E f \in Eids \ {Dest[r]} : x \in Elems(queue[f])) =>
          status'[x] \in {"accepted", "refused"}
    BY <1>0, <1>8, <2>1, <2>2 DEF QueueInv, EntryInv
  <2>5. \A x \in Requests :
          status'[x] \in {"idle", "ready", "unissued", "cancelled"} => replies[x] = 0
    BY <1>0, <2>1 DEF ReplyInv
  <2>6. queue[Dest[r]] \in Seq(Requests)
    BY <1>0 DEF TypeOK
  <2>7. \A x \in Requests :
          (status'[x] \in {"idle", "ready"} \/ x \in Elems(queue[Dest[r]])
             \/ \E f \in Eids \ {Dest[r]} : x \in Elems(queue[f])) =>
          retriesLeft[x] = 0
    BY <1>0, <1>8, <2>1, <2>2 DEF RetryInv
  <2> QED
    BY <1>0, <1>8, <2>1, <2>2, <2>3, <2>4, <2>5, <2>6, <2>7, PollIndInv
<1>15. ASSUME NEW r \in Requests, UnregisterActive(r)
       PROVE  IndInv'
  <2>1. /\ replies[r] = 0 /\ r \in handlers
        /\ status' = [status EXCEPT ![r] = "cancelled"]
        /\ PollEndpointQueue(Dest[r], queue[Dest[r]], {r})
        /\ UNCHANGED <<removeRequestContainer, answering, expiring, replies>>
    BY <1>15 DEF UnregisterActive, MayStop
  <2>2. r \notin Called /\ r \in handlers \ removeRequestContainer
    BY <1>0, <2>1 DEF ReplyInv, Called
  <2>3. /\ Called' = Called \ {r}
        /\ Serving' \subseteq Serving
        /\ removeRequestContainer' \cap Serving' = {}
        /\ answering' \cap expiring' = {}
    BY <1>0, <2>1, <2>2 DEF Called, Serving, EntryInv
  <2>4. \A x \in Requests :
          (x \in Elems(queue[Dest[r]]) \/ x \in handlers \ {r}
             \/ \E f \in Eids \ {Dest[r]} : x \in Elems(queue[f])) =>
          status'[x] \in {"accepted", "refused"}
    <3>1. \A x \in Requests \ {r} : status'[x] = status[x]
      BY <1>0, <2>1 DEF TypeOK
    <3>2. \A f \in Eids : r \notin Elems(queue[f])
      BY <1>0, <2>1 DEF QueueInv
    <3>3. Dest[r] \in Eids
      BY <2>2, <1>8
    <3> QED
      BY <1>0, <3>1, <3>2, <3>3 DEF QueueInv, EntryInv
  <2>5. \A x \in Requests :
          status'[x] \in {"idle", "ready", "unissued", "cancelled"} => replies[x] = 0
    BY <1>0, <2>1 DEF ReplyInv, TypeOK
  <2>6. queue[Dest[r]] \in Seq(Requests) /\ {r} \in SUBSET Requests
    BY <1>0 DEF TypeOK
  <2>7. \A x \in Requests :
          (status'[x] \in {"idle", "ready"} \/ x \in Elems(queue[Dest[r]])
             \/ \E f \in Eids \ {Dest[r]} : x \in Elems(queue[f])) =>
          retriesLeft[x] = 0
    BY <1>0, <1>8, <2>1, <2>2 DEF RetryInv, TypeOK
  <2> QED
    BY <1>0, <1>8, <2>1, <2>2, <2>3, <2>4, <2>5, <2>6, <2>7, PollIndInv
<1>16. ASSUME NEW r \in Requests, RemoveRequestEntry(r)
       PROVE  IndInv'
  <2>1. /\ r \in removeRequestContainer
        /\ removeRequestContainer' = removeRequestContainer \ {r}
        /\ handlers' = handlers \ {r}
        /\ UNCHANGED <<status, queue, activeRequest, timerVars, answering, expiring,
                       replies>>
    BY <1>16 DEF RemoveRequestEntry
  <2>2. Called' = Called \ {r} /\ Serving' = Serving /\ r \notin Serving
    BY <1>0, <2>1 DEF Called, Serving, EntryInv
  <2>3. QueueInv'
    BY <1>0, <2>1 DEF QueueInv, Distinct, Elems
  <2>4. EntryInv'
    BY <1>0, <2>1, <2>2 DEF EntryInv
  <2>5. TimerInv'
    <3>1. UNCHANGED <<expiryTimers, retryTimers>>
      BY <2>1
    <3>2. r \in Called
      BY <2>1 DEF Called
    <3> QED
      BY <1>0, <2>1, <2>2, <3>1, <3>2 DEF TimerInv
  <2>6. RetryInv'
    BY <1>0, <2>1 DEF RetryInv, Elems
  <2>7. ReplyInv'
    BY <1>0, <2>1, <2>2 DEF ReplyInv
  <2>8. \A e \in Eids : Live(e)' = Live(e)
    BY <2>1 DEF Live
  <2>9. OneOutstanding'
    BY <1>0, <2>1, <2>8 DEF OneOutstanding
  <2> QED
    BY <1>0, <2>3, <2>4, <2>5, <2>6, <2>7, <2>9 DEF IndInv
<1>17. ASSUME NEW r \in Requests, RetryTimeout(r)
       PROVE  IndInv'
  <2>1. /\ retryTimers' \subseteq retryTimers
        /\ UNCHANGED <<status, queueVars, removeRequestContainer, expiryTimers,
                       answering, expiring, replies>>
    BY <1>17 DEF RetryTimeout
  <2>2. QueueInv'
    BY <1>0, <2>1 DEF QueueInv, Distinct, Elems
  <2>3. EntryInv' /\ TimerInv' /\ ReplyInv'
    BY <1>0, <2>1 DEF EntryInv, TimerInv, ReplyInv, Called, Serving
  <2>4. OneOutstanding'
    BY <1>0, <2>1 DEF OneOutstanding, Live
  <2>5. RetryInv'
    <3>1. r \in handlers
      BY <1>0, <1>17 DEF RetryTimeout, TimerInv
    <3>2. /\ status[r] \in {"accepted", "refused"}
          /\ \A e \in Eids : r \notin Elems(queue[e])
      BY <1>0, <3>1 DEF EntryInv, QueueInv
    <3>3. \A x \in Requests \ {r} : retriesLeft'[x] = retriesLeft[x]
      BY <1>0, <1>17 DEF RetryTimeout, TypeOK
    <3> QED
      BY <1>0, <2>1, <3>2, <3>3 DEF RetryInv, Elems
  <2> QED
    BY <1>0, <2>2, <2>3, <2>4, <2>5 DEF IndInv
<1> QED
  BY <1>1, <1>4, <1>5, <1>6, <1>7, <1>9, <1>11, <1>12, <1>13, <1>14, <1>15, <1>16,
     <1>17 DEF Next

LEMMA IndInvHolds == Spec => []IndInv
  BY InitIndInv, NextIndInv, PTL DEF Spec

\* Two requests are never on the wire to one endpoint and activeRequest is never
\* left set, whatever expires, is answered, cancelled or cannot be sent.
THEOREM OneOutstandingHolds == Spec => []OneOutstanding
<1>1. IndInv => OneOutstanding
  BY DEF IndInv
<1> QED
  BY <1>1, IndInvHolds, PTL

\* The response handler of a request is called at most once, and not at all when
\* its caller was told that it is stopped.
THEOREM CompletedOnceHolds == Spec => []CompletedOnce
<1>1. IndInv => CompletedOnce
  BY DEF IndInv, TypeOK, ReplyInv, CompletedOnce
<1> QED
  BY <1>1, IndInvHolds, PTL

\* A retransmission timer that runs has at most NumRetries retransmissions to go:
\* the callback that wraps the counter stops the timer.
RetryBound == \A r \in retryTimers : retriesLeft[r] <= NumRetries

\* numRetries-- of a counter that is not zero does not wrap.
LEMMA DecrementPositive == \A n \in 1..255 : Decrement(n) = n - 1
  BY DEF Decrement

LEMMA NextRetryBound == TypeOK /\ RetryBound /\ [Next]_vars => RetryBound'
<1> SUFFICES ASSUME TypeOK, RetryBound, [Next]_vars, NEW s \in retryTimers'
             PROVE  retriesLeft'[s] <= NumRetries
  BY DEF RetryBound
<1> USE DEF queueVars, timerVars
<1>0. /\ retryTimers \subseteq Requests
      /\ \A r \in Requests : retriesLeft[r] \in 0..255
      /\ \A r \in Requests : Dest[r] \in Eids /\ queue[Dest[r]] \in Seq(Requests)
  BY DEF TypeOK
<1>1. ASSUME NEW e \in Eids, NEW q \in Seq(Requests), NEW done \in SUBSET Requests,
             PollEndpointQueue(e, q, done)
      PROVE  retriesLeft'[s] <= NumRetries
  <2>1. PICK rest, started, failed : Polled(e, q, done, rest, started, failed)
    BY <1>1, PollIsPolled
  <2>2. CASE s \in started
    BY <1>0, <1>1, <2>1, <2>2 DEF Polled
  <2>3. CASE s \notin started
    BY <1>0, <1>1, <2>1, <2>3 DEF Polled, RetryBound
  <2> QED
    BY <2>2, <2>3
<1>2. CASE retryTimers' \subseteq retryTimers /\ UNCHANGED retriesLeft
  BY <1>2 DEF RetryBound
<1>3. ASSUME NEW x \in Requests, RegisterRequest(x)
      PROVE  retriesLeft'[s] <= NumRetries
  <2>1. CASE activeRequest[Dest[x]]
    BY <1>2, <1>3, <2>1 DEF RegisterRequest
  <2>2. CASE ~activeRequest[Dest[x]]
    <3>1. PollEndpointQueue(Dest[x], PushBack(queue[Dest[x]], x), {})
      BY <1>3, <2>2 DEF RegisterRequest
    <3>2. PushBack(queue[Dest[x]], x) \in Seq(Requests)
      BY <1>0, <1>3, AppendElems DEF PushBack
    <3> QED
      BY <1>0, <1>1, <3>1, <3>2
  <2> QED
    BY <2>1, <2>2
<1>4. ASSUME NEW x \in Requests,
             ResponseHandled(x) \/ ExpiryHandled(x) \/ UnregisterActive(x)
      PROVE  retriesLeft'[s] <= NumRetries
  <2>1. PICK done \in {{}, {x}} : PollEndpointQueue(Dest[x], queue[Dest[x]], done)
    BY <1>4 DEF ResponseHandled, ExpiryHandled, UnregisterActive
  <2> QED
    BY <1>0, <1>1, <2>1
<1>5. ASSUME NEW x \in Requests, HandleResponse(x) \/ InstanceIdExpiry(x)
      PROVE  retryTimers' \subseteq retryTimers /\ UNCHANGED retriesLeft
  BY <1>5 DEF HandleResponse, InstanceIdExpiry, StopTimers
<1>6. ASSUME NEW x \in Requests, RetryTimeout(x)
      PROVE  retriesLeft'[s] <= NumRetries
  <2>1. s \in retryTimers /\ s \in Requests
    BY <1>0, <1>6 DEF RetryTimeout
  <2>2. CASE s # x
    BY <1>6, <2>1, <2>2 DEF RetryTimeout, RetryBound, TypeOK
  <2>3. CASE s = x
    <3>1. retriesLeft[x] # 0
      BY <1>6, <2>3 DEF RetryTimeout
    <3>2. retriesLeft'[x] = Decrement(retriesLeft[x])
      BY <1>6 DEF RetryTimeout, TypeOK
    <3>3. retriesLeft[x] \in 0..255 /\ NumRetries \in 0..255
      BY <1>0, <1>6
    <3>4. retriesLeft[x] <= NumRetries
      BY <2>1, <2>3 DEF RetryBound
    <3>5. Decrement(retriesLeft[x]) = retriesLeft[x] - 1
      BY <3>1, <3>3, DecrementPositive
    <3> QED
      BY <2>3, <3>2, <3>3, <3>4, <3>5
  <2> QED
    BY <2>2, <2>3
<1>7. CASE UNCHANGED vars
  BY <1>2, <1>7 DEF vars
<1> QED
  BY <1>2, <1>3, <1>4, <1>5, <1>6, <1>7 DEF Next, AllocateInstanceId, StartStopped,
     RemoveRequestEntry, UnregisterQueued, UnregisterUnknown

LEMMA RetryBoundHolds == Spec => []RetryBound
<1>1. Init => RetryBound
  BY DEF Init, RetryBound
<1>2. IndInv => TypeOK
  BY DEF IndInv
<1> QED
  BY <1>1, <1>2, NextRetryBound, IndInvHolds, PTL DEF Spec

\* A retransmission timer never fires for a request that was answered, expired or
\* cancelled, nor for one that its endpoint is not waiting for, nor more often than
\* NumRetries.
THEOREM RetryOnlyWhileOutstandingHolds == Spec => RetryOnlyWhileOutstanding
<1> DEFINE Waits(r) == /\ r \in Live(Dest[r])
                       /\ replies[r] = 0
                       /\ activeRequest[Dest[r]]
                       /\ retriesLeft[r] <= NumRetries
<1>1. ASSUME IndInv, RetryBound, Next, NEW r \in Requests, retriesLeft'[r] < retriesLeft[r]
      PROVE  Waits(r)
  <2> USE DEF queueVars, timerVars
  <2>0. /\ TypeOK /\ TimerInv /\ ReplyInv /\ RetryInv /\ OneOutstanding
        /\ retriesLeft[r] \in Nat
    <3>1. TypeOK /\ TimerInv /\ ReplyInv /\ RetryInv /\ OneOutstanding
      BY <1>1 DEF IndInv
    <3>2. retriesLeft[r] \in 0..255
      BY <3>1 DEF TypeOK
    <3> QED
      BY <3>1, <3>2
  \* Polling resets the count of a request that was not sent before, no other.
  <2>1. ASSUME NEW e \in Eids, NEW q \in Seq(Requests), NEW done \in SUBSET Requests,
               PollEndpointQueue(e, q, done),
               \A x \in Elems(q) : x \in Requests => retriesLeft[x] = 0
        PROVE  FALSE
    <3>1. PICK rest, started, failed : Polled(e, q, done, rest, started, failed)
      BY <2>1, PollIsPolled
    <3>2. CASE r \in started
      <4>1. retriesLeft'[r] = NumRetries /\ r \in Elems(q)
        BY <3>1, <3>2 DEF Polled
      <4>2. retriesLeft[r] = 0
        BY <2>1, <4>1
      <4>3. NumRetries < 0
        BY <1>1, <4>1, <4>2
      <4>4. NumRetries \in 0..255
        OBVIOUS
      <4> QED
        BY <4>3, <4>4
    <3>3. CASE r \notin started
      BY <1>1, <2>0, <3>1, <3>3 DEF Polled
    <3> QED
      BY <3>2, <3>3
  <2>2. \A x \in Requests : /\ Dest[x] \in Eids
                            /\ queue[Dest[x]] \in Seq(Requests)
                            /\ \A y \in Elems(queue[Dest[x]]) :
                                 y \in Requests => retriesLeft[y] = 0
    BY <2>0 DEF TypeOK, RetryInv
  <2>3. ASSUME NEW x \in Requests, RegisterRequest(x)
        PROVE  FALSE
    <3>1. CASE activeRequest[Dest[x]]
      BY <1>1, <2>0, <2>3, <3>1 DEF RegisterRequest
    <3>2. CASE ~activeRequest[Dest[x]]
      <4>1. PollEndpointQueue(Dest[x], PushBack(queue[Dest[x]], x), {})
        BY <2>3, <3>2 DEF RegisterRequest
      <4>2. /\ PushBack(queue[Dest[x]], x) \in Seq(Requests)
            /\ Elems(PushBack(queue[Dest[x]], x)) = Elems(queue[Dest[x]]) \cup {x}
        BY <2>2, AppendElems DEF PushBack
      <4>3. retriesLeft[x] = 0
        BY <2>0, <2>3 DEF RegisterRequest, RetryInv
      <4> QED
        BY <2>1, <2>2, <4>1, <4>2, <4>3
    <3> QED
      BY <3>1, <3>2
  <2>4. ASSUME NEW x \in Requests,
               ResponseHandled(x) \/ ExpiryHandled(x) \/ UnregisterActive(x)
        PROVE  FALSE
    <3>1. PICK done \in {{}, {x}} : PollEndpointQueue(Dest[x], queue[Dest[x]], done)
      BY <2>4 DEF ResponseHandled, ExpiryHandled, UnregisterActive
    <3> QED
      BY <2>1, <2>2, <3>1
  <2>5. ASSUME NEW x \in Requests, RetryTimeout(x)
        PROVE  Waits(r)
    <3>1. r = x /\ r \in retryTimers
      BY <1>1, <2>0, <2>5 DEF RetryTimeout, TypeOK
    <3>2. r \in handlers /\ r \notin Called
      BY <2>0, <3>1 DEF TimerInv
    <3>3. replies[r] = 0 /\ r \in Live(Dest[r]) /\ Dest[r] \in Eids
      BY <2>0, <3>2 DEF ReplyInv, Live, Called, TypeOK
    <3>4. activeRequest[Dest[r]]
      BY <2>0, <3>3 DEF OneOutstanding
    <3>5. retriesLeft[r] <= NumRetries
      BY <1>1, <3>1 DEF RetryBound
    <3> QED
      BY <3>3, <3>4, <3>5
  <2>6. ASSUME UNCHANGED retriesLeft
        PROVE  FALSE
    BY <1>1, <2>0, <2>6
  <2> QED
    BY <1>1, <2>3, <2>4, <2>5, <2>6 DEF Next, AllocateInstanceId, StartStopped,
       HandleResponse, InstanceIdExpiry, RemoveRequestEntry, UnregisterQueued,
       UnregisterUnknown
<1>2. IndInv /\ RetryBound /\ [Next]_vars =>
        [\A r \in Requests :
           retriesLeft'[r] < retriesLeft[r] =>
             /\ r \in Live(Dest[r])
             /\ replies[r] = 0
             /\ activeRequest[Dest[r]]
             /\ retriesLeft[r] <= NumRetries]_vars
  BY <1>1
<1> QED
  BY <1>2, IndInvHolds, RetryBoundHolds, PTL DEF Spec, RetryOnlyWhileOutstanding

-----------------------------------------------------------------------------
(* Instance ids *)

\* Ids are in use exactly by their holders, and no two requests share one.
IdsInv(ids, H, f) ==
  /\ ids = {f[r] : r \in H}
  /\ \A r, s \in H : f[r] = f[s] => r = s

\* Freeing the ids of some holders is freeing the holders.
LEMMA FreeIds ==
  ASSUME NEW ids, NEW H, NEW f, NEW D \in SUBSET H, IdsInv(ids, H, f)
  PROVE  IdsInv(ids \ {f[r] : r \in D}, H \ D, f)
  BY DEF IdsInv

\* Only the id of each holder matters.
LEMMA SameIds ==
  ASSUME NEW ids, NEW H, NEW f, NEW g, IdsInv(ids, H, f), \A r \in H : g[r] = f[r]
  PROVE  IdsInv(ids, H, g)
  BY DEF IdsInv

\* A poll takes `done` and what could not be sent out of the holders; what is sent
\* stays one.
LEMMA PollIds ==
  ASSUME TypeOK, NEW e \in Eids, NEW q \in Seq(Requests),
         NEW done \in SUBSET handlers,
         PollEndpointQueue(e, q, done),
         iid' = iid,
         Distinct(q),
         \A r \in Elems(q) : Dest[r] = e /\ r \notin handlers,
         \A r \in done : Dest[r] = e,
         \A r \in Elems(q) \cup done : status'[r] \notin {"ready", "unissued"},
         \A f \in Eids : Holders(f) =
           {r \in Requests : /\ Dest[r] = f
                             /\ \/ status'[r] \in {"ready", "unissued"}
                                \/ r \in handlers
                                \/ r \in (IF f = e THEN Elems(q) ELSE Queued(f))},
         \A f \in Eids : IdsInv(allocated[f], Holders(f), iid)
  PROVE  \A f \in Eids : IdsInv(allocated'[f], Holders(f)', iid')
<1>0. /\ handlers \subseteq Requests
      /\ done \in SUBSET Requests
  BY DEF TypeOK
<1>1. PICK rest, started, failed : Polled(e, q, done, rest, started, failed)
  BY <1>0, PollIsPolled
<1>2. /\ failed \subseteq Requests
      /\ Elems(q) = Elems(rest) \cup started \cup failed
      /\ Elems(rest) \cap (started \cup failed) = {}
      /\ started \cap failed = {}
      /\ handlers' = (handlers \ done) \cup started
  BY <1>1 DEF Polled
<1>3. /\ queue'[e] = rest
      /\ \A f \in Eids \ {e} : queue'[f] = queue[f] /\ allocated'[f] = allocated[f]
      /\ allocated'[e] = allocated[e] \ {iid[r] : r \in done \cup failed}
  BY <1>1 DEF Polled, TypeOK
<1>4. /\ Queued(e)' = Elems(rest)
      /\ \A f \in Eids \ {e} : Queued(f)' = Queued(f)
  BY <1>3 DEF Queued, Elems
<1>5. Holders(e)' = Holders(e) \ (done \cup failed)
  <2>1. Holders(e)' = {r \in Requests : /\ Dest[r] = e
                                        /\ \/ status'[r] \in {"ready", "unissued"}
                                           \/ r \in (handlers \ done) \cup started
                                           \/ r \in Elems(rest)}
    BY <1>2, <1>4 DEF Holders
  <2>2. Holders(e) = {r \in Requests : /\ Dest[r] = e
                                       /\ \/ status'[r] \in {"ready", "unissued"}
                                          \/ r \in handlers
                                          \/ r \in Elems(rest) \cup started \cup failed}
    BY <1>2
  <2>3. done \cap (Elems(rest) \cup started \cup failed) = {}
    BY <1>2
  <2> QED
    BY <1>0, <1>2, <2>1, <2>2, <2>3
<1>6. done \cup failed \subseteq Holders(e)
  BY <1>0, <1>2
<1>7. ASSUME NEW f \in Eids, f # e
      PROVE  Holders(f)' = Holders(f)
  <2>1. Holders(f)' = {r \in Requests : /\ Dest[r] = f
                                        /\ \/ status'[r] \in {"ready", "unissued"}
                                           \/ r \in (handlers \ done) \cup started
                                           \/ r \in Queued(f)}
    BY <1>2, <1>4, <1>7 DEF Holders
  <2>2. \A r \in done \cup started : Dest[r] # f
    BY <1>2, <1>7
  <2> QED
    BY <1>7, <2>1, <2>2
<1>8. IdsInv(allocated'[e], Holders(e)', iid')
  <2> DEFINE D == done \cup failed
             H == Holders(e)
             ids == allocated[e]
  <2>1. D \in SUBSET H /\ IdsInv(ids, H, iid)
    BY <1>6
  <2> HIDE DEF D, H, ids
  <2>2. IdsInv(ids \ {iid[r] : r \in D}, H \ D, iid)
    BY <2>1, FreeIds
  <2> USE DEF D, H, ids
  <2>3. /\ allocated'[e] = ids \ {iid[r] : r \in D}
        /\ Holders(e)' = H \ D
        /\ iid' = iid
    BY <1>3, <1>5
  <2> QED
    BY <2>2, <2>3
<1>9. ASSUME NEW f \in Eids, f # e
      PROVE  IdsInv(allocated'[f], Holders(f)', iid')
  BY <1>3, <1>7, <1>9
<1> QED
  BY <1>8, <1>9

AllIds == \A e \in Eids : IdsInv(allocated[e], Holders(e), iid)

LEMMA InitIds == Init => AllIds
<1> SUFFICES ASSUME Init, NEW e \in Eids
             PROVE  IdsInv(allocated[e], Holders(e), iid)
  BY DEF AllIds
<1>1. Queued(e) = {} /\ Holders(e) = {}
  BY DEF Init, Queued, Holders
<1> QED
  BY <1>1 DEF Init, IdsInv

LEMMA NextIds == IndInv /\ AllIds /\ [Next]_vars => AllIds'
<1> SUFFICES ASSUME IndInv, AllIds, [Next]_vars
             PROVE  AllIds'
  OBVIOUS
<1> USE DEF queueVars, timerVars
<1>0. /\ TypeOK /\ QueueInv /\ EntryInv /\ ReplyInv /\ OneOutstanding
      /\ handlers \subseteq Requests
      /\ \A e \in Eids : /\ queue[e] \in Seq(Requests)
                         /\ Queued(e) = Elems(queue[e])
                         /\ Queued(e) \subseteq Requests
      /\ \A r \in Requests : Dest[r] \in Eids
  <2>1. TypeOK /\ QueueInv /\ EntryInv /\ ReplyInv /\ OneOutstanding
    BY DEF IndInv
  <2>2. handlers \subseteq Requests /\ \A e \in Eids : queue[e] \in Seq(Requests)
    BY <2>1 DEF TypeOK
  <2>3. \A e \in Eids : Queued(e) = Elems(queue[e]) /\ Queued(e) \subseteq Requests
    BY <2>2 DEF Queued, Elems
  <2> QED
    BY <2>1, <2>2, <2>3
\* Steps that keep the holders of ids keep the invariant.
<1>1. ASSUME UNCHANGED <<allocated, iid>>, \A e \in Eids : Holders(e)' = Holders(e)
      PROVE  AllIds'
  BY <1>1 DEF AllIds, IdsInv
<1>2. ASSUME UNCHANGED <<status, queue, handlers>>
      PROVE  \A e \in Eids : Holders(e)' = Holders(e)
  BY <1>2 DEF Holders, Queued
<1>3. CASE UNCHANGED vars
  BY <1>1, <1>2, <1>3 DEF vars
<1>4. ASSUME NEW r \in Requests, AllocateInstanceId(r)
      PROVE  AllIds'
  <2>1. PICK i \in InstanceIds \ allocated[Dest[r]] :
          /\ iid' = [iid EXCEPT ![r] = i]
          /\ allocated' = [allocated EXCEPT ![Dest[r]] = @ \cup {i}]
    BY <1>4 DEF AllocateInstanceId
  <2>2. /\ iid'[r] = i
        /\ \A x \in Requests \ {r} : iid'[x] = iid[x]
        /\ allocated'[Dest[r]] = allocated[Dest[r]] \cup {i}
        /\ \A f \in Eids \ {Dest[r]} : allocated'[f] = allocated[f]
    BY <1>0, <2>1 DEF TypeOK
  <2>3. /\ status[r] = "idle"
        /\ status'[r] = "ready"
        /\ \A x \in Requests \ {r} : status'[x] = status[x]
        /\ UNCHANGED <<queue, handlers>>
    BY <1>0, <1>4 DEF AllocateInstanceId, TypeOK
  <2>4. r \notin handlers /\ \A f \in Eids : r \notin Queued(f)
    BY <1>0, <2>3 DEF EntryInv, QueueInv
  <2>5. ASSUME NEW f \in Eids
        PROVE  /\ r \notin Holders(f) /\ Holders(f) \subseteq Requests
               /\ Holders(f)' = IF f = Dest[r] THEN Holders(f) \cup {r} ELSE Holders(f)
    <3>1. Queued(f)' = Queued(f)
      BY <2>3 DEF Queued
    <3> QED
      BY <2>3, <2>4, <3>1 DEF Holders
  <2>6. ASSUME NEW f \in Eids
        PROVE  IdsInv(allocated[f], Holders(f), iid)
    BY DEF AllIds
  <2>7. ASSUME NEW f \in Eids
        PROVE  IdsInv(allocated'[f], Holders(f)', iid')
    <3>1. CASE f = Dest[r]
      <4>1. Holders(f)' = Holders(f) \cup {r} /\ allocated'[f] = allocated[f] \cup {i}
        BY <2>2, <2>5, <3>1
      <4>2. \A x \in Holders(f) : iid'[x] = iid[x] /\ iid'[x] \in allocated[f]
        BY <2>2, <2>5, <2>6 DEF IdsInv
      <4> QED
        BY <2>1, <2>2, <2>6, <3>1, <4>1, <4>2 DEF IdsInv
    <3>2. CASE f # Dest[r]
      <4>1. Holders(f)' = Holders(f) /\ allocated'[f] = allocated[f]
        BY <2>2, <2>5, <3>2
      <4>2. \A x \in Holders(f) : iid'[x] = iid[x]
        BY <2>2, <2>5
      <4> QED
        BY <2>6, <4>1, <4>2 DEF IdsInv
    <3> QED
      BY <3>1, <3>2
  <2> QED
    BY <2>7 DEF AllIds
<1>5. ASSUME NEW r \in Requests, RegisterRequest(r)
      PROVE  AllIds'
  <2> DEFINE e == Dest[r]
             q == PushBack(queue[e], r)
  <2>1. /\ status[r] = "ready" /\ e \in Eids
        /\ status'[r] \in {"accepted", "refused"}
        /\ \A x \in Requests \ {r} : status'[x] = status[x]
        /\ iid' = iid
    BY <1>0, <1>5 DEF RegisterRequest, TypeOK
  <2>2. r \notin handlers /\ \A f \in Eids : r \notin Queued(f)
    BY <1>0, <2>1 DEF EntryInv, QueueInv
  <2>3. /\ q \in Seq(Requests)
        /\ Elems(q) = Queued(e) \cup {r}
        /\ Distinct(q)
    BY <1>0, <2>1, <2>2, AppendElems DEF PushBack, QueueInv
  \* The holders, as they are when r is already in the queue.
  <2>4. ASSUME NEW f \in Eids
        PROVE  Holders(f) =
                 {x \in Requests : /\ Dest[x] = f
                                   /\ \/ status'[x] \in {"ready", "unissued"}
                                      \/ x \in handlers
                                      \/ x \in (IF f = e THEN Elems(q) ELSE Queued(f))}
    BY <1>0, <2>1, <2>2, <2>3 DEF Holders
  <2>5. CASE activeRequest[e]
    <3>1. /\ queue' = [queue EXCEPT ![e] = q]
          /\ UNCHANGED <<handlers, allocated>>
      BY <1>5, <2>5 DEF RegisterRequest
    <3>2. ASSUME NEW f \in Eids
          PROVE  Queued(f)' = IF f = e THEN Elems(q) ELSE Queued(f)
      <4>1. queue'[f] = IF f = e THEN q ELSE queue[f]
        BY <1>0, <3>1 DEF TypeOK
      <4> QED
        BY <4>1 DEF Queued, Elems
    <3>3. \A f \in Eids : Holders(f)' = Holders(f)
      BY <2>4, <3>1, <3>2 DEF Holders
    <3> QED
      BY <1>1, <2>1, <3>1, <3>3
  <2>6. CASE ~activeRequest[e]
    <3>1. PollEndpointQueue(e, q, {})
      BY <1>5, <2>6 DEF RegisterRequest
    <3>2. \A x \in Elems(q) : Dest[x] = e /\ x \notin handlers
      BY <1>0, <2>1, <2>2, <2>3 DEF QueueInv
    <3>3. \A x \in Elems(q) \cup {} : status'[x] \notin {"ready", "unissued"}
      <4>1. \A x \in Queued(e) : /\ x \in Requests \ {r}
                                 /\ status[x] \in {"accepted", "refused"}
        BY <1>0, <2>1, <2>2 DEF QueueInv
      <4>2. \A x \in Queued(e) : status'[x] \in {"accepted", "refused"}
        BY <2>1, <4>1
      <4> QED
        BY <2>1, <2>3, <4>2
    <3>4. \A f \in Eids : IdsInv(allocated[f], Holders(f), iid)
      BY DEF AllIds
    <3> QED
      BY <1>0, <2>1, <2>3, <2>4, <3>1, <3>2, <3>3, <3>4, PollIds DEF AllIds
  <2> QED
    BY <2>5, <2>6
\* Steps that poll an endpoint's queue as it is.
<1>6. ASSUME NEW e \in Eids, NEW done \in SUBSET handlers,
             PollEndpointQueue(e, queue[e], done), iid' = iid,
             \A r \in done : Dest[r] = e,
             \A r \in done : status'[r] \notin {"ready", "unissued"},
             \A r \in Requests \ done : status'[r] = status[r]
      PROVE  AllIds'
  <2>1. \A x \in Elems(queue[e]) : /\ x \in Requests \ done
                                   /\ Dest[x] = e /\ x \notin handlers
                                   /\ status[x] \in {"accepted", "refused"}
    BY <1>0, <1>6 DEF QueueInv
  <2>2. ASSUME NEW f \in Eids
        PROVE  Holders(f) =
                 {x \in Requests :
                    /\ Dest[x] = f
                    /\ \/ status'[x] \in {"ready", "unissued"}
                       \/ x \in handlers
                       \/ x \in (IF f = e THEN Elems(queue[e]) ELSE Queued(f))}
    BY <1>0, <1>6 DEF Holders
  <2>3. \A x \in Elems(queue[e]) \cup done : status'[x] \notin {"ready", "unissued"}
    BY <1>6, <2>1
  <2>4. Distinct(queue[e]) /\ queue[e] \in Seq(Requests)
    BY <1>0 DEF QueueInv
  <2>5. \A f \in Eids : IdsInv(allocated[f], Holders(f), iid)
    BY DEF AllIds
  <2> QED
    BY <1>0, <1>6, <2>1, <2>2, <2>3, <2>4, <2>5, PollIds DEF AllIds
<1>7. ASSUME NEW r \in Requests,
             ResponseHandled(r) \/ ExpiryHandled(r) \/ UnregisterActive(r)
      PROVE  AllIds'
  <2>1. /\ r \in handlers
        /\ iid' = iid
        /\ status[r] \in {"accepted", "refused"}
    BY <1>0, <1>7 DEF ResponseHandled, ExpiryHandled, UnregisterActive, EntryInv, Called,
       Serving
  <2>2. /\ status'[r] \notin {"ready", "unissued"}
        /\ \A x \in Requests \ {r} : status'[x] = status[x]
    BY <1>0, <1>7, <2>1 DEF ResponseHandled, ExpiryHandled, UnregisterActive, TypeOK
  <2>3. CASE ResponseHandled(r) \/ UnregisterActive(r)
    <3>1. PollEndpointQueue(Dest[r], queue[Dest[r]], {r})
      BY <2>3 DEF ResponseHandled, UnregisterActive
    <3>2. /\ Dest[r] \in Eids
          /\ {r} \in SUBSET handlers
          /\ \A x \in {r} : Dest[x] = Dest[r] /\ status'[x] \notin {"ready", "unissued"}
          /\ \A x \in Requests \ {r} : status'[x] = status[x]
      BY <1>0, <2>1, <2>2
    <3> QED
      BY <1>6, <2>1, <3>1, <3>2
  <2>4. CASE ExpiryHandled(r)
    <3>1. PollEndpointQueue(Dest[r], queue[Dest[r]], {}) /\ status' = status
      BY <2>4 DEF ExpiryHandled
    <3>2. Dest[r] \in Eids /\ {} \in SUBSET handlers
      BY <1>0
    <3> QED
      BY <1>6, <2>1, <3>1, <3>2
  <2> QED
    BY <1>7, <2>3, <2>4
<1>8. ASSUME NEW r \in Requests, RemoveRequestEntry(r)
      PROVE  AllIds'
  <2>1. /\ r \in handlers /\ handlers' = handlers \ {r}
        /\ allocated' = [allocated EXCEPT ![Dest[r]] = @ \ {iid[r]}]
        /\ UNCHANGED <<iid, status, queue>>
    BY <1>0, <1>8 DEF RemoveRequestEntry, EntryInv, Called
  <2>2. /\ status[r] \in {"accepted", "refused"}
        /\ \A f \in Eids : r \notin Queued(f)
    BY <1>0, <2>1 DEF EntryInv, QueueInv
  <2>3. ASSUME NEW f \in Eids
        PROVE  /\ Holders(f)' = Holders(f) \ {r}
               /\ r \in Holders(f) <=> Dest[r] = f
    <3>1. Queued(f)' = Queued(f)
      BY <2>1 DEF Queued
    <3> QED
      BY <1>0, <2>1, <2>2, <3>1 DEF Holders
  <2>4. ASSUME NEW f \in Eids
        PROVE  IdsInv(allocated'[f], Holders(f)', iid')
    <3>1. IdsInv(allocated[f], Holders(f), iid)
      BY DEF AllIds
    <3>2. allocated'[f] = IF f = Dest[r] THEN allocated[f] \ {iid[r]} ELSE allocated[f]
      BY <1>0, <2>1 DEF TypeOK
    <3> QED
      BY <2>1, <2>3, <3>1, <3>2 DEF IdsInv
  <2> QED
    BY <2>4 DEF AllIds
\* A status changes among those with which a request holds an id, or among those
\* with which it does not.
<1>9. ASSUME NEW r \in Requests, NEW s \in Statuses,
             status' = [status EXCEPT ![r] = s],
             status[r] \in {"ready", "unissued"} <=> s \in {"ready", "unissued"},
             UNCHANGED <<allocated, iid, queue, handlers>>
      PROVE  AllIds'
  <2>1. /\ status'[r] = s
        /\ \A x \in Requests \ {r} : status'[x] = status[x]
    BY <1>0, <1>9 DEF TypeOK
  <2>2. \A f \in Eids : Holders(f)' = Holders(f)
    BY <1>9, <2>1 DEF Holders, Queued
  <2> QED
    BY <1>1, <1>9, <2>2
<1>10. ASSUME NEW r \in Requests, StartStopped(r)
       PROVE  AllIds'
  BY <1>9, <1>10 DEF StartStopped, Statuses
<1>11. ASSUME NEW r \in Requests, UnregisterUnknown(r)
       PROVE  AllIds'
  BY <1>9, <1>11 DEF UnregisterUnknown, MayStop, Statuses
<1>12. ASSUME NEW r \in Requests,
              \/ HandleResponse(r) \/ InstanceIdExpiry(r) \/ RetryTimeout(r)
              \/ UnregisterQueued(r)
       PROVE  AllIds'
  <2>1. UNCHANGED <<allocated, iid, status, queue, handlers>>
    BY <1>12 DEF HandleResponse, InstanceIdExpiry, RetryTimeout, UnregisterQueued
  <2> QED
    BY <1>1, <1>2, <2>1
<1> QED
  BY <1>3, <1>4, <1>5, <1>7, <1>8, <1>10, <1>11, <1>12 DEF Next

\* The instance id database and the Handler agree at all times: no id leaks, none
\* is freed twice, no two live requests of an endpoint share one.
THEOREM IdsAccountedForHolds == Spec => []IdsAccountedFor
<1>1. IndInv /\ AllIds => IdsAccountedFor
  BY DEF IndInv, EntryInv, AllIds, IdsInv, IdsAccountedFor, Called, Serving
<1> QED
  BY <1>1, InitIds, NextIds, IndInvHolds, PTL DEF Spec

-----------------------------------------------------------------------------
(* The refinement mapping *)

\* How far a request got, from what its caller knows (s), the calls of its handler
\* (n), whether it has an entry in handlers (h) and whether it is queued (w).
Phase(s, n, h, w) ==
  IF s = "cancelled" THEN "withdrawn"
  ELSE IF n > 0 THEN "answered"
  ELSE IF h THEN "onWire"
  ELSE IF w THEN "waiting"
  ELSE IF s \in {"accepted", "refused"} THEN "dropped"
  ELSE "new"

LEMMA QueuedElems == \A e \in Eids : Queued(e) = Elems(queue[e])
  BY DEF Queued, Elems

\* servicePhase, request by request.
PhaseInv ==
  servicePhase = [r \in Requests |-> Phase(status[r], replies[r], r \in handlers,
                                           r \in Elems(queue[Dest[r]]))]

LEMMA PhaseOfRequest == TypeOK => PhaseInv
<1> SUFFICES ASSUME TypeOK, NEW r \in Requests
             PROVE  servicePhase[r] = Phase(status[r], replies[r], r \in handlers,
                                            r \in Elems(queue[Dest[r]]))
  BY DEF PhaseInv, servicePhase
<1>0. Queued(Dest[r]) = Elems(queue[Dest[r]])
  BY QueuedElems
<1>1. replies[r] \in Nat
  BY DEF TypeOK
<1>2. CASE status[r] = "cancelled"
  BY <1>0, <1>2 DEF servicePhase, Phase
<1>3. CASE status[r] # "cancelled" /\ replies[r] > 0
  BY <1>0, <1>3 DEF servicePhase, Phase
<1>4. CASE status[r] # "cancelled" /\ replies[r] = 0 /\ r \in handlers
  BY <1>0, <1>4 DEF servicePhase, Phase
<1>5. CASE status[r] # "cancelled" /\ replies[r] = 0 /\ r \notin handlers
  BY <1>0, <1>5 DEF servicePhase, Phase
<1> QED
  BY <1>1, <1>2, <1>3, <1>4, <1>5

\* Endpoint e polls the queue q after `done` left the handlers: what the requests
\* are before the front of q is sent or dropped.
Before(e, q, done) ==
  [r \in Requests |-> Phase(status'[r], replies'[r], r \in handlers \ done,
                            IF Dest[r] = e THEN r \in Elems(q)
                                           ELSE r \in Elems(queue[Dest[r]]))]

\* pollEndpointQueue is Advance: the endpoint was released by whatever took `done`
\* out of the handlers or deferred its removal.
LEMMA PollAdvances ==
  ASSUME TypeOK, TypeOK', NEW e \in Eids, NEW q \in Seq(Requests),
         NEW done \in SUBSET Requests,
         PollEndpointQueue(e, q, done),
         Distinct(q),
         \A r \in Elems(q) : /\ Dest[r] = e
                             /\ r \notin handlers
                             /\ r \notin removeRequestContainer'
                             /\ status'[r] \in {"accepted", "refused"}
                             /\ replies'[r] = 0,
         \A r \in done : Dest[r] = e,
         \A r \in handlers \ done : Dest[r] = e => r \in removeRequestContainer',
         \A r \in Requests : Dest[r] # e =>
           (r \in removeRequestContainer' <=> r \in removeRequestContainer)
  PROVE  Service!Advance(e, q, Before(e, q, done))
<1> DEFINE ph == Before(e, q, done)
<1>1. /\ handlers \subseteq Requests /\ Dest \in [Requests -> Eids]
      /\ queue \in [Eids -> Seq(Requests)] /\ Elems(q) \subseteq Requests
  BY DEF TypeOK, Elems
<1>2. servicePhase' = [r \in Requests |-> Phase(status'[r], replies'[r],
                                                r \in handlers',
                                                r \in Elems(queue'[Dest[r]]))]
  <2>1. PhaseInv'
    BY PhaseOfRequest, PTL
  <2> QED
    BY <2>1 DEF PhaseInv
\* The two outcomes of a poll for those the endpoint serves then.
<1>3. ASSUME NEW started \in SUBSET Requests, started \subseteq Elems(q),
             handlers' = (handlers \ done) \cup started
      PROVE  serviceWire' = [serviceWire EXCEPT ![e] = started]
  <2>1. Live(e)' = started
    BY <1>1, <1>3 DEF Live
  <2>2. ASSUME NEW f \in Eids, f # e
        PROVE  Live(f)' = Live(f)
    <3>1. \A r \in started \cup done : Dest[r] # f
      BY <1>3, <2>2
    <3> QED
      BY <1>1, <1>3, <2>2, <3>1 DEF Live
  <2> QED
    BY <2>1, <2>2 DEF serviceWire
<1>4. CASE q = <<>> /\ Dispatch(e, q, done, {}, {})
  <2>1. /\ queue' = [queue EXCEPT ![e] = q]
        /\ handlers' = handlers \ done
    BY <1>4 DEF Dispatch
  <2>2. serviceWire' = [serviceWire EXCEPT ![e] = {}]
    BY <2>1, <1>3
  <2>3. ASSUME NEW r \in Requests
        PROVE  servicePhase'[r] = ph[r]
    <3>1. queue'[Dest[r]] = IF Dest[r] = e THEN q ELSE queue[Dest[r]]
      BY <1>1, <2>1
    <3> QED
      BY <1>2, <2>1, <3>1 DEF Before
  <2>4. servicePhase' = ph
    BY <2>3, <1>2 DEF Before
  <2> QED
    BY <1>4, <2>1, <2>2, <2>4 DEF Service!Advance
\* The front of the queue leaves it, sent (started) or dropped.
<1>5. ASSUME q # <<>>, NEW started \in SUBSET {Head(q)},
             queue' = [queue EXCEPT ![e] = Tail(q)],
             handlers' = (handlers \ done) \cup started
      PROVE  /\ serviceWire' = [serviceWire EXCEPT ![e] = started]
             /\ servicePhase' = [ph EXCEPT ![Head(q)] =
                                   IF started = {} THEN "dropped" ELSE "onWire"]
  <2>1. /\ Head(q) \in Requests
        /\ Elems(q) = Elems(Tail(q)) \cup {Head(q)}
        /\ Head(q) \notin Elems(Tail(q))
    BY <1>5, HeadTailElems
  <2>2. serviceWire' = [serviceWire EXCEPT ![e] = started]
    BY <1>3, <1>5, <2>1
  <2>3. \A r \in Requests :
          queue'[Dest[r]] = IF Dest[r] = e THEN Tail(q) ELSE queue[Dest[r]]
    BY <1>1, <1>5
  <2>4. servicePhase'[Head(q)] = IF started = {} THEN "dropped" ELSE "onWire"
    <3>1. /\ Dest[Head(q)] = e /\ Head(q) \notin handlers
          /\ status'[Head(q)] \in {"accepted", "refused"} /\ replies'[Head(q)] = 0
      BY <2>1
    <3>2. Head(q) \in handlers' <=> started # {}
      BY <1>5, <3>1
    <3> QED
      BY <1>2, <2>1, <2>3, <3>1, <3>2 DEF Phase
  <2>5. ASSUME NEW r \in Requests, r # Head(q)
        PROVE  servicePhase'[r] = ph[r]
    <3>1. r \in handlers' <=> r \in handlers \ done
      BY <1>5, <2>5
    <3>2. r \in Elems(queue'[Dest[r]]) <=> IF Dest[r] = e THEN r \in Elems(q)
                                                          ELSE r \in Elems(queue[Dest[r]])
      BY <2>1, <2>3, <2>5
    <3> QED
      BY <1>2, <3>1, <3>2 DEF Before, Phase
  <2>6. DOMAIN servicePhase' = Requests /\ DOMAIN ph = Requests
    BY <1>2 DEF Before
  <2>7. servicePhase' = [x \in Requests |-> servicePhase'[x]]
    BY <1>2
  <2> QED
    BY <2>1, <2>2, <2>4, <2>5, <2>6, <2>7 DEF Before
<1>6. CASE q # <<>> /\ Dispatch(e, q, done, {Head(q)}, {})
  <2>1. /\ queue' = [queue EXCEPT ![e] = Tail(q)]
        /\ handlers' = (handlers \ done) \cup {Head(q)}
    BY <1>6 DEF Dispatch
  <2>2. /\ serviceWire' = [serviceWire EXCEPT ![e] = {Head(q)}]
        /\ servicePhase' = [ph EXCEPT ![Head(q)] = "onWire"]
    BY <1>5, <1>6, <2>1
  <2> QED
    BY <1>6, <2>1, <2>2 DEF Service!Advance
<1>7. CASE q # <<>> /\ Dispatch(e, q, done, {}, {Head(q)})
  <2>1. /\ queue' = [queue EXCEPT ![e] = Tail(q)]
        /\ handlers' = (handlers \ done) \cup {}
    BY <1>7 DEF Dispatch
  <2>2. /\ serviceWire' = [serviceWire EXCEPT ![e] = {}]
        /\ servicePhase' = [ph EXCEPT ![Head(q)] = "dropped"]
    BY <1>5, <1>7, <2>1
  <2> QED
    BY <1>7, <2>1, <2>2 DEF Service!Advance
<1> QED
  BY <1>4, <1>6, <1>7 DEF PollEndpointQueue

-----------------------------------------------------------------------------
(* Initial states and steps *)

LEMMA InitImplements == Init => Service!SInit
<1> SUFFICES ASSUME Init
             PROVE  Service!SInit
  OBVIOUS
<1>1. servicePhase = [r \in Requests |-> "new"]
  <2>1. TypeOK
    BY InitTypeOK
  <2>2. \A e \in Eids : Elems(queue[e]) = {}
    <3>1. Elems(<<>>) = {}
      BY DEF Elems
    <3> QED
      BY <3>1 DEF Init
  <2> QED
    BY <2>1, <2>2, PhaseOfRequest DEF PhaseInv, Init, Phase
<1>2. serviceWire = [e \in Eids |-> {}]
  BY DEF Init, serviceWire, Live
<1> QED
  BY <1>1, <1>2 DEF Init, Service!SInit

LEMMA NextImplements == IndInv /\ IndInv' /\ [Next]_vars => [Service!SNext]_Service!svars
<1> SUFFICES ASSUME IndInv, IndInv', [Next]_vars
             PROVE  [Service!SNext]_Service!svars
  OBVIOUS
<1> USE DEF queueVars, timerVars
<1>0. /\ TypeOK /\ QueueInv /\ EntryInv /\ TimerInv /\ ReplyInv /\ OneOutstanding
      /\ TypeOK'
  BY DEF IndInv
<1>a. /\ servicePhase = [r \in Requests |-> Phase(status[r], replies[r], r \in handlers,
                                                  r \in Elems(queue[Dest[r]]))]
      /\ servicePhase' = [r \in Requests |-> Phase(status'[r], replies'[r], r \in handlers',
                                                  r \in Elems(queue'[Dest[r]]))]
  <2>1. PhaseInv /\ PhaseInv'
    BY <1>0, PhaseOfRequest, PTL
  <2> QED
    BY <2>1 DEF PhaseInv
<1>b. /\ handlers \subseteq Requests
      /\ \A e \in Eids : Elems(queue[e]) \subseteq Requests
      /\ \A r \in Requests : /\ Dest[r] \in Eids /\ replies[r] \in Nat
                             /\ queue[Dest[r]] \in Seq(Requests)
  BY <1>0 DEF TypeOK, Elems
\* Steps the service does not see: nobody's phase changes.
<1>1. ASSUME UNCHANGED queue, UNCHANGED serviceWire,
             \A r \in Requests : servicePhase'[r] = servicePhase[r]
      PROVE  UNCHANGED Service!svars
  <2>1. servicePhase' = servicePhase
    BY <1>1, <1>a
  <2> QED
    BY <1>1, <2>1 DEF Service!svars
<1>2. CASE UNCHANGED vars
  BY <1>1, <1>2, <1>a DEF vars, serviceWire, Live
<1>3. ASSUME NEW r \in Requests, AllocateInstanceId(r) \/ StartStopped(r)
      PROVE  UNCHANGED Service!svars
  <2>1. /\ status[r] \in {"idle", "ready"} /\ status'[r] \in {"ready", "unissued"}
        /\ \A x \in Requests \ {r} : status'[x] = status[x]
        /\ UNCHANGED <<queue, handlers, removeRequestContainer, replies>>
    BY <1>0, <1>3 DEF AllocateInstanceId, StartStopped, TypeOK
  <2> QED
    BY <1>1, <1>a, <2>1 DEF Phase, serviceWire, Live
<1>4. ASSUME NEW r \in Requests, RetryTimeout(r) \/ UnregisterQueued(r)
      PROVE  UNCHANGED Service!svars
  BY <1>1, <1>4, <1>a DEF RetryTimeout, UnregisterQueued, serviceWire, Live
\* A deferred removal: the request was answered before.
<1>5. ASSUME NEW r \in Requests, RemoveRequestEntry(r)
      PROVE  UNCHANGED Service!svars
  <2>1. r \in Called /\ r \in handlers
    BY <1>0, <1>5 DEF RemoveRequestEntry, EntryInv, Called
  <2>2. replies[r] = 1 /\ status[r] # "cancelled"
    BY <1>0, <2>1 DEF ReplyInv, EntryInv
  <2>3. UNCHANGED serviceWire
    BY <1>5 DEF RemoveRequestEntry, serviceWire, Live
  <2> QED
    BY <1>1, <1>5, <1>a, <2>2, <2>3 DEF RemoveRequestEntry, Phase
\* A response or the expiry timer: the handler of the one outstanding is called.
<1>6. ASSUME NEW r \in Requests, HandleResponse(r) \/ InstanceIdExpiry(r)
      PROVE  Service!Answer(r)
  <2>1. r \in handlers /\ r \notin Called
    BY <1>0, <1>6 DEF HandleResponse, InstanceIdExpiry, AwaitsResponse, EventLoop,
       InCallback, TimerInv, Called, Serving
  <2>2. replies[r] = 0 /\ status[r] # "cancelled"
    BY <1>0, <2>1 DEF ReplyInv, EntryInv
  <2>3. /\ replies'[r] = 1
        /\ \A x \in Requests \ {r} : replies'[x] = replies[x]
        /\ UNCHANGED <<queue, handlers, removeRequestContainer, status>>
    BY <1>0, <1>6, <2>2 DEF HandleResponse, InstanceIdExpiry, TypeOK
  <2>4. servicePhase[r] = "onWire" /\ servicePhase'[r] = "answered"
    BY <1>a, <2>1, <2>2, <2>3 DEF Phase
  <2>5. \A x \in Requests \ {r} : servicePhase'[x] = servicePhase[x]
    BY <1>a, <2>3
  <2>6. servicePhase' = [servicePhase EXCEPT ![r] = "answered"]
    BY <1>a, <2>4, <2>5
  <2> QED
    BY <2>3, <2>4, <2>6 DEF Service!Answer, serviceWire, Live
\* What is queued can be polled for.
<1>7. ASSUME NEW e \in Eids
      PROVE  /\ Distinct(queue[e])
             /\ \A x \in Elems(queue[e]) : /\ Dest[x] = e /\ x \in Requests
                                           /\ x \notin handlers
                                           /\ x \notin removeRequestContainer
                                           /\ status[x] \in {"accepted", "refused"}
                                           /\ replies[x] = 0
  BY <1>0, <1>b, <1>7 DEF QueueInv, EntryInv, Called
\* The rest of the two callbacks: the endpoint serves the next request.
<1>8. ASSUME NEW r \in Requests, ResponseHandled(r) \/ ExpiryHandled(r)
      PROVE  Service!Release(r)
  <2> DEFINE e == Dest[r]
  <2>1. r \in Serving /\ r \in Called /\ r \in handlers /\ r \notin removeRequestContainer
    BY <1>0, <1>8 DEF ResponseHandled, ExpiryHandled, EntryInv, Called, Serving
  <2>2. replies[r] = 1 /\ status[r] # "cancelled"
    BY <1>0, <2>1 DEF ReplyInv, EntryInv
  <2>3. servicePhase[r] = "answered"
    BY <1>a, <2>2 DEF Phase
  <2>4. Live(e) = {r}
    BY <1>0, <1>b, <2>1 DEF OneOutstanding, Live
  <2>5. PICK done \in {{}, {r}} :
          /\ PollEndpointQueue(e, queue[e], done)
          /\ removeRequestContainer' = removeRequestContainer \cup ({r} \ done)
          /\ UNCHANGED <<status, replies>>
    BY <1>8 DEF ResponseHandled, ExpiryHandled
  <2>6. \A x \in handlers \ done : Dest[x] = e => x \in removeRequestContainer'
    BY <2>4, <2>5 DEF Live
  <2>7. \A x \in Elems(queue[e]) : /\ Dest[x] = e
                                   /\ x \notin handlers
                                   /\ x \notin removeRequestContainer'
                                   /\ status'[x] \in {"accepted", "refused"}
                                   /\ replies'[x] = 0
    BY <1>7, <1>b, <2>1, <2>5
  <2>8. Service!Advance(e, queue[e], Before(e, queue[e], done))
    <3>1. /\ done \in SUBSET Requests /\ \A x \in done : Dest[x] = e
          /\ e \in Eids /\ queue[e] \in Seq(Requests) /\ Distinct(queue[e])
      BY <1>7, <1>b, <2>5
    <3>2. PollEndpointQueue(e, queue[e], done)
      BY <2>5
    <3>3. \A x \in Requests : Dest[x] # e =>
            (x \in removeRequestContainer' <=> x \in removeRequestContainer)
      BY <2>5
    <3> QED
      BY <1>0, <2>6, <2>7, <3>1, <3>2, <3>3, PollAdvances
  <2>9. Before(e, queue[e], done) = servicePhase
    <3>1. \A x \in Requests \ {r} : x \in handlers \ done <=> x \in handlers
      BY <2>5
    <3>2. \A x \in Requests : Before(e, queue[e], done)[x] = servicePhase[x]
      BY <1>a, <1>b, <2>2, <2>5, <3>1 DEF Before, Phase
    <3> QED
      BY <1>a, <3>2 DEF Before
  <2>10. serviceWire[e] = {r}
    BY <1>b, <2>4 DEF serviceWire
  <2> QED
    BY <2>3, <2>8, <2>9, <2>10 DEF Service!Release
<1>9. ASSUME NEW r \in Requests, RegisterRequest(r)
      PROVE  Service!Submit(r)
  <2> DEFINE e == Dest[r]
             q == Append(queue[e], r)
  <2>1. /\ status[r] = "ready" /\ replies[r] = 0 /\ r \notin handlers
        /\ r \notin Elems(queue[e])
    BY <1>0, <1>9, <1>b DEF RegisterRequest, ReplyInv, EntryInv, QueueInv
  <2>2. servicePhase[r] = "new"
    BY <1>a, <1>b, <2>1 DEF Phase
  <2>3. /\ q \in Seq(Requests)
        /\ Elems(q) = Elems(queue[e]) \cup {r}
        /\ Distinct(q)
    BY <1>7, <1>b, <2>1, AppendElems
  <2>4. /\ status'[r] \in {"accepted", "refused"}
        /\ \A x \in Requests \ {r} : status'[x] = status[x]
        /\ UNCHANGED <<removeRequestContainer, replies>>
    BY <1>0, <1>9 DEF RegisterRequest, TypeOK
  <2>5. CASE activeRequest[e]
    <3>1. queue' = [queue EXCEPT ![e] = q] /\ UNCHANGED handlers
      BY <1>9, <2>5 DEF RegisterRequest, PushBack
    <3>2. serviceWire[e] # {} /\ UNCHANGED serviceWire
      BY <1>0, <1>b, <2>4, <2>5, <3>1 DEF OneOutstanding, serviceWire, Live
    <3>3. queue'[e] = q /\ \A f \in Eids \ {e} : queue'[f] = queue[f]
      BY <1>0, <1>b, <3>1 DEF TypeOK
    <3>4. servicePhase'[r] = "waiting"
      BY <1>a, <1>b, <2>1, <2>3, <2>4, <3>1, <3>3 DEF Phase
    <3>5. \A x \in Requests \ {r} :
            x \in Elems(queue'[Dest[x]]) <=> x \in Elems(queue[Dest[x]])
      BY <1>b, <2>3, <3>3
    <3>6. \A x \in Requests \ {r} : servicePhase'[x] = servicePhase[x]
      BY <1>a, <2>4, <3>1, <3>5
    <3>7. servicePhase' = [servicePhase EXCEPT ![r] = "waiting"]
      BY <1>a, <3>4, <3>6
    <3> QED
      BY <2>2, <3>1, <3>2, <3>7 DEF Service!Submit
  <2>6. CASE ~activeRequest[e]
    <3>1. PollEndpointQueue(e, q, {})
      BY <1>9, <2>6 DEF RegisterRequest, PushBack
    <3>2. Live(e) = {} /\ serviceWire[e] = {}
      BY <1>0, <1>b, <2>6 DEF OneOutstanding, serviceWire
    <3>3. \A x \in handlers : Dest[x] = e => x \in removeRequestContainer'
      BY <2>4, <3>2 DEF Live
    <3>4. r \notin removeRequestContainer'
      BY <1>0, <2>1, <2>4 DEF EntryInv, Called
    <3>5. \A x \in Elems(q) : /\ Dest[x] = e
                              /\ x \notin handlers
                              /\ x \notin removeRequestContainer'
                              /\ status'[x] \in {"accepted", "refused"}
                              /\ replies'[x] = 0
      BY <1>7, <1>b, <2>1, <2>3, <2>4, <3>4
    <3>6. Service!Advance(e, q, Before(e, q, {}))
      BY <1>0, <1>b, <2>3, <2>4, <3>1, <3>3, <3>5, PollAdvances
    <3>7. Before(e, q, {})[r] = "waiting"
      BY <2>1, <2>3, <2>4 DEF Before, Phase
    <3>8. \A x \in Requests \ {r} : Before(e, q, {})[x] = servicePhase[x]
      BY <1>a, <1>b, <2>3, <2>4 DEF Before, Phase
    <3>9. Before(e, q, {}) = [servicePhase EXCEPT ![r] = "waiting"]
      BY <1>a, <3>7, <3>8 DEF Before
    <3> QED
      BY <2>2, <3>2, <3>6, <3>9 DEF Service!Submit
  <2> QED
    BY <2>5, <2>6
<1>10. ASSUME NEW r \in Requests, UnregisterActive(r)
       PROVE  Service!Withdraw(r)
  <2> DEFINE e == Dest[r]
  <2>1. /\ status[r] = "accepted" /\ replies[r] = 0 /\ r \in handlers
        /\ PollEndpointQueue(e, queue[e], {r})
        /\ status'[r] = "cancelled"
        /\ \A x \in Requests \ {r} : status'[x] = status[x]
        /\ UNCHANGED <<removeRequestContainer, replies>>
    BY <1>0, <1>10 DEF UnregisterActive, MayStop, TypeOK
  <2>2. servicePhase[r] = "onWire"
    BY <1>a, <2>1 DEF Phase
  <2>3. r \notin removeRequestContainer
    BY <1>0, <2>1 DEF ReplyInv, Called
  <2>4. Live(e) = {r}
    BY <1>0, <1>b, <2>1, <2>3 DEF OneOutstanding, Live
  <2>5. \A x \in handlers \ {r} : Dest[x] = e => x \in removeRequestContainer'
    BY <2>1, <2>4 DEF Live
  <2>6. \A x \in Elems(queue[e]) : /\ Dest[x] = e
                                   /\ x \notin handlers
                                   /\ x \notin removeRequestContainer'
                                   /\ status'[x] \in {"accepted", "refused"}
                                   /\ replies'[x] = 0
    BY <1>7, <1>b, <2>1
  <2>7. Service!Advance(e, queue[e], Before(e, queue[e], {r}))
    BY <1>0, <1>7, <1>b, <2>1, <2>5, <2>6, PollAdvances
  <2>8. Before(e, queue[e], {r})[r] = "withdrawn"
    BY <2>1 DEF Before, Phase
  <2>9. \A x \in Requests \ {r} : Before(e, queue[e], {r})[x] = servicePhase[x]
    BY <1>a, <1>b, <2>1 DEF Before, Phase
  <2>10. Before(e, queue[e], {r}) = [servicePhase EXCEPT ![r] = "withdrawn"]
    BY <1>a, <2>8, <2>9 DEF Before
  <2> QED
    BY <2>2, <2>7, <2>10 DEF Service!Withdraw
\* A stop for a request that was dropped before it was sent.
<1>11. ASSUME NEW r \in Requests, UnregisterUnknown(r)
       PROVE  Service!Withdraw(r)
  <2>1. /\ status[r] = "accepted" /\ replies[r] = 0 /\ r \notin handlers
        /\ r \notin Elems(queue[Dest[r]])
        /\ status'[r] = "cancelled"
        /\ \A x \in Requests \ {r} : status'[x] = status[x]
        /\ UNCHANGED <<queue, handlers, removeRequestContainer, replies>>
    BY <1>0, <1>b, <1>11, QueuedElems DEF UnregisterUnknown, MayStop, TypeOK
  <2>2. servicePhase[r] = "dropped" /\ servicePhase'[r] = "withdrawn"
    BY <1>a, <2>1 DEF Phase
  <2>3. \A x \in Requests \ {r} : servicePhase'[x] = servicePhase[x]
    BY <1>a, <2>1
  <2>4. servicePhase' = [servicePhase EXCEPT ![r] = "withdrawn"]
    BY <1>a, <2>2, <2>3
  <2> QED
    BY <2>1, <2>2, <2>4 DEF Service!Withdraw, serviceWire, Live
<1> QED
  BY <1>2, <1>3, <1>4, <1>5, <1>6, <1>8, <1>9, <1>10, <1>11 DEF Next, Service!SNext

\* The Handler of requester/handler.hpp keeps the promises of RequestService: it
\* serves the requests to an endpoint in the order of registration, one at a time,
\* and answers each once while it serves it and never after it was withdrawn.
THEOREM ImplementsServiceHolds == Spec => ImplementsService
  BY InitImplements, NextImplements, IndInvHolds, PTL
     DEF Spec, ImplementsService, Service!SSpec

-----------------------------------------------------------------------------
(* No stranded requests *)

\* When sending never fails, a poll leaves an endpoint idle only with an empty queue.
LEMMA PollStrandsNothing ==
  ASSUME ~TransportMayFail, TypeOK, NoStrandedRequest, NEW e \in Eids,
         NEW q \in Seq(Requests), NEW done \in SUBSET Requests,
         PollEndpointQueue(e, q, done)
  PROVE  NoStrandedRequest'
<1>1. CASE q = <<>> /\ Dispatch(e, q, done, {}, {})
  <2>1. /\ queue' = [queue EXCEPT ![e] = <<>>]
        /\ \A f \in Eids \ {e} : activeRequest'[f] = activeRequest[f]
    BY <1>1 DEF Dispatch, TypeOK
  <2> QED
    BY <2>1 DEF TypeOK, NoStrandedRequest
<1>2. CASE q # <<>> /\ Dispatch(e, q, done, {Head(q)}, {})
  <2>1. /\ activeRequest'[e] = TRUE
        /\ \A f \in Eids \ {e} : /\ activeRequest'[f] = activeRequest[f]
                                 /\ queue'[f] = queue[f]
    BY <1>2 DEF Dispatch, TypeOK
  <2> QED
    BY <2>1 DEF NoStrandedRequest
<1> QED
  BY <1>1, <1>2 DEF PollEndpointQueue

\* pollEndpointQueue is called wherever an endpoint becomes free: as long as the
\* transport does not fail, a request waits only behind an outstanding one.
THEOREM NoStrandedRequestHolds ==
  ASSUME ~TransportMayFail
  PROVE  Spec => []NoStrandedRequest
<1>1. Init => NoStrandedRequest
  BY DEF Init, NoStrandedRequest
<1>2. TypeOK /\ NoStrandedRequest /\ [Next]_vars => NoStrandedRequest'
  <2> SUFFICES ASSUME TypeOK, NoStrandedRequest, [Next]_vars
               PROVE  NoStrandedRequest'
    OBVIOUS
  <2> USE DEF queueVars, timerVars
  <2>1. CASE UNCHANGED <<queue, activeRequest>>
    BY <2>1 DEF NoStrandedRequest
  <2>2. ASSUME NEW r \in Requests, RegisterRequest(r)
        PROVE  NoStrandedRequest'
    <3>1. CASE activeRequest[Dest[r]]
      BY <2>2, <3>1 DEF RegisterRequest, TypeOK, NoStrandedRequest
    <3>2. CASE ~activeRequest[Dest[r]]
      <4>1. PollEndpointQueue(Dest[r], PushBack(queue[Dest[r]], r), {})
        BY <2>2, <3>2 DEF RegisterRequest
      <4> QED
        BY <4>1, PollArguments, PollStrandsNothing
    <3> QED
      BY <3>1, <3>2
  <2>3. ASSUME NEW r \in Requests,
               ResponseHandled(r) \/ ExpiryHandled(r) \/ UnregisterActive(r)
        PROVE  NoStrandedRequest'
    <3>1. PICK done \in {{}, {r}} : PollEndpointQueue(Dest[r], queue[Dest[r]], done)
      BY <2>3 DEF ResponseHandled, ExpiryHandled, UnregisterActive
    <3> QED
      BY <3>1, PollArguments, PollStrandsNothing
  <2> QED
    BY <2>1, <2>2, <2>3 DEF Next, vars, AllocateInstanceId, StartStopped, HandleResponse,
       InstanceIdExpiry, RemoveRequestEntry, RetryTimeout, UnregisterQueued,
       UnregisterUnknown
<1> QED
  BY <1>1, <1>2, TypeCorrect, PTL DEF Spec
=============================================================================
