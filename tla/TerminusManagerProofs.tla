------------------------ MODULE TerminusManagerProofs ------------------------
(***************************************************************************)
(* Proofs about TerminusManager, for any endpoints, TIDs and numbers of    *)
(* sensors, types and signals: no TID leaks or is shared, and no timer or  *)
(* polling coroutine outlives its terminus.                                *)
(***************************************************************************)
EXTENDS TerminusManager, FiniteSetTheorems, WellFoundedInduction, NaturalsInduction, TLAPS

\* An end of [Next]_vars with the fairness left out of it.
LEMMA SpecSteps == Spec => Init /\ [][Next]_vars
  BY PTL DEF Spec

\* A set of TIDs has a lowest one.
LEMMA LowestTidIn ==
  ASSUME NEW S \in SUBSET Tids, S # {}
  PROVE  LowestTid(S) \in S
<1>1. S \subseteq Nat
  BY TerminusManagerAssumption
<1> DEFINE Less == {ss \in Nat \X Nat : ss[1] < ss[2]}
<1>2. IsWellFoundedOn(Less, Nat)
  BY NatLessThanWellFounded DEF OpToRel
<1> HIDE DEF Less
<1>3. PICK t \in S : \A u \in S : ~(<<u, t>> \in Less)
  BY <1>1, <1>2, WFMin, Zenon
<1>4. ASSUME NEW u \in S
      PROVE  t <= u
  <2>1. u \in Nat /\ t \in Nat /\ <<u, t>> \notin Less
    BY <1>1, <1>3
  <2> QED
    BY <2>1 DEF Less
<1> QED
  BY <1>4 DEF LowestTid

-----------------------------------------------------------------------------
(* The discovery coroutine *)

\* Where the coroutine is when it does not wait for a response
Executing == {"next", "commands", "snapshot", "request", "initialized"}

Signal == [kind : {"added", "removed", "available", "degraded"}, e : Endpoints]

\* Signals and batches name endpoints.
QueueTypes ==
  /\ signals \in Seq(Signal)
  /\ queuedMctpInfos \in Seq(Seq(Endpoints))

\* The fields of the task
Shape(t) ==
  t = [pc |-> t.pc, i |-> t.i, tid |-> t.tid, e |-> t.e, left |-> t.left,
       failed |-> t.failed, todo |-> t.todo]

\* A task that is not idle works on the front batch of the queue; no event is
\* dispatched between two of its awaits; it waits for GetTID of an endpoint.
TaskInv ==
  /\ QueueTypes
  /\ Shape(task)
  /\ task.i \in Nat
  /\ task.todo \subseteq Tids
  /\ task.pc # "idle" => task.i > 0 /\ queuedMctpInfos # <<>>
  /\ task.pc \in Executing => running = DISCOVERY
  /\ task.pc = "gotTid" => task.i <= Len(Front)

\* The task when it is done and when it starts on a batch
LEMMA NoTaskFields ==
  Shape(NoTask) /\ NoTask.pc = "idle" /\ NoTask.i = 0 /\ NoTask.todo = {}
  BY DEF NoTask, Shape

LEMMA NewTaskFields ==
  Shape(NewTask) /\ NewTask.pc = "next" /\ NewTask.i = 1 /\ NewTask.todo = {}
<1>1. ASSUME NEW t, Shape(t), NEW u, u = [t EXCEPT !.pc = "next", !.i = 1]
      PROVE  Shape(u) /\ u.pc = "next" /\ u.i = 1 /\ u.todo = t.todo
  BY <1>1 DEF Shape
<1> QED
  BY <1>1, NoTaskFields, Zenon DEF NewTask

LEMMA InitTaskInv == Init => TaskInv
<1> SUFFICES ASSUME Init
             PROVE  TaskInv
  OBVIOUS
<1>1. QueueTypes
  BY TerminusManagerAssumption DEF Init, QueueTypes
<1>2. /\ task = NewTask /\ running = DISCOVERY
      /\ queuedMctpInfos # <<>>
  BY DEF Init
<1> QED
  BY <1>1, <1>2, NewTaskFields DEF TaskInv

\* A batch is appended to the queue, by a handler in the event loop.
LEMMA DiscoverTaskInv ==
  ASSUME TaskInv, QueueTypes', running = NONE, NEW batch \in Seq(Endpoints),
         Discover(batch)
  PROVE  TaskInv'
<1>1. /\ queuedMctpInfos' # <<>>
      /\ queuedMctpInfos # <<>> => Head(queuedMctpInfos') = Head(queuedMctpInfos)
  BY DEF Discover, TaskInv, QueueTypes
<1>2. task.pc \notin Executing
  BY TerminusManagerAssumption DEF TaskInv
<1>3. CASE task.pc = "idle"
  <2>1. task' = NewTask /\ running' = DISCOVERY
    BY <1>3 DEF Discover
  <2> QED
    BY <1>1, <2>1, NewTaskFields DEF TaskInv
<1>4. CASE task.pc # "idle"
  BY <1>1, <1>2, <1>4 DEF Discover, TaskInv, Front
<1> QED
  BY <1>3, <1>4

\* What a step of the coroutine leaves when it goes on, or waits, with the same
\* batch
Continues ==
  /\ Shape(task')
  /\ task'.i \in Nat \ {0}
  /\ task'.todo \subseteq Tids
  /\ task'.pc \in Executing => running' = DISCOVERY
  /\ task'.pc = "gotTid" => task'.i <= Len(Front)

LEMMA SameBatch ==
  ASSUME TaskInv, UNCHANGED <<signals, queuedMctpInfos>>, task.pc # "idle", Continues
  PROVE  TaskInv'
  BY DEF TaskInv, QueueTypes, Front, Continues

\* A signal that is dropped and a removal that ends the process change nothing else.
LEMMA NothingHandled ==
  ASSUME SignalDropped \/ \E current : RemovalCrashes(current)
  PROVE  /\ UNCHANGED <<termini, mctpInfoTable, mctpInfoAvailTable, published,
                        existingMctpInfos, queuedMctpInfos, task, running>>
         /\ UNCHANGED sensorVars
         /\ crashed \in BOOLEAN => crashed' \in BOOLEAN
         /\ crashed => crashed'
<1>1. CASE SignalDropped
  BY <1>1 DEF SignalDropped, Handles, tableVars, sensorVars
<1>2. CASE \E current : RemovalCrashes(current)
  BY <1>2 DEF RemovalCrashes, Handles, tableVars, sensorVars
<1> QED
  BY <1>1, <1>2

LEMMA NextTaskInv == TaskInv /\ [Next]_vars => TaskInv'
<1> SUFFICES ASSUME TaskInv, [Next]_vars
             PROVE  TaskInv'
  OBVIOUS
<1> USE DEF discoveryVars, tableVars, sensorVars
<1>1. CASE UNCHANGED <<signals, queuedMctpInfos, task, running>>
  BY <1>1 DEF TaskInv, QueueTypes, Front
<1>2. CASE Mctpd
  <2>1. QueueTypes'
    <3>1. PICK e \in Endpoints, k \in {"added", "removed", "available", "degraded"} :
            signals' = Append(signals, [kind |-> k, e |-> e])
      BY <1>2 DEF Mctpd
    <3>2. [kind |-> k, e |-> e] \in Signal
      BY DEF Signal
    <3> QED
      BY <1>2, <3>1, <3>2 DEF Mctpd, TaskInv, QueueTypes
  <2> QED
    BY <1>2, <2>1 DEF Mctpd, TaskInv, Front
<1>3. CASE SignalNext
  <2>1. /\ running = NONE /\ signals # <<>> /\ signals' = Tail(signals)
        /\ Head(signals).e \in Endpoints
    <3>1. \E kind : Handles(kind)
      BY <1>3, Zenon DEF SignalNext, DiscoverEndpoints, RemoveEndpoints, PropertiesChanged,
         RemovalCrashes, SignalDropped
    <3>2. running = NONE /\ signals # <<>> /\ signals' = Tail(signals)
      BY <3>1 DEF Handles, Idle
    <3>3. Head(signals) \in Signal
      BY <3>2 DEF TaskInv, QueueTypes
    <3> QED
      BY <3>2, <3>3 DEF Signal
  <2>2. CASE \E e \in Endpoints : Discover(<<e>>)
    <3>1. PICK e \in Endpoints : Discover(<<e>>)
      BY <2>2
    <3>2. <<e>> \in Seq(Endpoints)
      OBVIOUS
    <3>3. QueueTypes'
      BY <2>1, <3>1, <3>2 DEF Discover, TaskInv, QueueTypes
    <3> QED
      BY <2>1, <3>1, <3>2, <3>3, DiscoverTaskInv
  <2>3. CASE UNCHANGED <<queuedMctpInfos, task, running>>
    <3>1. QueueTypes'
      BY <2>1, <2>3 DEF TaskInv, QueueTypes
    <3> QED
      BY <2>3, <3>1 DEF TaskInv, Front
  <2> QED
    BY <1>3, <2>1, <2>2, <2>3 DEF SignalNext, DiscoverEndpoints, RemoveEndpoints,
       PropertiesChanged, RemovalCrashes, SignalDropped, getAddedMctpInfos
<1>4. CASE SensorStep
  <2>1. running # DISCOVERY
    <3>1. \E t \in Tids : running \in {t, NONE}
      BY <1>4, Zenon DEF SensorStep, SensorNext, DoSensorPolling, PollStart, PollSensor,
         EventConcludes, ReadingConcludes
    <3> QED
      BY <3>1, TerminusManagerAssumption
  <2> QED
    BY <1>4, <2>1 DEF SensorStep, TaskInv, QueueTypes, Front
<1>a. ASSUME task.pc # "idle"
      PROVE  task.i \in Nat \ {0} /\ task.todo \subseteq Tids /\ Shape(task)
  BY <1>a DEF TaskInv
\* How the steps of the coroutine end
<1>5. ASSUME task.pc # "idle", NEW t, InitFailed(t)
      PROVE  Continues
  <2>1. /\ task' = [task EXCEPT !.pc = "next", !.i = @ + 1, !.failed = TRUE]
        /\ running' = DISCOVERY
    BY <1>5 DEF InitFailed
  <2> QED
    <3>1. Shape(task') /\ task'.pc = "next" /\ task'.i = task.i + 1 /\ task'.todo = task.todo
      BY <1>a, <1>5, <2>1 DEF Shape
    <3> QED
      BY <1>a, <1>5, <2>1, <3>1 DEF Continues
<1>6. ASSUME task.pc # "idle", InitSucceeded
      PROVE  Continues
  <2>1. /\ task' = [task EXCEPT !.pc = "next", !.i = @ + 1,
                                !.failed = @ \/ ToTid(Front[task.i]) = {}]
        /\ running' = DISCOVERY
    BY <1>6 DEF InitSucceeded
  <2> QED
    <3>1. Shape(task') /\ task'.pc = "next" /\ task'.i = task.i + 1 /\ task'.todo = task.todo
      BY <1>a, <1>6, <2>1 DEF Shape
    <3> QED
      BY <1>a, <1>6, <2>1, <3>1 DEF Continues
<1>7. ASSUME task.pc # "idle", NEW pc \in {"gotTid", "setTid", "types", "versions"}, NEW t,
             pc = "gotTid" => task.i <= Len(Front), WaitFor(pc, t)
      PROVE  Continues
  BY <1>a, <1>7 DEF WaitFor, Executing, Continues, Shape
<1>8. ASSUME task.pc # "idle", NEW t, NEW table, AskTypes(t, table)
      PROVE  Continues
  BY <1>5, <1>7, <1>8 DEF AskTypes
<1>10. CASE NextEndpoint
  <2>1. task.pc # "idle" /\ UNCHANGED <<signals, queuedMctpInfos>> /\ running = DISCOVERY
    BY <1>10 DEF NextEndpoint, Runs, Step
  <2>2. Len(Front) \in Nat /\ task.i \in Nat
    BY <2>1 DEF TaskInv, QueueTypes, Front
  <2>3. CASE task.i > Len(Front)
    <3>1. /\ task' = [task EXCEPT !.pc = "snapshot",
                                  !.todo = {t \in Tids : termini[t] # "absent"}]
          /\ UNCHANGED running
      BY <1>10, <2>3 DEF NextEndpoint
    <3> QED
      BY <1>a, <2>1, <3>1, SameBatch DEF Continues, Shape
  <2>4. CASE InitSucceeded
    BY <1>6, <2>1, <2>4, SameBatch
  <2>5. CASE task.i <= Len(Front) /\ WaitFor("gotTid", 0)
    BY <1>7, <2>1, <2>5, SameBatch
  <2> QED
    BY <1>10, <2>2, <2>3, <2>4, <2>5 DEF NextEndpoint
<1>11. CASE NextType
  <2>1. task.pc = "commands" /\ UNCHANGED <<signals, queuedMctpInfos>> /\ running = DISCOVERY
    BY <1>11 DEF NextType, Runs, Step
  <2>2. CASE InitSucceeded
    BY <1>6, <2>1, <2>2, SameBatch
  <2>3. CASE WaitFor("versions", task.tid)
    BY <1>7, <2>1, <2>3, SameBatch
  <2>4. CASE task' = [task EXCEPT !.left = @ - 1] /\ UNCHANGED running
    <3>1. Continues
      BY <1>a, <2>1, <2>4 DEF Continues, Shape
    <3> QED
      BY <2>1, <3>1, SameBatch
  <2> QED
    BY <1>11, <2>2, <2>3, <2>4 DEF NextType
<1>12. ASSUME NEW tid, GotTid(tid)
       PROVE  TaskInv'
  <2>1. task.pc # "idle" /\ UNCHANGED <<signals, queuedMctpInfos>>
    BY <1>12 DEF GotTid, Resumes, Step
  <2>2. CASE \E t : InitFailed(t)
    BY <1>5, <2>1, <2>2, SameBatch
  <2>3. CASE InitSucceeded
    BY <1>6, <2>1, <2>3, SameBatch
  <2>4. CASE \E t, table : AskTypes(t, table)
    BY <1>8, <2>1, <2>4, SameBatch
  <2>5. CASE \E t : WaitFor("setTid", t)
    BY <1>7, <2>1, <2>5, SameBatch
  <2> QED
    BY <1>12, <2>2, <2>3, <2>4, <2>5, Zenon DEF GotTid
<1>13. ASSUME NEW ok, SetTidDone(ok)
       PROVE  TaskInv'
  <2>1. task.pc # "idle" /\ UNCHANGED <<signals, queuedMctpInfos>>
    BY <1>13 DEF SetTidDone, Resumes, Step
  <2> QED
    BY <1>5, <1>6, <1>8, <1>13, <2>1, SameBatch, Zenon DEF SetTidDone
<1>14. ASSUME NEW ok, TypesDone(ok)
       PROVE  TaskInv'
  <2>1. task.pc # "idle" /\ UNCHANGED <<signals, queuedMctpInfos>>
    BY <1>14 DEF TypesDone, Resumes, Step
  <2>2. CASE InitFailed(task.tid)
    BY <1>5, <2>1, <2>2, SameBatch
  <2>3. ASSUME NEW n, task' = [task EXCEPT !.pc = "commands", !.left = n],
               running' = DISCOVERY
        PROVE  TaskInv'
    <3>1. Continues
      BY <1>a, <2>1, <2>3 DEF Continues, Shape
    <3> QED
      BY <2>1, <3>1, SameBatch
  <2> QED
    BY <1>14, <2>2, <2>3, Zenon DEF TypesDone
<1>15. ASSUME NEW answered, VersionsDone(answered)
       PROVE  TaskInv'
  <2>1. task.pc = "versions" /\ UNCHANGED <<signals, queuedMctpInfos>>
    BY <1>15 DEF VersionsDone, Resumes, Step
  <2>2. CASE UNCHANGED <<task, running>>
    BY <2>1, <2>2 DEF TaskInv, QueueTypes, Front
  <2>3. CASE task' = [task EXCEPT !.pc = "commands", !.left = @ - 1] /\ running' = DISCOVERY
    <3>1. Continues
      BY <1>a, <2>1, <2>3 DEF Continues, Shape
    <3> QED
      BY <2>1, <3>1, SameBatch
  <2> QED
    BY <1>15, <2>2, <2>3 DEF VersionsDone
<1>16. CASE NextTerminus
  <2>1. task.pc = "snapshot" /\ UNCHANGED signals /\ running = DISCOVERY
    BY <1>16 DEF NextTerminus, Runs, Step
  <2> DEFINE todo == {t \in task.todo : termini[t] = "discovered"}
  <2>2. CASE todo # {}
    <3>1. task' = [task EXCEPT !.pc = "request", !.todo = todo, !.tid = LowestTid(todo),
                               !.i = 1]
          /\ UNCHANGED <<queuedMctpInfos, running>>
      BY <1>16, <2>2 DEF NextTerminus
    <3>2. todo \subseteq Tids
      BY <1>a, <2>1
    <3> HIDE DEF todo
    <3>3. Continues
      <4>1. Shape(task') /\ task'.i = 1 /\ task'.pc = "request" /\ task'.todo = todo
        BY <1>a, <2>1, <3>1 DEF Shape
      <4> QED
        BY <2>1, <3>1, <3>2, <4>1 DEF Continues
    <3> QED
      BY <2>1, <3>1, <3>3, SameBatch
  <2>3. CASE todo = {}
    <3>1. queuedMctpInfos # <<>>
      BY <2>1 DEF TaskInv
    <3> DEFINE queue == IF Kept THEN queuedMctpInfos ELSE Tail(queuedMctpInfos)
               then == IF Kept THEN AfterFailure
                       ELSE IF queue = <<>> THEN NoTask ELSE NewTask
    <3>a. /\ queuedMctpInfos' = queue /\ task' = then
          /\ running' = IF then.pc = "idle" THEN NONE ELSE DISCOVERY
      BY <1>16, <2>3, Zenon DEF NextTerminus
    <3>2. /\ queuedMctpInfos' = IF Kept THEN queuedMctpInfos ELSE Tail(queuedMctpInfos)
          /\ task' = IF Kept THEN AfterFailure
                     ELSE IF queuedMctpInfos' = <<>> THEN NoTask ELSE NewTask
          /\ running' = IF task'.pc = "idle" THEN NONE ELSE DISCOVERY
      BY <3>a
    <3>3. QueueTypes'
      <4> DEFINE S == Seq(Endpoints)
      <4>1. queuedMctpInfos \in Seq(S)
        BY DEF TaskInv, QueueTypes
      <4> HIDE DEF S
      <4>2. queuedMctpInfos' \in Seq(S)
        BY <3>1, <3>2, <4>1
      <4> QED
        BY <2>1, <4>2 DEF TaskInv, QueueTypes, S
    <3>4. CASE task' = NoTask
      BY <3>3, <3>4, NoTaskFields DEF TaskInv, Executing
    <3>5. CASE task' = NewTask /\ queuedMctpInfos' # <<>>
      BY <3>2, <3>3, <3>5, NewTaskFields DEF TaskInv
    <3> QED
      BY <3>2, <3>4, <3>5 DEF AfterFailure
  <2> QED
    BY <2>2, <2>3
<1>17. CASE InitRequest
  <2>1. /\ task.pc = "request" /\ UNCHANGED <<signals, queuedMctpInfos>>
        /\ running = DISCOVERY
    BY <1>17 DEF InitRequest, Runs, Step
  <2>2. CASE task.i > Len(InitSteps)
    <3>1. task' = [task EXCEPT !.pc = "initialized"] /\ UNCHANGED running
      BY <1>17, <2>2 DEF InitRequest
    <3>2. Continues
      BY <1>a, <2>1, <3>1 DEF Continues, Shape
    <3> QED
      BY <2>1, <3>2, SameBatch
  <2>3. CASE ~(task.i > Len(InitSteps))
    <3>1. InitSteps[task.i] \in {"fru", "pdr", "buffer", "receiver"}
      BY <1>a, <2>1, <2>3 DEF InitSteps
    <3>2. CASE task' = [task EXCEPT !.pc = InitSteps[task.i], !.e = mctpInfoTable[task.tid]]
      <4>1. Continues
        BY <1>a, <2>1, <3>1, <3>2 DEF Continues, Shape, Executing
      <4> QED
        BY <2>1, <4>1, SameBatch
    <3>3. CASE task' = [task EXCEPT !.pc = "snapshot", !.todo = @ \ {task.tid}]
               /\ UNCHANGED running
      <4>1. Continues
        BY <1>a, <2>1, <3>3 DEF Continues, Shape
      <4> QED
        BY <2>1, <4>1, SameBatch
    <3>4. CASE task' = [task EXCEPT !.i = @ + 1] /\ UNCHANGED running
      <4>1. Continues
        BY <1>a, <2>1, <3>4 DEF Continues, Shape
      <4> QED
        BY <2>1, <4>1, SameBatch
    <3> QED
      BY <1>17, <2>3, <3>2, <3>3, <3>4 DEF InitRequest
  <2> QED
    BY <2>2, <2>3
<1>18. ASSUME NEW ok, NEW answered, InitResponse(ok, answered)
       PROVE  TaskInv'
  <2>1. task.pc # "idle" /\ UNCHANGED <<signals, queuedMctpInfos>> /\ running' = DISCOVERY
    BY <1>18 DEF InitResponse, Resumes, Step, InitSteps
  <2>2. CASE task' = [task EXCEPT !.pc = "snapshot", !.e = NONE, !.todo = @ \ {task.tid}]
    <3>1. Continues
      BY <1>a, <2>1, <2>2 DEF Continues, Shape
    <3> QED
      BY <2>1, <3>1, SameBatch
  <2>3. CASE task' = [task EXCEPT !.pc = "request", !.i = @ + 1, !.e = NONE]
    <3>1. Continues
      <4>1. Shape(task') /\ task'.pc = "request" /\ task'.i = task.i + 1 /\ task'.todo = task.todo
        BY <1>a, <2>1, <2>3 DEF Shape
      <4> QED
        BY <1>a, <2>1, <4>1 DEF Continues
    <3> QED
      BY <2>1, <3>1, SameBatch
  <2> QED
    BY <1>18, <2>2, <2>3, Zenon DEF InitResponse
<1>19. CASE Initialized
  <2>1. /\ task.pc # "idle" /\ UNCHANGED <<signals, queuedMctpInfos>> /\ running' = DISCOVERY
        /\ task' = [task EXCEPT !.pc = "snapshot", !.todo = @ \ {task.tid}]
    BY <1>19 DEF Initialized, Runs, Step
  <2>2. Continues
    BY <1>a, <2>1 DEF Continues, Shape
  <2> QED
    BY <2>1, <2>2, SameBatch
<1>20. CASE \E t \in Tids : MessagePollEvent(t)
  BY <1>1, <1>20 DEF MessagePollEvent
<1>21. CASE UNCHANGED vars
  BY <1>1, <1>21 DEF vars
<1> QED
  BY <1>2, <1>3, <1>4, <1>10, <1>11, <1>12, <1>13, <1>14, <1>15, <1>16, <1>17, <1>18,
     <1>19, <1>20, <1>21, Zenon DEF Next, DiscoveryNext

-----------------------------------------------------------------------------
(* The tables *)

TableTypes ==
  /\ termini \in [Tids -> {"absent", "discovered", "initialized"}]
  /\ mctpInfoTable \in [Tids -> Endpoints \cup {NONE}]

\* An endpoint has one TID at most, and what has a terminus is mapped.
OneToOne ==
  /\ \A t, u \in Tids :
       mctpInfoTable[t] # NONE /\ mctpInfoTable[t] = mctpInfoTable[u] => t = u
  /\ \A t \in Tids : termini[t] # "absent" => mctpInfoTable[t] # NONE

\* A mapped TID without a terminus is the one that initMctpTerminus is setting up.
Claimed ==
  \A t \in Tids : mctpInfoTable[t] # NONE /\ termini[t] = "absent" =>
                    task.pc \in {"setTid", "types"} /\ task.tid = t

\* What the frames of the coroutine rely on when they resume: the endpoint whose TID
\* is asked for has none here, the TID that is set up still waits for its terminus,
\* and the terminus that initTerminus is about to ask is in the map.
Pending ==
  /\ task.pc = "gotTid" => ToTid(Front[task.i]) = {}
  /\ task.pc \in {"setTid", "types"} => /\ task.tid \in Tids
                                        /\ termini[task.tid] = "absent"
                                        /\ mctpInfoTable[task.tid] # NONE
  /\ task.pc \in {"request", "initialized", "fru", "pdr", "buffer", "receiver"} =>
       task.tid \in Tids
  /\ task.pc \in {"request", "initialized"} => termini[task.tid] # "absent"

TableInv ==
  /\ TableTypes
  /\ OneToOne
  /\ Claimed
  /\ Pending

LEMMA InitTableInv == Init => TableInv
<1> SUFFICES ASSUME Init
             PROVE  TableInv
  OBVIOUS
<1>1. /\ \A t \in Tids : termini[t] = "absent" /\ mctpInfoTable[t] = NONE
      /\ TableTypes
  BY DEF Init, TableTypes
<1>2. task.pc = "next"
  BY NewTaskFields DEF Init
<1> QED
  BY <1>1, <1>2 DEF TableInv, OneToOne, Claimed, Pending

\* The tables and the coroutine stay as they are.
LEMMA Unaffected ==
  ASSUME TableInv, UNCHANGED <<termini, mctpInfoTable, task>>,
         task.pc = "gotTid" => Front' = Front
  PROVE  TableInv'
  BY DEF TableInv, TableTypes, OneToOne, Claimed, Pending, ToTid

\* The coroutine moves where nothing is pending.
LEMMA Settled ==
  ASSUME TableInv, UNCHANGED <<termini, mctpInfoTable>>,
         task.pc \notin {"setTid", "types"},
         task'.pc \notin {"gotTid", "setTid", "types", "request", "initialized"},
         task'.pc \in {"fru", "pdr", "buffer", "receiver"} => task'.tid \in Tids
  PROVE  TableInv'
  BY DEF TableInv, TableTypes, OneToOne, Claimed, Pending

\* initMctpTerminus gives the TID it claimed back.
LEMMA Failed ==
  ASSUME TableInv, TaskInv, task.pc # "idle", NEW t, InitFailed(t),
         \A u \in Tids : u = t => termini[u] = "absent",
         task.pc \in {"setTid", "types"} => t = task.tid
  PROVE  TableInv'
<1>1. /\ task' = [task EXCEPT !.pc = "next", !.i = @ + 1, !.failed = TRUE]
      /\ mctpInfoTable' = [u \in Tids |-> IF u = t THEN NONE ELSE mctpInfoTable[u]]
      /\ UNCHANGED termini
  BY DEF InitFailed, unmapTids
<1>2. task'.pc = "next"
  BY <1>1 DEF TaskInv, Shape
<1>3. TableTypes' /\ OneToOne'
  BY <1>1 DEF TableInv, TableTypes, OneToOne
<1>4. Claimed' /\ Pending'
  BY <1>1, <1>2 DEF TableInv, TableTypes, Claimed, Pending
<1> QED
  BY <1>3, <1>4 DEF TableInv

\* An endpoint without a TID is given one that is free.
LEMMA Stored ==
  ASSUME TableInv, task.pc = "gotTid", NEW e \in Endpoints, ToTid(e) = {},
         NEW t \in Tids, mctpInfoTable[t] = NONE, UNCHANGED termini,
         mctpInfoTable' = storeTerminusInfo(e, t),
         task'.pc \in {"setTid", "types"}, task'.tid = t
  PROVE  TableInv'
<1>1. /\ mctpInfoTable' = [mctpInfoTable EXCEPT ![t] = e]
      /\ mctpInfoTable \in [Tids -> Endpoints \cup {NONE}]
  BY DEF storeTerminusInfo, TableInv, TableTypes
<1>2. /\ mctpInfoTable'[t] = e
      /\ \A u \in Tids \ {t} : mctpInfoTable'[u] = mctpInfoTable[u]
      /\ \A u \in Tids : mctpInfoTable[u] # e
      /\ e # NONE /\ termini[t] = "absent"
  BY <1>1, TerminusManagerAssumption DEF ToTid, TableInv, OneToOne
<1>3. TableTypes'
  BY <1>1 DEF TableInv, TableTypes
<1>4. OneToOne'
  BY <1>2 DEF TableInv, OneToOne
<1>5. Claimed'
  BY <1>2 DEF TableInv, Claimed
<1>6. Pending'
  BY <1>2 DEF Pending
<1> QED
  BY <1>3, <1>4, <1>5, <1>6 DEF TableInv

LEMMA NextTableInv == TaskInv /\ TableInv /\ [Next]_vars => TableInv'
<1> SUFFICES ASSUME TaskInv, TableInv, [Next]_vars
             PROVE  TableInv'
  OBVIOUS
<1> USE DEF discoveryVars, tableVars, sensorVars
<1>0. /\ TableTypes /\ OneToOne /\ Claimed /\ Pending /\ Shape(task)
      /\ task.pc # "idle" => task.i \in Nat \ {0} /\ queuedMctpInfos # <<>>
      /\ task.todo \subseteq Tids
  BY DEF TableInv, TaskInv
<1>1. ASSUME task.pc # "idle", ~(task.i > Len(Front))
      PROVE  Front[task.i] \in Endpoints
  <2>1. Front \in Seq(Endpoints)
    BY <1>1 DEF TaskInv, QueueTypes, Front
  <2> QED
    BY <1>0, <1>1, <2>1
<1>2. ASSUME InitSucceeded, task.pc \notin {"setTid", "types"}
      PROVE  TableInv'
  <2>1. /\ task' = [task EXCEPT !.pc = "next", !.i = @ + 1,
                                !.failed = @ \/ ToTid(Front[task.i]) = {}]
        /\ UNCHANGED <<termini, mctpInfoTable>>
    BY <1>2 DEF InitSucceeded
  <2>2. task'.pc = "next"
    BY <1>0, <2>1 DEF Shape
  <2> QED
    BY <1>2, <2>1, <2>2, Settled
<1>3. CASE Mctpd \/ SensorStep \/ (\E t \in Tids : MessagePollEvent(t)) \/ UNCHANGED vars
  <2>1. UNCHANGED <<termini, mctpInfoTable, task, queuedMctpInfos>>
    BY <1>3, Zenon DEF Mctpd, SensorStep, SensorNext, DoSensorPolling, PollStart, PollSensor,
       EventConcludes, ReadingConcludes, MessagePollEvent, vars
  <2> QED
    BY <2>1, Unaffected DEF Front
<1>4. CASE DiscoverEndpoints \/ PropertiesChanged
  <2>1. UNCHANGED <<termini, mctpInfoTable>>
    BY <1>4, Zenon DEF DiscoverEndpoints, PropertiesChanged, Discover, UpdateAvailability
  <2>2. CASE \E batch : queuedMctpInfos' = Append(queuedMctpInfos, batch) /\ UNCHANGED task
    <3>1. task.pc # "idle" => Head(queuedMctpInfos') = Head(queuedMctpInfos)
      BY <1>0, <2>2 DEF TaskInv, QueueTypes
    <3> QED
      BY <2>1, <2>2, <3>1, Unaffected DEF Front
  <2>3. CASE UNCHANGED <<task, queuedMctpInfos>>
    BY <2>1, <2>3, Unaffected DEF Front
  <2>4. CASE task.pc = "idle" /\ task' = NewTask
    BY <2>1, <2>4, NewTaskFields, Settled
  <2> QED
    BY <1>4, <2>2, <2>3, <2>4, Zenon DEF DiscoverEndpoints, PropertiesChanged, Discover
<1>5. CASE \E current : RemoveEndpoints(current)
  <2>0. PICK current : RemoveEndpoints(current)
    BY <1>5
  <2>1. /\ running = NONE /\ UNCHANGED <<task, queuedMctpInfos>>
        /\ removeMctpTerminus(existingMctpInfos \ current)
    BY <2>0 DEF RemoveEndpoints, Handles, Idle
  <2> DEFINE gone == UNION {Found(e) : e \in existingMctpInfos \ current}
  <2>2. /\ termini' = [t \in Tids |-> IF t \in gone THEN "absent" ELSE termini[t]]
        /\ mctpInfoTable' = [t \in Tids |-> IF t \in gone THEN NONE ELSE mctpInfoTable[t]]
    BY <2>1 DEF removeMctpTerminus, unmapTids, Gone
  <2>3. \A t \in gone : termini[t] # "absent"
    BY DEF Found
  <2>4. task.pc \notin Executing
    BY <2>1, TerminusManagerAssumption DEF TaskInv
  <2> HIDE DEF gone
  <2>5. TableTypes' /\ OneToOne'
    BY <1>0, <2>2 DEF TableTypes, OneToOne
  <2>6. Claimed'
    BY <1>0, <2>1, <2>2 DEF TableTypes, Claimed
  <2>7. \A e : e # NONE /\ ToTid(e) = {} => ToTid(e)' = {}
    BY <2>2 DEF ToTid
  <2>8. task.pc = "gotTid" => Front[task.i] # NONE
    <3>1. ASSUME task.pc = "gotTid"
          PROVE  Front[task.i] \in Endpoints
      <4>1. ~(task.i > Len(Front))
        <5>1. Len(Front) \in Nat
          BY <1>0, <3>1 DEF TaskInv, QueueTypes, Front
        <5> QED
          BY <1>0, <3>1, <5>1 DEF TaskInv
      <4> QED
        BY <1>1, <3>1, <4>1
    <3> QED
      BY <3>1, TerminusManagerAssumption
  <2>9. Pending'
    BY <1>0, <2>1, <2>2, <2>3, <2>4, <2>7, <2>8 DEF Pending, Front, ToTid, Executing
  <2> QED
    BY <2>5, <2>6, <2>9 DEF TableInv
<1>17. CASE SignalDropped \/ \E current : RemovalCrashes(current)
  BY <1>17, NothingHandled, Unaffected DEF Front
<1>6. CASE NextEndpoint
  <2>1. task.pc = "next" /\ UNCHANGED <<queuedMctpInfos, termini, mctpInfoTable>>
    BY <1>6 DEF NextEndpoint, Runs, Step
  <2>2. CASE task.i > Len(Front)
    <3>1. task' = [task EXCEPT !.pc = "snapshot", !.todo = {t \in Tids : termini[t] # "absent"}]
      BY <1>6, <2>2 DEF NextEndpoint
    <3>2. task'.pc = "snapshot"
      BY <1>0, <3>1 DEF Shape
    <3> QED
      BY <2>1, <3>2, Settled
  <2>3. CASE InitSucceeded
    BY <1>2, <2>1, <2>3
  <2>4. CASE ~(task.i > Len(Front)) /\ Found(Front[task.i]) = {} /\ WaitFor("gotTid", 0)
    <3>1. task' = [task EXCEPT !.pc = "gotTid", !.tid = 0]
      BY <2>4 DEF WaitFor
    <3>2. task'.pc = "gotTid" /\ task'.i = task.i
      BY <1>0, <3>1 DEF Shape
    <3>3. Front[task.i] # NONE
      BY <1>1, <2>1, <2>4, TerminusManagerAssumption
    <3>4. ToTid(Front[task.i]) = {}
      BY <1>0, <2>1, <2>4, <3>3 DEF ToTid, Found, Claimed
    <3>5. TableTypes' /\ OneToOne' /\ Claimed'
      BY <1>0, <2>1 DEF TableTypes, OneToOne, Claimed
    <3>6. Pending'
      BY <2>1, <3>2, <3>4 DEF Pending, Front, ToTid
    <3> QED
      BY <3>5, <3>6 DEF TableInv
  <2> QED
    BY <1>6, <2>2, <2>3, <2>4 DEF NextEndpoint
<1>7. CASE NextType
  <2>1. task.pc = "commands"
    BY <1>7 DEF NextType, Runs, Step
  <2>2. CASE InitSucceeded
    BY <1>2, <2>1, <2>2
  <2>3. CASE WaitFor("versions", task.tid) /\ UNCHANGED <<termini, mctpInfoTable>>
    <3>1. task' = [task EXCEPT !.pc = "versions", !.tid = task.tid]
      BY <2>3 DEF WaitFor
    <3>2. task'.pc = "versions"
      BY <1>0, <3>1 DEF Shape
    <3> QED
      BY <2>1, <2>3, <3>2, Settled
  <2>4. CASE task' = [task EXCEPT !.left = @ - 1] /\ UNCHANGED <<termini, mctpInfoTable>>
    <3>1. task'.pc = "commands"
      BY <1>0, <2>1, <2>4 DEF Shape
    <3> QED
      BY <2>1, <2>4, <3>1, Settled
  <2> QED
    BY <1>7, <2>2, <2>3, <2>4 DEF NextType
\* getPLDMTypes of a TID that is set up, or is stored with the request
<1>8. ASSUME NEW t \in Tids, termini[t] = "absent", NEW table, AskTypes(t, table),
             \/ task.pc = "setTid" /\ t = task.tid /\ table = mctpInfoTable
             \/ /\ task.pc = "gotTid" /\ mctpInfoTable[t] = NONE
                /\ \E e \in Endpoints : ToTid(e) = {} /\ table = storeTerminusInfo(e, t)
      PROVE  TableInv'
  <2>1. CASE InitFailed(t)
    BY <1>8, <2>1, Failed
  <2>2. CASE mctpInfoTable' = table /\ WaitFor("types", t) /\ UNCHANGED termini
    <3>1. task' = [task EXCEPT !.pc = "types", !.tid = t]
      BY <2>2 DEF WaitFor
    <3>2. task'.pc = "types" /\ task'.tid = t
      BY <1>0, <3>1 DEF Shape
    <3>3. CASE task.pc = "setTid" /\ t = task.tid /\ table = mctpInfoTable
      BY <1>0, <2>2, <3>2, <3>3 DEF TableInv, TableTypes, OneToOne, Claimed, Pending
    <3>4. CASE task.pc = "gotTid" /\ mctpInfoTable[t] = NONE
      BY <1>8, <2>2, <3>2, <3>4, Stored
    <3> QED
      BY <1>8, <3>3, <3>4
  <2> QED
    BY <1>8, <2>1, <2>2 DEF AskTypes
<1>9. ASSUME NEW tid \in TidAnswers, GotTid(tid)
      PROVE  TableInv'
  <2> DEFINE e == Front[task.i]
  <2>1. task.pc = "gotTid"
    BY <1>9 DEF GotTid, Resumes, Step
  <2>2. e \in Endpoints
    <3>1. Len(Front) \in Nat
      BY <1>0, <2>1 DEF TaskInv, QueueTypes, Front
    <3>2. ~(task.i > Len(Front))
      BY <1>0, <2>1, <3>1 DEF TaskInv
    <3> QED
      BY <1>1, <2>1, <3>2
  <2>3. ToTid(e) = {}
    BY <1>0, <2>1 DEF Pending
  <2>4. CASE InitFailed(NONE)
    BY <2>1, <2>4, Failed, TerminusManagerAssumption
  <2>5. CASE InitSucceeded
    BY <1>2, <2>1, <2>5
  <2>6. CASE /\ tid \in Tids /\ termini[tid] = "absent" /\ mctpInfoTable[tid] = NONE
             /\ AskTypes(tid, storeTerminusInfo(e, tid))
    BY <1>8, <2>1, <2>2, <2>3, <2>6
  <2>7. CASE /\ mapTid(e) # NONE
             /\ mctpInfoTable' = storeTerminusInfo(e, mapTid(e))
             /\ WaitFor("setTid", mapTid(e))
             /\ UNCHANGED termini
    <3> DEFINE free == {t \in Tids : mctpInfoTable[t] = NONE}
    <3>1. free # {} /\ mapTid(e) = LowestTid(free)
      BY <2>3, <2>7 DEF mapTid
    <3>2. mapTid(e) \in free
      BY <3>1, LowestTidIn
    <3>3. task' = [task EXCEPT !.pc = "setTid", !.tid = mapTid(e)]
      BY <2>7 DEF WaitFor
    <3>4. task'.pc = "setTid" /\ task'.tid = mapTid(e)
      BY <1>0, <3>3 DEF Shape
    <3> QED
      BY <2>1, <2>2, <2>3, <2>7, <3>2, <3>4, Stored
  <2> QED
    BY <1>9, <2>4, <2>5, <2>6, <2>7, Zenon DEF GotTid
<1>10. ASSUME NEW ok, SetTidDone(ok)
       PROVE  TableInv'
  <2>1. task.pc = "setTid" /\ task.tid \in Tids /\ termini[task.tid] = "absent"
    BY <1>0, <1>10 DEF SetTidDone, Resumes, Step, Pending
  <2>2. InitFailed(task.tid) \/ AskTypes(task.tid, mctpInfoTable)
    BY <1>10, <2>1, Zenon DEF SetTidDone
  <2> QED
    BY <1>8, <2>1, <2>2, Failed
<1>11. ASSUME NEW ok, TypesDone(ok)
       PROVE  TableInv'
  <2>1. task.pc = "types" /\ task.tid \in Tids /\ termini[task.tid] = "absent"
        /\ mctpInfoTable[task.tid] # NONE
    BY <1>0, <1>11 DEF TypesDone, Resumes, Step, Pending
  <2>2. CASE InitFailed(task.tid)
    BY <2>1, <2>2, Failed
  <2>3. ASSUME NEW n, task' = [task EXCEPT !.pc = "commands", !.left = n],
               termini' = [termini EXCEPT ![task.tid] = "discovered"],
               UNCHANGED mctpInfoTable
        PROVE  TableInv'
    <3>1. task'.pc = "commands"
      BY <1>0, <2>3 DEF Shape
    <3>2. /\ termini'[task.tid] = "discovered"
          /\ \A t \in Tids \ {task.tid} : termini'[t] = termini[t]
      BY <1>0, <2>1, <2>3 DEF TableTypes
    <3>3. TableTypes' /\ OneToOne'
      BY <1>0, <2>1, <2>3, <3>2 DEF TableTypes, OneToOne
    <3>4. Claimed' /\ Pending'
      BY <1>0, <2>1, <2>3, <3>1, <3>2 DEF Claimed, Pending
    <3> QED
      BY <3>3, <3>4 DEF TableInv
  <2> QED
    BY <1>11, <2>2, <2>3, Zenon DEF TypesDone
<1>12. ASSUME NEW answered, VersionsDone(answered)
       PROVE  TableInv'
  <2>1. task.pc = "versions" /\ UNCHANGED <<queuedMctpInfos, termini, mctpInfoTable>>
    BY <1>12 DEF VersionsDone, Resumes, Step
  <2>2. CASE UNCHANGED task
    BY <2>1, <2>2, Unaffected
  <2>3. CASE task' = [task EXCEPT !.pc = "commands", !.left = @ - 1]
    <3>1. task'.pc = "commands"
      BY <1>0, <2>3 DEF Shape
    <3> QED
      BY <2>1, <3>1, Settled
  <2> QED
    BY <1>12, <2>2, <2>3 DEF VersionsDone
<1>13. CASE NextTerminus
  <2>1. task.pc = "snapshot" /\ UNCHANGED <<termini, mctpInfoTable>>
    BY <1>13 DEF NextTerminus, Runs, Step
  <2> DEFINE todo == {t \in task.todo : termini[t] = "discovered"}
  <2>2. CASE todo # {}
    <3>1. task' = [task EXCEPT !.pc = "request", !.todo = todo, !.tid = LowestTid(todo),
                               !.i = 1]
      BY <1>13, <2>2 DEF NextTerminus
    <3>2. LowestTid(todo) \in todo
      BY <1>0, <2>2, LowestTidIn
    <3>3. task'.pc = "request" /\ task'.tid = LowestTid(todo)
      <4> HIDE DEF todo
      <4> QED
        BY <1>0, <3>1 DEF Shape
    <3>4. TableTypes' /\ OneToOne' /\ Claimed'
      BY <1>0, <2>1 DEF TableTypes, OneToOne, Claimed
    <3>5. Pending'
      BY <1>0, <2>1, <3>2, <3>3 DEF Pending
    <3> QED
      BY <3>4, <3>5 DEF TableInv
  <2>3. CASE todo = {}
    <3>1. task' = NoTask \/ task' = NewTask
      BY <1>13, <2>3, Zenon DEF NextTerminus, AfterFailure
    <3>2. task'.pc \in {"idle", "next"}
      BY <3>1, NoTaskFields, NewTaskFields
    <3> QED
      BY <2>1, <3>2, Settled
  <2> QED
    BY <2>2, <2>3
<1>14. CASE InitRequest
  <2>1. task.pc = "request" /\ UNCHANGED <<queuedMctpInfos, termini, mctpInfoTable>>
    BY <1>14 DEF InitRequest, Runs, Step
  <2>2. task.tid \in Tids /\ termini[task.tid] # "absent"
    BY <1>0, <2>1 DEF Pending
  \* The coroutine stays with its terminus.
  <2>3. ASSUME task'.pc \in {"request", "initialized"}, task'.tid = task.tid
        PROVE  TableInv'
    BY <1>0, <2>1, <2>2, <2>3 DEF TableInv, TableTypes, OneToOne, Claimed, Pending
  <2>4. CASE task.i > Len(InitSteps)
    <3>1. task' = [task EXCEPT !.pc = "initialized"]
      BY <1>14, <2>4 DEF InitRequest
    <3>2. task'.pc = "initialized" /\ task'.tid = task.tid
      BY <1>0, <3>1 DEF Shape
    <3> QED
      BY <2>3, <3>2
  <2>5. CASE ~(task.i > Len(InitSteps))
    <3>1. InitSteps[task.i] \in {"fru", "pdr", "buffer", "receiver"}
      BY <1>0, <2>1, <2>5 DEF InitSteps
    <3>2. CASE task' = [task EXCEPT !.pc = InitSteps[task.i], !.e = mctpInfoTable[task.tid]]
      <4>1. task'.pc = InitSteps[task.i] /\ task'.tid = task.tid
        BY <1>0, <3>2 DEF Shape
      <4> QED
        BY <2>1, <2>2, <3>1, <4>1, Settled
    <3>3. CASE task' = [task EXCEPT !.pc = "snapshot", !.todo = @ \ {task.tid}]
      <4>1. task'.pc = "snapshot"
        BY <1>0, <3>3 DEF Shape
      <4> QED
        BY <2>1, <4>1, Settled
    <3>4. CASE task' = [task EXCEPT !.i = @ + 1]
      <4>1. task'.pc = "request" /\ task'.tid = task.tid
        BY <1>0, <2>1, <3>4 DEF Shape
      <4> QED
        BY <2>3, <4>1
    <3> QED
      BY <1>14, <2>5, <3>2, <3>3, <3>4 DEF InitRequest
  <2> QED
    BY <2>4, <2>5
<1>15. ASSUME NEW ok, NEW answered, InitResponse(ok, answered)
       PROVE  TableInv'
  <2>1. task.pc \in {"fru", "pdr", "buffer", "receiver"} /\ UNCHANGED <<termini, mctpInfoTable>>
    <3>1. PICK k \in DOMAIN InitSteps : task.pc = InitSteps[k]
      BY <1>15 DEF InitResponse, Resumes, Step
    <3> QED
      BY <1>15, <3>1 DEF InitResponse, InitSteps
  <2>2. task.tid \in Tids
    BY <1>0, <2>1 DEF Pending
  <2>3. CASE task' = [task EXCEPT !.pc = "snapshot", !.e = NONE, !.todo = @ \ {task.tid}]
    <3>1. task'.pc = "snapshot"
      BY <1>0, <2>3 DEF Shape
    <3> QED
      BY <2>1, <3>1, Settled
  <2>4. CASE /\ termini[task.tid] # "absent"
             /\ task' = [task EXCEPT !.pc = "request", !.i = @ + 1, !.e = NONE]
    <3>1. task'.pc = "request" /\ task'.tid = task.tid
      BY <1>0, <2>4 DEF Shape
    <3> QED
      BY <1>0, <2>1, <2>2, <2>4, <3>1 DEF TableInv, TableTypes, OneToOne, Claimed, Pending
  <2> QED
    BY <1>15, <2>3, <2>4, Zenon DEF InitResponse
<1>16. CASE Initialized
  <2>1. /\ task.pc = "initialized" /\ UNCHANGED mctpInfoTable
        /\ termini' = [termini EXCEPT ![task.tid] = "initialized"]
        /\ task' = [task EXCEPT !.pc = "snapshot", !.todo = @ \ {task.tid}]
    BY <1>16 DEF Initialized, Runs, Step
  <2>2. task.tid \in Tids /\ termini[task.tid] # "absent"
    BY <1>0, <2>1 DEF Pending
  <2>3. task'.pc = "snapshot"
    BY <1>0, <2>1 DEF Shape
  <2>4. TableTypes' /\ OneToOne'
    BY <1>0, <2>1, <2>2 DEF TableTypes, OneToOne
  <2>5. Claimed' /\ Pending'
    BY <1>0, <2>1, <2>2, <2>3 DEF TableTypes, Claimed, Pending
  <2> QED
    BY <2>4, <2>5 DEF TableInv
<1> QED
  BY <1>3, <1>4, <1>5, <1>6, <1>7, <1>9, <1>10, <1>11, <1>12, <1>13, <1>14, <1>15, <1>16,
     <1>17, Zenon DEF Next, SignalNext, DiscoveryNext

LEMMA InvHolds == Spec => [](TaskInv /\ TableInv)
  BY SpecSteps, InitTaskInv, NextTaskInv, InitTableInv, NextTableInv, PTL

\* No TID leaks and none is shared, at whatever await of initMctpTerminus an endpoint
\* fails or goes away: between two batches the mapped TIDs are those of the termini,
\* one to an endpoint.
THEOREM TidsAccountedForHolds == Spec => []TidsAccountedFor
<1>1. TaskInv /\ TableInv => TidsAccountedFor
  <2> SUFFICES ASSUME TaskInv, TableInv
               PROVE  TidsAccountedFor
    OBVIOUS
  <2>1. ASSUME NEW e \in Endpoints
        PROVE  Cardinality(ToTid(e)) <= 1
    <3>1. e # NONE
      BY TerminusManagerAssumption
    <3>2. CASE ToTid(e) = {}
      BY <3>2, FS_EmptySet
    <3>3. CASE ToTid(e) # {}
      <4>1. PICK t \in Tids : t \in ToTid(e)
        BY <3>3 DEF ToTid
      <4>2. ToTid(e) = {t}
        BY <3>1, <4>1 DEF TableInv, OneToOne, ToTid
      <4>3. Cardinality(ToTid(e)) = 1
        BY <4>2, FS_Singleton, Zenon
      <4> QED
        BY <4>3
    <3> QED
      BY <3>2, <3>3
  <2>2. ASSUME task.pc \in {"idle", "snapshot"}, NEW t \in Tids
        PROVE  (termini[t] # "absent") <=> (mctpInfoTable[t] # NONE)
    BY <2>2 DEF TableInv, OneToOne, Claimed
  <2> QED
    BY <2>1, <2>2 DEF TidsAccountedFor
<1> QED
  BY <1>1, InvHolds, PTL

-----------------------------------------------------------------------------
(* Polling *)

SensorTypes ==
  /\ sensorPollTimers = [t \in Tids |-> sensorPollTimers[t]]
  /\ pollTask = [t \in Tids |-> pollTask[t]]

\* A step of SensorManager concerns a terminus that is polled already.
LEMMA SensorStepPolls ==
  ASSUME SensorTypes, PolledOnlyWhileManaged, SensorNext
  PROVE  SensorTypes' /\ PolledOnlyWhileManaged'
<1> USE DEF sensorVars, NoPoll
<1>1. ASSUME NEW t \in Tids, termini[t] # "absent", UNCHANGED termini,
             \/ UNCHANGED sensorPollTimers
             \/ sensorPollTimers' = [sensorPollTimers EXCEPT ![t] = "stopped"],
             \/ UNCHANGED pollTask
             \/ \E p : pollTask' = [pollTask EXCEPT ![t] = p]
      PROVE  SensorTypes' /\ PolledOnlyWhileManaged'
  <2>1. \A u \in Tids \ {t} : /\ sensorPollTimers'[u] = sensorPollTimers[u]
                              /\ pollTask'[u] = pollTask[u]
    BY <1>1 DEF SensorTypes
  <2> QED
    BY <1>1, <2>1 DEF SensorTypes, PolledOnlyWhileManaged
<1>2. ASSUME NEW t \in Tids, DoSensorPolling(t)
      PROVE  SensorTypes' /\ PolledOnlyWhileManaged'
  <2>1. termini[t] # "absent"
    BY <1>2 DEF DoSensorPolling, PolledOnlyWhileManaged
  <2> QED
    BY <1>1, <1>2, <2>1 DEF DoSensorPolling, Goto
<1>3. ASSUME NEW t \in Tids, pollTask[t].pc # "none"
      PROVE  termini[t] # "absent"
  BY <1>3 DEF PolledOnlyWhileManaged
<1>4. ASSUME NEW t \in Tids, PollStart(t)
      PROVE  SensorTypes' /\ PolledOnlyWhileManaged'
  <2>1. termini[t] # "absent" /\ UNCHANGED termini
    BY <1>3, <1>4 DEF PollStart
  <2> QED
    BY <1>1, <1>4, <2>1 DEF PollStart, Goto, Stopped
<1>5. ASSUME NEW t \in Tids, NEW due, PollSensor(t, due)
      PROVE  SensorTypes' /\ PolledOnlyWhileManaged'
  <2>1. termini[t] # "absent" /\ UNCHANGED termini
    BY <1>3, <1>5 DEF PollSensor
  <2> QED
    BY <1>1, <1>5, <2>1 DEF PollSensor, Goto, Stopped
<1>6. ASSUME NEW t \in Tids, NEW slow, NEW answered, EventConcludes(t, slow, answered)
      PROVE  SensorTypes' /\ PolledOnlyWhileManaged'
  <2>1. termini[t] # "absent" /\ UNCHANGED termini
    BY <1>3, <1>6 DEF EventConcludes
  <2> QED
    BY <1>1, <1>6, <2>1 DEF EventConcludes, Goto, Stopped
<1>7. ASSUME NEW t \in Tids, NEW slow, NEW answered, ReadingConcludes(t, slow, answered)
      PROVE  SensorTypes' /\ PolledOnlyWhileManaged'
  <2>1. termini[t] # "absent" /\ UNCHANGED termini
    BY <1>3, <1>7 DEF ReadingConcludes
  <2> QED
    BY <1>1, <1>7, <2>1 DEF ReadingConcludes, Goto
<1> QED
  BY <1>2, <1>4, <1>5, <1>6, <1>7, Zenon DEF SensorNext

LEMMA PolledInvHolds == Spec => [](SensorTypes /\ PolledOnlyWhileManaged)
<1> DEFINE Inv == SensorTypes /\ PolledOnlyWhileManaged
<1>1. Init => Inv
  BY DEF Init, SensorInit, SensorTypes, PolledOnlyWhileManaged
<1>2. TableInv /\ TaskInv /\ Inv /\ [Next]_vars => Inv'
  <2> SUFFICES ASSUME TableInv, TaskInv, SensorTypes, PolledOnlyWhileManaged, [Next]_vars
               PROVE  SensorTypes' /\ PolledOnlyWhileManaged'
    OBVIOUS
  <2> USE DEF discoveryVars, tableVars, sensorVars
  <2>0. termini \in [Tids -> {"absent", "discovered", "initialized"}]
    BY DEF TableInv, TableTypes
  \* Nothing is polled that was not, or that is removed.
  <2>1. ASSUME UNCHANGED <<sensorPollTimers, pollTask>>,
               \A t \in Tids : termini'[t] = "absent" => termini[t] = "absent"
        PROVE  SensorTypes' /\ PolledOnlyWhileManaged'
    BY <2>1 DEF SensorTypes, PolledOnlyWhileManaged
  <2>2. CASE SensorStep
    BY <2>2, SensorStepPolls DEF SensorStep
  <2>3. CASE \E current : RemoveEndpoints(current)
    <3>0. PICK current : RemoveEndpoints(current)
      BY <2>3
    <3> DEFINE gone == UNION {Found(e) : e \in existingMctpInfos \ current}
    <3>1. /\ StopPolling(gone)
          /\ termini' = [t \in Tids |-> IF t \in gone THEN "absent" ELSE termini[t]]
      BY <3>0 DEF RemoveEndpoints, removeMctpTerminus, Gone
    <3>2. /\ sensorPollTimers' = [t \in Tids |-> IF t \in gone THEN "none"
                                                 ELSE sensorPollTimers[t]]
          /\ pollTask' = [t \in Tids |-> IF t \in gone THEN NoPoll ELSE pollTask[t]]
      BY <3>1 DEF StopPolling
    <3> HIDE DEF gone
    <3> QED
      BY <3>1, <3>2 DEF SensorTypes, PolledOnlyWhileManaged
  <2>4. CASE PropertiesChanged
    <3>1. UNCHANGED <<termini, pollTask>>
      BY <2>4, Zenon DEF PropertiesChanged, UpdateAvailability, Discover
    <3>2. CASE UNCHANGED sensorPollTimers
      BY <2>1, <3>1, <3>2
    <3>3. CASE \E t : sensorPollTimers' = StartedTimer(t)
      <4>1. PICK t : sensorPollTimers' = StartedTimer(t)
        BY <3>3
      <4>2. \A u \in Tids : sensorPollTimers'[u] \in {"stopped", "running"} =>
                              sensorPollTimers[u] \in {"stopped", "running"}
        BY <4>1 DEF StartedTimer, SensorTypes
      <4>3. sensorPollTimers' = [u \in Tids |-> sensorPollTimers'[u]]
        BY <4>1 DEF StartedTimer, SensorTypes
      <4> QED
        BY <3>1, <4>2, <4>3 DEF SensorTypes, PolledOnlyWhileManaged
    <3> QED
      BY <2>4, <3>2, <3>3, Zenon DEF PropertiesChanged, UpdateAvailability, Discover
  <2>5. CASE Initialized
    <3>1. /\ task.tid \in Tids
          /\ termini' = [termini EXCEPT ![task.tid] = "initialized"]
          /\ StartPolling(task.tid)
      BY <2>5 DEF Initialized, Runs, Step, TableInv, Pending
    <3>2. CASE UNCHANGED sensorVars
      BY <2>0, <2>1, <3>1, <3>2
    <3>3. CASE /\ sensorPollTimers' = [sensorPollTimers EXCEPT ![task.tid] = "running"]
               /\ UNCHANGED pollTask
      <4>1. /\ termini'[task.tid] = "initialized"
            /\ \A t \in Tids \ {task.tid} : /\ termini'[t] = termini[t]
                                            /\ sensorPollTimers'[t] = sensorPollTimers[t]
        BY <2>0, <3>1, <3>3 DEF SensorTypes
      <4> QED
        BY <3>1, <3>3, <4>1 DEF SensorTypes, PolledOnlyWhileManaged
    <3> QED
      BY <3>1, <3>2, <3>3 DEF StartPolling
  <2>6. ASSUME NEW ok, TypesDone(ok)
        PROVE  SensorTypes' /\ PolledOnlyWhileManaged'
    <3>1. UNCHANGED <<sensorPollTimers, pollTask>>
      BY <2>6, Zenon DEF TypesDone, InitFailed
    <3>2. termini' = termini \/ termini' = [termini EXCEPT ![task.tid] = "discovered"]
      BY <2>6, Zenon DEF TypesDone, InitFailed
    <3> QED
      BY <2>0, <2>1, <3>1, <3>2
  <2>7. CASE UNCHANGED <<termini, sensorPollTimers, pollTask>>
    BY <2>1, <2>7
  <2>8. ASSUME NEW t, NEW table, AskTypes(t, table)
        PROVE  UNCHANGED <<termini, sensorPollTimers, pollTask>>
    BY <2>8, Zenon DEF AskTypes, InitFailed, WaitFor
  <2>9. ASSUME NEW tid, GotTid(tid)
        PROVE  UNCHANGED <<termini, sensorPollTimers, pollTask>>
    BY <2>8, <2>9, Zenon DEF GotTid, InitFailed, InitSucceeded, WaitFor
  <2>10. ASSUME NEW ok, SetTidDone(ok)
         PROVE  UNCHANGED <<termini, sensorPollTimers, pollTask>>
    BY <2>8, <2>10, Zenon DEF SetTidDone, InitFailed, InitSucceeded
  <2>11. CASE \/ NextEndpoint \/ NextType \/ NextTerminus \/ InitRequest
              \/ \E ok : VersionsDone(ok)
              \/ \E ok, answered : InitResponse(ok, answered)
              \/ Mctpd \/ DiscoverEndpoints
              \/ \E t \in Tids : MessagePollEvent(t)
              \/ UNCHANGED vars
    <3>1. UNCHANGED <<termini, sensorPollTimers, pollTask>>
      BY <2>11, Zenon DEF NextEndpoint, NextType, NextTerminus, InitRequest, VersionsDone,
         InitResponse, InitSucceeded, WaitFor, Mctpd, DiscoverEndpoints, Discover,
         MessagePollEvent, vars
    <3> QED
      BY <2>7, <3>1
  <2>12. CASE SignalDropped \/ \E current : RemovalCrashes(current)
    BY <2>1, <2>12, NothingHandled
  <2> QED
    BY <2>2, <2>3, <2>4, <2>5, <2>6, <2>7, <2>9, <2>10, <2>11, <2>12, Zenon DEF Next, SignalNext,
       DiscoveryNext
<1> HIDE DEF Inv
<1> QED
  <2>1. Spec => []Inv
    BY <1>1, <1>2, SpecSteps, InvHolds, PTL
  <2> QED
    BY <2>1 DEF Inv

\* A timer that can fire and a polling coroutine belong to a terminus of the map:
\* removeMctpTerminus cancels both before it erases the terminus they refer to,
\* unless stopPolling meets a null timer, which ends the process there.
THEOREM PolledOnlyWhileManagedHolds == Spec => []PolledOnlyWhileManaged
  BY PolledInvHolds, PTL

\* The availability of a terminus as its polling coroutine sees it
AvailableInv ==
  /\ availableState = [t \in Tids |-> availableState[t]]
  /\ NoStrandedPoll

\* A request that concludes makes nothing available.
LEMMA AfterRequestAvailable ==
  ASSUME AvailableInv, NEW e, NEW answered, AfterRequest(e, answered)
  PROVE  /\ availableState' = [t \in Tids |-> availableState'[t]]
         /\ \A t \in Tids : availableState'[t] = "yes" => availableState[t] = "yes"
<1>1. CASE UNCHANGED availableState
  BY <1>1 DEF AvailableInv
<1>2. CASE \E ts : availableState' = AvailableAfter(ts, "no")
  BY <1>2 DEF AvailableAfter
<1> QED
  BY <1>1, <1>2, Zenon DEF AfterRequest

\* A poll that stopped because its terminus was unavailable starts again once it is
\* available, however updateMctpEndpointAvailability, startPolling and the coroutine
\* interleave.
THEOREM NoStrandedPollHolds == Spec => []NoStrandedPoll
<1>1. Init => AvailableInv
  BY DEF Init, SensorInit, AvailableInv, NoStrandedPoll
<1>2. TaskInv /\ TableInv /\ SensorTypes /\ AvailableInv /\ [Next]_vars => AvailableInv'
  <2> SUFFICES ASSUME TaskInv, TableInv, SensorTypes, AvailableInv, [Next]_vars
               PROVE  AvailableInv'
    OBVIOUS
  <2> USE DEF discoveryVars, tableVars, sensorVars
  \* Nothing becomes available and no timer is stopped of what is available.
  <2>1. ASSUME availableState' = [t \in Tids |-> availableState'[t]],
               \A t \in Tids : availableState'[t] = "yes" => availableState[t] = "yes",
               \A t \in Tids : sensorPollTimers'[t] = "stopped" =>
                 sensorPollTimers[t] = "stopped" \/ availableState[t] # "yes"
        PROVE  AvailableInv'
    BY <2>1 DEF AvailableInv, NoStrandedPoll
  <2>2. CASE UNCHANGED <<availableState, sensorPollTimers>>
    BY <2>1, <2>2 DEF AvailableInv
  <2>3. ASSUME NEW t \in Tids, Stopped(t), availableState[t] # "yes"
        PROVE  \A u \in Tids : sensorPollTimers'[u] = "stopped" =>
                 sensorPollTimers[u] = "stopped" \/ availableState[u] # "yes"
    BY <2>3 DEF Stopped, SensorTypes
  <2>4. ASSUME NEW t \in Tids, NEW due,
               DoSensorPolling(t) \/ PollStart(t) \/ PollSensor(t, due)
        PROVE  AvailableInv'
    <3>1. UNCHANGED availableState
      BY <2>4 DEF DoSensorPolling, PollStart, PollSensor
    <3>2. \/ UNCHANGED sensorPollTimers
          \/ Stopped(t) /\ availableState[t] # "yes"
      BY <2>4, Zenon DEF DoSensorPolling, PollStart, PollSensor
    <3> QED
      BY <2>1, <2>3, <3>1, <3>2 DEF AvailableInv
  <2>5. ASSUME NEW t \in Tids, NEW slow, NEW answered,
               EventConcludes(t, slow, answered) \/ ReadingConcludes(t, slow, answered)
        PROVE  AvailableInv'
    <3>1. AfterRequest(mctpInfoTable[t], answered)
      BY <2>5 DEF EventConcludes, ReadingConcludes
    <3>2. \/ UNCHANGED sensorPollTimers
          \/ Stopped(t) /\ availableState[t] # "yes"
      BY <2>5, Zenon DEF EventConcludes, ReadingConcludes
    <3> QED
      BY <2>1, <2>3, <3>1, <3>2, AfterRequestAvailable
  <2>6. CASE SensorStep
    BY <2>4, <2>5, <2>6, Zenon DEF SensorStep, SensorNext
  <2>7. CASE \E current : RemoveEndpoints(current)
    <3>0. PICK current : RemoveEndpoints(current)
      BY <2>7
    <3> DEFINE gone == UNION {Found(e) : e \in existingMctpInfos \ current}
    <3>1. StopPolling(gone)
      BY <3>0 DEF RemoveEndpoints, removeMctpTerminus, Gone
    <3>2. /\ sensorPollTimers' = [t \in Tids |-> IF t \in gone THEN "none"
                                                 ELSE sensorPollTimers[t]]
          /\ availableState' = [t \in Tids |-> IF t \in gone THEN "none"
                                               ELSE availableState[t]]
      BY <3>1 DEF StopPolling
    <3> HIDE DEF gone
    <3> QED
      BY <2>1, <3>2
  \* The endpoint's one TID gets both its availability and its timer back.
  <2>8. ASSUME NEW e, NEW v \in {"yes", "no"}, UpdateAvailability(e, v), e # NONE
        PROVE  AvailableInv'
    <3>1. availableState' = AvailableAfter(ToTid(e), v)
      BY <2>8 DEF UpdateAvailability
    <3>2. CASE v = "no"
      <4>1. UNCHANGED sensorPollTimers
        BY <2>8, <3>2 DEF UpdateAvailability
      <4> QED
        BY <2>1, <3>1, <3>2, <4>1 DEF AvailableAfter
    <3>3. CASE v = "yes" /\ ToTid(e) = {}
      <4>1. UNCHANGED sensorPollTimers
        BY <2>8, <3>3 DEF UpdateAvailability
      <4> QED
        BY <2>1, <3>1, <3>3, <4>1 DEF AvailableAfter
    <3>4. CASE v = "yes" /\ ToTid(e) # {}
      <4> DEFINE tid == LowestTid(ToTid(e))
      <4>1. tid \in ToTid(e)
        BY <3>4, LowestTidIn DEF ToTid
      <4>2. ToTid(e) = {tid} /\ tid \in Tids
        BY <2>8, <4>1 DEF ToTid, TableInv, OneToOne
      <4>3. sensorPollTimers' = StartedTimer(tid)
        BY <2>8, <3>4 DEF UpdateAvailability
      <4> HIDE DEF tid
      <4>4. /\ sensorPollTimers'[tid] # "stopped"
            /\ \A t \in Tids \ {tid} : sensorPollTimers'[t] = sensorPollTimers[t]
        BY <4>2, <4>3 DEF StartedTimer, SensorTypes
      <4>5. \A t \in Tids \ {tid} : availableState'[t] = availableState[t]
        BY <3>1, <4>2 DEF AvailableAfter
      <4>6. availableState' = [t \in Tids |-> availableState'[t]]
        BY <3>1 DEF AvailableAfter
      <4> QED
        BY <4>4, <4>5, <4>6 DEF AvailableInv, NoStrandedPoll
    <3> QED
      BY <3>2, <3>3, <3>4
  <2>9. CASE PropertiesChanged
    <3>1. \/ UNCHANGED <<availableState, sensorPollTimers>>
          \/ \E kind : UpdateAvailability(Head(signals).e,
                                          IF kind = "available" THEN "yes" ELSE "no")
      BY <2>9, Zenon DEF PropertiesChanged, Discover
    <3>2. Head(signals).e # NONE
      <4>1. signals # <<>>
        BY <2>9 DEF PropertiesChanged, Handles
      <4>2. Head(signals) \in Signal
        BY <4>1 DEF TaskInv, QueueTypes
      <4> QED
        BY <4>2, TerminusManagerAssumption DEF Signal
    <3> QED
      BY <2>2, <2>8, <3>1, <3>2
  <2>10. CASE Initialized
    <3>1. task.tid \in Tids /\ StartPolling(task.tid)
      BY <2>10 DEF Initialized, Runs, Step, TableInv, Pending
    <3>2. CASE UNCHANGED sensorVars
      BY <2>2, <3>2
    <3>3. CASE /\ sensorPollTimers' = [sensorPollTimers EXCEPT ![task.tid] = "running"]
               /\ availableState' = [availableState EXCEPT ![task.tid] = "yes"]
      BY <3>1, <3>3 DEF SensorTypes, AvailableInv, NoStrandedPoll
    <3> QED
      BY <3>1, <3>2, <3>3 DEF StartPolling
  <2>11. ASSUME NEW answered, NEW e, AfterRequest(e, answered), UNCHANGED sensorPollTimers
         PROVE  AvailableInv'
    BY <2>1, <2>11, AfterRequestAvailable
  <2>12. CASE \/ \E answered : VersionsDone(answered)
              \/ \E ok, answered : InitResponse(ok, answered)
    BY <2>11, <2>12, Zenon DEF VersionsDone, InitResponse
  <2>13. ASSUME NEW t, NEW table, AskTypes(t, table)
         PROVE  UNCHANGED <<availableState, sensorPollTimers>>
    BY <2>13, Zenon DEF AskTypes, InitFailed, WaitFor
  <2>14. ASSUME NEW tid, GotTid(tid)
         PROVE  UNCHANGED <<availableState, sensorPollTimers>>
    BY <2>13, <2>14, Zenon DEF GotTid, InitFailed, InitSucceeded, WaitFor
  <2>15. ASSUME NEW ok, SetTidDone(ok) \/ TypesDone(ok)
         PROVE  UNCHANGED <<availableState, sensorPollTimers>>
    BY <2>13, <2>15, Zenon DEF SetTidDone, TypesDone, InitFailed, InitSucceeded
  <2>16. CASE \/ NextEndpoint \/ NextType \/ NextTerminus \/ InitRequest
              \/ Mctpd \/ DiscoverEndpoints
              \/ \E t \in Tids : MessagePollEvent(t)
              \/ UNCHANGED vars
    <3>1. UNCHANGED <<availableState, sensorPollTimers>>
      BY <2>16, Zenon DEF NextEndpoint, NextType, NextTerminus, InitRequest, InitSucceeded,
         WaitFor, Mctpd, DiscoverEndpoints, Discover, MessagePollEvent, vars
    <3> QED
      BY <2>2, <3>1
  <2>17. CASE SignalDropped \/ \E current : RemovalCrashes(current)
    BY <2>2, <2>17, NothingHandled
  <2> QED
    BY <2>2, <2>6, <2>7, <2>9, <2>10, <2>12, <2>14, <2>15, <2>16, <2>17, Zenon DEF Next, SignalNext,
       DiscoveryNext
<1>3. AvailableInv => NoStrandedPoll
  BY DEF AvailableInv
<1> QED
  BY <1>1, <1>2, <1>3, SpecSteps, InvHolds, PolledInvHolds, PTL
=============================================================================
