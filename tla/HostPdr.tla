-------------------------------- MODULE HostPdr --------------------------------
(***************************************************************************)
(* host-bmc/host_pdr_handler.cpp: the PDRs of the host are read one record *)
(* at a time, each response deferring the next request to the event loop,  *)
(* and end up in the BMC's repository, in its entity association tree and  *)
(* on D-Bus.  The host announces changes through                           *)
(* Handler::pldmPDRRepositoryChgEvent of libpldmresponder/platform.cpp and *)
(* may be powered off at any time.  Its records have the handles           *)
(* 1..Len(Host); a request for handle 0 gets the first.                    *)
(***************************************************************************)
EXTENDS Integers, Sequences, Functions, SequencesExt

CONSTANTS
  Host,       \* the kinds of the host's records: tl, assoc, sensor or fru
  MaxEvents,  \* bound: repository change events and power offs
  MaxChanges  \* bound: change records of an event, of one handle each

VARIABLES
  fetch,      \* the handles to fetch, isHostPdrModified and the Defer sources
  requests,   \* GetPDR requests registered and not answered yet
  collected,  \* entityAssociations and the static locals of processHostPDRs
  repo,       \* remote records of the BMC's PDR repository
  objPathMap, \* per association record: absent, or its node: live or null
  available,  \* its D-Bus objects: none, or their Availability property
  sensors,    \* sensorMap, and the GetStateSensorReadings under way
  host,       \* its entry of tlPDRInfo; responseReceived; its FRU request
  events,     \* repository change events and power offs so far (bound)
  crashed,    \* a null node, or a node of a destroyed tree, was used
  unread,     \* handles announced and not read since (history)
  disturbed   \* an exchange was interfered with or cut short (history)

onDbus == <<objPathMap, available, sensors>>
vars == <<fetch, requests, collected, repo, onDbus, host, events, crashed,
          unread, disturbed>>

Handles == 1..Len(Host)
Operations == {"added", "modified", "deleted"}
Assocs == {h \in Handles : Host[h] = "assoc"}
NextOf(h) == IF h = Len(Host) THEN 0 ELSE h + 1
Busy == requests # <<>> \/ fetch.defer \/ fetch.next # 0

Empty == [sensors |-> <<>>, frus |-> <<>>, assocs |-> {}, merged |-> FALSE]

Init ==
  /\ fetch = [pdr |-> <<>>, modified |-> <<>>, isHostPdrModified |-> FALSE,
              defer |-> FALSE, next |-> 0, chg |-> FALSE]
  /\ requests = <<>>
  /\ collected = Empty
  /\ repo = {}
  /\ objPathMap = [h \in Assocs |-> "absent"]
  /\ available = [h \in Assocs |-> "none"]
  /\ sensors = [map |-> {}, readings |-> {}]
  /\ host = [tl |-> "none", up |-> FALSE, fru |-> "none"]
  /\ events = 0
  /\ crashed = FALSE
  /\ unread = {} /\ disturbed = FALSE

-----------------------------------------------------------------------------
\* fetchPDR: the handles are replaced and the fetch deferred.
FetchPDR(f, handles) ==
  [f EXCEPT !.pdr = IF f.isHostPdrModified THEN <<>> ELSE handles,
            !.modified = IF f.isHostPdrModified THEN handles ELSE <<>>,
            !.defer = TRUE]

\* An event: one that comes during an exchange interferes with it.
Announced(bad) ==
  /\ ~crashed /\ events < MaxEvents
  /\ events' = events + 1
  /\ disturbed' = (disturbed \/ Busy \/ bad)
  /\ UNCHANGED <<requests, collected, onDbus, crashed>>

\* REFRESH_ENTIRE_REPOSITORY: the records of the terminus are dropped first.
RefreshEvent ==
  /\ Announced(FALSE)
  /\ repo' = IF host.tl # "none" THEN {} ELSE repo
  /\ host' = [host EXCEPT !.tl = "none"]
  /\ fetch' = FetchPDR(fetch, <<>>)
  /\ unread' = Handles

\* FORMAT_IS_PDR_HANDLES: one list is made of the handles of all the change
\* records, and the operation of the last one decides what becomes of it; the
\* event comes from a terminus whose locator record has been read.
ChangeRecords(changes) ==
  LET handles == [i \in DOMAIN changes |-> changes[i][2]]
      Of(ops) == {c[2] : c \in {d \in Range(changes) : d[1] \in ops}}
      deletes == changes[Len(changes)][1] = "deleted"
      marked == [fetch EXCEPT !.isHostPdrModified = @ \/ Of({"modified"}) # {}]
      announced == Of({"added", "modified"})
  IN  /\ Announced(deletes /\ announced # {})
      /\ fetch' = IF deletes THEN marked ELSE FetchPDR(marked, handles)
      /\ repo' = IF deletes THEN repo \ Range(handles) ELSE repo
      /\ unread' = (unread \ Of({"deleted"})) \cup announced

HandlesEvent ==
  /\ host.tl # "none"
  /\ \E n \in 1..MaxChanges : \E changes \in [1..n -> Operations \X Handles] :
       ChangeRecords(changes)
  /\ UNCHANGED host

\* An event refused at a change record that follows one of modified PDRs
RefusedEvent ==
  /\ Announced(TRUE)
  /\ fetch' = [fetch EXCEPT !.isHostPdrModified = TRUE]
  /\ UNCHANGED <<repo, host, unread>>

\* hostOffMatch: everything about the host is dropped, except what an exchange
\* under way, or one of modified records before it, holds.
HostOff ==
  /\ ~crashed /\ events < MaxEvents
  /\ events' = events + 1
  /\ disturbed' = (\/ disturbed \/ Busy \/ host.fru # "none"
                    \/ sensors.readings # {} \/ collected.assocs # {})
  /\ host' = [host EXCEPT !.tl = "none", !.up = FALSE]
  /\ repo' = {}
  /\ objPathMap' = [h \in Assocs |-> IF objPathMap[h] = "absent" THEN "absent"
                                                                ELSE "null"]
  /\ available' = [h \in Assocs |-> IF objPathMap[h] = "absent" THEN available[h]
                                                               ELSE "no"]
  /\ sensors' = [sensors EXCEPT !.map = {}]
  /\ collected' = [collected EXCEPT !.assocs = {<<a[1], "junk">> : a \in @}]
  /\ unread' = {}
  /\ UNCHANGED <<fetch, requests, crashed>>

\* setHostFirmwareCondition: the host answers GetPLDMVersion.
HostAnswers ==
  /\ ~crashed /\ ~host.up
  /\ host' = [host EXCEPT !.up = TRUE]
  /\ UNCHANGED <<fetch, requests, collected, repo, onDbus, events, crashed, unread,
                 disturbed>>

-----------------------------------------------------------------------------
\* getHostPDR: the request, and the lists it leaves; a fetch still deferred is
\* called off.
GetHostPDR(g, next) ==
  LET f == [g EXCEPT !.defer = FALSE]
  IN IF next = 0 /\ f.modified # <<>> /\ f.isHostPdrModified
    THEN /\ requests' = Append(requests, Head(f.modified))
         /\ fetch' = [f EXCEPT !.modified = Tail(@)]
  ELSE IF next = 0 /\ f.pdr # <<>>
    THEN /\ requests' = Append(requests, Head(f.pdr))
         /\ fetch' = [f EXCEPT !.pdr = Tail(@)]
  ELSE /\ requests' = Append(requests, next)
       /\ fetch' = f

\* _fetchPDR: the deferred event of fetchPDR
StartFetch ==
  /\ ~crashed /\ fetch.defer
  /\ GetHostPDR(fetch, 0)
  /\ UNCHANGED <<collected, repo, onDbus, host, events, crashed, unread,
                 disturbed>>

\* Mutant for UndisturbedExchange: the announced handles are not looked up.
MutNextHandle(f) == f.next

\* The handle _processFetchPDREvent asks for: one of the lists, if any is left
NextHandle(f) ==
  IF f.isHostPdrModified /\ f.modified # <<>> THEN Head(f.modified)
  ELSE IF f.pdr # <<>> THEN Head(f.pdr) ELSE f.next

\* _processFetchPDREvent pops both lists.
ContinueFetch ==
  LET popped == [fetch EXCEPT !.next = 0,
        !.pdr = IF @ = <<>> THEN @ ELSE Tail(@),
        !.modified = IF @ = <<>> \/ ~fetch.isHostPdrModified THEN @ ELSE Tail(@)]
  IN  /\ ~crashed /\ fetch.next # 0
      /\ GetHostPDR(popped, NextHandle(fetch))
      /\ UNCHANGED <<collected, repo, onDbus, host, events, crashed, unread,
                     disturbed>>

\* The nodes of an association record are put into entityTree and remembered,
\* if the node of its container is found there.
mergeEntityAssociations(h, found) ==
  [collected EXCEPT !.assocs = IF found THEN @ \cup {<<h, "live">>} ELSE @]

\* An association is merged, another record is kept for the end.
Collect(h, found) ==
  CASE Host[h] = "assoc" -> [mergeEntityAssociations(h, found) EXCEPT !.merged = TRUE]
    [] Host[h] = "sensor" -> [collected EXCEPT !.sensors = Append(@, h)]
    [] Host[h] = "fru" -> [collected EXCEPT !.frus = Append(@, h)]
    [] OTHER -> collected

\* updateEntityAssociation: the nodes found become those of their paths.
updateEntityAssociation(c) ==
  [h \in Assocs |-> IF h \in {a[1] : a \in c.assocs} THEN "live" ELSE objPathMap[h]]

\* createDbusObjects and CustomDBus: every path of the map is made available.
createDbusObjects(nodes) ==
  [h \in Assocs |-> IF nodes[h] = "absent" THEN available[h] ELSE "yes"]

\* parseStateSensorPDRs, and setHostSensorState when the host is up: the
\* sensors of a terminus that has a locator are read.
parseStateSensorPDRs(c, tl) ==
  [map |-> sensors.map \cup ToSet(c.sensors),
   readings |-> sensors.readings \cup
                  (IF host.up /\ tl # "none" THEN ToSet(c.sensors) ELSE {})]

\* The last record: every node collected and every node of objPathMap is used.
\* What a list still holds is not asked for.
Finish(c, tl, short) ==
  LET nodes == updateEntityAssociation(c)
  IN  /\ crashed' = (\/ \E a \in c.assocs : a[2] = "junk"
                     \/ \E h \in Assocs : nodes[h] = "null")
      /\ objPathMap' = nodes
      /\ available' = createDbusObjects(nodes)
      /\ sensors' = parseStateSensorPDRs(c, tl)
      /\ host' = [host EXCEPT !.tl = tl, !.fru = "metadata"]
      /\ fetch' = [fetch EXCEPT !.chg = @ \/ c.merged]
      /\ collected' = Empty
      /\ disturbed' = (disturbed \/ fetch.pdr # <<>> \/ fetch.modified # <<>>
                        \/ fetch.isHostPdrModified \/ short)

\* Not the last record: go on, unless the modified records have all been read
Proceed(c, tl, next, short) ==
  /\ collected' = c
  /\ fetch' = IF fetch.modified = <<>> /\ fetch.isHostPdrModified
                THEN [fetch EXCEPT !.isHostPdrModified = FALSE]
                ELSE [fetch EXCEPT !.next = next]
  /\ host' = [host EXCEPT !.tl = tl]
  /\ disturbed' = (disturbed \/ fetch.next # 0 \/ short)
  /\ UNCHANGED <<onDbus, crashed>>

\* A response carries record h.  A terminus locator that is known with the
\* same validity ends everything; an invalid one is not added, and is the last
\* one read when the host is down.
ReceiveRecord(h, tl, found) ==
  LET known == Host[h] = "tl" /\ tl = host.tl
      invalid == Host[h] = "tl" /\ tl = "invalid"
      next == IF invalid /\ ~host.up THEN 0 ELSE NextOf(h)
      lost == h \in Assocs /\ objPathMap[h] = "null" /\ ~found
      short == next # NextOf(h) \/ lost
  IN  IF known
        THEN /\ disturbed' = TRUE
             /\ UNCHANGED <<fetch, collected, repo, onDbus, host, crashed>>
        ELSE /\ repo' = IF invalid THEN repo ELSE repo \cup {h}
             /\ IF next = 0 THEN Finish(Collect(h, found), tl, short)
                            ELSE Proceed(Collect(h, found), tl, next, short)

ProcessHostPDRs ==
  /\ ~crashed /\ requests # <<>>
  /\ requests' = Tail(requests)
  /\ LET h == IF Head(requests) = 0 THEN 1 ELSE Head(requests)
     IN  \E tl \in IF Host[h] = "tl" THEN {"valid", "invalid"} ELSE {host.tl},
            found \in BOOLEAN :
           ReceiveRecord(h, tl, found) /\ unread' = unread \ {h}
  /\ UNCHANGED events

\* No response, or one that is an error: the exchange ends here.
ExchangeFails ==
  /\ ~crashed /\ requests # <<>>
  /\ requests' = Tail(requests)
  /\ disturbed' = TRUE
  /\ UNCHANGED <<fetch, collected, repo, onDbus, host, events, crashed, unread>>

\* sendPDRRepositoryChgEvent, deferred until the exchange has ended
SendRepositoryChgEvent ==
  /\ ~crashed /\ fetch.chg
  /\ fetch' = [fetch EXCEPT !.chg = FALSE]
  /\ UNCHANGED <<requests, collected, repo, onDbus, host, events, crashed,
                 unread, disturbed>>

\* GetFRURecordTableMetadata, then GetFRURecordTable; setFRUDataOnDBus uses
\* every node of objPathMap.
FruResponse ==
  /\ ~crashed /\ host.fru # "none"
  /\ \/ /\ host.fru = "metadata"
        /\ host' = [host EXCEPT !.fru = "table"]
        /\ UNCHANGED crashed
     \/ /\ host' = [host EXCEPT !.fru = "none"]
        /\ \/ UNCHANGED crashed     \* no response, or no records
           \/ /\ host.fru = "table"
              /\ crashed' = (\E h \in Assocs : objPathMap[h] = "null")
  /\ UNCHANGED <<fetch, requests, collected, repo, onDbus, events, unread,
                 disturbed>>

\* A sensor's reading arrives, or its request fails.  Without an entry of
\* sensorMap the states of the sensor are read beyond an empty vector.
ReadingResponse ==
  /\ ~crashed
  /\ \E h \in sensors.readings :
       /\ sensors' = [sensors EXCEPT !.readings = @ \ {h}]
       /\ crashed' \in {FALSE, h \notin sensors.map}
  /\ UNCHANGED <<fetch, requests, collected, repo, objPathMap, available, host,
                 events, unread, disturbed>>

Next ==
  \/ RefreshEvent \/ HandlesEvent \/ RefusedEvent \/ HostOff \/ HostAnswers
  \/ StartFetch \/ ContinueFetch \/ ProcessHostPDRs \/ ExchangeFails
  \/ SendRepositoryChgEvent \/ FruResponse \/ ReadingResponse

Spec == Init /\ [][Next]_vars

-----------------------------------------------------------------------------
Shown == [h \in Assocs |-> CASE objPathMap[h] = "absent" -> "none"
                              [] objPathMap[h] = "null" -> "no"
                              [] objPathMap[h] = "live" -> "yes"]

\* An exchange brings in every record the host announced, the modified ones
\* again, and uses live nodes only: the lists of handles, the walk along
\* nextRecordHandle and the deferred events agree, and D-Bus shows what is
\* there.  Nothing is said from the first time one of these happens:
\*   - an event or a power off comes during an exchange (a power off: during
\*     the FRU or sensor requests after one, too), or a response is lost;
\*   - the code itself cuts the exchange short: the host's last record is read
\*     while handles are left in a list, a locator record is known already, or
\*     invalid while the host is down, or the last record is among the modified
\*     ones, which leaves isHostPdrModified set;
\*   - an event deletes last and announced other handles before, or is refused
\*     after a change record that set isHostPdrModified;
\*   - a power off finds associations of modified records collected: they are
\*     cleared only at the end of a walk, and used by the next one;
\*   - after a power off the container of an association that has a path is
\*     not found in the tree, so that its node stays null.
UndisturbedExchange ==
  ~disturbed => /\ ~crashed
                /\ ~Busy => unread = {} /\ available = Shown

\* host_pdr_handler.cpp:136-138 "the remote nodes will be deleted from the
\* entity association tree, making the nodes point to junk values, so set them
\* to nullptr": then no junk or null node is used after a power off.
HostNodesAreLive == ~crashed

-----------------------------------------------------------------------------
\* The inductive invariant that UndisturbedExchange needs.
HostTypes ==
  /\ fetch \in [pdr : Seq(Handles), modified : Seq(Handles), isHostPdrModified : BOOLEAN,
                defer : BOOLEAN, next : Handles \cup {0}, chg : BOOLEAN]
  /\ requests \in Seq(Handles \cup {0}) /\ unread \subseteq Handles
  /\ collected \in [sensors : Seq(Handles), frus : Seq(Handles),
                    assocs : SUBSET (Assocs \X {"live", "junk"}), merged : BOOLEAN]
  /\ objPathMap \in [Assocs -> {"absent", "null", "live"}]
  /\ sensors \in [map : SUBSET Handles, readings : SUBSET Handles]
  /\ host \in [tl : {"none", "valid", "invalid"}, up : BOOLEAN,
               fru : {"none", "metadata", "table"}]
  /\ crashed \in BOOLEAN /\ disturbed \in BOOLEAN

\* An exchange is at one place: deferred, between two records or at the host.
OnePlace ==
  /\ Len(requests) <= 1
  /\ requests # <<>> => ~fetch.defer /\ fetch.next = 0
  /\ fetch.defer => fetch.next = 0

\* One of the two lists is in use, and neither outlives the exchange.
OneList ==
  /\ fetch.isHostPdrModified => fetch.pdr = <<>>
  /\ ~fetch.isHostPdrModified => fetch.modified = <<>>
  /\ fetch.isHostPdrModified /\ requests = <<>> => fetch.modified # <<>>
  /\ ~Busy => ~fetch.isHostPdrModified /\ fetch.pdr = <<>>

\* The record the exchange is at
Frontier ==
  IF requests # <<>> THEN IF Head(requests) = 0 THEN 1 ELSE Head(requests)
  ELSE IF fetch.next # 0 THEN fetch.next ELSE 1

\* What the exchange reads if nothing disturbs it: a list, or all that follows.
ToRead ==
  (IF requests # <<>> THEN {Frontier} ELSE {})
  \cup (IF fetch.isHostPdrModified THEN Range(fetch.modified)
        ELSE IF fetch.pdr # <<>> THEN Range(fetch.pdr) ELSE Frontier..Len(Host))

UnreadIsRead == unread \subseteq IF Busy THEN ToRead ELSE {}

\* Nodes are null after a power off, until a walk along all records is at its
\* end: it has met every association before the record it is at.
NullsAreMended ==
  \A h \in Assocs : objPathMap[h] = "null" =>
    /\ ~fetch.isHostPdrModified /\ fetch.pdr = <<>> /\ host.fru = "none"
    /\ ~Busy => host.tl = "none"
    /\ Busy /\ h < Frontier => <<h, "live">> \in collected.assocs

NodesAreLive ==
  /\ ~crashed /\ available = Shown /\ sensors.readings \subseteq sensors.map
  /\ \A a \in collected.assocs : a[2] = "live"

HostInv ==
  /\ HostTypes
  /\ ~disturbed =>
       OnePlace /\ OneList /\ UnreadIsRead /\ NullsAreMended /\ NodesAreLive
=============================================================================
