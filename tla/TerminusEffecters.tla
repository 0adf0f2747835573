--------------------------- MODULE TerminusEffecters ---------------------------
(***************************************************************************)
(* platform-mc/dbus_to_terminus_effecters.cpp: D-Bus properties that set   *)
(* the effecters of a terminus.  One entry describes a composite state     *)
(* effecter, another a numeric effecter whose last set value is cached.    *)
(* Requests to the terminus' endpoint are answered in the order they were  *)
(* registered; an answer may be an error or never come.                    *)
(***************************************************************************)
EXTENDS Integers, Sequences, SequencesExt

CONSTANTS
  Effecters,   \* of the state entry's json: [values, states], sequences
  Values,      \* values of the D-Bus properties
  NaN,         \* a number outside them, for the numeric property
  Offset, Resolution, Width,   \* of the numeric entry; Width in bits
  MaxPending   \* bound on requests under way

VARIABLES
  dbus,          \* [state, numeric]: the D-Bus properties
  propertyValue, \* the numeric entry's cached value
  hostOn,        \* BootProgress is one of the four running stages
  pending,       \* registered requests not answered yet
  device,        \* [state, numeric]: the effecters of the terminus
  followed       \* [state, numeric]: the last accepted change was passed on
                 \* and not refused (history)

vars == <<dbus, propertyValue, hostOn, pending, device, followed>>

\* parseEffecterJson leaves out an effecter whose states and values differ in
\* number.  The position in what is left stands for the effecter from there
\* on, also in the request, where it is the position in the composite effecter
\* that counts: those after one that was left out set another's state.
WellFormed(e) == Len(e.values) = Len(e.states)
Kept(infos, e) == IF WellFormed(e) THEN Append(infos, e) ELSE infos
dbusInfo == FoldLeft(Kept, <<>>, Effecters)
compEffecterCnt == Len(Effecters)
Unset == 0
NoChange == -1

Init ==
  /\ dbus = [state |-> [i \in DOMAIN dbusInfo |-> Unset], numeric |-> NaN]
  /\ propertyValue = NaN
  /\ hostOn \in BOOLEAN
  /\ pending = <<>>
  /\ device = [state |-> [i \in 1..compEffecterCnt |-> Unset], numeric |-> Unset]
  /\ followed = [state |-> [i \in DOMAIN dbusInfo |-> FALSE], numeric |-> FALSE]

\* isHostOn asks for the boot progress at each change.
isHostOn == hostOn

HasState(i, v) == Contains(dbusInfo[i].values, v)
findNewStateValue(i, v) ==
  dbusInfo[i].states[SelectInSeq(dbusInfo[i].values, LAMBDA w : w = v)]

\* registerRequest, with an instance id, may fail.
registerRequest(request) ==
  Len(pending) < MaxPending /\ pending' = Append(pending, request)
Refused == UNCHANGED pending

\* Mutant for TerminusFollows: the other effecters of the entry are set too.
MutStateField(i, state) == [k \in 1..compEffecterCnt |-> IF k <= i THEN state ELSE NoChange]

StateField(i, state) == [k \in 1..compEffecterCnt |-> IF k = i THEN state ELSE NoChange]

\* setHostStateEffecter
setHostStateEffecter(i, state) ==
  registerRequest([type |-> "state", of |-> i, field |-> StateField(i, state)])

\* processHostEffecterChangeNotification of a state effecter
StateChanged(i, v) ==
  /\ v # dbus.state[i]
  /\ dbus' = [dbus EXCEPT !.state[i] = v]
  /\ \/ /\ isHostOn /\ HasState(i, v)
        /\ setHostStateEffecter(i, findNewStateValue(i, v))
        /\ followed' = [followed EXCEPT !.state[i] = TRUE]
     \/ /\ Refused
        /\ followed' = [followed EXCEPT !.state[i] = FALSE]
  /\ UNCHANGED <<propertyValue, hostOn, device>>

adjustValue(v) == (v - Offset) * Resolution
InRange(raw) == raw \in 0..(2^Width - 1)

\* Converting a double that the type cannot hold is undefined.
Cast(raw) == IF InRange(raw) THEN {raw} ELSE 0..(2^Width - 1)

\* Mutant for TerminusFollows: the value is cached although it was not sent.
MutCached(v, sent) == v

\* The cached value: the first one seen is only noted, the later ones are
\* those that were passed on.
Cached(v, sent) == IF sent \/ propertyValue = NaN THEN v ELSE propertyValue

\* setTerminusNumericEffecter
setTerminusNumericEffecter(v) == \E raw \in Cast(adjustValue(v)) :
  registerRequest([type |-> "numeric", of |-> 0, field |-> <<raw>>])

NumericUnchanged(v) == v = NaN \/ v = propertyValue

\* processTerminusNumericEffecterChangeNotification; the first value is the
\* one the effecter has.
NumericChanged(v) ==
  /\ v # dbus.numeric
  /\ dbus' = [dbus EXCEPT !.numeric = v]
  /\ \/ /\ propertyValue = NaN \/ NumericUnchanged(v)
        /\ Refused
        /\ propertyValue' = IF v = NaN THEN propertyValue ELSE v
        /\ device' = IF propertyValue = NaN /\ v # NaN
                     THEN [device EXCEPT !.numeric = adjustValue(v)] ELSE device
        /\ UNCHANGED followed
     \/ /\ propertyValue # NaN /\ ~NumericUnchanged(v) /\ isHostOn
        /\ setTerminusNumericEffecter(v)
        /\ propertyValue' = Cached(v, TRUE)
        /\ UNCHANGED device
        /\ followed' = [followed EXCEPT !.numeric = InRange(adjustValue(v))]
     \/ /\ propertyValue # NaN /\ ~NumericUnchanged(v)
        /\ Refused
        /\ propertyValue' = Cached(v, FALSE)
        /\ UNCHANGED <<device, followed>>
  /\ UNCHANGED hostOn

Merge(old, field) == [k \in DOMAIN old |-> IF field[k] = NoChange THEN old[k] ELSE field[k]]

Outstanding(type, i) == \E k \in DOMAIN pending : pending[k].type = type /\ pending[k].of = i

\* The terminus answers, and did as it was told if ok; the handlers of both
\* commands only log what went wrong.
Answered(ok) ==
  /\ pending # <<>>
  /\ LET request == Head(pending) IN
     /\ pending' = Tail(pending)
     /\ device' = IF ~ok THEN device
                  ELSE IF request.type = "state"
                  THEN [device EXCEPT !.state = Merge(@, request.field)]
                  ELSE [device EXCEPT !.numeric = request.field[1]]
     /\ followed' = IF ok THEN followed
                    ELSE IF request.type = "state"
                    THEN [followed EXCEPT !.state[request.of] = FALSE]
                    ELSE [followed EXCEPT !.numeric = FALSE]
  /\ UNCHANGED <<dbus, propertyValue, hostOn>>

HostSwitches ==
  /\ hostOn' = ~hostOn
  /\ UNCHANGED <<dbus, propertyValue, pending, device, followed>>

Next ==
  \/ \E i \in DOMAIN dbusInfo, v \in Values : StateChanged(i, v)
  \/ \E v \in Values \cup {NaN} : NumericChanged(v)
  \/ \E ok \in BOOLEAN : Answered(ok)
  \/ HostSwitches

Spec == Init /\ [][Next]_vars

\* The effecter of the composite that the configuration describes by the
\* entry that dbusInfo has at i
Described == SelectSeq([k \in DOMAIN Effecters |-> k], LAMBDA k : WellFormed(Effecters[k]))

(***************************************************************************)
(* With no request outstanding for it, the effecter that the configuration *)
(* gives to a property is in the state of that property, and the numeric   *)
(* one at the value the parser remembers: no request for one effecter of a *)
(* composite disturbs another, and no value is remembered that was not     *)
(* sent.  Three exceptions are the code's own: a change that was not sent  *)
(* (the host is off, no instance id), one the terminus refused or did not  *)
(* answer, which the handlers of the responses only log, and the effecters *)
(* after one that parseEffecterJson left out, whose requests set the state *)
(* of the effecter before.                                                 *)
(***************************************************************************)
TerminusFollows ==
  /\ \A i \in DOMAIN dbusInfo :
       followed.state[i] /\ ~Outstanding("state", i) /\ Described[i] = i =>
         device.state[Described[i]] = findNewStateValue(i, dbus.state[i])
  /\ followed.numeric /\ ~Outstanding("numeric", 0) =>
       device.numeric = adjustValue(propertyValue)

(***************************************************************************)
(* A setting is skipped when it equals the cached value, "which is real    *)
(* value of effecter" (dbus_to_terminus_effecters.cpp:385): with no        *)
(* request outstanding, the cache is then the value the effecter has.  The *)
(* code only logs a refused setting, so repeating it does nothing.         *)
(***************************************************************************)
CachedIsReal ==
  [][ (\E v \in Values : NumericUnchanged(v) /\ dbus'.numeric = v /\ dbus.numeric # v)
      /\ ~Outstanding("numeric", 0) /\ propertyValue # NaN
      => device.numeric = adjustValue(propertyValue) ]_vars

-----------------------------------------------------------------------------
\* The inductive invariant that TerminusFollows needs.
Request == [type : {"state", "numeric"}, of : Nat,
            field : Seq(Int)]

FollowTypes ==
  /\ pending \in Seq(Request)
  /\ followed \in [state : [DOMAIN dbusInfo -> BOOLEAN], numeric : BOOLEAN]
  /\ dbus.state \in [DOMAIN dbusInfo -> Values \cup {Unset}]
  /\ DOMAIN dbus = {"state", "numeric"}
  /\ DOMAIN device = {"state", "numeric"}
  /\ DOMAIN device.state = 1..compEffecterCnt

\* A request names its effecter and leaves the others alone.
OneField ==
  \A k \in DOMAIN pending :
    pending[k].type = "state" =>
      /\ pending[k].of \in DOMAIN dbusInfo
      /\ \A i \in 1..compEffecterCnt : i # pending[k].of => pending[k].field[i] = NoChange

\* What the parser takes for its effecters follows, shifted or not.
PositionFollows ==
  /\ \A i \in DOMAIN dbusInfo :
       followed.state[i] /\ ~Outstanding("state", i) =>
         device.state[i] = findNewStateValue(i, dbus.state[i])
  /\ followed.numeric /\ ~Outstanding("numeric", 0) =>
       device.numeric = adjustValue(propertyValue)

LastFor(type, i, k) ==
  /\ pending[k].type = type /\ pending[k].of = i
  /\ \A j \in DOMAIN pending : j > k => ~(pending[j].type = type /\ pending[j].of = i)

\* The last request under way for an effecter that follows is about the value
\* its property has.
LastRequestIsPresent ==
  /\ \A i \in DOMAIN dbusInfo, k \in DOMAIN pending :
       followed.state[i] /\ LastFor("state", i, k) =>
         /\ pending[k].field[i] = findNewStateValue(i, dbus.state[i])
         /\ pending[k].field[i] # NoChange
  /\ \A k \in DOMAIN pending :
       followed.numeric /\ LastFor("numeric", 0, k) =>
         pending[k].field[1] = adjustValue(propertyValue)

FollowInv ==
  /\ FollowTypes /\ OneField /\ LastRequestIsPresent /\ PositionFollows
  /\ propertyValue = NaN => ~followed.numeric
  /\ \A k \in DOMAIN pending : pending[k].type = "numeric" => pending[k].of = 0
=============================================================================
