--------------------------- MODULE RequestService ----------------------------
(***************************************************************************)
(* What the Handler of requester/handler.hpp promises the code that sends  *)
(* PLDM requests through it, without instance ids, timers, retries or      *)
(* deferred removals: requests to an endpoint are served in the order of   *)
(* registration, one at a time; a request is answered (with a response or  *)
(* with none) only while the endpoint serves it, at most once, and never   *)
(* after it was withdrawn; a request that cannot be sent is dropped.       *)
(***************************************************************************)
EXTENDS Sequences

CONSTANTS Eids, Requests, Dest

VARIABLES
  phase,   \* phase[r]: how far request r got
  line,    \* line[e]: the requests waiting for endpoint e, first come first
  wire     \* wire[e]: the request endpoint e serves, a set of at most one

svars == <<phase, line, wire>>

Phases == {"new", "waiting", "onWire", "answered", "withdrawn", "dropped"}

SInit ==
  /\ phase = [r \in Requests |-> "new"]
  /\ line = [e \in Eids |-> <<>>]
  /\ wire = [e \in Eids |-> {}]

\* Endpoint e is free and `ln` waits for it, the phases being `ph`: it stays
\* free if nothing waits, or serves the first in line, or drops the first.
Advance(e, ln, ph) ==
  \/ /\ ln = <<>>
     /\ line' = [line EXCEPT ![e] = ln]
     /\ wire' = [wire EXCEPT ![e] = {}]
     /\ phase' = ph
  \/ /\ ln # <<>>
     /\ line' = [line EXCEPT ![e] = Tail(ln)]
     /\ \/ /\ wire' = [wire EXCEPT ![e] = {Head(ln)}]
           /\ phase' = [ph EXCEPT ![Head(ln)] = "onWire"]
        \/ /\ wire' = [wire EXCEPT ![e] = {}]
           /\ phase' = [ph EXCEPT ![Head(ln)] = "dropped"]

Submit(r) ==
  LET e == Dest[r]
      ln == Append(line[e], r)
      ph == [phase EXCEPT ![r] = "waiting"]
  IN /\ phase[r] = "new"
     /\ \/ /\ wire[e] # {}
           /\ line' = [line EXCEPT ![e] = ln]
           /\ phase' = ph
           /\ UNCHANGED wire
        \/ /\ wire[e] = {}
           /\ Advance(e, ln, ph)

Answer(r) ==
  /\ phase[r] = "onWire"
  /\ phase' = [phase EXCEPT ![r] = "answered"]
  /\ UNCHANGED <<line, wire>>

Release(r) ==
  /\ phase[r] = "answered"
  /\ wire[Dest[r]] = {r}
  /\ Advance(Dest[r], line[Dest[r]], phase)

Withdraw(r) ==
  \/ /\ phase[r] = "onWire"
     /\ Advance(Dest[r], line[Dest[r]], [phase EXCEPT ![r] = "withdrawn"])
  \/ /\ phase[r] = "dropped"
     /\ phase' = [phase EXCEPT ![r] = "withdrawn"]
     /\ UNCHANGED <<line, wire>>

SNext == \E r \in Requests : Submit(r) \/ Answer(r) \/ Release(r) \/ Withdraw(r)

SSpec == SInit /\ [][SNext]_svars
=============================================================================
