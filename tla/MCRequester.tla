----------------------------- MODULE MCRequester -----------------------------
(***************************************************************************)
(* Instances of Requester for TLC.  Safety: three requests for one         *)
(* endpoint (one outstanding while two queue) and one for another (whose   *)
(* handler may register on the first), as many instance ids as can be in   *)
(* use at once; ids are reused as they are freed.  Retries and liveness:   *)
(* three requests for one endpoint that compete for two instance ids.      *)
(***************************************************************************)
EXTENDS Requester

CONSTANTS e1, e2, r1, r2, r3, r4

MCEids == {e1, e2}
MCRequests == {r1, r2, r3, r4}
MCDest == [r \in MCRequests |-> IF r = r4 THEN e2 ELSE e1]
MCOneEid == {e1}
MCThree == {r1, r2, r3}
MCDestThree == [r \in MCThree |-> e1]
MCCancellable == {r1, r2}
=============================================================================
