-------------------------- MODULE MCTerminusManager --------------------------
(* Two endpoints and two terminus ids, one endpoint known at start.        *)
EXTENDS TerminusManager

CONSTANTS e1, e2

MCOneKnown == <<e1>>
MCTids == {1, 2}
=============================================================================
