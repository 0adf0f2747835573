-------------------------- MODULE MCFirmwareUpdate ---------------------------
(***************************************************************************)
(* Instances of FirmwareUpdate for TLC: one device with three components   *)
(* (a first, a middle and a last one), and two devices (what one reports   *)
(* while the other is still updating).                                     *)
(***************************************************************************)
EXTENDS FirmwareUpdate, TLC

CONSTANTS d1, d2

MCOneDevice == {d1}
MCThreeComps == [d \in MCOneDevice |-> 3]
MCTwoDevices == {d1, d2}
MCOneComp == [d \in MCTwoDevices |-> 1]
MCTwoAndOneComps == [d \in MCTwoDevices |-> IF d = d1 THEN 2 ELSE 1]
MCSymmetry == Permutations(MCTwoDevices)
=============================================================================
