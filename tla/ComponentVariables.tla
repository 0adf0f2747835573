------------------------- MODULE ComponentVariables -------------------------
(***************************************************************************)
(* Components that share no state with one another are checked side by     *)
(* side.  A behaviour is one of the component that Focus chose: the        *)
(* variables v1 to v12 stand for those of its module, the rest stays 0, so *)
(* one run explores the sum of the components and not their product.       *)
(***************************************************************************)
EXTENDS Integers, Sequences

CONSTANT Focus  \* the components to explore

VARIABLES component, v1, v2, v3, v4, v5, v6, v7, v8, v9, v10, v11, v12

vars == <<component, v1, v2, v3, v4, v5, v6, v7, v8, v9, v10, v11, v12>>

\* The variables a component does not use
From12 == v12 = 0
From11 == v11 = 0 /\ From12
From10 == v10 = 0 /\ From11
From9 == v9 = 0 /\ From10
From8 == v8 = 0 /\ From9
From7 == v7 = 0 /\ From8
From6 == v6 = 0 /\ From7
From5 == v5 = 0 /\ From6
From4 == v4 = 0 /\ From5
Rest4 == <<v4, v5, v6, v7, v8, v9, v10, v11, v12>>
Rest5 == <<v5, v6, v7, v8, v9, v10, v11, v12>>
Rest6 == <<v6, v7, v8, v9, v10, v11, v12>>
Rest7 == <<v7, v8, v9, v10, v11, v12>>
Rest8 == <<v8, v9, v10, v11, v12>>
Rest9 == <<v9, v10, v11, v12>>
Rest10 == <<v10, v11, v12>>

\* A step of the component c
Only(c) == component = c /\ component' = c
=============================================================================
