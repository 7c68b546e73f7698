------------------------------- MODULE MCPanel -------------------------------
(***************************************************************************)
(* Constants for the run of Panel: countdowns from 3, the fewest that      *)
(* outlast a pass of the main loop, in words that hold 4 at most.          *)
(***************************************************************************)
EXTENDS Panel

MCUsed     == {0}
MCSpins    == {[e \in {0, 1} |-> 0], [e \in {0, 1} |-> IF e = 0 THEN 1 ELSE -1]}
MCHostMaps == {"B_POPN", "B_Custom"}
MCPokes    == {<<0, DPAD_UP>>}
=============================================================================
