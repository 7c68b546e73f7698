-------------------------- MODULE DurableSettings ---------------------------
(***************************************************************************)
(* What the EEPROM promises, without its header and its cells: a boot      *)
(* loads the settings of the last save, whole, however often the power     *)
(* failed since; only a save that was itself cut short leaves the next     *)
(* boot with settings that may be anything.  A boot never undoes a save.   *)
(***************************************************************************)
CONSTANTS
    Struct,     \* what the settings may be
    Initial     \* what they are at power-on, one of Struct

VARIABLES
    live,       \* the settings in memory
    committed,  \* the settings of the last save: one, or none if it was cut short
    on          \* the settings have been loaded

vars == <<live, committed, on>>
-----------------------------------------------------------------------------
Init == live = Initial /\ committed = {} /\ on = FALSE

Load ==
    /\ ~on
    /\ on' = TRUE
    /\ live' \in IF committed = {} THEN Struct ELSE committed
    /\ UNCHANGED committed

(* Nothing can be loaded: what is in memory is saved. *)
SaveInitial ==
    /\ ~on
    /\ committed = {}
    /\ on' = TRUE
    /\ committed' = {live}
    /\ UNCHANGED live

Change ==
    /\ on
    /\ live' \in Struct
    /\ UNCHANGED <<committed, on>>

BeginSave ==
    /\ on
    /\ live' \in Struct
    /\ committed' = {}
    /\ UNCHANGED on

Commit ==
    /\ on
    /\ committed' = {live}
    /\ UNCHANGED <<live, on>>

PowerOff ==
    /\ live' = Initial
    /\ on' = FALSE
    /\ UNCHANGED committed

Next == Load \/ SaveInitial \/ Change \/ BeginSave \/ Commit \/ PowerOff

Spec == Init /\ [][Next]_vars
=============================================================================
