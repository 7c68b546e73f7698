----------------------------- MODULE Descriptors -----------------------------
(***************************************************************************)
(* The encoders together with the descriptor callback (Descriptors.c),     *)
(* which tells the host the largest position it will see.                  *)
(*                                                                         *)
(* Descriptors.c declares a pointer to the rotary settings under the name  *)
(* Rotary, and Rotary.c the array of encoders under the same name.  Both   *)
(* are tentative definitions, which the linker merges: assigning the       *)
(* pointer overwrites the first two bytes of encoder 0, its pin and its    *)
(* position, with the address of the settings.  The low byte of that       *)
(* address is taken to be the pin's own value, zero, as it is when the     *)
(* settings come first in memory; its high byte is SettingsHigh.           *)
(***************************************************************************)
EXTENDS Rotary

CONSTANT SettingsHigh   \* the high byte of the address of Settings.Rotary

ASSUME SettingsHighAssumption == SettingsHigh \in Byte
ASSUME EncoderZeroAssumption  == NumEncoders >= 1

VARIABLES
    LogicalMax, \* GenericReport[32], the maximum of the dial and the slider
    callback,   \* GetDescriptor has set the pointer and not yet read through it
    current     \* the maximum was made from the tooth count in use (history)

dvars == <<LogicalMax, callback, current>>
-----------------------------------------------------------------------------
DInit ==
    /\ Init
    /\ LogicalMax = ByteSize - 1
    /\ callback = FALSE
    /\ current = FALSE

(* Config_AddressRotary(&Rotary) in CALLBACK_USB_GetDescriptor. *)
AddressRotary ==
    /\ task = "main" /\ ~callback
    /\ Rotary' = [Rotary EXCEPT ![0].position = SettingsHigh]
    /\ callback' = TRUE
    /\ UNCHANGED <<shaft, HoldTime, SettingsRotary, task, next, LogicalMax, current>>

\* Fault: the maximum is the tooth count itself.
MaximumOffByOne(ppr) == IF ppr = 0 THEN LogicalMax ELSE ppr % ByteSize

\* The maximum for a tooth count, which a zero leaves as it is.
MaximumFor(ppr) == IF ppr = 0 THEN LogicalMax ELSE (ppr - 1) % ByteSize

(* The tooth count is read through the pointer, which points elsewhere if  *)
(* the interrupt moved encoder 0 in the meantime.                          *)
AlterMaximum ==
    /\ callback
    /\ LET intact == Rotary[0].position = SettingsHigh
       IN  /\ \E ppr \in IF intact THEN {SettingsRotary.RotaryPPR} ELSE Word :
                    LogicalMax' = MaximumFor(ppr)
           /\ current' = (intact /\ SettingsRotary.RotaryPPR # 0)
    /\ callback' = FALSE
    /\ UNCHANGED vars

(* The callback runs in the main loop: only the player and the interrupt   *)
(* come in between.                                                        *)
Encoding ==
    \/ \E e \in Encoders : Turn(e)
    \/ TimerISR
    \/ ~callback /\ Next

DNext ==
    \/ /\ Encoding
       /\ current' = (current /\ SettingsRotary' = SettingsRotary)
       /\ UNCHANGED <<LogicalMax, callback>>
    \/ AddressRotary
    \/ AlterMaximum

DSpec == DInit /\ [][DNext]_<<vars, dvars>>
-----------------------------------------------------------------------------
(* Properties *)

(* A host that scales by the maximum of the descriptor sees no larger      *)
(* position from an encoder that is not inverted: while the maximum is     *)
(* made from the tooth count in use, and that is one the tool offers (256  *)
(* or less), every sample that moves a position leaves it within.          *)
WithinMaximum ==
    [][TimerISR /\ current /\ SettingsRotary.RotaryPPR <= ByteSize =>
        \A e \in Encoders :
            ~Rotary[e].isInverted /\ Rotary'[e].position # Rotary[e].position
            => GetPosition(Rotary'[e]) <= LogicalMax]_<<vars, dvars>>

(* README.md:6: "Absolute-position tracking for the turntable": nothing    *)
(* but the interrupt, following the shaft, changes a position.             *)
AbsolutePosition ==
    [][\A e \in Encoders : Rotary'[e].position # Rotary[e].position => TimerISR]_<<vars, dvars>>
=============================================================================
