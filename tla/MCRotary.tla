------------------------------ MODULE MCRotary ------------------------------
(***************************************************************************)
(* Constants for the runs of Rotary: bytes of four values, so that tooth   *)
(* counts at, below and above the size of a byte are all near.             *)
(***************************************************************************)
EXTENDS Rotary

\* Tooth counts 3 and 4, and whatever writing 0, 1 or 3 to either byte of
\* them gives on the way (zero, 5, 7, 12...).
MCStartPPR  == {3, 4}
MCPPRBytes  == {0, 1, 3}

\* The hold times 2 and, once its low byte is written, 0.
MCStartHold == {2}
MCHoldBytes == {0}
MCNone      == {}
=============================================================================
