---------------------------- MODULE MCDescriptors ----------------------------
(***************************************************************************)
(* Constants for the runs of Descriptors: bytes of four values, tooth      *)
(* counts below and at the size of a byte.                                 *)
(***************************************************************************)
EXTENDS Descriptors

MCStartPPR  == {2, 3, 4}
MCStartHold == {1}
MCPPRBytes  == {0, 1, 3}
MCNone      == {}
=============================================================================
