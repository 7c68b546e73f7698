-------------------------------- MODULE MCPS2 --------------------------------
(***************************************************************************)
(* Constants for the runs of PS2: a PS2_State of eight values, so that it  *)
(* wraps, and memory card data with a 01, a 42 and another byte in it.     *)
(***************************************************************************)
EXTENDS PS2

MCCardBytes == {"00", "01", "42"}
=============================================================================
