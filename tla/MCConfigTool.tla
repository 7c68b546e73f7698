---------------------------- MODULE MCConfigTool ----------------------------
(***************************************************************************)
(* Constants for the run of ConfigTool: two tooth counts whose bytes all   *)
(* differ and two ways to drive the lights.  The map is left alone: every  *)
(* choice of it multiplies the structs that five variables hold, and what  *)
(* the dialog makes of it is proved for every entry (ConfigToolProofs).    *)
(***************************************************************************)
EXTENDS ConfigTool

MCTeeth  == {0, 1}
MCLights == {0, 1}
MCMaps   == {}
=============================================================================
