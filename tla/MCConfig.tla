------------------------------ MODULE MCConfig ------------------------------
(***************************************************************************)
(* Constants for the runs of Config: what the host may write.              *)
(***************************************************************************)
EXTENDS Config

MCPokes == {<<"Other", 2>>, <<"LightsComm", 1>>, <<"DeviceComm", 1>>, <<"DeviceType", ARCADE>>}
=============================================================================
