----------------------------- MODULE MCPlatform -----------------------------
(***************************************************************************)
(* Builds for the runs of Platform.                                        *)
(***************************************************************************)
EXTENDS Platform

Dpu_X4_1 == {[dpu |-> TRUE, mode |-> LINK_MODE_8_4_0_4]}
Server_8_4_0_4 == {[dpu |-> FALSE, mode |-> LINK_MODE_8_4_0_4]}
Default == {[dpu |-> FALSE, mode |-> LINK_MODE_16_0_0_0]}
=============================================================================
