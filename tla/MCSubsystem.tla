----------------------------- MODULE MCSubsystem ----------------------------
(***************************************************************************)
(* Builds and register contents for the runs of Subsystem.                 *)
(***************************************************************************)
EXTENDS Subsystem

Server_8_8_0_0  == [dpu |-> FALSE, mode |-> LINK_MODE_8_8_0_0]
Server_16_0_0_0 == [dpu |-> FALSE, mode |-> LINK_MODE_16_0_0_0]
Dpu_X16         == [dpu |-> TRUE, mode |-> LINK_MODE_16_0_0_0]
SomeBuilds      == {Server_8_8_0_0, Server_16_0_0_0, Dpu_X16}
DefaultBuild    == {Server_16_0_0_0}

\* Every even bit set: no field holds what the set-up writes.
EvenBits ==
  LET w == {b \in 0 .. 31 : b % 2 = 0}
  IN  {[plain |-> [reg \in R!PlainRegs |-> w], gen3 |-> [n \in 0 .. 3 |-> w]]}
=============================================================================
