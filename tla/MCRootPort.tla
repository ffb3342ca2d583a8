----------------------------- MODULE MCRootPort -----------------------------
(***************************************************************************)
(* The controllers, register contents and addresses for the runs of        *)
(* RootPort.                                                               *)
(***************************************************************************)
EXTENDS RootPort

Setup(port, lanes, order) == [port |-> port, lane_num |-> lanes, order |-> order]

\* Every way subsys_link_init_pre makes a controller active, for any link
\* mode, with DPU or without.
MCSetups == {
  Setup(0, 16, 0), Setup(0, 8, 0), Setup(0, 4, 0),
  Setup(1, 8, 1), Setup(1, 4, 1), Setup(1, 4, 0),
  Setup(2, 4, 2), Setup(2, 4, 0),
  Setup(3, 4, 3), Setup(3, 4, 2) }

\* One controller of each aperture.
OnePerPort == {Setup(0, 16, 0), Setup(1, 8, 1), Setup(2, 4, 2), Setup(3, 4, 3)}

\* Registers that all hold the same.
AllHold(w) == [plain |-> [reg \in PlainRegs |-> w], gen3 |-> [n \in 0 .. 3 |-> w]]

\* Both alternations: every bit with both values, unlike its neighbours.  In one
\* of them the rates hold the same, in the other one rate the opposite of the next.
Even == {b \in Bits : b % 2 = 0}
Odd  == {b \in Bits : b % 2 = 1}

Alternations == {
  AllHold(Even),
  [AllHold(Odd) EXCEPT !.gen3 = [n \in 0 .. 3 |-> IF n % 2 = 0 THEN Odd ELSE Even]] }

AllZero == {AllHold({})}
=============================================================================
