------------------------------- MODULE BringUp ------------------------------
(***************************************************************************)
(* What the bring-up of the subsystem promises, without its registers:     *)
(* every wanted controller is first set up and then trains its link, no    *)
(* other controller is touched, and no link trains while a wanted          *)
(* controller has still to be set up, because dw_pcie_setup_rc rewrites    *)
(* link registers that must not change under training.                     *)
(***************************************************************************)
CONSTANT Controllers

VARIABLES
  wanted,       \* the controllers this build uses; fixed
  state         \* per controller: off, configured or training

bringUpVars == <<wanted, state>>

TypeOK ==
  /\ wanted \subseteq Controllers
  /\ state \in [Controllers -> {"off", "configured", "training"}]

Init ==
  /\ wanted \in SUBSET Controllers
  /\ state = [c \in Controllers |-> "off"]

Configure(c) ==
  /\ c \in wanted
  /\ state[c] = "off"
  /\ \A d \in Controllers : state[d] # "training"
  /\ state' = [state EXCEPT ![c] = "configured"]
  /\ UNCHANGED wanted

Train(c) ==
  /\ state[c] = "configured"
  /\ \A d \in wanted : state[d] # "off"
  /\ state' = [state EXCEPT ![c] = "training"]
  /\ UNCHANGED wanted

Next == \E c \in Controllers : Configure(c) \/ Train(c)

Spec == Init /\ [][Next]_bringUpVars
=============================================================================
