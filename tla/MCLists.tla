------------------------------ MODULE MCLists -------------------------------
(***************************************************************************)
(* One run for both kinds of lists: each behaviour uses one of them.       *)
(***************************************************************************)
EXTENDS ListHead, TLC

VARIABLES hashed, hashMem, hashLoop, hashCall

H == INSTANCE HashList WITH mem <- hashMem, loop <- hashLoop, call <- hashCall

MCInit == hashed \in BOOLEAN /\ Init /\ H!Init

MCNext ==
  \/ ~hashed /\ Next /\ UNCHANGED <<hashed, hashMem, hashLoop, hashCall>>
  \/ hashed /\ H!HashNext /\ UNCHANGED <<hashed, mem, loop, call>>

MCSpec == MCInit /\ [][MCNext]_<<mem, loop, call, hashed, hashMem, hashLoop, hashCall>>

\* The specifications treat all heads alike and all entries alike.
Symmetry == Permutations(Heads) \cup Permutations(Entries)

(***************************************************************************)
(* The pointers of the hash lists keep the promises of list.h.             *)
(***************************************************************************)
ImplementsHashLists == H!ImplementsHashLists
=============================================================================
