------------------------------ MODULE ByteSpace -----------------------------
(***************************************************************************)
(* What the sized DBI accessors promise: a space of bytes, of which a run  *)
(* of one, two or four can be accessed at once, low byte first.  A write   *)
(* leaves in its run the bytes it was given and changes nothing else.  A   *)
(* read of a readable run returns its bytes; of another run it returns     *)
(* anything.  An access to a foreign run, where the space has no bytes,    *)
(* changes nothing.                                                        *)
(***************************************************************************)
EXTENDS Integers, Sequences

CONSTANTS
  Locations,        \* the bytes of the space
  Runs,             \* the sequences of locations that can be written
  Readable,         \* those that can be read
  Foreign,          \* sequences of locations that are not in the space
  Byte              \* the values of a byte, 0 among them

VARIABLES
  bytes,            \* the byte at each location
  access            \* the last access: its op, its run and the bytes read or written

spaceVars == <<bytes, access>>

Init ==
  /\ bytes \in [Locations -> {0}]
  /\ access.op = "none"

Read(run) ==
  /\ access' = [op |-> "read", run |-> run, val |-> [n \in DOMAIN run |-> bytes[run[n]]]]
  /\ UNCHANGED bytes

ReadAnything(run) ==
  /\ \E v \in [DOMAIN run -> Byte] : access' = [op |-> "read", run |-> run, val |-> v]
  /\ UNCHANGED bytes

Write(run, v) ==
  /\ access' = [op |-> "write", run |-> run, val |-> v]
  /\ \A n \in DOMAIN run : bytes'[run[n]] = v[n]
  /\ \A l \in Locations \ {run[n] : n \in DOMAIN run} : bytes'[l] = bytes[l]

WriteNowhere(run, v) ==
  /\ access' = [op |-> "write", run |-> run, val |-> v]
  /\ UNCHANGED bytes

\* A write on its way, the first access of the bus of which changes nothing.
Begin(run) ==
  /\ access' = [op |-> "none", run |-> run, val |-> [n \in DOMAIN run |-> 0]]
  /\ UNCHANGED bytes

Next ==
  \/ \E run \in Runs \cup Foreign : Begin(run)
  \/ \E run \in Readable : Read(run)
  \/ \E run \in (Runs \cup Foreign) \ Readable : ReadAnything(run)
  \/ \E run \in Runs : \E v \in [DOMAIN run -> Byte] : Write(run, v)
  \/ \E run \in Foreign : \E v \in [DOMAIN run -> Byte] : WriteNowhere(run, v)

Spec == Init /\ [][Next]_spaceVars
=============================================================================
