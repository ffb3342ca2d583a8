------------------------------- MODULE Udelay -------------------------------
(***************************************************************************)
(* The busy wait of the IPBENCH build, udelay() in src/pcie_duowen.c:      *)
(*                                                                         *)
(*     current = get_counter();                                            *)
(*     next = current + time * 125;                                        *)
(*     do { current = get_counter(); } while (current < next);             *)
(*                                                                         *)
(* The counter is a free-running 32-bit register read over APB.  All of    *)
(* current, next and the counter are uint32_t, so the sum wraps, while the *)
(* loop compares with the unsigned order.  The counter runs concurrently   *)
(* with the loop: it ticks between any two reads.                          *)
(***************************************************************************)
EXTENDS Integers

CONSTANTS
  Modulus,      \* 2^32 in the code: the number of values of a uint32_t
  TicksPerUs,   \* 125 in the code: counter ticks in a microsecond
  Times,        \* the arguments udelay is called with
  MaxGap        \* ticks that can pass between two consecutive APB reads

ASSUME UdelayAssumption ==
  /\ Modulus \in Nat \ {0}
  /\ TicksPerUs \in Nat
  /\ Times \subseteq Nat
  /\ MaxGap \in Nat

VARIABLES
  counter,      \* the hardware counter behind COUNTER_ADDR
  current,      \* last value the loop read
  next,         \* the deadline
  polling,      \* control is inside udelay's loop
  time,         \* the argument of the last call
  start,        \* the first value udelay read in the last call
  gap,          \* ticks since the last read of the counter
  elapsed       \* ticks since the first read, saturating at Modulus

delayVars == <<counter, current, next, polling, time, start, gap, elapsed>>

Word == 0 .. Modulus - 1

TypeOK ==
  /\ counter \in Word
  /\ current \in Word
  /\ next \in Word
  /\ polling \in BOOLEAN
  /\ time \in Nat
  /\ start \in Word
  /\ gap \in 0 .. MaxGap
  /\ elapsed \in 0 .. Modulus

(***************************************************************************)
(* The counter has any value when the program starts.                      *)
(***************************************************************************)
Init ==
  /\ counter \in Word
  /\ current = 0
  /\ next = 0
  /\ polling = FALSE
  /\ time = 0
  /\ start = 0
  /\ gap = 0
  /\ elapsed = 0

(***************************************************************************)
(* time * 125, in ticks.                                                   *)
(***************************************************************************)
Ticks(t) == t * TicksPerUs

DeadlineUnscaled(from, t) == (from + t) % Modulus

DeadlineUncut(from, t) == from + Ticks(t)

(***************************************************************************)
(* next = current + time * 125 in uint32_t arithmetic.                     *)
(***************************************************************************)
Deadline(from, t) == (from + Ticks(t)) % Modulus

(***************************************************************************)
(* The call: read the counter and compute the deadline.                    *)
(***************************************************************************)
Enter(t) ==
  /\ ~polling
  /\ polling' = TRUE
  /\ time' = t
  /\ start' = counter
  /\ current' = counter
  /\ next' = Deadline(counter, t)
  /\ gap' = 0
  /\ elapsed' = 0
  /\ UNCHANGED counter

(***************************************************************************)
(* One turn of the do-while loop: read again, leave unless current < next. *)
(***************************************************************************)
PollLeaveOnGreater ==
  /\ polling
  /\ current' = counter
  /\ polling' = (counter <= next)
  /\ gap' = 0
  /\ UNCHANGED <<counter, next, time, start, elapsed>>

PollUnlessEqual ==
  /\ polling
  /\ current' = counter
  /\ polling' = (counter # next)
  /\ gap' = 0
  /\ UNCHANGED <<counter, next, time, start, elapsed>>

Poll ==
  /\ polling
  /\ current' = counter
  /\ polling' = (counter < next)
  /\ gap' = 0
  /\ UNCHANGED <<counter, next, time, start, elapsed>>

(***************************************************************************)
(* The counter advances and wraps.  While the loop runs, a read is         *)
(* answered within MaxGap ticks of the previous one.                       *)
(***************************************************************************)
Tick ==
  /\ polling => gap < MaxGap
  /\ counter' = IF counter = Modulus - 1 THEN 0 ELSE counter + 1
  /\ gap' = IF polling THEN gap + 1 ELSE gap
  /\ elapsed' = IF polling /\ elapsed < Modulus THEN elapsed + 1 ELSE elapsed
  /\ UNCHANGED <<current, next, polling, time, start>>

Next ==
  \/ \E t \in Times : Enter(t)
  \/ Poll
  \/ Tick

(***************************************************************************)
(* The clock runs and the processor keeps executing the loop.  Nothing     *)
(* obliges the program to call udelay.                                     *)
(***************************************************************************)
Fairness == WF_delayVars(Poll) /\ WF_delayVars(Tick)

Spec == Init /\ [][Next]_delayVars /\ Fairness

-----------------------------------------------------------------------------
(***************************************************************************)
(* Properties.                                                             *)
(***************************************************************************)

\* The deadline of the running or last call did not wrap past zero.
NoWrap == start + Ticks(time) < Modulus

\* Two reads cannot step over the values from the deadline to the wrap.
WindowOpen == next + MaxGap <= Modulus

(***************************************************************************)
(* When udelay has returned and its deadline did not wrap, at least        *)
(* time * 125 ticks have passed since it was called (the loop of           *)
(* udelay waited for the requested time), wherever the counter stood and   *)
(* however its ticks fell between the reads.                               *)
(***************************************************************************)
WaitsLongEnough ==
  ~polling /\ NoWrap => elapsed >= Ticks(time)

(***************************************************************************)
(* While the deadline is neither wrapped nor within MaxGap of the wrap,    *)
(* the loop of udelay overshoots by less than one read interval: the read  *)
(* that ends it is the first one at or after the deadline.                 *)
(***************************************************************************)
OvershootBounded ==
  Ticks(time) > 0 /\ NoWrap /\ WindowOpen => elapsed < Ticks(time) + MaxGap

(***************************************************************************)
(* The loop of udelay ends, wrapped deadline or not, unless the deadline   *)
(* is so close to the wrap that every read can miss the values that stop   *)
(* the loop.                                                               *)
(***************************************************************************)
DelayEnds == (polling /\ WindowOpen) ~> ~polling
=============================================================================
