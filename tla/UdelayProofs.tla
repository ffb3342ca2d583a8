---------------------------- MODULE UdelayProofs ----------------------------
(***************************************************************************)
(* Proofs about the busy wait of src/pcie_duowen.c for every width of the  *)
(* counter, every tick rate and every read latency.                        *)
(***************************************************************************)
EXTENDS Udelay, TLAPS

(***************************************************************************)
(* The wait inside the loop, for a deadline that did not wrap: until the   *)
(* elapsed time saturates, the counter is start + elapsed up to one wrap.  *)
(***************************************************************************)
CounterTracksElapsed ==
  polling /\ elapsed < Modulus =>
    \/ counter = start + elapsed
    \/ counter = start + elapsed - Modulus

DeadlineExact == NoWrap => next = start + Ticks(time)

(***************************************************************************)
(* With room between the deadline and the wrap, every read so far was      *)
(* before the deadline and the counter has not wrapped.                    *)
(***************************************************************************)
ReadsBeforeDeadline ==
  polling /\ Ticks(time) > 0 /\ NoWrap /\ WindowOpen =>
    /\ start <= current
    /\ current < next
    /\ counter = current + gap
    /\ elapsed = current + gap - start

DelayInv ==
  /\ TypeOK
  /\ CounterTracksElapsed
  /\ DeadlineExact
  /\ ReadsBeforeDeadline
  /\ WaitsLongEnough
  /\ OvershootBounded

\* time * 125 is a number of ticks.
LEMMA TicksNat == ASSUME NEW t \in Nat PROVE Ticks(t) \in Nat
BY UdelayAssumption DEF Ticks

\* next is a uint32_t, and exact when the sum does not wrap.
LEMMA DeadlineType ==
  ASSUME NEW c \in Word, NEW t \in Nat
  PROVE  /\ Deadline(c, t) \in Word
         /\ c + Ticks(t) < Modulus => Deadline(c, t) = c + Ticks(t)
<1>1. Ticks(t) \in Nat
  BY TicksNat
<1> DEFINE s == c + Ticks(t)
<1>2. s \in Nat
  BY <1>1, UdelayAssumption DEF Word
<1>3. s % Modulus \in 0 .. Modulus - 1
  BY <1>2, UdelayAssumption
<1>4. s < Modulus => s % Modulus = s
  BY <1>2, UdelayAssumption
<1>5. QED
  BY <1>3, <1>4 DEF Deadline, Word

\* The invariant holds before the first call of udelay.
LEMMA InitDelayInv == Init => DelayInv
<1> SUFFICES ASSUME Init PROVE DelayInv
  OBVIOUS
<1>1. Ticks(time) = 0
  BY UdelayAssumption DEF Init, Ticks
<1>2. TypeOK
  <2>1. 0 \in Word /\ 0 \in 0 .. MaxGap /\ 0 \in 0 .. Modulus
    BY UdelayAssumption DEF Word
  <2>2. QED
    BY <2>1 DEF Init, TypeOK
<1>3. CounterTracksElapsed /\ ReadsBeforeDeadline
  BY DEF Init, CounterTracksElapsed, ReadsBeforeDeadline
<1>4. DeadlineExact /\ WaitsLongEnough /\ OvershootBounded
  BY <1>1 DEF Init, DeadlineExact, WaitsLongEnough, OvershootBounded
<1>5. QED
  BY <1>2, <1>3, <1>4 DEF DelayInv

\* A call, a turn of the loop and a tick keep the invariant.
LEMMA NextDelayInv == DelayInv /\ [Next]_delayVars => DelayInv'
<1> SUFFICES ASSUME DelayInv, [Next]_delayVars PROVE DelayInv'
  OBVIOUS
<1> USE UdelayAssumption DEF DelayInv, NoWrap, WindowOpen
<1>0. Ticks(time) \in Nat
  BY TicksNat DEF TypeOK
<1>1. ASSUME NEW t \in Times, Enter(t) PROVE DelayInv'
  <2>1. /\ t \in Nat
        /\ Ticks(t) \in Nat
    BY TicksNat
  <2>2. /\ next' \in Word
        /\ counter + Ticks(t) < Modulus => next' = counter + Ticks(t)
    BY <1>1, <2>1, DeadlineType DEF Enter, TypeOK
  <2>3. /\ polling' = TRUE /\ time' = t /\ start' = counter /\ current' = counter
        /\ gap' = 0 /\ elapsed' = 0 /\ counter' = counter
    BY <1>1 DEF Enter
  <2>4. TypeOK'
    BY <2>1, <2>2, <2>3 DEF TypeOK
  <2>5. Ticks(time)' = Ticks(t)
    BY <2>3 DEF Ticks
  <2>6. DeadlineExact' /\ WaitsLongEnough'
    BY <2>2, <2>3, <2>5 DEF DeadlineExact, WaitsLongEnough
  <2>7. counter \in Word
    BY DEF TypeOK
  <2>8. CounterTracksElapsed'
    BY <2>3, <2>7 DEF CounterTracksElapsed, Word
  <2>9. ReadsBeforeDeadline'
    BY <2>1, <2>2, <2>3, <2>5, <2>7 DEF ReadsBeforeDeadline, Word
  <2>10. OvershootBounded'
    BY <2>1, <2>3, <2>5 DEF OvershootBounded
  <2>11. QED
    BY <2>4, <2>6, <2>8, <2>9, <2>10
<1>2. ASSUME Poll PROVE DelayInv'
  <2>1. TypeOK'
    BY <1>2 DEF Poll, TypeOK
  <2>2. Ticks(time)' = Ticks(time)
    BY <1>2 DEF Poll, Ticks
  <2>3. CounterTracksElapsed' /\ DeadlineExact' /\ OvershootBounded'
    BY <1>2, <2>2
       DEF Poll, CounterTracksElapsed, DeadlineExact, OvershootBounded
  <2>4. ReadsBeforeDeadline'
    <3> SUFFICES ASSUME polling', Ticks(time)' > 0, NoWrap', WindowOpen'
                 PROVE  /\ start' <= current'
                        /\ current' < next'
                        /\ counter' = current' + gap'
                        /\ elapsed' = current' + gap' - start'
      BY DEF ReadsBeforeDeadline
    <3>1. /\ start <= current
          /\ counter = current + gap
          /\ elapsed = current + gap - start
      BY <1>2, <2>2 DEF Poll, ReadsBeforeDeadline
    <3>2. counter < next
      BY <1>2 DEF Poll
    <3>3. QED
      BY <1>2, <3>1, <3>2 DEF Poll, TypeOK, Word
  <2>5. WaitsLongEnough'
    <3> SUFFICES ASSUME ~polling', NoWrap'
                 PROVE  elapsed >= Ticks(time)
      BY <1>2, <2>2 DEF Poll, WaitsLongEnough
    <3>0. NoWrap
      BY <1>2, <2>2 DEF Poll
    <3>1. /\ counter >= next
          /\ next = start + Ticks(time)
          /\ next < Modulus
      <4>1. ~(counter < next)
        BY <1>2 DEF Poll
      <4>2. next = start + Ticks(time) /\ next < Modulus
        BY <3>0 DEF DeadlineExact
      <4>3. QED
        BY <4>1, <4>2 DEF TypeOK, Word
    <3>2. CASE elapsed = Modulus
      BY <1>0, <3>1, <3>2 DEF TypeOK, Word
    <3>3. CASE elapsed < Modulus
      <4>1. counter = start + elapsed \/ counter = start + elapsed - Modulus
        BY <1>2, <3>3 DEF Poll, CounterTracksElapsed
      <4>2. QED
        BY <1>0, <3>1, <3>3, <4>1 DEF TypeOK, Word
    <3>4. QED
      BY <3>2, <3>3 DEF TypeOK
  <2>6. QED
    BY <2>1, <2>3, <2>4, <2>5
<1>3. ASSUME Tick PROVE DelayInv'
  <2>1. TypeOK'
    BY <1>3 DEF Tick, TypeOK, Word
  <2>2. Ticks(time)' = Ticks(time)
    BY <1>3 DEF Tick, Ticks
  <2>3. CounterTracksElapsed'
    BY <1>3 DEF Tick, TypeOK, Word, CounterTracksElapsed
  <2>4. DeadlineExact' /\ WaitsLongEnough'
    BY <1>3, <2>2 DEF Tick, DeadlineExact, WaitsLongEnough
  <2>5. ASSUME polling, Ticks(time) > 0, NoWrap, WindowOpen
        PROVE  /\ start <= current /\ current < next
               /\ counter' = current + gap'
               /\ elapsed' = current + gap' - start
    <3>1. /\ start <= current /\ current < next
          /\ counter = current + gap
          /\ elapsed = current + gap - start
      BY <2>5 DEF ReadsBeforeDeadline
    <3>2. gap < MaxGap /\ gap' = gap + 1
      BY <1>3, <2>5 DEF Tick
    <3>3. counter + 1 < Modulus
      BY <2>5, <3>1, <3>2 DEF TypeOK, Word
    <3>4. counter' = counter + 1
      BY <1>3, <3>3 DEF Tick, TypeOK, Word
    <3>5. elapsed' = elapsed + 1
      BY <1>3, <2>5, <3>1, <3>3 DEF Tick, TypeOK, Word
    <3>6. QED
      BY <3>1, <3>2, <3>4, <3>5 DEF TypeOK, Word
  <2>8. ReadsBeforeDeadline'
    BY <1>3, <2>2, <2>5 DEF Tick, ReadsBeforeDeadline
  <2>6. OvershootBounded'
    <3> SUFFICES ASSUME Ticks(time) > 0, NoWrap, WindowOpen
                 PROVE  elapsed' < Ticks(time) + MaxGap
      BY <1>3, <2>2 DEF Tick, OvershootBounded
    <3>1. CASE ~polling
      BY <1>3, <3>1 DEF Tick, OvershootBounded
    <3>2. CASE polling
      <4>1. /\ start <= current /\ current < next
            /\ elapsed' = current + gap' - start
        BY <2>5, <3>2
      <4>2. next = start + Ticks(time)
        BY DEF DeadlineExact
      <4>3. QED
        BY <1>0, <2>1, <4>1, <4>2 DEF TypeOK, Word
    <3>3. QED
      BY <3>1, <3>2
  <2>7. QED
    BY <2>1, <2>3, <2>4, <2>6, <2>8
<1>4. CASE UNCHANGED delayVars
  BY <1>4
     DEF delayVars, TypeOK, Word, CounterTracksElapsed, DeadlineExact, Ticks,
         ReadsBeforeDeadline, WaitsLongEnough, OvershootBounded
<1>5. QED
  BY <1>1, <1>2, <1>3, <1>4 DEF Next

(***************************************************************************)
(* Every variable of the busy wait keeps its type: in particular the       *)
(* deadline stays a uint32_t and the gap between reads bounded.            *)
(***************************************************************************)
THEOREM DelayTypeCorrect == Spec => []TypeOK
BY InitDelayInv, NextDelayInv, PTL DEF Spec, DelayInv

(***************************************************************************)
(* udelay never returns early unless its deadline wrapped.                 *)
(***************************************************************************)
THEOREM DelayWaits == Spec => []WaitsLongEnough
BY InitDelayInv, NextDelayInv, PTL DEF Spec, DelayInv

(***************************************************************************)
(* udelay returns less than one read interval after its deadline, when the *)
(* deadline leaves room for that read before the wrap.                     *)
(***************************************************************************)
THEOREM DelayOvershoot == Spec => []OvershootBounded
BY InitDelayInv, NextDelayInv, PTL DEF Spec, DelayInv
=============================================================================
