----------------------------- MODULE PacerProofs -----------------------------
(***************************************************************************)
(* Proofs about the pacer, for every period and every delay: slots keep    *)
(* their distance, presents never bunch by more than three, no call holds  *)
(* its caller for more than a period, and a target read is honoured.       *)
(***************************************************************************)
EXTENDS Pacer, TLAPS

\* The display period is a natural number of ticks.
LEMMA PeriodType == Period \in Nat
  BY PacerAssumption DEF PacerAssumption, Period

USE PeriodType

\* A blank history is a history: its times are integers.
LEMMA BlankTypes ==
  -Period \in Int /\ NoSlots \in Int \X Int /\ NoPresents \in Int \X Int \X Int \X Int
<1>1. /\ -Period \in Int /\ -(2 * Period) \in Int
      /\ -(3 * Period) \in Int /\ -(4 * Period) \in Int
  OBVIOUS
<1> QED
  BY <1>1, Zenon DEF NoSlots, NoPresents

\* A present extends both histories.
LEMMA PresentTypes ==
  ASSUME TypeOK, NEW s \in Int, Present(s)
  PROVE  slots' \in Int \X Int /\ presents' \in Int \X Int \X Int \X Int
  BY DEF TypeOK, Present

\* The variables keep their types.
THEOREM TypeCorrect == Spec => []TypeOK
<1>1. Init => TypeOK
  <2>1. 0 \in Nat /\ FALSE \in BOOLEAN
    OBVIOUS
  <2>2. Init => multiplier \in Nat \ {0}
    BY PacerAssumption DEF PacerAssumption, Init, Multiplier
  <2> QED
    BY <2>1, <2>2, BlankTypes, Zenon DEF Init, TypeOK
<1>2. TypeOK /\ [Next]_vars => TypeOK'
  <2> SUFFICES ASSUME TypeOK, [Next]_vars PROVE TypeOK'
    OBVIOUS
  <2> USE DEF TypeOK, tuning
  <2>1. CASE Tick
    BY <2>1 DEF Tick, pacer, call
  <2>2. CASE FirstSlot
    BY <2>2, PresentTypes DEF FirstSlot, StartSlot, call
  <2>3. CASE EnterWait
    BY <2>3 DEF EnterWait, pacer
  <2>4. CASE ReturnSlot
    <3>1. slot + Period \in Nat /\ slot \in Int
      OBVIOUS
    <3>2. slots' \in Int \X Int /\ presents' \in Int \X Int \X Int \X Int
      BY <2>4, <3>1, PresentTypes DEF ReturnSlot
    <3> QED
      BY <2>4, <3>1, <3>2, Zenon DEF ReturnSlot, Advance
  <2>5. CASE NextSlotTime
    BY <2>5 DEF NextSlotTime, Target, pacer, call
  <2>6. CASE Reset
    BY <2>6, BlankTypes, Zenon DEF Reset, call
  <2>8. CASE Tune
    <3>1. multiplier' \in Nat \ {0}
      BY <2>8, PacerAssumption DEF PacerAssumption, Tune, Multiplier
    <3> QED
      BY <2>8, <3>1 DEF Tune, pacer, call
  <2>7. CASE UNCHANGED vars
    BY <2>7 DEF vars, pacer, call
  <2> QED
    BY <2>1, <2>2, <2>3, <2>4, <2>5, <2>6, <2>7, <2>8 DEF Next
<1> QED
  BY <1>1, <1>2, PTL DEF Spec

\* The initial state: both histories are blank.
LEMMA InvInit == Init => IInv
  BY DEF Init, IInv, SlotsSpaced, NoBurst, ScheduleAhead, LatenessBounded, TargetBounded,
         Target, NoSlots, NoPresents

\* Every operation keeps the schedule ahead of the slots handed out and the
\* lateness of the presents within a period of the next slot.
LEMMA InvNext == TypeOK /\ IInv /\ [Next]_vars => IInv'
<1> SUFFICES ASSUME TypeOK, IInv, [Next]_vars PROVE IInv'
  OBVIOUS
<1> USE DEF TypeOK, IInv, SlotsSpaced, NoBurst, ScheduleAhead, LatenessBounded,
            TargetBounded, Target
<1>1. CASE Tick
  BY <1>1 DEF Tick, pacer, call
<1>2. CASE FirstSlot
  BY <1>2 DEF FirstSlot, StartSlot, Present, call
<1>3. CASE EnterWait
  BY <1>3 DEF EnterWait, Behind, pacer
<1>4. CASE ReturnSlot
  BY <1>4 DEF ReturnSlot, Due, Advance, Present
<1>5. CASE NextSlotTime
  BY <1>5 DEF NextSlotTime, pacer, call
<1>6. CASE Reset
  BY <1>6 DEF Reset, NoSlots, NoPresents, call
<1>8. CASE Tune
  BY <1>8 DEF Tune, pacer, call
<1>7. CASE UNCHANGED vars
  BY <1>7 DEF vars, pacer, call
<1> QED
  BY <1>1, <1>2, <1>3, <1>4, <1>5, <1>6, <1>7, <1>8 DEF Next

\* The inductive invariant holds in every reachable state.
THEOREM InvCorrect == Spec => []IInv
  BY InvInit, InvNext, TypeCorrect, PTL DEF Spec

\* Slots are a period apart and no present precedes its slot.
THEOREM SlotsSpacedCorrect == Spec => []SlotsSpaced
<1>1. IInv => SlotsSpaced
  BY DEF IInv
<1> QED
  BY <1>1, InvCorrect, PTL

\* However late the application runs, four presents in a row take a period or more.
THEOREM NoBurstCorrect == Spec => []NoBurst
<1>1. IInv => NoBurst
  BY DEF IInv
<1> QED
  BY <1>1, InvCorrect, PTL

\* What a call holds its caller for follows from the schedule at the moment of the
\* call; while it sleeps only the clock moves.
LEMMA BoundedNext ==
  ASSUME TypeOK, IInv, WaitBounded, [Next]_vars
  PROVE  WaitBounded'
<1> USE DEF TypeOK, IInv, SlotsSpaced, ScheduleAhead, LatenessBounded, TargetBounded, WaitBounded
<1>1. started => next_slot <= now + Period
  OBVIOUS
<1>2. CASE Tick
  BY <1>2 DEF Tick, pacer, call
<1>3. CASE FirstSlot
  BY <1>3 DEF FirstSlot, call
<1>4. CASE EnterWait
  BY <1>1, <1>4 DEF EnterWait, pacer
<1>5. CASE ReturnSlot
  BY <1>5 DEF ReturnSlot
<1>6. CASE NextSlotTime
  BY <1>1, <1>6 DEF NextSlotTime, Target, pacer, call
<1>7. CASE Reset
  BY <1>7 DEF Reset, call
<1>8. CASE Tune
  BY <1>8 DEF Tune, pacer, call
<1>9. CASE UNCHANGED vars
  BY <1>9 DEF vars, pacer, call
<1> QED
  BY <1>2, <1>3, <1>4, <1>5, <1>6, <1>7, <1>8, <1>9 DEF Next

\* However the calls before it were delayed, a call returns at most a period after it
\* was made plus the lateness of its own wake-up: the next slot stands a period after
\* the last one, which was handed out when the clock had reached it.
THEOREM WaitBoundedCorrect == Spec => []WaitBounded
<1>1. Init => WaitBounded
  BY DEF Init, WaitBounded
<1>2. TypeOK /\ IInv /\ WaitBounded /\ [Next]_vars => WaitBounded'
  BY BoundedNext
<1> QED
  BY <1>1, <1>2, TypeCorrect, InvCorrect, PTL DEF Spec

\* A slot handed out is never earlier than a target read before it.
THEOREM TargetsKeptCorrect == Spec => TargetsKept
<1>1. TypeOK /\ IInv /\ [Next]_vars
        => [slots' # slots /\ started' => slots'[1] >= target]_vars
  <2> SUFFICES ASSUME TypeOK, IInv, Next, slots' # slots, started'
               PROVE  slots'[1] >= target
    OBVIOUS
  <2> USE DEF TypeOK, IInv, ScheduleAhead, TargetBounded, Target
  <2>1. CASE FirstSlot
    BY <2>1 DEF FirstSlot, Present
  <2>2. CASE ReturnSlot
    BY <2>2 DEF ReturnSlot, Present
  <2> QED
    BY <2>1, <2>2 DEF Next, Tick, EnterWait, NextSlotTime, Reset, Tune
<1> QED
  BY <1>1, TypeCorrect, InvCorrect, PTL DEF Spec, TargetsKept
=============================================================================
