-------------------------------- MODULE Pacer --------------------------------
(***************************************************************************)
(* The present pacer of nvofg: the application calls wait_slot before each *)
(* present and is held until the next display slot, or reads next_slot_time*)
(* and hands it to VK_KHR_present_wait.                                    *)
(*                                                                         *)
(* Time is the monotonic clock read by now_ns, in ticks.  A call that      *)
(* sleeps may wake up any time after its slot, so a present may be late by *)
(* any amount and the next call then finds itself behind the schedule.     *)
(***************************************************************************)
EXTENDS Integers

CONSTANTS
  Second,       \* a second in ticks; the code's are nanoseconds
  DisplayHz,    \* display_hz, rounded to a whole number; 0 stands for any that is not positive
  Multipliers,  \* what the application passes as the multiplier
  Hints,        \* what it passes as flow scale and quality
  DefaultHints, \* the flow scale and quality of a new pacer
  MaxTime       \* bound: the clock runs from 0 to MaxTime

ASSUME PacerAssumption ==
  /\ Second \in Nat /\ DisplayHz \in Nat /\ MaxTime \in Nat
  /\ Multipliers \subseteq Nat

\* recompute_period: the display period, truncated.  It is 0 for a display faster
\* than the clock's resolution.
Period == IF DisplayHz > 0 THEN Second \div DisplayHz ELSE Second \div 60

VARIABLES
  now,          \* the clock
  started,      \* fields of NvofgPacer
  next_slot,
  multiplier,
  hints,
  waiting,      \* the thread is inside wait_slot
  slot,         \* the slot that call has chosen
  \* history since create or reset, newest first
  slots,        \* the last two slots handed out
  presents,     \* the times of the last four presents
  target        \* the last target read

pacer == <<started, next_slot>>
tuning == <<multiplier, hints>>
call == <<waiting, slot>>
vars == <<now, pacer, tuning, call, slots, presents, target>>

\* A blank history stands for a regular schedule that ended before the clock's 0.
NoSlots == <<-Period, -(2 * Period)>>
NoPresents == <<-Period, -(2 * Period), -(3 * Period), -(4 * Period)>>

-----------------------------------------------------------------------------

\* A multiplier of 0 is not taken over.
Multiplier(m, old) == IF m # 0 THEN m ELSE old

Init ==
  /\ now = 0
  /\ multiplier \in {Multiplier(m, 2) : m \in Multipliers}
  /\ hints = DefaultHints
  /\ started = FALSE
  /\ next_slot = 0
  /\ waiting = FALSE
  /\ slot = 0
  /\ slots = NoSlots
  /\ presents = NoPresents
  /\ target = -Period

Tick ==
  /\ now < MaxTime
  /\ now' = now + 1
  /\ UNCHANGED <<tuning, pacer, call, slots, presents, target>>

\* The application presents at once when wait_slot returns slot s.
Present(s) ==
  /\ slots' = <<s, slots[1]>>
  /\ presents' = <<now, presents[1], presents[2], presents[3]>>

\* The slot that follows the baseline.
StartSlot == now + Period

\* wait_slot, first call after create or reset: returns at once.
FirstSlot ==
  /\ ~waiting /\ ~started
  /\ now + Period <= MaxTime
  /\ started' = TRUE
  /\ next_slot' = StartSlot
  /\ Present(now)
  /\ UNCHANGED <<tuning, now, call, target>>

\* Faulty variant: the schedule is never re-baselined.
NeverBehind == FALSE

\* The caller has fallen behind by more than one slot.
Behind == now > next_slot + Period

\* wait_slot, later calls: the clock is read once and the slot is chosen.
\* Bound: no call is made whose slot could lie past MaxTime.
EnterWait ==
  /\ ~waiting /\ started
  /\ next_slot + Period <= MaxTime
  /\ waiting' = TRUE
  /\ slot' = IF Behind THEN now ELSE next_slot
  /\ UNCHANGED <<tuning, now, pacer, slots, presents, target>>

\* Faulty variant: the loop ends only when the clock shows the slot itself.
DueExactly == now = slot

\* Faulty variant: the last stretch before the slot is not spun out.
DueNearly == now + 1 >= slot

\* Sleeping and spinning end once the clock has reached the slot.
Due == now >= slot

\* Faulty variant: the schedule does not move on from the slot handed out.
AdvanceFromOld == next_slot + Period

\* The slot after the one handed out.
Advance == slot + Period

\* wait_slot returns, any time after its slot.
ReturnSlot ==
  /\ waiting
  /\ Due
  /\ waiting' = FALSE
  /\ next_slot' = Advance
  /\ Present(slot)
  /\ UNCHANGED <<tuning, now, started, slot, target>>

\* Faulty variant: before the first slot, a target one period ahead.
TargetAhead == IF started THEN next_slot ELSE now + Period

\* What next_slot_time returns.
Target == IF started THEN next_slot ELSE now

NextSlotTime ==
  /\ ~waiting
  /\ target' = Target
  /\ UNCHANGED <<tuning, now, pacer, call, slots, presents>>

\* reset, on a hitch, a resize or a vsync change.
Reset ==
  /\ ~waiting
  /\ started' = FALSE
  /\ next_slot' = 0
  /\ slots' = NoSlots
  /\ presents' = NoPresents
  /\ target' = -Period
  /\ UNCHANGED <<tuning, now, call>>

\* tune, from a settings menu.
Tune ==
  /\ ~waiting
  /\ \E m \in Multipliers : multiplier' = Multiplier(m, multiplier)
  /\ hints' \in Hints
  /\ UNCHANGED <<now, pacer, call, slots, presents, target>>

Next ==
  \/ Tick
  \/ FirstSlot
  \/ EnterWait
  \/ ReturnSlot
  \/ NextSlotTime
  \/ Reset
  \/ Tune

Spec == Init /\ [][Next]_vars

\* The clock runs on and the scheduler wakes the thread.
FairSpec == Spec /\ WF_vars(Tick) /\ WF_vars(ReturnSlot)

-----------------------------------------------------------------------------
(* Properties.                                                             *)

\* The types of the variables.
TypeOK ==
  /\ now \in Nat
  /\ started \in BOOLEAN
  /\ next_slot \in Nat
  /\ waiting \in BOOLEAN
  /\ slot \in Nat
  /\ slots \in Int \X Int
  /\ presents \in Int \X Int \X Int \X Int
  /\ target \in Int
  /\ multiplier \in Nat \ {0}
  /\ hints \in Hints \cup {DefaultHints}

\* Consecutive slots are at least a period apart, whatever the delays and
\* re-baselining in between, and a present is never ahead of its slot.
SlotsSpaced ==
  /\ slots[1] >= slots[2] + Period
  /\ presents[1] >= slots[1]

\* No catch-up bursts: however late the application runs, four presents in a row
\* never fall within less than a period.  (Three may: a call late by two periods is
\* followed by two that return at once.)
NoBurst == presents[1] >= presents[4] + Period

\* A slot handed out is never earlier than a target read before it.
TargetsKept == [][slots' # slots /\ started' => slots'[1] >= target]_vars

\* A caller is never held for more than a period, and a target it reads is no further
\* ahead: whatever the delays before it, the schedule does not run away from the clock.
WaitBounded ==
  /\ waiting => slot <= now + Period
  /\ target <= now + Period

\* wait_slot returns: it does not sleep past its slot for ever.
WaitReturns == waiting ~> ~waiting

-----------------------------------------------------------------------------
(* The inductive invariant: how late a present may be against the slots    *)
(* around it.                                                              *)

\* The slot about to be handed out is a period or more after the last one.
ScheduleAhead ==
  /\ started => next_slot = slots[1] + Period
  /\ ~started => slots[1] + Period <= now
  /\ waiting => started /\ next_slot <= slot

\* A present is at most a period later than the slot after its own: a call that
\* comes later than that re-baselines.
LatenessBounded ==
  /\ presents[1] <= now
  /\ waiting => presents[1] <= slot + Period
  /\ presents[2] <= slots[1] + Period
  /\ presents[3] <= slots[2] + Period

\* A target read is the next slot or earlier.
TargetBounded == target <= Target

IInv ==
  /\ SlotsSpaced
  /\ NoBurst
  /\ ScheduleAhead
  /\ LatenessBounded
  /\ TargetBounded
=============================================================================
