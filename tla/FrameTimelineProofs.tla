------------------------- MODULE FrameTimelineProofs -------------------------
(***************************************************************************)
(* What TLAPS proves of FrameTimeline, for every ring size, tier,          *)
(* interpolator and application protocol.                                  *)
(***************************************************************************)
EXTENDS FrameTimeline, TLAPS, FiniteSetTheorems, SequenceTheorems

\* A call submits at least one batch; the first and the last of them go to the
\* compute queue (prep, or a warp, comes first; a warp or the residual add last).
LEMMA StagesFacts ==
  ASSUME NEW kind \in Kinds
  PROVE  /\ Stages(kind) \in Seq(Stage)
         /\ Len(Stages(kind)) \in Nat \ {0}
         /\ \A i \in 1 .. Len(Stages(kind)) : Stages(kind)[i] \in Stage
         /\ QueueOf(Stages(kind)[1]) = "compute"
         /\ QueueOf(Stages(kind)[Len(Stages(kind))]) = "compute"
<1> DEFINE W == WarpStages(kind)
           R == ResidualStages
<1>1. /\ W \in Seq(Stage)
      /\ Len(W) \in {1, 3}
      /\ QueueOf(W[1]) = "compute"
      /\ QueueOf(W[Len(W)]) = "compute"
  <2>1. \A s \in {"warp", "flowWarp", "prep", "refineWarp"} : QueueOf(s) = "compute"
    BY DEF QueueOf
  <2>2. CASE W = <<"warp">>
    BY <2>1, <2>2 DEF Stage
  <2>3. CASE W = <<"flowWarp">>
    BY <2>1, <2>3 DEF Stage
  <2>4. CASE W = <<"prep", "ofa", "refineWarp">>
    <3>1. Len(W) = 3 /\ W[1] = "prep" /\ W[3] = "refineWarp" /\ W \in Seq(Stage)
      BY <2>4 DEF Stage
    <3> QED
      BY <2>1, <3>1
  <2> QED
    BY <2>2, <2>3, <2>4 DEF WarpStages
<1>2. R \in Seq(Stage) /\ R \in {<<>>, <<"cuda", "add">>}
  <2>1. <<>> \in Seq(Stage) /\ <<"cuda", "add">> \in Seq(Stage)
    BY DEF Stage
  <2> QED
    BY <2>1 DEF ResidualStages
<1>3. Stages(kind) = W \o R
  BY DEF Stages
<1> HIDE DEF W, R
<1>4. CASE R = <<>>
  <2>1. W \o R = W
    BY <1>1, <1>4
  <2> QED
    BY <1>1, <1>3, <2>1
<1>5. CASE R = <<"cuda", "add">>
  <2>1. Len(R) = 2 /\ R[1] = "cuda" /\ R[2] = "add"
    BY <1>5
  <2>2. /\ W \o R \in Seq(Stage)
        /\ Len(W \o R) = Len(W) + Len(R)
        /\ \A i \in 1 .. Len(W) + Len(R) :
             (W \o R)[i] = IF i <= Len(W) THEN W[i] ELSE R[i - Len(W)]
    BY <1>1, <1>2, ConcatProperties, Zenon
  <2>3. (W \o R)[1] = W[1] /\ (W \o R)[Len(W) + 2] = R[2]
    <3>1. CASE Len(W) = 1
      BY <2>1, <2>2, <3>1
    <3>2. CASE Len(W) = 3
      BY <2>1, <2>2, <3>2
    <3> QED
      BY <1>1, <3>1, <3>2
  <2>4. QueueOf("add") = "compute"
    BY DEF QueueOf
  <2>5. \A i \in 1 .. Len(W \o R) : (W \o R)[i] \in Stage
    BY <2>2
  <2> QED
    BY <1>1, <1>3, <2>1, <2>2, <2>3, <2>4, <2>5
<1> QED
  BY <1>2, <1>4, <1>5

\* The slot of a call is a slot of the ring.
LEMMA SlotType ==
  ASSUME frameIndex \in Nat
  PROVE  Slot \in Slots
BY TimelineAssumption DEF Slot, Slots

\* What a call submits: one batch per value after the last one handed out, each
\* waiting for its predecessor except the first, which goes to the compute queue.
LEMMA ChainFacts ==
  ASSUME timelineValue \in Nat, frameIndex \in Nat, calls \in Nat,
         NEW kind \in Kinds, NEW gate \in Nat
  PROVE  LET final == FinalValue(kind, timelineValue)
             chain == Chain(kind, gate)
         IN  /\ final \in Nat /\ timelineValue < final
             /\ chain \subseteq Batch
             /\ \A b \in chain : /\ b.slot = Slot
                                 /\ timelineValue < b.sig /\ b.sig <= final
                                 /\ \/ b.wait + 1 = b.sig
                                    \/ /\ b.sig = timelineValue + 1
                                       /\ QueueOf(b.stage) = "compute"
                                 /\ b.sig = final => QueueOf(b.stage) = "compute"
             /\ \A b, c \in chain : b.sig = c.sig => b = c
             /\ \A v \in timelineValue + 1 .. final : \E b \in chain : b.sig = v
<1> DEFINE S == Stages(kind)
           E(i) == [stage |-> S[i], sig |-> timelineValue + i,
                    wait |-> WaitValue(i, timelineValue),
                    gate |-> IF i = 1 THEN gate ELSE 0,
                    slot |-> Slot, call |-> calls + 1]
<1>1. /\ Len(S) \in Nat \ {0}
      /\ \A i \in 1 .. Len(S) : S[i] \in Stage
      /\ QueueOf(S[1]) = "compute"
      /\ QueueOf(S[Len(S)]) = "compute"
  BY StagesFacts
<1>2. Chain(kind, gate) = {E(i) : i \in 1 .. Len(S)}
  BY DEF Chain, PoolSlot
<1>3. FinalValue(kind, timelineValue) = timelineValue + Len(S)
  BY DEF FinalValue
<1> HIDE DEF S
<1>4. ASSUME NEW i \in 1 .. Len(S)
      PROVE  /\ E(i) \in Batch
             /\ E(i).stage = S[i]
             /\ E(i).slot = Slot
             /\ E(i).sig = timelineValue + i
             /\ E(i).sig \in Nat
             /\ i # 1 => E(i).wait + 1 = E(i).sig
  BY <1>1, SlotType DEF Batch, WaitValue
<1> HIDE DEF E
<1>5. ASSUME NEW b \in Chain(kind, gate)
      PROVE  \E i \in 1 .. Len(S) : b = E(i)
  BY <1>2
<1>6. \A v \in timelineValue + 1 .. timelineValue + Len(S) :
        \E b \in Chain(kind, gate) : b.sig = v
  <2> TAKE v \in timelineValue + 1 .. timelineValue + Len(S)
  <2>1. v - timelineValue \in 1 .. Len(S)
    BY <1>1
  <2>2. E(v - timelineValue) \in Chain(kind, gate)
    BY <1>2, <2>1
  <2>3. E(v - timelineValue).sig = v
    BY <1>1, <1>4, <2>1
  <2> QED
    BY <2>2, <2>3
<1>7. Chain(kind, gate) \subseteq Batch
  BY <1>4, <1>5
<1>8. \A b, c \in Chain(kind, gate) : b.sig = c.sig => b = c
  BY <1>1, <1>4, <1>5
<1>9. ASSUME NEW b \in Chain(kind, gate)
      PROVE  /\ b.slot = Slot
             /\ timelineValue < b.sig /\ b.sig <= timelineValue + Len(S)
             /\ \/ b.wait + 1 = b.sig
                \/ b.sig = timelineValue + 1 /\ QueueOf(b.stage) = "compute"
             /\ b.sig = timelineValue + Len(S) => QueueOf(b.stage) = "compute"
  <2>1. PICK i \in 1 .. Len(S) : b = E(i)
    BY <1>5
  <2> QED
    BY <1>1, <1>4, <2>1
<1> QED
  BY <1>1, <1>3, <1>6, <1>7, <1>8, <1>9

\* A batch in flight has the fields of a batch.
LEMMA BatchFields ==
  ASSUME NEW b \in Batch
  PROVE  /\ b.stage \in Stage /\ b.sig \in Nat /\ b.wait \in Nat
         /\ b.gate \in Nat /\ b.slot \in Slots /\ b.call \in Nat
BY DEF Batch

\* Executing a stage leaves well-formed tags.
LEMMA ExecutedType ==
  ASSUME tags \in Tags, NEW b \in Batch, CnnInterop \in BOOLEAN
  PROVE  Executed(b) \in Tags
<1> USE DEF Tags
<1>1. b.stage \in Stage /\ b.call \in Nat
  BY BatchFields
<1>2. ASSUME NEW t \in Tags, NEW flow \in Nat
      PROVE  Warped(b, t, flow) \in Tags
  BY <1>1, <1>2 DEF Warped
<1>3. CASE b.stage = "prep"
  BY <1>1, <1>3 DEF Executed
<1>4. CASE b.stage = "ofa"
  BY <1>1, <1>4 DEF Executed
<1>5. CASE b.stage = "refineWarp"
  <2>1. [tags EXCEPT !.refined = tags.flow] \in Tags /\ tags.flow \in Nat
    OBVIOUS
  <2> QED
    BY <1>2, <1>5, <2>1 DEF Executed
<1>6. CASE b.stage = "flowWarp"
  <2>1. [tags EXCEPT !.luma = b.call, !.flow = b.call, !.refined = b.call] \in Tags
    BY <1>1
  <2> QED
    BY <1>1, <1>2, <1>6, <2>1 DEF Executed
<1>7. CASE b.stage = "warp"
  BY <1>1, <1>2, <1>7 DEF Executed
<1>8. CASE b.stage = "cuda"
  BY <1>1, <1>8 DEF Executed
<1>9. CASE b.stage = "add"
  BY <1>1, <1>9 DEF Executed
<1> QED
  BY <1>1, <1>3, <1>4, <1>5, <1>6, <1>7, <1>8, <1>9 DEF Stage

\* Every variable keeps its type, and what runs was submitted: the base of all
\* that follows.
THEOREM TypeCorrect == Spec => []TypeOK
<1>1. Init => TypeOK
  <2> SUFFICES ASSUME Init
               PROVE  TypeOK
    OBVIOUS
  <2>1. tags \in Tags
    <3>1. [call |-> 0, flow |-> 0, final |-> FALSE] \in [call : Nat, flow : Nat, final : BOOLEAN]
      OBVIOUS
    <3> QED
      BY <3>1 DEF Init, Tags
  <2> QED
    BY <2>1 DEF Init, TypeOK
<1>2. TypeOK /\ [Next]_vars => TypeOK'
  <2> SUFFICES ASSUME TypeOK, [Next]_vars
               PROVE  TypeOK'
    OBVIOUS
  <2> USE DEF TypeOK
  <2>1. ASSUME NEW kind \in Kinds, Enter(kind)
        PROVE  TypeOK'
    BY <2>1 DEF Enter, history, gpu, app
  <2>2. ASSUME NEW kind \in Kinds, NEW gate \in Gates, Record(kind, gate)
        PROVE  TypeOK'
    <3>1. gate \in Nat
      BY DEF Gates
    <3>2. Slot \in Slots
      BY SlotType
    <3>3. FinalValue(kind, timelineValue) \in Nat /\ Chain(kind, gate) \subseteq Batch
      BY <3>1, ChainFacts
    <3>4. pending' \subseteq Batch /\ pending \subseteq pending'
      BY <2>2, <3>3 DEF Record
    <3>5. slotSignal' \in [Slots -> Nat]
      BY <2>2, <3>2, <3>3 DEF Record
    <3>6. calls' \in Nat /\ lastGenerate' \in Nat
      BY <2>2 DEF Record
    <3>7. returned' \subseteq SyncPoint
      BY <2>2, <3>3, <3>6 DEF Record, SyncPoint
    <3>8. /\ pc' = "idle" /\ ready' = ready /\ running' = running
          /\ timelineValue' \in Nat /\ frameIndex' \in Nat
          /\ timeline' = timeline /\ tags' = tags
          /\ signalled' = signalled /\ consumed' = consumed
      BY <2>2, <3>3 DEF Record, app
    <3> QED
      BY <3>4, <3>5, <3>6, <3>7, <3>8
  <2>3. CASE EnterTeardown
    BY <2>3 DEF EnterTeardown, history, gpu, app
  <2>4. CASE Teardown
    <3>1. tags' \in Tags
      BY <2>4 DEF Teardown, Tags
    <3> QED
      BY <2>4, <3>1 DEF Teardown, history, app
  <2>5. ASSUME NEW b \in pending, Start(b)
        PROVE  TypeOK'
    BY <2>5 DEF Start, host, history, app
  <2>6. ASSUME NEW b \in running, Finish(b)
        PROVE  TypeOK'
    <3>1. b \in Batch /\ b.sig \in Nat
      BY BatchFields
    <3>2. tags' \in Tags
      BY <2>6, <3>1, ExecutedType, TimelineAssumption DEF Finish
    <3> QED
      BY <2>6, <3>1, <3>2 DEF Finish, host, history, app
  <2>7. CASE Signal
    BY <2>7 DEF Signal, host, history, gpu
  <2>8. CASE Consume
    BY <2>8 DEF Consume, host, history, gpu
  <2>9. CASE UNCHANGED vars
    BY <2>9 DEF vars, host, history, gpu, app
  <2> QED
    BY <2>1, <2>2, <2>3, <2>4, <2>5, <2>6, <2>7, <2>8, <2>9 DEF Next
<1> QED
  BY <1>1, <1>2, PTL DEF Spec

-----------------------------------------------------------------------------
(* The chain in flight.  All the facts below are about submissions that     *)
(* succeed; a rejected one leaves a value nobody signals.                   *)

\* A call leaves the chain intact: its batches continue the values handed out
\* before, behind a batch of the compute queue.
LEMMA RecordKeepsChain ==
  ASSUME ~SubmitMayFail, TypeOK, InFlightChain,
         NEW kind \in Kinds, NEW gate \in Gates, Record(kind, gate)
  PROVE  InFlightChain'
<1> USE DEF InFlightChain
<1> DEFINE chain == Chain(kind, gate)
           final == FinalValue(kind, timelineValue)
<1>1. gate \in Nat
  BY DEF Gates, TypeOK
<1>2. /\ final \in Nat /\ timelineValue < final
      /\ chain \subseteq Batch
      /\ \A b \in chain : /\ b.slot = Slot
                          /\ timelineValue < b.sig /\ b.sig <= final
                          /\ \/ b.wait + 1 = b.sig
                             \/ /\ b.sig = timelineValue + 1
                                /\ QueueOf(b.stage) = "compute"
                          /\ b.sig = final => QueueOf(b.stage) = "compute"
      /\ \A b, c \in chain : b.sig = c.sig => b = c
      /\ \A v \in timelineValue + 1 .. final : \E b \in chain : b.sig = v
  BY <1>1, ChainFacts DEF TypeOK
<1> HIDE DEF chain, final
<1>3. pending' = pending \cup chain
  BY DEF Record, Rejected, chain
<1>4. /\ timelineValue' = final
      /\ slotSignal' = [slotSignal EXCEPT ![Slot] = final]
      /\ timeline' = timeline /\ running' = running
  BY DEF Record, final
<1>5. Slot \in Slots /\ slotSignal \in [Slots -> Nat] /\ timeline \in Nat /\ timelineValue \in Nat
  BY SlotType DEF TypeOK
<1>6. \A b \in pending : /\ b \in Batch /\ b.sig \in Nat /\ b.slot \in Slots
                         /\ timeline < b.sig /\ b.sig <= slotSignal[b.slot]
                         /\ b.sig <= timelineValue
  BY <1>5, BatchFields DEF TypeOK, ChainBounds, SlotBounds
<1>7. \A b \in chain : b.sig \in Nat
  BY <1>2, BatchFields
<1>8. \A b \in pending : b.slot # Slot
  BY <1>5, <1>6 DEF Record, SlotFree
<1>9. TimelineBounded'
  BY <1>2, <1>4, <1>5 DEF TimelineBounded
<1>10. ChainBounds'
  <2> SUFFICES ASSUME NEW b \in pending \cup chain
               PROVE  timeline < b.sig /\ b.sig <= slotSignal'[b.slot]
    BY <1>3, <1>4 DEF ChainBounds
  <2>1. CASE b \in pending
    BY <1>4, <1>5, <1>6, <1>8, <2>1
  <2>2. CASE b \in chain
    BY <1>2, <1>4, <1>5, <1>7, <2>2 DEF TimelineBounded
  <2> QED
    BY <2>1, <2>2
<1>11. SlotBounds'
  BY <1>2, <1>4, <1>5 DEF SlotBounds
<1>12. ChainUnique'
  BY <1>2, <1>3, <1>5, <1>6, <1>7 DEF ChainUnique
<1>13. ChainComplete'
  <2> SUFFICES ASSUME NEW v \in timeline + 1 .. final
               PROVE  \E b \in pending \cup chain : b.sig = v
    BY <1>3, <1>4 DEF ChainComplete
  <2>1. CASE v <= timelineValue
    BY <1>5, <2>1 DEF ChainComplete
  <2>2. CASE timelineValue < v
    <3>1. v \in timelineValue + 1 .. final
      BY <1>2, <1>5, <2>2
    <3> QED
      BY <1>2, <3>1
  <2> QED
    BY <1>5, <2>1, <2>2
<1>14. ChainOrdered'
  <2> SUFFICES ASSUME NEW b \in pending \cup chain
               PROVE  \/ b.wait + 1 = b.sig
                      \/ /\ QueueOf(b.stage) = "compute"
                         /\ \A c \in pending \cup chain :
                              c.sig + 1 = b.sig => QueueOf(c.stage) = "compute"
    BY <1>3 DEF ChainOrdered
  <2>1. CASE b \in pending
    BY <1>2, <1>5, <1>6, <1>7, <2>1 DEF ChainOrdered
  <2>2. CASE b \in chain
    BY <1>2, <1>5, <1>6, <1>7, <2>2 DEF ChainTail
  <2> QED
    BY <2>1, <2>2
<1>15. ChainTail'
  BY <1>2, <1>3, <1>4, <1>5, <1>6 DEF ChainTail
<1>16. Serial'
  BY <1>4 DEF Serial
<1> QED
  BY <1>9, <1>10, <1>11, <1>12, <1>13, <1>14, <1>15, <1>16

\* Only the batch with the next value to signal can start: a batch that waits for
\* its predecessor needs it signalled, and the first batch of a call is behind
\* the last one of the call before it, on the same queue.
LEMMA StartIsNext ==
  ASSUME TypeOK, InFlightChain, NEW b \in pending, Start(b)
  PROVE  b.sig = timeline + 1
<1> USE DEF InFlightChain
<1>1. /\ timeline \in Nat /\ timelineValue \in Nat
      /\ b \in Batch /\ b.sig \in Nat /\ b.wait \in Nat /\ b.slot \in Slots
      /\ slotSignal[b.slot] \in Nat
      /\ timeline < b.sig /\ b.sig <= timelineValue
  BY BatchFields DEF TypeOK, ChainBounds, SlotBounds
<1>2. CASE b.wait + 1 = b.sig
  BY <1>1, <1>2 DEF Start, Waited
<1>3. CASE /\ QueueOf(b.stage) = "compute"
           /\ \A c \in pending : c.sig + 1 = b.sig => QueueOf(c.stage) = "compute"
  <2> SUFFICES ASSUME timeline + 1 < b.sig
               PROVE  FALSE
    BY <1>1
  <2>1. b.sig - 1 \in timeline + 1 .. timelineValue
    BY <1>1
  <2>2. PICK c \in pending : c.sig = b.sig - 1
    BY <2>1 DEF ChainComplete
  <2>3. b.sig <= c.sig
    BY <1>1, <1>3, <2>2 DEF Start, HeadOfQueue
  <2> QED
    BY <1>1, <2>2, <2>3
<1> QED
  BY <1>2, <1>3 DEF ChainOrdered

\* A finished batch takes its value out of the chain.
LEMMA FinishKeepsChain ==
  ASSUME TypeOK, InFlightChain, NEW b \in running, Finish(b)
  PROVE  InFlightChain'
<1> USE DEF InFlightChain
<1>1. /\ b \in pending /\ b.sig = timeline + 1
      /\ timeline \in Nat /\ timelineValue \in Nat /\ slotSignal \in [Slots -> Nat]
  BY DEF TypeOK, Serial
<1>2. \A c \in pending : /\ c \in Batch /\ c.sig \in Nat /\ c.slot \in Slots
                         /\ timeline < c.sig /\ c.sig <= slotSignal[c.slot]
                         /\ c.sig <= timelineValue
  BY <1>1, BatchFields DEF TypeOK, ChainBounds, SlotBounds
<1>3. /\ pending' = pending \ {b} /\ running' = running \ {b}
      /\ timeline' = timeline + 1
      /\ timelineValue' = timelineValue /\ slotSignal' = slotSignal
  BY <1>1 DEF Finish, host
<1>4. \A c \in pending \ {b} : timeline + 1 < c.sig
  BY <1>1, <1>2 DEF ChainUnique
<1>5. TimelineBounded'
  BY <1>1, <1>2, <1>3 DEF TimelineBounded
<1>6. ChainBounds'
  BY <1>2, <1>3, <1>4 DEF ChainBounds
<1>7. SlotBounds' /\ ChainUnique' /\ ChainTail'
  BY <1>3 DEF SlotBounds, ChainUnique, ChainTail
<1>8. ChainComplete'
  <2> SUFFICES ASSUME NEW v \in timeline + 2 .. timelineValue
               PROVE  \E c \in pending \ {b} : c.sig = v
    BY <1>1, <1>3 DEF ChainComplete
  <2>1. PICK c \in pending : c.sig = v
    BY <1>1 DEF ChainComplete
  <2> QED
    BY <1>1, <2>1
<1>9. ChainOrdered'
  BY <1>3 DEF ChainOrdered
<1>10. Serial'
  <2> SUFFICES ASSUME NEW c \in running \ {b}
               PROVE  FALSE
    BY <1>3 DEF Serial
  <2> QED
    BY <1>1 DEF Serial, ChainUnique, TypeOK
<1> QED
  BY <1>5, <1>6, <1>7, <1>8, <1>9, <1>10

\* The batches in flight always form the chain: they signal exactly the values
\* the semaphore has still to reach, one each, and execute strictly in that order.
THEOREM ChainCorrect ==
  ASSUME ~SubmitMayFail
  PROVE  Spec => []InFlightChain
<1>1. Init => InFlightChain
  BY DEF Init, InFlightChain, TimelineBounded, ChainBounds, SlotBounds, ChainUnique,
         ChainComplete, ChainOrdered, ChainTail, Serial
<1>2. TypeOK /\ InFlightChain /\ [Next]_vars => InFlightChain'
  <2> SUFFICES ASSUME TypeOK, InFlightChain, [Next]_vars
               PROVE  InFlightChain'
    OBVIOUS
  <2>1. ASSUME NEW kind \in Kinds, NEW gate \in Gates, Record(kind, gate)
        PROVE  InFlightChain'
    BY <2>1, RecordKeepsChain
  <2>2. CASE Teardown
    <3>1. /\ pending' = {} /\ pending = {} /\ running' = {}
          /\ slotSignal' = [s \in Slots |-> 0]
          /\ timeline' = timeline /\ timelineValue' = timelineValue
      BY <2>2 DEF Teardown, TypeOK
    <3>2. timeline \in Nat /\ timelineValue \in Nat
      BY DEF TypeOK
    <3> QED
      BY <3>1, <3>2 DEF InFlightChain, TimelineBounded, ChainBounds, SlotBounds, ChainUnique,
                        ChainComplete, ChainOrdered, ChainTail, Serial
  <2>3. ASSUME NEW b \in pending, Start(b)
        PROVE  InFlightChain'
    <3>1. b.sig = timeline + 1
      BY <2>3, StartIsNext
    <3>2. running' = running \cup {b} /\ UNCHANGED <<pending, timeline, timelineValue, slotSignal>>
      BY <2>3 DEF Start, host
    <3>3. Serial'
      BY <3>1, <3>2 DEF InFlightChain, Serial
    <3> QED
      BY <3>2, <3>3 DEF InFlightChain, TimelineBounded, ChainBounds, SlotBounds, ChainUnique,
                        ChainComplete, ChainOrdered, ChainTail
  <2>4. ASSUME NEW b \in running, Finish(b)
        PROVE  InFlightChain'
    BY <2>4, FinishKeepsChain
  <2>5. ASSUME UNCHANGED <<pending, running, timeline, timelineValue, slotSignal>>
        PROVE  InFlightChain'
    BY <2>5 DEF InFlightChain, TimelineBounded, ChainBounds, SlotBounds, ChainUnique,
                ChainComplete, ChainOrdered, ChainTail, Serial
  <2>6. CASE \/ \E kind \in Kinds : Enter(kind)
             \/ EnterTeardown \/ Signal \/ Consume \/ UNCHANGED vars
    BY <2>5, <2>6 DEF Enter, EnterTeardown, Signal, Consume, vars, host, history, gpu, app
  <2> QED
    BY <2>1, <2>2, <2>3, <2>4, <2>6 DEF Next
<1> QED
  BY <1>1, <1>2, TypeCorrect, PTL DEF Spec

\* The stages of all frames in flight execute one at a time, so none touches a
\* shared resource while another writes it.
THEOREM NoRaceCorrect ==
  ASSUME ~SubmitMayFail
  PROVE  Spec => []NoRace
<1>1. TypeOK /\ InFlightChain => NoRace
  BY DEF TypeOK, InFlightChain, NoRace, Serial, ChainUnique
<1> QED
  BY <1>1, TypeCorrect, ChainCorrect, PTL

\* A call resets the pools of a slot only when nothing recorded from them is in
\* flight: the value the host waited for is the last one the slot signals.
THEOREM ReuseCorrect ==
  ASSUME ~SubmitMayFail
  PROVE  Spec => ReuseSafe
<1> DEFINE Fresh == \A b \in pending' \ pending : \A c \in pending : c.slot # b.slot
<1>1. TypeOK /\ InFlightChain /\ [Next]_vars => [Fresh]_vars
  <2> SUFFICES ASSUME TypeOK, InFlightChain, Next
               PROVE  Fresh
    BY DEF vars
  <2>1. ASSUME NEW kind \in Kinds, NEW gate \in Gates, Record(kind, gate)
        PROVE  Fresh
    <3>1. Slot \in Slots /\ gate \in Nat
      BY SlotType DEF TypeOK, Gates
    <3>2. \A b \in Chain(kind, gate) : b.slot = Slot
      BY <3>1, ChainFacts DEF TypeOK
    <3>3. pending' \ pending \subseteq Chain(kind, gate)
      BY <2>1 DEF Record
    <3>4. ASSUME NEW c \in pending
          PROVE  c.slot # Slot
      <4>1. /\ c.sig \in Nat /\ c.slot \in Slots /\ timeline \in Nat
            /\ slotSignal \in [Slots -> Nat]
        BY BatchFields DEF TypeOK
      <4> QED
        BY <2>1, <3>1, <4>1 DEF InFlightChain, ChainBounds, Record, SlotFree
    <3> QED
      BY <3>2, <3>3, <3>4
  <2>2. ASSUME pending' \subseteq pending
        PROVE  Fresh
    BY <2>2
  <2>3. CASE \/ \E kind \in Kinds : Enter(kind)
             \/ EnterTeardown \/ Teardown \/ Signal \/ Consume
             \/ \E b \in pending : Start(b)
             \/ \E b \in running : Finish(b)
    BY <2>2, <2>3 DEF Enter, EnterTeardown, Teardown, Signal, Consume, Start, Finish,
                      gpu
  <2> QED
    BY <2>1, <2>3 DEF Next
<1> QED
  BY <1>1, TypeCorrect, ChainCorrect, PTL DEF Spec, ReuseSafe

\* The semaphore only ever moves forward: each signal is the successor of the
\* value before it.
THEOREM SignalsIncreaseCorrect ==
  ASSUME ~SubmitMayFail
  PROVE  Spec => SignalsIncrease
<1>1. TypeOK /\ InFlightChain /\ [Next]_vars => [timeline' > timeline]_timeline
  <2> SUFFICES ASSUME TypeOK, InFlightChain, [Next]_vars, timeline' # timeline
               PROVE  timeline' > timeline
    OBVIOUS
  <2>1. PICK b \in running : Finish(b)
    BY DEF Next, Enter, Record, EnterTeardown, Teardown, Start, Signal, Consume, vars, gpu
  <2> QED
    BY <2>1 DEF Finish, InFlightChain, Serial, TypeOK
<1> QED
  BY <1>1, TypeCorrect, ChainCorrect, PTL DEF Spec, SignalsIncrease
=============================================================================
