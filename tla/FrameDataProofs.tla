---------------------------- MODULE FrameDataProofs ----------------------------
(***************************************************************************)
(* What TLAPS proves of the contents of the shared images in               *)
(* FrameTimeline, and of the order in which frames complete: every reader  *)
(* finds the data of its own call, although the images exist once, several *)
(* calls are in flight and a warp uses the flow of an earlier call.  That  *)
(* order also means that something in flight can always go on.             *)
(***************************************************************************)
EXTENDS FrameTimelineProofs

-----------------------------------------------------------------------------
(* The inductive invariant.                                                 *)

FlowStages == {"prep", "ofa", "refineWarp", "flowWarp"}
Refiners   == {"refineWarp", "flowWarp"}
Warps      == Refiners \cup {"warp"}

\* The number of batches of a call behind the one of this stage.
Remaining(stage) ==
  LET residual == IF CnnInterop THEN 2 ELSE 0
  IN  CASE stage = "prep" -> residual + 2
        [] stage = "ofa"  -> residual + 1
        [] stage = "cuda" -> 1
        [] stage = "add"  -> 0
        [] OTHER          -> residual

\* A batch of one of these stages is still to be executed for a call.
Due(stages, call) == \E b \in pending : b.stage \in stages /\ b.call = call

\* Every sync point belongs to one call.
SyncPoints ==
  /\ \A r \in returned : r.call \in 1 .. calls /\ r.value <= timelineValue
  /\ \A q, r \in returned : q.call = r.call => q = r
  /\ lastGenerate <= calls

\* Every batch in flight belongs to a call that has returned, at its place among
\* the values of the sync points.
CallSpans ==
  \A b \in pending :
    /\ b.call \in 1 .. calls
    /\ \E r \in returned : r.call = b.call
    /\ \A r \in returned :
         /\ r.call = b.call => r.value = b.sig + Remaining(b.stage)
         /\ r.call < b.call => r.value < b.sig
         /\ r.call > b.call => r.value > b.sig
         /\ r.call = b.call /\ b.stage \in FlowStages => r.flow = b.call

CallsInOrder == \A b, c \in pending : b.sig < c.sig => b.call <= c.call

\* A tier submits its own stages only.
TierStages ==
  \A b \in pending :
    /\ b.stage \in {"prep", "ofa", "refineWarp"} => ~ShaderFlow
    /\ b.stage = "flowWarp" => ShaderFlow
    /\ b.stage \in {"cuda", "add"} => CnnInterop

\* What an image holds is older than what is still to be written to it.
TagsBounded ==
  /\ {tags.luma, tags.flow, tags.refined, tags.cnnIn, tags.cnnOut, tags.output.call} \subseteq 0 .. calls
  /\ \A b \in pending :
       /\ b.stage \in {"prep", "flowWarp"} => tags.luma < b.call
       /\ b.stage \in {"ofa", "flowWarp"} => tags.flow < b.call
       /\ b.stage \in Refiners => tags.refined < b.call /\ b.call <= lastGenerate
       /\ b.stage \in Warps => tags.cnnIn < b.call /\ tags.output.call < b.call
       /\ b.stage = "cuda" /\ PackPass => tags.cnnOut < b.call

\* The image a batch reads holds the data of its call, or the batch that writes
\* them is still to come.
InputDue ==
  \A b \in pending :
    /\ b.stage = "ofa" => tags.luma = b.call \/ Due({"prep"}, b.call)
    /\ b.stage = "refineWarp" => tags.flow = b.call \/ Due({"ofa"}, b.call)
    /\ b.stage = "cuda" /\ PackPass => tags.cnnIn = b.call \/ Due(Warps, b.call)
    /\ b.stage = "add" /\ PackPass => tags.cnnOut = b.call \/ Due({"cuda"}, b.call)

\* A warp reads the flow its sync point names, the one of the last generate before it.
FlowDue ==
  \A b \in pending, r \in returned :
    b.stage = "warp" /\ r.call = b.call =>
      /\ tags.refined = r.flow \/ Due(Refiners, r.flow)
      /\ r.flow < b.call
      /\ \A c \in pending : c.stage \in Refiners /\ c.call < b.call => c.call <= r.flow

\* The residual is added to the frame of its own call.
OutputDue ==
  \A b \in pending, r \in returned :
    b.stage = "add" /\ r.call = b.call =>
      \/ tags.output.call = b.call /\ tags.output.flow = r.flow
      \/ Due(Warps, b.call)

\* A warp that is accepted finds the flow of the last generate.
LastFlowDue ==
  pc = "warp" \/ (ready /\ pc # "generate") =>
    tags.refined = lastGenerate \/ Due(Refiners, lastGenerate)

DataInv ==
  /\ SyncPoints /\ CallSpans /\ CallsInOrder /\ TierStages
  /\ TagsBounded /\ InputDue /\ FlowDue /\ OutputDue /\ LastFlowDue

-----------------------------------------------------------------------------
(* What a call submits.                                                     *)

\* The stages of a call: the warp's, and behind them the residual's if there is an interop.
LEMMA StagesLayout ==
  ASSUME NEW kind \in Kinds
  PROVE  LET S == Stages(kind)
             W == WarpStages(kind)
         IN  /\ Len(W) \in {1, 3}
             /\ Len(S) = Len(W) + (IF CnnInterop THEN 2 ELSE 0)
             /\ \A i \in 1 .. Len(W) : S[i] = W[i]
             /\ CnnInterop => S[Len(W) + 1] = "cuda" /\ S[Len(W) + 2] = "add"
<1> DEFINE W == WarpStages(kind)
           R == ResidualStages
<1>1. W \in Seq(Stage) /\ Len(W) \in {1, 3}
  <2>1. CASE W = <<"warp">>
    BY <2>1 DEF Stage
  <2>2. CASE W = <<"flowWarp">>
    BY <2>2 DEF Stage
  <2>3. CASE W = <<"prep", "ofa", "refineWarp">>
    BY <2>3 DEF Stage
  <2> QED
    BY <2>1, <2>2, <2>3 DEF WarpStages
<1>2. R \in Seq(Stage) /\ R = IF CnnInterop THEN <<"cuda", "add">> ELSE <<>>
  <2>1. CASE CnnInterop
    BY <2>1 DEF ResidualStages, Stage
  <2>2. CASE ~CnnInterop
    BY <2>2 DEF ResidualStages
  <2> QED
    BY <2>1, <2>2
<1>3. Len(R) = IF CnnInterop THEN 2 ELSE 0
  BY <1>2
<1>4. CnnInterop => R[1] = "cuda" /\ R[2] = "add"
  BY <1>2
<1> HIDE DEF W, R
<1>5. /\ Len(W \o R) = Len(W) + Len(R)
      /\ \A i \in 1 .. Len(W) + Len(R) :
           (W \o R)[i] = IF i <= Len(W) THEN W[i] ELSE R[i - Len(W)]
  BY <1>1, <1>2, ConcatProperties, ZenonT(30)
<1>6. Stages(kind) = W \o R
  BY DEF Stages, W, R
<1>7. CnnInterop => (W \o R)[Len(W) + 1] = R[1] /\ (W \o R)[Len(W) + 2] = R[2]
  <2>1. CASE Len(W) = 1
    BY <1>3, <1>5, <2>1
  <2>2. CASE Len(W) = 3
    BY <1>3, <1>5, <2>2
  <2> QED
    BY <1>1, <2>1, <2>2
<1>8. \A i \in 1 .. Len(W) : (W \o R)[i] = W[i]
  <2>1. CASE Len(W) = 1
    BY <1>3, <1>5, <2>1
  <2>2. CASE Len(W) = 3
    BY <1>3, <1>5, <2>2
  <2> QED
    BY <1>1, <2>1, <2>2
<1> QED
  BY <1>1, <1>3, <1>4, <1>5, <1>6, <1>7, <1>8 DEF W

\* The stages one by one, from the front.
LEMMA StagesCases ==
  ASSUME NEW kind \in Kinds, TimelineAssumption
  PROVE  LET S == Stages(kind)
             tiers == kind = "generate" /\ ~ShaderFlow
         IN  /\ Len(S) = (IF tiers THEN 3 ELSE 1) + (IF CnnInterop THEN 2 ELSE 0)
             /\ tiers => S[1] = "prep" /\ S[2] = "ofa" /\ S[3] = "refineWarp"
             /\ tiers /\ CnnInterop => S[4] = "cuda" /\ S[5] = "add"
             /\ ~tiers => S[1] = IF kind = "generate" THEN "flowWarp" ELSE "warp"
             /\ ~tiers /\ CnnInterop => S[2] = "cuda" /\ S[3] = "add"
<1> DEFINE W == WarpStages(kind)
           S == Stages(kind)
<1>0. /\ Len(S) = Len(W) + (IF CnnInterop THEN 2 ELSE 0)
      /\ \A i \in 1 .. Len(W) : S[i] = W[i]
      /\ CnnInterop => S[Len(W) + 1] = "cuda" /\ S[Len(W) + 2] = "add"
  BY StagesLayout
<1> HIDE DEF S
<1>1. CASE kind = "generate" /\ ~ShaderFlow
  <2>1. Len(W) = 3 /\ W[1] = "prep" /\ W[2] = "ofa" /\ W[3] = "refineWarp"
    BY <1>1 DEF WarpStages
  <2>2. S[1] = W[1] /\ S[2] = W[2] /\ S[3] = W[3]
    BY <1>0, <2>1
  <2> HIDE DEF W
  <2>3. Len(S) = 3 + (IF CnnInterop THEN 2 ELSE 0)
    BY <1>0, <2>1
  <2>4. CnnInterop => S[4] = "cuda" /\ S[5] = "add"
    BY <1>0, <2>1
  <2> QED
    BY <1>1, <2>1, <2>2, <2>3, <2>4 DEF S
<1>2. CASE ~(kind = "generate" /\ ~ShaderFlow)
  <2>1. Len(W) = 1 /\ W[1] = IF kind = "generate" THEN "flowWarp" ELSE "warp"
    BY <1>2 DEF WarpStages, Kinds
  <2> HIDE DEF W
  <2>2. S[1] = W[1]
    BY <1>0, <2>1
  <2>3. Len(S) = 1 + (IF CnnInterop THEN 2 ELSE 0)
    BY <1>0, <2>1
  <2>4. CnnInterop => S[2] = "cuda" /\ S[3] = "add"
    BY <1>0, <2>1
  <2> QED
    BY <1>2, <2>1, <2>2, <2>3, <2>4 DEF S
<1> QED
  BY <1>1, <1>2

\* Where the batches of a call stand: each has its place before the sync point, and
\* every one that reads what the call itself makes has the one that makes it beside it.
LEMMA ChainPlaces ==
  ASSUME timelineValue \in Nat, frameIndex \in Nat, calls \in Nat, TimelineAssumption,
         NEW kind \in Kinds, NEW gate \in Nat
  PROVE  LET final == FinalValue(kind, timelineValue)
             chain == Chain(kind, gate)
             Beside(stages) == \E c \in chain : c.stage \in stages
         IN  /\ kind = "generate" => Beside(Refiners)
             /\ \A b \in chain :
                  /\ b.call = calls + 1
                  /\ b.sig + Remaining(b.stage) = final
                  /\ b.gate = gate \/ \E c \in chain : c.gate = gate /\ c.sig < b.sig
                  /\ b.stage \in FlowStages => kind = "generate"
                  /\ b.stage = "warp" => kind = "warp"
                  /\ b.stage \in {"cuda", "add"} => CnnInterop
                  /\ b.stage \in {"prep", "ofa", "refineWarp"} => ~ShaderFlow
                  /\ b.stage = "flowWarp" => ShaderFlow
                  /\ b.stage = "ofa" => Beside({"prep"})
                  /\ b.stage = "refineWarp" => Beside({"ofa"})
                  /\ b.stage = "cuda" => Beside(Warps)
                  /\ b.stage = "add" => Beside(Warps) /\ Beside({"cuda"})
<1> DEFINE S == Stages(kind)
           n == Len(S)
           chain == Chain(kind, gate)
           E(i) == [stage |-> S[i], sig |-> timelineValue + i,
                    wait |-> WaitValue(i, timelineValue),
                    gate |-> IF i = 1 THEN gate ELSE 0,
                    slot |-> PoolSlot, call |-> calls + 1]
           tiers == kind = "generate" /\ ~ShaderFlow
<1>1. chain = {E(i) : i \in 1 .. n}
  BY DEF Chain
<1>2. FinalValue(kind, timelineValue) = timelineValue + n
  BY DEF FinalValue
<1>3. /\ n = (IF tiers THEN 3 ELSE 1) + (IF CnnInterop THEN 2 ELSE 0)
      /\ tiers => S[1] = "prep" /\ S[2] = "ofa" /\ S[3] = "refineWarp"
      /\ tiers /\ CnnInterop => S[4] = "cuda" /\ S[5] = "add"
      /\ ~tiers => S[1] = IF kind = "generate" THEN "flowWarp" ELSE "warp"
      /\ ~tiers /\ CnnInterop => S[2] = "cuda" /\ S[3] = "add"
  BY StagesCases
<1>4. CnnInterop \in BOOLEAN
  BY DEF TimelineAssumption
<1> HIDE DEF S, n
<1>5. \A i \in 1 .. n : /\ E(i).stage = S[i] /\ E(i).sig = timelineValue + i
                        /\ E(i).call = calls + 1 /\ E(i).gate = IF i = 1 THEN gate ELSE 0
  OBVIOUS
<1>6. \A i \in 1 .. n : E(i) \in chain
  BY <1>1
<1>7. \A b \in chain : \E i \in 1 .. n : b = E(i)
  BY <1>1
<1> HIDE DEF chain, E
<1>8. /\ 1 \in 1 .. n
      /\ tiers => 2 \in 1 .. n /\ 3 \in 1 .. n
      /\ CnnInterop => (n - 1) \in 1 .. n /\ S[n - 1] = "cuda"
  BY <1>3, <1>4
<1>9. /\ tiers => \E c \in chain : c.stage = "prep"
      /\ tiers => \E c \in chain : c.stage = "ofa"
      /\ CnnInterop => \E c \in chain : c.stage = "cuda"
      /\ \E c \in chain : c.stage \in Warps /\ (kind = "generate" => c.stage \in Refiners)
      /\ E(1) \in chain /\ E(1).gate = gate /\ E(1).sig = timelineValue + 1
  BY <1>3, <1>5, <1>6, <1>8 DEF Warps, Refiners, Kinds
<1>10. ASSUME NEW i \in 1 .. n
       PROVE  /\ S[i] \in Stage
              /\ i + Remaining(S[i]) = n
              /\ S[i] \in FlowStages => kind = "generate"
              /\ S[i] = "warp" => kind = "warp"
              /\ S[i] \in {"cuda", "add"} => CnnInterop
              /\ S[i] \in {"prep", "ofa", "refineWarp"} => tiers
              /\ S[i] = "flowWarp" => ShaderFlow
  <2>1. CASE tiers
    <3>1. i \in 1 .. 5
      BY <1>3, <1>4, <2>1
    <3> QED
      BY <1>3, <1>4, <2>1, <3>1 DEF Remaining, FlowStages, Stage
  <2>2. CASE ~tiers
    <3>1. i \in 1 .. 3
      BY <1>3, <1>4, <2>2
    <3> QED
      BY <1>3, <1>4, <2>2, <3>1 DEF Remaining, FlowStages, Stage, Kinds
  <2> QED
    BY <2>1, <2>2
<1>11. ASSUME NEW b \in chain
       PROVE  /\ b.call = calls + 1
              /\ b.sig + Remaining(b.stage) = timelineValue + n
              /\ b.gate = gate \/ \E c \in chain : c.gate = gate /\ c.sig < b.sig
              /\ b.stage \in FlowStages => kind = "generate"
              /\ b.stage = "warp" => kind = "warp"
              /\ b.stage \in {"cuda", "add"} => CnnInterop
              /\ b.stage \in {"prep", "ofa", "refineWarp"} => tiers
              /\ b.stage = "flowWarp" => ShaderFlow
  <2>1. PICK i \in 1 .. n : b = E(i)
    BY <1>7
  <2>2. /\ b.stage = S[i] /\ b.sig = timelineValue + i
        /\ b.call = calls + 1 /\ b.gate = IF i = 1 THEN gate ELSE 0
    BY <1>5, <2>1
  <2>3. b.sig + Remaining(b.stage) = timelineValue + n
    <3>1. i + Remaining(S[i]) = n /\ Remaining(S[i]) \in Nat /\ n \in Nat
      <4>1. Remaining(S[i]) \in Nat
        BY <1>10 DEF Remaining
      <4> QED
        BY <1>3, <1>10, <4>1
    <3> QED
      BY <2>2, <3>1
  <2>4. b.gate = gate \/ \E c \in chain : c.gate = gate /\ c.sig < b.sig
    BY <1>9, <2>2
  <2> QED
    BY <1>10, <2>2, <2>3, <2>4
<1> QED
  BY <1>2, <1>9, <1>11 DEF chain

-----------------------------------------------------------------------------
(* The inductive step.                                                      *)

\* The batch that finishes is the first in the chain, so it belongs to the earliest
\* call in flight and, within its call, stands before every other batch.
LEMMA FinishIsFirst ==
  ASSUME TypeOK, InFlightChain, DataInv, NEW b \in running
  PROVE  /\ b \in pending /\ b.sig = timeline + 1
         /\ \A c \in pending :
              /\ c \in Batch /\ c.sig \in Nat /\ c.call \in Nat /\ c.stage \in Stage
              /\ c # b =>
                   /\ b.sig < c.sig
                   /\ b.call <= c.call
                   /\ c.call = b.call => Remaining(c.stage) < Remaining(b.stage)
<1>1. b \in pending /\ b.sig = timeline + 1 /\ timeline \in Nat
  BY DEF TypeOK, InFlightChain, Serial
<1>2. \A c \in pending : /\ c \in Batch /\ c.sig \in Nat /\ c.call \in Nat /\ c.stage \in Stage
                         /\ timeline < c.sig
  BY BatchFields DEF TypeOK, InFlightChain, ChainBounds
<1>3. \A c \in pending : c # b => b.sig < c.sig
  BY <1>1, <1>2 DEF InFlightChain, ChainUnique
<1>4. \A c \in pending : c # b => b.call <= c.call
  BY <1>1, <1>3 DEF DataInv, CallsInOrder
<1>5. \A stage \in Stage : Remaining(stage) \in Nat
  BY DEF Stage, Remaining
<1>6. ASSUME NEW c \in pending, c # b, c.call = b.call
      PROVE  Remaining(c.stage) < Remaining(b.stage)
  <2>1. PICK r \in returned : r.call = b.call
    BY <1>1 DEF DataInv, CallSpans
  <2>2. r.value = b.sig + Remaining(b.stage) /\ r.value = c.sig + Remaining(c.stage)
    BY <1>1, <1>6, <2>1 DEF DataInv, CallSpans
  <2>3. Remaining(b.stage) \in Nat /\ Remaining(c.stage) \in Nat
    BY <1>1, <1>2, <1>5
  <2> QED
    BY <1>1, <1>2, <1>3, <1>6, <2>2, <2>3
<1> QED
  BY <1>1, <1>2, <1>3, <1>4, <1>6

\* So whatever it reads has been written, by its own call or, for the flow of a
\* warp, by the generate its sync point names.
LEMMA FinishFindsInputs ==
  ASSUME TypeOK, InFlightChain, DataInv, NEW b \in running
  PROVE  /\ b.stage = "ofa" => tags.luma = b.call
         /\ b.stage = "refineWarp" => tags.flow = b.call
         /\ b.stage = "cuda" /\ PackPass => tags.cnnIn = b.call
         /\ b.stage = "add" /\ PackPass => tags.cnnOut = b.call
         /\ \A r \in returned : r.call = b.call =>
              /\ b.stage = "warp" => tags.refined = r.flow
              /\ b.stage = "add" => tags.output.call = b.call /\ tags.output.flow = r.flow
<1>1. /\ b \in pending /\ b.call \in Nat
      /\ \A c \in pending : c # b =>
           /\ b.call <= c.call
           /\ c.call = b.call => Remaining(c.stage) < Remaining(b.stage)
  BY FinishIsFirst
<1>2. CnnInterop \in BOOLEAN
  BY TimelineAssumption DEF TimelineAssumption
<1>3. /\ b.stage = "ofa" => ~Due({"prep"}, b.call)
      /\ b.stage = "refineWarp" => ~Due({"ofa"}, b.call)
      /\ b.stage = "cuda" => ~Due(Warps, b.call)
      /\ b.stage = "add" => ~Due({"cuda"}, b.call) /\ ~Due(Warps, b.call)
  BY <1>1, <1>2 DEF Due, Warps, Refiners, Remaining, DataInv, TierStages
<1>4. ASSUME NEW r \in returned, r.call = b.call, b.stage = "warp"
      PROVE  tags.refined = r.flow
  <2>1. r.flow < b.call /\ (tags.refined = r.flow \/ Due(Refiners, r.flow))
    BY <1>1, <1>4 DEF DataInv, FlowDue
  <2>2. ASSUME NEW c \in pending, c.stage \in Refiners, c.call = r.flow
        PROVE  FALSE
    <3>1. c # b
      BY <1>4, <2>2 DEF Refiners
    <3>2. b.call <= r.flow /\ r.flow \in Nat
      BY <1>1, <2>2, <3>1 DEF TypeOK, SyncPoint
    <3> QED
      BY <1>1, <2>1, <3>2
  <2> QED
    BY <2>1, <2>2 DEF Due
<1>5. ASSUME NEW r \in returned, r.call = b.call, b.stage = "add"
      PROVE  tags.output.call = b.call /\ tags.output.flow = r.flow
  BY <1>1, <1>3, <1>5 DEF DataInv, OutputDue
<1> QED
  BY <1>1, <1>3, <1>4, <1>5 DEF DataInv, InputDue

\* What the images hold once it has executed.
LEMMA FinishTags ==
  ASSUME TypeOK, InFlightChain, DataInv, NEW b \in running, Finish(b)
  PROVE  /\ tags'.luma = IF b.stage \in {"prep", "flowWarp"} THEN b.call ELSE tags.luma
         /\ tags'.flow = IF b.stage \in {"ofa", "flowWarp"} THEN b.call ELSE tags.flow
         /\ tags'.refined = IF b.stage \in Refiners THEN b.call ELSE tags.refined
         /\ tags'.cnnIn = IF b.stage \in Warps /\ CnnInterop /\ PackPass THEN b.call ELSE tags.cnnIn
         /\ tags'.cnnOut = IF b.stage = "cuda" THEN tags.cnnIn ELSE tags.cnnOut
         /\ tags'.output.call = IF b.stage \in Warps THEN b.call ELSE tags.output.call
         /\ \A r \in returned : r.call = b.call /\ b.stage \in Warps => tags'.output.flow = r.flow
         /\ b.stage \notin Warps => tags'.output.flow = tags.output.flow
         /\ b.stage \in Warps => tags'.output.final = ~CnnInterop
         /\ b.stage = "add" => tags'.output.final = (tags.cnnOut = tags.output.call)
<1> USE DEF Warps, Refiners
<1>1. tags \in Tags /\ b.stage \in Stage /\ b \in pending
  BY FinishIsFirst DEF TypeOK
<1>2. tags' = Executed(b)
  BY DEF Finish
<1>3. \A r \in returned : r.call = b.call /\ b.stage \in FlowStages => r.flow = b.call
  BY <1>1 DEF DataInv, CallSpans
<1>4. /\ b.stage = "ofa" => tags.luma = b.call
      /\ b.stage = "refineWarp" => tags.flow = b.call
      /\ \A r \in returned : r.call = b.call =>
           /\ b.stage = "warp" => tags.refined = r.flow
           /\ b.stage = "add" => tags.output.call = b.call /\ tags.output.flow = r.flow
  BY FinishFindsInputs
<1>5. CASE b.stage = "prep"
  BY <1>1, <1>2, <1>5 DEF Executed, Tags
<1>6. CASE b.stage = "ofa"
  BY <1>1, <1>2, <1>4, <1>6 DEF Executed, Tags
<1>7. CASE b.stage = "refineWarp"
  BY <1>1, <1>2, <1>3, <1>4, <1>7 DEF Executed, Tags, Warped, FlowStages
<1>8. CASE b.stage = "flowWarp"
  BY <1>1, <1>2, <1>3, <1>8 DEF Executed, Tags, Warped, FlowStages
<1>9. CASE b.stage = "warp"
  BY <1>1, <1>2, <1>4, <1>9 DEF Executed, Tags, Warped
<1>10. CASE b.stage = "cuda"
  BY <1>1, <1>2, <1>10 DEF Executed, Tags
<1>11. CASE b.stage = "add"
  BY <1>1, <1>2, <1>4, <1>11 DEF Executed, Tags
<1> QED
  BY <1>1, <1>5, <1>6, <1>7, <1>8, <1>9, <1>10, <1>11 DEF Stage

\* Executing a batch keeps every image consistent with what is still to come.
LEMMA FinishKeepsData ==
  ASSUME TypeOK, InFlightChain, DataInv, NEW b \in running, Finish(b)
  PROVE  DataInv'
<1>1. /\ pending' = pending \ {b}
      /\ UNCHANGED <<pc, ready, timelineValue, calls, lastGenerate, returned>>
  BY DEF Finish, host, history
<1>2. /\ b \in pending /\ b.call \in Nat /\ calls \in Nat /\ lastGenerate \in Nat
      /\ \A c \in pending : /\ c.call \in Nat /\ c.stage \in Stage
                            /\ c # b => /\ b.call <= c.call
                                        /\ c.call = b.call => Remaining(c.stage) < Remaining(b.stage)
      /\ \A r \in returned : r.call \in Nat /\ r.flow \in Nat
  BY FinishIsFirst DEF TypeOK, SyncPoint
<1>3. /\ tags'.luma = IF b.stage \in {"prep", "flowWarp"} THEN b.call ELSE tags.luma
      /\ tags'.flow = IF b.stage \in {"ofa", "flowWarp"} THEN b.call ELSE tags.flow
      /\ tags'.refined = IF b.stage \in Refiners THEN b.call ELSE tags.refined
      /\ tags'.cnnIn = IF b.stage \in Warps /\ CnnInterop /\ PackPass THEN b.call ELSE tags.cnnIn
      /\ tags'.cnnOut = IF b.stage = "cuda" THEN tags.cnnIn ELSE tags.cnnOut
      /\ tags'.output.call = IF b.stage \in Warps THEN b.call ELSE tags.output.call
      /\ \A r \in returned : r.call = b.call /\ b.stage \in Warps => tags'.output.flow = r.flow
      /\ b.stage \notin Warps => tags'.output.flow = tags.output.flow
  BY FinishTags
<1>4. b.stage = "cuda" /\ PackPass => tags.cnnIn = b.call
  BY FinishFindsInputs
<1>5. tags \in Tags /\ {CnnInterop, ShaderFlow, PackPass} \subseteq BOOLEAN
  BY TimelineAssumption DEF TypeOK, TimelineAssumption
<1>6. \A stages, call : Due(stages, call) => Due(stages, call)' \/ (b.stage \in stages /\ b.call = call)
  BY <1>1 DEF Due
<1>7. \A c \in pending : /\ c.stage \in {"prep", "ofa", "refineWarp"} => ~ShaderFlow
                         /\ c.stage = "flowWarp" => ShaderFlow
                         /\ c.stage \in {"cuda", "add"} => CnnInterop
  BY DEF DataInv, TierStages
<1>8. SyncPoints' /\ CallSpans' /\ CallsInOrder' /\ TierStages'
  BY <1>1 DEF DataInv, SyncPoints, CallSpans, CallsInOrder, TierStages
<1>9. b.call \in 1 .. calls
  BY <1>2 DEF DataInv, CallSpans
<1> USE DEF Warps, Refiners
<1>10. TagsBounded'
  <2>1. {tags'.luma, tags'.flow, tags'.refined, tags'.cnnIn, tags'.cnnOut, tags'.output.call}
          \subseteq 0 .. calls
    BY <1>2, <1>3, <1>9 DEF DataInv, TagsBounded
  <2>2. ASSUME NEW c \in pending, c # b
        PROVE  /\ c.stage \in {"prep", "flowWarp"} => tags'.luma < c.call
               /\ c.stage \in {"ofa", "flowWarp"} => tags'.flow < c.call
               /\ c.stage \in Refiners => tags'.refined < c.call /\ c.call <= lastGenerate
               /\ c.stage \in Warps => tags'.cnnIn < c.call /\ tags'.output.call < c.call
               /\ c.stage = "cuda" /\ PackPass => tags'.cnnOut < c.call
    <3>1. /\ c.stage \in {"prep", "flowWarp"} => tags.luma < c.call
          /\ c.stage \in {"ofa", "flowWarp"} => tags.flow < c.call
          /\ c.stage \in Refiners => tags.refined < c.call /\ c.call <= lastGenerate
          /\ c.stage \in Warps => tags.cnnIn < c.call /\ tags.output.call < c.call
          /\ c.stage = "cuda" /\ PackPass => tags.cnnOut < c.call
      BY DEF DataInv, TagsBounded
    <3>2. b.call < c.call \/ (b.call = c.call /\ Remaining(c.stage) < Remaining(b.stage))
      BY <1>2, <2>2
    <3>3. CASE b.call < c.call
      BY <1>3, <1>4, <3>1, <3>3
    <3>4. CASE b.call = c.call /\ Remaining(c.stage) < Remaining(b.stage)
      <4>1. /\ ~(c.stage \in {"prep", "flowWarp"} /\ b.stage \in {"prep", "flowWarp"})
            /\ ~(c.stage \in {"ofa", "flowWarp"} /\ b.stage \in {"ofa", "flowWarp"})
            /\ ~(c.stage \in Warps /\ b.stage \in Warps)
            /\ ~(c.stage = "cuda" /\ b.stage = "cuda")
        BY <1>2, <1>5, <1>7, <3>4 DEF Remaining
      <4> QED
        BY <1>3, <3>1, <4>1
    <3> QED
      BY <3>2, <3>3, <3>4
  <2> QED
    BY <1>1, <2>1, <2>2 DEF TagsBounded
<1>11. InputDue'
  <2>1. ASSUME NEW c \in pending, c # b
        PROVE  /\ c.stage = "ofa" => tags'.luma = c.call \/ Due({"prep"}, c.call)'
               /\ c.stage = "refineWarp" => tags'.flow = c.call \/ Due({"ofa"}, c.call)'
               /\ c.stage = "cuda" /\ PackPass => tags'.cnnIn = c.call \/ Due(Warps, c.call)'
               /\ c.stage = "add" /\ PackPass => tags'.cnnOut = c.call \/ Due({"cuda"}, c.call)'
    <3>1. /\ c.stage = "ofa" => tags.luma = c.call \/ Due({"prep"}, c.call)
          /\ c.stage = "refineWarp" => tags.flow = c.call \/ Due({"ofa"}, c.call)
          /\ c.stage = "cuda" /\ PackPass => tags.cnnIn = c.call \/ Due(Warps, c.call)
          /\ c.stage = "add" /\ PackPass => tags.cnnOut = c.call \/ Due({"cuda"}, c.call)
      BY DEF DataInv, InputDue
    <3>2. b.call <= c.call /\ c.call \in Nat
      BY <1>2, <2>1
    <3>3. /\ b.stage \in {"prep", "flowWarp"} => tags.luma < b.call
          /\ b.stage \in {"ofa", "flowWarp"} => tags.flow < b.call
          /\ b.stage \in Warps => tags.cnnIn < b.call
          /\ b.stage = "cuda" /\ PackPass => tags.cnnOut < b.call
      BY <1>2 DEF DataInv, TagsBounded
    <3>4. c.stage = "ofa" => tags'.luma = c.call \/ Due({"prep"}, c.call)'
      BY <1>2, <1>3, <1>6, <3>1, <3>2, <3>3
    <3>5. c.stage = "refineWarp" => tags'.flow = c.call \/ Due({"ofa"}, c.call)'
      BY <1>2, <1>3, <1>6, <3>1, <3>2, <3>3
    <3>6. c.stage = "cuda" /\ PackPass => tags'.cnnIn = c.call \/ Due(Warps, c.call)'
      BY <1>2, <1>3, <1>6, <1>7, <3>1, <3>2, <3>3
    <3>7. c.stage = "add" /\ PackPass => tags'.cnnOut = c.call \/ Due({"cuda"}, c.call)'
      BY <1>2, <1>3, <1>4, <1>6, <3>1, <3>2, <3>3
    <3> QED
      BY <3>4, <3>5, <3>6, <3>7
  <2> QED
    BY <1>1, <2>1 DEF InputDue
<1>12. FlowDue'
  <2> SUFFICES ASSUME NEW c \in pending, c # b, NEW r \in returned,
                      c.stage = "warp", r.call = c.call
               PROVE  /\ tags'.refined = r.flow \/ Due(Refiners, r.flow)'
                      /\ r.flow < c.call
                      /\ \A d \in pending \ {b} :
                           d.stage \in Refiners /\ d.call < c.call => d.call <= r.flow
    BY <1>1 DEF FlowDue
  <2>1. /\ tags.refined = r.flow \/ Due(Refiners, r.flow)
        /\ r.flow < c.call
        /\ \A d \in pending : d.stage \in Refiners /\ d.call < c.call => d.call <= r.flow
    BY DEF DataInv, FlowDue
  <2>2. b.stage \in Refiners => tags.refined < b.call /\ b.call # c.call
    <3>1. b.call = c.call => r.call = b.call
      OBVIOUS
    <3>2. b.stage \in Refiners /\ b.call = c.call => r.flow = b.call
      BY <1>2, <3>1 DEF DataInv, CallSpans, FlowStages
    <3> QED
      BY <1>2, <2>1, <3>2 DEF DataInv, TagsBounded
  <2> QED
    BY <1>2, <1>3, <1>6, <2>1, <2>2
<1>13. OutputDue'
  <2> SUFFICES ASSUME NEW c \in pending, c # b, NEW r \in returned,
                      c.stage = "add", r.call = c.call
               PROVE  \/ tags'.output.call = c.call /\ tags'.output.flow = r.flow
                      \/ Due(Warps, c.call)'
    BY <1>1 DEF OutputDue
  <2>1. \/ tags.output.call = c.call /\ tags.output.flow = r.flow
        \/ Due(Warps, c.call)
    BY DEF DataInv, OutputDue
  <2>2. b.stage \in Warps => tags.output.call < b.call
    BY <1>2 DEF DataInv, TagsBounded
  <2>3. b.call <= c.call /\ c.call \in Nat
    BY <1>2
  <2> QED
    BY <1>2, <1>3, <1>6, <2>1, <2>2, <2>3
<1>14. LastFlowDue'
  <2>1. b.stage \in Refiners => tags.refined < b.call /\ b.call <= lastGenerate
    BY <1>2 DEF DataInv, TagsBounded
  <2> QED
    BY <1>1, <1>2, <1>3, <1>6, <2>1 DEF DataInv, LastFlowDue
<1> QED
  BY <1>8, <1>10, <1>11, <1>12, <1>13, <1>14 DEF DataInv

\* So does handing a call to the GPU.
LEMMA RecordKeepsData ==
  ASSUME ~SubmitMayFail, TypeOK, InFlightChain, DataInv,
         NEW kind \in Kinds, NEW gate \in Gates, Record(kind, gate)
  PROVE  DataInv'
<1> DEFINE chain == Chain(kind, gate)
           final == FinalValue(kind, timelineValue)
           new == [call |-> calls + 1, value |-> final, flow |-> lastGenerate']
           Beside(stages) == \E c \in chain : c.stage \in stages
<1>0. gate \in Nat /\ timelineValue \in Nat /\ frameIndex \in Nat /\ calls \in Nat /\ TimelineAssumption
  BY TimelineAssumption DEF Gates, TypeOK
<1>1. /\ final \in Nat /\ timelineValue < final
      /\ \A b \in chain : b \in Batch /\ timelineValue < b.sig
  BY <1>0, ChainFacts
<1>2. /\ kind = "generate" => Beside(Refiners)
      /\ \A b \in chain :
           /\ b.call = calls + 1
           /\ b.sig + Remaining(b.stage) = final
           /\ b.stage \in FlowStages => kind = "generate"
           /\ b.stage = "warp" => kind = "warp"
           /\ b.stage \in {"cuda", "add"} => CnnInterop
           /\ b.stage \in {"prep", "ofa", "refineWarp"} => ~ShaderFlow
           /\ b.stage = "flowWarp" => ShaderFlow
           /\ b.stage = "ofa" => Beside({"prep"})
           /\ b.stage = "refineWarp" => Beside({"ofa"})
           /\ b.stage = "cuda" => Beside(Warps)
           /\ b.stage = "add" => Beside(Warps) /\ Beside({"cuda"})
  BY <1>0, ChainPlaces
<1>3. /\ pending' = pending \cup chain
      /\ timelineValue' = final /\ calls' = calls + 1
      /\ lastGenerate' = IF kind = "generate" THEN calls + 1 ELSE lastGenerate
      /\ returned' = returned \cup {new}
      /\ pc = kind /\ pc' = "idle"
      /\ UNCHANGED <<ready, tags>>
  BY DEF Record, Rejected, chain, final, new
<1>4. new.call = calls + 1 /\ new.value = final /\ new.flow = lastGenerate'
  OBVIOUS
<1> HIDE DEF chain, final, new
<1>5. \A stages, call : call = calls + 1 /\ Beside(stages) => Due(stages, call)'
  BY <1>2, <1>3 DEF Due
<1>6. \A stages, call : Due(stages, call) => Due(stages, call)'
  BY <1>3 DEF Due
<1> HIDE DEF Beside
<1>7. /\ \A b \in pending : /\ b.call \in 1 .. calls /\ b.sig \in Nat /\ b.sig <= timelineValue
                            /\ b.stage \in Stage
      /\ \A b \in chain : b.sig \in Nat /\ b.stage \in Stage
      /\ \A r \in returned : r.call \in 1 .. calls /\ r.value \in Nat /\ r.flow \in Nat
                             /\ r.value <= timelineValue
      /\ lastGenerate \in Nat /\ lastGenerate <= calls
  <2>1. \A b \in pending : b.sig \in Nat /\ b.slot \in Slots /\ b.stage \in Stage
    BY BatchFields DEF TypeOK
  <2>2. \A b \in pending : b.sig <= timelineValue
    BY <1>0, <2>1 DEF InFlightChain, ChainBounds, SlotBounds, TypeOK
  <2> QED
    BY <1>1, <2>1, <2>2, BatchFields DEF DataInv, CallSpans, SyncPoints, TypeOK, SyncPoint
<1>8. SyncPoints'
  BY <1>0, <1>1, <1>3, <1>4, <1>7 DEF DataInv, SyncPoints
<1>9. CallSpans'
  <2>1. ASSUME NEW b \in pending
        PROVE  /\ b.call \in 1 .. calls + 1
               /\ \E r \in returned' : r.call = b.call
               /\ \A r \in returned' :
                    /\ r.call = b.call => r.value = b.sig + Remaining(b.stage)
                    /\ r.call < b.call => r.value < b.sig
                    /\ r.call > b.call => r.value > b.sig
                    /\ r.call = b.call /\ b.stage \in FlowStages => r.flow = b.call
    <3>1. ASSUME NEW r \in returned
          PROVE  /\ r.call = b.call => r.value = b.sig + Remaining(b.stage)
                 /\ r.call < b.call => r.value < b.sig
                 /\ r.call > b.call => r.value > b.sig
                 /\ r.call = b.call /\ b.stage \in FlowStages => r.flow = b.call
      BY DEF DataInv, CallSpans
    <3>2. /\ new.call # b.call /\ ~(new.call < b.call)
          /\ new.value > b.sig
      BY <1>0, <1>1, <1>4, <1>7
    <3>3. b.call \in 1 .. calls /\ \E r \in returned : r.call = b.call
      BY DEF DataInv, CallSpans
    <3> QED
      BY <1>0, <1>3, <3>1, <3>2, <3>3
  <2>2. ASSUME NEW b \in chain
        PROVE  /\ b.call \in 1 .. calls + 1
               /\ \E r \in returned' : r.call = b.call
               /\ \A r \in returned' :
                    /\ r.call = b.call => r.value = b.sig + Remaining(b.stage)
                    /\ r.call < b.call => r.value < b.sig
                    /\ r.call > b.call => r.value > b.sig
                    /\ r.call = b.call /\ b.stage \in FlowStages => r.flow = b.call
    <3>1. b.call = calls + 1 /\ b.call \in 1 .. calls + 1
      BY <1>0, <1>2
    <3>2. ASSUME NEW r \in returned
          PROVE  r.call < b.call /\ r.value < b.sig
      BY <1>0, <1>1, <1>7, <3>1
    <3>3. /\ new.call = b.call
          /\ new.value = b.sig + Remaining(b.stage)
          /\ b.stage \in FlowStages => new.flow = b.call
      BY <1>2, <1>3, <1>4
    <3>4. b.call \in Nat /\ \A r \in returned : r.call \in Nat
      BY <1>0, <1>7, <3>1
    <3> QED
      BY <1>3, <3>1, <3>2, <3>3, <3>4
  <2> QED
    BY <1>3, <2>1, <2>2 DEF CallSpans
<1>10. CallsInOrder'
  BY <1>0, <1>1, <1>2, <1>3, <1>7 DEF DataInv, CallsInOrder
<1>11. TierStages'
  BY <1>2, <1>3 DEF DataInv, TierStages
<1>12. TagsBounded'
  <2>1. {tags.luma, tags.flow, tags.refined, tags.cnnIn, tags.cnnOut, tags.output.call} \subseteq 0 .. calls
    BY DEF DataInv, TagsBounded
  <2>2. lastGenerate' \in Nat /\ lastGenerate <= lastGenerate' /\ (kind = "generate" => lastGenerate' = calls + 1)
    BY <1>0, <1>3, <1>7
  <2>3. ASSUME NEW b \in pending \cup chain
        PROVE  /\ b.stage \in {"prep", "flowWarp"} => tags.luma < b.call
               /\ b.stage \in {"ofa", "flowWarp"} => tags.flow < b.call
               /\ b.stage \in Refiners => tags.refined < b.call /\ b.call <= lastGenerate'
               /\ b.stage \in Warps => tags.cnnIn < b.call /\ tags.output.call < b.call
               /\ b.stage = "cuda" /\ PackPass => tags.cnnOut < b.call
    <3>1. CASE b \in pending
      BY <1>7, <2>2, <3>1 DEF DataInv, TagsBounded
    <3>2. CASE b \in chain
      <4>1. b.call = calls + 1 /\ (b.stage \in Refiners => kind = "generate")
        BY <1>2, <3>2 DEF Refiners, FlowStages
      <4> QED
        BY <1>0, <2>1, <2>2, <4>1
    <3> QED
      BY <3>1, <3>2
  <2>4. {tags.luma, tags.flow, tags.refined, tags.cnnIn, tags.cnnOut, tags.output.call} \subseteq 0 .. calls + 1
    BY <1>0, <2>1
  <2> QED
    BY <1>3, <2>3, <2>4 DEF TagsBounded
<1>13. InputDue'
  <2>1. ASSUME NEW b \in pending
        PROVE  /\ b.stage = "ofa" => tags.luma = b.call \/ Due({"prep"}, b.call)'
               /\ b.stage = "refineWarp" => tags.flow = b.call \/ Due({"ofa"}, b.call)'
               /\ b.stage = "cuda" /\ PackPass => tags.cnnIn = b.call \/ Due(Warps, b.call)'
               /\ b.stage = "add" /\ PackPass => tags.cnnOut = b.call \/ Due({"cuda"}, b.call)'
    BY <1>6 DEF DataInv, InputDue
  <2>2. ASSUME NEW b \in chain
        PROVE  /\ b.stage = "ofa" => Due({"prep"}, b.call)'
               /\ b.stage = "refineWarp" => Due({"ofa"}, b.call)'
               /\ b.stage = "cuda" => Due(Warps, b.call)'
               /\ b.stage = "add" => Due({"cuda"}, b.call)'
    BY <1>2, <1>5
  <2> QED
    BY <1>3, <2>1, <2>2 DEF InputDue
<1>14. FlowDue'
  <2>1. ASSUME NEW b \in pending, NEW r \in returned, b.stage = "warp", r.call = b.call
        PROVE  /\ tags.refined = r.flow \/ Due(Refiners, r.flow)'
               /\ r.flow < b.call
               /\ \A c \in pending \cup chain :
                    c.stage \in Refiners /\ c.call < b.call => c.call <= r.flow
    <3>1. /\ tags.refined = r.flow \/ Due(Refiners, r.flow)
          /\ r.flow < b.call
          /\ \A c \in pending : c.stage \in Refiners /\ c.call < b.call => c.call <= r.flow
      BY <2>1 DEF DataInv, FlowDue
    <3>2. \A c \in chain : ~(c.call < b.call)
      BY <1>0, <1>2, <1>7
    <3> QED
      BY <1>6, <3>1, <3>2
  <2>2. ASSUME NEW b \in chain, b.stage = "warp", NEW r, r = new
        PROVE  /\ tags.refined = r.flow \/ Due(Refiners, r.flow)'
               /\ r.flow < b.call
               /\ \A c \in pending \cup chain :
                    c.stage \in Refiners /\ c.call < b.call => c.call <= r.flow
    <3>1. kind = "warp" /\ r.flow = lastGenerate /\ b.call = calls + 1
      BY <1>2, <1>3, <1>4, <2>2
    <3>2. tags.refined = lastGenerate \/ Due(Refiners, lastGenerate)
      BY <1>3, <3>1 DEF DataInv, LastFlowDue
    <3>3. \A c \in pending : c.stage \in Refiners => c.call <= lastGenerate
      BY DEF DataInv, TagsBounded
    <3>4. \A c \in chain : ~(c.call < b.call)
      BY <1>0, <1>2, <3>1
    <3> QED
      BY <1>0, <1>6, <1>7, <3>1, <3>2, <3>3, <3>4
  <2>3. \A b \in pending : new.call # b.call
    BY <1>0, <1>4, <1>7
  <2>4. \A b \in chain, r \in returned : r.call # b.call
    BY <1>0, <1>2, <1>7
  <2> QED
    BY <1>3, <1>4, <2>1, <2>2, <2>3, <2>4 DEF FlowDue
<1>15. OutputDue'
  <2>1. ASSUME NEW b \in pending, NEW r \in returned, b.stage = "add", r.call = b.call
        PROVE  \/ tags.output.call = b.call /\ tags.output.flow = r.flow
               \/ Due(Warps, b.call)'
    BY <1>6, <2>1 DEF DataInv, OutputDue
  <2>2. ASSUME NEW b \in chain, b.stage = "add"
        PROVE  Due(Warps, b.call)'
    BY <1>2, <1>5, <2>2
  <2>3. \A b \in pending : new.call # b.call
    BY <1>0, <1>4, <1>7
  <2> QED
    BY <1>3, <2>1, <2>2, <2>3 DEF OutputDue
<1>16. LastFlowDue'
  <2>1. CASE kind = "generate"
    <3>1. \A call : call = calls + 1 => Due(Refiners, call)'
      BY <1>2, <1>5, <2>1
    <3>2. lastGenerate' = calls + 1
      BY <1>3, <2>1
    <3>3. Due(Refiners, lastGenerate)'
      BY <3>1, <3>2 DEF Due
    <3> QED
      BY <3>3 DEF LastFlowDue
  <2>2. CASE kind = "warp"
    <3>1. tags.refined = lastGenerate \/ Due(Refiners, lastGenerate)
      BY <1>3, <2>2 DEF DataInv, LastFlowDue
    <3>2. lastGenerate' = lastGenerate
      BY <1>3, <2>2
    <3>3. (tags.refined = lastGenerate \/ Due(Refiners, lastGenerate))'
      BY <1>3, <3>1, <3>2 DEF Due
    <3> QED
      BY <3>3 DEF LastFlowDue
  <2> QED
    BY <2>1, <2>2 DEF Kinds
<1> QED
  BY <1>8, <1>9, <1>10, <1>11, <1>12, <1>13, <1>14, <1>15, <1>16 DEF DataInv

-----------------------------------------------------------------------------
(* What a reader of the shared images finds.                                *)

\* The contents of the images stay consistent with the chain in flight.
THEOREM DataCorrect ==
  ASSUME ~SubmitMayFail
  PROVE  Spec => []DataInv
<1> USE DEF DataInv
<1>1. Init => DataInv
  <2> SUFFICES ASSUME Init
               PROVE  DataInv
    OBVIOUS
  <2>1. /\ returned = {} /\ pending = {} /\ calls = 0 /\ lastGenerate = 0 /\ timelineValue = 0
        /\ pc = "idle" /\ ready = FALSE
        /\ tags.luma = 0 /\ tags.flow = 0 /\ tags.refined = 0 /\ tags.cnnIn = 0 /\ tags.cnnOut = 0
        /\ tags.output.call = 0
    BY DEF Init
  <2> QED
    BY <2>1 DEF SyncPoints, CallSpans, CallsInOrder, TierStages, TagsBounded, InputDue, FlowDue,
                OutputDue, LastFlowDue
<1>2. TypeOK /\ InFlightChain /\ DataInv /\ [Next]_vars => DataInv'
  <2> SUFFICES ASSUME TypeOK, InFlightChain, DataInv, [Next]_vars
               PROVE  DataInv'
    OBVIOUS
  <2>1. ASSUME NEW kind \in Kinds, NEW gate \in Gates, Record(kind, gate)
        PROVE  DataInv'
    BY <2>1, RecordKeepsData
  <2>2. ASSUME NEW b \in running, Finish(b)
        PROVE  DataInv'
    BY <2>2, FinishKeepsData
  <2>3. ASSUME UNCHANGED <<pending, tags, returned, calls, lastGenerate, timelineValue>>,
               LastFlowDue'
        PROVE  DataInv'
    BY <2>3 DEF SyncPoints, CallSpans, CallsInOrder, TierStages, TagsBounded, InputDue, FlowDue,
                OutputDue, Due
  <2>4. ASSUME NEW kind \in Kinds, Enter(kind)
        PROVE  DataInv'
    <3>1. LastFlowDue'
      BY <2>4 DEF Enter, history, gpu, LastFlowDue, Due, Kinds
    <3> QED
      BY <2>3, <2>4, <3>1 DEF Enter, history, gpu
  <2>5. CASE EnterTeardown
    <3>1. LastFlowDue'
      BY <2>5 DEF EnterTeardown, history, gpu, LastFlowDue, Due
    <3> QED
      BY <2>3, <2>5, <3>1 DEF EnterTeardown, history, gpu
  <2>6. CASE Teardown
    <3>1. /\ pending' = {} /\ pc' = "idle" /\ ready' = FALSE
          /\ UNCHANGED <<timelineValue, calls, lastGenerate, returned>>
          /\ tags' = [tags EXCEPT !.luma = 0, !.flow = 0, !.refined = 0, !.cnnIn = 0, !.cnnOut = 0]
      BY <2>6 DEF Teardown, history
    <3>2. /\ tags'.luma = 0 /\ tags'.flow = 0 /\ tags'.refined = 0
          /\ tags'.cnnIn = 0 /\ tags'.cnnOut = 0 /\ tags'.output = tags.output
      BY <3>1 DEF TypeOK, Tags
    <3>3. TagsBounded'
      BY <3>1, <3>2 DEF TagsBounded, TypeOK
    <3> QED
      BY <3>1, <3>3 DEF SyncPoints, CallSpans, CallsInOrder, TierStages, InputDue, FlowDue,
                        OutputDue, LastFlowDue
  <2>7. CASE \/ \E b \in pending : Start(b)
             \/ Signal \/ Consume \/ UNCHANGED vars
    <3>1. UNCHANGED <<pending, tags, returned, calls, lastGenerate, timelineValue, pc, ready>>
      BY <2>7 DEF Start, Signal, Consume, vars, host, history, gpu, app
    <3>2. LastFlowDue'
      BY <3>1 DEF LastFlowDue, Due
    <3> QED
      BY <2>3, <3>1, <3>2
  <2> QED
    BY <2>1, <2>2, <2>4, <2>5, <2>6, <2>7 DEF Next
<1> QED
  BY <1>1, <1>2, TypeCorrect, ChainCorrect, PTL DEF Spec

\* The fusion network never runs on an input another frame packed: the warp of its own
\* call packs the buffer before it and no later call can reach the buffer first.
THEOREM FusionReadsItsPackCorrect ==
  ASSUME ~SubmitMayFail, PackPass
  PROVE  Spec => []FusionReadsItsPack
<1>1. TypeOK /\ InFlightChain /\ DataInv => FusionReadsItsPack
  BY FinishFindsInputs DEF FusionReadsItsPack
<1> QED
  BY <1>1, TypeCorrect, ChainCorrect, DataCorrect, PTL

\* The moment a sync point is reached the output holds the frame of the call that
\* returned it, warped along the flow of the last generate before it and with its own
\* residual added, whatever else is in flight.  A pipeline that owns a network runs it
\* in every call, so with one the warp has to pack its input.
THEOREM SyncMeansOutputCorrect ==
  ASSUME ~SubmitMayFail, CnnInterop => PackPass
  PROVE  Spec => SyncMeansOutput
<1> DEFINE Shown == \A r \in returned :
                      timeline < r.value /\ r.value <= timeline' =>
                        tags'.output = [call |-> r.call, flow |-> r.flow, final |-> TRUE]
<1>1. TypeOK /\ InFlightChain /\ DataInv /\ TypeOK' /\ [Next]_vars => [Shown]_vars
  <2> SUFFICES ASSUME TypeOK, InFlightChain, DataInv, TypeOK', Next,
                      NEW r \in returned, timeline < r.value, r.value <= timeline'
               PROVE  tags'.output = [call |-> r.call, flow |-> r.flow, final |-> TRUE]
    OBVIOUS
  <2>1. PICK b \in running : Finish(b)
    <3>1. timeline' # timeline
      BY DEF TypeOK, SyncPoint
    <3> QED
      BY <3>1 DEF Next, Enter, Record, EnterTeardown, Teardown, Start, Signal, Consume, gpu
  <2>2. /\ timeline \in Nat /\ r.value \in Nat /\ r.call \in Nat /\ r.flow \in Nat
        /\ b \in pending /\ b.sig = timeline + 1 /\ b.call \in Nat /\ b.stage \in Stage
    BY FinishIsFirst DEF TypeOK, SyncPoint
  <2>3. r.value = b.sig
    BY <2>1, <2>2 DEF Finish
  <2>4. r.call = b.call /\ r.value = b.sig + Remaining(b.stage)
    BY <2>2, <2>3 DEF DataInv, CallSpans
  <2>5. Remaining(b.stage) \in Nat
    BY <2>2 DEF Remaining, Stage
  <2>6. Remaining(b.stage) = 0
    BY <2>2, <2>3, <2>4, <2>5
  <2>7. b.stage = "add" \/ (b.stage \in Warps /\ ~CnnInterop)
    BY <2>2, <2>6 DEF Remaining, Stage, Warps, Refiners
  <2>8. b.stage = "add" => /\ PackPass
                           /\ tags.cnnOut = b.call
                           /\ tags.output.call = b.call /\ tags.output.flow = r.flow
    BY <2>2, <2>4, FinishFindsInputs DEF DataInv, TierStages
  <2>9. /\ tags'.output.call = r.call
        /\ tags'.output.flow = r.flow
        /\ tags'.output.final = TRUE
    <3>1. /\ tags'.output.call = IF b.stage \in Warps THEN b.call ELSE tags.output.call
          /\ b.stage \in Warps => tags'.output.flow = r.flow
          /\ b.stage \notin Warps => tags'.output.flow = tags.output.flow
          /\ b.stage \in Warps => tags'.output.final = ~CnnInterop
          /\ b.stage = "add" => tags'.output.final = (tags.cnnOut = tags.output.call)
      BY <2>1, <2>4, FinishTags
    <3>2. CASE b.stage = "add"
      BY <2>4, <2>8, <3>1, <3>2 DEF Warps, Refiners
    <3>3. CASE b.stage \in Warps /\ ~CnnInterop
      BY <2>4, <3>1, <3>3
    <3> QED
      BY <2>7, <3>2, <3>3
  <2>10. tags'.output \in [call : Nat, flow : Nat, final : BOOLEAN]
    BY DEF TypeOK, Tags
  <2> QED
    BY <2>9, <2>10
<1> QED
  BY <1>1, TypeCorrect, ChainCorrect, DataCorrect, PTL DEF Spec, SyncMeansOutput

-----------------------------------------------------------------------------
(* An application that gates each call on its last read of the output.      *)

\* Until the application opens the gate of a call, the batch that waits for it is at the
\* head of what is left of the call.
GatesHold ==
  /\ \A b \in pending :
       \/ b.call <= signalled
       \/ \E d \in pending : d.call = b.call /\ d.gate = d.call /\ d.sig <= b.sig
  /\ \A b \in running : b.gate <= signalled

\* It opens at most one gate ahead of its reads, and what it may be reading is the
\* frame of the sync point it waited for.
ReadsKept ==
  /\ signalled <= consumed + 1
  /\ \A r \in returned : r.value <= timeline /\ r.call > consumed => tags.output.call = r.call

GateInv == GatesHold /\ ReadsKept

\* A batch that runs belongs to a call whose gate has been opened.
LEMMA RunsBehindGate ==
  ASSUME TypeOK, InFlightChain, DataInv, GatesHold, NEW b \in running
  PROVE  b.call <= signalled
<1>1. /\ b \in pending /\ b.sig \in Nat
      /\ \A c \in pending : c.sig \in Nat /\ (c # b => b.sig < c.sig)
  BY FinishIsFirst
<1>2. CASE \E d \in pending : d.call = b.call /\ d.gate = d.call /\ d.sig <= b.sig
  <2>1. PICK d \in pending : d.call = b.call /\ d.gate = d.call /\ d.sig <= b.sig
    BY <1>2
  <2>2. d = b
    BY <1>1, <2>1
  <2> QED
    BY <2>1, <2>2 DEF GatesHold
<1> QED
  BY <1>1, <1>2 DEF GatesHold

\* While the application reads the frame of a sync point nothing runs at all: the
\* calls before it are complete and the gate of the next one is closed.
LEMMA ReadsUndisturbed ==
  ASSUME TypeOK, InFlightChain, DataInv, GateInv, NEW b \in running,
         NEW r \in returned, r.call > consumed, r.value <= b.sig
  PROVE  r.call = b.call /\ r.value = b.sig
<1>1. /\ b \in pending /\ b.sig \in Nat /\ b.call \in Nat /\ b.stage \in Stage
      /\ r.call \in Nat /\ r.value \in Nat /\ consumed \in Nat /\ signalled \in Nat
  BY FinishIsFirst DEF TypeOK, SyncPoint
<1>2. b.call <= r.call
  BY <1>1, RunsBehindGate DEF GateInv, ReadsKept
<1>3. /\ r.call > b.call => r.value > b.sig
      /\ r.call = b.call => r.value = b.sig + Remaining(b.stage)
  BY <1>1 DEF DataInv, CallSpans
<1>4. Remaining(b.stage) \in Nat
  BY <1>1 DEF Remaining, Stage
<1> QED
  BY <1>1, <1>2, <1>3, <1>4

\* The gates stay in front of their calls, and the image is not written between the
\* sync point and the end of the read.
LEMMA GateKept ==
  ASSUME ~SubmitMayFail, Gated, TypeOK, InFlightChain, DataInv, GateInv, [Next]_vars
  PROVE  GateInv'
<1> USE DEF GateInv
<1>0. /\ signalled \in Nat /\ consumed \in Nat /\ timeline \in Nat /\ calls \in Nat
      /\ \A b \in pending : b.call \in Nat /\ b.sig \in Nat /\ b.gate \in Nat
      /\ \A r \in returned : r.call \in Nat /\ r.value \in Nat
  BY BatchFields DEF TypeOK, SyncPoint
<1>1. ASSUME NEW kind \in Kinds, NEW gate \in Gates, Record(kind, gate)
      PROVE  GateInv'
  <2> DEFINE chain == Chain(kind, gate)
             final == FinalValue(kind, timelineValue)
  <2>1. gate = calls + 1 /\ gate \in Nat
    BY <1>0 DEF Gates
  <2>2. /\ timelineValue \in Nat /\ frameIndex \in Nat /\ TimelineAssumption
        /\ timeline <= timelineValue
    BY TimelineAssumption DEF TypeOK, InFlightChain, TimelineBounded
  <2>3. /\ final \in Nat /\ timelineValue < final
        /\ \A b \in chain : b \in Batch
    BY <1>0, <2>1, <2>2, ChainFacts
  <2>4. \A b \in chain : /\ b.call = calls + 1
                         /\ b.gate = gate \/ \E c \in chain : c.gate = gate /\ c.sig < b.sig
    BY <1>0, <2>1, <2>2, ChainPlaces
  <2>5. /\ pending' = pending \cup chain
        /\ returned' = returned \cup {[call |-> calls + 1, value |-> final, flow |-> lastGenerate']}
        /\ UNCHANGED <<running, timeline, tags, signalled, consumed>>
    BY <1>1 DEF Record, Rejected, app, chain, final
  <2> HIDE DEF chain, final
  <2>6. \A b \in chain : b.sig \in Nat
    BY <2>3, BatchFields
  <2>7. GatesHold'
    <3>1. ASSUME NEW b \in chain
          PROVE  \E d \in chain : d.call = b.call /\ d.gate = d.call /\ d.sig <= b.sig
      BY <2>1, <2>4, <2>6
    <3> QED
      BY <2>5, <3>1 DEF GatesHold
  <2>8. ReadsKept'
    BY <2>2, <2>3, <2>5, <1>0 DEF ReadsKept
  <2> QED
    BY <2>7, <2>8
<1>2. ASSUME NEW b \in running, Finish(b)
      PROVE  GateInv'
  <2>1. /\ b \in pending /\ b.sig = timeline + 1
        /\ pending' = pending \ {b} /\ running' = running \ {b} /\ timeline' = b.sig
        /\ UNCHANGED <<returned, signalled, consumed>>
    BY <1>2, FinishIsFirst DEF Finish, history, app
  <2>2. GatesHold'
    <3> SUFFICES ASSUME NEW c \in pending, c # b, ~(c.call <= signalled)
                 PROVE  \E d \in pending \ {b} : d.call = c.call /\ d.gate = d.call /\ d.sig <= c.sig
      BY <2>1 DEF GatesHold
    <3>1. PICK d \in pending : d.call = c.call /\ d.gate = d.call /\ d.sig <= c.sig
      BY DEF GatesHold
    <3>2. d # b
      BY <3>1 DEF GatesHold
    <3> QED
      BY <3>1, <3>2
  <2>3. ASSUME NEW r \in returned, r.value <= b.sig, r.call > consumed
        PROVE  tags'.output.call = r.call
    <3>1. r.call = b.call /\ r.value = b.sig
      BY <2>3, ReadsUndisturbed
    <3>2. b.stage \in Stage /\ r.value = b.sig + Remaining(b.stage)
      BY <2>1, <3>1, FinishIsFirst DEF DataInv, CallSpans
    <3>3. b.stage = "add" \/ b.stage \in Warps
      <4>1. CASE b.stage \in {"prep", "ofa", "cuda"}
        <5>1. Remaining(b.stage) \in Nat \ {0}
          BY <4>1 DEF Remaining
        <5> QED
          BY <1>0, <2>1, <3>1, <3>2, <5>1
      <4> QED
        BY <3>2, <4>1 DEF Stage, Warps, Refiners
    <3>4. /\ tags'.output.call = IF b.stage \in Warps THEN b.call ELSE tags.output.call
          /\ b.stage = "add" => tags.output.call = b.call
      BY <1>2, <3>1, FinishTags, FinishFindsInputs
    <3> QED
      BY <3>1, <3>3, <3>4
  <2> QED
    BY <2>1, <2>2, <2>3 DEF ReadsKept
<1>3. ASSUME NEW b \in pending, Start(b)
      PROVE  GateInv'
  BY <1>0, <1>3 DEF Start, Waited, host, history, app, GatesHold, ReadsKept
<1>4. CASE Signal
  <2>1. signalled' = signalled + 1 /\ signalled <= consumed
        /\ UNCHANGED <<pending, running, returned, timeline, tags, consumed>>
    BY <1>4 DEF Signal, history, gpu
  <2>2. \A b \in running : b.gate \in Nat
    BY <1>0 DEF TypeOK
  <2> QED
    BY <1>0, <2>1, <2>2 DEF GatesHold, ReadsKept
<1>5. CASE Consume
  BY <1>0, <1>5 DEF Consume, history, gpu, GatesHold, ReadsKept
<1>6. CASE Teardown
  <2>1. tags'.output = tags.output
    BY <1>6 DEF Teardown, TypeOK, Tags
  <2> QED
    BY <1>6, <2>1 DEF Teardown, history, app, GatesHold, ReadsKept
<1>7. CASE (\E kind \in Kinds : Enter(kind)) \/ EnterTeardown \/ UNCHANGED vars
  BY <1>7 DEF Enter, EnterTeardown, vars, history, gpu, app, GatesHold, ReadsKept
<1> QED
  BY <1>1, <1>2, <1>3, <1>4, <1>5, <1>6, <1>7 DEF Next

\* The output an application reads after a sync point stays what it was, and no batch
\* that writes it runs, if the application opens the gate of a call only after its last
\* read: no other synchronisation is needed on the one output image.
THEOREM OutputStableCorrect ==
  ASSUME ~SubmitMayFail
  PROVE  Spec => []OutputStable
<1>1. CASE ~Gated
  <2>1. OutputStable
    BY <1>1 DEF OutputStable
  <2> QED
    BY <2>1, PTL
<1>2. CASE Gated
  <2>1. Init => GateInv
    BY DEF Init, GateInv, GatesHold, ReadsKept
  <2>2. TypeOK /\ InFlightChain /\ DataInv /\ GateInv /\ [Next]_vars => GateInv'
    BY <1>2, GateKept
  <2>3. TypeOK /\ InFlightChain /\ DataInv /\ GateInv => OutputStable
    <3> SUFFICES ASSUME TypeOK, InFlightChain, DataInv, GateInv,
                        NEW r \in returned, r.value <= timeline, r.call > consumed
                 PROVE  /\ tags.output.call = r.call
                        /\ \A b \in running : "output" \notin Writes(b.stage)
      BY DEF OutputStable
    <3>1. ASSUME NEW b \in running
          PROVE  FALSE
      <4>1. b.sig = timeline + 1 /\ timeline \in Nat /\ r.value \in Nat
        BY FinishIsFirst DEF TypeOK, SyncPoint
      <4> QED
        BY <4>1, ReadsUndisturbed
    <3> QED
      BY <3>1 DEF GateInv, ReadsKept
  <2> QED
    BY <2>1, <2>2, <2>3, TypeCorrect, ChainCorrect, DataCorrect, PTL DEF Spec
<1> QED
  BY <1>1, <1>2

-----------------------------------------------------------------------------
(* The refinement of FrameOrder, but for its fairness.                      *)

\* What a remainder is, and that there is one only.
LEMMA Division ==
  \A a \in Nat, n \in Nat \ {0} :
    \E q \in Nat : \E r \in 0 .. n - 1 : a = (n * q) + r /\ r = a % n
OBVIOUS

LEMMA DivisionUnique ==
  ASSUME NEW n \in Nat \ {0}, NEW q \in Nat, NEW p \in Nat,
         NEW r \in 0 .. n - 1, NEW s \in 0 .. n - 1, (n * q) + r = (n * p) + s
  PROVE  r = s
OBVIOUS

\* A ring comes back to a slot after n steps.
LEMMA RingLap ==
  ASSUME NEW a \in Nat, NEW n \in Nat \ {0}, a >= n
  PROVE  (a - n) % n = a % n
<1>1. PICK q \in Nat, r \in 0 .. n - 1 : a = (n * q) + r /\ r = a % n
  BY Division
<1>2. a - n \in Nat
  OBVIOUS
<1>3. PICK p \in Nat, s \in 0 .. n - 1 : a - n = (n * p) + s /\ s = (a - n) % n
  BY <1>2, Division
<1>4. (n * q) + r = (n * (p + 1)) + s
  BY <1>1, <1>3
<1>5. r = s
  <2>1. p + 1 \in Nat
    OBVIOUS
  <2> QED
    BY ONLY n \in Nat \ {0}, q \in Nat, r \in 0 .. n - 1, s \in 0 .. n - 1, <2>1, <1>4, DivisionUnique
<1> QED
  BY <1>1, <1>3, <1>5

\* And not before.
LEMMA RingDistinct ==
  ASSUME NEW a \in Nat, NEW n \in Nat \ {0}, NEW d \in 1 .. n - 1, d <= a
  PROVE  (a - d) % n # a % n
<1>1. PICK q \in Nat, r \in 0 .. n - 1 : a = (n * q) + r /\ r = a % n
  BY Division
<1>2. a - d \in Nat
  OBVIOUS
<1>3. PICK p \in Nat, s \in 0 .. n - 1 : a - d = (n * p) + s /\ s = (a - d) % n
  BY <1>2, Division
<1>4. r = s => (n * q) + 0 = (n * p) + d
  BY <1>1, <1>3
<1>5. 0 \in 0 .. n - 1 /\ d \in 0 .. n - 1 /\ d # 0
  OBVIOUS
<1>6. r # s
  <2> SUFFICES ASSUME r = s
               PROVE  FALSE
    OBVIOUS
  <2>1. 0 = d
    BY <1>4, <1>5, DivisionUnique
  <2> QED
    BY <1>5, <2>1
<1> QED
  BY <1>1, <1>3, <1>6

\* The sync points the semaphore has reached, and the others.
Reached == {r \in returned : r.value <= timeline}
Open    == {r \in returned : timeline < r.value}

\* How many calls back a sync point was returned: 1 for the last.
Back(r) == 1 + calls - r.call

\* There is one sync point per call.
PointsCounted == IsFiniteSet(returned) /\ Cardinality(returned) = calls

\* The slot a call took still has the call's value while the call is in flight.
SlotsRemember ==
  \A r \in Open :
    /\ Back(r) <= Ring /\ Back(r) <= frameIndex
    /\ slotSignal[(frameIndex - Back(r)) % Ring] = r.value

RingInv == PointsCounted /\ SlotsRemember

\* The host that has got its slot leaves fewer calls in flight than there are slots.
LEMMA OpenBehindSlot ==
  ASSUME TypeOK, DataInv, RingInv, SlotFree, NEW r \in Open
  PROVE  Back(r) \in 1 .. Ring - 1
<1>1. /\ frameIndex \in Nat /\ Ring \in Nat \ {0} /\ calls \in Nat /\ timeline \in Nat
      /\ r.call \in 1 .. calls /\ r.value \in Nat
  BY TimelineAssumption DEF TypeOK, TimelineAssumption, SyncPoint, Open, DataInv, SyncPoints
<1>2. Back(r) \in Nat /\ 1 <= Back(r) /\ Back(r) <= Ring /\ Back(r) <= frameIndex
  BY <1>1 DEF RingInv, SlotsRemember, Back
<1>3. CASE Back(r) = Ring
  <2>1. (frameIndex - Ring) % Ring = frameIndex % Ring
    BY <1>1, <1>2, <1>3, RingLap
  <2>2. slotSignal[frameIndex % Ring] = r.value
    BY <1>3, <2>1 DEF RingInv, SlotsRemember
  <2> QED
    BY <1>1, <2>2 DEF SlotFree, Slot, Open
<1> QED
  BY <1>1, <1>2, <1>3

\* The slots remember the calls in flight through every step.
LEMMA RingKept ==
  ASSUME ~SubmitMayFail, TypeOK, InFlightChain, DataInv, RingInv, [Next]_vars
  PROVE  RingInv'
<1> USE DEF RingInv
<1>0. /\ frameIndex \in Nat /\ Ring \in Nat \ {0} /\ calls \in Nat
      /\ timeline \in Nat /\ timelineValue \in Nat /\ slotSignal \in [Slots -> Nat]
      /\ \A r \in returned : r.call \in 1 .. calls /\ r.value \in Nat /\ r.value <= timelineValue
  BY TimelineAssumption DEF TypeOK, TimelineAssumption, SyncPoint, DataInv, SyncPoints
<1>1. ASSUME NEW kind \in Kinds, NEW gate \in Gates, Record(kind, gate)
      PROVE  RingInv'
  <2> DEFINE final == FinalValue(kind, timelineValue)
             new == [call |-> calls + 1, value |-> final, flow |-> lastGenerate']
  <2>1. gate \in Nat /\ final \in Nat
    BY <1>0, ChainFacts DEF Gates
  <2>2. /\ SlotFree
        /\ slotSignal' = [slotSignal EXCEPT ![Slot] = final]
        /\ frameIndex' = frameIndex + 1 /\ calls' = calls + 1 /\ timeline' = timeline
        /\ returned' = returned \cup {new}
    BY <1>1 DEF Record, new, final
  <2>3. new.call = calls + 1 /\ new.value = final
    OBVIOUS
  <2> HIDE DEF new, final
  <2>4. Slot \in Slots /\ Slot = frameIndex % Ring
    BY <1>0, SlotType DEF Slot
  <2>5. PointsCounted'
    <3>1. new \notin returned
      BY <1>0, <2>3
    <3> QED
      BY <1>0, <2>2, <3>1, FS_AddElement DEF PointsCounted
  <2>6. ASSUME NEW r \in Open
        PROVE  /\ Back(r)' <= Ring /\ Back(r)' <= frameIndex'
               /\ slotSignal'[(frameIndex' - Back(r)') % Ring] = r.value
    <3>1. Back(r) \in 1 .. Ring - 1
      BY <2>2, OpenBehindSlot
    <3>2. /\ Back(r) <= frameIndex
          /\ slotSignal[(frameIndex - Back(r)) % Ring] = r.value
      BY DEF SlotsRemember
    <3>3. Back(r)' = Back(r) + 1
      BY <1>0, <2>2 DEF Back, Open
    <3>4. (frameIndex - Back(r)) % Ring # Slot
      BY <1>0, <2>4, <3>1, <3>2, RingDistinct
    <3>5. frameIndex' - Back(r)' = frameIndex - Back(r)
      BY <1>0, <2>2, <3>1, <3>3
    <3>6. slotSignal'[(frameIndex - Back(r)) % Ring] = r.value
      <4>1. (frameIndex - Back(r)) % Ring \in Slots
        BY <1>0, <3>1, <3>2 DEF Slots
      <4> QED
        BY <1>0, <2>2, <3>2, <3>4, <4>1
    <3> QED
      BY <1>0, <2>2, <3>1, <3>2, <3>3, <3>5, <3>6
  <2>7. ASSUME NEW r, r = new
        PROVE  /\ Back(r)' <= Ring /\ Back(r)' <= frameIndex'
               /\ slotSignal'[(frameIndex' - Back(r)') % Ring] = r.value
    <3>1. Back(r)' = 1
      BY <1>0, <2>2, <2>3, <2>7 DEF Back
    <3>2. frameIndex' - Back(r)' = frameIndex
      BY <1>0, <2>2, <3>1
    <3> QED
      BY <1>0, <2>2, <2>3, <2>4, <2>7, <3>1, <3>2
  <2>8. SlotsRemember'
    <3>1. \A r \in Open' : r \in Open \/ r = new
      BY <2>2 DEF Open
    <3> QED
      BY <2>6, <2>7, <3>1 DEF SlotsRemember
  <2> QED
    BY <2>5, <2>8
<1>2. ASSUME Open' \subseteq Open, UNCHANGED <<frameIndex, slotSignal, calls, returned>>
      PROVE  RingInv'
  BY <1>2 DEF PointsCounted, SlotsRemember, Back
<1>3. ASSUME NEW b \in running, Finish(b)
      PROVE  RingInv'
  <2>1. timeline' = timeline + 1 /\ UNCHANGED <<frameIndex, slotSignal, calls, returned>>
    BY <1>3, FinishIsFirst DEF Finish, host, history
  <2>2. Open' \subseteq Open
    BY <1>0, <2>1 DEF Open
  <2> QED
    BY <1>2, <2>1, <2>2
<1>4. CASE Teardown
  <2>1. pending = {} /\ UNCHANGED <<calls, returned, timeline>>
    BY <1>4 DEF Teardown, history
  <2>2. ~(timeline < timelineValue)
    <3> SUFFICES ASSUME timeline < timelineValue
                 PROVE  FALSE
      OBVIOUS
    <3>1. timelineValue \in timeline + 1 .. timelineValue
      BY <1>0
    <3> QED
      BY <2>1, <3>1 DEF InFlightChain, ChainComplete
  <2>3. Open' = {}
    BY <1>0, <2>1, <2>2 DEF Open
  <2> QED
    BY <2>1, <2>3 DEF PointsCounted, SlotsRemember
<1>5. CASE \/ \E kind \in Kinds : Enter(kind)
           \/ \E b \in pending : Start(b)
           \/ EnterTeardown \/ Signal \/ Consume \/ UNCHANGED vars
  <2>1. UNCHANGED <<frameIndex, slotSignal, calls, returned, timeline>>
    BY <1>5 DEF Enter, Start, EnterTeardown, Signal, Consume, vars, host, history, gpu, app
  <2> QED
    BY <1>2, <2>1 DEF Open
<1> QED
  BY <1>1, <1>3, <1>4, <1>5 DEF Next

\* At most as many frames are open as calls the ring holds, one fewer when a call is
\* about to be recorded; the semaphore reaches one sync point at a time.
LEMMA StepRefines ==
  ASSUME ~SubmitMayFail, TypeOK, InFlightChain, DataInv, RingInv, [Next]_vars
  PROVE  [Order!Next]_(Order!vars)
<1> DEFINE done == Cardinality(Reached)
<1>0. /\ Ring \in Nat \ {0} /\ calls \in Nat /\ timeline \in Nat /\ timelineValue \in Nat
      /\ IsFiniteSet(returned) /\ Cardinality(returned) = calls
      /\ \A r \in returned : r.call \in 1 .. calls /\ r.value \in Nat /\ r.value <= timelineValue
  BY TimelineAssumption DEF TypeOK, TimelineAssumption, SyncPoint, DataInv, SyncPoints, RingInv,
                            PointsCounted
<1>1. /\ IsFiniteSet(Reached) /\ IsFiniteSet(Open)
      /\ done \in Nat /\ Cardinality(Open) \in Nat
      /\ done + Cardinality(Open) = calls
  <2>1. Reached \cup Open = returned /\ Reached \cap Open = {}
    BY <1>0 DEF Reached, Open
  <2>2. IsFiniteSet(Reached) /\ IsFiniteSet(Open)
    BY <1>0, FS_Subset DEF Reached, Open
  <2>3. done \in Nat /\ Cardinality(Open) \in Nat
    BY <2>2, FS_CardinalityType
  <2>4. Cardinality({}) = 0
    BY FS_EmptySet
  <2> HIDE DEF done
  <2>5. calls = done + Cardinality(Open) - 0
    BY <1>0, <2>1, <2>2, <2>4, FS_Union DEF done
  <2> QED
    BY <2>2, <2>3, <2>5
<1>2. ASSUME UNCHANGED <<calls, returned, timeline>>
      PROVE  UNCHANGED Order!vars
  BY <1>2 DEF Order!vars
<1>3. ASSUME NEW kind \in Kinds, NEW gate \in Gates, Record(kind, gate)
      PROVE  Order!Issue
  <2> DEFINE final == FinalValue(kind, timelineValue)
  <2>1. SlotFree /\ calls' = calls + 1 /\ timeline' = timeline
        /\ \E r : r.value = final /\ returned' = returned \cup {r}
    BY <1>3 DEF Record, final
  <2>2. final \in Nat /\ timelineValue < final /\ timeline <= timelineValue
    BY <1>0, ChainFacts DEF Gates, TypeOK, InFlightChain, TimelineBounded
  <2> HIDE DEF final
  <2>3. Reached' = Reached
    BY <1>0, <2>1, <2>2 DEF Reached
  <2>4. Cardinality(Open) <= Ring - 1
    <3> DEFINE f == [r \in Open |-> Back(r)]
    <3>1. \A r \in Open : Back(r) \in 1 .. Ring - 1
      BY <2>1, OpenBehindSlot
    <3>2. \A q, r \in Open : Back(q) = Back(r) => q = r
      BY <1>0 DEF Back, Open, DataInv, SyncPoints
    <3>3. f \in Injection(Open, 1 .. Ring - 1)
      BY <3>1, <3>2 DEF Injection, IsInjective
    <3>4. IsFiniteSet(1 .. Ring - 1) /\ Cardinality(1 .. Ring - 1) = Ring - 1
      BY <1>0, FS_Interval
    <3> QED
      BY <3>3, <3>4, FS_Injection
  <2>5. calls - done < Ring
    BY <1>0, <1>1, <2>4
  <2> QED
    BY <2>1, <2>3, <2>5 DEF Order!Issue, Reached
<1>4. ASSUME NEW b \in running, Finish(b)
      PROVE  Order!Complete \/ UNCHANGED Order!vars
  <2>1. /\ b \in pending /\ b.sig = timeline + 1 /\ timeline' = b.sig
        /\ UNCHANGED <<calls, returned>>
    BY <1>4, FinishIsFirst DEF Finish, history
  <2>2. \A q, r \in returned : q.value = b.sig /\ r.value = b.sig => q = r
    <3> SUFFICES ASSUME NEW q \in returned, NEW r \in returned, q.value = b.sig, r.value = b.sig
                 PROVE  q = r
      OBVIOUS
    <3>1. b.call \in Nat
      BY <2>1, FinishIsFirst
    <3>2. q.call = b.call /\ r.call = b.call
      BY <1>0, <2>1, <3>1 DEF DataInv, CallSpans
    <3> QED
      BY <3>2 DEF DataInv, SyncPoints
  <2>3. CASE \E r \in returned : r.value = b.sig
    <3>1. PICK r \in returned : r.value = b.sig
      BY <2>3
    <3>2. Reached' = Reached \cup {r} /\ r \notin Reached /\ r \in Open
      BY <1>0, <2>1, <2>2, <3>1 DEF Reached, Open
    <3>3. Cardinality(Reached') = done + 1
      BY <1>1, <3>2, FS_AddElement
    <3>4. Cardinality(Open) # 0
      BY <1>1, <3>2, FS_EmptySet
    <3>5. done < calls
      BY <1>0, <1>1, <3>4
    <3> QED
      BY <2>1, <3>3, <3>5 DEF Order!Complete, Reached
  <2>4. CASE ~\E r \in returned : r.value = b.sig
    <3>1. Reached' = Reached
      BY <1>0, <2>1, <2>4 DEF Reached
    <3> QED
      BY <2>1, <3>1 DEF Order!vars, Reached
  <2> QED
    BY <2>3, <2>4
<1>5. CASE \/ \E kind \in Kinds : Enter(kind)
           \/ \E b \in pending : Start(b)
           \/ EnterTeardown \/ Teardown \/ Signal \/ Consume \/ UNCHANGED vars
  BY <1>2, <1>5 DEF Enter, Start, EnterTeardown, Teardown, Signal, Consume, vars, history, gpu, app
<1> QED
  BY <1>3, <1>4, <1>5 DEF Next, Order!Next

\* Whatever the tier, the network and the teardowns in between, record calls and sync
\* points are frames issued and completed one by one and in order, with never more than
\* the ring's worth of them in flight: the safety part of ImplementsFrameOrder.
THEOREM RefinesFrameOrder ==
  ASSUME ~SubmitMayFail
  PROVE  Spec => Order!Init /\ [][Order!Next]_(Order!vars)
<1>1. Init => RingInv /\ Order!Init
  <2> SUFFICES ASSUME Init
               PROVE  RingInv /\ Order!Init
    OBVIOUS
  <2>1. returned = {} /\ calls = 0
    BY DEF Init
  <2>2. IsFiniteSet({}) /\ Cardinality({}) = 0
    BY FS_EmptySet
  <2>3. {r \in returned : r.value <= timeline} = {}
    BY <2>1
  <2> QED
    BY <2>1, <2>2, <2>3 DEF RingInv, PointsCounted, SlotsRemember, Open, Order!Init
<1>2. TypeOK /\ InFlightChain /\ DataInv /\ RingInv /\ [Next]_vars => RingInv'
  BY RingKept
<1>3. TypeOK /\ InFlightChain /\ DataInv /\ RingInv /\ [Next]_vars => [Order!Next]_(Order!vars)
  BY StepRefines
<1> QED
  BY <1>1, <1>2, <1>3, TypeCorrect, ChainCorrect, DataCorrect, PTL DEF Spec

-----------------------------------------------------------------------------
(* The host, the queues, the stream and the application never all wait for  *)
(* each other.                                                              *)

\* A batch waits for its predecessor or for nothing on the timeline, and for the
\* application's signal of its own call or for none; every call has a sync point.
WaitsKnown ==
  /\ \A b \in pending : /\ b.wait = 0 \/ b.wait + 1 = b.sig
                        /\ b.gate = 0 \/ b.gate = b.call
  /\ \A c \in 1 .. calls : \E r \in returned : r.call = c
  /\ calls <= MaxCalls /\ (pc \in Kinds => calls < MaxCalls)
  /\ Gated => signalled <= consumed + 1

\* What the batches of a call wait for.
LEMMA ChainWaits ==
  ASSUME timelineValue \in Nat, calls \in Nat, NEW kind \in Kinds, NEW gate \in Gates,
         NEW b \in Chain(kind, gate)
  PROVE  /\ b.wait = 0 \/ b.wait + 1 = b.sig
         /\ b.gate = 0 \/ b.gate = b.call
<1> DEFINE S == Stages(kind)
<1>1. PICK i \in 1 .. Len(S) :
        b = [stage |-> S[i], sig |-> timelineValue + i, wait |-> WaitValue(i, timelineValue),
             gate |-> IF i = 1 THEN gate ELSE 0, slot |-> PoolSlot, call |-> calls + 1]
  BY DEF Chain
<1>2. Len(S) \in Nat
  BY StagesFacts
<1> HIDE DEF S
<1>3. i \in Nat /\ gate \in {0, calls + 1}
  BY <1>2 DEF Gates
<1> QED
  BY <1>1, <1>3 DEF WaitValue

\* Every operation keeps the waits known.
LEMMA WaitsKept ==
  ASSUME ~SubmitMayFail, TypeOK, DataInv, WaitsKnown, [Next]_vars
  PROVE  WaitsKnown'
<1>0. /\ signalled \in Nat /\ consumed \in Nat /\ calls \in Nat /\ MaxCalls \in Nat
      /\ timelineValue \in Nat /\ Gated \in BOOLEAN
  BY TimelineAssumption DEF TypeOK
<1>1. ASSUME NEW kind \in Kinds, NEW gate \in Gates, Record(kind, gate)
      PROVE  WaitsKnown'
  <2> DEFINE point == [call |-> calls + 1, value |-> FinalValue(kind, timelineValue),
                       flow |-> lastGenerate']
  <2>1. /\ pending' = pending \cup Chain(kind, gate)
        /\ returned' = returned \cup {point}
        /\ calls' = calls + 1 /\ pc' = "idle" /\ pc = kind
        /\ UNCHANGED <<signalled, consumed>>
    BY <1>1 DEF Record, Rejected, app
  <2>2. point.call = calls + 1
    OBVIOUS
  <2> HIDE DEF point
  <2>3. \A b \in Chain(kind, gate) : /\ b.wait = 0 \/ b.wait + 1 = b.sig
                                     /\ b.gate = 0 \/ b.gate = b.call
    BY <1>0, ChainWaits
  <2>4. \A c \in 1 .. calls' : c \in 1 .. calls \/ c = calls + 1
    BY <1>0, <2>1
  <2>5. \A c \in 1 .. calls' : \E r \in returned' : r.call = c
    BY <2>1, <2>2, <2>4 DEF WaitsKnown
  <2>6. calls' <= MaxCalls /\ pc' \notin Kinds
    BY <1>0, <2>1 DEF WaitsKnown, Kinds
  <2>7. \A b \in pending' : /\ b.wait = 0 \/ b.wait + 1 = b.sig
                            /\ b.gate = 0 \/ b.gate = b.call
    BY <2>1, <2>3 DEF WaitsKnown
  <2>8. Gated => signalled' <= consumed' + 1
    BY <2>1 DEF WaitsKnown
  <2> QED
    BY <2>5, <2>6, <2>7, <2>8 DEF WaitsKnown
<1>2. ASSUME NEW b \in running, Finish(b)
      PROVE  WaitsKnown'
  BY <1>2 DEF Finish, host, history, app, WaitsKnown
<1>3. ASSUME NEW b \in pending, Start(b)
      PROVE  WaitsKnown'
  BY <1>3 DEF Start, host, history, app, WaitsKnown
<1>4. CASE Signal
  BY <1>0, <1>4 DEF Signal, host, history, gpu, WaitsKnown
<1>5. CASE Consume
  BY <1>0, <1>5 DEF Consume, host, history, gpu, WaitsKnown
<1>6. CASE Teardown
  BY <1>6 DEF Teardown, history, app, WaitsKnown, Kinds
<1>7. ASSUME NEW kind \in Kinds, Enter(kind)
      PROVE  WaitsKnown'
  BY <1>7 DEF Enter, history, gpu, app, WaitsKnown
<1>8. CASE EnterTeardown
  BY <1>8 DEF EnterTeardown, history, gpu, app, WaitsKnown, Kinds
<1>9. CASE UNCHANGED vars
  BY <1>9 DEF vars, host, history, gpu, app, WaitsKnown
<1> QED
  BY <1>1, <1>2, <1>3, <1>4, <1>5, <1>6, <1>7, <1>8, <1>9 DEF Next

\* The batch that signals the next value is in flight whenever anything is, at the head
\* of its queue, with its timeline wait satisfied.
LEMMA NextInLine ==
  ASSUME TypeOK, InFlightChain, WaitsKnown, timeline < timelineValue
  PROVE  \E b \in pending : b.sig = timeline + 1 /\ HeadOfQueue(b) /\ timeline >= b.wait
<1>1. timeline \in Nat /\ timelineValue \in Nat
  BY DEF TypeOK
<1>2. timeline + 1 \in timeline + 1 .. timelineValue
  BY <1>1
<1>3. PICK b \in pending : b.sig = timeline + 1
  BY <1>2 DEF InFlightChain, ChainComplete
<1>4. \A c \in pending : c.sig \in Nat /\ c.wait \in Nat /\ timeline < c.sig
  BY BatchFields DEF TypeOK, InFlightChain, ChainBounds
<1>5. HeadOfQueue(b)
  BY <1>1, <1>3, <1>4 DEF HeadOfQueue
<1>6. timeline >= b.wait
  BY <1>1, <1>3, <1>4 DEF WaitsKnown
<1> QED
  BY <1>3, <1>5, <1>6

\* While the next batch waits for the application, the application waits for nothing:
\* the outputs it has to read before it signals are those of calls before it, which
\* are complete.
LEMMA ApplicationMoves ==
  ASSUME TypeOK, DataInv, WaitsKnown, NEW b \in pending, b.sig = timeline + 1,
         signalled < b.gate
  PROVE  AppMoves
<1>1. /\ signalled \in Nat /\ consumed \in Nat /\ calls \in Nat /\ MaxCalls \in Nat
      /\ timeline \in Nat /\ b.gate \in Nat
      /\ \A r \in returned : r.call \in Nat /\ r.value \in Nat
  BY BatchFields, TimelineAssumption DEF TypeOK, SyncPoint
<1>2. b.gate = b.call /\ b.call \in 1 .. calls
  BY <1>1 DEF WaitsKnown, DataInv, CallSpans
<1>3. signalled < MaxCalls
  BY <1>1, <1>2 DEF WaitsKnown
<1>4. CASE ~Gated \/ signalled <= consumed
  BY <1>3, <1>4 DEF AppMoves
<1>5. CASE Gated /\ consumed < signalled
  <2>1. consumed + 1 \in 1 .. calls /\ consumed + 1 < b.call
    BY <1>1, <1>2, <1>5
  <2>2. PICK r \in returned : r.call = consumed + 1
    BY <2>1 DEF WaitsKnown
  <2>3. r.value < b.sig
    BY <2>1, <2>2 DEF DataInv, CallSpans
  <2>4. r.value <= timeline
    BY <1>1, <2>3
  <2> QED
    BY <1>5, <2>2, <2>4 DEF AppMoves
<1> QED
  BY <1>1, <1>4, <1>5

\* Of what is in flight one batch can always go on, and a call never waits for a value
\* nobody is going to signal: with the scheduling FairSpec assumes, what SyncReached and
\* HostReturns rest on.
THEOREM NeverStuckCorrect ==
  ASSUME ~SubmitMayFail
  PROVE  Spec => []NeverStuck
<1>1. Init => WaitsKnown
  BY TimelineAssumption DEF Init, WaitsKnown, Kinds
<1>2. TypeOK /\ DataInv /\ WaitsKnown /\ [Next]_vars => WaitsKnown'
  BY WaitsKept
<1>3. TypeOK /\ InFlightChain /\ DataInv /\ WaitsKnown => NeverStuck
  <2> SUFFICES ASSUME TypeOK, InFlightChain, DataInv, WaitsKnown
               PROVE  NeverStuck
    OBVIOUS
  <2>1. timeline \in Nat /\ timelineValue \in Nat /\ slotSignal \in [Slots -> Nat] /\ Slot \in Slots
    BY SlotType DEF TypeOK
  <2>2. timeline < timelineValue => \E b \in pending : MayStart(b)
    BY NextInLine, ApplicationMoves DEF MayStart
  <2>3. pending # {} => timeline < timelineValue
    <3> SUFFICES ASSUME NEW b \in pending
                 PROVE  timeline < timelineValue
      OBVIOUS
    <3>1. /\ b.sig \in Nat /\ b.slot \in Slots
          /\ timeline < b.sig /\ b.sig <= slotSignal[b.slot] /\ slotSignal[b.slot] <= timelineValue
      BY BatchFields DEF TypeOK, InFlightChain, ChainBounds, SlotBounds
    <3> QED
      BY <2>1, <3>1
  <2>4. ~SlotFree => timeline < timelineValue
    <3>1. slotSignal[Slot] \in Nat /\ slotSignal[Slot] <= timelineValue
      BY <2>1 DEF InFlightChain, SlotBounds
    <3> QED
      BY <2>1, <3>1 DEF SlotFree
  <2> QED
    BY <2>2, <2>3, <2>4 DEF NeverStuck
<1> QED
  BY <1>1, <1>2, <1>3, TypeCorrect, ChainCorrect, DataCorrect, PTL DEF Spec
=============================================================================
