---------------------------- MODULE FrameTimeline ----------------------------
(***************************************************************************)
(* The per-frame path of nvofg: the application thread in                  *)
(* nvofg_record_generate / nvofg_record_warp / nvofg_resize, the compute   *)
(* and optical-flow queues and the CUDA stream that execute what it        *)
(* submits, and the one timeline semaphore that chains all of them.        *)
(*                                                                         *)
(* A call records one command buffer per stage and submits them as a chain *)
(* of batches: batch i of a call signals timelineValue + i, batch 1 waits  *)
(* for the application's semaphore and every other batch waits for the     *)
(* value its predecessor signals.  A ring of command pools lets the host   *)
(* run ahead; before a slot is reused the host waits for the last value    *)
(* that slot signalled.                                                    *)
(*                                                                         *)
(* Image contents are abstracted to tags: the number of the call whose     *)
(* data they hold (0: nothing yet).                                        *)
(***************************************************************************)
EXTENDS Naturals, FiniteSets, Sequences

CONSTANTS
  Ring,           \* NvofgContext::kRing, command-pool slots
  ShaderFlow,     \* Tier B: flow by a compute shader, no OFA queue
  CnnInterop,     \* a model was loaded before the pipeline was built
  PackPass,       \* interpolator == NVOFG_INTERP_CNN: the warp packs the net's input
  Gated,          \* the app gates each call on its last read of the shared output
  SubmitMayFail,  \* vkQueueSubmit may return an error
  MaxCalls        \* bound: record calls the application makes

ASSUME TimelineAssumption ==
  /\ Ring \in Nat \ {0}
  /\ MaxCalls \in Nat
  /\ {ShaderFlow, CnnInterop, PackPass, Gated, SubmitMayFail} \subseteq BOOLEAN

Slots  == 0 .. Ring - 1
Queues == {"compute", "of", "cuda"}
Stage  == {"prep", "ofa", "refineWarp", "flowWarp", "warp", "cuda", "add"}
Kinds  == {"generate", "warp"}

VARIABLES
  \* the host side: fields of NvofgContext
  pc,             \* where the application thread is: "idle" or inside a call
  ready,          \* pipelineReady
  timelineValue,  \* last value handed out
  slotSignal,     \* value each slot last signalled (0: never used)
  frameIndex,     \* record calls since the pipeline was built
  \* history of the calls
  calls,          \* record calls that returned
  lastGenerate,   \* the last of them that was a generate
  returned,       \* the sync points they returned
  \* the GPU side
  pending,        \* batches submitted and not finished
  running,        \* those that have started
  timeline,       \* the semaphore's current value
  tags,           \* which call each shared resource holds data of
  \* the application
  signalled,      \* value of the application's own timeline
  consumed        \* outputs the application has finished reading

host == <<pc, ready, timelineValue, slotSignal, frameIndex>>
history == <<calls, lastGenerate, returned>>
gpu == <<pending, running, timeline, tags>>
app == <<signalled, consumed>>
vars == <<host, history, gpu, app>>

-----------------------------------------------------------------------------
(* What a call submits.                                                    *)

QueueOf(stage) ==
  CASE stage = "ofa"  -> "of"
    [] stage = "cuda" -> "cuda"
    [] OTHER          -> "compute"

WarpStages(kind) ==
  IF kind = "warp" THEN <<"warp">>
  ELSE IF ShaderFlow THEN <<"flowWarp">>
  ELSE <<"prep", "ofa", "refineWarp">>

\* cnnDispatchResidual adds its two stages whenever the interop exists.
ResidualStages == IF CnnInterop THEN <<"cuda", "add">> ELSE <<>>

Stages(kind) == WarpStages(kind) \o ResidualStages

\* Faulty variant: the warp is submitted against prep's value, not the OFA's.
WaitSkipsFlow(i, base) ==
  IF i = 1 THEN 0 ELSE IF i = 3 THEN base + 1 ELSE base + i - 1

\* Faulty variant: the fusion is started without waiting for the warp.
WaitSkipsWarp(i, base) ==
  IF i = 1 THEN 0 ELSE IF i = 4 THEN base + 1 ELSE base + i - 1

\* Faulty variant: a batch waits for the value it signals itself.
WaitOwnSignal(i, base) == IF i = 1 THEN 0 ELSE base + i

\* The timeline value batch i of a call waits for (0: no timeline wait).
WaitValue(i, base) == IF i = 1 THEN 0 ELSE base + i - 1

\* Faulty variant: the residual stages are not accounted for.
FinalBeforeResidual(kind, base) == base + Len(WarpStages(kind))

\* The value stored in slotSignal, timelineValue and the returned sync point.
FinalValue(kind, base) == base + Len(Stages(kind))

\* The ring slot of the next call.
Slot == frameIndex % Ring

\* The slot whose command pools the next call records from.
PoolSlot == Slot

\* The chain of a call: gate is the application value its first batch waits for.
Chain(kind, gate) ==
  LET S == Stages(kind)
  IN  {[stage |-> S[i],
        sig   |-> timelineValue + i,
        wait  |-> WaitValue(i, timelineValue),
        gate  |-> IF i = 1 THEN gate ELSE 0,
        slot  |-> PoolSlot,
        call  |-> calls + 1] : i \in 1 .. Len(S)}

-----------------------------------------------------------------------------
(* The application thread.                                                 *)

Init ==
  /\ pc = "idle"
  /\ ready = FALSE
  /\ timelineValue = 0
  /\ slotSignal = [s \in Slots |-> 0]
  /\ frameIndex = 0
  /\ calls = 0
  /\ lastGenerate = 0
  /\ returned = {}
  /\ pending = {}
  /\ running = {}
  /\ timeline = 0
  /\ tags = [luma |-> 0, flow |-> 0, refined |-> 0, cnnIn |-> 0, cnnOut |-> 0,
             output |-> [call |-> 0, flow |-> 0, final |-> FALSE]]
  /\ signalled = 0
  /\ consumed = 0

\* Entry of a record call, up to the ring wait.  A generate builds the pipeline
\* if needed; a warp is refused while there is none.
Enter(kind) ==
  /\ pc = "idle"
  /\ calls < MaxCalls
  /\ kind = "warp" => ready
  /\ pc' = kind
  /\ ready' = TRUE
  /\ UNCHANGED <<timelineValue, slotSignal, frameIndex, history, gpu, app>>

\* Faulty variants of the ring wait: off by one, strict, absent.
SlotFreeEarly == timeline + 1 >= slotSignal[Slot]
SlotFreeStrict == timeline > slotSignal[Slot]
SlotFreeUnchecked == TRUE

\* vkWaitSemaphores on the slot about to be reused.
SlotFree == timeline >= slotSignal[Slot]

\* The batches vkQueueSubmit rejects: the result is ignored, the call goes on.
Rejected(chain) ==
  IF SubmitMayFail THEN SUBSET {b \in chain : b.stage # "cuda"} ELSE {{}}

\* The rest of a record call: reset the slot's pools, record and submit the
\* chain, publish the final value.
Record(kind, gate) ==
  /\ pc = kind
  /\ SlotFree
  /\ \E lost \in Rejected(Chain(kind, gate)) :
       pending' = pending \cup (Chain(kind, gate) \ lost)
  /\ slotSignal' = [slotSignal EXCEPT ![Slot] = FinalValue(kind, timelineValue)]
  /\ timelineValue' = FinalValue(kind, timelineValue)
  /\ frameIndex' = frameIndex + 1
  /\ calls' = calls + 1
  /\ lastGenerate' = IF kind = "generate" THEN calls + 1 ELSE lastGenerate
  /\ returned' = returned \cup {[call  |-> calls + 1,
                                 value |-> FinalValue(kind, timelineValue),
                                 flow  |-> lastGenerate']}
  /\ pc' = "idle"
  /\ UNCHANGED <<ready, running, timeline, tags, app>>

\* nvofg_resize / nvofg_unregister_all: the device is drained, then everything
\* the pipeline owns goes away.  The timeline and its counter survive.
EnterTeardown ==
  /\ pc = "idle"
  /\ ready
  /\ pc' = "teardown"
  /\ UNCHANGED <<ready, timelineValue, slotSignal, frameIndex, history, gpu, app>>

Teardown ==
  /\ pc = "teardown"
  /\ pending = {}
  /\ pc' = "idle"
  /\ ready' = FALSE
  /\ slotSignal' = [s \in Slots |-> 0]
  /\ frameIndex' = 0
  /\ tags' = [tags EXCEPT !.luma = 0, !.flow = 0, !.refined = 0, !.cnnIn = 0, !.cnnOut = 0]
  /\ UNCHANGED <<timelineValue, history, pending, running, timeline, app>>

-----------------------------------------------------------------------------
(* The GPU: two Vulkan queues and the CUDA stream.                         *)

\* Faulty variant: no barrier against the earlier work of the queue.
HeadUnordered(b) == TRUE

\* Every command buffer opens with a full barrier (ALL_COMMANDS to ALL_COMMANDS),
\* so a batch does not overlap an earlier one of its queue; a stream is in order.
HeadOfQueue(b) ==
  \A c \in pending : QueueOf(c.stage) = QueueOf(b.stage) => b.sig <= c.sig

\* Faulty variant: the application's semaphore is left out of the wait list.
WaitedOnTimelineOnly(b) == timeline >= b.wait

\* The semaphore waits of a submission.
Waited(b) == timeline >= b.wait /\ signalled >= b.gate

Start(b) ==
  /\ b \notin running
  /\ HeadOfQueue(b)
  /\ Waited(b)
  /\ running' = running \cup {b}
  /\ UNCHANGED <<host, history, pending, timeline, tags, app>>

\* The warp passes write the output; with the CNN interpolator they also pack it.
Warped(b, t, flow) ==
  [t EXCEPT !.output = [call |-> b.call, flow |-> flow, final |-> ~CnnInterop],
            !.cnnIn  = IF CnnInterop /\ PackPass THEN b.call ELSE @]

\* The tags after a stage has executed.
Executed(b) ==
  CASE b.stage = "prep"       -> [tags EXCEPT !.luma = b.call]
    [] b.stage = "ofa"        -> [tags EXCEPT !.flow = tags.luma]
    [] b.stage = "refineWarp" -> Warped(b, [tags EXCEPT !.refined = tags.flow], tags.flow)
    [] b.stage = "flowWarp"   -> Warped(b, [tags EXCEPT !.luma = b.call, !.flow = b.call,
                                                        !.refined = b.call], b.call)
    [] b.stage = "warp"       -> Warped(b, tags, tags.refined)
    [] b.stage = "cuda"       -> [tags EXCEPT !.cnnOut = tags.cnnIn]
    [] b.stage = "add"        -> [tags EXCEPT !.output.final = (tags.cnnOut = tags.output.call)]

Finish(b) ==
  /\ running' = running \ {b}
  /\ pending' = pending \ {b}
  /\ timeline' = b.sig
  /\ tags' = Executed(b)
  /\ UNCHANGED <<host, history, app>>

-----------------------------------------------------------------------------
(* The application's rendering and presenting, on its own queues.          *)

\* The inputs of the next call are ready; a gating application signals only
\* after it has read every earlier output.
Signal ==
  /\ signalled < MaxCalls
  /\ Gated => signalled <= consumed
  /\ signalled' = signalled + 1
  /\ UNCHANGED <<host, history, gpu, consumed>>

\* The application finishes reading the output of a call whose sync point it waited for.
Consume ==
  /\ Gated
  /\ \E r \in returned : r.call = consumed + 1 /\ r.value <= timeline
  /\ consumed' = consumed + 1
  /\ UNCHANGED <<host, history, gpu, signalled>>

\* The values a call may be gated on: none, or the one the app signals for it.
Gates == IF Gated THEN {calls + 1} ELSE {0, calls + 1}

Next ==
  \/ \E kind \in Kinds : Enter(kind)
  \/ \E kind \in Kinds, gate \in Gates : Record(kind, gate)
  \/ EnterTeardown
  \/ Teardown
  \/ \E b \in pending : Start(b)
  \/ \E b \in running : Finish(b)
  \/ Signal
  \/ Consume

Spec == Init /\ [][Next]_vars

\* The device executes what it may, the thread returns from a wait that is
\* satisfied, and the app eventually signals and presents.  The app is never
\* obliged to make another call.
Fairness ==
  /\ WF_vars(\E b \in pending : QueueOf(b.stage) = "compute" /\ Start(b))
  /\ WF_vars(\E b \in pending : QueueOf(b.stage) = "of" /\ Start(b))
  /\ WF_vars(\E b \in pending : QueueOf(b.stage) = "cuda" /\ Start(b))
  /\ WF_vars(\E b \in running : Finish(b))
  /\ WF_vars(\E kind \in Kinds, gate \in Gates : Record(kind, gate))
  /\ WF_vars(Teardown)
  /\ WF_vars(Signal)
  /\ WF_vars(Consume)

FairSpec == Spec /\ Fairness

-----------------------------------------------------------------------------
(* Properties.                                                             *)

Batch == [stage : Stage, sig : Nat, wait : Nat, gate : Nat, slot : Slots, call : Nat]

SyncPoint == [call : Nat, value : Nat, flow : Nat]

Tags == [luma : Nat, flow : Nat, refined : Nat, cnnIn : Nat, cnnOut : Nat,
         output : [call : Nat, flow : Nat, final : BOOLEAN]]

\* The types of the variables; every batch names a slot of the ring.
TypeOK ==
  /\ pc \in Kinds \cup {"idle", "teardown"}
  /\ ready \in BOOLEAN
  /\ timelineValue \in Nat
  /\ slotSignal \in [Slots -> Nat]
  /\ frameIndex \in Nat
  /\ calls \in Nat
  /\ lastGenerate \in Nat
  /\ returned \subseteq SyncPoint
  /\ pending \subseteq Batch
  /\ running \subseteq pending
  /\ timeline \in Nat
  /\ tags \in Tags
  /\ signalled \in Nat
  /\ consumed \in Nat

Reads(stage) ==
  CASE stage = "prep"       -> {}
    [] stage = "ofa"        -> {"luma"}
    [] stage = "refineWarp" -> {"flow"}
    [] stage = "flowWarp"   -> {}
    [] stage = "warp"       -> {"refined"}
    [] stage = "cuda"       -> {"cnnIn"}
    [] stage = "add"        -> {"cnnOut"}

Writes(stage) ==
  CASE stage = "prep"       -> {"luma"}
    [] stage = "ofa"        -> {"flow"}
    [] stage = "refineWarp" -> {"refined", "output", "cnnIn"}
    [] stage = "flowWarp"   -> {"luma", "flow", "refined", "output", "cnnIn"}
    [] stage = "warp"       -> {"output", "cnnIn"}
    [] stage = "cuda"       -> {"cnnOut"}
    [] stage = "add"        -> {"output"}

\* The scratch images and buffers are not duplicated per ring slot, although up
\* to Ring calls are in flight on three queues: no batch ever runs while another
\* running batch touches a resource it writes.
NoRace ==
  \A b, c \in running :
    b # c => Writes(b.stage) \cap (Reads(c.stage) \cup Writes(c.stage)) = {}

\* A record call resets the command pools of its slot only once nothing that was
\* recorded from them is still queued or executing.
ReuseSafe ==
  [][\A b \in pending' \ pending : \A c \in pending : c.slot # b.slot]_vars

\* The timeline semaphore never goes back or repeats a value, although three
\* queues signal it.
SignalsIncrease == [][timeline' > timeline]_timeline

\* When a sync point is reached, the registered output holds exactly the frame of
\* the call that returned it: warped with the flow of the last generate before
\* it and, with the CNN, with the residual of that same frame added.
SyncMeansOutput ==
  [][\A r \in returned :
       timeline < r.value /\ r.value <= timeline' =>
         tags'.output = [call |-> r.call, flow |-> r.flow, final |-> TRUE]]_vars

\* An application that gates every call on its last read of the shared output
\* never sees it overwritten, or about to be, between the sync point of a call
\* and the end of its own read.
OutputStable ==
  Gated =>
    \A r \in returned :
      r.value <= timeline /\ r.call > consumed =>
        /\ tags.output.call = r.call
        /\ \A b \in running : "output" \notin Writes(b.stage)

\* The fusion network reads the buffer the warp of its own call packed.
FusionReadsItsPack ==
  \A b \in running : b.stage = "cuda" => tags.cnnIn = b.call

\* The application can signal the inputs of a call, or finish the read it has to
\* finish before that.
AppMoves ==
  \/ signalled < MaxCalls /\ (Gated => signalled <= consumed)
  \/ Gated /\ \E r \in returned : r.call = consumed + 1 /\ r.value <= timeline

\* A batch that nothing but the application holds back, and the application can go on.
MayStart(b) == HeadOfQueue(b) /\ timeline >= b.wait /\ (signalled < b.gate => AppMoves)

\* The two queues, the stream, the host and the application never all wait for each
\* other: of what is in flight one batch runs or may start, and a call that waits for
\* its slot, without a timeout, waits for something that is in flight.
NeverStuck ==
  /\ pending # {} => \E b \in pending : b \in running \/ MayStart(b)
  /\ pc \in Kinds /\ ~SlotFree => pending # {}

\* Every sync point a record call returned is eventually reached.
SyncReached ==
  \A c \in 1 .. MaxCalls :
    calls >= c ~> \E r \in returned : r.call = c /\ r.value <= timeline

\* The application thread returns from every call, however long it had to wait
\* for a slot or for the device to drain.
HostReturns == pc # "idle" ~> pc = "idle"

\* The refinement: a call issues a frame, the value of its sync point completes it.
Order == INSTANCE FrameOrder WITH
           Depth  <- Ring,
           issued <- calls,
           done   <- Cardinality({r \in returned : r.value <= timeline})

\* Frames complete in order, at most Ring of them are in flight, all complete.
ImplementsFrameOrder == Order!Spec

-----------------------------------------------------------------------------
(* The inductive invariant: the batches in flight signal exactly the       *)
(* values the semaphore has not reached yet, one each, and each of them    *)
(* can only start when the value before its own has been signalled.        *)

ChainBounds ==
  \A b \in pending : timeline < b.sig /\ b.sig <= slotSignal[b.slot]

SlotBounds == \A s \in Slots : slotSignal[s] <= timelineValue

ChainUnique == \A b, c \in pending : b.sig = c.sig => b = c

ChainComplete ==
  \A v \in timeline + 1 .. timelineValue : \E b \in pending : b.sig = v

ChainOrdered ==
  \A b \in pending :
    \/ b.wait + 1 = b.sig
    \/ /\ QueueOf(b.stage) = "compute"
       /\ \A c \in pending : c.sig + 1 = b.sig => QueueOf(c.stage) = "compute"

ChainTail ==
  \A b \in pending : b.sig = timelineValue => QueueOf(b.stage) = "compute"

Serial == \A b \in running : b.sig = timeline + 1

TimelineBounded == timeline <= timelineValue

InFlightChain ==
  /\ TimelineBounded
  /\ ChainBounds
  /\ SlotBounds
  /\ ChainUnique
  /\ ChainComplete
  /\ ChainOrdered
  /\ ChainTail
  /\ Serial
=============================================================================
