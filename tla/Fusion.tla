-------------------------------- MODULE Fusion --------------------------------
(***************************************************************************)
(* The fusion network (cnn_interop.cu, cnn_cuda.cu) of the contexts of a   *)
(* process: which weights a frame is refined with, what its first dispatch *)
(* waits for, and what the CUDA stream still refers to.                    *)
(*                                                                         *)
(* The models live at addresses of the C++ heap and their uploaded weights *)
(* in a table that is keyed by the address.  All contexts share the CUDA   *)
(* stream and, in this module, one application thread.  FrameTimeline has  *)
(* the batches of a frame in detail; here a frame is its warp, its fusion  *)
(* and its residual.                                                       *)
(***************************************************************************)
EXTENDS FusionNet, SequencesExt

CONSTANTS
  Contexts,     \* NvofgContexts, on one device
  Addresses,    \* where a CnnModel can be allocated
  Weights,      \* what a model file can hold
  InputFirst,   \* whether the application submits a frame's rendering before it generates
  MaxFrames     \* bound on the frames of a context

Null == "null"
None == "none"

ASSUME FusionAssumption ==
  /\ MaxFrames \in Nat /\ InputFirst \in BOOLEAN
  /\ Null \notin Addresses /\ None \notin Weights

VARIABLES
  heap,      \* the model at each address
  cnn,       \* NvofgContext::cnn
  cache,     \* g_cache: the uploaded weights of each address
  ready,     \* the contexts with a built pipeline
  interop,   \* the contexts with an interop
  frames,    \* the frames generated by each context
  input,     \* the frames whose input the application has signalled
  reached,   \* the value of each context's timeline
  batches,   \* the Vulkan batches submitted and not yet executed
  stream,    \* the CUDA stream
  call,      \* the generate call that waits for an upload
  ran,       \* the last fusion that ran and what its context had loaded
  \* history of the addresses
  stale      \* those whose uploaded weights are a deleted model's

vars == <<heap, cnn, cache, ready, interop, frames, input, reached, batches, stream, call, ran, stale>>

NoUpload == [ctx |-> None, value |-> 0]
Batch == [ctx : Contexts, stage : {"warp", "residual"}, after : Nat, value : Nat, frame : Nat]
Op == [ctx : Contexts, op : {"wait", "signal"}, value : Nat] \cup
      [ctx : Contexts, op : {"run"}, weights : Weights, loaded : Weights, reused : BOOLEAN]

\* Three values of the timeline for each frame.
Base(c) == 3 * frames[c]

Init ==
  /\ heap = [a \in Addresses |-> None] /\ stale = {}
  /\ cnn = [c \in Contexts |-> Null]
  /\ cache = [a \in Addresses |-> None]
  /\ ready = {} /\ interop = {} /\ batches = {} /\ stream = <<>>
  /\ frames = [c \in Contexts |-> 0] /\ input = [c \in Contexts |-> 0]
  /\ reached = [c \in Contexts |-> 0]
  /\ call = NoUpload
  /\ ran = [weights |-> None, loaded |-> None, reused |-> FALSE]

Idle == call = NoUpload

-------------------------------------------------------------------------------
(* Models                                                                    *)

\* The addresses operator new may return: those of deleted models too.
Free == {a \in Addresses : heap[a] = None}

\* The model of a context is deleted, and what was uploaded of it is kept.
Deleted(c) == {a \in Addresses : a = cnn[c] /\ cache[a] # None}

\* nvofg_load_cnn_model: the new model is allocated before the old one is
\* deleted.  A file that loadCnnModel refuses changes nothing: its model is deleted
\* again and the one that was loaded before stays.
Load(c, file) ==
  /\ Idle
  /\ \E a \in Free :
       /\ heap' = [x \in Addresses |-> IF x = a THEN file ELSE IF x = cnn[c] THEN None ELSE heap[x]]
       /\ cnn' = [cnn EXCEPT ![c] = a]
  /\ stale' = stale \cup Deleted(c)
  /\ UNCHANGED <<cache, ready, interop, frames, input, reached, batches, stream, call, ran>>

\* ensurePipeline and setupCnnInterop: an interop is created where a model is
\* loaded, unless an export or an import fails.
Build(c) ==
  /\ Idle /\ c \notin ready
  /\ ready' = ready \cup {c}
  /\ \/ cnn[c] # Null /\ interop' = interop \cup {c}
     \/ UNCHANGED interop
  /\ UNCHANGED <<heap, cnn, cache, frames, input, reached, batches, stream, call, ran, stale>>

-------------------------------------------------------------------------------
(* A frame                                                                   *)

\* The application submits the rendering of a context's next frame.
Render(c) ==
  /\ Idle /\ input[c] < MaxFrames /\ input[c] <= frames[c]
  /\ input' = [input EXCEPT ![c] = @ + 1]
  /\ UNCHANGED <<heap, cnn, cache, ready, interop, frames, reached, batches, stream, call, ran, stale>>

WarpOf(c) == [ctx |-> c, stage |-> "warp", after |-> Base(c), value |-> Base(c) + 1, frame |-> frames[c] + 1]
ResidualOf(c) ==
  [ctx |-> c, stage |-> "residual", after |-> Base(c) + 2, value |-> Base(c) + 3, frame |-> frames[c] + 1]
\* Without an interop the frame is done with the warp.
PlainOf(c) == [WarpOf(c) EXCEPT !.value = Base(c) + 3]

\* Mutant of WaitOf: the stream waits for the value its own fusion signals.
WaitOfSignal(c) == [ctx |-> c, op |-> "wait", value |-> Base(c) + 2]
WaitOf(c) == [ctx |-> c, op |-> "wait", value |-> Base(c) + 1]
SignalOf(c) == [ctx |-> c, op |-> "signal", value |-> Base(c) + 2]

\* Mutant of Enqueued: the value is signalled before the fusion has run.
EnqueuedEarly(c, run) == <<SignalOf(c), run>>
\* What cnnInteropDispatch puts on the stream behind the wait.
Enqueued(c, run) == <<run, SignalOf(c)>>

Run(c, weights) ==
  [ctx |-> c, op |-> "run", weights |-> weights, loaded |-> heap[cnn[c]], reused |-> cnn[c] \in stale]

\* Mutant of Cached: a model counts as uploaded as soon as any is.
CachedAny(c) == \E a \in Addresses : cache[a] # None
\* ensure: weights that were uploaded for this address are used again.
Cached(c) == cache[cnn[c]] # None

\* What a frame reads is guarded by a timeline semaphore, which the application
\* may signal before or after it calls generate.
MayGenerate(c) == Idle /\ frames[c] < MaxFrames /\ (InputFirst => input[c] > frames[c])

GeneratePlain(c) ==
  /\ MayGenerate(c) /\ c \in ready \ interop
  /\ batches' = batches \cup {PlainOf(c)}
  /\ frames' = [frames EXCEPT ![c] = @ + 1]
  /\ UNCHANGED <<heap, cnn, cache, ready, interop, input, reached, stream, call, ran, stale>>

\* The warp is submitted and the stream told to wait for it before the cache is
\* looked at.
Generate(c) ==
  /\ MayGenerate(c) /\ c \in interop
  /\ \/ /\ Cached(c)
        /\ stream' = Append(stream, WaitOf(c)) \o Enqueued(c, Run(c, cache[cnn[c]]))
        /\ batches' = batches \cup {WarpOf(c), ResidualOf(c)}
        /\ frames' = [frames EXCEPT ![c] = @ + 1]
        /\ UNCHANGED call
     \/ /\ ~ Cached(c)
        /\ stream' = Append(stream, WaitOf(c))
        /\ batches' = batches \cup {WarpOf(c)}
        /\ call' = [ctx |-> c, value |-> Base(c) + 1]
        /\ UNCHANGED frames
  /\ UNCHANGED <<heap, cnn, cache, ready, interop, input, reached, ran, stale>>

\* The copy of the weights is synchronous: it returns when the stream has
\* executed what was enqueued before it.
Upload ==
  /\ ~ Idle /\ stream = <<>>
  /\ LET c == call.ctx
     IN /\ cache' = [cache EXCEPT ![cnn[c]] = heap[cnn[c]]]
        /\ stream' = Enqueued(c, Run(c, heap[cnn[c]]))
        /\ batches' = batches \cup {ResidualOf(c)}
        /\ frames' = [frames EXCEPT ![c] = @ + 1]
  /\ call' = NoUpload
  /\ UNCHANGED <<heap, cnn, ready, interop, input, reached, ran, stale>>

-------------------------------------------------------------------------------
(* The device                                                                *)

\* A batch runs when its predecessor has signalled and its input is there.
Execute(b) ==
  /\ reached[b.ctx] >= b.after /\ input[b.ctx] >= b.frame
  /\ reached' = [reached EXCEPT ![b.ctx] = b.value]
  /\ batches' = batches \ {b}
  /\ UNCHANGED <<heap, cnn, cache, ready, interop, frames, input, stream, call, ran, stale>>

StreamStep ==
  /\ stream # <<>>
  /\ stream' = Tail(stream)
  /\ LET o == Head(stream)
     IN \/ o.op = "wait" /\ reached[o.ctx] >= o.value /\ UNCHANGED <<reached, ran>>
        \/ /\ o.op = "run"
           /\ ran' = [weights |-> o.weights, loaded |-> o.loaded, reused |-> o.reused]
           /\ UNCHANGED reached
        \/ /\ o.op = "signal"
           /\ reached' = [reached EXCEPT ![o.ctx] = o.value]
           /\ UNCHANGED ran
  /\ UNCHANGED <<heap, cnn, cache, ready, interop, frames, input, batches, call, stale>>

-------------------------------------------------------------------------------
(* Teardown                                                                  *)

\* vkDeviceWaitIdle covers the Vulkan queues, and nothing of CUDA.
DeviceIdle == batches = {}

\* destroyPipeline, by a resize or an unregistration.
TearDown(c) ==
  /\ Idle /\ c \in ready /\ DeviceIdle
  /\ ready' = ready \ {c} /\ interop' = interop \ {c}
  /\ UNCHANGED <<heap, cnn, cache, frames, input, reached, batches, stream, call, ran, stale>>

\* nvofg_destroy deletes the model; the uploaded weights stay in the cache.  The
\* context is one that the application may create again.
Destroy(c) ==
  /\ Idle /\ DeviceIdle
  /\ ready' = ready \ {c} /\ interop' = interop \ {c}
  /\ heap' = [x \in Addresses |-> IF x = cnn[c] THEN None ELSE heap[x]]
  /\ cnn' = [cnn EXCEPT ![c] = Null]
  /\ stale' = stale \cup Deleted(c)
  /\ UNCHANGED <<cache, frames, input, reached, batches, stream, call, ran>>

Next ==
  \/ \E c \in Contexts, file \in Weights : Load(c, file)
  \/ \E c \in Contexts : Build(c) \/ Render(c) \/ GeneratePlain(c) \/ Generate(c) \/ TearDown(c) \/ Destroy(c)
  \/ \E b \in batches : Execute(b)
  \/ Upload \/ StreamStep

\* The device makes progress, and a copy that can be completed is.
Fairness ==
  /\ WF_vars(\E b \in batches : Execute(b))
  /\ WF_vars(StreamStep)
  /\ WF_vars(Upload)

Spec == Init /\ [][Next]_vars /\ Fairness

-------------------------------------------------------------------------------
(* Properties                                                                *)

TypeOK ==
  /\ heap \in [Addresses -> Weights \cup {None}] /\ cache \in [Addresses -> Weights \cup {None}]
  /\ stale \subseteq Addresses /\ cnn \in [Contexts -> Addresses \cup {Null}]
  /\ ready \subseteq Contexts /\ interop \subseteq ready
  /\ frames \in [Contexts -> 0 .. MaxFrames] /\ input \in [Contexts -> 0 .. MaxFrames]
  /\ reached \in [Contexts -> 0 .. 3 * MaxFrames]
  /\ batches \subseteq Batch /\ \A i \in DOMAIN stream : stream[i] \in Op
  /\ call \in [ctx : Contexts, value : 1 .. 3 * MaxFrames] \cup {NoUpload}
  /\ ran \in [weights : Weights \cup {None}, loaded : Weights \cup {None}, reused : BOOLEAN]

\* A frame is refined with the weights of the model that was loaded when it was
\* generated (context.cpp: "the recordCnnRefine backend picks this up").
UsesLoadedWeights == ran.weights = ran.loaded

\* The only way a frame can get other weights: its model lives where a deleted one
\* had its own uploaded, which are kept by address and never given up.  Models of
\* several contexts, loads in between and uploads in the middle of a call do not.
StaleOnlyByReuse == ran.weights # ran.loaded => ran.reused

\* The buffers and the semaphore an interop has imported are not given back while
\* the stream refers to them, although only Vulkan is waited for.
InteropUnused == \A i \in DOMAIN stream : stream[i].ctx \in interop

\* A fusion that has run is the network that was trained and the one of the CPU
\* reference, at any frame size that k_im2col can index (the golden test compares
\* them at 32x32 only).
SameNetwork == ran.weights # None => NetworksAgree

\* cnn_cuda.hpp:1-2: "Same result as runFusionCPU (verified against it)", at any
\* frame size.
SameAsReference ==
  ran.weights # None =>
    \A base \in NetBases, h, w \in NetExtents :
      fusionCore(Layers(base), NetInput(h, w)) = CPU(Layers(base), NetInput(h, w))

\* A fusion that has run leaves nothing behind in the pool of the device, which
\* never shrinks (cnn_cuda.cu:82), and frees nothing it reads afterwards.
TemporariesReturned == ran.weights # None => PoolBalanced

\* What the head of the stream or a batch waits for has been signalled.
StreamMoves == stream # <<>> /\ (Head(stream).op = "wait" => reached[Head(stream).ctx] >= Head(stream).value)
BatchMoves == \E b \in batches : reached[b.ctx] >= b.after /\ input[b.ctx] >= b.frame

\* The contexts share one stream, which is in order: an operation of one frame never
\* holds up, through a semaphore, what it waits for itself.
NeverStuck == stream # <<>> \/ batches # {} => StreamMoves \/ BatchMoves

\* A generate call that has to upload the weights returns: the stream it waits
\* for needs nothing that the call itself has still to submit.
CallReturns == ~ Idle ~> Idle
===============================================================================
