# nvofg: TLA+ models, model checking and proofs

nvofg generates a frame between two rendered ones. An application hands it Vulkan images once, then
asks per frame for an interpolated image and gets back a point on a timeline semaphore to wait for.
Behind that call a chain of submissions runs on a compute queue, the optical-flow queue and, with a
learned model, a CUDA stream. RenderFX, a second library in the same repository, chooses among
upscaling, ray reconstruction and frame generation backends, nvofg being one of them, and drives the
chosen ones. This directory models the parts of both whose correctness is a matter of order and
choice: who waits for whom, what may be reused when, what is still valid after a resize or a new
commit, which backends are taken.

Contents: [inventory](#the-system), [modules](#modules), [runs](#runs), [fairness](#fairness),
[proofs](#proofs), [what the code does against its documentation](#findings), [what is not
modelled](#not-modelled), [plan](#plan).

To run a check or a proof, in this directory:

    tlc -workers 2 -config timeline_ofa_cnn.cfg MCFrameTimeline
    tlapm FrameTimelineProofs.tla

## The system

| Component | Source | State | Operations |
|---|---|---|---|
| Context | `src/context.cpp`, `src/internal.hpp` | `NvofgContext`: device handles, capabilities, flags, the model | create, destroy, load_cnn_model, set_debug_view, caps |
| Registration | `src/pipeline.cpp` 777-815 | the registered images and `have*`/`has*` | register_color / aux / output, unregister_all, resize |
| Pipeline | `src/pipeline.cpp` 186-576 | `pipelineReady`, images, buffers, stages, session, pools, descriptor sets | ensurePipeline, refreshDescriptors, setupCnnInterop, destroyPipeline |
| Per-frame path | `src/pipeline.cpp` 688-767, 832-1127 | `timeline`, `timelineValue`, `slotSignal[kRing]`, `frameIndex` | record_generate, record_warp |
| CUDA interop, network | `src/cnn_interop.cu`, `cnn_cuda.cu`, `cnn_model.cpp` | the imported buffers and semaphore, the weight cache | create, dispatch, destroy, load |
| Pacer | `src/pacer.cpp` | `period_ns`, `started`, `next_slot` | create, wait_slot, next_slot_time, reset, tune |
| Shaders | `src/shaders` | none | prep, block match, refine, warp, hint, pack, add |
| Rust bindings | `crates` | the raw handle | one method per C function |
| RenderFX resolver | `renderfx/src/resolve.cpp`, `backends.cpp` | none: a pure choice over a static table | capabilities, derive_policy, resolve, explain |
| RenderFX context | `renderfx/src/context.cpp` | committed backends, an optional `NvofgContext`, statistics | create, commit, record_*, destroy |
| RenderFX back ends | `renderfx/src/upscale.cpp`, `ngx.cpp`, `dlss_fg.cpp`, `xess.cpp`, `rr_debug.cpp` | lazily created features, temporal history | record_upscaling, record_ray_reconstruction |
| Spikes, examples, experiments, training | `src/spike`, `examples`, `experiments`, `training` | none that outlives a run | |

How they interact. The application calls everything from one thread and owns the images. The first
`nvofg_record_generate` after a registration builds the pipeline. A record call waits on the host
for its ring slot, then submits: the compute queue, the optical-flow queue and the CUDA stream run
concurrently and meet only at the timeline semaphore, which also carries the sync point returned to
the application. The application gates a call with a semaphore of its own (`input_timeline`).
RenderFX owns an `NvofgContext` and forwards to it. The pacer touches none of this; the application
calls it before each present.

What is hard, and the properties that make each part correct:

- **Per-frame path.** Up to two calls in flight on three executors, over scratch images that exist
  once and one output image; three executors signal one semaphore with values the host chose
  beforehand. Correct means: no pass overlaps another on data it writes, a slot's command pools are
  reset only when nothing of that slot is in flight, the semaphore only increases, the image at a
  sync point is the frame of the call that returned it, and the host and every frame make progress.
- **Pipeline and registration.** Objects are created lazily in a long sequence that can stop
  anywhere, torn down by two different calls, and some handles keep their value after their object
  is gone. Descriptor sets are written once and must name what was registered. Correct means: a
  generate uses only complete, current objects, nothing is changed under a busy GPU, nothing leaks,
  nothing is destroyed twice.
- **Pacer.** The caller may be late by any amount, at any time. Correct means: slots are at least a
  period apart, there is no burst after a delay, a target once given is not undercut, the wait ends.
- **CUDA and the network.** Uploaded weights are found by the address of a model, all contexts share
  one stream, a teardown waits for Vulkan only, and the first dispatch waits for the stream in the
  middle of a call; sizes are products of channels and pixels. Correct means: a frame is refined
  with the model that was loaded, the stream refers to no interop that is gone, the call returns,
  and the four programs that know the network compute the same one.
- **RenderFX resolver.** Constraints couple the stages, so the best combination is not the best
  backend of each. Correct means: the best valid combination, a failure only where there is none,
  and an explanation that keeps the reasons which decided.
- **RenderFX context.** One NGX runtime per process with two possible owners, features made lazily
  for a size, a commit that can fail half way, recorded commands that outlive the call. Correct
  means: the runtime is opened and closed once by one owner, no command uses what is gone, a frame
  comes from the tier that was committed, and a call refuses only what the queries announced.
- **RenderFX passes.** One descriptor set per pass rewritten under recorded commands, a history
  swapped ahead of the device, objects half built. Correct means: each frame is blended with its
  predecessor, nothing is left behind.

`PROJECT.json` lists the hazards line by line with the properties that cover them.

## Modules

### FrameTimeline (`src/pipeline.cpp`, `src/cnn_interop.cu`)

| In the model | In the code |
|---|---|
| `pc` | where the application thread is: between calls, inside a record call before the ring wait, inside a teardown before the device is idle |
| `timelineValue`, `slotSignal`, `frameIndex`, `ready` | the fields of `NvofgContext` (`ready` is `pipelineReady`) |
| `pending`, `running` | submitted batches that have not finished; those that have begun |
| `timeline` | the value of the semaphore |
| `tags` | for each scratch image, buffer and the output: the call whose data it holds |
| `signalled`, `consumed` | the application's semaphore; the outputs it has finished reading |

`Enter` is a record call up to the wait for its slot, including the lazy build; `Record` is
everything after the wait. The two halves are separate because the GPU runs in between. `Record`
covers all three call shapes: Tier A (`prep`, `ofa`, `refineWarp`), Tier B (`flowWarp`) and
warp-only (`warp`), each followed by `cuda` and `add` if the interop exists. `Teardown` is
`unregister_all` / `resize` after `vkDeviceWaitIdle`. `Start` and `Finish` are the GPU: a batch
begins when its semaphore waits are satisfied and it is the oldest of its queue, because each
command buffer opens with a full barrier (`imgBarrier`, ALL_COMMANDS to ALL_COMMANDS) and a CUDA
stream is in order. A finishing batch applies its effect to `tags` and signals its value. `Signal`
and `Consume` are the application on its own queue.

Abstracted: pixels (a resource holds the number of a call), the passes inside one command buffer
(they are separated by barriers and become one atomic effect at the end of the batch, while `NoRace`
speaks of the whole time the batch runs), the optional motion hint and backward flow, which add work
to `prep`, `ofa` and `refineWarp` without changing who waits for whom.

`FrameOrder` is the abstract specification: frames are issued, at most `Depth` are open, they
complete in order, all complete. `FrameTimeline` implements it with `Depth` = `kRing`, `issued` =
the calls that returned, `done` = the sync points the semaphore has reached.

### Pipeline (`src/pipeline.cpp`, `src/context.cpp`)

The objects of an `NvofgContext` are eleven groups, each created in one stretch of `ensurePipeline`
or `setupCnnInterop` and destroyed together. A group's handles are `null`, `live`, or `stale`:
destroyed by `destroyPipeline` without being reset to `VK_NULL_HANDLE`. `bound` is what each
descriptor binding names, `image` what the application registered last; prev and curr colour are one
input, and `ui` stands for the four masks that are all bound in the same way. `busy` says that
submitted work may still be running. `leaked` and `freedTwice` record that a live handle was
overwritten or a stale one destroyed.

`Device` is what comes before: `queryCaps`, the search for an optical-flow queue family and the
checks of `nvofg_create` in their order, as functions of a device and of an `NvofgCreateInfo`.
`Pipeline` assumes a device and an info that `nvofg_create` accepts and takes its tier, flags and
largest extent from them.

There is one action per entry point. `BuildAndGenerate` is `ensurePipeline` plus the submission and
includes `refreshDescriptors` and `setupCnnInterop`, whose own failure is silent (`CnnSteps`).
`BuildFails` stops after any number of groups. The results of `vkCreateSampler` and
`vkCreateCommandPool` are not looked at: a build goes on without these two groups (`Unchecked`) and
calls itself ready, so both actions choose what is `Missing`. `Resize` and `UnregisterAll` share
`ClearRegistrations`, as in the code.

The application is described by three constants: whether it registers again while a pipeline exists
(`Reregister`), whether it may omit the motion vectors it announced (`AuxVaries`), whether creations
fail (`MayFail`).

### Pacer (`src/pacer.cpp`)

The clock advances in ticks. `FirstSlot` is the first `wait_slot` after create or reset; `EnterWait`
reads the clock once and chooses the slot; `ReturnSlot` happens at any tick from the slot on, which
is both the spin that ends in time and the `sleep_for` that oversleeps. `NextSlotTime` and `Reset`
are the other two operations. The present follows the return at once; how late it is against its
slot is the interesting quantity. `slots`, `presents` and `target` remember the last two slots, four
presents and the last target; a fresh schedule starts from a regular history.

### Fusion and FusionNet (`src/cnn_interop.cu`, `src/cnn_cuda.cu`, `src/cnn_model.cpp`, `training`)

`Fusion` is about the models and the stream of all contexts of a process. `heap` is the C++ heap
(the model at each address), `cnn` the pointer in each context, `cache` is `g_cache`, `stream` the
operations enqueued on the CUDA stream, `call` a generate call that waits inside `ensure` for its
weights to be copied. The heap hands out any free address, those of deleted models too; `stale` has
the addresses whose uploaded weights are a deleted model's, and a fusion remembers whether its model
lived at one (`reused`). A file that is refused changes nothing: its model is deleted again. A frame
has three batches here, warp, fusion and residual, with three values of the timeline:
`FrameTimeline` has them in detail, and this module adds what it leaves out, the upload and the
sharing. `Generate` tells the stream to wait for the warp before it looks at the cache, so the
synchronous copy in `Upload` waits for the device. `Render` is the application submitting what a
frame reads; `TearDown` and `Destroy` wait for Vulkan and not for CUDA, as `vkDeviceWaitIdle` does.

`FusionNet` is the network as a graph. A tensor is its size and the expression it holds, so two
programs agree when they build the same expression: `Trained` is `FusionNet.forward` of the trainer
with the layers `__init__` declares, `Golden` the test of the exported file, `CPU` is
`runFusionCPU`, `fusionCore` the CUDA one. A tensor also records whether each operation found the
sizes and channels it needs; sizes follow the strides with their rounding, which differs at odd
sizes. `k_im2col` counts in `int`: where the column matrix of a convolution has an element beyond
`INT_MAX` (`Indexed`), the CUDA program reads and writes anything, and its tensor holds `Undefined`.
`FusionOps` lists what the CUDA runtime enqueues with the temporaries it takes from the
stream-ordered pool.

### Backends and Resolver (`renderfx/src/backends.cpp`, `resolve.cpp`)

`Backends` is the static table and `QueryCapabilities`, which fills in what the probes found.
`Resolver` is `rfx_resolve`: `Gather` collects the candidates of each stage, `Try` is one round of
the three nested loops, `Return` fills the selection with its explanation. `Candidates`,
`ComboValid`, `StageScore`, `rfx_derive_policy` and `Explain` are the functions of the code, over
sequences, because ties go to the earlier row of the table.

### RenderFx (`renderfx/src/context.cpp`, `ngx.cpp`, `dlss_fg.cpp`, `xess.cpp`)

| In the model | In the code |
|---|---|
| `probe`, `ngx`, `dlssFg` | what `rfx_create` found; `NgxState`, `DlssFgState` and which of the two initialised NGX |
| `feature` | the DLAA, ray reconstruction and XeSS features with the sizes they were made for |
| `choice`, `nvofg`, `registered` | the committed selection, the `NvofgContext` and its tier, whether images are registered on it |
| `targets` | the images the application uses now |
| `sdk` | the NGX runtime of the process (external) |
| `work` | recorded or submitted commands; `live` says that the object they use still exists |

`Create`, `Commit`, `Destroy` and the three record calls are the entry points; a commit replaces the
nvofg context and may end without one. A record call returns one of the results of the code, and a
lazily created feature may fail. An application has one command buffer open at a time and none when
it destroys the context, and a call that may replace a feature (upscaling, ray reconstruction) opens
one of its own (`BufferFree`): two of them recorded into the same command buffer with different
sizes, where the second would release what the first recorded, are outside the model.

### Upscalers (`renderfx/src/upscale.cpp`, `rr_debug.cpp`)

Four passes with their objects in the order of creation (`Parts`), of which only some failures are
noticed (`Checked`). A record call ensures the pass and appends a dispatch to `buffer`; `Submit`
moves the buffer to `queue`, `Execute` runs its first dispatch. The device is the only other actor,
and nothing makes the application wait for it: any number of frames may be recorded or submitted
ahead.

The temporal pass has two history images, swapped by `parity` when the call is recorded, and one
descriptor set that names them. `set` is what the last call has written into it. A dispatch reads
the set when it executes; if it was rewritten in between, which Vulkan leaves undefined, `Execute`
uses either what its own call wrote or what the set says now. `Discard` is an application that drops
a command buffer, with or without a reset afterwards. A dispatch remembers the call before it and
what had become of that one when it was recorded (`prev`). The sets of the other passes are
rewritten in the same way. They name images of the application only, so nothing of the pass itself
depends on them, and they are left out.

### MC and proof modules

`MCFrameTimeline`, `MCPipeline`, `MCResolver`, `MCRenderFx` and `MCUpscalers` give the constants
their values; `Pacer` and `Fusion` get theirs in the cfg. `FrameTimelineProofs`, `FrameDataProofs`,
`PacerProofs`, `PipelineProofs`, `ResolverProofs`, `RenderFxProofs`, `UpscalersProofs` and
`FusionProofs` hold the theorems; `FrameDataProofs` is about the contents of the images and the
order of completion and builds on the chain of `FrameTimelineProofs`. A comment that begins
"Mutant of" introduces a definition that differs from the one below it the way a plausible bug
would. Nothing uses these; putting one in place of its original breaks the property listed with it
in `PROJECT.json`, which shows that the property depends on that line.

## Runs

All passing runs explore their complete bounded state space.

| Run | Instance | Checks | Shows |
|---|---|---|---|
| `timeline_ofa_cnn` | Tier A, CNN, ring 2, 5 calls | `NoRace` `InFlightChain` `FusionReadsItsPack` `ReuseSafe` `SignalsIncrease` `SyncMeansOutput` | five stages per frame on three executors do not disturb each other |
| `timeline_shader` | Tier B, no CNN | `SyncMeansOutput` | one stage per frame, ordered by barriers alone |
| `timeline_gated` | Tier A, CNN, fair, gated application | `OutputStable` `NeverStuck` `SyncReached` `HostReturns` `ImplementsFrameOrder` | the shared output is stable while it is read; no deadlock; progress; refinement of `FrameOrder` |
| `pacer_slots` | period 2, clock to 11, fair | `SlotsSpaced` `NoBurst` `WaitBounded` `TargetsKept` `WaitReturns` | spacing, lateness and waiting under arbitrary delays |
| `pipeline_rules` | Tier A with motion, no failures | `ReadsRegistered` `NoLeak` `NoDoubleFree` | what any order of registrations, resizes, debug views, model loads and frames leaves bound, live and stale |
| `pipeline_failures` | Tier B, any creation may fail | `BuiltComplete` `IdleFirst` | a pipeline that calls itself ready has all that is looked at, after any failed attempts; nothing changes under a busy device |
| `resolver_product` | 32 devices, 288 preferences | `Optimal` `FailsOnlyForCause` `AutoResolves` `FillsMost` `ConstraintExplained` | the choice over the product's own table |
| `renderfx_backends` | 1 context, 4 probe outcomes, 5 selections | `SdkUsedWell` `UsesLive` `GeneratesCommitted` `RecordsAsPromised` | any order of creations, commits, records, submissions |
| `upscalers` | 5 record calls, any number in flight, 4 failing creations | `HistoryChained` `NothingLeft` | passes recorded ahead of the device, dropped, half built |
| `fusion` | 2 contexts, 2 addresses, 2 frames each | `StaleOnlyByReuse` `InteropUnused` `SameNetwork` `TemporariesReturned` `NeverStuck` `CallReturns` | contexts sharing the stream while models are replaced |
| `stale_weights` | as `fusion`, 1 context | `UsesLoadedWeights` | a violation: see [findings](#findings) |
| `rebuild_double_free` | Tier A, creations may fail | `NoDoubleFree` | a violation: see [findings](#findings) |

What the properties say, where the name does not: `NeverStuck`, in `FrameTimeline` and in `Fusion`:
the executors (and the host and the application, or the contexts that share a stream) never all wait
for each other, because something in flight may always run. `WaitBounded`: no call of the pacer is
meant to hold its caller for more than a period. `BuiltComplete`: a ready pipeline has the size of
the context and all that `ensurePipeline` checks; the sampler and the command pools are sure to be
there only where no creation fails. `HistoryChained`: a temporal frame that is no reset blends the
output of the temporal call before it, if that one was not dropped, had executed when the frame was
recorded, and the set is not rewritten before the frame executes. These conditions are part of the
property, not of the model: frames that overlap may go wrong (`BecomesHistory`), and once they do
not overlap any more the chain is intact again. `StaleOnlyByReuse`: a frame gets weights other than
its model's only where the model lives at the address of a deleted one. `SameNetwork`: sizes and
channels match at every size, and the four programs agree at every size an `int` can index.
`RecordsAsPromised`: a call refused for its inputs was announced by
`rfx_missing_inputs`, and a resolvable selection is not refused as unsupported. `FillsMost`: no
valid combination fills more stages than the chosen one, the sentence beside the base score.
`ConstraintExplained`: the reason `CONSTRAINT_SATISFIED` survives the six places of an explanation.
`InteropUnused` is the subtle one: Vulkan's idle wait does cover the stream, because every fusion is
followed by a residual batch that waits for it.

Bounds and why they are enough:

- `MCRing` = 2 is the value of `kRing` in the code.
- `MCMaxCalls` = 5: each slot is used twice with two more calls to wait behind them, and a teardown,
  which restarts at slot 0 while `timelineValue` goes on, fits before, between and after. The state
  of the chain depends only on the calls still in flight, at most two, so further calls repeat it.
- Period 2 and a clock to 11: more than five periods, enough for a schedule, a delay of more than
  two periods, the re-baselining and a burst of four presents. The period is 2 so that a call can
  fall strictly between two slots.
- `Pipeline`: two extents; four image identities per input (`Fresh` picks one that is neither
  registered nor bound, so a stale binding is never mistaken for a current one). The sequences of
  calls are not bounded: the state is finite, as is that of `RenderFx`.
- `resolver_product`: every combination of the five probe results, the three ratios of quality to
  cost a preference can produce, the modes that filter or bias (proprietary, deterministic, debug),
  a pin, two sets of stages, and an override of each sort: none, a pinned stage, a stage off, a pair
  that depends on each other, one that is never supported, one of another stage.
- `renderfx_backends`: the probe outcomes and selections that take different paths (`MCProbes`,
  `MCSelections`), native and upscaling resolutions at two sizes, inputs with and without depth and
  normals, two sets of targets.
- `upscalers`: five calls are two temporal frames to either history image and one more, with any
  other pass between; one failing creation for each pass, one of them after another object that
  needs an image.
- `fusion`: two frames per context meet a cold and a warm cache; with two addresses either both
  contexts have a model, or one of them replaces its own by turns, and every address comes back.
  Sizes 1 to 32 contain ones that halve evenly three times, that round up at each level, and that
  shrink to a pixel; 24 is the width the project trains with. At that width an index overflows above
  3,314,018 pixels: 1920x1080 is below that, 2560x1440 above.
- `pipeline_failures` compares states by `WithoutHistory`, which leaves out the last result and the
  record of leaks and double frees: no guard and neither of its two properties looks at them.
- `CHECK_DEADLOCK FALSE` wherever it is given: an application may stop calling, a bound is reached,
  a returned search or a destroyed context is final.

Every property of a passing run has a mutant that breaks it. A property is checked by the run that
explores most of what could break it, not again by a narrower one. The type invariants are in no
run: they are theorems, all seven of them.

## Fairness

`timeline_gated` and `pacer_slots` use `FairSpec`, `fusion` the specification of its module. In
`FrameTimeline` each of the three executors eventually starts a batch it may start and finishes what
it started: the device makes progress. The host returns from a wait whose condition holds:
`vkWaitSemaphores` and `vkDeviceWaitIdle`. The application eventually signals the value it gated a
call on and reads a finished frame; without the first no implementation could finish the call. It is
*not* assumed that the application makes another call, nor that a wait becomes satisfied: that is
what the properties say. In `Pacer` the clock advances and a thread whose slot has come is
eventually scheduled; that the slot comes is not assumed. In `Fusion` the device executes batches
and stream operations that may run and completes a copy on an empty stream; the application is not
assumed to do anything, but it has submitted a frame's rendering before it generates (`InputFirst`).
Weak fairness is enough everywhere: no action is disabled again by another executor once it may
happen.

## Proofs

Checked by TLAPS, for every ring size, tier, interpolator, number of calls, period, device,
capability table, preference, set of selections, number of contexts, models and frames, and frame
size. Each inductive invariant was checked by TLC on the instance of its module's run before it was
proved.

| Module | Theorems | Assumed beyond the constants' types |
|---|---|---|
| `FrameTimelineProofs` | `TypeCorrect` | nothing |
| | `ChainCorrect` `NoRaceCorrect` `ReuseCorrect` `SignalsIncreaseCorrect` | `~SubmitMayFail` |
| `FrameDataProofs` | `DataCorrect` `OutputStableCorrect` `RefinesFrameOrder` `NeverStuckCorrect` | `~SubmitMayFail` |
| | `FusionReadsItsPackCorrect` | `~SubmitMayFail`, `PackPass` |
| | `SyncMeansOutputCorrect` | `~SubmitMayFail`, `CnnInterop => PackPass` |
| `PacerProofs` | `TypeCorrect` `InvCorrect` `SlotsSpacedCorrect` `NoBurstCorrect` `WaitBoundedCorrect` `TargetsKeptCorrect` | nothing |
| `PipelineProofs` | `TypeCorrect` `BuiltCompleteCorrect` `InFlightCorrect` `IdleFirstCorrect` | nothing |
| | `SetsCurrentCorrect` `ReadsRegisteredCorrect` | `~Reregister` |
| | `NoLeakCorrect` | `~MayFail` |
| | `NoDoubleFreeCorrect` | `~MayFail`, `AuxVaries => ~HintPossible` |
| `ResolverProofs` | `TypeCorrect` `OptimalCorrect` `FailsOnlyForCauseCorrect` `AutoResolvesCorrect` `ObeysPreferenceCorrect` | nothing |
| | `FillsMostCorrect` | tables made of the product's rows |
| | `ConstraintExplainedCorrect` | tables the product's probes give |
| `RenderFxProofs` | `TypeCorrect` `UsesLiveCorrect` `GeneratesCommittedCorrect` `RecordsAsPromisedCorrect` | nothing |
| | `SdkUsedWellCorrect` | one context |
| `UpscalersProofs` | `TypeCorrect` `HistoryChainedCorrect` | nothing |
| | `NothingLeftCorrect` | `~Retries` |
| `FusionProofs` | `TypeCorrect` `StaleOnlyByReuseCorrect` `InteropUnusedCorrect` `SameNetworkCorrect` `TemporariesReturnedCorrect` | nothing |
| | `NeverStuckCorrect` | `InputFirst` |

The two assumptions on the resolver's tables say what its table is: the rows of the product with
some of them unavailable, found by probes. Every other assumption excludes something the code does
allow and under which it does not keep the promise: each is a divergence of its own or belongs to
one (see [findings](#findings)).

**FrameTimeline.** The inductive invariant is `InFlightChain`. `NoRace` and `SignalsIncrease` are
not inductive: they need to know *which* values are outstanding. `InFlightChain` says the pending
batches signal exactly the values `timeline + 1 .. timelineValue`, one each (`ChainUnique`,
`ChainComplete`, `ChainBounds`), that a batch either waits for its predecessor's value or follows a
batch of its own queue (`ChainOrdered`, `ChainTail`: each call begins and ends on the compute
queue), and that whatever runs has the next value (`Serial`). The step that carries the argument is
`StartIsNext`: a batch that may start signals `timeline + 1`, because otherwise the batch before it
is still pending, and either its value is awaited or it is ahead in the same queue. Then at most one
batch runs (`NoRaceCorrect`), each signal is one more than the last (`SignalsIncreaseCorrect`), and
a slot whose last value is reached has nothing pending (`ReuseCorrect`).

**The images.** On top of the chain `DataInv` follows the data. For each sync point it knows which
values its call covers (`CallSpans`, `CallsInOrder`), and for each image that a pending batch will
read it says: the image holds the data of that batch's call already, or a batch of the same call
that writes it is pending with a smaller value (`InputDue`, `FlowDue`, `OutputDue`; `LastFlowDue`
for the flow that a warp call reuses from the last generate). Because the batches complete in the
order of their values, "pending and smaller" means "will have run by then", and nothing of a later
call comes between. `GateInv` adds that a running batch belongs to a call whose gate was opened,
hence after the application's last read (`OutputStable`). `RingInv` ties the ring to the sync
points: a slot remembers the value of the call that used it `Ring` calls ago, so a host that has its
slot leaves fewer than `Ring` calls open, which is the guard of `FrameOrder` (`RefinesFrameOrder`,
step by step under the refinement mapping; the liveness part stays with TLC).

`NeverStuck` comes from both. The batch that signals the next value is at the head of its queue, and
a batch waits for values below its own only (`WaitsKnown`), so it can be held back by its gate alone
(`NextInLine`). The application opens the gate unless it still has outputs to read; those are of
earlier calls, whose sync points are below the next value and hence reached (`ApplicationMoves`). A
host that waits for its slot waits for a value that is still outstanding, so something is in flight.
Under rejected submissions it is false, which is the divergence named in the findings.

**Pacer.** `IInv` adds to `SlotsSpaced` and `NoBurst` where the schedule stands (`ScheduleAhead`),
how late a present can be against the slots around it (`LatenessBounded`) and that a target never
exceeds the next slot (`TargetBounded`). With them `WaitBounded` is inductive: a schedule that is
never ahead of the clock by more than a period holds nobody longer. The bound on bursts is four
presents and not three: a call that comes between one and two periods late keeps its old slot, so it
and its successor both return at once.

**Pipeline.** `BuiltCompleteCorrect`, `InFlightCorrect` and `IdleFirstCorrect` hold with creation
failures and re-registration included, the unnoticed failures among them: a build that ends as ready
has the whole of its order but what is `Missing`, and that is `Unchecked`. `IdleFirst` rests on
`InFlight`: work is submitted only with a pipeline, so the calls that find none have nothing to wait
for. `SetsCurrentCorrect` and `ReadsRegisteredCorrect` are for an application that registers only
while there is no pipeline: registering does not rewrite the sets. `SetsCurrent` is the inductive
form of `ReadsRegistered`: it speaks of a pipeline between calls, binding by binding. `NoLeak`
follows from `LiveWithPipeline`: without a pipeline no handle is live, so a build overwrites none; a
failed build breaks just that. `NoDoubleFree` needs `ComesBack`: a handle is left stale only in
groups the next build creates again, which is true of the hint's where the motion vectors cannot be
left out, and of the network's because a loaded model stays.

**Resolver.** `Optimal` and `FailsOnlyForCause` hold for any table and preference, the product's
rows and weights playing no part. The inductive invariant says that the best combination so far is
the first of the best valid ones among the positions already tried, and that nothing is found yet
exactly when none of those is valid; the step that carries it is that the positions tried after a
round are those before it and the one just tried, in the order of the loops, whatever index wraps
around. `AutoResolves` adds that the combination of disabled stages is tried. `ObeysPreference`,
stated in `ResolverProofs` only, says that no stage gets anything but its supported override or a
row the policy admits; it rests on `NthExists`, by which each place of a candidate list is a row of
the table. `FillsMost` is a matter of the product's numbers: a filled stage scores between 865 and
1285, whatever the weights, and one stage more is worth more than that. With hints up to 100 it
would be false. `ConstraintExplained` is too: the rows that need another stage's backend are the
best of their stage, neither deterministic nor generic, so at most five reasons come before theirs.
`FSR_FG` is the exception and never supported. `TypeCorrect` says that the loops stay within the
candidates, that what is kept is a row of the table, and that an explanation consists of the reasons
of `renderfx.h`.

**RenderFx.** `Shapes` is the part of the type invariant the rest needs; the whole of it adds that
an `NgxState` or a registration belongs to a context that exists (`Living`). `UsesLive` needs to
know that an object is released only where nothing outstanding uses it: what is recorded and not
submitted belongs to a command buffer that is open, and `BufferFree` and `WaitIdle` cover the two
halves. `GeneratesCommitted` needs that a registered context has the images in use and that a
committed nvofg has its tier, through commits that fail. `RecordsAsPromised` needs `Honest`: a
context that reports a DLSS feature has the NGX state its record calls look for; the rest is a case
for each backend the table lists in a stage (`FeatureKeepsPromise`). All three hold for any number
of contexts. `SdkUsedWellCorrect` assumes one: its invariant ties the open runtime, the two possible
owners and the features to each other.

**Upscalers.** `InOrder` says that the temporal dispatches stand in the buffer and the queue in the
order of their calls, the last of them with what the set holds now unless it was dropped; it is what
makes "its set is still its own" mean "no later call was made". `Chain` says what the history images
hold for a dispatch whose predecessor had executed, while it is between its recording, which swaps
the images, and its execution, which writes the new one. Both hold for any number in flight.
`Owned` says that a pass neither built nor given up holds nothing, so that a build overwrites
nothing and `destroy` finds all there is.

**Fusion.** `Loaded` keeps the models of two contexts apart, and a context with an interop has one.
`Fresh` says that what is uploaded for an address is the model that lives there, unless the address
is `stale`. `Honest` carries this to the operations on the stream: a run has the weights of its
model or is marked `reused`. `Ordered` is for `InteropUnused`: a signal on the stream is awaited by
a submitted residual (`Awaited`), the signals of a context increase, and behind every operation on
the stream there is a signal of its context. So where Vulkan is idle the stream is empty, and a
teardown leaves nothing behind on it. To carry `Awaited` over the execution of a batch one needs
that values come in threes (`Third`), and that no batch stands for a whole frame whose fusion is on
the stream. `NeverStuck` needs `Chained`: of a frame that is not complete, what is left is still in
the batches or on the stream (`WarpLeft`, `FusionLeft`, `ResidualLeft`), the wait for its warp
stands before its fusion and its upload (`FusionBehind`, `UploadBehind`), and no wait is for a frame
behind it on the stream (`WaitsInOrder`, `WaitsForWarp`). Then the head of the stream, if it waits,
waits for a warp that is in the batches and has no wait of its own open; and an empty stream leaves
every residual with its fusion signalled. `InputFirst` is needed: without it a batch waits for a
rendering that the thread in the call has still to submit.

`SameNetwork` unfolds the four programs to one expression and follows sizes and channels through it,
with nothing known of a size but that it is positive: rounding at odd sizes is no case of its own,
because a decoder scales to its skip connection. The expressions agree where all column matrices can
be indexed, for which `Indexable` looks at the widest layer of each size only.

`TemporariesReturned` is about one sequence of 258 operations, too long for a solver to be given as
it stands. A temporary goes from not made over made to dropped; `Does(s, N, A, B)` says that the
part `s` takes the live temporaries from `A` to `B` and is about names of `N` only. Two parts
compose (`DoesBoth`) if the second is not about what the first has dropped. The layers, the blocks,
the passes of the network and the list of frees behind them are such parts, and the whole takes the
empty set to the empty set (`FusionDoes`), from which `Balanced` draws that every temporary made is
dropped once, after its last read.

Only model-checked: what is temporal beyond safety (`SyncReached`, `HostReturns`, `WaitReturns`,
`CallReturns`, the liveness part of `ImplementsFrameOrder`), because liveness under fairness is out
of the prover's reach. `NeverStuck` is its safety half: nothing is left to fairness but that what
may run does. Every other property of a passing run is a theorem.

## Findings

Two runs check a sentence of the documentation and end in a counterexample.

| Run | What the code does | What the documentation says |
|---|---|---|
| `stale_weights` | the uploaded weights are kept under the address of a model and never dropped: a new model at the address of a deleted one is taken for uploaded | `nvofg.h`: "replaces any prior model" |
| `rebuild_double_free` | stale handles are destroyed again if the next build does not replace them | `nvofg.h` on resize: "Safe to call anytime after nvofg_create" |

`rebuild_double_free` uses a failed CUDA set-up; a motion hint that is not registered again after a
resize leads to the same state. `stale_weights` needs an allocator that hands an address out again,
as every heap does; `fusion` shows, with the same heap, that nothing else leads to wrong weights.

More divergences have no run of their own. In nvofg:

- A record call waits on the host for its ring slot, and the first dispatch for the device, through
  the synchronous upload; `nvofg.h` has "No CPU stall: the call only records+submits". An
  application that generates before it submits the frame's rendering from the same thread never gets
  out of that first call (`InputFirst` FALSE).
- `submitTimeline` drops the result of `vkQueueSubmit`; the sync value is then never reached, which
  `nvofg.h` says it is "when the frame is ready" (`SubmitMayFail`).
- The results of `vkCreateSampler` and `vkCreateCommandPool` are ignored, and `pipelineReady` is set
  all the same (`internal.hpp`: "Build the OFA session, scratch resources, and compute pipelines").
  Without the first compute pool the build itself allocates from a null handle; without another one
  `beginCmd` does (`Missing`).
- Registering does not rewrite the descriptor sets (`pipeline.cpp`: "once (and on re-register/debug
  change)"; `Reregister`).
- With a model and the warp interpolator the fusion and the residual run on a buffer nobody packed
  (`pipeline.cpp`: "After the warp+pack submit signals"; `timeline_ofa_cnn` with `PackPass` FALSE
  finds `FusionReadsItsPack` violated).
- The index of the column matrix overflows an `int` at 2560x1440 with the width that is trained
  (`cnn_cuda.hpp`: "Same result as runFusionCPU (verified against it)"; added to the invariants of
  `fusion`, `SameAsReference` is violated).
- A failed build is neither undone nor resumed, and the next attempt overwrites its handles
  (`internal.hpp`: "Idempotent. Tears everything down on destroy.").
- `beginCmd` allocates a command buffer per batch that only the pool's destruction frees (`nvofg.h`:
  "never allocate on the per-frame hot path").
- `nvofg_pacer_next_slot_time` never starts or advances the schedule, so an application that reads
  it instead of waiting gets the present time (`nvofg_pacer.h` offers either).
- A model loaded after the first generate has no effect until a resize (`nvofg.h`: "Safe to call
  after nvofg_create").
- Without an OFA and without the force flag `nvofg_create` returns `UNSUPPORTED` (`CreateChecks`);
  `docs/integration.md` says Tier B is what "nvofg auto-selects [...] when no OFA is present".
- On a device without an OFA the limits are 0, also for a forced Tier B, and `nvofg_resize` refuses
  every size (`docs/integration.md` offers resize in either tier).

In RenderFX:

- The one set of the temporal pass is rewritten under the dispatch of a frame that has not executed;
  `renderfx.h` does not ask the application to wait (`upscale.cpp`: "this frame's output becomes
  next frame's history"; added to the invariants of `upscalers`, `BecomesHistory` is violated).
- The reason `LOWEST_COST` ("cheapest among candidates", `renderfx.h`) is given whenever cost weighs
  2 or more, whatever the costs.
- The temporal history keeps the size of the first call (`ensureTemporal` returns early), while
  `upscale_temporal.slang` reads it as being of output resolution.
- An upscaling pass that could not be built is built again at the next call, over the handles of the
  first attempt, which are lost (`Retries`).
- DLAA compares the input size only: a new output size keeps the old feature. `UsesLive` asks for
  the sizes of ray reconstruction only.
- Two contexts at a time would initialise NGX twice: `SdkUsedWell` is a property of one.

## Not modelled

- Shader arithmetic, the arithmetic inside a layer of the network, the filters of the upscalers:
  numerical.
- Image sizes in `Upscalers`, whose objects are made once, and the grid size of the optical flow,
  fixed in the code.
- Allocation failures of `nvofg_create`; the pacer's getters, statistics, names, versions, feature
  bits and text: nothing is decided by them.
- `dlssFgRecord`: no call of the program reaches it, because `rfx_record_frame_generation` refuses
  that backend.
- The file descriptors `cnn_interop.cu` exports and the uploaded weights, which nothing ever frees:
  plain leaks of one line.
- What NGX, XeSS, CUDA and the driver do inside: external, modelled by how the code uses them.
- The Rust bindings (no state but the handle); spikes, probes and examples (straight-line programs);
  the native DLSS-G experiments (harnesses for a foreign loader, not linked into the library); the
  training loop, data preparation and export (offline).

## Plan

Done, in this order: `FrameTimeline` with `FrameOrder`, `Pacer`, `Pipeline` and their proofs;
`Device`, `Backends`, `Resolver`, `RenderFx` with proofs of the last two; `Upscalers`; `FusionNet`
and `Fusion`; the contents of the images and the refinement of `FrameOrder`, the remaining
invariants of `Pipeline`, `Resolver` and `RenderFx`, and the proofs of `Upscalers` and `Fusion`; the
type invariants, the freedom from deadlock of `FrameTimeline` and `Fusion`, and the temporaries.

1. A composition of `Pipeline` and `FrameTimeline` over a shared `busy`, so that a teardown is the
   same step in both, and of `RenderFx` with `Pipeline` in place of its abstract nvofg context.
2. A run of the sizes in `Upscalers`, once the history follows the output.
