------------------------------ MODULE Pipeline ------------------------------
(***************************************************************************)
(* The life of an NvofgContext: registration of the application's images,  *)
(* the lazy build of the pipeline in the first generate, the static        *)
(* descriptor sets, teardown by unregister_all / resize, and destroy.      *)
(*                                                                         *)
(* The Vulkan and CUDA objects are grouped by where ensurePipeline creates *)
(* them.  A handle is null, live, or stale: destroyed but not reset to     *)
(* VK_NULL_HANDLE.  An image of the application is a number; 0 is the 1x1  *)
(* dummy bound where an input is absent.                                   *)
(***************************************************************************)
EXTENDS Device

CONSTANTS
  TheDevice,    \* the device the context was created on
  Info,         \* the NvofgCreateInfo it was created with
  Reregister,   \* the application registers while a pipeline exists
  AuxVaries,    \* it may leave motion vectors out although it set the flag
  MayFail       \* creating an object may fail

ASSUME PipelineAssumption ==
  /\ {Reregister, AuxVaries, MayFail} \subseteq BOOLEAN
  /\ TheDevice \in DeviceType
  /\ Info \in CreateInfo
  /\ CreateResult(TheDevice, Info) = "OK"

\* What nvofg_create stores in the context.
caps       == QueryCaps(TheDevice)
ShaderFlow == ShaderTier(TheDevice, Info.flags)
UseMotion  == "USE_MOTION" \in Info.flags

Extents  == {1, 2}                 \* resolutions the application asks for
Inputs   == {"color", "output", "motion", "ui", "debug"}
Bindings == {"color", "output", "motion", "hint", "ui", "debug",
             "cnnColor", "cnnOutput", "cnnUi"}
CnnOrder == <<"cnnBuffers", "cnnStages", "interop">>
Groups   == {"images", "hintImages", "session", "sampler", "stages", "hintStage", "descPool",
             "cmdPools", "cnnBuffers", "cnnStages", "interop"}
Results  == {"OK", "INVALID_ARGUMENT", "NOT_REGISTERED", "FAILED"}

VARIABLES
  have,       \* inputs registered: haveColor, haveOutput, has*, haveDebugTarget
  image,      \* the image each was last registered with
  debugView,  \* a debug view is selected
  model,      \* a CNN model is loaded
  extent,     \* width and height
  ready,      \* pipelineReady
  useHint,    \* the OFA session takes the motion hint
  handle,     \* state of the handles of each group
  bound,      \* the image each descriptor binding names
  builtFor,   \* the extent the size-dependent resources have
  busy,       \* submitted work has not finished
  destroyed,  \* nvofg_destroy was called
  last,       \* the last call (generate, warp, resize or another) and its result
  \* history of what went wrong with the handles
  leaked,     \* a live one was overwritten
  freedTwice  \* a stale one was destroyed

registered == <<have, image>>
pipeline == <<ready, useHint, handle, bound, builtFor>>
faults == <<leaked, freedTwice>>
vars == <<registered, debugView, model, extent, pipeline, busy, destroyed, last, faults>>

-----------------------------------------------------------------------------
(* Descriptor sets.                                                        *)

\* The input a binding stands for.
InputOf(b) ==
  CASE b = "hint" -> "motion"
    [] b = "cnnColor" -> "color"
    [] b = "cnnOutput" -> "output"
    [] b = "cnnUi" -> "ui"
    [] OTHER -> b

\* The image a binding is given for an optional input.
OrDummy(i) == IF i \in have THEN image[i] ELSE 0

\* refreshDescriptors: the sets written from the images registered now; old is
\* what bindings it does not write keep.
Refreshed(hint, old) ==
  [old EXCEPT !["color"]  = image["color"],
              !["output"] = image["output"],
              !["motion"] = OrDummy("motion"),
              !["ui"]     = OrDummy("ui"),
              !["hint"]   = IF hint THEN image["motion"] ELSE @,
              !["debug"]  = IF "debug" \in have THEN image["debug"] ELSE @]

\* The two CNN sets, written once in setupCnnInterop.
CnnBound(old) ==
  [old EXCEPT !["cnnColor"]  = image["color"],
              !["cnnOutput"] = image["output"],
              !["cnnUi"]     = OrDummy("ui")]

-----------------------------------------------------------------------------
(* Objects.                                                                *)

Blank == [b \in Bindings |-> 0]

FirstOf(order, n) == {order[i] : i \in 1 .. n}

\* ensurePipeline creates the groups in this order.  The OFA session is Tier A's
\* only, and so are the groups of the hint, which are optional.
BuildOrder(hint) ==
  CASE hint -> <<"images", "hintImages", "session", "sampler", "stages", "hintStage",
                 "descPool", "cmdPools">>
    [] ~hint /\ ~ShaderFlow -> <<"images", "session", "sampler", "stages", "descPool", "cmdPools">>
    [] ~hint /\ ShaderFlow -> <<"images", "sampler", "stages", "descPool", "cmdPools">>

Whole(hint) == FirstOf(BuildOrder(hint), Len(BuildOrder(hint)))

\* The results of vkCreateSampler and vkCreateCommandPool are not looked at: each
\* group may be missing, in whole or in part, from a build that goes on.
Unchecked == {"sampler", "cmdPools"}
Missing == IF MayFail THEN SUBSET Unchecked ELSE {{}}

\* createImage, createBuffer and createStage make the objects of a group one by
\* one and return at the first that fails, as does their caller: the groups whose
\* turn was over when a build fails.
PartlyCreated(order) == {FirstOf(order, n) : n \in 0 .. Len(order) - 1}

Live == {g \in Groups : handle[g] = "live"}

Created(new) ==
  /\ handle' = [g \in Groups |-> IF g \in new THEN "live" ELSE handle[g]]
  /\ leaked' = (leaked \/ new \cap Live # {})
  /\ UNCHANGED freedTwice

\* The handles destroyPipeline resets; it leaves the others as they are.
ResetByDestroy == {"cmdPools", "cnnBuffers", "interop"}

\* destroyPipeline: every non-null handle is destroyed, the descriptor sets with
\* their pool.
DestroyPipeline ==
  /\ handle' = [g \in Groups |->
                  IF g \in ResetByDestroy \/ handle[g] = "null" THEN "null" ELSE "stale"]
  /\ freedTwice' = (freedTwice \/ \E g \in Groups : handle[g] = "stale")
  /\ ready' = FALSE
  /\ bound' = Blank
  /\ UNCHANGED leaked

-----------------------------------------------------------------------------
(* Registration.                                                           *)

Init ==
  /\ have = {}
  /\ image = [i \in Inputs |-> 0]
  /\ debugView = FALSE
  /\ model = FALSE
  /\ extent = 1
  /\ ready = FALSE
  /\ useHint = FALSE
  /\ handle = [g \in Groups |-> "null"]
  /\ bound = Blank
  /\ builtFor = 1
  /\ busy = FALSE
  /\ destroyed = FALSE
  /\ last = [op |-> "setup", result |-> "OK"]
  /\ leaked = FALSE
  /\ freedTwice = FALSE

Returns(op, result) == last' = [op |-> op, result |-> result]

\* The application registers while there is no pipeline, unless it is one that
\* registers again.
MayRegister == ~destroyed /\ (ready => Reregister)

\* A new image for an input: one that is neither registered for it nor bound.
Fresh(i) ==
  CHOOSE n \in 1 .. 4 :
    n # image[i] /\ \A b \in Bindings : InputOf(b) = i => n # bound[b]

Register(new, absent) ==
  /\ have' = (have \cup new) \ absent
  /\ image' = [i \in Inputs |-> IF i \in new THEN Fresh(i) ELSE image[i]]

RegisterColor ==
  /\ MayRegister
  /\ Register({"color"}, {})
  /\ Returns("setup", "OK")
  /\ UNCHANGED <<debugView, model, extent, pipeline, busy, destroyed, faults>>

RegisterOutput ==
  /\ MayRegister
  /\ Register({"output"}, {})
  /\ Returns("setup", "OK")
  /\ UNCHANGED <<debugView, model, extent, pipeline, busy, destroyed, faults>>

\* Each auxiliary input is given or absent; an absent one is forgotten.
RegisterAux ==
  /\ MayRegister
  /\ \E given \in SUBSET {"motion", "ui"} :
       /\ UseMotion /\ ~AuxVaries => "motion" \in given
       /\ Register(given, {"motion", "ui"} \ given)
  /\ Returns("setup", "OK")
  /\ UNCHANGED <<debugView, model, extent, pipeline, busy, destroyed, faults>>

\* Faulty variant: the device is not drained.
StillBusy == busy

\* vkDeviceWaitIdle: afterwards nothing is in flight.
Drained == FALSE

\* Faulty variants of the condition for tearing down.
TearAlways == TRUE
TearNever == FALSE

\* unregister_all destroys the pipeline only when there is one.
TearsDown == ready

ClearRegistrations ==
  /\ IF TearsDown THEN busy' = Drained /\ DestroyPipeline
     ELSE UNCHANGED <<busy, handle, ready, bound, faults>>
  /\ have' = {}
  /\ debugView' = FALSE
  /\ UNCHANGED <<image, useHint, builtFor>>

UnregisterAll ==
  /\ ~destroyed
  /\ ClearRegistrations
  /\ Returns("setup", "OK")
  /\ UNCHANGED <<model, extent, destroyed>>

Resize ==
  /\ ~destroyed
  /\ \E e \in Extents :
       IF e > caps.max_extent
       THEN /\ Returns("resize", "INVALID_ARGUMENT")
            /\ UNCHANGED <<registered, debugView, extent, pipeline, busy, faults>>
       ELSE /\ ClearRegistrations
            /\ extent' = e
            /\ Returns("resize", "OK")
  /\ UNCHANGED <<model, destroyed>>

LoadModel ==
  /\ ~destroyed
  /\ model' = TRUE
  /\ Returns("setup", "OK")
  /\ UNCHANGED <<registered, debugView, extent, pipeline, busy, destroyed, faults>>

\* Faulty variant: the descriptor sets keep the previous debug target.
RebindNever(target) == FALSE

\* set_debug_view rewrites the sets when there is a pipeline and a target.
Rebinds(target) == ready /\ target

\* A new debug view, with or without a target; the target may be a new image.
SetDebugView ==
  /\ ~destroyed
  /\ \E view, target \in BOOLEAN :
       /\ debugView' = view
       /\ IF target THEN Register({"debug"}, {})
          ELSE have' = have \ {"debug"} /\ UNCHANGED image
       /\ IF Rebinds(target)
          THEN /\ busy' = Drained
               /\ bound' = [Refreshed(useHint, bound) EXCEPT !["debug"] = image'["debug"]]
          ELSE UNCHANGED <<busy, bound>>
  /\ Returns("setup", "OK")
  /\ UNCHANGED <<model, extent, ready, useHint, handle, builtFor, destroyed, faults>>

-----------------------------------------------------------------------------
(* Per-frame calls.                                                        *)

\* ctx->useHint as ensurePipeline computes it.
WantHint == ~ShaderFlow /\ UseMotion /\ "motion" \in have /\ caps.hint_support

MayBuild ==
  /\ ~destroyed
  /\ {"color", "output"} \subseteq have
  /\ UseMotion /\ ~AuxVaries => "motion" \in have

GenerateUnregistered ==
  /\ ~destroyed /\ ~ready
  /\ ~({"color", "output"} \subseteq have)
  /\ Returns("generate", "NOT_REGISTERED")
  /\ UNCHANGED <<registered, debugView, model, extent, pipeline, busy, destroyed, faults>>

\* A creation fails: generate returns, what was created so far stays.  The
\* group that fails may have been created in part.
BuildFails ==
  /\ MayBuild /\ ~ready
  /\ MayFail
  /\ \E made \in PartlyCreated(BuildOrder(WantHint)), missing \in Missing : Created(made \ missing)
  /\ useHint' = WantHint
  /\ builtFor' = extent
  /\ Returns("generate", "FAILED")
  /\ UNCHANGED <<registered, debugView, model, extent, ready, bound, busy, destroyed>>

\* How many steps of setupCnnInterop succeed; a failure is not reported.
CnnSteps == IF ~model THEN {0} ELSE IF MayFail THEN 0 .. 3 ELSE {3}

\* Faulty variant: an existing pipeline is built again.
BuildsAlways == TRUE

\* ensurePipeline has work to do.
Builds == ~ready

\* The first generate after a registration builds the pipeline, writes the sets
\* from the images registered now, sets up the CNN, and submits.  It calls itself
\* ready without the objects of the unchecked groups too.
BuildAndGenerate ==
  /\ MayBuild /\ Builds
  /\ \E n \in CnnSteps, missing \in Missing :
       /\ Created((Whole(WantHint) \ missing) \cup FirstOf(CnnOrder, n))
       /\ bound' = IF n >= 2 THEN CnnBound(Refreshed(WantHint, Blank))
                   ELSE Refreshed(WantHint, Blank)
  /\ useHint' = WantHint
  /\ builtFor' = extent
  /\ ready' = TRUE
  /\ busy' = TRUE
  /\ Returns("generate", "OK")
  /\ UNCHANGED <<registered, debugView, model, extent, destroyed>>

\* generate or warp with a pipeline in place.
Record ==
  /\ ~destroyed /\ ready
  /\ \E op \in {"generate", "warp"} :
       /\ op = "warp" => {"color", "output"} \subseteq have
       /\ Returns(op, "OK")
  /\ busy' = TRUE
  /\ UNCHANGED <<registered, debugView, model, extent, pipeline, destroyed, faults>>

GpuFinishes ==
  /\ busy
  /\ busy' = FALSE
  /\ UNCHANGED <<registered, debugView, model, extent, pipeline, destroyed, last, faults>>

\* nvofg_destroy: waits for the device; the pipeline is destroyed if it is complete.
Destroy ==
  /\ ~destroyed
  /\ destroyed' = TRUE
  /\ busy' = Drained
  /\ IF ready THEN DestroyPipeline ELSE UNCHANGED <<handle, ready, bound, faults>>
  /\ model' = FALSE
  /\ Returns("setup", "OK")
  /\ UNCHANGED <<registered, debugView, extent, useHint, builtFor>>

Next ==
  \/ RegisterColor
  \/ RegisterOutput
  \/ RegisterAux
  \/ UnregisterAll
  \/ Resize
  \/ LoadModel
  \/ SetDebugView
  \/ GenerateUnregistered
  \/ BuildFails
  \/ BuildAndGenerate
  \/ Record
  \/ GpuFinishes
  \/ Destroy

Spec == Init /\ [][Next]_vars

-----------------------------------------------------------------------------
(* Properties.                                                             *)

\* The types of the variables.  The command pools, the buffers shared with CUDA
\* and the interop are created again under the same handles: never left stale.
TypeOK ==
  /\ have \subseteq Inputs
  /\ image \in [Inputs -> 0 .. 4]
  /\ debugView \in BOOLEAN /\ model \in BOOLEAN /\ ready \in BOOLEAN /\ useHint \in BOOLEAN
  /\ busy \in BOOLEAN /\ destroyed \in BOOLEAN /\ leaked \in BOOLEAN /\ freedTwice \in BOOLEAN
  /\ extent \in Extents
  /\ builtFor \in Extents
  /\ handle \in [Groups -> {"null", "live", "stale"}]
  /\ \A g \in {"cmdPools", "cnnBuffers", "interop"} : handle[g] # "stale"
  /\ bound \in [Bindings -> 0 .. 4]
  /\ last \in [op : {"setup", "generate", "warp", "resize"}, result : Results]

\* The bindings whose image the next generate reads or writes, by its flags.
\* (The CNN's add pass reads its masks whether or not they are registered.)
Used ==
  {"color", "output"}
    \cup (have \cap {"motion", "ui"})
    \cup (IF useHint THEN {"hint"} ELSE {})
    \cup (IF debugView THEN have \cap {"debug"} ELSE {})
    \cup (IF handle["interop"] = "live" THEN {"cnnColor", "cnnOutput"} ELSE {})

\* Every image a generate touches through a descriptor is the one registered for
\* that input: the same one the barriers and the shader flags of the call name.
ReadsRegistered ==
  last = [op |-> "generate", result |-> "OK"] =>
    /\ \A b \in Used : InputOf(b) \in have /\ bound[b] = image[InputOf(b)]
    /\ handle["interop"] = "live" => bound["cnnUi"] = OrDummy("ui")

\* Its inductive form, binding by binding, for a pipeline between two calls.
SetsCurrent ==
  /\ last = [op |-> "generate", result |-> "OK"] => ready
  /\ ready =>
       /\ {"color", "output"} \subseteq have
       /\ \A b \in {"color", "output"} \cup (have \cap {"motion", "ui", "debug"}) : bound[b] = image[b]
       /\ useHint => "motion" \in have /\ bound["hint"] = image["motion"]
       /\ handle["interop"] = "live" =>
            /\ bound["cnnColor"] = image["color"] /\ bound["cnnOutput"] = image["output"]
            /\ bound["cnnUi"] = OrDummy("ui")

\* A pipeline that is ready has the size the context has, and whatever
\* ensurePipeline looks at the creation of exists, through any sequence of
\* resizes, failed builds and rebuilds.  The sampler and the command pools are
\* sure to exist only where no creation fails.
BuiltComplete ==
  ready =>
    /\ builtFor = extent
    /\ {"images", "stages", "descPool"} \subseteq Live
    /\ ~ShaderFlow => "session" \in Live
    /\ ~MayFail => Unchecked \subseteq Live
    /\ useHint => {"hintImages", "hintStage"} \subseteq Live
    /\ handle["interop"] = "live" => {"cnnBuffers", "cnnStages"} \subseteq Live

\* Nothing is destroyed and no descriptor set rewritten under the GPU's feet: the
\* device was idle before, or the call has drained it.
IdleFirst ==
  [][(bound' # bound \/ \E g \in Live : handle'[g] # "live") => ~busy \/ ~busy']_vars

\* Work is in flight, and the CUDA interop exists, only while a pipeline does.
InFlight == busy \/ handle["interop"] = "live" => ready

\* internal.hpp:163-164 "Build the OFA session, scratch resources, and compute
\* pipelines [...] Idempotent. Tears everything down on destroy.": no object is
\* overwritten by another, and none is left after nvofg_destroy.
NoLeak == ~leaked /\ (destroyed => Live = {})

\* nvofg.h:168-172 "tears down the size-dependent resources [...] Safe to call
\* anytime after nvofg_create": no object is destroyed twice.
NoDoubleFree == ~freedTwice
=============================================================================
