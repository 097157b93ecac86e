-------------------------------- MODULE Device --------------------------------
(***************************************************************************)
(* What nvofg finds out about a device before there is a context:          *)
(* queryCaps, the search for an optical flow queue family, and how         *)
(* nvofg_create decides between the OFA, the shader tier and an error.     *)
(***************************************************************************)
EXTENDS Naturals, Sequences

Flags == {"USE_DEPTH", "USE_MOTION", "BIDIRECTIONAL", "HDR", "USE_UI_MASK", "USE_REACTIVE",
          "USE_MATERIAL_ID", "FORCE_SHADER_FLOW"}

\* VkOpticalFlowGridSizeFlagsNV: flow vectors for blocks of this many pixels.
GridSizes == {1, 2, 4, 8}

\* A device as the application's loader describes it: what queryCaps asks for,
\* which of its queue families do optical flow, and what nvofg_create resolves.
DeviceType ==
  [queries : BOOLEAN, extension : BOOLEAN, opticalFlow : BOOLEAN,
   bidirectional : BOOLEAN, cost : BOOLEAN, globalFlow : BOOLEAN, hint : BOOLEAN,
   maxExtent : Nat, grids : SUBSET GridSizes, families : Seq(BOOLEAN),
   deviceLoader : BOOLEAN, ofEntryPoints : BOOLEAN, timeline : BOOLEAN]

\* NvofgCaps, all zero where there is no usable OFA.
NvofgCaps ==
  [supported : BOOLEAN, bidirectional : BOOLEAN, cost_map : BOOLEAN, global_flow : BOOLEAN,
   hint_support : BOOLEAN, max_extent : Nat, min_grid_size : Nat, max_grid_size : Nat]
NoCaps ==
  [supported |-> FALSE, bidirectional |-> FALSE, cost_map |-> FALSE, global_flow |-> FALSE,
   hint_support |-> FALSE, max_extent |-> 0, min_grid_size |-> 0, max_grid_size |-> 0]

\* The finest and the coarsest grid; a device that names none gets 8 and 1.
MinGrid(grids) ==
  CHOOSE g \in GridSizes : (g \in grids \/ g = 8) /\ \A f \in grids : g <= f
MaxGrid(grids) ==
  CHOOSE g \in GridSizes : (g \in grids \/ g = 1) /\ \A f \in grids : g >= f

\* queryCaps
QueryCaps(d) ==
  IF d.queries /\ d.extension /\ d.opticalFlow
  THEN [supported |-> TRUE, bidirectional |-> d.bidirectional, cost_map |-> d.cost,
        global_flow |-> d.globalFlow, hint_support |-> d.hint, max_extent |-> d.maxExtent,
        min_grid_size |-> MinGrid(d.grids), max_grid_size |-> MaxGrid(d.grids)]
  ELSE NoCaps

\* nvofg_optical_flow_queue_family: the first family that does optical flow, or 0.
OpticalFlowQueueFamily(d) ==
  LET able == {n \in DOMAIN d.families : d.families[n]}
  IN IF able = {} THEN 0 ELSE CHOOSE n \in able : \A m \in able : n <= m

\* NvofgCreateInfo: whether every handle and extent is given, the queue for
\* optical flow (or none) and its family, and the flags.
CreateInfo ==
  [complete : BOOLEAN, ofQueue : BOOLEAN, ofFamily : Nat, flags : SUBSET Flags]

\* NvofgContext::shaderFlow
ShaderTier(d, flags) == "FORCE_SHADER_FLOW" \in flags \/ ~ QueryCaps(d).supported

\* A queue was passed, or the family it names has one.
HasOfQueue(d, info) == info.ofQueue \/ info.ofFamily \in DOMAIN d.families

\* nvofg_create: its checks in their order, and what it returns for the first
\* that fails.  Allocation failures are left out.
CreateChecks(d, info) ==
  LET hardware == ~ ShaderTier(d, info.flags)
  IN <<[holds |-> info.complete, result |-> "INVALID_ARGUMENT"],
       [holds |-> QueryCaps(d).supported \/ "FORCE_SHADER_FLOW" \in info.flags, result |-> "UNSUPPORTED"],
       [holds |-> d.deviceLoader, result |-> "INTERNAL"],
       [holds |-> hardware => d.ofEntryPoints, result |-> "INTERNAL"],
       [holds |-> hardware => HasOfQueue(d, info), result |-> "INVALID_ARGUMENT"],
       [holds |-> d.timeline, result |-> "INTERNAL"]>>

CreateResult(d, info) ==
  LET checks == CreateChecks(d, info)
      failing == {n \in DOMAIN checks : ~ checks[n].holds}
  IN IF failing = {} THEN "OK"
     ELSE checks[CHOOSE n \in failing : \A m \in failing : n <= m].result
===============================================================================
