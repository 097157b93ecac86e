------------------------------ MODULE MCPipeline ------------------------------
(***************************************************************************)
(* Pipeline on a device with an optical flow accelerator, in either tier.  *)
(***************************************************************************)
EXTENDS Pipeline

Hardware ==
  [queries |-> TRUE, extension |-> TRUE, opticalFlow |-> TRUE, bidirectional |-> TRUE,
   cost |-> TRUE, globalFlow |-> TRUE, hint |-> TRUE, maxExtent |-> 2, grids |-> {1, 4},
   families |-> <<FALSE, TRUE>>, deviceLoader |-> TRUE, ofEntryPoints |-> TRUE, timeline |-> TRUE]

\* The application takes the family nvofg names and lets nvofg get the queue.
TierA ==
  [complete |-> TRUE, ofQueue |-> FALSE, ofFamily |-> OpticalFlowQueueFamily(Hardware),
   flags |-> {"USE_MOTION", "BIDIRECTIONAL"}]
TierB == [TierA EXCEPT !.flags = {"USE_MOTION", "FORCE_SHADER_FLOW"}]
NoMotion == [TierA EXCEPT !.flags = {}]

\* What the calls and BuiltComplete and IdleFirst depend on: all but the history
\* of results, leaks and double frees.
WithoutHistory == <<registered, debugView, model, extent, pipeline, busy, destroyed>>
===============================================================================
