--------------------------- MODULE MCFrameTimeline ---------------------------
(***************************************************************************)
(* FrameTimeline instantiated for model checking: the cfg files choose the *)
(* tier, the interpolator and the application's protocol.                  *)
(***************************************************************************)
EXTENDS FrameTimeline

\* The values of the constants every run shares.
MCRing == 2          \* kRing
MCMaxCalls == 5      \* every slot is used at least twice, with teardowns between
=============================================================================
