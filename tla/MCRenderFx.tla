------------------------------ MODULE MCRenderFx ------------------------------
(***************************************************************************)
(* RenderFx on the outcomes of the probes that tell its paths apart.       *)
(***************************************************************************)
EXTENDS RenderFx

Sel(up, rr, fg) == [s \in Stages |-> CASE s = "UP" -> up [] s = "RR" -> rr [] s = "FG" -> fg]

\* Three that the resolver can return, Temporal, which only a hand-made
\* selection names, and one with each backend in the wrong stage.
MCSelections ==
  {Sel("DLSS_SR", "DLSS_RR", "NVOFG"), Sel("DLAA", NONE, "SHADER_FG"), Sel("XESS", NONE, NONE),
   Sel("TEMPORAL", NONE, "DLSS_FG"), Sel("NVOFG", "DLAA", NONE)}

Found(ofa, n, own, rr, xess) ==
  [ofa |-> ofa, ngx |-> n, own |-> own, sr |-> TRUE, rr |-> rr, fg |-> ~ rr, xess |-> xess]

\* Optical flow and ray reconstruction, but no XeSS; no optical flow and no ray reconstruction; NGX that only the
\* second probe could initialise; nothing.
MCProbes ==
  {Found(TRUE, TRUE, TRUE, TRUE, FALSE), Found(FALSE, TRUE, TRUE, FALSE, FALSE),
   Found(TRUE, FALSE, TRUE, TRUE, TRUE), Found(TRUE, FALSE, FALSE, TRUE, FALSE)}

\* Native anti-aliasing at two sizes and super resolution to the larger one.
CONSTANTS low, high
MCResolutions ==
  {[in |-> low, out |-> low], [in |-> low, out |-> high], [in |-> high, out |-> high]}

MCInputs ==
  LET All == Super \cup GBuffer \cup {"reproj"}
  IN {All, All \ {"depth"}, All \ {"normals"}}
===============================================================================
