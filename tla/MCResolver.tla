------------------------------ MODULE MCResolver ------------------------------
(***************************************************************************)
(* Resolver on the product's table: every set of probe results, and the    *)
(* preferences that tell the rules apart.                                  *)
(***************************************************************************)
EXTENDS Resolver

\* 2^5 devices.
MCCapabilities ==
  {QueryCapabilities(ofa, sr, rr, xess, fg) : ofa, sr, rr, xess, fg \in BOOLEAN}

\* Overrides: none, one stage pinned, a stage switched off, a pair that needs
\* each other, a backend that is never supported, and one of another stage.
MCOverrides ==
  LET Over(up, rr, fg) == [s \in Stages |-> CASE s = "UP" -> up [] s = "RR" -> rr [] s = "FG" -> fg]
  IN {Over(AUTO, AUTO, AUTO), Over("FSR", AUTO, AUTO), Over(NONE, AUTO, AUTO),
      Over(AUTO, AUTO, "DLSS_FG"), Over("DLAA", "DLSS_RR", AUTO), Over("NVOFG", AUTO, AUTO)}

\* Quality against cost at its three ratios, with the modes that change them.
Weights == {<<"QUALITY", FALSE, FALSE>>, <<"BALANCED", TRUE, FALSE>>, <<"PERF", TRUE, TRUE>>}
\* allow_proprietary, deterministic, debug.
Modes == {<<TRUE, FALSE, FALSE>>, <<FALSE, FALSE, FALSE>>, <<TRUE, TRUE, FALSE>>, <<TRUE, FALSE, TRUE>>}

MCPreferences ==
  {[quality |-> w[1], prioritize_latency |-> w[2], power_saver |-> w[3],
    allow_proprietary |-> m[1], open_source_only |-> FALSE, deterministic |-> m[2],
    debug |-> m[3], vendor_pin |-> pin, stages_enabled |-> on, override_backend |-> over] :
      w \in Weights, m \in Modes, pin \in {"GENERIC", "DLSS"},
      on \in {Stages, {"UP", "FG"}}, over \in MCOverrides}
===============================================================================
