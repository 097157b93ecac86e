------------------------------- MODULE Backends -------------------------------
(***************************************************************************)
(* The backend registry of RenderFX (renderfx/src/backends.cpp): the       *)
(* static table and the capabilities a device ends up with.                *)
(*                                                                         *)
(* A capability table is a sequence of records, in the order of the C      *)
(* array, because the resolver breaks ties by that order.  Names, notes,   *)
(* versions and the feature bits are left out: nothing is decided by them. *)
(***************************************************************************)
EXTENDS Naturals, Sequences

\* Upscaling, ray reconstruction, frame generation.
Stages == {"UP", "RR", "FG"}

\* "NONE" is RFX_BACKEND_NONE; as a requirement it is RFX_STAGE_COUNT.
NONE == "NONE"

\* A row of the table, before `supported' is known.
Row(id, stage, family, proprietary, deterministic, tier, cost, inputs, requires) ==
  [id |-> id, stage |-> stage, family |-> family, supported |-> FALSE,
   proprietary |-> proprietary, deterministic |-> deterministic,
   quality_tier |-> tier, cost_hint |-> cost, required_inputs |-> inputs,
   requires_family_stage |-> requires,
   requires_family |-> IF requires = NONE THEN "GENERIC" ELSE family]

Guides == {"color", "depth", "motion"}
Super == Guides \cup {"jitter"}
GBuffer == {"roughness", "albedo_diffuse", "albedo_specular", "normals"}

kTable == <<
  Row("NATIVE", "UP", "GENERIC", FALSE, TRUE, 20, 5, {"color"}, NONE),
  Row("TEMPORAL", "UP", "GENERIC", FALSE, TRUE, 50, 15, Super \cup {"reproj"}, NONE),
  Row("DLSS_SR", "UP", "DLSS", TRUE, FALSE, 90, 30, Super, NONE),
  Row("DLAA", "UP", "DLSS", TRUE, FALSE, 92, 32, Super, NONE),
  Row("FSR", "UP", "FSR", FALSE, TRUE, 70, 20, {"color"}, NONE),
  Row("XESS", "UP", "XESS", FALSE, TRUE, 75, 22, Super, NONE),
  Row("DLSS_RR", "RR", "DLSS", TRUE, FALSE, 90, 45, Guides \cup GBuffer, "UP"),
  Row("NVOFG", "FG", "NVOFG", FALSE, TRUE, 60, 30, Guides \cup {"reproj"}, NONE),
  Row("SHADER_FG", "FG", "GENERIC", FALSE, TRUE, 40, 35, Guides, NONE),
  Row("DLSS_FG", "FG", "DLSS", TRUE, FALSE, 85, 35, Guides, "UP"),
  Row("FSR_FG", "FG", "FSR", FALSE, TRUE, 70, 30, Guides, "UP") >>

BackendIds == {kTable[n].id : n \in DOMAIN kTable}

\* buildCapabilities: `supported' follows the probes; TEMPORAL and FSR_FG are
\* reserved whatever the device offers.
SupportedIds(nvofgOfa, nvofgShader, ngxSr, ngxRr, fsr, xess) ==
  {"NATIVE"}
    \cup (IF nvofgOfa THEN {"NVOFG"} ELSE {})
    \cup (IF nvofgShader THEN {"SHADER_FG"} ELSE {})
    \cup (IF ngxSr THEN {"DLSS_SR", "DLAA"} ELSE {})
    \cup (IF ngxRr THEN {"DLSS_RR"} ELSE {})
    \cup (IF fsr THEN {"FSR"} ELSE {})
    \cup (IF xess THEN {"XESS"} ELSE {})

WithSupported(ids) ==
  [n \in DOMAIN kTable |-> [kTable[n] EXCEPT !.supported = @ \/ kTable[n].id \in ids]]

\* rfx_query_capabilities: the shader tier and FSR are always built in, and
\* DLSS_FG is patched in when NGX reports frame generation available.
QueryCapabilities(ofa, ngxSr, ngxRr, xess, dlssFg) ==
  WithSupported(SupportedIds(ofa, TRUE, ngxSr, ngxRr, TRUE, xess)
                  \cup (IF dlssFg THEN {"DLSS_FG"} ELSE {}))

\* rfx_backend_required_inputs: no inputs for what the table does not list.
RequiredInputs(id) ==
  UNION {kTable[n].required_inputs : n \in {r \in DOMAIN kTable : kTable[r].id = id}}

\* The rows of a stage with an id, of which there is at most one.
Rows(caps, s, id) == {n \in DOMAIN caps : caps[n].stage = s /\ caps[n].id = id}
Listed(caps, s, id) == Rows(caps, s, id) # {}
findCaps(caps, s, id) == caps[CHOOSE n \in Rows(caps, s, id) : TRUE]

\* A combination holds together: each backend is listed and finds a backend
\* of the family it requires in the stage it requires.
ComboValid(caps, pick) ==
  \A s \in Stages : pick[s] # NONE =>
    /\ Listed(caps, s, pick[s])
    /\ LET b == findCaps(caps, s, pick[s])
           rs == b.requires_family_stage
       IN rs # NONE =>
            /\ pick[rs] # NONE
            /\ Listed(caps, rs, pick[rs])
            /\ findCaps(caps, rs, pick[rs]).family = b.requires_family
===============================================================================
