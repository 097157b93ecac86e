------------------------------- MODULE Resolver -------------------------------
(***************************************************************************)
(* rfx_resolve (renderfx/src/resolve.cpp): intent and capabilities in, one *)
(* backend per stage and its explanation out.                              *)
(*                                                                         *)
(* The three nested loops over the candidates are the state machine, one   *)
(* step per combination; the derivation of the policy, the candidates, the *)
(* validity and the score of a combination, and the explanation are        *)
(* operators.  The module is stated for any capability table: the one of   *)
(* the product comes in through Capabilities.                              *)
(***************************************************************************)
EXTENDS Backends, Integers, FiniteSets

CONSTANTS
  Capabilities,  \* the capability tables a caller may pass
  Preferences,   \* the preferences a caller may pass
  MaxHint        \* the largest quality tier and cost hint of a table (0..100 in the code)

\* Mutant of INT_MIN: the search starts at 0, the score of disabled stages.
ZeroScore == 0
\* What bestScore starts from.
INT_MIN == -2147483647 - 1
RFX_MAX_REASONS == 6
\* RFX_BACKEND_COUNT in override_backend: the resolver chooses.
AUTO == "AUTO"

\* Vendor families; "GENERIC" as a pin is no pin.
Families == {"GENERIC", "DLSS", "FSR", "XESS", "NVOFG"}

BackendCaps ==
  [id : STRING, stage : Stages, family : STRING, supported : BOOLEAN,
   proprietary : BOOLEAN, deterministic : BOOLEAN,
   quality_tier : 0..MaxHint, cost_hint : 0..MaxHint, required_inputs : SUBSET STRING,
   requires_family_stage : Stages \cup {NONE}, requires_family : STRING]

Preference ==
  [quality : {"PERF", "BALANCED", "QUALITY"}, prioritize_latency : BOOLEAN,
   allow_proprietary : BOOLEAN, open_source_only : BOOLEAN, deterministic : BOOLEAN,
   power_saver : BOOLEAN, debug : BOOLEAN, vendor_pin : STRING,
   stages_enabled : SUBSET Stages, override_backend : [Stages -> STRING]]

\* The rules a preference is turned into.
RfxPolicy ==
  [quality_weight : 1..2, cost_weight : 1..5, exclude_proprietary : BOOLEAN,
   require_deterministic : BOOLEAN, vendor_pin : STRING, prefer_native : BOOLEAN]

\* Why a stage has its backend.
RfxReason ==
  {"SUPPORTED", "HIGHEST_QUALITY", "LOWEST_COST", "PROPRIETARY_ALLOWED", "OPEN_SOURCE",
   "VENDOR_PINNED", "PREFERRED_NATIVE", "DETERMINISTIC", "CONSTRAINT_SATISFIED",
   "ALTERNATIVE_UNAVAILABLE", "OVERRIDDEN", "DISABLED_NO_COMPATIBLE", "STAGE_NOT_REQUESTED"}

ASSUME ResolverAssumption ==
  /\ MaxHint \in 0..100
  /\ Capabilities \subseteq Seq(BackendCaps)
  /\ \A t \in Capabilities : \A m, n \in DOMAIN t :
       t[m].stage = t[n].stage /\ t[m].id = t[n].id => m = n
  /\ Preferences \subseteq Preference

-------------------------------------------------------------------------------
(* Policy, candidates and score                                              *)

\* The rules derived from the intent.
rfx_derive_policy(p) ==
  [quality_weight |-> IF p.quality = "QUALITY" THEN 2 ELSE 1,
   cost_weight |-> (IF p.quality = "PERF" THEN 2 ELSE 1)
                     + (IF p.prioritize_latency THEN 1 ELSE 0)
                     + (IF p.power_saver THEN 2 ELSE 0),
   exclude_proprietary |-> p.open_source_only \/ ~ p.allow_proprietary,
   require_deterministic |-> p.deterministic \/ p.debug,
   vendor_pin |-> p.vendor_pin,
   prefer_native |-> p.debug]

\* What the policy lets the resolver choose from by itself.
Eligible(b, s, pol) ==
  /\ b.stage = s /\ b.supported /\ b.id # NONE
  /\ ~ (pol.exclude_proprietary /\ b.proprietary)
  /\ ~ (pol.require_deterministic /\ ~ b.deterministic)
  /\ pol.vendor_pin # "GENERIC" => b.family = pol.vendor_pin

\* The rows the resolver may choose from by itself, and the n-th of them.
EligibleRows(caps, pref, s) ==
  {n \in DOMAIN caps : Eligible(caps[n], s, rfx_derive_policy(pref))}
Nth(rows, n) == CHOOSE m \in rows : Cardinality({l \in rows : l <= m}) = n

\* Mutant of AutoCandidates: an automatic stage cannot stay disabled.
AutoCandidatesNoNone(caps, pref, s) ==
  LET rows == EligibleRows(caps, pref, s)
  IN [n \in 1..Cardinality(rows) |-> caps[Nth(rows, n)].id]

\* Disabled first, then the eligible backends in the order of the table.
AutoCandidates(caps, pref, s) ==
  LET rows == EligibleRows(caps, pref, s)
  IN [n \in 1..(Cardinality(rows) + 1) |->
        IF n = 1 THEN NONE ELSE caps[Nth(rows, n - 1)].id]

\* The candidates of a stage, in the order they are tried.  An override skips
\* the policy; one that cannot be met leaves none.
Candidates(caps, pref, s) ==
  LET ov == pref.override_backend[s]
  IN IF s \notin pref.stages_enabled \/ ov = NONE THEN <<NONE>>
     ELSE IF ov # AUTO
       THEN IF Listed(caps, s, ov) /\ findCaps(caps, s, ov).supported THEN <<ov>> ELSE <<>>
       ELSE AutoCandidates(caps, pref, s)

\* A score over a base that every filled stage gets.
ScoreOver(base, caps, pol, s, id) ==
  IF id = NONE THEN 0
  ELSE IF ~ Listed(caps, s, id) THEN -1000
  ELSE LET b == findCaps(caps, s, id)
       IN base + pol.quality_weight * b.quality_tier - pol.cost_weight * b.cost_hint
            + (IF pol.prefer_native /\ b.family = "GENERIC" THEN 200 ELSE 0)

\* Mutant of StageScore: a base the cost can eat up.
StageScoreLowBase(caps, pol, s, id) == ScoreOver(100, caps, pol, s, id)
StageScore(caps, pol, s, id) == ScoreOver(1000, caps, pol, s, id)

Total(caps, pref, pick) ==
  LET Score(s) == StageScore(caps, rfx_derive_policy(pref), s, pick[s])
  IN Score("UP") + Score("RR") + Score("FG")

-------------------------------------------------------------------------------
(* The explanation of one stage                                              *)

\* The largest of a set of hints, 0 where there is none.
Highest(tiers) == CHOOSE t \in tiers \cup {0} : \A u \in tiers \cup {0} : u <= t

StageTiers(caps, s) == {caps[n].quality_tier : n \in {r \in DOMAIN caps : caps[r].stage = s}}
CandidateTiers(caps, pref, s) ==
  LET cand == Candidates(caps, pref, s)
  IN {findCaps(caps, s, cand[n]).quality_tier :
        n \in {r \in DOMAIN cand : Listed(caps, s, cand[r])}}

\* Mutant of AddReasons: the last place is never used.
AddReasonsOneLess(reasons) ==
  LET true == {n \in DOMAIN reasons : reasons[n].holds}
      count == Cardinality(true)
  IN [n \in 1..(IF count < RFX_MAX_REASONS THEN count ELSE RFX_MAX_REASONS - 1)
        |-> reasons[Nth(true, n)].reason]

\* addReason: a reason is kept once, and the seventh and later ones are lost.
AddReasons(reasons) ==
  LET true == {n \in DOMAIN reasons : reasons[n].holds}
      count == Cardinality(true)
  IN [n \in 1..(IF count < RFX_MAX_REASONS THEN count ELSE RFX_MAX_REASONS)
        |-> reasons[Nth(true, n)].reason]

\* What may be said of a chosen backend, in the order it is said.
Reasons(caps, pref, s, chosen) ==
  LET pol == rfx_derive_policy(pref)
      b == findCaps(caps, s, chosen)
      Why(holds, reason) == [holds |-> holds, reason |-> reason]
  IN <<Why(TRUE, "SUPPORTED"),
       Why(pref.override_backend[s] = chosen, "OVERRIDDEN"),
       Why(b.quality_tier >= Highest(CandidateTiers(caps, pref, s)), "HIGHEST_QUALITY"),
       Why(b.quality_tier < Highest(StageTiers(caps, s)), "ALTERNATIVE_UNAVAILABLE"),
       Why(TRUE, IF b.proprietary THEN "PROPRIETARY_ALLOWED" ELSE "OPEN_SOURCE"),
       Why(pol.vendor_pin # "GENERIC" /\ b.family = pol.vendor_pin, "VENDOR_PINNED"),
       Why(pol.require_deterministic /\ b.deterministic, "DETERMINISTIC"),
       Why(pol.prefer_native /\ b.family = "GENERIC", "PREFERRED_NATIVE"),
       Why(b.requires_family_stage # NONE, "CONSTRAINT_SATISFIED"),
       Why(pol.cost_weight >= 2, "LOWEST_COST")>>

Explain(caps, pref, s, chosen) ==
  IF chosen = NONE
  THEN <<IF s \in pref.stages_enabled THEN "DISABLED_NO_COMPATIBLE" ELSE "STAGE_NOT_REQUESTED">>
  ELSE AddReasons(Reasons(caps, pref, s, chosen))

-------------------------------------------------------------------------------
(* The search                                                                *)

VARIABLES
  caps, pref,      \* the arguments
  pc,              \* "call", "scan", "done"
  cand,            \* the candidates of each stage
  i, j, k,         \* the combination the loops are at, outermost first
  best, bestScore, \* the best combination so far and its score
  found,           \* one has been valid
  sel              \* *out, once returned: NULL or the selection

vars == <<caps, pref, pc, cand, i, j, k, best, bestScore, found, sel>>

NoPick == [s \in Stages |-> NONE]
\* out->valid = 0, RFX_NO_VALID_SELECTION.
Invalid == [valid |-> FALSE]

\* The combination at a position of the loops.
At(a, b, c) ==
  [s \in Stages |-> CASE s = "UP" -> cand["UP"][a] [] s = "RR" -> cand["RR"][b]
                      [] s = "FG" -> cand["FG"][c]]

Init ==
  /\ caps \in Capabilities /\ pref \in Preferences
  /\ pc = "call" /\ cand = [s \in Stages |-> <<>>]
  /\ i = 1 /\ j = 1 /\ k = 1
  /\ best = NoPick /\ bestScore = INT_MIN /\ found = FALSE
  /\ sel = Invalid

\* The candidates of every stage; a stage without any ends the call.
Gather ==
  /\ pc = "call"
  /\ cand' = [s \in Stages |-> Candidates(caps, pref, s)]
  /\ pc' = IF \E s \in Stages : cand'[s] = <<>> THEN "done" ELSE "scan"
  /\ UNCHANGED <<caps, pref, i, j, k, best, bestScore, found, sel>>

\* Mutant of Improves: the last of equals wins.
ImprovesOrTies(pick) == ComboValid(caps, pick) /\ Total(caps, pref, pick) >= bestScore
\* A strictly higher score wins: the first of equals stays.
Improves(pick) == ComboValid(caps, pick) /\ Total(caps, pref, pick) > bestScore

\* A loop over the candidates of s has another round after n.
More(n, s) == n < Len(cand[s])

\* One round of the innermost loop.
Try ==
  /\ pc = "scan" /\ i <= Len(cand["UP"])
  /\ IF Improves(At(i, j, k))
       THEN /\ best' = At(i, j, k) /\ found' = TRUE
            /\ bestScore' = Total(caps, pref, At(i, j, k))
       ELSE UNCHANGED <<best, bestScore, found>>
  /\ IF More(k, "FG") THEN k' = k + 1 /\ UNCHANGED <<i, j>>
     ELSE /\ k' = 1
          /\ IF More(j, "RR") THEN j' = j + 1 /\ UNCHANGED i
             ELSE j' = 1 /\ i' = i + 1
  /\ UNCHANGED <<caps, pref, pc, cand, sel>>

\* What a combination needs from the application, each stage by its own row.
InputsOf(pick) ==
  UNION {findCaps(caps, s, pick[s]).required_inputs : s \in {t \in Stages : pick[t] # NONE}}

\* The loops are through: *out is filled from the best combination.
Return ==
  /\ pc = "scan" /\ i > Len(cand["UP"])
  /\ pc' = "done"
  /\ sel' = IF ~ found THEN Invalid
            ELSE [valid |-> TRUE, backend |-> best, required_inputs |-> InputsOf(best),
                  explanation |-> [s \in Stages |-> Explain(caps, pref, s, best[s])]]
  /\ UNCHANGED <<caps, pref, cand, i, j, k, best, bestScore, found>>

Next == Gather \/ Try \/ Return

Spec == Init /\ [][Next]_vars

-------------------------------------------------------------------------------
(* Properties                                                                *)

\* What a stage of a selection may hold: no backend, or one of the table.
Names(t) == {NONE} \cup {t[n].id : n \in DOMAIN t}

TypeOK ==
  /\ caps \in Capabilities /\ pref \in Preferences
  /\ pc \in {"call", "scan", "done"}
  /\ pc # "call" => \A s \in Stages : cand[s] = Candidates(caps, pref, s)
  /\ pc = "scan" =>
       /\ \A s \in Stages : cand[s] # <<>>
       /\ i \in 1..(Len(cand["UP"]) + 1) /\ j \in DOMAIN cand["RR"] /\ k \in DOMAIN cand["FG"]
  /\ best \in [Stages -> Names(caps)] /\ bestScore \in Int /\ found \in BOOLEAN
  /\ rfx_derive_policy(pref) \in RfxPolicy
  /\ sel.valid => \A s \in Stages : sel.explanation[s] \in Seq(RfxReason)

Positions == (DOMAIN cand["UP"]) \X (DOMAIN cand["RR"]) \X (DOMAIN cand["FG"])
PickAt(p) == At(p[1], p[2], p[3])
\* p is tried before q.
Before(p, q) ==
  \/ p[1] < q[1]
  \/ p[1] = q[1] /\ p[2] < q[2]
  \/ p[1] = q[1] /\ p[2] = q[2] /\ p[3] < q[3]

ScoreAt(p) == Total(caps, pref, PickAt(p))
ValidAt(p) == ComboValid(caps, PickAt(p))

Done == pc = "done"

\* The selection is the best valid combination of the whole product, never put
\* together stage by stage, and of several the one tried first: the scan of
\* resolve.cpp:154-164 loses no combination and keeps no worse one.
Optimal ==
  Done /\ sel.valid =>
    \E p \in Positions :
      /\ sel.backend = PickAt(p) /\ ValidAt(p)
      /\ \A q \in Positions : ValidAt(q) =>
           /\ ScoreAt(q) <= ScoreAt(p)
           /\ Before(q, p) => ScoreAt(q) < ScoreAt(p)

\* RFX_NO_VALID_SELECTION is returned exactly when no combination of candidates
\* holds together.
FailsOnlyForCause ==
  Done /\ ~ sel.valid => \A p \in Positions : ~ ValidAt(p)

\* Without overrides there is always a selection, however strict the rules.
AutoResolves ==
  Done /\ (\A s \in Stages : pref.override_backend[s] \in {AUTO, NONE}) => sel.valid

Filled(pick) == {s \in Stages : pick[s] # NONE}

\* resolve.cpp:24 "Base 1000 so any valid real backend beats a disabled stage":
\* no valid combination fills more stages than the selection, whatever the
\* weights, the debug bias and the constraints between stages make of the sum.
FillsMost ==
  Done /\ sel.valid =>
    \A p \in Positions : ValidAt(p) =>
      Cardinality(Filled(PickAt(p))) <= Cardinality(Filled(sel.backend))

\* A backend that was only possible because of another stage's backend says so:
\* the reason survives the six places of an explanation.
ConstraintExplained ==
  Done /\ sel.valid =>
    \A s \in Filled(sel.backend) :
      findCaps(caps, s, sel.backend[s]).requires_family_stage # NONE =>
        \E n \in DOMAIN sel.explanation[s] : sel.explanation[s][n] = "CONSTRAINT_SATISFIED"

===============================================================================
