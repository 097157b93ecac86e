------------------------------- MODULE RenderFx -------------------------------
(***************************************************************************)
(* The RenderFX context (renderfx/src/context.cpp) over the backends it    *)
(* composes: the NGX runtime (ngx.cpp, dlss_fg.cpp), XeSS (xess.cpp) and   *)
(* an nvofg context for frame generation.  RenderFX's own upscaling passes *)
(* are one kind of work here; Upscalers has their resources.               *)
(*                                                                         *)
(* Feature handles are created by the first record that needs them, for    *)
(* its resolution, and recreated when the code finds the resolution        *)
(* changed.  Recorded commands refer to them until the device has executed *)
(* them, so the model keeps the outstanding commands and marks the ones    *)
(* whose feature is gone.                                                  *)
(***************************************************************************)
EXTENDS Backends

CONSTANTS
  Contexts,      \* the RfxContexts of the process, all on one device
  Probes,        \* what rfx_create may find: records over the outcomes below
  Selections,    \* the selections an application may commit: [Stages -> backend]
  Extents,       \* image sizes
  Resolutions,   \* the sizes of an application's color image and target
  Inputs,        \* the sets of inputs a frame context may provide
  Targets        \* the stable images an application generates frames into

\* No image is registered, no feature handle, no nvofg context.
NoTargets == "no targets"
NoExtent == "no extent"
NoFeature == [in |-> NoExtent, out |-> NoExtent]
NoNvofg == [tier |-> "none", images |-> NoTargets]

\* What the commands an application records can refer to.
NgxKinds == {"dlaa", "rr"}
FeatureKinds == NgxKinds \cup {"xess"}
Kinds == FeatureKinds \cup {"own", "fg"}
Results == {"OK", "UNSUPPORTED", "INVALID_ARGUMENT", "NOT_REGISTERED", "INTERNAL"}

Probe == [ofa : BOOLEAN, ngx : BOOLEAN, own : BOOLEAN, sr : BOOLEAN, rr : BOOLEAN,
          fg : BOOLEAN, xess : BOOLEAN]
\* What a context finds that does not exist yet, or is built without the SDKs.
Nothing == [ofa |-> FALSE, ngx |-> FALSE, own |-> FALSE, sr |-> FALSE,
            rr |-> FALSE, fg |-> FALSE, xess |-> FALSE]
Selection == [Stages -> BackendIds \cup {NONE}]

ASSUME RenderFxAssumption ==
  /\ Probes \subseteq Probe
  /\ Selections \subseteq Selection
  /\ NoTargets \notin Targets
  /\ NoExtent \notin Extents
  /\ Resolutions \subseteq [in : Extents, out : Extents]

VARIABLES
  alive,       \* the contexts that exist
  probe,       \* what each one found when it was created
  ngx,         \* the contexts with an NgxState
  dlssFg,      \* DlssFgState: "none", "guest" on another's NGX, or its "owner"
  feature,     \* the feature handles of each context with the extents they were made for
  choice,      \* the committed backend of each stage
  nvofg,       \* the nvofg context: its tier and the images registered on it
  registered,  \* RfxContext::registered
  targets,     \* the images the application uses for frame generation
  sdk,         \* the NGX runtime of the process
  work,        \* the commands that are recorded or executing
  last         \* the outcome of the last record call

vars == <<alive, probe, ngx, dlssFg, feature, choice, nvofg, registered, targets, sdk, work, last>>

Features == Resolutions \cup {NoFeature}
\* A command that refers to an object of its context, and whether that object
\* still exists and was made for the sizes of the call.
Commands == [ctx : Contexts, kind : Kinds, live : BOOLEAN, submitted : BOOLEAN, fits : BOOLEAN]
Command(c, k, submitted, fits) ==
  [ctx |-> c, kind |-> k, live |-> TRUE, submitted |-> submitted, fits |-> fits]
NoCall == [ctx |-> NONE, stage |-> NONE, missing |-> {}, result |-> "OK", from |-> NoNvofg]

-------------------------------------------------------------------------------
(* The NGX runtime: one initialisation per process and device, every feature *)
(* released before the shutdown.                                             *)

SdkInit(s) == [s EXCEPT !.open = TRUE, !.misused = @ \/ s.open]
SdkCreate(s, f) == [s EXCEPT !.features = @ \cup {f}, !.misused = @ \/ ~ s.open]
SdkRelease(s, fs) ==
  [s EXCEPT !.features = @ \ fs, !.misused = @ \/ (s.features \cap fs # {} /\ ~ s.open)]
SdkShutdown(s) ==
  [s EXCEPT !.open = FALSE, !.misused = @ \/ ~ s.open \/ s.features # {}]

\* vkDeviceWaitIdle: what was submitted has been executed.
WaitIdle(ws) == {w \in ws : ~ w.submitted}

\* Commands that refer to an object that is being destroyed.
Orphaned(ws, c, k) ==
  {IF w.ctx = c /\ w.kind = k THEN [w EXCEPT !.live = FALSE] ELSE w : w \in ws}

\* Mutant of Dropped: the feature is released without waiting for the device.
DroppedAtOnce(ws, c, k) == Orphaned(ws, c, k)
\* A feature is released after the device has gone idle.
Dropped(ws, c, k) == Orphaned(WaitIdle(ws), c, k)

-------------------------------------------------------------------------------
(* Creation and destruction                                                  *)

Init ==
  /\ alive = {} /\ ngx = {} /\ registered = {} /\ work = {}
  /\ probe = [c \in Contexts |-> Nothing]
  /\ dlssFg = [c \in Contexts |-> "none"]
  /\ feature = [c \in Contexts |-> [k \in FeatureKinds |-> NoFeature]]
  /\ choice = [c \in Contexts |-> [s \in Stages |-> NONE]]
  /\ nvofg = [c \in Contexts |-> NoNvofg]
  /\ targets \in [Contexts -> Targets]
  /\ sdk = [open |-> FALSE, features |-> {}, misused |-> FALSE]
  /\ last = NoCall

\* ngxInit: whether NGX can be initialised on the device of the context.
NgxInit(p, s) == IF p.ngx THEN SdkInit(s) ELSE s

\* Mutant of FgOwnsInit: dlssFgInit initialises NGX although ngxInit has.
FgInitsAgain(p) == p.own
\* dlssFgInit initialises NGX itself only where ngxInit could not.
FgOwnsInit(p) == ~ p.ngx /\ p.own

\* What dlssFgInit leaves in the context.
DlssFgInit(p) == IF FgOwnsInit(p) THEN "owner" ELSE IF p.ngx THEN "guest" ELSE "none"

\* rfx_create: ngxInit, then dlssFgInit, then xessInit.
Create(c) == \E p \in Probes :
  LET afterNgx == NgxInit(p, sdk)
  IN /\ c \notin alive
     /\ alive' = alive \cup {c}
     /\ ngx' = IF p.ngx THEN ngx \cup {c} ELSE ngx
     /\ dlssFg' = [dlssFg EXCEPT ![c] = DlssFgInit(p)]
     /\ sdk' = IF FgOwnsInit(p) THEN SdkInit(afterNgx) ELSE afterNgx
     /\ probe' = [probe EXCEPT ![c] =
          [p EXCEPT !.sr = @ /\ p.ngx, !.rr = @ /\ p.ngx, !.fg = @ /\ (p.ngx \/ p.own)]]
     /\ last' = NoCall
     /\ UNCHANGED <<feature, choice, nvofg, registered, targets, work>>

\* The capabilities the context reports (rfx_query_capabilities).
Caps(c) ==
  QueryCapabilities(probe[c].ofa, probe[c].sr, probe[c].rr, probe[c].xess, probe[c].fg)

\* The application submits a command buffer before it records into the next one, and
\* records one call that may replace a feature into each.
BufferFree(c) == \A w \in work : w.ctx = c => w.submitted

\* Only the owner of the initialisation shuts NGX down.  The FG feature itself
\* is never created: rfx_record_frame_generation does not reach dlssFgRecord.
DlssFgShutdown(c, s) == IF dlssFg[c] = "owner" THEN SdkShutdown(s) ELSE s

NgxShutdown(c, s) ==
  IF c \in ngx THEN SdkShutdown(SdkRelease(s, {c} \X NgxKinds)) ELSE s

AfterDestroy(c) ==
  {IF w.ctx = c THEN [w EXCEPT !.live = FALSE] ELSE w : w \in WaitIdle(work)}

\* rfx_destroy: the FG shutdown comes before the NGX one, nvofg goes last.
Destroy(c) ==
  /\ c \in alive /\ BufferFree(c)
  /\ alive' = alive \ {c}
  /\ sdk' = NgxShutdown(c, DlssFgShutdown(c, sdk))
  /\ ngx' = ngx \ {c}
  /\ dlssFg' = [dlssFg EXCEPT ![c] = "none"]
  /\ feature' = [feature EXCEPT ![c] = [k \in FeatureKinds |-> NoFeature]]
  /\ nvofg' = [nvofg EXCEPT ![c] = NoNvofg]
  /\ registered' = registered \ {c}
  /\ work' = AfterDestroy(c)
  /\ probe' = [probe EXCEPT ![c] = Nothing]
  /\ choice' = [choice EXCEPT ![c] = [s \in Stages |-> NONE]]
  /\ last' = NoCall
  /\ UNCHANGED targets

-------------------------------------------------------------------------------
(* Commit                                                                    *)

NvofgIds == {"NVOFG", "SHADER_FG"}
\* Without optical flow hardware only the forced shader tier can be created.
TierOf(id) == IF id = "SHADER_FG" THEN "shader" ELSE "ofa"
Creatable(c, id) == id = "SHADER_FG" \/ probe[c].ofa

\* Mutant of KeepsNvofg: a context that exists already is kept.
KeepsExisting(c, id) == id \notin NvofgIds \/ nvofg[c] # NoNvofg
\* A selection without nvofg leaves the nvofg context alone.
KeepsNvofg(c, id) == id \notin NvofgIds

AfterRecreate(c) == IF nvofg[c] = NoNvofg THEN registered ELSE registered \ {c}

\* rfx_commit replaces the nvofg context: the old one is gone whether or not a
\* new one can be created.  The application may bring new images with it.
Replace(c, id, ok) ==
  /\ nvofg' = [nvofg EXCEPT ![c] =
       IF ok THEN [tier |-> TierOf(id), images |-> NoTargets] ELSE NoNvofg]
  /\ registered' = AfterRecreate(c)
  /\ work' = IF nvofg[c] = NoNvofg THEN work ELSE Dropped(work, c, "fg")
  /\ \E t \in Targets : targets' = [targets EXCEPT ![c] = t]

Commit(c) == \E sel \in Selections :
  /\ c \in alive
  /\ choice' = [choice EXCEPT ![c] = sel]
  /\ IF KeepsNvofg(c, sel["FG"])
     THEN UNCHANGED <<nvofg, registered, work, targets>>
     ELSE \/ Replace(c, sel["FG"], FALSE)
          \/ Creatable(c, sel["FG"]) /\ Replace(c, sel["FG"], TRUE)
  /\ last' = NoCall
  /\ UNCHANGED <<alive, probe, ngx, dlssFg, feature, sdk>>

-------------------------------------------------------------------------------
(* Record                                                                    *)

\* rfx_missing_inputs
Missing(c, s, provided) ==
  IF choice[c][s] = NONE THEN {} ELSE RequiredInputs(choice[c][s]) \ provided

\* The outcome of an upscaling or ray reconstruction call.
Reports(c, s, provided, result) ==
  last' = [ctx |-> c, stage |-> s, missing |-> Missing(c, s, provided),
           result |-> result, from |-> NoNvofg]

\* The call returns before it touches anything.
Refuses(c, s, provided, result) ==
  /\ Reports(c, s, provided, result)
  /\ UNCHANGED <<feature, sdk, work>>

\* The backend of a feature was there when the context was created: its NgxState,
\* or the XeSS context that xessInit could create.
Available(c, k) == IF k = "xess" THEN probe[c].xess ELSE c \in ngx

\* Mutant of NeededFor: ray reconstruction insists on an input it does not list.
NeededForMore(k) == {"depth", "motion"} \cup (IF k = "rr" THEN GBuffer \cup {"exposure"} ELSE {})
NeededFor(k) == {"depth", "motion"} \cup (IF k = "rr" THEN GBuffer ELSE {})

\* The sizes each backend compares before it uses what it has.
Fits(k, f, res) ==
  CASE k = "dlaa" -> f.in = res.in
    [] k = "rr" -> f.in = res.in /\ f.out = res.out
    [] k = "xess" -> f.out = res.out

\* A call that has what it needs: a feature that does not fit is released, one
\* that is missing is created, and the evaluation is recorded.
RecordWith(c, s, k, res, provided) ==
  LET old == feature[c][k]
      stale == old # NoFeature /\ ~ Fits(k, old, res)
      creates == old = NoFeature \/ stale
      ws == IF stale THEN Dropped(work, c, k) ELSE work
      released == IF stale /\ k \in NgxKinds THEN SdkRelease(sdk, {<<c, k>>}) ELSE sdk
      used == IF creates THEN res ELSE old
  IN \/ /\ creates                                     \* the creation fails
        /\ feature' = [feature EXCEPT ![c][k] = NoFeature]
        /\ sdk' = released
        /\ work' = ws
        /\ Reports(c, s, provided, "INTERNAL")
     \/ /\ feature' = [feature EXCEPT ![c][k] = used]
        /\ sdk' = IF creates /\ k \in NgxKinds THEN SdkCreate(released, <<c, k>>) ELSE released
        /\ work' = ws \cup {Command(c, k, FALSE, used = res)}
        /\ \E r \in {"OK", "INTERNAL"} : Reports(c, s, provided, r)

RecordFeature(c, s, k, res, provided) ==
  \/ ~ Available(c, k) /\ Refuses(c, s, provided, "UNSUPPORTED")
  \/ /\ Available(c, k) /\ ~ NeededFor(k) \subseteq provided
     /\ Refuses(c, s, provided, "INVALID_ARGUMENT")
  \/ /\ Available(c, k) /\ NeededFor(k) \subseteq provided
     /\ RecordWith(c, s, k, res, provided)

NgxRecordDLAA(c, res, provided) == RecordFeature(c, "UP", "dlaa", res, provided)
NgxRecordRR(c, res, provided) == RecordFeature(c, "RR", "rr", res, provided)
XessRecordUpscale(c, res, provided) == RecordFeature(c, "UP", "xess", res, provided)

\* RenderFX's own passes (native, temporal, FSR) create what they need once.
RecordOwn(c, provided) ==
  \/ Refuses(c, "UP", provided, "INTERNAL")
  \/ /\ work' = work \cup {Command(c, "own", FALSE, TRUE)}
     /\ Reports(c, "UP", provided, "OK")
     /\ UNCHANGED <<feature, sdk>>

OwnIds == {"TEMPORAL", "FSR", "NATIVE", NONE}

RecordUpscaling(c, res, provided) ==
  /\ c \in alive /\ BufferFree(c)
  /\ \/ choice[c]["UP"] \in {"DLAA", "DLSS_SR"} /\ NgxRecordDLAA(c, res, provided)
     \/ choice[c]["UP"] = "XESS" /\ XessRecordUpscale(c, res, provided)
     \/ choice[c]["UP"] \in OwnIds /\ RecordOwn(c, provided)
     \/ /\ choice[c]["UP"] \notin OwnIds \cup {"DLAA", "DLSS_SR", "XESS"}
        /\ Refuses(c, "UP", provided, "UNSUPPORTED")
  /\ UNCHANGED <<alive, probe, ngx, dlssFg, choice, nvofg, registered, targets>>

RecordRayReconstruction(c, res, provided) ==
  /\ c \in alive /\ BufferFree(c)
  /\ \/ choice[c]["RR"] = "DLSS_RR" /\ NgxRecordRR(c, res, provided)
     \/ choice[c]["RR"] = NONE /\ Refuses(c, "RR", provided, "OK")
     \/ choice[c]["RR"] \notin {"DLSS_RR", NONE} /\ Refuses(c, "RR", provided, "UNSUPPORTED")
  /\ UNCHANGED <<alive, probe, ngx, dlssFg, choice, nvofg, registered, targets>>

\* The first call on an nvofg context registers the application's images.
Registers(c) == c \notin registered

ReportsFrame(c, provided, result, from) ==
  last' = [ctx |-> c, stage |-> "FG", missing |-> Missing(c, "FG", provided),
           result |-> result, from |-> from]

\* The frame is generated and submitted by nvofg, or registering or recording it fails.
Generate(c, provided) ==
  LET on == IF Registers(c) THEN [nvofg[c] EXCEPT !.images = targets[c]] ELSE nvofg[c]
  IN \/ Registers(c) /\ ReportsFrame(c, provided, "INTERNAL", on) /\ UNCHANGED <<nvofg, registered, work>>
     \/ /\ nvofg' = [nvofg EXCEPT ![c] = on]
        /\ registered' = registered \cup {c}
        /\ \/ ReportsFrame(c, provided, "INTERNAL", on) /\ UNCHANGED work
           \/ /\ on.images # NoTargets
              /\ ReportsFrame(c, provided, "OK", on)
              /\ work' = work \cup {Command(c, "fg", TRUE, TRUE)}

RecordFrameGeneration(c, provided) ==
  /\ c \in alive
  /\ \/ /\ choice[c]["FG"] = "DLSS_FG"
        /\ ReportsFrame(c, provided, "UNSUPPORTED", NoNvofg) /\ UNCHANGED <<nvofg, registered, work>>
     \/ /\ choice[c]["FG"] # "DLSS_FG" /\ nvofg[c] = NoNvofg
        /\ ReportsFrame(c, provided, "NOT_REGISTERED", NoNvofg) /\ UNCHANGED <<nvofg, registered, work>>
     \/ choice[c]["FG"] # "DLSS_FG" /\ nvofg[c] # NoNvofg /\ Generate(c, provided)
  /\ UNCHANGED <<alive, probe, ngx, dlssFg, feature, choice, targets, sdk>>

\* The application submits what it has recorded; the device executes it.
Submit(c) ==
  /\ ~ BufferFree(c)
  /\ work' = {IF w.ctx = c THEN [w EXCEPT !.submitted = TRUE] ELSE w : w \in work}
  /\ last' = NoCall
  /\ UNCHANGED <<alive, probe, ngx, dlssFg, feature, choice, nvofg, registered, targets, sdk>>

Finish(w) ==
  /\ w.submitted
  /\ work' = work \ {w}
  /\ last' = NoCall
  /\ UNCHANGED <<alive, probe, ngx, dlssFg, feature, choice, nvofg, registered, targets, sdk>>

Next ==
  \/ \E c \in Contexts : Create(c) \/ Destroy(c) \/ Commit(c) \/ Submit(c)
  \/ \E c \in Contexts, res \in Resolutions, provided \in Inputs :
       RecordUpscaling(c, res, provided) \/ RecordRayReconstruction(c, res, provided)
  \/ \E c \in Contexts, provided \in Inputs : RecordFrameGeneration(c, provided)
  \/ \E w \in work : Finish(w)

Spec == Init /\ [][Next]_vars

-------------------------------------------------------------------------------
(* Properties                                                                *)

TypeOK ==
  /\ alive \subseteq Contexts /\ ngx \subseteq alive /\ registered \subseteq alive
  /\ probe \in [Contexts -> Probe]
  /\ dlssFg \in [Contexts -> {"none", "guest", "owner"}]
  /\ feature \in [Contexts -> [FeatureKinds -> Features]]
  /\ choice \in [Contexts -> Selection]
  /\ nvofg \in [Contexts -> [tier : {"ofa", "shader"}, images : Targets \cup {NoTargets}] \cup {NoNvofg}]
  /\ targets \in [Contexts -> Targets]
  /\ sdk \in [open : BOOLEAN, features : SUBSET (Contexts \X NgxKinds), misused : BOOLEAN]
  /\ work \subseteq Commands
  /\ last.result \in Results

\* NGX is initialised once, its features are released while it is open and
\* before it is shut down, and it is open exactly while the context that
\* initialised it exists - whichever of the two probes did.
SdkUsedWell ==
  /\ ~ sdk.misused
  /\ sdk.open <=> \E c \in alive : c \in ngx \/ dlssFg[c] = "owner"
  /\ sdk.features = {f \in Contexts \X NgxKinds : feature[f[1]][f[2]] # NoFeature}

\* No command that is still to be executed uses a feature, a pass or an nvofg
\* context that has been destroyed, and a ray reconstruction command uses a feature
\* that was made for the sizes it compares.
UsesLive == \A w \in work : w.live /\ (w.kind = "rr" => w.fits)

\* A frame generated while nvofg is the committed backend comes from the tier
\* that was committed, into the images the application uses since then.
GeneratesCommitted ==
  last.stage = "FG" /\ last.result = "OK" =>
    /\ last.from.images = targets[last.ctx]
    /\ choice[last.ctx]["FG"] \in NvofgIds =>
         last.from.tier = TierOf(choice[last.ctx]["FG"])

\* The committed selection is one the resolver can return for this context.
Resolved(c) ==
  /\ ComboValid(Caps(c), choice[c])
  /\ \A s \in Stages : choice[c][s] # NONE => findCaps(Caps(c), s, choice[c][s]).supported

\* rfx_missing_inputs names what a record call would refuse, and what the
\* context reports as supported its record calls accept.
RecordsAsPromised ==
  last.stage \in {"UP", "RR"} =>
    /\ last.result = "INVALID_ARGUMENT" => last.missing # {}
    /\ last.result = "UNSUPPORTED" => ~ Resolved(last.ctx)
===============================================================================
