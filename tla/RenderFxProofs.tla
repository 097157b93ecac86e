---------------------------- MODULE RenderFxProofs ----------------------------
(***************************************************************************)
(* What holds of RenderFx for every set of probe outcomes, selections,     *)
(* resolutions and inputs.  The types, UsesLive, GeneratesCommitted and    *)
(* RecordsAsPromised hold for any number of contexts, SdkUsedWell for one  *)
(* context at a time: the code coordinates the initialisation of NGX       *)
(* within a context only.                                                  *)
(***************************************************************************)
EXTENDS RenderFx, TLAPS

\* The shapes the proofs of this module rest on.
Shapes ==
  /\ feature \in [Contexts -> [FeatureKinds -> Features]]
  /\ nvofg \in [Contexts -> [tier : {"ofa", "shader"}, images : Targets \cup {NoTargets}] \cup {NoNvofg}]
  /\ choice \in [Contexts -> Selection]
  /\ targets \in [Contexts -> Targets]
  /\ work \subseteq Commands

\* Every outstanding command is sound, and nvofg has submitted its own.
Sound == UsesLive /\ \A w \in work : w.kind = "fg" => w.submitted

-------------------------------------------------------------------------------

LEMMA IdleEmpties ==
  ASSUME NEW c \in Contexts, NEW ws, NEW k,
         \A w \in ws : w.ctx = c /\ w.kind = k => w.submitted
  PROVE  Dropped(ws, c, k) = WaitIdle(ws)
BY DEF Dropped, Orphaned, WaitIdle

LEMMA CommandType ==
  ASSUME NEW c \in Contexts, NEW k \in Kinds, NEW submitted \in BOOLEAN, NEW fits \in BOOLEAN
  PROVE  Command(c, k, submitted, fits) \in Commands
BY DEF Command, Commands

LEMMA ShapesInit == Init => Shapes
BY RenderFxAssumption DEF Init, Shapes, Features, NoNvofg, Selection

LEMMA RecordShapes ==
  ASSUME Shapes, RenderFxAssumption,
         NEW c \in Contexts, NEW s, NEW k \in FeatureKinds, NEW res \in Resolutions,
         NEW provided, BufferFree(c), RecordWith(c, s, k, res, provided)
  PROVE  /\ feature' \in [Contexts -> [FeatureKinds -> Features]]
         /\ work' \subseteq Commands
<1> DEFINE old == feature[c][k]
           stale == old # NoFeature /\ ~ Fits(k, old, res)
           creates == old = NoFeature \/ stale
           ws == IF stale THEN Dropped(work, c, k) ELSE work
           used == IF creates THEN res ELSE old
<1>1. /\ \/ feature' = [feature EXCEPT ![c][k] = NoFeature]
         \/ feature' = [feature EXCEPT ![c][k] = used]
      /\ \/ work' = ws
         \/ work' = ws \cup {Command(c, k, FALSE, used = res)}
  BY DEF RecordWith
<1>2. used \in Features /\ NoFeature \in Features
  BY DEF Shapes, Features
<1>3. Dropped(work, c, k) = WaitIdle(work)
  BY IdleEmpties DEF BufferFree
<1>4. ws \subseteq work
  BY <1>3 DEF WaitIdle
<1> DEFINE new == Command(c, k, FALSE, used = res)
<1>5. new \in Commands
  <2>1. k \in Kinds /\ (used = res) \in BOOLEAN
    BY DEF Kinds
  <2> QED BY <2>1, CommandType
<1>6. work' = ws \/ work' = ws \cup {new}
  BY <1>1
<1> HIDE DEF old, stale, creates, ws, used, new
<1>7. \A f \in Features : [feature EXCEPT ![c][k] = f] \in [Contexts -> [FeatureKinds -> Features]]
  BY DEF Shapes
<1>8. feature' \in [Contexts -> [FeatureKinds -> Features]]
  BY <1>1, <1>2, <1>7
<1>9. work' \subseteq Commands
  BY <1>4, <1>5, <1>6 DEF Shapes
<1> QED BY <1>8, <1>9

\* A record call that goes through a feature, whichever way it ends.
LEMMA FeatureShapes ==
  ASSUME Shapes, RenderFxAssumption,
         NEW c \in Contexts, NEW s, NEW k \in FeatureKinds, NEW res \in Resolutions,
         NEW provided, BufferFree(c), RecordFeature(c, s, k, res, provided)
  PROVE  /\ feature' \in [Contexts -> [FeatureKinds -> Features]]
         /\ work' \subseteq Commands
<1>1. CASE RecordWith(c, s, k, res, provided)
  BY <1>1, RecordShapes
<1>2. CASE UNCHANGED <<feature, sdk, work>>
  BY <1>2 DEF Shapes
<1> QED BY <1>1, <1>2 DEF RecordFeature, Refuses

LEMMA UpscalingShapes ==
  ASSUME Shapes, RenderFxAssumption, NEW c \in Contexts, NEW res \in Resolutions,
         NEW provided, RecordUpscaling(c, res, provided)
  PROVE  Shapes'
<1>1. \/ RecordFeature(c, "UP", "dlaa", res, provided)
      \/ RecordFeature(c, "UP", "xess", res, provided)
      \/ UNCHANGED <<feature, work>>
      \/ /\ UNCHANGED feature
         /\ work' = work \cup {Command(c, "own", FALSE, TRUE)}
  BY DEF RecordUpscaling, NgxRecordDLAA, XessRecordUpscale, RecordOwn, Refuses
<1>2. BufferFree(c) /\ UNCHANGED <<choice, nvofg, targets>>
  BY DEF RecordUpscaling
<1>3. /\ feature' \in [Contexts -> [FeatureKinds -> Features]]
      /\ work' \subseteq Commands
  <2>1. CASE RecordFeature(c, "UP", "dlaa", res, provided)
    BY <1>2, <2>1, FeatureShapes DEF FeatureKinds, NgxKinds
  <2>2. CASE RecordFeature(c, "UP", "xess", res, provided)
    BY <1>2, <2>2, FeatureShapes DEF FeatureKinds
  <2>3. CASE UNCHANGED <<feature, work>>
    BY <2>3 DEF Shapes
  <2>4. CASE /\ UNCHANGED feature
             /\ work' = work \cup {Command(c, "own", FALSE, TRUE)}
    BY <2>4, CommandType DEF Shapes, Kinds
  <2> QED BY <1>1, <2>1, <2>2, <2>3, <2>4
<1> QED BY <1>2, <1>3 DEF Shapes

LEMMA RayReconstructionShapes ==
  ASSUME Shapes, RenderFxAssumption, NEW c \in Contexts, NEW res \in Resolutions,
         NEW provided, RecordRayReconstruction(c, res, provided)
  PROVE  Shapes'
<1>1. BufferFree(c) /\ UNCHANGED <<choice, nvofg, targets>>
  BY DEF RecordRayReconstruction
<1>2. CASE RecordFeature(c, "RR", "rr", res, provided)
  BY <1>1, <1>2, FeatureShapes DEF FeatureKinds, NgxKinds, Shapes
<1>3. CASE UNCHANGED <<feature, work>>
  BY <1>1, <1>3 DEF Shapes
<1> QED BY <1>2, <1>3 DEF RecordRayReconstruction, NgxRecordRR, Refuses

LEMMA GenerationShapes ==
  ASSUME Shapes, NEW c \in Contexts, NEW provided, RecordFrameGeneration(c, provided)
  PROVE  Shapes'
<1>1. UNCHANGED <<feature, choice, targets>>
  BY DEF RecordFrameGeneration
<1>2. CASE UNCHANGED <<nvofg, registered, work>>
  BY <1>1, <1>2 DEF Shapes
<1>3. CASE nvofg[c] # NoNvofg /\ Generate(c, provided)
  <2> DEFINE on == IF Registers(c) THEN [nvofg[c] EXCEPT !.images = targets[c]] ELSE nvofg[c]
  <2>1. on \in [tier : {"ofa", "shader"}, images : Targets \cup {NoTargets}]
    BY <1>3 DEF Shapes
  <2>2. \/ UNCHANGED nvofg
        \/ nvofg' = [nvofg EXCEPT ![c] = on]
    BY <1>3 DEF Generate
  <2>3. work' \subseteq Commands
    <3>1. \/ UNCHANGED work
          \/ work' = work \cup {Command(c, "fg", TRUE, TRUE)}
      BY <1>3 DEF Generate
    <3>2. Command(c, "fg", TRUE, TRUE) \in Commands
      BY CommandType DEF Kinds
    <3> QED BY <3>1, <3>2 DEF Shapes
  <2> HIDE DEF on
  <2> QED BY <1>1, <2>1, <2>2, <2>3 DEF Shapes
<1> QED BY <1>2, <1>3 DEF RecordFrameGeneration

LEMMA CommitShapes ==
  ASSUME Shapes, RenderFxAssumption, NEW c \in Contexts, Commit(c)
  PROVE  Shapes'
<1>1. UNCHANGED feature
  BY DEF Commit
<1>2. choice' \in [Contexts -> Selection]
  BY DEF Commit, RenderFxAssumption, Shapes
<1>3. /\ nvofg' \in [Contexts -> [tier : {"ofa", "shader"}, images : Targets \cup {NoTargets}] \cup {NoNvofg}]
      /\ targets' \in [Contexts -> Targets]
      /\ work' \subseteq Commands
  <2>1. CASE UNCHANGED <<nvofg, registered, work, targets>>
    BY <2>1 DEF Shapes
  <2>2. ASSUME NEW id, NEW ok \in BOOLEAN, Replace(c, id, ok)
        PROVE  <1>3!:
    <3>1. Dropped(work, c, "fg") \subseteq Commands
      BY DEF Shapes, Dropped, Orphaned, WaitIdle, Commands
    <3>2. [tier |-> TierOf(id), images |-> NoTargets] \in [tier : {"ofa", "shader"}, images : Targets \cup {NoTargets}]
      BY DEF TierOf
    <3> QED BY <2>2, <3>1, <3>2 DEF Replace, Shapes
  <2> QED BY <2>1, <2>2 DEF Commit
<1> QED BY <1>1, <1>2, <1>3 DEF Shapes

LEMMA ShapesNext == Shapes /\ [Next]_vars => Shapes'
<1> SUFFICES ASSUME Shapes, [Next]_vars PROVE Shapes'
  OBVIOUS
<1> USE RenderFxAssumption
<1>1. ASSUME NEW c \in Contexts, Create(c) PROVE Shapes'
  BY <1>1 DEF Create, Shapes
<1>2. ASSUME NEW c \in Contexts, Destroy(c) PROVE Shapes'
  <2>1. AfterDestroy(c) \subseteq Commands
    BY DEF Shapes, AfterDestroy, WaitIdle, Commands
  <2>2. [k \in FeatureKinds |-> NoFeature] \in [FeatureKinds -> Features]
    BY DEF Features
  <2>3. [s \in Stages |-> NONE] \in Selection
    BY DEF Selection
  <2> QED BY <1>2, <2>1, <2>2, <2>3 DEF Destroy, Shapes
<1>3. ASSUME NEW c \in Contexts, Submit(c) PROVE Shapes'
  BY <1>3 DEF Submit, Shapes, Commands
<1>4. ASSUME NEW w \in work, Finish(w) PROVE Shapes'
  BY <1>4 DEF Finish, Shapes
<1>5. CASE UNCHANGED vars
  BY <1>5 DEF vars, Shapes
<1> QED
  BY <1>1, <1>2, <1>3, <1>4, <1>5, CommitShapes, UpscalingShapes, RayReconstructionShapes,
     GenerationShapes DEF Next

-------------------------------------------------------------------------------
(* Commands never outlive what they use                                      *)

\* Sound as a condition on a set of commands.
SoundCommands(ws) ==
  \A w \in ws : w.live /\ (w.kind = "rr" => w.fits) /\ (w.kind = "fg" => w.submitted)

LEMMA SoundIsSound == (Sound <=> SoundCommands(work)) /\ (Sound' <=> SoundCommands(work'))
BY DEF Sound, UsesLive, SoundCommands

LEMMA RecordSound ==
  ASSUME Shapes, RenderFxAssumption, Sound,
         NEW c \in Contexts, NEW s, NEW k \in FeatureKinds, NEW res \in Resolutions,
         NEW provided, BufferFree(c), RecordWith(c, s, k, res, provided)
  PROVE  Sound'
<1> DEFINE old == feature[c][k]
           stale == old # NoFeature /\ ~ Fits(k, old, res)
           creates == old = NoFeature \/ stale
           ws == IF stale THEN Dropped(work, c, k) ELSE work
           used == IF creates THEN res ELSE old
           new == Command(c, k, FALSE, used = res)
<1>1. work' = ws \/ work' = ws \cup {new}
  BY DEF RecordWith
<1>2. Dropped(work, c, k) = WaitIdle(work)
  BY IdleEmpties DEF BufferFree
<1>3. ws \subseteq work
  BY <1>2 DEF WaitIdle
<1>4. k = "rr" => used = res
  <2>1. SUFFICES ASSUME k = "rr", old # NoFeature, Fits(k, old, res)
                 PROVE  old = res
    OBVIOUS
  <2>2. old \in [in : Extents, out : Extents] /\ res \in [in : Extents, out : Extents]
    BY <2>1, RenderFxAssumption DEF Shapes, Features
  <2>3. old.in = res.in /\ old.out = res.out
    BY <2>1 DEF Fits
  <2> QED BY <2>2, <2>3
<1>5. new.live /\ (new.kind = "rr" => new.fits) /\ new.kind # "fg"
  BY <1>4 DEF Command, FeatureKinds, NgxKinds
<1> HIDE DEF old, stale, creates, ws, used, new
<1> QED
  BY <1>1, <1>3, <1>5, SoundIsSound DEF SoundCommands

LEMMA FeatureSound ==
  ASSUME Shapes, RenderFxAssumption, Sound,
         NEW c \in Contexts, NEW s, NEW k \in FeatureKinds, NEW res \in Resolutions,
         NEW provided, BufferFree(c), RecordFeature(c, s, k, res, provided)
  PROVE  Sound'
<1>1. CASE RecordWith(c, s, k, res, provided)
  BY <1>1, RecordSound
<1>2. CASE UNCHANGED <<feature, sdk, work>>
  BY <1>2 DEF Sound, UsesLive
<1> QED BY <1>1, <1>2 DEF RecordFeature, Refuses

LEMMA SoundNext == Shapes /\ Sound /\ [Next]_vars => Sound'
<1> SUFFICES ASSUME Shapes, Sound, [Next]_vars PROVE Sound'
  OBVIOUS
<1> USE RenderFxAssumption
<1>0. CASE UNCHANGED work
  BY <1>0 DEF Sound, UsesLive
<1>1. ASSUME NEW c \in Contexts, Create(c) PROVE UNCHANGED work
  BY <1>1 DEF Create
<1>2. ASSUME NEW c \in Contexts, Destroy(c) PROVE Sound'
  <2>1. \A w \in work : w.ctx = c => w.submitted
    BY <1>2 DEF Destroy, BufferFree
  <2>2. AfterDestroy(c) = WaitIdle(work)
    BY <2>1 DEF AfterDestroy, WaitIdle
  <2> QED BY <1>2, <2>2 DEF Destroy, Sound, UsesLive, WaitIdle
<1>3. ASSUME NEW c \in Contexts, Commit(c) PROVE Sound'
  <2>1. Dropped(work, c, "fg") = WaitIdle(work)
    BY IdleEmpties DEF Sound
  <2>2. work' = work \/ work' = Dropped(work, c, "fg")
    BY <1>3 DEF Commit, Replace
  <2> QED BY <2>1, <2>2 DEF Sound, UsesLive, WaitIdle
<1>4. ASSUME NEW c \in Contexts, Submit(c) PROVE Sound'
  BY <1>4 DEF Submit, Sound, UsesLive, Shapes, Commands
<1>5. ASSUME NEW w \in work, Finish(w) PROVE Sound'
  BY <1>5 DEF Finish, Sound, UsesLive
<1>6. ASSUME NEW c \in Contexts, NEW res \in Resolutions, NEW provided, RecordUpscaling(c, res, provided)
      PROVE  Sound'
  <2>1. \/ RecordFeature(c, "UP", "dlaa", res, provided)
        \/ RecordFeature(c, "UP", "xess", res, provided)
        \/ UNCHANGED work
        \/ work' = work \cup {Command(c, "own", FALSE, TRUE)}
    BY <1>6 DEF RecordUpscaling, NgxRecordDLAA, XessRecordUpscale, RecordOwn, Refuses
  <2>2. BufferFree(c)
    BY <1>6 DEF RecordUpscaling
  <2>3. CASE RecordFeature(c, "UP", "dlaa", res, provided)
    BY <2>2, <2>3, FeatureSound DEF FeatureKinds, NgxKinds
  <2>4. CASE RecordFeature(c, "UP", "xess", res, provided)
    BY <2>2, <2>4, FeatureSound DEF FeatureKinds
  <2>5. CASE work' = work \cup {Command(c, "own", FALSE, TRUE)}
    BY <2>5 DEF Sound, UsesLive, Command
  <2> QED BY <1>0, <2>1, <2>3, <2>4, <2>5
<1>7. ASSUME NEW c \in Contexts, NEW res \in Resolutions, NEW provided, RecordRayReconstruction(c, res, provided)
      PROVE  Sound'
  <2>1. RecordFeature(c, "RR", "rr", res, provided) \/ UNCHANGED work
    BY <1>7 DEF RecordRayReconstruction, NgxRecordRR, Refuses
  <2>2. BufferFree(c)
    BY <1>7 DEF RecordRayReconstruction
  <2> QED BY <1>0, <2>1, <2>2, FeatureSound DEF FeatureKinds, NgxKinds
<1>8. ASSUME NEW c \in Contexts, NEW provided, RecordFrameGeneration(c, provided)
      PROVE  Sound'
  <2>1. UNCHANGED work \/ work' = work \cup {Command(c, "fg", TRUE, TRUE)}
    BY <1>8 DEF RecordFrameGeneration, Generate
  <2> QED BY <1>0, <2>1 DEF Sound, UsesLive, Command
<1>9. CASE UNCHANGED vars
  BY <1>9, <1>0 DEF vars
<1> QED
  BY <1>0, <1>1, <1>2, <1>3, <1>4, <1>5, <1>6, <1>7, <1>8, <1>9 DEF Next

\* Every command that is still to be executed uses a feature, a pass or an
\* nvofg context that exists, and ray reconstruction one of its resolution:
\* each release waits for the device, and a context has one buffer unsubmitted.
THEOREM UsesLiveCorrect == Spec => []UsesLive
<1>1. Init => Shapes /\ Sound
  BY ShapesInit DEF Init, Sound, UsesLive
<1>2. Shapes /\ Sound /\ [Next]_vars => (Shapes /\ Sound)'
  BY ShapesNext, SoundNext
<1>3. Sound => UsesLive
  BY DEF Sound
<1> QED BY <1>1, <1>2, <1>3, PTL DEF Spec

-------------------------------------------------------------------------------
(* Frames come from the committed tier                                       *)

\* Where nvofg is committed its context has that tier, and `registered' is
\* true only of the images the application uses now.
Committed ==
  /\ \A c \in Contexts : nvofg[c] # NoNvofg /\ choice[c]["FG"] \in NvofgIds =>
       nvofg[c].tier = TierOf(choice[c]["FG"])
  /\ \A c \in Contexts : c \in registered => nvofg[c].images = targets[c]
  /\ GeneratesCommitted

\* A step that reports no generated frame establishes the last conjunct.
LEMMA NoFrame ==
  ASSUME last'.stage # "FG" \/ last'.result # "OK"
  PROVE  GeneratesCommitted'
BY DEF GeneratesCommitted

LEMMA FeatureReports ==
  ASSUME NEW c, NEW s, NEW k, NEW res, NEW provided, RecordFeature(c, s, k, res, provided)
  PROVE  last'.stage = s
<1>1. ASSUME RecordWith(c, s, k, res, provided) PROVE last'.stage = s
  <2>1. \E r : Reports(c, s, provided, r)
    BY <1>1 DEF RecordWith
  <2> QED BY <2>1 DEF Reports
<1> QED BY <1>1 DEF RecordFeature, Refuses, Reports

LEMMA FrameReports ==
  ASSUME NEW c, NEW provided, NEW result, NEW from, ReportsFrame(c, provided, result, from)
  PROVE  /\ last'.ctx = c /\ last'.stage = "FG"
         /\ last'.result = result /\ last'.from = from
BY DEF ReportsFrame

LEMMA CommitCommitted ==
  ASSUME Shapes, RenderFxAssumption, Committed, NEW c \in Contexts, Commit(c)
  PROVE  Committed'
<1>1. PICK sel \in Selections :
        /\ choice' = [choice EXCEPT ![c] = sel]
        /\ IF KeepsNvofg(c, sel["FG"])
           THEN UNCHANGED <<nvofg, registered, work, targets>>
           ELSE \E ok \in BOOLEAN : Replace(c, sel["FG"], ok)
        /\ last' = NoCall
  BY DEF Commit
<1>2. GeneratesCommitted'
  BY <1>1, NoFrame DEF NoCall, NONE
<1>3. \A d \in Contexts : choice'[d] = IF d = c THEN sel ELSE choice[d]
  BY <1>1 DEF Shapes
<1>4. CASE KeepsNvofg(c, sel["FG"])
  BY <1>1, <1>2, <1>3, <1>4 DEF Committed, KeepsNvofg
<1>5. ASSUME NEW ok \in BOOLEAN, Replace(c, sel["FG"], ok)
      PROVE  Committed'
  <2> DEFINE new == IF ok THEN [tier |-> TierOf(sel["FG"]), images |-> NoTargets] ELSE NoNvofg
  <2>1. \A d \in Contexts : nvofg'[d] = IF d = c THEN new ELSE nvofg[d]
    BY <1>5 DEF Replace, Shapes
  <2>2. \A d \in Contexts : d # c => targets'[d] = targets[d]
    BY <1>5 DEF Replace, Shapes
  <2>3. registered' \subseteq registered /\ c \notin registered'
    <3>1. registered' = IF nvofg[c] = NoNvofg THEN registered ELSE registered \ {c}
      BY <1>5 DEF Replace, AfterRecreate
    <3>2. nvofg[c] = NoNvofg => c \notin registered
      BY RenderFxAssumption DEF Committed, Shapes, NoNvofg
    <3> QED BY <3>1, <3>2
  <2>4. \A d \in Contexts : d \in registered' => nvofg'[d].images = targets'[d]
    BY <2>1, <2>2, <2>3 DEF Committed
  <2>5. new # NoNvofg => new.tier = TierOf(sel["FG"])
    OBVIOUS
  <2> HIDE DEF new
  <2>6. \A d \in Contexts : nvofg'[d] # NoNvofg /\ choice'[d]["FG"] \in NvofgIds =>
          nvofg'[d].tier = TierOf(choice'[d]["FG"])
    BY <1>3, <2>1, <2>5 DEF Committed
  <2> QED BY <1>2, <2>4, <2>6 DEF Committed
<1> QED BY <1>1, <1>4, <1>5

LEMMA GenerationCommitted ==
  ASSUME Shapes, Committed, NEW c \in Contexts, NEW provided, RecordFrameGeneration(c, provided)
  PROVE  Committed'
<1>1. UNCHANGED <<choice, targets>>
  BY DEF RecordFrameGeneration
<1>2. CASE /\ last'.result # "OK"
           /\ UNCHANGED <<nvofg, registered>>
  BY <1>1, <1>2, NoFrame DEF Committed
<1>3. CASE nvofg[c] # NoNvofg /\ Generate(c, provided)
  <2> DEFINE on == IF Registers(c) THEN [nvofg[c] EXCEPT !.images = targets[c]] ELSE nvofg[c]
  <2>1. nvofg[c] \in [tier : {"ofa", "shader"}, images : Targets \cup {NoTargets}]
    BY <1>3 DEF Shapes
  <2>2. on.tier = nvofg[c].tier /\ on.images = targets[c]
    BY <2>1 DEF Registers, Committed
  <2>3. \/ last'.result # "OK" /\ UNCHANGED <<nvofg, registered>>
        \/ /\ nvofg' = [nvofg EXCEPT ![c] = on]
           /\ registered' = registered \cup {c}
           /\ last'.result # "OK" \/ (last'.ctx = c /\ last'.from = on)
    <3>1. \/ ReportsFrame(c, provided, "INTERNAL", on) /\ UNCHANGED <<nvofg, registered, work>>
          \/ /\ nvofg' = [nvofg EXCEPT ![c] = on]
             /\ registered' = registered \cup {c}
             /\ ReportsFrame(c, provided, "INTERNAL", on) \/ ReportsFrame(c, provided, "OK", on)
      BY <1>3 DEF Generate
    <3> HIDE DEF on
    <3>2. ReportsFrame(c, provided, "INTERNAL", on) => last'.result # "OK"
      BY FrameReports
    <3>3. ReportsFrame(c, provided, "OK", on) => last'.ctx = c /\ last'.from = on
      BY FrameReports
    <3> QED BY <3>1, <3>2, <3>3
  <2> HIDE DEF on
  <2>4. CASE last'.result # "OK" /\ UNCHANGED <<nvofg, registered>>
    BY <1>2, <2>4
  <2>5. CASE /\ nvofg' = [nvofg EXCEPT ![c] = on]
             /\ registered' = registered \cup {c}
             /\ last'.result # "OK" \/ (last'.ctx = c /\ last'.from = on)
    <3>1. \A d \in Contexts : nvofg'[d] = IF d = c THEN on ELSE nvofg[d]
      BY <2>5 DEF Shapes
    <3>2. GeneratesCommitted'
      BY <1>1, <1>3, <2>2, <2>5 DEF GeneratesCommitted, Committed
    <3>3. \A d \in Contexts : d \in registered' => nvofg'[d].images = targets'[d]
      BY <1>1, <2>2, <2>5, <3>1 DEF Committed
    <3>4. \A d \in Contexts : nvofg'[d] # NoNvofg /\ choice'[d]["FG"] \in NvofgIds =>
            nvofg'[d].tier = TierOf(choice'[d]["FG"])
      BY <1>1, <1>3, <2>2, <3>1 DEF Committed
    <3> QED BY <3>2, <3>3, <3>4 DEF Committed
  <2> QED BY <2>3, <2>4, <2>5
<1> QED BY <1>2, <1>3 DEF RecordFrameGeneration, ReportsFrame

LEMMA CommittedNext == Shapes /\ Committed /\ [Next]_vars => Committed'
<1> SUFFICES ASSUME Shapes, Committed, [Next]_vars PROVE Committed'
  OBVIOUS
<1> USE RenderFxAssumption
<1>0. CASE /\ UNCHANGED <<nvofg, choice, registered, targets>>
           /\ last'.stage # "FG" \/ last' = last
  BY <1>0, NoFrame DEF Committed, GeneratesCommitted
<1>1. ASSUME NEW c \in Contexts, Create(c) PROVE Committed'
  BY <1>0, <1>1 DEF Create, NoCall, NONE
<1>2. ASSUME NEW c \in Contexts, Destroy(c) PROVE Committed'
  <2>1. /\ nvofg'[c] = NoNvofg
        /\ \A d \in Contexts : d # c => nvofg'[d] = nvofg[d] /\ choice'[d] = choice[d]
    BY <1>2 DEF Destroy, Shapes
  <2>2. registered' = registered \ {c} /\ targets' = targets /\ last' = NoCall
    BY <1>2 DEF Destroy
  <2>3. GeneratesCommitted'
    BY <2>2, NoFrame DEF NoCall, NONE
  <2>4. \A d \in Contexts : d \in registered' => nvofg'[d].images = targets'[d]
    BY <2>1, <2>2 DEF Committed
  <2>5. \A d \in Contexts : nvofg'[d] # NoNvofg /\ choice'[d]["FG"] \in NvofgIds =>
          nvofg'[d].tier = TierOf(choice'[d]["FG"])
    BY <2>1 DEF Committed
  <2> QED BY <2>3, <2>4, <2>5 DEF Committed
<1>3. ASSUME NEW c \in Contexts, Submit(c) PROVE Committed'
  BY <1>0, <1>3 DEF Submit, NoCall, NONE
<1>4. ASSUME NEW w \in work, Finish(w) PROVE Committed'
  BY <1>0, <1>4 DEF Finish, NoCall, NONE
<1>5. ASSUME NEW c \in Contexts, NEW res \in Resolutions, NEW provided, RecordUpscaling(c, res, provided)
      PROVE  Committed'
  <2>1. last'.stage = "UP"
    <3>1. \/ \E k : RecordFeature(c, "UP", k, res, provided)
          \/ \E r : Reports(c, "UP", provided, r)
      BY <1>5 DEF RecordUpscaling, NgxRecordDLAA, XessRecordUpscale, RecordOwn, Refuses
    <3> QED BY <3>1, FeatureReports DEF Reports
  <2> QED BY <1>0, <1>5, <2>1 DEF RecordUpscaling
<1>6. ASSUME NEW c \in Contexts, NEW res \in Resolutions, NEW provided, RecordRayReconstruction(c, res, provided)
      PROVE  Committed'
  <2>1. last'.stage = "RR"
    BY <1>6, FeatureReports DEF RecordRayReconstruction, NgxRecordRR, Refuses, Reports
  <2> QED BY <1>0, <1>6, <2>1 DEF RecordRayReconstruction
<1>7. CASE UNCHANGED vars
  BY <1>0, <1>7 DEF vars
<1> QED
  BY <1>1, <1>2, <1>3, <1>4, <1>5, <1>6, <1>7, CommitCommitted, GenerationCommitted DEF Next

\* While nvofg is the committed backend a generated frame comes from its tier
\* and goes into the application's images of now, failed commits and failed
\* registrations included.
THEOREM GeneratesCommittedCorrect == Spec => []GeneratesCommitted
<1>1. Init => Shapes /\ Committed
  BY ShapesInit DEF Init, Committed, GeneratesCommitted, NoCall, NONE, NoNvofg
<1>2. Shapes /\ Committed /\ [Next]_vars => (Shapes /\ Committed)'
  BY ShapesNext, CommittedNext
<1>3. Committed => GeneratesCommitted
  BY DEF Committed
<1> QED BY <1>1, <1>2, <1>3, PTL DEF Spec

-------------------------------------------------------------------------------
(* The NGX runtime                                                           *)

\* What a context's own variables say of its use of NGX.
Owned ==
  /\ alive \subseteq Contexts /\ ngx \subseteq alive
  /\ dlssFg \in [Contexts -> {"none", "guest", "owner"}]
  /\ \A c \in Contexts : dlssFg[c] = "owner" => c \in alive /\ c \notin ngx
  /\ \A c \in Contexts, k \in NgxKinds : feature[c][k] # NoFeature => c \in ngx
  /\ sdk \in [open : BOOLEAN, features : SUBSET (Contexts \X NgxKinds), misused : BOOLEAN]
  /\ SdkUsedWell

\* A state of the runtime.
SdkShape(s) ==
  s \in [open : BOOLEAN, features : SUBSET (Contexts \X NgxKinds), misused : BOOLEAN]

LEMMA Releases ==
  ASSUME NEW s, SdkShape(s), s.open, ~ s.misused, NEW fs
  PROVE  /\ SdkShape(SdkRelease(s, fs))
         /\ SdkRelease(s, fs).open /\ ~ SdkRelease(s, fs).misused
         /\ SdkRelease(s, fs).features = s.features \ fs
BY DEF SdkShape, SdkRelease

LEMMA Creates ==
  ASSUME NEW s, SdkShape(s), s.open, ~ s.misused, NEW f \in Contexts \X NgxKinds
  PROVE  /\ SdkShape(SdkCreate(s, f))
         /\ SdkCreate(s, f).open /\ ~ SdkCreate(s, f).misused
         /\ SdkCreate(s, f).features = s.features \cup {f}
BY DEF SdkShape, SdkCreate

LEMMA RecordOwned ==
  ASSUME Shapes, RenderFxAssumption, Owned, NEW c \in alive, NEW s, NEW k \in FeatureKinds,
         NEW res \in Resolutions, NEW provided, Available(c, k),
         RecordWith(c, s, k, res, provided), UNCHANGED <<alive, ngx, dlssFg>>
  PROVE  Owned'
<1> DEFINE old == feature[c][k]
           stale == old # NoFeature /\ ~ Fits(k, old, res)
           creates == old = NoFeature \/ stale
           released == IF stale /\ k \in NgxKinds THEN SdkRelease(sdk, {<<c, k>>}) ELSE sdk
           used == IF creates THEN res ELSE old
<1>0. c \in Contexts
  BY DEF Owned
<1>1. PICK f : /\ feature' = [feature EXCEPT ![c][k] = f]
               /\ \/ creates /\ f = NoFeature /\ sdk' = released
                  \/ creates /\ f = res /\ sdk' = IF k \in NgxKinds THEN SdkCreate(released, <<c, k>>) ELSE released
                  \/ ~ creates /\ f = old /\ sdk' = released
  <2>1. \/ creates /\ feature' = [feature EXCEPT ![c][k] = NoFeature] /\ sdk' = released
        \/ /\ feature' = [feature EXCEPT ![c][k] = used]
           /\ sdk' = IF creates /\ k \in NgxKinds THEN SdkCreate(released, <<c, k>>) ELSE released
    BY DEF RecordWith
  <2> HIDE DEF old, stale, released
  <2> QED BY <2>1
<1>2. \A d \in Contexts, j \in NgxKinds :
        feature'[d][j] = (IF d = c /\ j = k THEN f ELSE feature[d][j])
  BY <1>0, <1>1 DEF Shapes, FeatureKinds
<1>3. res # NoFeature
  BY RenderFxAssumption DEF NoFeature
<1>4. CASE k \notin NgxKinds
  <2>1. sdk' = sdk
    BY <1>1, <1>4
  <2>2. \A d \in Contexts, j \in NgxKinds : feature'[d][j] = feature[d][j]
    BY <1>2, <1>4
  <2> QED BY <2>1, <2>2 DEF Owned, SdkUsedWell
<1>5. CASE k \in NgxKinds
  <2> DEFINE x == <<c, k>>
  <2>1. c \in ngx /\ sdk.open /\ ~ sdk.misused
    BY <1>5 DEF Available, Owned, SdkUsedWell, NgxKinds
  <2>2. x \in Contexts \X NgxKinds /\ (x \in sdk.features <=> old # NoFeature)
    BY <1>0, <1>5 DEF Owned, SdkUsedWell
  <2>3. SdkShape(sdk)
    BY DEF Owned, SdkShape
  <2>4. released = IF stale THEN SdkRelease(sdk, {x}) ELSE sdk
    BY <1>5
  <2>5. sdk' = IF creates /\ f = res THEN SdkCreate(released, x) ELSE released
    BY <1>1, <1>3, <1>5
  <2>6. stale => old # NoFeature
    OBVIOUS
  <2>7. old = NoFeature \/ stale <=> creates
    OBVIOUS
  <2>8. \/ creates /\ f = NoFeature
        \/ creates /\ f = res
        \/ ~ creates /\ f = old
    BY <1>1
  <2> HIDE DEF old, stale, creates, released, used, x
  <2>9. /\ SdkShape(released) /\ released.open /\ ~ released.misused
        /\ released.features = IF stale THEN sdk.features \ {x} ELSE sdk.features
    BY <2>1, <2>2, <2>3, <2>4, Releases
  <2>10. /\ SdkShape(sdk') /\ sdk'.open /\ ~ sdk'.misused
         /\ sdk'.features = IF creates /\ f = res THEN released.features \cup {x} ELSE released.features
    BY <2>2, <2>5, <2>9, Creates
  <2>11. sdk'.features = (sdk.features \ {x}) \cup (IF f = NoFeature THEN {} ELSE {x})
    BY <1>3, <2>2, <2>6, <2>7, <2>8, <2>9, <2>10
  <2>12. sdk'.features = {h \in Contexts \X NgxKinds : feature'[h[1]][h[2]] # NoFeature}
    <3>1. ASSUME NEW d \in Contexts, NEW j \in NgxKinds
          PROVE  <<d, j>> \in sdk'.features <=> feature'[d][j] # NoFeature
      <4>1. <<d, j>> \in sdk.features <=> feature[d][j] # NoFeature
        BY DEF Owned, SdkUsedWell
      <4> QED BY <1>2, <2>11, <4>1 DEF x
    <3>2. sdk'.features \subseteq Contexts \X NgxKinds
      BY <2>10 DEF SdkShape
    <3> QED BY <3>1, <3>2
  <2>13. \A d \in Contexts, j \in NgxKinds : feature'[d][j] # NoFeature => d \in ngx'
    BY <1>2, <2>1 DEF Owned
  <2>14. sdk'.open <=> \E d \in alive' : d \in ngx' \/ dlssFg'[d] = "owner"
    BY <2>1, <2>10
  <2> QED BY <2>10, <2>12, <2>13, <2>14 DEF Owned, SdkUsedWell, SdkShape
<1> QED BY <1>4, <1>5

LEMMA FeatureOwned ==
  ASSUME Shapes, RenderFxAssumption, Owned, NEW c \in alive, NEW s, NEW k \in FeatureKinds,
         NEW res \in Resolutions, NEW provided,
         RecordFeature(c, s, k, res, provided), UNCHANGED <<alive, ngx, dlssFg>>
  PROVE  Owned'
<1>1. CASE Available(c, k) /\ RecordWith(c, s, k, res, provided)
  BY <1>1, RecordOwned
<1>2. CASE UNCHANGED <<feature, sdk, work>>
  BY <1>2 DEF Owned, SdkUsedWell
<1> QED BY <1>1, <1>2 DEF RecordFeature, Refuses

LEMMA CreateOwned ==
  ASSUME Shapes, Owned, RenderFxAssumption, \A x, y \in Contexts : x = y,
         NEW c \in Contexts, Create(c)
  PROVE  Owned'
<1>1. PICK p \in Probe :
        /\ alive' = alive \cup {c}
        /\ ngx' = IF p.ngx THEN ngx \cup {c} ELSE ngx
        /\ dlssFg' = [dlssFg EXCEPT ![c] = DlssFgInit(p)]
        /\ sdk' = IF FgOwnsInit(p) THEN SdkInit(IF p.ngx THEN SdkInit(sdk) ELSE sdk)
                                   ELSE IF p.ngx THEN SdkInit(sdk) ELSE sdk
        /\ feature' = feature
  BY RenderFxAssumption DEF Create, NgxInit
<1>2. alive = {} /\ ngx = {} /\ c \notin alive
  BY DEF Create, Owned
<1>3. /\ ~ sdk.open /\ ~ sdk.misused /\ SdkShape(sdk) /\ sdk.features = {}
      /\ \A d \in Contexts, k \in NgxKinds : feature[d][k] = NoFeature
  <2>1. \A d \in Contexts, k \in NgxKinds : feature[d][k] = NoFeature
    BY <1>2 DEF Owned
  <2> QED BY <1>2, <2>1 DEF Owned, SdkUsedWell, SdkShape
<1>4. dlssFg'[c] = DlssFgInit(p) /\ dlssFg' \in [Contexts -> {"none", "guest", "owner"}]
  BY <1>1 DEF Owned, DlssFgInit
<1>5. CASE p.ngx
  <2>1. sdk' = SdkInit(sdk) /\ ngx' = {c} /\ dlssFg'[c] = "guest"
    BY <1>1, <1>2, <1>4, <1>5 DEF FgOwnsInit, DlssFgInit
  <2>2. SdkShape(sdk') /\ sdk'.open /\ ~ sdk'.misused /\ sdk'.features = {}
    BY <1>3, <2>1 DEF SdkInit, SdkShape
  <2> QED BY <1>1, <1>2, <1>3, <1>4, <2>1, <2>2 DEF Owned, SdkUsedWell, SdkShape
<1>6. CASE ~ p.ngx /\ p.own
  <2>1. sdk' = SdkInit(sdk) /\ ngx' = {} /\ dlssFg'[c] = "owner"
    BY <1>1, <1>2, <1>4, <1>6 DEF FgOwnsInit, DlssFgInit
  <2>2. SdkShape(sdk') /\ sdk'.open /\ ~ sdk'.misused /\ sdk'.features = {}
    BY <1>3, <2>1 DEF SdkInit, SdkShape
  <2> QED BY <1>1, <1>2, <1>3, <1>4, <2>1, <2>2 DEF Owned, SdkUsedWell, SdkShape
<1>7. CASE ~ p.ngx /\ ~ p.own
  <2>1. sdk' = sdk /\ ngx' = {} /\ dlssFg'[c] = "none"
    BY <1>1, <1>2, <1>4, <1>7 DEF FgOwnsInit, DlssFgInit
  <2> QED BY <1>1, <1>2, <1>3, <1>4, <2>1 DEF Owned, SdkUsedWell, SdkShape
<1> QED BY <1>5, <1>6, <1>7

LEMMA DestroyOwned ==
  ASSUME Shapes, Owned, \A x, y \in Contexts : x = y, NEW c \in Contexts, Destroy(c)
  PROVE  Owned'
<1>1. /\ alive' = {} /\ ngx' = {} /\ c \in alive
      /\ dlssFg' \in [Contexts -> {"none", "guest", "owner"}]
      /\ \A d \in Contexts : dlssFg'[d] = "none"
      /\ \A d \in Contexts, k \in NgxKinds : feature'[d][k] = NoFeature
  BY DEF Destroy, Owned, Shapes, FeatureKinds
<1>2. sdk' = NgxShutdown(c, DlssFgShutdown(c, sdk))
  BY DEF Destroy
<1>3. SdkShape(sdk) /\ ~ sdk.misused /\ sdk.features \subseteq {c} \X NgxKinds
  BY DEF Owned, SdkUsedWell, SdkShape
<1>4. SdkShape(sdk') /\ ~ sdk'.misused /\ ~ sdk'.open /\ sdk'.features = {}
  <2>1. CASE c \in ngx
    <3>1. sdk.open
      BY <1>1, <2>1 DEF Owned, SdkUsedWell
    <3>2. sdk' = SdkShutdown(SdkRelease(sdk, {c} \X NgxKinds))
      BY <1>2, <2>1 DEF NgxShutdown, DlssFgShutdown, Owned
    <3>3. LET r == SdkRelease(sdk, {c} \X NgxKinds)
          IN SdkShape(r) /\ r.open /\ ~ r.misused /\ r.features = {}
      BY <1>3, <3>1, Releases
    <3> QED BY <3>2, <3>3 DEF SdkShutdown, SdkShape
  <2>2. CASE c \notin ngx /\ dlssFg[c] = "owner"
    <3>1. sdk.open /\ sdk.features = {}
      BY <1>1, <2>2 DEF Owned, SdkUsedWell
    <3>2. sdk' = SdkShutdown(sdk)
      BY <1>2, <2>2 DEF NgxShutdown, DlssFgShutdown
    <3> QED BY <1>3, <3>1, <3>2 DEF SdkShutdown, SdkShape
  <2>3. CASE c \notin ngx /\ dlssFg[c] # "owner"
    <3>1. ~ sdk.open /\ sdk.features = {}
      BY <2>3 DEF Owned, SdkUsedWell
    <3> QED BY <1>2, <1>3, <2>3, <3>1 DEF NgxShutdown, DlssFgShutdown
  <2> QED BY <2>1, <2>2, <2>3
<1> QED BY <1>1, <1>4 DEF Owned, SdkUsedWell, SdkShape

LEMMA OwnedNext ==
  ASSUME Shapes, Owned, RenderFxAssumption, \A x, y \in Contexts : x = y, [Next]_vars
  PROVE  Owned'
<1>1. ASSUME NEW c \in Contexts, Create(c) PROVE Owned'
  BY <1>1, CreateOwned
<1>2. ASSUME NEW c \in Contexts, Destroy(c) PROVE Owned'
  BY <1>2, DestroyOwned
<1>3. CASE UNCHANGED <<alive, ngx, dlssFg, feature, sdk>>
  BY <1>3 DEF Owned, SdkUsedWell
<1>4. ASSUME NEW c \in Contexts, Commit(c) \/ Submit(c) PROVE Owned'
  BY <1>3, <1>4 DEF Commit, Submit
<1>5. ASSUME NEW c \in Contexts, NEW res \in Resolutions, NEW provided \in Inputs,
             RecordUpscaling(c, res, provided)
      PROVE  Owned'
  <2>1. c \in alive /\ UNCHANGED <<alive, ngx, dlssFg>>
    BY <1>5 DEF RecordUpscaling
  <2>2. ASSUME NEW k \in FeatureKinds, RecordFeature(c, "UP", k, res, provided) PROVE Owned'
    BY <2>1, <2>2, FeatureOwned
  <2>3. CASE NgxRecordDLAA(c, res, provided)
    BY <2>2, <2>3 DEF NgxRecordDLAA, FeatureKinds, NgxKinds
  <2>4. CASE XessRecordUpscale(c, res, provided)
    BY <2>2, <2>4 DEF XessRecordUpscale, FeatureKinds
  <2>5. CASE RecordOwn(c, provided)
    BY <1>3, <2>1, <2>5 DEF RecordOwn, Refuses
  <2>6. CASE Refuses(c, "UP", provided, "UNSUPPORTED")
    BY <1>3, <2>1, <2>6 DEF Refuses
  <2> QED BY <1>5, <2>3, <2>4, <2>5, <2>6 DEF RecordUpscaling
<1>6. ASSUME NEW c \in Contexts, NEW res \in Resolutions, NEW provided \in Inputs,
             RecordRayReconstruction(c, res, provided)
      PROVE  Owned'
  <2>1. c \in alive /\ UNCHANGED <<alive, ngx, dlssFg>>
    BY <1>6 DEF RecordRayReconstruction
  <2>2. CASE NgxRecordRR(c, res, provided)
    BY <2>1, <2>2, FeatureOwned DEF NgxRecordRR, FeatureKinds, NgxKinds
  <2>3. ASSUME NEW r, Refuses(c, "RR", provided, r) PROVE Owned'
    BY <1>3, <2>1, <2>3 DEF Refuses
  <2> QED BY <1>6, <2>2, <2>3 DEF RecordRayReconstruction
<1>7. ASSUME NEW c \in Contexts, NEW provided \in Inputs, RecordFrameGeneration(c, provided)
      PROVE  Owned'
  BY <1>3, <1>7 DEF RecordFrameGeneration
<1>8. ASSUME NEW w \in work, Finish(w) PROVE Owned'
  BY <1>3, <1>8 DEF Finish
<1>9. CASE UNCHANGED vars
  BY <1>3, <1>9 DEF vars
<1> QED BY <1>1, <1>2, <1>4, <1>5, <1>6, <1>7, <1>8, <1>9 DEF Next

(* NGX is initialised, used and shut down as its SDK asks, as long as the    *)
(* process has one RenderFX context at a time.                               *)
THEOREM SdkUsedWellCorrect ==
  ASSUME \A x, y \in Contexts : x = y
  PROVE  Spec => []SdkUsedWell
<1>1. Init => Owned
  <2> SUFFICES ASSUME Init PROVE Owned
    OBVIOUS
  <2>1. /\ alive = {} /\ ngx = {} /\ sdk = [open |-> FALSE, features |-> {}, misused |-> FALSE]
        /\ dlssFg \in [Contexts -> {"none", "guest", "owner"}]
        /\ \A c \in Contexts : dlssFg[c] = "none"
        /\ \A c \in Contexts, k \in NgxKinds : feature[c][k] = NoFeature
    BY DEF Init, FeatureKinds
  <2> QED BY <2>1 DEF Owned, SdkUsedWell
<1>2. Owned => SdkUsedWell
  BY DEF Owned
<1>3. Shapes /\ Owned /\ [Next]_vars => Owned'
  BY OwnedNext, RenderFxAssumption
<1> QED BY <1>1, <1>2, <1>3, ShapesInit, ShapesNext, PTL DEF Spec

-------------------------------------------------------------------------------
(* What the context reports is what its record calls do                      *)

\* A context whose capabilities name DLSS has the NgxState its calls look for,
\* and the last call kept what was reported.
Honest ==
  /\ probe \in [Contexts -> Probe]
  /\ choice \in [Contexts -> Selection]
  /\ \A c \in Contexts : probe[c].sr \/ probe[c].rr => c \in ngx
  /\ RecordsAsPromised

\* The table as RFX sees it: what it lists in the stages that record calls
\* dispatch on, and that only the probes decide `supported'.
LEMMA TableRows ==
  /\ DOMAIN kTable = 1..11
  /\ \A n \in 1..11 :
       /\ ~ kTable[n].supported
       /\ kTable[n].stage = "UP" => kTable[n].id \in OwnIds \cup {"DLAA", "DLSS_SR", "XESS"}
       /\ kTable[n].stage = "RR" => kTable[n].id = "DLSS_RR"
  /\ kTable[3].id = "DLSS_SR" /\ kTable[4].id = "DLAA" /\ kTable[6].id = "XESS"
  /\ kTable[7].id = "DLSS_RR"
  /\ \A n \in {3, 4, 6, 7} : {"depth", "motion"} \subseteq kTable[n].required_inputs
  /\ GBuffer \subseteq kTable[7].required_inputs
<1>1. DOMAIN kTable = 1..11
  BY DEF kTable
<1>2. \A n \in 1..11 : ~ kTable[n].supported
  BY DEF kTable, Row
<1>3. \A n \in 1..11 : kTable[n].stage = "UP" => kTable[n].id \in OwnIds \cup {"DLAA", "DLSS_SR", "XESS"}
  BY DEF kTable, Row, OwnIds
<1>4. \A n \in 1..11 : kTable[n].stage = "RR" => kTable[n].id = "DLSS_RR"
  BY DEF kTable, Row
<1>5. /\ kTable[3].id = "DLSS_SR" /\ kTable[4].id = "DLAA" /\ kTable[6].id = "XESS"
      /\ kTable[7].id = "DLSS_RR"
  BY DEF kTable, Row
<1>6. \A n \in {3, 4, 6, 7} : {"depth", "motion"} \subseteq kTable[n].required_inputs
  BY DEF kTable, Row, Super, Guides
<1>7. GBuffer \subseteq kTable[7].required_inputs
  BY DEF kTable, Row
<1> QED BY <1>1, <1>2, <1>3, <1>4, <1>5, <1>6, <1>7

\* A listed backend is supported exactly where the probes say so.
LEMMA SupportedByProbe ==
  ASSUME NEW ids, NEW s, NEW id, Listed(WithSupported(ids), s, id)
  PROVE  /\ findCaps(WithSupported(ids), s, id).supported <=> id \in ids
         /\ s = "UP" => id \in OwnIds \cup {"DLAA", "DLSS_SR", "XESS"}
         /\ s = "RR" => id = "DLSS_RR"
<1> DEFINE t == WithSupported(ids)
<1>1. PICK n \in Rows(t, s, id) : findCaps(t, s, id) = t[n]
  BY DEF Listed, findCaps
<1>2. n \in 1..11 /\ t[n] = [kTable[n] EXCEPT !.supported = @ \/ kTable[n].id \in ids]
  BY TableRows DEF Rows, WithSupported
<1>3. kTable[n].id = t[n].id /\ kTable[n].stage = t[n].stage
  <2>1. \A m \in 1..11 : \A b :
          /\ [kTable[m] EXCEPT !.supported = b].id = kTable[m].id
          /\ [kTable[m] EXCEPT !.supported = b].stage = kTable[m].stage
    OBVIOUS
  <2> QED BY <1>2, <2>1
<1>4. t[n].supported <=> kTable[n].supported \/ kTable[n].id \in ids
  <2>1. "supported" \in DOMAIN kTable[n]
    BY <1>2 DEF kTable, Row
  <2> QED BY <1>2, <2>1
<1>5. t[n].id = id /\ t[n].stage = s
  BY DEF Rows
<1> QED BY <1>1, <1>2, <1>3, <1>4, <1>5, TableRows

\* Whatever the probes found: what rfx_query_capabilities says of a listed
\* backend is what ngx.cpp or xess.cpp found.
LEMMA SupportedOfContext ==
  ASSUME NEW c, NEW s, NEW id, Listed(Caps(c), s, id), findCaps(Caps(c), s, id).supported
  PROVE  /\ id \in {"DLSS_SR", "DLAA"} => probe[c].sr
         /\ id = "DLSS_RR" => probe[c].rr
         /\ id = "XESS" => probe[c].xess
         /\ s = "UP" => id \in OwnIds \cup {"DLAA", "DLSS_SR", "XESS"}
         /\ s = "RR" => id = "DLSS_RR"
<1> DEFINE ids == SupportedIds(probe[c].ofa, TRUE, probe[c].sr, probe[c].rr, TRUE, probe[c].xess)
                    \cup (IF probe[c].fg THEN {"DLSS_FG"} ELSE {})
<1>1. Caps(c) = WithSupported(ids)
  BY DEF Caps, QueryCapabilities
<1>2. /\ id \in ids
      /\ s = "UP" => id \in OwnIds \cup {"DLAA", "DLSS_SR", "XESS"}
      /\ s = "RR" => id = "DLSS_RR"
  <2> HIDE DEF ids
  <2> QED BY <1>1, SupportedByProbe
<1>3. /\ id \in {"DLSS_SR", "DLAA"} => probe[c].sr
      /\ id = "DLSS_RR" => probe[c].rr
      /\ id = "XESS" => probe[c].xess
  BY <1>2 DEF SupportedIds
<1> QED BY <1>2, <1>3

\* The committed backend of a stage of a resolved selection is supported.
LEMMA ResolvedIsSupported ==
  ASSUME NEW c, Resolved(c), NEW s \in Stages, choice[c][s] # NONE
  PROVE  Listed(Caps(c), s, choice[c][s]) /\ findCaps(Caps(c), s, choice[c][s]).supported
BY DEF Resolved, ComboValid

\* The table asks for every input that a feature needs.
LEMMA NeededIsListed ==
  /\ \A id \in {"DLSS_SR", "DLAA", "XESS"} : {"depth", "motion"} \subseteq RequiredInputs(id)
  /\ NeededFor("rr") \subseteq RequiredInputs("DLSS_RR")
<1>1. \A n \in 1..11 : kTable[n].required_inputs \subseteq RequiredInputs(kTable[n].id)
  BY TableRows DEF RequiredInputs
<1> QED BY <1>1, TableRows DEF NeededFor

\* The feature that a backend is recorded through.
Serves(id, k) ==
  \/ id \in {"DLSS_SR", "DLAA"} /\ k = "dlaa"
  \/ id = "DLSS_RR" /\ k = "rr"
  \/ id = "XESS" /\ k = "xess"

\* A record call that goes through a feature keeps both promises, where the
\* committed backend is one that the feature belongs to.
LEMMA FeatureKeepsPromise ==
  ASSUME NEW c \in Contexts, NEW s \in {"UP", "RR"}, NEW k \in FeatureKinds, NEW res, NEW provided,
         Honest, UNCHANGED <<probe, choice>>, RecordFeature(c, s, k, res, provided),
         choice[c][s] # NONE,
         NeededFor(k) \subseteq RequiredInputs(choice[c][s]),
         Serves(choice[c][s], k)
  PROVE  RecordsAsPromised'
<1>0. (Resolved(c)' <=> Resolved(c)) /\ s \in Stages
  BY DEF Resolved, Caps, Stages
<1>1. CASE ~ Available(c, k) /\ Refuses(c, s, provided, "UNSUPPORTED")
  <2>1. last'.ctx = c /\ last'.result = "UNSUPPORTED"
    BY <1>1 DEF Refuses, Reports
  <2>2. ~ Resolved(c)
    <3> SUFFICES ASSUME Resolved(c) PROVE FALSE
      OBVIOUS
    <3>1. /\ choice[c][s] \in {"DLSS_SR", "DLAA"} => probe[c].sr
          /\ choice[c][s] = "DLSS_RR" => probe[c].rr
          /\ choice[c][s] = "XESS" => probe[c].xess
      BY <1>0, ResolvedIsSupported, SupportedOfContext
    <3> QED BY <1>1, <3>1 DEF Available, Honest, Serves
  <2>3. ~ Resolved(c)'
    BY <1>0, <2>2
  <2> QED BY <2>1, <2>3, <1>0 DEF RecordsAsPromised, Resolved, Caps
<1>2. CASE ~ NeededFor(k) \subseteq provided /\ Refuses(c, s, provided, "INVALID_ARGUMENT")
  <2>1. last'.result = "INVALID_ARGUMENT" /\ last'.missing = RequiredInputs(choice[c][s]) \ provided
    BY <1>2 DEF Refuses, Reports, Missing
  <2>2. last'.missing # {}
    BY <1>2, <2>1
  <2> QED BY <2>1, <2>2 DEF RecordsAsPromised
<1>3. CASE RecordWith(c, s, k, res, provided)
  <2>0. \E r \in {"OK", "INTERNAL"} : Reports(c, s, provided, r)
    BY <1>3 DEF RecordWith
  <2>1. last'.result \in {"OK", "INTERNAL"}
    BY <2>0 DEF Reports
  <2> QED BY <2>1 DEF RecordsAsPromised
<1> QED BY <1>1, <1>2, <1>3 DEF RecordFeature

LEMMA HonestNext == Honest /\ [Next]_vars => Honest'
<1> SUFFICES ASSUME Honest, [Next]_vars PROVE Honest'
  OBVIOUS
<1> USE RenderFxAssumption
<1>0. ASSUME last'.stage \notin {"UP", "RR"} PROVE RecordsAsPromised'
  BY <1>0 DEF RecordsAsPromised
<1>1. ASSUME NEW c \in Contexts, Create(c) PROVE Honest'
  <2>1. PICK p \in Probes :
          /\ ngx' = IF p.ngx THEN ngx \cup {c} ELSE ngx
          /\ probe' = [probe EXCEPT ![c] =
               [p EXCEPT !.sr = @ /\ p.ngx, !.rr = @ /\ p.ngx, !.fg = @ /\ (p.ngx \/ p.own)]]
    BY <1>1 DEF Create
  <2>2. p \in Probe
    OBVIOUS
  <2> DEFINE q == [p EXCEPT !.sr = @ /\ p.ngx, !.rr = @ /\ p.ngx, !.fg = @ /\ (p.ngx \/ p.own)]
  <2>3. q \in Probe /\ (q.sr \/ q.rr => p.ngx)
    BY <2>2 DEF Probe
  <2>4. last' = NoCall /\ choice' = choice
    BY <1>1 DEF Create
  <2>5. probe' \in [Contexts -> Probe] /\ probe'[c] = q /\ \A d \in Contexts \ {c} : probe'[d] = probe[d]
    <3> HIDE DEF q
    <3>1. probe' = [probe EXCEPT ![c] = q]
      BY <2>1 DEF q
    <3> QED BY <2>3, <3>1 DEF Honest
  <2>6. last'.stage = NONE
    BY <2>4 DEF NoCall
  <2> HIDE DEF q
  <2>7. \A d \in Contexts : probe'[d].sr \/ probe'[d].rr => d \in ngx'
    BY <2>1, <2>3, <2>5 DEF Honest
  <2> QED BY <2>4, <2>5, <2>6, <2>7, <1>0 DEF Honest, NONE
<1>2. ASSUME NEW c \in Contexts, Destroy(c) PROVE Honest'
  <2>1. /\ probe' = [probe EXCEPT ![c] = Nothing] /\ ngx' = ngx \ {c} /\ last' = NoCall
        /\ choice' = [choice EXCEPT ![c] = [s \in Stages |-> NONE]]
    BY <1>2 DEF Destroy
  <2>2. Nothing \in Probe /\ ~ Nothing.sr /\ ~ Nothing.rr
    BY DEF Nothing, Probe
  <2>3. [s \in Stages |-> NONE] \in Selection
    BY DEF Selection
  <2>4. RecordsAsPromised'
    BY <2>1, <1>0 DEF NoCall, NONE
  <2> QED BY <2>1, <2>2, <2>3, <2>4 DEF Honest
<1>3. ASSUME NEW c \in Contexts, Commit(c) PROVE Honest'
  <2>1. last' = NoCall /\ UNCHANGED <<probe, ngx>> /\ \E sel \in Selections : choice' = [choice EXCEPT ![c] = sel]
    BY <1>3 DEF Commit
  <2>2. RecordsAsPromised'
    BY <2>1, <1>0 DEF NoCall, NONE
  <2>3. choice' \in [Contexts -> Selection]
    BY <2>1 DEF Honest
  <2> QED BY <2>1, <2>2, <2>3 DEF Honest
<1>4. ASSUME UNCHANGED <<probe, ngx, choice>>, RecordsAsPromised' PROVE Honest'
  BY <1>4 DEF Honest
<1>5. ASSUME UNCHANGED <<probe, ngx, choice>>, last' = NoCall PROVE Honest'
  BY <1>0, <1>4, <1>5 DEF NoCall, NONE
<1>6. ASSUME NEW c \in Contexts, Submit(c) PROVE Honest'
  BY <1>5, <1>6 DEF Submit
<1>7. ASSUME NEW w \in work, Finish(w) PROVE Honest'
  BY <1>5, <1>7 DEF Finish
<1>8. ASSUME NEW c \in Contexts, NEW provided, RecordFrameGeneration(c, provided) PROVE Honest'
  <2>1. UNCHANGED <<probe, ngx, choice>>
    BY <1>8 DEF RecordFrameGeneration
  <2>2. \E result, from : ReportsFrame(c, provided, result, from)
    BY <1>8 DEF RecordFrameGeneration, Generate
  <2>3. last'.stage = "FG"
    BY <2>2 DEF ReportsFrame
  <2> QED BY <1>0, <1>4, <2>1, <2>3
<1>9. ASSUME NEW c \in Contexts, NEW res \in Resolutions, NEW provided, RecordUpscaling(c, res, provided)
      PROVE  Honest'
  <2>1. UNCHANGED <<probe, ngx, choice>>
    BY <1>9 DEF RecordUpscaling
  <2>2. CASE choice[c]["UP"] \in {"DLAA", "DLSS_SR"} /\ RecordFeature(c, "UP", "dlaa", res, provided)
    <3>1. UNCHANGED <<probe, choice>>
      BY <2>1
    <3>2. choice[c]["UP"] # NONE /\ NeededFor("dlaa") \subseteq RequiredInputs(choice[c]["UP"])
      BY <2>2, NeededIsListed DEF NeededFor, NONE
    <3>3. "dlaa" \in FeatureKinds /\ "UP" \in {"UP", "RR"} /\ Serves(choice[c]["UP"], "dlaa")
      BY <2>2 DEF FeatureKinds, NgxKinds, Serves
    <3>4. RecordsAsPromised'
      BY <2>2, <3>1, <3>2, <3>3, FeatureKeepsPromise
    <3> QED BY <1>4, <2>1, <3>4
  <2>3. CASE choice[c]["UP"] = "XESS" /\ RecordFeature(c, "UP", "xess", res, provided)
    BY <1>4, <2>1, <2>3, NeededIsListed, FeatureKeepsPromise DEF FeatureKinds, NeededFor, NONE, Serves
  <2>4. CASE choice[c]["UP"] \in OwnIds /\ RecordOwn(c, provided)
    <3>0. \E r \in {"OK", "INTERNAL"} : Reports(c, "UP", provided, r)
      BY <2>4 DEF RecordOwn, Refuses
    <3>1. last'.result \in {"OK", "INTERNAL"}
      BY <3>0 DEF Reports
    <3> QED BY <1>4, <2>1, <3>1 DEF RecordsAsPromised
  <2>5. CASE /\ choice[c]["UP"] \notin OwnIds \cup {"DLAA", "DLSS_SR", "XESS"}
             /\ Refuses(c, "UP", provided, "UNSUPPORTED")
    <3>1. last'.result = "UNSUPPORTED" /\ last'.ctx = c
      BY <2>5 DEF Refuses, Reports
    <3>2. ~ Resolved(c)
      BY <2>5, ResolvedIsSupported, SupportedOfContext DEF OwnIds, Stages
    <3>3. ~ Resolved(c)'
      BY <2>1, <3>2 DEF Resolved, Caps
    <3> QED BY <1>4, <2>1, <3>1, <3>3 DEF RecordsAsPromised, Resolved, Caps
  <2> QED BY <1>9, <2>2, <2>3, <2>4, <2>5 DEF RecordUpscaling, NgxRecordDLAA, XessRecordUpscale
<1>10. ASSUME NEW c \in Contexts, NEW res \in Resolutions, NEW provided, RecordRayReconstruction(c, res, provided)
       PROVE  Honest'
  <2>1. UNCHANGED <<probe, ngx, choice>>
    BY <1>10 DEF RecordRayReconstruction
  <2>2. CASE choice[c]["RR"] = "DLSS_RR" /\ RecordFeature(c, "RR", "rr", res, provided)
    <3>1. UNCHANGED <<probe, choice>>
      BY <2>1
    <3>2. choice[c]["RR"] # NONE /\ NeededFor("rr") \subseteq RequiredInputs(choice[c]["RR"])
      BY <2>2, NeededIsListed DEF NONE
    <3>3. "rr" \in FeatureKinds /\ "RR" \in {"UP", "RR"} /\ Serves(choice[c]["RR"], "rr")
      BY <2>2 DEF FeatureKinds, NgxKinds, Serves
    <3>4. RecordsAsPromised'
      BY <2>2, <3>1, <3>2, <3>3, FeatureKeepsPromise
    <3> QED BY <1>4, <2>1, <3>4
  <2>3. CASE Refuses(c, "RR", provided, "OK")
    BY <1>4, <2>1, <2>3 DEF RecordsAsPromised, Refuses, Reports
  <2>4. CASE choice[c]["RR"] \notin {"DLSS_RR", NONE} /\ Refuses(c, "RR", provided, "UNSUPPORTED")
    <3>1. last'.result = "UNSUPPORTED" /\ last'.ctx = c
      BY <2>4 DEF Refuses, Reports
    <3>2. ~ Resolved(c)
      BY <2>4, ResolvedIsSupported, SupportedOfContext DEF Stages
    <3>3. ~ Resolved(c)'
      BY <2>1, <3>2 DEF Resolved, Caps
    <3> QED BY <1>4, <2>1, <3>1, <3>3 DEF RecordsAsPromised, Resolved, Caps
  <2> QED BY <1>10, <2>2, <2>3, <2>4 DEF RecordRayReconstruction, NgxRecordRR
<1>11. CASE UNCHANGED vars
  BY <1>11 DEF vars, Honest, RecordsAsPromised, Resolved, Caps
<1> QED
  BY <1>1, <1>2, <1>3, <1>6, <1>7, <1>8, <1>9, <1>10, <1>11 DEF Next

\* For any number of contexts, any outcome of the probes and any selection: an
\* input that a record call refuses is one rfx_missing_inputs names, and a call
\* refuses a backend only where the selection is not one the resolver returns
\* (context.cpp:294, 351-372, ngx.cpp, xess.cpp, backends.cpp).
THEOREM RecordsAsPromisedCorrect == Spec => []RecordsAsPromised
<1>1. Init => Honest
  BY DEF Init, Honest, RecordsAsPromised, NoCall, NONE, Nothing, Probe, Selection
<1>2. Honest => RecordsAsPromised
  BY DEF Honest
<1> QED BY <1>1, <1>2, HonestNext, PTL DEF Spec

-------------------------------------------------------------------------------
(* Types                                                                     *)

\* What TypeOK says beyond Shapes and Honest.
Living ==
  /\ alive \subseteq Contexts /\ ngx \subseteq alive /\ registered \subseteq alive
  /\ dlssFg \in [Contexts -> {"none", "guest", "owner"}]
  /\ SdkShape(sdk)
  /\ last.result \in Results

LEMMA SdkShapes ==
  ASSUME NEW s, SdkShape(s)
  PROVE  /\ SdkShape(SdkInit(s)) /\ SdkShape(SdkShutdown(s))
         /\ \A f \in Contexts \X NgxKinds : SdkShape(SdkCreate(s, f))
         /\ \A fs : SdkShape(SdkRelease(s, fs))
<1>1. SdkShape(SdkInit(s))
  BY DEF SdkShape, SdkInit
<1>2. SdkShape(SdkShutdown(s))
  BY DEF SdkShape, SdkShutdown
<1>3. \A f \in Contexts \X NgxKinds : SdkShape(SdkCreate(s, f))
  BY DEF SdkShape, SdkCreate
<1>4. \A fs : SdkShape(SdkRelease(s, fs))
  BY DEF SdkShape, SdkRelease
<1> QED BY <1>1, <1>2, <1>3, <1>4

LEMMA ReportsResult ==
  ASSUME NEW c, NEW s, NEW provided, NEW r \in Results, Reports(c, s, provided, r)
  PROVE  last'.result \in Results
BY DEF Reports

\* What a record call through a feature does to the runtime and reports.
LEMMA FeatureLiving ==
  ASSUME Living, NEW c \in Contexts, NEW s, NEW k \in FeatureKinds, NEW res, NEW provided,
         RecordFeature(c, s, k, res, provided)
  PROVE  SdkShape(sdk') /\ last'.result \in Results
<1>1. CASE \E r \in Results : Refuses(c, s, provided, r)
  BY <1>1, ReportsResult DEF Refuses, Living
<1>2. CASE RecordWith(c, s, k, res, provided)
  <2>1. PICK released : /\ released = sdk \/ (k \in NgxKinds /\ released = SdkRelease(sdk, {<<c, k>>}))
                        /\ sdk' = released \/ (k \in NgxKinds /\ sdk' = SdkCreate(released, <<c, k>>))
    BY <1>2 DEF RecordWith
  <2>2. SdkShape(released)
    BY <2>1, SdkShapes DEF Living
  <2>3. SdkShape(sdk')
    BY <2>1, <2>2, SdkShapes
  <2>4. \E r \in Results : Reports(c, s, provided, r)
    BY <1>2 DEF RecordWith, Results
  <2> QED BY <2>3, <2>4, ReportsResult
<1> QED BY <1>1, <1>2 DEF RecordFeature, Results

LEMMA LivingNext == Living /\ [Next]_vars => Living'
<1> SUFFICES ASSUME Living, [Next]_vars PROVE Living'
  OBVIOUS
<1>0. NoCall.result \in Results
  BY DEF NoCall, Results
<1>1. ASSUME NEW c \in Contexts, Create(c) PROVE Living'
  <2>1. PICK p : /\ alive' = alive \cup {c} /\ ngx' = IF p.ngx THEN ngx \cup {c} ELSE ngx
                 /\ dlssFg' = [dlssFg EXCEPT ![c] = DlssFgInit(p)]
                 /\ sdk' = IF FgOwnsInit(p) THEN SdkInit(NgxInit(p, sdk)) ELSE NgxInit(p, sdk)
                 /\ last' = NoCall /\ UNCHANGED registered
    BY <1>1 DEF Create
  <2>2. SdkShape(NgxInit(p, sdk))
    BY SdkShapes DEF NgxInit, Living
  <2>3. SdkShape(sdk')
    BY <2>1, <2>2, SdkShapes
  <2>4. DlssFgInit(p) \in {"none", "guest", "owner"}
    BY DEF DlssFgInit
  <2> QED BY <1>0, <2>1, <2>3, <2>4 DEF Living
<1>2. ASSUME NEW c \in Contexts, Destroy(c) PROVE Living'
  <2>1. /\ alive' = alive \ {c} /\ ngx' = ngx \ {c} /\ registered' = registered \ {c}
        /\ dlssFg' = [dlssFg EXCEPT ![c] = "none"] /\ last' = NoCall
        /\ sdk' = NgxShutdown(c, DlssFgShutdown(c, sdk))
    BY <1>2 DEF Destroy
  <2>2. SdkShape(DlssFgShutdown(c, sdk))
    BY SdkShapes DEF DlssFgShutdown, Living
  <2>3. SdkShape(sdk')
    BY <2>1, <2>2, SdkShapes DEF NgxShutdown
  <2> QED BY <1>0, <2>1, <2>3 DEF Living
<1>3. ASSUME NEW c \in Contexts, Commit(c) PROVE Living'
  <2>1. registered' \subseteq registered
    BY <1>3 DEF Commit, Replace, AfterRecreate
  <2> QED BY <1>0, <1>3, <2>1 DEF Commit, Living
<1>4. ASSUME NEW c \in Contexts, Submit(c) PROVE Living'
  BY <1>0, <1>4 DEF Submit, Living
<1>5. ASSUME NEW w \in work, Finish(w) PROVE Living'
  BY <1>0, <1>5 DEF Finish, Living
<1>6. ASSUME NEW c \in Contexts, NEW res \in Resolutions, NEW provided, RecordUpscaling(c, res, provided)
      PROVE  Living'
  <2>1. UNCHANGED <<alive, ngx, dlssFg, registered>>
    BY <1>6 DEF RecordUpscaling
  <2>2. \/ \E k \in FeatureKinds : RecordFeature(c, "UP", k, res, provided)
        \/ /\ UNCHANGED sdk
           /\ \E r \in Results : Reports(c, "UP", provided, r)
    BY <1>6 DEF RecordUpscaling, NgxRecordDLAA, XessRecordUpscale, RecordOwn, Refuses, FeatureKinds, NgxKinds, Results
  <2>3. SdkShape(sdk') /\ last'.result \in Results
    BY <2>2, FeatureLiving, ReportsResult DEF Living
  <2> QED BY <2>1, <2>3 DEF Living
<1>7. ASSUME NEW c \in Contexts, NEW res \in Resolutions, NEW provided, RecordRayReconstruction(c, res, provided)
      PROVE  Living'
  <2>1. UNCHANGED <<alive, ngx, dlssFg, registered>>
    BY <1>7 DEF RecordRayReconstruction
  <2>2. \/ RecordFeature(c, "RR", "rr", res, provided)
        \/ /\ UNCHANGED sdk
           /\ \E r \in Results : Reports(c, "RR", provided, r)
    BY <1>7 DEF RecordRayReconstruction, NgxRecordRR, Refuses, Results
  <2>3. SdkShape(sdk') /\ last'.result \in Results
    BY <2>2, FeatureLiving, ReportsResult DEF Living, FeatureKinds, NgxKinds
  <2> QED BY <2>1, <2>3 DEF Living
<1>8. ASSUME NEW c \in Contexts, NEW provided, RecordFrameGeneration(c, provided)
      PROVE  Living'
  <2>1. c \in alive /\ UNCHANGED <<alive, ngx, dlssFg, sdk>>
    BY <1>8 DEF RecordFrameGeneration
  <2>2. registered' \subseteq registered \cup {c}
    BY <1>8 DEF RecordFrameGeneration, Generate
  <2>3. \E r \in Results : \E from : ReportsFrame(c, provided, r, from)
    BY <1>8 DEF RecordFrameGeneration, Generate, Results
  <2>4. last'.result \in Results
    BY <2>3 DEF ReportsFrame
  <2> QED BY <2>1, <2>2, <2>4 DEF Living
<1>9. CASE UNCHANGED vars
  BY <1>9 DEF vars, Living
<1> QED
  BY <1>1, <1>2, <1>3, <1>4, <1>5, <1>6, <1>7, <1>8, <1>9 DEF Next

\* Whatever is probed, committed and recorded, the variables keep their types; an
\* NgxState and a registration belong to a context that exists.
THEOREM TypeCorrect == Spec => []TypeOK
<1>1. Init => Living /\ Honest
  <2> SUFFICES ASSUME Init PROVE Living /\ Honest
    OBVIOUS
  <2>1. SdkShape(sdk)
    BY DEF Init, SdkShape
  <2>2. Honest
    BY DEF Init, Honest, RecordsAsPromised, NoCall, NONE, Nothing, Probe, Selection
  <2> QED BY <2>1, <2>2 DEF Init, Living, NoCall, Results
<1>2. Shapes /\ Honest /\ Living => TypeOK
  BY DEF Shapes, Honest, Living, SdkShape, TypeOK
<1> QED
  BY <1>1, <1>2, ShapesInit, ShapesNext, HonestNext, LivingNext, PTL DEF Spec
===============================================================================
