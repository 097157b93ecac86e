--------------------------- MODULE PipelineProofs ---------------------------
(***************************************************************************)
(* Proofs about the life of a context, for both tiers, every choice of     *)
(* failures and every order of calls, re-registration included: types, the *)
(* completeness of a ready pipeline, and that nothing is destroyed or      *)
(* rewritten while the GPU may use it.  What depends on the application or *)
(* on creations that succeed comes last: which images the sets name, and   *)
(* that every object is destroyed once.                                    *)
(***************************************************************************)
EXTENDS Pipeline, TLAPS

\* Where an input's new image comes from: at most three numbers are taken, so one
\* of the four is free.
LEMMA FreshType ==
  ASSUME TypeOK, NEW i \in Inputs
  PROVE  Fresh(i) \in 1 .. 4
<1> DEFINE Free(n) == n # image[i] /\ \A b \in Bindings : InputOf(b) = i => n # bound[b]
<1>1. \E n \in 1 .. 4 : Free(n)
  <2>1. \E x, y \in 0 .. 4 : \A b \in Bindings : InputOf(b) = i => bound[b] \in {x, y}
    <3>1. CASE i = "color"
      <4>1. \A b \in Bindings : InputOf(b) = i => b \in {"color", "cnnColor"}
        BY <3>1 DEF Bindings, InputOf
      <4> QED
        BY <4>1 DEF TypeOK, Bindings
    <3>2. CASE i = "output"
      <4>1. \A b \in Bindings : InputOf(b) = i => b \in {"output", "cnnOutput"}
        BY <3>2 DEF Bindings, InputOf
      <4> QED
        BY <4>1 DEF TypeOK, Bindings
    <3>3. CASE i = "motion"
      <4>1. \A b \in Bindings : InputOf(b) = i => b \in {"motion", "hint"}
        BY <3>3 DEF Bindings, InputOf
      <4> QED
        BY <4>1 DEF TypeOK, Bindings
    <3>4. CASE i = "ui"
      <4>1. \A b \in Bindings : InputOf(b) = i => b \in {"ui", "cnnUi"}
        BY <3>4 DEF Bindings, InputOf
      <4> QED
        BY <4>1 DEF TypeOK, Bindings
    <3>5. CASE i = "debug"
      <4>1. \A b \in Bindings : InputOf(b) = i => b = "debug"
        BY <3>5 DEF Bindings, InputOf
      <4> QED
        BY <4>1 DEF TypeOK, Bindings
    <3> QED
      BY <3>1, <3>2, <3>3, <3>4, <3>5 DEF Inputs
  <2>2. PICK x, y \in 0 .. 4 : \A b \in Bindings : InputOf(b) = i => bound[b] \in {x, y}
    BY <2>1
  <2>3. image[i] \in 0 .. 4
    BY DEF TypeOK
  <2>4. \E n \in 1 .. 4 : n # image[i] /\ n # x /\ n # y
    BY <2>3
  <2> QED
    BY <2>2, <2>4
<1>2. Fresh(i) = CHOOSE n \in 1 .. 4 : Free(n)
  BY DEF Fresh
<1> QED
  BY <1>1, <1>2

\* Registering keeps the registrations well-typed.
LEMMA RegisterType ==
  ASSUME TypeOK, NEW new \in SUBSET Inputs, NEW absent, Register(new, absent)
  PROVE  have' \subseteq Inputs /\ image' \in [Inputs -> 0 .. 4]
<1>1. \A i \in Inputs : Fresh(i) \in 0 .. 4
  BY FreshType
<1> QED
  BY <1>1 DEF Register, TypeOK

\* So does writing the descriptor sets, with the images before or after the call.
LEMMA RefreshedType ==
  ASSUME NEW im \in [Inputs -> 0 .. 4], NEW b \in [Bindings -> 0 .. 4], TypeOK, NEW hint
  PROVE  /\ Refreshed(hint, b) \in [Bindings -> 0 .. 4]
         /\ CnnBound(b) \in [Bindings -> 0 .. 4]
         /\ [b EXCEPT !["debug"] = im["debug"]] \in [Bindings -> 0 .. 4]
<1>1. \A i \in Inputs : image[i] \in 0 .. 4 /\ OrDummy(i) \in 0 .. 4 /\ im[i] \in 0 .. 4
  BY DEF TypeOK, OrDummy
<1>2. {"color", "output", "motion", "ui", "debug"} = Inputs
  BY DEF Inputs
<1> QED
  BY <1>1, <1>2 DEF Refreshed, CnnBound

\* The operations that change the registrations, the handles or the bindings keep
\* their types.
LEMMA DestroyType ==
  ASSUME TypeOK, DestroyPipeline
  PROVE  /\ ready' \in BOOLEAN /\ leaked' \in BOOLEAN /\ freedTwice' \in BOOLEAN
         /\ handle' \in [Groups -> {"null", "live", "stale"}]
         /\ \A g \in {"cmdPools", "cnnBuffers", "interop"} : handle'[g] # "stale"
         /\ bound' \in [Bindings -> 0 .. 4]
<1>1. ready' \in BOOLEAN /\ leaked' \in BOOLEAN
  BY DEF TypeOK, DestroyPipeline
<1>2. freedTwice' \in BOOLEAN
  BY Zenon DEF DestroyPipeline
<1>3. /\ handle' \in [Groups -> {"null", "live", "stale"}]
      /\ \A g \in {"cmdPools", "cnnBuffers", "interop"} : handle'[g] # "stale"
  BY DEF DestroyPipeline, ResetByDestroy, Groups
<1>4. bound' \in [Bindings -> 0 .. 4]
  BY DEF DestroyPipeline, Blank
<1> QED
  BY <1>1, <1>2, <1>3, <1>4

LEMMA ClearType ==
  ASSUME TypeOK, ClearRegistrations
  PROVE  /\ have' = {} /\ image' = image /\ debugView' \in BOOLEAN
         /\ useHint' = useHint /\ builtFor' = builtFor
         /\ ready' \in BOOLEAN /\ busy' \in BOOLEAN
         /\ leaked' \in BOOLEAN /\ freedTwice' \in BOOLEAN
         /\ handle' \in [Groups -> {"null", "live", "stale"}]
         /\ \A g \in {"cmdPools", "cnnBuffers", "interop"} : handle'[g] # "stale"
         /\ bound' \in [Bindings -> 0 .. 4]
<1>1. CASE ready
  BY <1>1, DestroyType DEF ClearRegistrations, TearsDown, Drained
<1>2. CASE ~ready
  BY <1>2 DEF ClearRegistrations, TearsDown, TypeOK, faults
<1> QED
  BY <1>1, <1>2

LEMMA CreatedType ==
  ASSUME TypeOK, NEW new, Created(new)
  PROVE  /\ handle' \in [Groups -> {"null", "live", "stale"}]
         /\ \A g \in {"cmdPools", "cnnBuffers", "interop"} : handle'[g] # "stale"
         /\ leaked' \in BOOLEAN /\ freedTwice' \in BOOLEAN
<1>1. leaked' \in BOOLEAN
  BY Zenon DEF Created
<1> QED
  BY <1>1 DEF TypeOK, Created, Groups

\* The variables keep their types, and the handles that are created again under the
\* same name are never left stale.
THEOREM TypeCorrect == Spec => []TypeOK
<1>1. Init => TypeOK
  <2> SUFFICES ASSUME Init PROVE TypeOK
    OBVIOUS
  <2>1. handle \in [Groups -> {"null", "live", "stale"}] /\ \A g \in Groups : handle[g] # "stale"
    BY DEF Init
  <2>2. bound \in [Bindings -> 0 .. 4] /\ image \in [Inputs -> 0 .. 4]
    BY DEF Init, Blank
  <2>3. extent \in Extents /\ builtFor \in Extents
    BY DEF Init, Extents
  <2>4. last \in [op : {"setup", "generate", "warp", "resize"}, result : Results]
    BY DEF Init, Results
  <2>5. {"cmdPools", "cnnBuffers", "interop"} \subseteq Groups
    BY DEF Groups
  <2> QED
    BY <2>1, <2>2, <2>3, <2>4, <2>5 DEF Init, TypeOK
<1>2. TypeOK /\ [Next]_vars => TypeOK'
  <2> SUFFICES ASSUME TypeOK, [Next]_vars PROVE TypeOK'
    OBVIOUS
  <2> USE DEF Returns, Results, registered, pipeline, faults
  <2>1. CASE RegisterColor
    <3>1. {"color"} \in SUBSET Inputs
      BY DEF Inputs
    <3> QED
      BY <2>1, <3>1, RegisterType DEF RegisterColor, TypeOK
  <2>2. CASE RegisterOutput
    <3>1. {"output"} \in SUBSET Inputs
      BY DEF Inputs
    <3> QED
      BY <2>2, <3>1, RegisterType DEF RegisterOutput, TypeOK
  <2>3. CASE RegisterAux
    <3>1. PICK given \in SUBSET {"motion", "ui"} : Register(given, {"motion", "ui"} \ given)
      BY <2>3 DEF RegisterAux
    <3>2. given \in SUBSET Inputs
      BY DEF Inputs
    <3> QED
      BY <2>3, <3>1, <3>2, RegisterType DEF RegisterAux, TypeOK
  <2>4. CASE UnregisterAll
    BY <2>4, ClearType DEF UnregisterAll, TypeOK
  <2>5. CASE Resize
    <3>1. PICK e \in Extents :
            IF e > caps.max_extent
            THEN /\ Returns("resize", "INVALID_ARGUMENT")
                 /\ UNCHANGED <<registered, debugView, extent, pipeline, busy, faults>>
            ELSE ClearRegistrations /\ extent' = e /\ Returns("resize", "OK")
      BY <2>5 DEF Resize
    <3>2. CASE e > caps.max_extent
      BY <2>5, <3>1, <3>2 DEF Resize, TypeOK
    <3>3. CASE ~(e > caps.max_extent)
      BY <2>5, <3>1, <3>3, ClearType DEF Resize, TypeOK
    <3> QED
      BY <3>2, <3>3
  <2>6. CASE LoadModel
    BY <2>6 DEF LoadModel, TypeOK
  <2>7. CASE SetDebugView
    <3>1. have' \subseteq Inputs /\ image' \in [Inputs -> 0 .. 4]
      <4>1. {"debug"} \in SUBSET Inputs
        BY DEF Inputs
      <4> QED
        BY <2>7, <4>1, RegisterType DEF SetDebugView, TypeOK
    <3>2. debugView' \in BOOLEAN /\ busy' \in BOOLEAN
      BY <2>7 DEF SetDebugView, TypeOK, Drained
    <3>3. bound' \in [Bindings -> 0 .. 4]
      <4>1. Refreshed(useHint, bound) \in [Bindings -> 0 .. 4]
        BY RefreshedType DEF TypeOK
      <4>2. [Refreshed(useHint, bound) EXCEPT !["debug"] = image'["debug"]] \in [Bindings -> 0 .. 4]
        BY <3>1, <4>1, RefreshedType
      <4> QED
        BY <2>7, <4>2 DEF SetDebugView, TypeOK
    <3> QED
      BY <2>7, <3>1, <3>2, <3>3 DEF SetDebugView, TypeOK
  <2>8. CASE GenerateUnregistered
    BY <2>8 DEF GenerateUnregistered, TypeOK
  <2>9. CASE BuildFails
    <3>1. PICK new : Created(new)
      BY <2>9 DEF BuildFails
    <3> QED
      BY <2>9, <3>1, CreatedType DEF BuildFails, WantHint, TypeOK
  <2>10. CASE BuildAndGenerate
    <3>1. PICK new : Created(new)
      BY <2>10 DEF BuildAndGenerate
    <3>2. Refreshed(WantHint, Blank) \in [Bindings -> 0 .. 4]
      BY RefreshedType DEF Blank, TypeOK
    <3>3. CnnBound(Refreshed(WantHint, Blank)) \in [Bindings -> 0 .. 4]
      BY <3>2, RefreshedType DEF TypeOK
    <3>4. bound' \in [Bindings -> 0 .. 4]
      BY <2>10, <3>2, <3>3 DEF BuildAndGenerate
    <3> QED
      BY <2>10, <3>1, <3>4, CreatedType DEF BuildAndGenerate, WantHint, TypeOK
  <2>11. CASE Record
    BY <2>11 DEF Record, TypeOK
  <2>12. CASE GpuFinishes
    BY <2>12, ZenonT(30) DEF GpuFinishes, TypeOK
  <2>13. CASE Destroy
    <3>1. CASE ready
      BY <2>13, <3>1, DestroyType DEF Destroy, Drained, TypeOK
    <3>2. CASE ~ready
      BY <2>13, <3>2 DEF Destroy, Drained, TypeOK
    <3> QED
      BY <3>1, <3>2
  <2>14. CASE UNCHANGED vars
    BY <2>14 DEF vars, TypeOK
  <2> QED
    BY <2>1, <2>2, <2>3, <2>4, <2>5, <2>6, <2>7, <2>8, <2>9, <2>10, <2>11, <2>12, <2>13, <2>14
       DEF Next
<1> QED
  BY <1>1, <1>2, PTL DEF Spec

-----------------------------------------------------------------------------
(* The pipeline while it exists.                                           *)

\* The groups a whole build takes its turn at.
LEMMA BuildCovers ==
  ASSUME NEW hint \in BOOLEAN
  PROVE  Whole(hint) = {"images", "sampler", "stages", "descPool", "cmdPools"}
                         \cup (IF hint THEN {"session", "hintImages", "hintStage"}
                               ELSE IF ShaderFlow THEN {} ELSE {"session"})
<1>1. CASE hint
  BY <1>1 DEF Whole, FirstOf, BuildOrder
<1>2. CASE ~hint /\ ~ShaderFlow
  <2>1. BuildOrder(hint) = <<"images", "session", "sampler", "stages", "descPool", "cmdPools">>
    BY <1>2 DEF BuildOrder
  <2> QED
    BY <1>2, <2>1 DEF Whole, FirstOf
<1>3. CASE ~hint /\ ShaderFlow
  <2>1. BuildOrder(hint) = <<"images", "sampler", "stages", "descPool", "cmdPools">>
    BY <1>3 DEF BuildOrder
  <2> QED
    BY <1>3, <2>1 DEF Whole, FirstOf
<1> QED
  BY <1>1, <1>2, <1>3

\* A build that fails has taken its turn at fewer.
LEMMA PartlyCovers ==
  ASSUME NEW hint \in BOOLEAN, NEW made \in PartlyCreated(BuildOrder(hint))
  PROVE  made \subseteq Whole(hint)
<1>1. Len(BuildOrder(hint)) \in Nat
  <2>1. CASE hint
    BY <2>1 DEF BuildOrder
  <2>2. CASE ~hint /\ ~ShaderFlow
    BY <2>2 DEF BuildOrder
  <2>3. CASE ~hint /\ ShaderFlow
    BY <2>3 DEF BuildOrder
  <2> QED
    BY <2>1, <2>2, <2>3
<1> QED
  BY <1>1 DEF PartlyCreated, Whole, FirstOf

\* The groups that may be missing are among the two whose results are not looked
\* at, and there are none where no creation fails.
LEMMA MissingIs ==
  ASSUME NEW missing \in Missing
  PROVE  missing \subseteq {"sampler", "cmdPools"} /\ (~MayFail => missing = {})
BY DEF Missing, Unchecked

\* The interop is the last thing setupCnnInterop creates.
LEMMA InteropIsLast ==
  ASSUME NEW n \in 0 .. 3, NEW hint \in BOOLEAN, NEW missing \in Missing,
         "interop" \in (Whole(hint) \ missing) \cup FirstOf(CnnOrder, n)
  PROVE  {"cnnBuffers", "cnnStages"} \subseteq FirstOf(CnnOrder, n)
<1>1. "interop" \notin Whole(hint)
  BY BuildCovers
<1>2. n = 3
  BY <1>1 DEF FirstOf, CnnOrder
<1> QED
  BY <1>2 DEF FirstOf, CnnOrder

\* The inductive invariant: a pipeline that is ready is complete, and only such a
\* pipeline has work in flight.
LEMMA CompleteNext ==
  TypeOK /\ BuiltComplete /\ InFlight /\ [Next]_vars => BuiltComplete' /\ InFlight'
<1> SUFFICES ASSUME TypeOK, BuiltComplete, InFlight, [Next]_vars
             PROVE  BuiltComplete' /\ InFlight'
  OBVIOUS
<1> USE DEF TypeOK, BuiltComplete, InFlight, Live, pipeline, faults
<1>1. CASE RegisterColor
  BY <1>1 DEF RegisterColor
<1>2. CASE RegisterOutput
  BY <1>2 DEF RegisterOutput
<1>3. CASE RegisterAux
  BY <1>3 DEF RegisterAux
<1>4. ASSUME ClearRegistrations PROVE ~ready' /\ ~busy' /\ handle'["interop"] # "live"
  BY <1>4 DEF ClearRegistrations, TearsDown, DestroyPipeline, Drained, Groups
<1>5. CASE UnregisterAll
  BY <1>4, <1>5 DEF UnregisterAll
<1>6. CASE Resize
  BY <1>4, <1>6 DEF Resize
<1>7. CASE LoadModel
  BY <1>7 DEF LoadModel
<1>8. CASE SetDebugView
  BY <1>8 DEF SetDebugView, Drained
<1>9. CASE GenerateUnregistered
  BY <1>9 DEF GenerateUnregistered
<1>10. CASE BuildFails
  <2>1. PICK made \in PartlyCreated(BuildOrder(WantHint)), missing \in Missing :
          Created(made \ missing)
    BY <1>10 DEF BuildFails
  <2>2. "interop" \notin made \ missing
    <3>1. WantHint \in BOOLEAN
      BY DEF WantHint
    <3>2. made \subseteq Whole(WantHint)
      BY <3>1, PartlyCovers
    <3>3. "interop" \notin Whole(WantHint)
      BY <3>1, BuildCovers
    <3> QED
      BY <3>2, <3>3
  <2>3. handle'["interop"] = handle["interop"]
    BY <2>1, <2>2 DEF Created, Groups
  <2> QED
    BY <1>10, <2>3 DEF BuildFails
<1>11. CASE BuildAndGenerate
  <2>1. PICK n \in CnnSteps, missing \in Missing :
          Created((Whole(WantHint) \ missing) \cup FirstOf(CnnOrder, n))
    BY <1>11 DEF BuildAndGenerate
  <2>2. n \in 0 .. 3 /\ WantHint \in BOOLEAN
    BY DEF CnnSteps, WantHint
  <2> DEFINE Core == Whole(WantHint) \ missing
  <2>3. /\ {"images", "stages", "descPool"} \subseteq Core
        /\ ~ShaderFlow => "session" \in Core
        /\ WantHint => {"hintImages", "hintStage"} \subseteq Core
        /\ ~MayFail => Unchecked \subseteq Core
    BY <2>2, BuildCovers, MissingIs DEF Unchecked
  <2>4. "interop" \in Core \cup FirstOf(CnnOrder, n)
          => {"cnnBuffers", "cnnStages"} \subseteq FirstOf(CnnOrder, n)
    BY <2>2, InteropIsLast
  <2>5. Created(Core \cup FirstOf(CnnOrder, n))
    BY <2>1
  <2> HIDE DEF Core
  <2>6. \A g \in Core \cup FirstOf(CnnOrder, n) : g \in Groups => handle'[g] = "live"
    BY <2>5 DEF Created
  <2>7. ready' /\ builtFor' = extent' /\ useHint' = WantHint
    BY <1>11 DEF BuildAndGenerate
  <2>8. handle'["interop"] = "live" => {"cnnBuffers", "cnnStages"} \subseteq Live'
    <3>1. handle["interop"] # "live"
      BY <1>11 DEF BuildAndGenerate, Builds
    <3>2. handle'["interop"] = "live" => "interop" \in Core \cup FirstOf(CnnOrder, n)
      BY <2>5, <3>1 DEF Created, Groups
    <3> QED
      BY <2>4, <2>6, <3>2 DEF Groups
  <2> QED
    BY <2>3, <2>6, <2>7, <2>8 DEF Groups, Unchecked
<1>12. CASE Record
  BY <1>12 DEF Record
<1>13. CASE GpuFinishes
  BY <1>13 DEF GpuFinishes
<1>14. CASE Destroy
  BY <1>14 DEF Destroy, DestroyPipeline, Drained, Groups
<1>15. CASE UNCHANGED vars
  BY <1>15 DEF vars
<1> QED
  BY <1>1, <1>2, <1>3, <1>5, <1>6, <1>7, <1>8, <1>9, <1>10, <1>11, <1>12, <1>13, <1>14, <1>15
     DEF Next

\* A pipeline that is ready has the context's size and every object ensurePipeline
\* looks at the creation of, whichever creations failed; and where none fails, the
\* sampler and the command pools besides.
THEOREM BuiltCompleteCorrect == Spec => []BuiltComplete
<1>1. Init => BuiltComplete /\ InFlight
  BY DEF Init, BuiltComplete, InFlight, Groups
<1> QED
  BY <1>1, CompleteNext, TypeCorrect, PTL DEF Spec

\* Only a pipeline that exists has work in flight.
THEOREM InFlightCorrect == Spec => []InFlight
<1>1. Init => BuiltComplete /\ InFlight
  BY DEF Init, BuiltComplete, InFlight, Groups
<1> QED
  BY <1>1, CompleteNext, TypeCorrect, PTL DEF Spec

\* No object is destroyed and no descriptor set rewritten while the GPU may use it.
THEOREM IdleFirstCorrect == Spec => IdleFirst
<1>1. TypeOK /\ InFlight /\ [Next]_vars
        => [(bound' # bound \/ \E g \in Live : handle'[g] # "live") => ~busy \/ ~busy']_vars
  <2> SUFFICES ASSUME TypeOK, InFlight, Next, busy, busy'
               PROVE  bound' = bound /\ \A g \in Live : handle'[g] = "live"
    OBVIOUS
  <2> USE DEF Live, pipeline, faults
  <2>1. ready
    BY DEF InFlight
  <2>2. CASE RegisterColor \/ RegisterOutput \/ RegisterAux
    BY <2>2 DEF RegisterColor, RegisterOutput, RegisterAux
  <2>3. ~ClearRegistrations
    BY <2>1 DEF ClearRegistrations, TearsDown, Drained
  <2>4. CASE Resize
    BY <2>3, <2>4 DEF Resize
  <2>5. CASE LoadModel \/ GenerateUnregistered \/ Record
    BY <2>5 DEF LoadModel, GenerateUnregistered, Record
  <2>6. CASE SetDebugView
    BY <2>6 DEF SetDebugView, Drained
  <2>7. ~BuildFails /\ ~BuildAndGenerate /\ ~GpuFinishes /\ ~Destroy /\ ~UnregisterAll
    BY <2>1, <2>3 DEF BuildFails, BuildAndGenerate, Builds, GpuFinishes, Destroy, Drained,
                      UnregisterAll
  <2> QED
    BY <2>2, <2>4, <2>5, <2>6, <2>7 DEF Next
<1> QED
  BY <1>1, TypeCorrect, InFlightCorrect, PTL DEF Spec, IdleFirst

-----------------------------------------------------------------------------
(* The descriptor sets of an application that registers once per pipeline. *)

\* What refreshDescriptors and setupCnnInterop write.
LEMMA RefreshedValues ==
  ASSUME NEW hint, NEW old \in [Bindings -> 0 .. 4]
  PROVE  LET r == Refreshed(hint, old)  c == CnnBound(r)
         IN  /\ r["color"] = image["color"] /\ r["output"] = image["output"]
             /\ r["motion"] = OrDummy("motion") /\ r["ui"] = OrDummy("ui")
             /\ r["hint"] = IF hint THEN image["motion"] ELSE old["hint"]
             /\ r["debug"] = IF "debug" \in have THEN image["debug"] ELSE old["debug"]
             /\ \A b \in {"cnnColor", "cnnOutput", "cnnUi"} : r[b] = old[b]
             /\ \A b \in {"color", "output", "motion", "ui", "hint", "debug"} : c[b] = r[b]
             /\ c["cnnColor"] = image["color"] /\ c["cnnOutput"] = image["output"]
             /\ c["cnnUi"] = OrDummy("ui")
  BY DEF Refreshed, CnnBound, Bindings

LEMMA SetsNext ==
  ASSUME ~Reregister
  PROVE  TypeOK /\ InFlight /\ SetsCurrent /\ [Next]_vars => SetsCurrent'
<1> SUFFICES ASSUME TypeOK, InFlight, SetsCurrent, [Next]_vars PROVE SetsCurrent'
  OBVIOUS
<1> USE DEF SetsCurrent, Returns, registered, pipeline, faults
<1>1. CASE RegisterColor \/ RegisterOutput \/ RegisterAux
  BY <1>1 DEF RegisterColor, RegisterOutput, RegisterAux, MayRegister
<1>2. ASSUME ClearRegistrations PROVE ~ready'
  BY <1>2 DEF ClearRegistrations, TearsDown, DestroyPipeline
<1>3. CASE UnregisterAll
  BY <1>2, <1>3 DEF UnregisterAll
<1>4. CASE Resize
  BY <1>2, <1>4 DEF Resize, OrDummy
<1>5. CASE LoadModel
  BY <1>5 DEF LoadModel, OrDummy
<1>6. CASE SetDebugView
  <2> SUFFICES ASSUME ready PROVE SetsCurrent'
    BY <1>6 DEF SetDebugView
  <2>1. PICK target \in BOOLEAN :
          /\ IF target THEN Register({"debug"}, {})
             ELSE have' = have \ {"debug"} /\ UNCHANGED image
          /\ IF Rebinds(target)
             THEN bound' = [Refreshed(useHint, bound) EXCEPT !["debug"] = image'["debug"]]
             ELSE UNCHANGED bound
    BY <1>6 DEF SetDebugView
  <2>2. /\ have' \ {"debug"} = have \ {"debug"}
        /\ \A i \in {"color", "output", "motion", "ui"} : image'[i] = image[i]
        /\ OrDummy("ui")' = OrDummy("ui")
    BY <2>1 DEF Register, Inputs, OrDummy, TypeOK
  <2>3. /\ \A b \in {"color", "output"} \cup (have' \cap {"motion", "ui"}) : bound'[b] = image[b]
        /\ useHint => bound'["hint"] = image["motion"]
        /\ \A b \in {"cnnColor", "cnnOutput", "cnnUi"} : bound'[b] = bound[b]
    <3>1. CASE target
      <4>1. bound \in [Bindings -> 0 .. 4] /\ Refreshed(useHint, bound) \in [Bindings -> 0 .. 4]
        BY RefreshedType DEF TypeOK
      <4> QED
        BY <2>1, <2>2, <3>1, <4>1, RefreshedValues DEF Rebinds, OrDummy, Bindings
    <3>2. CASE ~target
      BY <2>1, <2>2, <3>2 DEF Rebinds
    <3> QED
      BY <3>1, <3>2
  <2>4. "debug" \in have' => bound'["debug"] = image'["debug"]
    <3>1. Refreshed(useHint, bound) \in [Bindings -> 0 .. 4]
      BY RefreshedType DEF TypeOK
    <3> QED
      BY <2>1, <3>1 DEF Rebinds, Bindings
  <2>5. useHint' = useHint /\ handle' = handle /\ ready' = ready /\ last'.op = "setup"
    BY <1>6 DEF SetDebugView
  <2> QED
    BY <2>2, <2>3, <2>4, <2>5
<1>7. CASE GenerateUnregistered
  BY <1>7 DEF GenerateUnregistered
<1>8. CASE BuildFails
  BY <1>8 DEF BuildFails
<1>9. CASE BuildAndGenerate
  <2>1. PICK n \in CnnSteps, missing \in Missing :
          /\ Created((Whole(WantHint) \ missing) \cup FirstOf(CnnOrder, n))
          /\ bound' = IF n >= 2 THEN CnnBound(Refreshed(WantHint, Blank))
                      ELSE Refreshed(WantHint, Blank)
    BY <1>9 DEF BuildAndGenerate
  <2>2. n \in 0 .. 3 /\ WantHint \in BOOLEAN
    BY DEF CnnSteps, WantHint
  <2>3. handle'["interop"] = "live" => n >= 2
    <3>1. handle["interop"] # "live"
      BY <1>9 DEF BuildAndGenerate, Builds, InFlight
    <3>2. handle'["interop"] = "live"
            => "interop" \in (Whole(WantHint) \ missing) \cup FirstOf(CnnOrder, n)
      BY <2>1, <3>1 DEF Created, Groups
    <3>3. "cnnStages" \in FirstOf(CnnOrder, n) => n >= 2
      BY <2>2 DEF FirstOf, CnnOrder
    <3> QED
      BY <2>2, <3>2, <3>3, InteropIsLast
  <2>4. Blank \in [Bindings -> 0 .. 4]
    BY DEF Blank
  <2>5. /\ \A b \in {"color", "output"} \cup (have \cap {"motion", "ui", "debug"}) : bound'[b] = image[b]
        /\ WantHint => bound'["hint"] = image["motion"]
        /\ n >= 2 => /\ bound'["cnnColor"] = image["color"] /\ bound'["cnnOutput"] = image["output"]
                     /\ bound'["cnnUi"] = OrDummy("ui")
    BY <2>1, <2>4, RefreshedValues DEF OrDummy
  <2>6. /\ have' = have /\ image' = image /\ useHint' = WantHint /\ ready'
        /\ {"color", "output"} \subseteq have /\ OrDummy("ui")' = OrDummy("ui")
    BY <1>9 DEF BuildAndGenerate, MayBuild, OrDummy
  <2> QED
    BY <2>3, <2>5, <2>6 DEF WantHint
<1>10. CASE Record
  BY <1>10 DEF Record, OrDummy
<1>11. CASE GpuFinishes
  BY <1>11 DEF GpuFinishes, OrDummy
<1>12. CASE Destroy
  BY <1>12 DEF Destroy, DestroyPipeline
<1>13. CASE UNCHANGED vars
  BY <1>13 DEF vars, OrDummy
<1> QED
  BY <1>1, <1>3, <1>4, <1>5, <1>6, <1>7, <1>8, <1>9, <1>10, <1>11, <1>12, <1>13 DEF Next

\* For an application that registers only while there is no pipeline, the sets name
\* the registered images as long as the pipeline lives.
THEOREM SetsCurrentCorrect == ASSUME ~Reregister PROVE Spec => []SetsCurrent
<1>1. Init => SetsCurrent
  BY DEF Init, SetsCurrent
<1> QED
  BY <1>1, SetsNext, TypeCorrect, InFlightCorrect, PTL DEF Spec

\* Every image a generate of such an application touches is the registered one.
THEOREM ReadsRegisteredCorrect == ASSUME ~Reregister PROVE Spec => []ReadsRegistered
<1>1. SetsCurrent => ReadsRegistered
  BY DEF SetsCurrent, ReadsRegistered, Used, InputOf
<1> QED
  BY <1>1, SetsCurrentCorrect, PTL

-----------------------------------------------------------------------------
(* The handles of a context whose creations succeed.                        *)

\* Objects exist only while the pipeline does, and nothing is built after nvofg_destroy.
LiveWithPipeline ==
  /\ ~ready => Live = {}
  /\ destroyed => ~ready

\* No object is lost: the pipeline that is torn down releases all there are, so the
\* next build overwrites none.
THEOREM NoLeakCorrect == ASSUME ~MayFail PROVE Spec => []NoLeak
<1> DEFINE IInv == LiveWithPipeline /\ ~leaked
<1>1. Init => IInv
  BY DEF Init, LiveWithPipeline, Live
<1>2. TypeOK /\ IInv /\ [Next]_vars => IInv'
  <2> SUFFICES ASSUME TypeOK, IInv, [Next]_vars PROVE IInv'
    OBVIOUS
  <2> USE DEF LiveWithPipeline, Live, pipeline, faults
  <2>1. CASE RegisterColor \/ RegisterOutput \/ RegisterAux \/ LoadModel
             \/ GenerateUnregistered \/ Record \/ GpuFinishes \/ UNCHANGED vars
    BY <2>1 DEF RegisterColor, RegisterOutput, RegisterAux, LoadModel, GenerateUnregistered,
                Record, GpuFinishes, vars
  <2>2. ASSUME DestroyPipeline PROVE ~ready' /\ leaked' = leaked /\ \A g \in Groups : handle'[g] # "live"
    BY <2>2 DEF DestroyPipeline
  <2>3. ASSUME ClearRegistrations, ~destroyed' PROVE IInv'
    BY <2>2, <2>3 DEF ClearRegistrations, TearsDown
  <2>4. CASE UnregisterAll
    BY <2>3, <2>4 DEF UnregisterAll
  <2>5. CASE Resize
    BY <2>3, <2>5 DEF Resize
  <2>6. CASE SetDebugView
    BY <2>6 DEF SetDebugView
  <2>7. CASE BuildFails
    BY <2>7 DEF BuildFails
  <2>8. CASE BuildAndGenerate
    <3>1. PICK new : Created(new)
      BY <2>8 DEF BuildAndGenerate
    <3>2. Live = {}
      BY <2>8 DEF BuildAndGenerate, Builds
    <3>3. ~leaked'
      BY <3>1, <3>2 DEF Created
    <3> QED
      BY <2>8, <3>3 DEF BuildAndGenerate, MayBuild
  <2>9. CASE Destroy
    BY <2>2, <2>9 DEF Destroy
  <2> QED
    BY <2>1, <2>4, <2>5, <2>6, <2>7, <2>8, <2>9 DEF Next
<1>3. IInv => NoLeak
  BY DEF LiveWithPipeline, NoLeak
<1> QED
  BY <1>1, <1>2, <1>3, TypeCorrect, PTL DEF Spec

\* The session of this context can take a motion hint.
HintPossible == ~ShaderFlow /\ UseMotion /\ caps.hint_support

\* A group that was created once is created again by every later build: the hint's
\* because the motion vectors are always there, the network's because a model stays.
ComesBack ==
  /\ ready => \A g \in Groups : handle[g] # "stale"
  /\ \A g \in Groups :
       handle[g] # "null" =>
         /\ g \in {"hintImages", "hintStage"} => HintPossible
         /\ g = "session" => ~ShaderFlow
         /\ g \in {"cnnBuffers", "cnnStages", "interop"} => model \/ destroyed
  /\ destroyed => ~ready

\* No object is destroyed twice, however often the context is resized and built again:
\* a handle that destroyPipeline leaves stale is overwritten by the next build.  Where the
\* session takes a hint this needs motion vectors that are not left out once announced.
THEOREM NoDoubleFreeCorrect ==
  ASSUME ~MayFail, AuxVaries => ~HintPossible
  PROVE  Spec => []NoDoubleFree
<1> DEFINE IInv == ComesBack /\ ~freedTwice
<1>1. Init => IInv
  BY DEF Init, ComesBack
<1>2. TypeOK /\ IInv /\ [Next]_vars => IInv'
  <2> SUFFICES ASSUME TypeOK, IInv, [Next]_vars PROVE IInv'
    OBVIOUS
  <2> USE DEF ComesBack, pipeline, faults
  <2>1. CASE RegisterColor \/ RegisterOutput \/ RegisterAux \/ LoadModel
             \/ GenerateUnregistered \/ Record \/ GpuFinishes \/ UNCHANGED vars
    BY <2>1 DEF RegisterColor, RegisterOutput, RegisterAux, LoadModel, GenerateUnregistered,
                Record, GpuFinishes, vars
  <2>2. ASSUME DestroyPipeline, ready
        PROVE  /\ ~ready' /\ ~freedTwice'
               /\ \A g \in Groups : handle'[g] # "null" => handle[g] # "null"
    BY <2>2 DEF DestroyPipeline
  <2>3. ASSUME ClearRegistrations, ~destroyed, UNCHANGED <<model, destroyed>> PROVE IInv'
    BY <2>2, <2>3 DEF ClearRegistrations, TearsDown
  <2>4. CASE UnregisterAll
    BY <2>3, <2>4 DEF UnregisterAll
  <2>5. CASE Resize
    BY <2>3, <2>5 DEF Resize
  <2>6. CASE SetDebugView
    BY <2>6 DEF SetDebugView
  <2>7. CASE BuildFails
    BY <2>7 DEF BuildFails
  <2>8. CASE BuildAndGenerate
    <3> DEFINE core == Whole(WantHint)
    <3>1. PICK n \in CnnSteps : Created(core \cup FirstOf(CnnOrder, n))
      <4>1. PICK n \in CnnSteps, missing \in Missing :
              Created((Whole(WantHint) \ missing) \cup FirstOf(CnnOrder, n))
        BY <2>8 DEF BuildAndGenerate
      <4>2. Whole(WantHint) \ missing = core
        BY MissingIs
      <4> QED
        BY <4>1, <4>2
    <3>2. WantHint \in BOOLEAN /\ (WantHint => HintPossible /\ ~ShaderFlow)
      BY DEF WantHint, HintPossible
    <3>3. core = {"images", "sampler", "stages", "descPool", "cmdPools"}
                    \cup (IF WantHint THEN {"session", "hintImages", "hintStage"}
                          ELSE IF ShaderFlow THEN {} ELSE {"session"})
      BY <3>2, BuildCovers
    <3> HIDE DEF core
    <3>4. FirstOf(CnnOrder, n) = IF model THEN {"cnnBuffers", "cnnStages", "interop"} ELSE {}
      BY DEF CnnSteps, FirstOf, CnnOrder
    <3>5. HintPossible => WantHint
      BY <2>8 DEF BuildAndGenerate, MayBuild, WantHint, HintPossible
    <3>6. /\ ~destroyed /\ UNCHANGED <<model, destroyed>> /\ freedTwice' = freedTwice
          /\ \A g \in Groups :
               handle'[g] = IF g \in core \cup FirstOf(CnnOrder, n) THEN "live" ELSE handle[g]
      BY <2>8, <3>1 DEF BuildAndGenerate, MayBuild, Created
    <3>7. \A g \in Groups : handle[g] = "stale" => g \in core \cup FirstOf(CnnOrder, n)
      BY <3>3, <3>4, <3>5, <3>6 DEF Groups, TypeOK
    <3> QED
      BY <3>2, <3>3, <3>4, <3>6, <3>7
  <2>9. CASE Destroy
    BY <2>2, <2>9 DEF Destroy
  <2> QED
    BY <2>1, <2>4, <2>5, <2>6, <2>7, <2>8, <2>9 DEF Next
<1> QED
  BY <1>1, <1>2, TypeCorrect, PTL DEF Spec, NoDoubleFree
=============================================================================
