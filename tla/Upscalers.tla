------------------------------ MODULE Upscalers -------------------------------
(***************************************************************************)
(* RenderFX's own compute passes (renderfx/src/upscale.cpp, rr_debug.cpp): *)
(* the native, temporal and FSR upscalers and the debug view.              *)
(*                                                                         *)
(* A pass builds its objects when it is first recorded.  The temporal pass *)
(* blends each frame into one of two history images and swaps them at      *)
(* record time, ahead of the device.  Its single descriptor set names the  *)
(* two and is rewritten in place by every record call, whether or not the  *)
(* last dispatch has executed, while a dispatch reads the set only when it *)
(* executes.  The sets of the other passes are rewritten the same way;     *)
(* they name images of the application only and are left out.              *)
(***************************************************************************)
EXTENDS Naturals, Sequences, SequencesExt

CONSTANTS
  Failing,    \* the objects whose creation may fail
  Retries,    \* whether the application uses a pass again that could not be built
  MaxCalls    \* bound on the record calls of a behaviour

Upscaling == {"native", "temporal", "fsr"}
Kinds == Upscaling \cup {"debug"}

\* The objects of each pass in the order they are created.  The sampler belongs
\* to whichever pass needs it first.
NativeParts == <<"module", "layouts", "pipeline", "sampler", "pool">>
TemporalParts ==
  <<"module", "layouts", "pipeline", "sampler", "history0", "history1", "dummy", "pool">>
FsrParts == <<"module", "layouts", "pipeline", "pool">>
DebugParts == <<"module", "layouts", "pipeline", "sampler", "pool", "dummy">>
Parts == [k \in Kinds |->
  CASE k = "native" -> NativeParts [] k = "temporal" -> TemporalParts
    [] k = "fsr" -> FsrParts       [] k = "debug" -> DebugParts]
\* The creations whose failure the code notices.
Checked == [k \in Kinds |->
  {"module", "pipeline"} \cup (IF k = "temporal" THEN {"history0", "history1", "dummy"} ELSE {})]
\* The passes that submit work of their own and wait for the queue.
OneShot == {"temporal", "debug"}

Object == Kinds \X {"module", "layouts", "pipeline", "pool", "history0", "history1", "dummy"}
            \cup {<<"shared", "sampler">>}
\* The views an application may ask for, one of a later header among them.
RfxDebugView ==
  {"RFX_DEBUG_NONE", "RFX_DEBUG_NORMALS", "RFX_DEBUG_ROUGHNESS", "RFX_DEBUG_DIFFUSE_ALBEDO",
   "RFX_DEBUG_SPECULAR_ALBEDO", "RFX_DEBUG_DEPTH", "RFX_DEBUG_MOTION", "RFX_DEBUG_LATER"}
NoChannel == "no channel"
Nobody == 0

ASSUME UpscalersAssumption ==
  /\ MaxCalls \in Nat /\ Retries \in BOOLEAN
  /\ Failing \subseteq Kinds \X {"module", "pipeline", "history0", "history1", "dummy"}

VARIABLES
  alive,      \* the context exists
  upscaler,   \* the committed upscaling pass
  ready,      \* upReady, tReady, fsrReady, dbgReady
  held,       \* the objects the context has handles to
  lost,       \* objects whose handle has been overwritten
  gaveUp,     \* the passes the application will not try again
  set,        \* tSet: the call that wrote it and the history images it names
  parity,     \* frameParity: the history image with the newest frame
  valid,      \* historyValid
  history,    \* the call whose output each history image holds
  buffer,     \* what the application's command buffer has recorded
  queue,      \* what is submitted and not yet executed
  calls,      \* the number of record calls so far
  \* history of the temporal frames
  blended,    \* the last dispatch executed, whether its set was still its own, what it blended
  cut         \* the application has dropped the last one it recorded

vars == <<alive, upscaler, ready, held, lost, gaveUp, set, parity, valid, history,
          buffer, queue, blended, cut, calls>>

\* What a call writes into the descriptor set.
Contents == [call : 0 .. MaxCalls, in : {0, 1}, out : {0, 1}]
NoContents == [call |-> Nobody, in |-> 0, out |-> 0]

\* A recorded dispatch.  Of a temporal one: the contents its call gave the set, the
\* reset flag pushed with it, the temporal call before and what had become of that.
Temporal == [kind : {"temporal"}, set : Contents, reset : BOOLEAN, after : 0 .. MaxCalls,
             prev : {"none", "dropped", "pending", "executed"}]
Dispatch == [kind : Kinds \ {"temporal"}] \cup Temporal
NoDispatch == [kind |-> "none"]

PendingTemporal == {d \in Range(buffer) \cup Range(queue) : d.kind = "temporal"}

-------------------------------------------------------------------------------
(* Objects                                                                   *)

ObjectOf(k, part) == IF part = "sampler" THEN <<"shared", "sampler">> ELSE <<k, part>>
Built(k, n) == {ObjectOf(k, Parts[k][i]) : i \in 1 .. n}

\* A creation overwrites a handle that is there already; the sampler is created
\* only where there is none.
Overwritten(k, n) == (Built(k, n) \cap held) \ {<<"shared", "sampler">>}

Holds(k, n) == held' = held \cup Built(k, n) /\ lost' = lost \cup Overwritten(k, n)

\* The n-th creation fails.  An owned image that fails may be there without its
\* memory or its view.
FailsAt(k, n) ==
  /\ Parts[k][n] \in Checked[k] /\ <<k, Parts[k][n]>> \in Failing
  /\ \/ Holds(k, n - 1)
     \/ Parts[k][n] \in {"history0", "history1", "dummy"} /\ Holds(k, n)

BuiltAlready(k) == k \in ready

\* ensureNative, ensureTemporal, ensureFsr, ensureDebug.  The passes that submit
\* return once the queue is idle.
Ensure(k) ==
  \/ BuiltAlready(k) /\ UNCHANGED <<ready, held, lost, history>>
  \/ /\ ~ BuiltAlready(k)
     /\ k \in OneShot => queue = <<>>
     /\ Holds(k, Len(Parts[k]))
     /\ ready' = ready \cup {k}
     /\ history' = IF k = "temporal" THEN [i \in {0, 1} |-> Nobody] ELSE history

EnsureFails(k) ==
  /\ ~ BuiltAlready(k)
  /\ \E n \in 1 .. Len(Parts[k]) : FailsAt(k, n)
  /\ gaveUp' = IF Retries THEN gaveUp ELSE gaveUp \cup {k}
  /\ UNCHANGED <<ready, set, parity, valid, history, buffer, cut>>

-------------------------------------------------------------------------------
(* Actions                                                                   *)

\* The context as rfx_create returns it.
Fresh ==
  /\ upscaler = "native" /\ ready = {} /\ held = {} /\ gaveUp = {}
  /\ set = NoContents
  /\ parity = 0 /\ valid = FALSE
  /\ history = [i \in {0, 1} |-> Nobody]

Init ==
  /\ Fresh /\ alive = TRUE /\ lost = {}
  /\ buffer = <<>> /\ queue = <<>> /\ calls = 0 /\ cut = FALSE
  /\ blended = [by |-> NoDispatch, own |-> TRUE, read |-> Nobody]

\* rfx_commit: what the passes have built and accumulated stays.
Commit(k) ==
  /\ alive /\ upscaler' = k
  /\ UNCHANGED <<alive, ready, held, lost, gaveUp, set, parity, valid, history,
                 buffer, queue, blended, cut, calls>>

\* What has become of the temporal dispatch recorded before this call.
Prev == CASE ~ valid                                   -> "none"
          [] valid /\ cut                              -> "dropped"
          [] valid /\ ~ cut /\ PendingTemporal # {}    -> "pending"
          [] valid /\ ~ cut /\ PendingTemporal = {}    -> "executed"

\* Mutant of FlagsReset: a first frame is not marked.
FlagsResetAsked(reset) == reset
\* The reset flag is set for a first frame whatever the application says.
FlagsReset(reset) == reset \/ ~ valid

\* The temporal set is rewritten with the two images, a dispatch recorded, and the
\* images swapped for the next call.
DispatchesTemporal(reset) ==
  /\ set' = [call |-> calls + 1, in |-> parity, out |-> 1 - parity]
  /\ buffer' = Append(buffer, [kind |-> "temporal", set |-> set', reset |-> FlagsReset(reset),
                               after |-> set.call, prev |-> Prev])
  /\ parity' = 1 - parity /\ valid' = TRUE /\ cut' = FALSE

Dispatches(k, reset) ==
  \/ k = "temporal" /\ DispatchesTemporal(reset)
  \/ /\ k # "temporal"
     /\ buffer' = Append(buffer, [kind |-> k])
     /\ UNCHANGED <<set, parity, valid, cut>>

\* One of the record functions.
Calls(k) ==
  /\ alive /\ calls < MaxCalls /\ k \notin gaveUp
  /\ calls' = calls + 1
  /\ UNCHANGED <<alive, upscaler, queue, blended>>

Record(k, reset) ==
  \/ Ensure(k) /\ Dispatches(k, reset) /\ UNCHANGED gaveUp
  \/ EnsureFails(k)

RecordNative == Record("native", FALSE)
RecordFsr == Record("fsr", FALSE)
RecordTemporal(reset) == Record("temporal", reset)

\* rfx_record_upscaling: the committed pass records.
RecordUpscaling(reset) ==
  /\ Calls(upscaler)
  /\ \/ upscaler = "native" /\ RecordNative
     \/ upscaler = "fsr" /\ RecordFsr
     \/ upscaler = "temporal" /\ RecordTemporal(reset)

\* The channel of the frame context a view shows.
channelFor(view) ==
  CASE view = "RFX_DEBUG_NORMALS"         -> "normals"
    [] view = "RFX_DEBUG_ROUGHNESS"       -> "roughness"
    [] view = "RFX_DEBUG_DIFFUSE_ALBEDO"  -> "albedo_diffuse"
    [] view = "RFX_DEBUG_SPECULAR_ALBEDO" -> "albedo_specular"
    [] view = "RFX_DEBUG_DEPTH"           -> "depth"
    [] view = "RFX_DEBUG_MOTION"          -> "motion"
    [] OTHER                              -> NoChannel

\* A view that shows no channel is refused, but after the pass has been built.
RecordDebugView == \E view \in RfxDebugView \ {"RFX_DEBUG_NONE"} :
  /\ Calls("debug")
  /\ IF channelFor(view) # NoChannel THEN Record("debug", FALSE)
     ELSE \/ Ensure("debug") /\ UNCHANGED <<set, parity, valid, buffer, cut, gaveUp>>
          \/ EnsureFails("debug")

\* The application submits what it has recorded, or drops it.
Submit ==
  /\ buffer # <<>>
  /\ queue' = queue \o buffer /\ buffer' = <<>>
  /\ UNCHANGED <<alive, upscaler, ready, held, lost, gaveUp, set, parity, valid, history,
                 blended, cut, calls>>

Discard ==
  /\ buffer # <<>> /\ buffer' = <<>>
  /\ cut' = (cut \/ \E d \in Range(buffer) : d.kind = "temporal")
  /\ UNCHANGED <<alive, upscaler, ready, held, lost, gaveUp, set, parity, valid, history,
                 queue, blended, calls>>

\* The device executes a dispatch.  The temporal one blends one history image,
\* unless it is a reset, and writes the other.  Which two is what the set names: a
\* set that was rewritten since may be read either way.
Execute ==
  /\ queue # <<>>
  /\ queue' = Tail(queue)
  /\ LET d == Head(queue)
     IN \/ /\ d.kind = "temporal"
           /\ \E s \in {d.set, set} :
                /\ blended' = [by |-> d, own |-> set = d.set,
                               read |-> IF d.reset THEN Nobody ELSE history[s.in]]
                /\ history' = [history EXCEPT ![s.out] = d.set.call]
        \/ d.kind # "temporal" /\ UNCHANGED <<blended, history>>
  /\ UNCHANGED <<alive, upscaler, ready, held, lost, gaveUp, set, parity, valid, buffer, cut, calls>>

\* Mutant of Destroyed: the objects of a pass that is not ready are not destroyed.
DestroyedIfReady == {o \in held : o[1] \in ready \cup {"shared"}}
\* destroyUpscale and destroyDebug look at every handle, not at what is ready.
Destroyed == held

Destroy ==
  /\ alive /\ buffer = <<>> /\ queue = <<>>
  /\ alive' = FALSE /\ held' = held \ Destroyed /\ ready' = {}
  /\ UNCHANGED <<upscaler, lost, gaveUp, set, parity, valid, history,
                 buffer, queue, blended, cut, calls>>

Next ==
  \/ \E k \in Upscaling : Commit(k)
  \/ \E reset \in BOOLEAN : RecordUpscaling(reset)
  \/ RecordDebugView
  \/ Submit \/ Discard \/ Execute \/ Destroy

Spec == Init /\ [][Next]_vars

-------------------------------------------------------------------------------
(* Properties                                                                *)

TypeOK ==
  /\ alive \in BOOLEAN /\ upscaler \in Upscaling
  /\ ready \subseteq Kinds /\ gaveUp \subseteq Kinds
  /\ cut \in BOOLEAN /\ held \subseteq Object /\ lost \subseteq Object
  /\ set \in Contents /\ calls \in 0 .. MaxCalls
  /\ parity \in {0, 1} /\ valid \in BOOLEAN
  /\ history \in [{0, 1} -> 0 .. MaxCalls]
  /\ buffer \in Seq(Dispatch) /\ queue \in Seq(Dispatch)

\* A temporal dispatch that is no reset blends the output of the temporal call
\* recorded before it, whatever was committed, recorded or dropped in between, if
\* that one had executed when it was recorded and it executes before the next one is:
\* with one temporal frame at a time, also after a time of several.
HistoryChained ==
  /\ blended.by.kind = "temporal" /\ ~ blended.by.reset
  /\ blended.own /\ blended.by.prev \notin {"pending", "dropped"}
  => blended.by.after # Nobody /\ blended.read = blended.by.after

\* upscale.cpp:199: "this frame's output becomes next frame's history", whether or not
\* the frame has executed when the next one is recorded.
BecomesHistory ==
  /\ blended.by.kind = "temporal" /\ ~ blended.by.reset
  /\ blended.by.prev # "dropped"
  => blended.read = blended.by.after

\* No object is left behind by a context whose application gives a pass up that
\* could not be built, half-built passes included.
NothingLeft == lost = {} /\ (~ alive => held = {})
===============================================================================
