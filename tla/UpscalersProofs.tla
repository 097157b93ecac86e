---------------------------- MODULE UpscalersProofs ----------------------------
(***************************************************************************)
(* What holds of Upscalers for any number of calls and any creations that  *)
(* may fail.                                                               *)
(*                                                                         *)
(* HistoryChained is not inductive: the two history images are swapped     *)
(* when a call is recorded and written when the device executes it, with   *)
(* any number of temporal dispatches between the two.  InOrder says that   *)
(* they execute in the order of their calls, and Chain what the images     *)
(* hold when the last one has, or while it is the only one.                *)
(* Owned says what an unfinished pass holds, and the types come last.      *)
(***************************************************************************)
EXTENDS Upscalers, TLAPS

\* The shapes that the proofs need of TypeOK.
Shapes ==
  /\ alive \in BOOLEAN /\ upscaler \in Upscaling /\ cut \in BOOLEAN
  /\ set \in Contents /\ calls \in 0 .. MaxCalls
  /\ parity \in {0, 1} /\ valid \in BOOLEAN
  /\ history \in [{0, 1} -> 0 .. MaxCalls]
  /\ buffer \in Seq(Dispatch) /\ queue \in Seq(Dispatch)

-------------------------------------------------------------------------------
(* The dispatches that are recorded and not yet executed                     *)

LEMMA RangeEmpty == Range(<<>>) = {}
BY DEF Range

LEMMA RangeAppend ==
  ASSUME NEW S, NEW s \in Seq(S), NEW x \in S
  PROVE  Range(Append(s, x)) = Range(s) \cup {x}
<1>1. /\ Len(Append(s, x)) = Len(s) + 1 /\ Len(s) \in Nat
      /\ DOMAIN s = 1 .. Len(s) /\ DOMAIN Append(s, x) = 1 .. Len(s) + 1
      /\ \A n \in 1 .. Len(s) : Append(s, x)[n] = s[n]
      /\ Append(s, x)[Len(s) + 1] = x
  OBVIOUS
<1>2. 1 .. Len(s) + 1 = (1 .. Len(s)) \cup {Len(s) + 1}
  BY <1>1
<1> QED BY <1>1, <1>2 DEF Range

LEMMA RangeConcat ==
  ASSUME NEW S, NEW s \in Seq(S), NEW t \in Seq(S)
  PROVE  Range(s \o t) = Range(s) \cup Range(t)
<1>1. /\ Len(s) \in Nat /\ Len(t) \in Nat
      /\ DOMAIN s = 1 .. Len(s) /\ DOMAIN t = 1 .. Len(t)
      /\ DOMAIN (s \o t) = 1 .. Len(s) + Len(t)
      /\ \A n \in 1 .. Len(s) : (s \o t)[n] = s[n]
      /\ \A n \in 1 .. Len(t) : (s \o t)[Len(s) + n] = t[n]
  OBVIOUS
<1>2. \A n \in 1 .. Len(s) + Len(t) :
        n \in 1 .. Len(s) \/ \E m \in 1 .. Len(t) : n = Len(s) + m
  <2>1. ASSUME NEW n \in 1 .. Len(s) + Len(t), n \notin 1 .. Len(s)
        PROVE  \E m \in 1 .. Len(t) : n = Len(s) + m
    <3>1. n - Len(s) \in 1 .. Len(t) /\ n = Len(s) + (n - Len(s))
      BY <1>1, <2>1
    <3> QED BY <3>1
  <2> QED BY <2>1
<1>3. \A n \in 1 .. Len(t) : Len(s) + n \in 1 .. Len(s) + Len(t)
  BY <1>1
<1>4. \A n \in 1 .. Len(s) : n \in 1 .. Len(s) + Len(t)
  BY <1>1
<1>5. Range(s \o t) \subseteq Range(s) \cup Range(t)
  BY <1>1, <1>2, SMTT(30) DEF Range
<1>6. Range(s) \cup Range(t) \subseteq Range(s \o t)
  BY <1>1, <1>3, <1>4 DEF Range
<1> QED BY <1>5, <1>6

LEMMA RangeTail ==
  ASSUME NEW S, NEW s \in Seq(S), s # <<>>
  PROVE  Range(s) = {Head(s)} \cup Range(Tail(s)) /\ Head(s) \in S /\ Tail(s) \in Seq(S)
<1>1. /\ Len(s) \in Nat /\ Len(s) >= 1 /\ DOMAIN s = 1 .. Len(s)
      /\ Head(s) = s[1] /\ Head(s) \in S /\ Tail(s) \in Seq(S)
      /\ DOMAIN Tail(s) = 1 .. Len(s) - 1
      /\ \A n \in 1 .. Len(s) - 1 : Tail(s)[n] = s[n + 1]
  OBVIOUS
<1>2. \A n \in 1 .. Len(s) : n = 1 \/ \E m \in 1 .. Len(s) - 1 : n = m + 1
  <2>1. ASSUME NEW n \in 1 .. Len(s), n # 1
        PROVE  n - 1 \in 1 .. Len(s) - 1 /\ n = (n - 1) + 1
    BY <1>1, <2>1
  <2> QED BY <2>1
<1>3. \A n \in 1 .. Len(s) - 1 : n + 1 \in 1 .. Len(s)
  BY <1>1
<1>4. Range(s) \subseteq {Head(s)} \cup Range(Tail(s))
  <2>1. ASSUME NEW n \in 1 .. Len(s)
        PROVE  s[n] \in {Head(s)} \cup Range(Tail(s))
    <3>1. CASE n = 1
      BY <1>1, <3>1
    <3>2. CASE \E m \in 1 .. Len(s) - 1 : n = m + 1
      <4>1. PICK m \in 1 .. Len(s) - 1 : n = m + 1
        BY <3>2
      <4>2. s[n] = Tail(s)[m] /\ m \in DOMAIN Tail(s)
        BY <1>1, <4>1
      <4> QED BY <4>2 DEF Range
    <3> QED BY <1>2, <3>1, <3>2
  <2> QED BY <1>1, <2>1 DEF Range
<1>5. {Head(s)} \cup Range(Tail(s)) \subseteq Range(s)
  BY <1>1, <1>3 DEF Range
<1> QED BY <1>1, <1>4, <1>5

-------------------------------------------------------------------------------
(* The steps                                                                 *)

\* The three ways a record call ends: it records a dispatch, its pass cannot be
\* built, or the debug view is asked for what no channel shows.
Recorded(k, r) == Calls(k) /\ Ensure(k) /\ Dispatches(k, r) /\ UNCHANGED gaveUp
Failed(k) == Calls(k) /\ EnsureFails(k)
Refused ==
  Calls("debug") /\ Ensure("debug") /\ UNCHANGED <<set, parity, valid, buffer, gaveUp, cut>>

LEMMA NextCases ==
  ASSUME upscaler \in Upscaling, Next
  PROVE  \/ \E k \in Upscaling : Commit(k)
         \/ \E k \in Kinds, r \in BOOLEAN : Recorded(k, r)
         \/ \E k \in Kinds : Failed(k)
         \/ Refused
         \/ Submit \/ Discard \/ Execute \/ Destroy
<1>0. "debug" \in Kinds /\ \A k \in Upscaling : k \in Kinds
  BY DEF Kinds
<1>1. ASSUME NEW k \in Kinds, NEW r \in BOOLEAN, Calls(k), Record(k, r)
      PROVE  Recorded(k, r) \/ Failed(k)
  BY <1>1 DEF Record, Recorded, Failed
<1>2. ASSUME NEW reset \in BOOLEAN, RecordUpscaling(reset)
      PROVE  \E k \in Kinds, r \in BOOLEAN : Recorded(k, r) \/ Failed(k)
  <2>1. \/ upscaler = "native" /\ Record("native", FALSE)
        \/ upscaler = "fsr" /\ Record("fsr", FALSE)
        \/ upscaler = "temporal" /\ Record("temporal", reset)
    BY <1>2 DEF RecordUpscaling, RecordNative, RecordFsr, RecordTemporal
  <2>2. Calls(upscaler)
    BY <1>2 DEF RecordUpscaling
  <2> QED BY <1>0, <1>1, <2>1, <2>2
<1>3. ASSUME RecordDebugView
      PROVE  Refused \/ \E k \in Kinds, r \in BOOLEAN : Recorded(k, r) \/ Failed(k)
  <2>1. Calls("debug")
    BY <1>3 DEF RecordDebugView
  <2>2. \/ Record("debug", FALSE)
        \/ Ensure("debug") /\ UNCHANGED <<set, parity, valid, buffer, cut, gaveUp>>
        \/ EnsureFails("debug")
    BY <1>3 DEF RecordDebugView
  <2> QED BY <1>0, <1>1, <2>1, <2>2 DEF Refused, Failed
<1> QED BY <1>2, <1>3 DEF Next

\* The dispatch that a temporal call records.
New(r) ==
  [kind |-> "temporal", set |-> [call |-> calls + 1, in |-> parity, out |-> 1 - parity],
   reset |-> FlagsReset(r), after |-> set.call, prev |-> Prev]

LEMMA NewType ==
  ASSUME UpscalersAssumption, Shapes, NEW k \in Kinds, NEW r \in BOOLEAN, Calls(k)
  PROVE  /\ calls + 1 \in 1 .. MaxCalls /\ calls \in Nat
         /\ New(r).set \in Contents /\ New(r) \in Temporal /\ New(r) \in Dispatch
<1>1. calls + 1 \in 1 .. MaxCalls /\ calls \in Nat /\ calls + 1 \in 0 .. MaxCalls
  BY DEF UpscalersAssumption, Shapes, Calls
<1>2. parity \in {0, 1} /\ 1 - parity \in {0, 1}
  BY DEF Shapes
<1>3. set.call \in 0 .. MaxCalls
  BY DEF Shapes, Contents
<1>4. Prev \in {"none", "dropped", "pending", "executed"}
  <2>1. valid \in BOOLEAN /\ cut \in BOOLEAN
    BY DEF Shapes
  <2> QED BY <2>1 DEF Prev
<1>5. FlagsReset(r) \in BOOLEAN
  BY DEF FlagsReset, Shapes
<1>6. New(r).set \in Contents
  BY <1>1, <1>2 DEF New, Contents
<1>7. New(r) \in Temporal
  BY <1>3, <1>4, <1>5, <1>6 DEF New, Temporal
<1> QED BY <1>1, <1>6, <1>7 DEF Dispatch

LEMMA TemporalStep ==
  ASSUME UpscalersAssumption, Shapes, NEW r \in BOOLEAN, Recorded("temporal", r)
  PROVE  /\ buffer' = Append(buffer, New(r)) /\ buffer' \in Seq(Dispatch)
         /\ PendingTemporal' = PendingTemporal \cup {New(r)}
         /\ set' = New(r).set /\ parity' = 1 - parity /\ valid' = TRUE /\ cut' = FALSE
<1>0. "temporal" \in Kinds
  BY DEF Kinds, Upscaling
<1>1. /\ buffer' = Append(buffer, New(r)) /\ queue' = queue
      /\ set' = New(r).set /\ parity' = 1 - parity /\ valid' = TRUE /\ cut' = FALSE
  BY DEF Recorded, Dispatches, DispatchesTemporal, Calls, New
<1>2. New(r) \in Dispatch /\ buffer \in Seq(Dispatch)
  BY <1>0, NewType DEF Recorded, Shapes
<1>3. Range(buffer') = Range(buffer) \cup {New(r)}
  BY <1>1, <1>2, RangeAppend
<1>4. New(r).kind = "temporal"
  BY DEF New
<1> QED BY <1>1, <1>2, <1>3, <1>4 DEF PendingTemporal

LEMMA OtherStep ==
  ASSUME Shapes, NEW k \in Kinds \ {"temporal"}, NEW r \in BOOLEAN, Recorded(k, r)
  PROVE  /\ buffer' = Append(buffer, [kind |-> k]) /\ buffer' \in Seq(Dispatch)
         /\ PendingTemporal' = PendingTemporal
         /\ UNCHANGED <<set, parity, valid, cut, history>> /\ ready \subseteq ready'
<1>1. /\ buffer' = Append(buffer, [kind |-> k]) /\ queue' = queue
      /\ UNCHANGED <<set, parity, valid, cut, history>> /\ ready \subseteq ready'
  BY DEF Recorded, Dispatches, Calls, Ensure
<1>2. [kind |-> k] \in Dispatch /\ buffer \in Seq(Dispatch)
  BY DEF Dispatch, Shapes
<1>3. Range(buffer') = Range(buffer) \cup {[kind |-> k]}
  BY <1>1, <1>2, RangeAppend
<1>4. [kind |-> k].kind # "temporal"
  OBVIOUS
<1> QED BY <1>1, <1>2, <1>3, <1>4 DEF PendingTemporal

LEMMA SubmitStep ==
  ASSUME Shapes, Submit
  PROVE  PendingTemporal' = PendingTemporal
<1>1. Range(queue') = Range(queue) \cup Range(buffer) /\ Range(buffer') = {}
  BY RangeConcat, RangeEmpty DEF Submit, Shapes
<1> QED BY <1>1 DEF PendingTemporal

LEMMA ExecuteStep ==
  ASSUME Shapes, Execute
  PROVE  /\ Head(queue) \in Dispatch /\ PendingTemporal' \subseteq PendingTemporal
         /\ Head(queue).kind = "temporal" => PendingTemporal = {Head(queue)} \cup PendingTemporal'
         /\ Head(queue).kind # "temporal" => PendingTemporal = PendingTemporal'
<1>1. Range(queue) = {Head(queue)} \cup Range(queue') /\ Head(queue) \in Dispatch
  BY RangeTail DEF Execute, Shapes
<1> QED BY <1>1 DEF PendingTemporal, Execute

LEMMA TemporalType ==
  ASSUME Shapes
  PROVE  \A d \in PendingTemporal : d \in Temporal /\ d \in Dispatch
<1>1. \A d \in PendingTemporal : d \in Dispatch /\ d.kind = "temporal"
  BY DEF Shapes, PendingTemporal, Range
<1> QED BY <1>1 DEF Dispatch

LEMMA ShapesNext == Shapes /\ [Next]_vars => Shapes'
<1> SUFFICES ASSUME Shapes, [Next]_vars PROVE Shapes'
  OBVIOUS
<1> USE UpscalersAssumption
<1>0. upscaler \in Upscaling
  BY DEF Shapes
<1>1. ASSUME NEW k \in Upscaling, Commit(k) PROVE Shapes'
  BY <1>1 DEF Commit, Shapes
<1>2. ASSUME NEW k \in Kinds, Calls(k)
      PROVE  calls' \in 0 .. MaxCalls /\ UNCHANGED <<alive, upscaler, queue>>
  BY <1>2 DEF Calls, Shapes, UpscalersAssumption
<1>3. ASSUME NEW k \in Kinds, Ensure(k) PROVE history' \in [{0, 1} -> 0 .. MaxCalls]
  BY <1>3 DEF Ensure, Shapes, Nobody, UpscalersAssumption
<1>4. ASSUME NEW k \in Kinds, NEW r \in BOOLEAN, Recorded(k, r) PROVE Shapes'
  <2>1. Calls(k) /\ Ensure(k)
    BY <1>4 DEF Recorded
  <2>2. /\ set' \in Contents /\ buffer' \in Seq(Dispatch)
        /\ cut' \in BOOLEAN /\ valid' \in BOOLEAN /\ parity' \in {0, 1}
    <3>1. CASE k = "temporal"
      <4>1. New(r).set \in Contents
        BY <2>1, NewType
      <4>2. parity' \in {0, 1}
        <5>1. parity' = 1 - parity
          BY <1>4, <3>1, TemporalStep
        <5> QED BY <5>1 DEF Shapes
      <4> QED BY <1>4, <3>1, <4>1, <4>2, TemporalStep
    <3>2. CASE k # "temporal"
      BY <1>4, <3>2, OtherStep DEF Shapes
    <3> QED BY <3>1, <3>2
  <2> QED BY <1>2, <1>3, <2>1, <2>2 DEF Shapes
<1>5. ASSUME NEW k \in Kinds, Failed(k) PROVE Shapes'
  <2>1. Calls(k) /\ UNCHANGED <<set, parity, valid, history, buffer, cut>>
    BY <1>5 DEF Failed, EnsureFails
  <2> QED BY <1>2, <2>1 DEF Shapes
<1>6. CASE Refused
  <2>1. "debug" \in Kinds
    BY DEF Kinds
  <2> QED BY <1>2, <1>3, <1>6, <2>1 DEF Refused, Shapes
<1>7. CASE Submit
  BY <1>7 DEF Submit, Shapes
<1>8. CASE Discard
  BY <1>8 DEF Discard, Shapes
<1>9. CASE Execute
  <2>1. Head(queue) \in Dispatch /\ Tail(queue) \in Seq(Dispatch)
    BY <1>9, RangeTail DEF Execute, Shapes
  <2>2. history' \in [{0, 1} -> 0 .. MaxCalls]
    <3>1. CASE Head(queue).kind # "temporal"
      BY <1>9, <3>1 DEF Execute, Shapes
    <3>2. CASE Head(queue).kind = "temporal"
      <4>1. Head(queue).set \in Contents
        BY <2>1, <3>2 DEF Dispatch, Temporal
      <4>2. PICK t \in {Head(queue).set, set} : history' = [history EXCEPT ![t.out] = Head(queue).set.call]
        BY <1>9, <3>2 DEF Execute
      <4>3. Head(queue).set.call \in 0 .. MaxCalls
        BY <4>1 DEF Contents
      <4> QED BY <4>2, <4>3 DEF Shapes
    <3> QED BY <3>1, <3>2
  <2> QED BY <1>9, <2>1, <2>2 DEF Execute, Shapes
<1>10. CASE Destroy
  BY <1>10 DEF Destroy, Shapes
<1>11. CASE UNCHANGED vars
  BY <1>11 DEF vars, Shapes
<1> QED
  BY <1>0, <1>1, <1>4, <1>5, <1>6, <1>7, <1>8, <1>9, <1>10, <1>11, NextCases

LEMMA ShapesInit == Init => Shapes
<1> SUFFICES ASSUME Init PROVE Shapes
  OBVIOUS
<1>1. 0 \in 0 .. MaxCalls
  BY UpscalersAssumption DEF UpscalersAssumption
<1>2. set \in Contents /\ history \in [{0, 1} -> 0 .. MaxCalls]
  BY <1>1 DEF Init, Fresh, Nobody, NoContents, Contents
<1>3. buffer \in Seq(Dispatch) /\ queue \in Seq(Dispatch)
  BY DEF Init
<1> QED BY <1>1, <1>2, <1>3 DEF Init, Fresh, Shapes, Upscaling

-------------------------------------------------------------------------------
(* The order of the temporal dispatches                                      *)

Increasing(s) ==
  \A i, j \in DOMAIN s :
    i < j /\ s[i].kind = "temporal" /\ s[j].kind = "temporal" => s[i].set.call < s[j].set.call

\* The temporal dispatches execute in the order of their calls, and the set holds
\* what the last call wrote.
InOrder ==
  /\ Increasing(queue) /\ Increasing(buffer)
  /\ \A d \in Range(queue), e \in Range(buffer) :
       d.kind = "temporal" /\ e.kind = "temporal" => d.set.call < e.set.call
  /\ \A d \in PendingTemporal : d.set.call <= set.call
  /\ set.call <= calls

\* Calls are numbers.
LEMMA CallNumbers ==
  ASSUME Shapes
  PROVE  /\ calls \in Nat /\ set.call \in Nat
         /\ \A d \in PendingTemporal : d.set.call \in Nat
         /\ \A d \in Range(queue) \cup Range(buffer) : d.kind = "temporal" => d \in PendingTemporal
<1>1. \A d \in PendingTemporal : d.set \in Contents
  BY TemporalType DEF Temporal
<1>2. \A c \in Contents : c.call \in Nat
  BY DEF Contents
<1> QED BY <1>1, <1>2 DEF Shapes, PendingTemporal

LEMMA IncreasingAppend ==
  ASSUME NEW s \in Seq(Dispatch), Increasing(s), NEW x \in Dispatch,
         x.kind = "temporal" => \A e \in Range(s) : e.kind = "temporal" => e.set.call < x.set.call
  PROVE  Increasing(Append(s, x))
<1>1. /\ Len(s) \in Nat /\ DOMAIN s = 1 .. Len(s) /\ DOMAIN Append(s, x) = 1 .. Len(s) + 1
      /\ \A n \in 1 .. Len(s) : Append(s, x)[n] = s[n]
      /\ Append(s, x)[Len(s) + 1] = x
  OBVIOUS
<1>2. \A i \in 1 .. Len(s) : s[i] \in Range(s)
  BY <1>1 DEF Range
<1> SUFFICES ASSUME NEW i \in 1 .. Len(s) + 1, NEW j \in 1 .. Len(s) + 1, i < j,
                    Append(s, x)[i].kind = "temporal", Append(s, x)[j].kind = "temporal"
             PROVE  Append(s, x)[i].set.call < Append(s, x)[j].set.call
  BY <1>1 DEF Increasing
<1>3. i \in 1 .. Len(s) /\ (j \in 1 .. Len(s) \/ j = Len(s) + 1)
  BY <1>1
<1>4. CASE j \in 1 .. Len(s)
  BY <1>1, <1>3, <1>4 DEF Increasing
<1>5. CASE j = Len(s) + 1
  BY <1>1, <1>2, <1>3, <1>5
<1> QED BY <1>3, <1>4, <1>5

LEMMA IncreasingConcat ==
  ASSUME NEW s \in Seq(Dispatch), NEW t \in Seq(Dispatch), Increasing(s), Increasing(t),
         \A d \in Range(s), e \in Range(t) :
           d.kind = "temporal" /\ e.kind = "temporal" => d.set.call < e.set.call
  PROVE  Increasing(s \o t)
<1>1. /\ Len(s) \in Nat /\ Len(t) \in Nat /\ DOMAIN s = 1 .. Len(s) /\ DOMAIN t = 1 .. Len(t)
      /\ DOMAIN (s \o t) = 1 .. Len(s) + Len(t)
      /\ \A n \in 1 .. Len(s) : (s \o t)[n] = s[n]
      /\ \A n \in 1 .. Len(t) : (s \o t)[Len(s) + n] = t[n]
  OBVIOUS
<1>2. (\A i \in 1 .. Len(s) : s[i] \in Range(s)) /\ (\A i \in 1 .. Len(t) : t[i] \in Range(t))
  BY <1>1 DEF Range
<1> SUFFICES ASSUME NEW i \in 1 .. Len(s) + Len(t), NEW j \in 1 .. Len(s) + Len(t), i < j,
                    (s \o t)[i].kind = "temporal", (s \o t)[j].kind = "temporal"
             PROVE  (s \o t)[i].set.call < (s \o t)[j].set.call
  BY <1>1 DEF Increasing
<1>3. CASE j \in 1 .. Len(s)
  <2>1. i \in 1 .. Len(s) /\ (s \o t)[i] = s[i] /\ (s \o t)[j] = s[j]
    BY <1>1, <1>3
  <2> QED BY <1>1, <1>3, <2>1 DEF Increasing
<1>4. CASE j \notin 1 .. Len(s)
  <2>1. PICK m \in 1 .. Len(t) : j = Len(s) + m
    <3>1. j - Len(s) \in 1 .. Len(t) /\ j = Len(s) + (j - Len(s))
      BY <1>1, <1>4
    <3> QED BY <3>1
  <2>2. (s \o t)[j] = t[m]
    BY <1>1, <2>1
  <2>3. CASE i \in 1 .. Len(s)
    BY <1>1, <1>2, <2>2, <2>3
  <2>4. CASE i \notin 1 .. Len(s)
    <3>1. PICK l \in 1 .. Len(t) : i = Len(s) + l
      <4>1. i - Len(s) \in 1 .. Len(t) /\ i = Len(s) + (i - Len(s))
        BY <1>1, <2>4
      <4> QED BY <4>1
    <3>2. (s \o t)[i] = t[l] /\ l < m
      BY <1>1, <2>1, <3>1
    <3> QED BY <1>1, <2>2, <3>2 DEF Increasing
  <2> QED BY <2>3, <2>4
<1> QED BY <1>3, <1>4

LEMMA IncreasingTail ==
  ASSUME NEW s \in Seq(Dispatch), s # <<>>, Increasing(s)
  PROVE  /\ Increasing(Tail(s))
         /\ Head(s).kind = "temporal" =>
              \A e \in Range(Tail(s)) : e.kind = "temporal" => Head(s).set.call < e.set.call
<1>1. /\ Len(s) \in Nat \ {0} /\ DOMAIN s = 1 .. Len(s) /\ DOMAIN Tail(s) = 1 .. Len(s) - 1
      /\ Head(s) = s[1] /\ \A n \in 1 .. Len(s) - 1 : Tail(s)[n] = s[n + 1]
  OBVIOUS
<1>2. \A n \in 1 .. Len(s) - 1 : n + 1 \in 1 .. Len(s) /\ 1 < n + 1
  BY <1>1
<1>3. 1 \in 1 .. Len(s)
  BY <1>1
<1>4. Increasing(Tail(s))
  <2> SUFFICES ASSUME NEW i \in 1 .. Len(s) - 1, NEW j \in 1 .. Len(s) - 1, i < j,
                      Tail(s)[i].kind = "temporal", Tail(s)[j].kind = "temporal"
               PROVE  Tail(s)[i].set.call < Tail(s)[j].set.call
    BY <1>1 DEF Increasing
  <2>1. i + 1 \in DOMAIN s /\ j + 1 \in DOMAIN s /\ i + 1 < j + 1
    BY <1>1
  <2> QED BY <1>1, <2>1 DEF Increasing
<1>5. ASSUME Head(s).kind = "temporal", NEW e \in Range(Tail(s)), e.kind = "temporal"
      PROVE  Head(s).set.call < e.set.call
  <2>1. PICK n \in 1 .. Len(s) - 1 : e = s[n + 1]
    BY <1>1 DEF Range
  <2> QED BY <1>1, <1>2, <1>3, <1>5, <2>1 DEF Increasing
<1> QED BY <1>4, <1>5

LEMMA InOrderNext == Shapes /\ InOrder /\ [Next]_vars => InOrder'
<1> SUFFICES ASSUME Shapes, InOrder, [Next]_vars PROVE InOrder'
  OBVIOUS
<1> USE UpscalersAssumption
<1>0. /\ calls \in Nat /\ set.call \in Nat /\ set.call <= calls
      /\ \A d \in Range(queue) \cup Range(buffer) : d.kind = "temporal" => d.set.call \in Nat /\ d.set.call <= set.call
  BY CallNumbers DEF InOrder
<1>1. ASSUME UNCHANGED <<buffer, queue, set>>, calls' \in {calls, calls + 1} PROVE InOrder'
  <2>1. set.call <= calls'
    BY <1>0, <1>1
  <2> QED BY <1>1, <2>1 DEF InOrder, PendingTemporal
<1>2. ASSUME NEW r \in BOOLEAN, Recorded("temporal", r) PROVE InOrder'
  <2>1. /\ buffer' = Append(buffer, New(r)) /\ PendingTemporal' = PendingTemporal \cup {New(r)}
        /\ set' = New(r).set
    BY <1>2, TemporalStep
  <2>2. queue' = queue /\ calls' = calls + 1 /\ New(r).set.call = calls + 1
    BY <1>2 DEF Recorded, Calls, New
  <2>3. New(r) \in Dispatch /\ buffer \in Seq(Dispatch)
    <3>1. "temporal" \in Kinds
      BY DEF Kinds, Upscaling
    <3> QED BY <1>2, <3>1, NewType DEF Recorded, Shapes
  <2>4. Range(buffer') = Range(buffer) \cup {New(r)}
    BY <2>1, <2>3, RangeAppend
  <2>5. \A d \in Range(queue) \cup Range(buffer) : d.kind = "temporal" => d.set.call < New(r).set.call
    BY <1>0, <2>2
  <2>6. Increasing(buffer')
    BY <2>1, <2>3, <2>5, IncreasingAppend DEF InOrder
  <2>7. \A d \in PendingTemporal' : d.set.call <= set'.call
    <3>1. \A d \in PendingTemporal : d.set.call <= calls + 1
      BY <1>0 DEF PendingTemporal
    <3> QED BY <1>0, <2>1, <2>2, <3>1
  <2>8. set'.call <= calls'
    BY <1>0, <2>1, <2>2
  <2>9. \A d \in Range(queue'), e \in Range(buffer') :
          d.kind = "temporal" /\ e.kind = "temporal" => d.set.call < e.set.call
    BY <2>2, <2>4, <2>5 DEF InOrder
  <2> QED BY <2>2, <2>6, <2>7, <2>8, <2>9 DEF InOrder
<1>3. ASSUME NEW k \in Kinds \ {"temporal"}, NEW r \in BOOLEAN, Recorded(k, r) PROVE InOrder'
  <2>1. /\ buffer' = Append(buffer, [kind |-> k]) /\ PendingTemporal' = PendingTemporal /\ UNCHANGED set
    BY <1>3, OtherStep
  <2>2. queue' = queue /\ calls' = calls + 1
    BY <1>3 DEF Recorded, Calls
  <2>3. [kind |-> k] \in Dispatch /\ buffer \in Seq(Dispatch) /\ [kind |-> k].kind # "temporal"
    BY DEF Dispatch, Shapes
  <2>4. Range(buffer') = Range(buffer) \cup {[kind |-> k]}
    BY <2>1, <2>3, RangeAppend
  <2>5. Increasing(buffer')
    BY <2>1, <2>3, IncreasingAppend DEF InOrder
  <2>6. set'.call <= calls'
    BY <1>0, <2>1, <2>2
  <2> QED BY <2>1, <2>2, <2>3, <2>4, <2>5, <2>6 DEF InOrder
<1>4. ASSUME NEW k \in Kinds, Failed(k) PROVE InOrder'
  BY <1>1, <1>4 DEF Failed, Calls, EnsureFails
<1>5. CASE Refused
  BY <1>1, <1>5 DEF Refused, Calls
<1>6. CASE Submit
  <2>1. Range(queue') = Range(queue) \cup Range(buffer) /\ Range(buffer') = {}
    BY <1>6, RangeConcat, RangeEmpty DEF Submit, Shapes
  <2>2. Increasing(queue')
    BY <1>6, IncreasingConcat DEF Submit, Shapes, InOrder
  <2>3. Increasing(buffer')
    BY <1>6 DEF Submit, Increasing
  <2>4. PendingTemporal' = PendingTemporal /\ UNCHANGED <<set, calls>>
    BY <1>6, SubmitStep DEF Submit
  <2> QED BY <2>1, <2>2, <2>3, <2>4 DEF InOrder
<1>7. CASE Discard
  <2>1. Increasing(buffer') /\ Range(buffer') = {}
    BY <1>7, RangeEmpty DEF Discard, Increasing
  <2>2. PendingTemporal' \subseteq PendingTemporal /\ UNCHANGED <<queue, set, calls>>
    BY <1>7, <2>1 DEF Discard, PendingTemporal
  <2> QED BY <2>1, <2>2 DEF InOrder
<1>8. CASE Execute
  <2>1. queue' = Tail(queue) /\ queue # <<>> /\ UNCHANGED <<buffer, set, calls>>
    BY <1>8 DEF Execute
  <2>2. Increasing(queue')
    BY <2>1, IncreasingTail DEF InOrder, Shapes
  <2>3. Range(queue') \subseteq Range(queue) /\ PendingTemporal' \subseteq PendingTemporal
    BY <1>8, <2>1, RangeTail, ExecuteStep DEF Shapes
  <2> QED BY <2>1, <2>2, <2>3 DEF InOrder
<1>9. CASE Destroy
  BY <1>1, <1>9 DEF Destroy
<1>10. CASE UNCHANGED vars
  BY <1>1, <1>10 DEF vars
<1>11. ASSUME NEW k \in Upscaling, Commit(k) PROVE InOrder'
  BY <1>1, <1>11 DEF Commit
<1> QED
  BY <1>2, <1>3, <1>4, <1>5, <1>6, <1>7, <1>8, <1>9, <1>10, <1>11, NextCases DEF Shapes

-------------------------------------------------------------------------------
(* The history of the temporal pass                                          *)

\* What the images hold.  The last temporal dispatch is pending or, unless it was
\* dropped, the newest image holds its output.  One that was recorded when nothing
\* was pending is the only one as long as the set is its own, and the image it blends
\* holds the output it was recorded after.
Chain ==
  /\ \A d \in PendingTemporal : d.set = set /\ d.prev \notin {"pending", "dropped"} =>
       /\ PendingTemporal = {d}
       /\ ~ d.reset => d.after # Nobody /\ history[d.set.in] = d.after
  /\ valid /\ ~ cut =>
       \/ \E d \in PendingTemporal : d.set = set
       \/ PendingTemporal = {} /\ history[parity] = set.call
  /\ PendingTemporal # {} => valid
  /\ valid => set.call # Nobody /\ set.out = parity
  /\ alive /\ valid => "temporal" \in ready
  /\ HistoryChained

\* A call of another pass, or one that fails, leaves the history alone.
LEMMA ChainElsewhere ==
  ASSUME Chain, PendingTemporal' = PendingTemporal, UNCHANGED <<set, parity, valid, cut, blended>>,
         valid => UNCHANGED history,
         alive' => alive, alive /\ alive' => ready \subseteq ready'
  PROVE  Chain'
<1>1. HistoryChained'
  BY DEF Chain, HistoryChained
<1>2. CASE valid
  BY <1>1, <1>2 DEF Chain
<1>3. CASE ~ valid
  BY <1>1, <1>3 DEF Chain
<1> QED BY <1>2, <1>3

\* The temporal call that is recorded has the images of the set to itself, if nothing
\* was pending and nothing has been dropped.
LEMMA ChainRecorded ==
  ASSUME Shapes, InOrder, Chain, UpscalersAssumption, NEW r \in BOOLEAN, Recorded("temporal", r)
  PROVE  Chain'
<1> DEFINE n == New(r)
<1>1. /\ PendingTemporal' = PendingTemporal \cup {n}
      /\ set' = n.set /\ parity' = 1 - parity /\ valid' = TRUE /\ cut' = FALSE
  BY TemporalStep
<1>2. /\ n.set.call = calls + 1 /\ n.set.in = parity /\ n.set.out = 1 - parity
      /\ n.after = set.call /\ n.prev = Prev /\ n.reset = FlagsReset(r)
  BY DEF New
<1>3. \A d \in PendingTemporal : d.set # set'
  <2>1. \A d \in PendingTemporal : d.set.call \in Nat /\ d.set.call <= set.call
    BY CallNumbers DEF InOrder
  <2>2. set.call \in Nat /\ calls \in Nat /\ set.call <= calls
    BY CallNumbers DEF InOrder
  <2>3. \A d \in PendingTemporal : d.set.call # calls + 1
    BY <2>1, <2>2
  <2> QED BY <1>1, <1>2, <2>3
<1>4. "temporal" \in ready' /\ (valid /\ alive => history' = history) /\ alive /\ alive'
  BY DEF Recorded, Ensure, BuiltAlready, Chain, Calls
<1>5. ASSUME n.prev \notin {"pending", "dropped"}
      PROVE  PendingTemporal = {} /\ (~ n.reset => n.after # Nobody /\ history'[n.set.in] = n.after)
  <2>1. CASE ~ valid
    BY <1>2, <2>1 DEF Chain, FlagsReset
  <2>2. CASE valid
    <3>1. ~ cut /\ PendingTemporal = {}
      BY <1>2, <1>5, <2>2 DEF Prev, Shapes
    <3>2. history[parity] = set.call /\ set.call # Nobody
      BY <2>2, <3>1 DEF Chain
    <3> QED BY <1>2, <1>4, <2>2, <3>1, <3>2
  <2> QED BY <2>1, <2>2
<1>6. HistoryChained'
  <2>1. blended' = blended
    BY DEF Recorded, Calls
  <2> QED BY <2>1 DEF Chain, HistoryChained
<1>7. set'.call # Nobody /\ set'.out = parity'
  BY <1>1, <1>2, CallNumbers DEF Nobody
<1> HIDE DEF n
<1>8. \A d \in PendingTemporal' : d.set = set' /\ d.prev \notin {"pending", "dropped"} =>
        PendingTemporal' = {d} /\ (~ d.reset => d.after # Nobody /\ history'[d.set.in] = d.after)
  <2> SUFFICES ASSUME NEW d \in PendingTemporal', d.set = set', d.prev \notin {"pending", "dropped"}
               PROVE  PendingTemporal' = {d} /\ (~ d.reset => d.after # Nobody /\ history'[d.set.in] = d.after)
    OBVIOUS
  <2>1. d = n
    BY <1>1, <1>3
  <2> QED BY <1>1, <1>5, <2>1
<1>9. \E d \in PendingTemporal' : d.set = set'
  BY <1>1
<1> QED BY <1>1, <1>4, <1>6, <1>7, <1>8, <1>9 DEF Chain

LEMMA ChainExecuted ==
  ASSUME Shapes, InOrder, Chain, Execute
  PROVE  Chain'
<1>1. PICK e \in Dispatch : e = Head(queue)
  BY ExecuteStep
<1>2. UNCHANGED <<alive, ready, set, parity, valid, cut, buffer>> /\ queue' = Tail(queue) /\ queue # <<>>
  BY DEF Execute
<1>3. CASE e.kind # "temporal"
  <2>1. PendingTemporal' = PendingTemporal
    BY <1>1, <1>3, ExecuteStep
  <2>2. UNCHANGED <<blended, history>>
    BY <1>1, <1>3 DEF Execute
  <2> QED BY <1>2, <2>1, <2>2, ChainElsewhere
<1>4. CASE e.kind = "temporal"
  <2>1. PICK s \in {e.set, set} :
          /\ blended' = [by |-> e, own |-> set = e.set, read |-> IF e.reset THEN Nobody ELSE history[s.in]]
          /\ history' = [history EXCEPT ![s.out] = e.set.call]
    BY <1>1, <1>4 DEF Execute
  <2>2. PendingTemporal = {e} \cup PendingTemporal' /\ e \in PendingTemporal
    BY <1>1, <1>4, ExecuteStep
  <2>3. \A d \in PendingTemporal' : e.set.call < d.set.call
    <3>1. \A d \in Range(queue') : d.kind = "temporal" => e.set.call < d.set.call
      BY <1>1, <1>2, <1>4, IncreasingTail DEF Shapes, InOrder
    <3>2. e \in Range(queue)
      BY <1>1, <1>2, RangeTail DEF Shapes
    <3>3. \A d \in Range(buffer') : d.kind = "temporal" => e.set.call < d.set.call
      BY <1>2, <1>4, <3>2 DEF InOrder
    <3> QED BY <3>1, <3>3 DEF PendingTemporal
  <2>4. \A d \in PendingTemporal : d.set.call \in Nat /\ d.set.call <= set.call
    BY CallNumbers DEF InOrder
  <2>5. HistoryChained'
    <3>1. CASE set = e.set /\ e.prev \notin {"pending", "dropped"} /\ ~ e.reset
      <4>1. e.after # Nobody /\ history[e.set.in] = e.after
        BY <2>2, <3>1 DEF Chain
      <4>2. s = e.set
        BY <3>1
      <4> QED BY <2>1, <3>1, <4>1, <4>2 DEF HistoryChained
    <3>2. CASE ~ (set = e.set /\ e.prev \notin {"pending", "dropped"} /\ ~ e.reset)
      BY <2>1, <3>2 DEF HistoryChained
    <3> QED BY <3>1, <3>2
  <2>6. CASE e.set = set
    <3>1. PendingTemporal' = {}
      <4>1. ASSUME NEW d \in PendingTemporal' PROVE FALSE
        <5>1. set.call < d.set.call /\ d.set.call <= set.call /\ d.set.call \in Nat /\ set.call \in Nat
          BY <2>2, <2>3, <2>4, <2>6, CallNumbers
        <5> QED BY <5>1
      <4> QED BY <4>1
    <3>2. valid => history'[parity] = set.call
      BY <2>1, <2>2, <2>6 DEF Chain, Shapes
    <3> QED BY <1>2, <2>5, <3>1, <3>2 DEF Chain
  <2>7. CASE e.set # set
    <3>1. \A d \in PendingTemporal' : ~ (d.set = set' /\ d.prev \notin {"pending", "dropped"})
      BY <1>2, <2>2, <2>7 DEF Chain
    <3>2. valid /\ ~ cut => \E d \in PendingTemporal' : d.set = set
      BY <2>2, <2>7 DEF Chain
    <3>3. PendingTemporal' # {} => valid
      BY <2>2 DEF Chain
    <3> QED BY <1>2, <2>5, <3>1, <3>2, <3>3 DEF Chain
  <2> QED BY <2>6, <2>7
<1> QED BY <1>3, <1>4

LEMMA ChainNext == Shapes /\ InOrder /\ Chain /\ [Next]_vars => Chain'
<1> SUFFICES ASSUME Shapes, InOrder, Chain, [Next]_vars PROVE Chain'
  OBVIOUS
<1> USE UpscalersAssumption
<1>0. ASSUME UNCHANGED <<buffer, queue>> PROVE PendingTemporal' = PendingTemporal
  BY <1>0 DEF PendingTemporal
<1>1. ASSUME NEW k \in Upscaling, Commit(k) PROVE Chain'
  BY <1>0, <1>1, ChainElsewhere DEF Commit
<1>2. ASSUME NEW k \in Kinds, NEW r \in BOOLEAN, Recorded(k, r) PROVE Chain'
  <2>1. CASE k = "temporal"
    BY <1>2, <2>1, ChainRecorded
  <2>2. CASE k # "temporal"
    <3>1. UNCHANGED <<alive, blended>>
      BY <1>2 DEF Recorded, Calls
    <3> QED BY <1>2, <2>2, <3>1, OtherStep, ChainElsewhere
  <2> QED BY <2>1, <2>2
<1>3. ASSUME NEW k \in Kinds, Failed(k) PROVE Chain'
  BY <1>0, <1>3, ChainElsewhere DEF Failed, Calls, EnsureFails
<1>4. CASE Refused
  <2>1. history' = history /\ ready \subseteq ready'
    BY <1>4 DEF Refused, Ensure
  <2> QED BY <1>0, <1>4, <2>1, ChainElsewhere DEF Refused, Calls
<1>5. CASE Submit
  BY <1>5, SubmitStep, ChainElsewhere DEF Submit
<1>6. CASE Discard
  <2>1. PendingTemporal' \subseteq PendingTemporal /\ PendingTemporal = PendingTemporal' \cup {d \in Range(buffer) : d.kind = "temporal"}
    BY <1>6, RangeEmpty DEF Discard, PendingTemporal
  <2>2. CASE \E d \in Range(buffer) : d.kind = "temporal"
    <3>1. valid /\ cut'
      BY <1>6, <2>1, <2>2 DEF Discard, Chain
    <3>2. UNCHANGED <<alive, ready, set, parity, valid, history, blended>>
      BY <1>6 DEF Discard
    <3>3. HistoryChained'
      BY <3>2 DEF Chain, HistoryChained
    <3>4. \A d \in PendingTemporal' : d.set = set' /\ d.prev \notin {"pending", "dropped"} =>
            PendingTemporal' = {d} /\ (~ d.reset => d.after # Nobody /\ history'[d.set.in] = d.after)
      BY <2>1, <3>2 DEF Chain
    <3> QED BY <3>1, <3>2, <3>3, <3>4 DEF Chain
  <2>3. CASE ~ \E d \in Range(buffer) : d.kind = "temporal"
    <3>1. PendingTemporal' = PendingTemporal
      BY <2>1, <2>3
    <3>2. cut' = cut
      BY <1>6, <2>3 DEF Discard, Shapes
    <3> QED BY <1>6, <3>1, <3>2, ChainElsewhere DEF Discard
  <2> QED BY <2>2, <2>3
<1>7. CASE Execute
  BY <1>7, ChainExecuted
<1>8. CASE Destroy
  BY <1>0, <1>8, ChainElsewhere DEF Destroy
<1>9. CASE UNCHANGED vars
  BY <1>0, <1>9, ChainElsewhere DEF vars
<1> QED
  BY <1>1, <1>2, <1>3, <1>4, <1>5, <1>6, <1>7, <1>8, <1>9, NextCases DEF Shapes

\* For any number of calls and any interleaving of them with submissions, dropped
\* buffers and the device, several frames in flight included: a temporal dispatch that
\* is no reset blends the output of the temporal call before it, if that one had
\* executed when it was recorded and it executes before the next one is, although the
\* history images are swapped when a call is recorded (upscale.cpp: frameParity,
\* historyValid) and there is one descriptor set.
THEOREM HistoryChainedCorrect == Spec => []HistoryChained
<1>1. Init => InOrder /\ Chain
  <2> SUFFICES ASSUME Init PROVE InOrder /\ Chain
    OBVIOUS
  <2>1. Range(buffer) = {} /\ Range(queue) = {} /\ PendingTemporal = {}
    BY RangeEmpty DEF Init, PendingTemporal
  <2>2. Increasing(buffer) /\ Increasing(queue)
    BY DEF Init, Increasing
  <2>3. set.call <= calls /\ ~ valid
    BY DEF Init, Fresh, NoContents, Nobody
  <2>4. HistoryChained
    BY DEF Init, HistoryChained, NoDispatch
  <2> QED BY <2>1, <2>2, <2>3, <2>4 DEF InOrder, Chain
<1>2. Chain => HistoryChained
  BY DEF Chain
<1> QED BY <1>1, <1>2, ShapesInit, ShapesNext, InOrderNext, ChainNext, PTL DEF Spec

-------------------------------------------------------------------------------
(* Objects                                                                   *)

\* A pass that is neither built nor given up holds nothing, and nothing is left
\* of a context that is gone.
Owned ==
  /\ \A k \in Kinds : k \notin ready \cup gaveUp => \A o \in held : o[1] # k
  /\ NothingLeft

LEMMA BuiltIsOwn ==
  ASSUME NEW k, NEW n
  PROVE  \A o \in Built(k, n) : o[1] = k \/ o = <<"shared", "sampler">>
<1>1. \A part : ObjectOf(k, part)[1] = k \/ ObjectOf(k, part) = <<"shared", "sampler">>
  BY DEF ObjectOf
<1> QED BY <1>1 DEF Built

\* What a pass creates overwrites nothing where the pass holds nothing.
LEMMA HoldsOwned ==
  ASSUME NEW k \in Kinds, NEW n, \A o \in held : o[1] # k, lost = {}, Holds(k, n)
  PROVE  /\ lost' = {}
         /\ \A j \in Kinds \ {k} : (\A o \in held : o[1] # j) => \A o \in held' : o[1] # j
<1>1. Overwritten(k, n) = {}
  BY BuiltIsOwn DEF Overwritten
<1>2. \A j \in Kinds \ {k} : \A o \in Built(k, n) : o[1] # j
  <2>1. "shared" \notin Kinds
    BY DEF Kinds, Upscaling
  <2>2. <<"shared", "sampler">>[1] = "shared"
    OBVIOUS
  <2> QED BY <2>1, <2>2, BuiltIsOwn
<1> QED BY <1>1, <1>2 DEF Holds

LEMMA EnsureOwned ==
  ASSUME Owned, alive, UNCHANGED alive, NEW k \in Kinds, k \notin gaveUp, Ensure(k), UNCHANGED gaveUp
  PROVE  Owned'
<1>1. CASE BuiltAlready(k)
  <2>1. UNCHANGED <<ready, held, lost>>
    BY <1>1 DEF Ensure
  <2> QED BY <2>1 DEF Owned, NothingLeft
<1>2. CASE ~ BuiltAlready(k)
  <2>1. Holds(k, Len(Parts[k])) /\ ready' = ready \cup {k}
    BY <1>2 DEF Ensure
  <2>2. /\ lost' = {}
        /\ \A j \in Kinds \ {k} : (\A o \in held : o[1] # j) => \A o \in held' : o[1] # j
    <3>1. (\A o \in held : o[1] # k) /\ lost = {}
      BY <1>2 DEF Owned, BuiltAlready, NothingLeft
    <3> QED BY <2>1, <3>1, HoldsOwned
  <2> QED BY <2>1, <2>2 DEF Owned, NothingLeft
<1> QED BY <1>1, <1>2

LEMMA EnsureFailsOwned ==
  ASSUME Owned, ~ Retries, alive, UNCHANGED alive, NEW k \in Kinds, k \notin gaveUp, EnsureFails(k)
  PROVE  Owned'
<1>1. \E n : Holds(k, n)
  BY DEF EnsureFails, FailsAt
<1>2. gaveUp' = gaveUp \cup {k} /\ ready' = ready /\ k \notin ready
  BY DEF EnsureFails, BuiltAlready
<1>3. /\ lost' = {}
      /\ \A j \in Kinds \ {k} : (\A o \in held : o[1] # j) => \A o \in held' : o[1] # j
  <2>1. (\A o \in held : o[1] # k) /\ lost = {}
    BY <1>2 DEF Owned, NothingLeft
  <2> QED BY <1>1, <2>1, HoldsOwned
<1> QED BY <1>2, <1>3 DEF Owned, NothingLeft

\* However the creations of the passes fail: an application that gives up a
\* pass that could not be built loses no object of it, and rfx_destroy leaves
\* none, half-built passes included (destroyUpscale, destroyDebug).
THEOREM NothingLeftCorrect ==
  ASSUME ~ Retries
  PROVE  Spec => []NothingLeft
<1>1. Init => Owned
  BY DEF Init, Fresh, Owned, NothingLeft
<1>2. Shapes /\ Owned /\ [Next]_vars => Owned'
  <2> SUFFICES ASSUME Shapes, Owned, [Next]_vars PROVE Owned'
    OBVIOUS
  <2>0. ASSUME UNCHANGED <<alive, ready, held, lost, gaveUp>> PROVE Owned'
    BY <2>0 DEF Owned, NothingLeft
  <2>1. ASSUME NEW k \in Kinds, NEW r \in BOOLEAN, Recorded(k, r) PROVE Owned'
    BY <2>1, EnsureOwned DEF Recorded, Calls
  <2>2. ASSUME NEW k \in Kinds, Failed(k) PROVE Owned'
    BY <2>2, EnsureFailsOwned DEF Failed, Calls
  <2>3. CASE Refused
    <3>1. "debug" \in Kinds
      BY DEF Kinds
    <3> QED BY <2>3, <3>1, EnsureOwned DEF Refused, Calls
  <2>4. CASE Destroy
    BY <2>4 DEF Destroy, Destroyed, Owned, NothingLeft
  <2>5. ASSUME NEW k \in Upscaling, Commit(k) PROVE Owned'
    BY <2>0, <2>5 DEF Commit
  <2>6. CASE Submit
    BY <2>0, <2>6 DEF Submit
  <2>7. CASE Discard
    BY <2>0, <2>7 DEF Discard
  <2>8. CASE Execute
    BY <2>0, <2>8 DEF Execute
  <2>9. CASE UNCHANGED vars
    BY <2>0, <2>9 DEF vars
  <2> QED
    BY <2>1, <2>2, <2>3, <2>4, <2>5, <2>6, <2>7, <2>8, <2>9, NextCases DEF Shapes
<1>3. Owned => NothingLeft
  BY DEF Owned
<1> QED BY <1>1, <1>2, <1>3, ShapesInit, ShapesNext, PTL DEF Spec

-------------------------------------------------------------------------------
(* Types                                                                     *)

PartNames == {"module", "layouts", "pipeline", "sampler", "pool", "history0", "history1", "dummy"}

LEMMA PartsType ==
  ASSUME NEW k \in Kinds
  PROVE  Parts[k] \in Seq(PartNames)
<1>1. /\ NativeParts \in Seq(PartNames) /\ TemporalParts \in Seq(PartNames)
      /\ FsrParts \in Seq(PartNames) /\ DebugParts \in Seq(PartNames)
  BY DEF NativeParts, TemporalParts, FsrParts, DebugParts, PartNames
<1>2. Parts[k] \in {NativeParts, TemporalParts, FsrParts, DebugParts}
  BY DEF Parts, Kinds, Upscaling
<1> QED BY <1>1, <1>2

LEMMA BuiltType ==
  ASSUME NEW k \in Kinds, NEW n \in Nat, n <= Len(Parts[k])
  PROVE  Built(k, n) \subseteq Object
<1>1. \A part \in PartNames : ObjectOf(k, part) \in Object
  <2> SUFFICES ASSUME NEW part \in PartNames PROVE ObjectOf(k, part) \in Object
    OBVIOUS
  <2>1. CASE part = "sampler"
    BY <2>1 DEF ObjectOf, Object
  <2>2. CASE part # "sampler"
    BY <2>2 DEF ObjectOf, Object, PartNames
  <2> QED BY <2>1, <2>2
<1>2. \A i \in 1 .. n : Parts[k][i] \in PartNames
  BY PartsType
<1> QED BY <1>1, <1>2 DEF Built

\* What TypeOK says beyond Shapes.
Handles == held \subseteq Object /\ lost \subseteq Object /\ ready \subseteq Kinds /\ gaveUp \subseteq Kinds

LEMMA EnsureHandles ==
  ASSUME Handles, NEW k \in Kinds, Ensure(k) \/ (EnsureFails(k) /\ UNCHANGED ready)
  PROVE  held' \subseteq Object /\ lost' \subseteq Object /\ ready' \subseteq Kinds
<1>1. Len(Parts[k]) \in Nat
  BY PartsType
<1>2. ASSUME NEW n \in Nat, n <= Len(Parts[k]), Holds(k, n)
      PROVE  held' \subseteq Object /\ lost' \subseteq Object
  BY <1>2, BuiltType DEF Handles, Holds, Overwritten
<1>3. CASE Ensure(k)
  BY <1>1, <1>2, <1>3 DEF Ensure, Handles
<1>4. CASE EnsureFails(k) /\ UNCHANGED ready
  <2>1. PICK n \in 1 .. Len(Parts[k]) : Holds(k, n - 1) \/ Holds(k, n)
    BY <1>4 DEF EnsureFails, FailsAt
  <2>2. n \in Nat /\ n - 1 \in Nat /\ n <= Len(Parts[k]) /\ n - 1 <= Len(Parts[k])
    BY <1>1
  <2> QED BY <1>2, <1>4, <2>1, <2>2 DEF Handles
<1> QED BY <1>3, <1>4

\* The variables keep their types; in particular a pass holds only objects it creates.
THEOREM TypeCorrect == Spec => []TypeOK
<1>1. Init => Handles
  BY DEF Init, Fresh, Handles
<1>2. Shapes /\ Handles /\ [Next]_vars => Handles'
  <2> SUFFICES ASSUME Shapes, Handles, [Next]_vars PROVE Handles'
    OBVIOUS
  <2>0. ASSUME UNCHANGED <<ready, held, lost, gaveUp>> PROVE Handles'
    BY <2>0 DEF Handles
  <2>1. ASSUME NEW k \in Kinds, NEW r \in BOOLEAN, Recorded(k, r) PROVE Handles'
    <3>1. Ensure(k) /\ gaveUp' = gaveUp
      BY <2>1 DEF Recorded
    <3>2. held' \subseteq Object /\ lost' \subseteq Object /\ ready' \subseteq Kinds
      BY <3>1, EnsureHandles
    <3> QED BY <3>1, <3>2 DEF Handles
  <2>2. ASSUME NEW k \in Kinds, Failed(k) PROVE Handles'
    <3>1. EnsureFails(k) /\ UNCHANGED ready /\ gaveUp' \subseteq gaveUp \cup {k}
      BY <2>2 DEF Failed, EnsureFails
    <3> QED BY <3>1, EnsureHandles DEF Handles
  <2>3. CASE Refused
    <3>1. "debug" \in Kinds
      BY DEF Kinds
    <3>2. Ensure("debug") /\ gaveUp' = gaveUp
      BY <2>3 DEF Refused
    <3>3. held' \subseteq Object /\ lost' \subseteq Object /\ ready' \subseteq Kinds
      BY <3>1, <3>2, EnsureHandles
    <3> QED BY <3>2, <3>3 DEF Handles
  <2>4. CASE Destroy
    BY <2>4 DEF Destroy, Handles
  <2>5. ASSUME NEW k \in Upscaling, Commit(k) PROVE Handles'
    BY <2>0, <2>5 DEF Commit
  <2>6. CASE Submit \/ Discard \/ Execute \/ UNCHANGED vars
    BY <2>0, <2>6 DEF Submit, Discard, Execute, vars
  <2> QED
    BY <2>1, <2>2, <2>3, <2>4, <2>5, <2>6, NextCases DEF Shapes
<1>3. Shapes /\ Handles => TypeOK
  BY DEF Shapes, Handles, TypeOK
<1> QED BY <1>1, <1>2, <1>3, ShapesInit, ShapesNext, PTL DEF Spec
===============================================================================
