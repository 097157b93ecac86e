----------------------------- MODULE FusionProofs ------------------------------
(***************************************************************************)
(* What holds of Fusion for any number of contexts, models, addresses and  *)
(* frames, and of the network at any frame size.                           *)
(*                                                                         *)
(* Loaded keeps the models of the contexts apart, Fresh ties the uploaded  *)
(* weights to the models, except at the addresses of deleted ones, and     *)
(* Ordered follows the values of the timeline through the batches and the  *)
(* stream.  Chained says of each wait what there is still to come for it,  *)
(* with which one part of the contexts and the stream can always move.     *)
(*                                                                         *)
(* The last section follows every temporary of the network through the     *)
(* list of operations, from where it is made to where it is dropped.       *)
(***************************************************************************)
EXTENDS Fusion, SequenceTheorems, TLAPS

-------------------------------------------------------------------------------
(* The stream                                                                *)

\* A frame with its weights uploaded puts three operations on the stream.
LEMMA ThreeMore ==
  ASSUME NEW T, NEW s \in Seq(T), NEW x \in T, NEW y \in T, NEW z \in T,
         NEW t, t = Append(s, x) \o <<y, z>>
  PROVE  /\ t \in Seq(T) /\ Len(t) = Len(s) + 3 /\ Len(s) \in Nat
         /\ DOMAIN t = 1 .. Len(s) + 3 /\ DOMAIN s = 1 .. Len(s)
         /\ \A i \in 1 .. Len(s) : t[i] = s[i]
         /\ t[Len(s) + 1] = x /\ t[Len(s) + 2] = y /\ t[Len(s) + 3] = z
<1>1. PICK a : a = Append(s, x)
  OBVIOUS
<1>2. /\ a \in Seq(T) /\ Len(a) = Len(s) + 1 /\ Len(s) \in Nat /\ DOMAIN s = 1 .. Len(s)
      /\ \A i \in 1 .. Len(s) : a[i] = s[i]
      /\ a[Len(s) + 1] = x
  BY <1>1
<1>3. PICK b : b = <<y, z>>
  OBVIOUS
<1>4. b \in Seq(T) /\ Len(b) = 2 /\ b[1] = y /\ b[2] = z
  BY <1>3
<1>5. t = a \o b
  BY <1>1, <1>3
<1>6. /\ t \in Seq(T) /\ Len(t) = Len(a) + Len(b)
      /\ \A i \in 1 .. Len(a) + Len(b) : t[i] = IF i <= Len(a) THEN a[i] ELSE b[i - Len(a)]
  BY <1>2, <1>4, <1>5, ConcatProperties
<1>7. \A i \in 1 .. Len(s) + 3 : t[i] = IF i <= Len(s) + 1 THEN a[i] ELSE b[i - (Len(s) + 1)]
  BY <1>2, <1>4, <1>6
<1>8. \A i \in 1 .. Len(s) : t[i] = s[i]
  BY <1>2, <1>7
<1>9. t[Len(s) + 1] = x
  BY <1>2, <1>7
<1>10. t[Len(s) + 2] = y
  BY <1>2, <1>4, <1>7
<1>11. t[Len(s) + 3] = z
  BY <1>2, <1>4, <1>7
<1> QED BY <1>2, <1>4, <1>6, <1>8, <1>9, <1>10, <1>11

LEMMA OneMore ==
  ASSUME NEW T, NEW s \in Seq(T), NEW x \in T
  PROVE  /\ Append(s, x) \in Seq(T) /\ Len(Append(s, x)) = Len(s) + 1 /\ Len(s) \in Nat
         /\ DOMAIN Append(s, x) = 1 .. Len(s) + 1 /\ DOMAIN s = 1 .. Len(s)
         /\ \A i \in 1 .. Len(s) : Append(s, x)[i] = s[i]
         /\ Append(s, x)[Len(s) + 1] = x
OBVIOUS

LEMMA OneLess ==
  ASSUME NEW T, NEW s \in Seq(T), s # <<>>
  PROVE  /\ Tail(s) \in Seq(T) /\ Len(Tail(s)) = Len(s) - 1 /\ Len(s) \in Nat \ {0}
         /\ DOMAIN Tail(s) = 1 .. Len(s) - 1 /\ DOMAIN s = 1 .. Len(s)
         /\ Head(s) = s[1] /\ Head(s) \in T
         /\ \A i \in 1 .. Len(s) - 1 : Tail(s)[i] = s[i + 1]
OBVIOUS

LEMMA TwoOps ==
  ASSUME NEW T, NEW y \in T, NEW z \in T
  PROVE  /\ <<y, z>> \in Seq(T) /\ DOMAIN <<y, z>> = 1 .. 2
         /\ <<y, z>>[1] = y /\ <<y, z>>[2] = z
OBVIOUS

-------------------------------------------------------------------------------
(* Models and contexts                                                       *)

\* The shapes that the proofs need of TypeOK.
Shapes ==
  /\ heap \in [Addresses -> Weights \cup {None}] /\ cache \in [Addresses -> Weights \cup {None}]
  /\ cnn \in [Contexts -> Addresses \cup {Null}]
  /\ interop \subseteq Contexts
  /\ frames \in [Contexts -> Nat] /\ reached \in [Contexts -> Nat]
  /\ batches \subseteq Batch /\ stream \in Seq(Op)
  /\ call \in [ctx : Contexts, value : Nat] \cup {NoUpload}

\* A context has a model of its own and keeps it while it has an interop.
Loaded ==
  /\ \A c \in Contexts : cnn[c] # Null => heap[cnn[c]] # None
  /\ \A c, d \in Contexts : cnn[c] = cnn[d] /\ c # d => cnn[c] = Null
  /\ \A c \in interop : cnn[c] # Null
  /\ ~ Idle => call.ctx \in interop

\* What is put on the stream is well formed.
LEMMA OpTypes ==
  ASSUME Shapes, Loaded, NEW c \in interop
  PROVE  /\ WaitOf(c) \in Op /\ SignalOf(c) \in Op
         /\ heap[cnn[c]] \in Weights /\ cnn[c] \in Addresses
         /\ \A w \in Weights : Run(c, w) \in Op
         /\ WarpOf(c) \in Batch /\ ResidualOf(c) \in Batch
<1>1. c \in Contexts /\ cnn[c] # Null
  BY DEF Shapes, Loaded
<1>2. cnn[c] \in Addresses
  BY <1>1 DEF Shapes
<1>3. heap[cnn[c]] \in Weights
  BY <1>1, <1>2 DEF Shapes, Loaded
<1>4. Base(c) \in Nat /\ Base(c) + 1 \in Nat /\ Base(c) + 2 \in Nat /\ Base(c) + 3 \in Nat /\ frames[c] + 1 \in Nat
  BY <1>1 DEF Base, Shapes
<1>5. WaitOf(c) \in Op /\ SignalOf(c) \in Op
  BY <1>1, <1>4 DEF WaitOf, SignalOf, Op
<1>6. \A w \in Weights : Run(c, w) \in Op
  BY <1>1, <1>3 DEF Run, Op
<1>7. WarpOf(c) \in Batch /\ ResidualOf(c) \in Batch
  BY <1>1, <1>4 DEF WarpOf, ResidualOf, Batch
<1> QED BY <1>2, <1>3, <1>5, <1>6, <1>7

\* A call that has its weights uploaded submits its whole frame.
Submits(c) ==
  /\ Cached(c)
  /\ stream' = Append(stream, WaitOf(c)) \o Enqueued(c, Run(c, cache[cnn[c]]))
  /\ batches' = batches \cup {WarpOf(c), ResidualOf(c)}
  /\ frames' = [frames EXCEPT ![c] = @ + 1]
  /\ UNCHANGED <<call, heap, cnn, cache, ready, interop, input, reached, ran, stale>>

\* A call that has not begins its frame.
Begins(c) ==
  /\ ~ Cached(c)
  /\ stream' = Append(stream, WaitOf(c))
  /\ batches' = batches \cup {WarpOf(c)}
  /\ call' = [ctx |-> c, value |-> Base(c) + 1]
  /\ UNCHANGED <<frames, heap, cnn, cache, ready, interop, input, reached, ran, stale>>

LEMMA GenerateCases ==
  ASSUME NEW c, Generate(c)
  PROVE  c \in interop /\ Idle /\ (Submits(c) \/ Begins(c))
BY DEF Generate, MayGenerate, Submits, Begins

LEMMA SubmitsStream ==
  ASSUME Shapes, Loaded, FusionAssumption, NEW c \in interop, Submits(c)
  PROVE  /\ stream' \in Seq(Op) /\ Len(stream) \in Nat
         /\ DOMAIN stream' = 1 .. Len(stream) + 3 /\ DOMAIN stream = 1 .. Len(stream)
         /\ \A i \in 1 .. Len(stream) : stream'[i] = stream[i]
         /\ stream'[Len(stream) + 1] = WaitOf(c)
         /\ stream'[Len(stream) + 2] = Run(c, cache[cnn[c]])
         /\ stream'[Len(stream) + 3] = SignalOf(c)
<1>1. cache[cnn[c]] \in Weights
  BY OpTypes DEF Submits, Cached, Shapes
<1>2. WaitOf(c) \in Op /\ SignalOf(c) \in Op /\ Run(c, cache[cnn[c]]) \in Op
  BY <1>1, OpTypes
<1>3. stream' = Append(stream, WaitOf(c)) \o <<Run(c, cache[cnn[c]]), SignalOf(c)>>
  BY DEF Submits, Enqueued
<1>4. stream \in Seq(Op)
  BY DEF Shapes
<1> QED BY <1>2, <1>3, <1>4, ThreeMore

LEMMA UploadStream ==
  ASSUME Shapes, Loaded, Upload
  PROVE  /\ call.ctx \in interop /\ call.ctx \in Contexts
         /\ stream' \in Seq(Op) /\ DOMAIN stream' = 1 .. 2
         /\ stream'[1] = Run(call.ctx, heap[cnn[call.ctx]])
         /\ stream'[2] = SignalOf(call.ctx)
<1>1. call.ctx \in interop /\ call.ctx \in Contexts
  BY DEF Upload, Loaded, Shapes
<1>2. Run(call.ctx, heap[cnn[call.ctx]]) \in Op /\ SignalOf(call.ctx) \in Op
  BY <1>1, OpTypes
<1>3. stream' = <<Run(call.ctx, heap[cnn[call.ctx]]), SignalOf(call.ctx)>>
  BY DEF Upload, Enqueued
<1> QED BY <1>1, <1>2, <1>3, TwoOps

LEMMA LoadedNext ==
  ASSUME FusionAssumption, Shapes, Loaded, [Next]_vars
  PROVE  Shapes' /\ Loaded'
<1>0. Null \notin Addresses /\ None \notin Weights
  BY DEF FusionAssumption
<1>1. ASSUME NEW c \in Contexts, NEW file \in Weights, Load(c, file)
      PROVE  Shapes' /\ Loaded'
  <2>1. PICK a \in Free :
          /\ heap' = [x \in Addresses |-> IF x = a THEN file ELSE IF x = cnn[c] THEN None ELSE heap[x]]
          /\ cnn' = [cnn EXCEPT ![c] = a]
    BY <1>1 DEF Load
  <2>2. file \in Weights /\ file # None
    BY <1>0
  <2>3. a \in Addresses /\ heap[a] = None
    BY DEF Free
  <2>4. \A d \in Contexts : cnn[d] # a
    BY <1>0, <2>3 DEF Loaded
  <2>5. heap' \in [Addresses -> Weights \cup {None}] /\ cnn' \in [Contexts -> Addresses \cup {Null}]
    BY <2>1, <2>2, <2>3 DEF Shapes
  <2>6. UNCHANGED <<cache, interop, frames, reached, batches, stream, call>> /\ Idle
    BY <1>1 DEF Load
  <2>7. Shapes'
    BY <2>5, <2>6 DEF Shapes
  <2>8. cnn'[c] = a /\ \A d \in Contexts \ {c} : cnn'[d] = cnn[d]
    BY <2>1 DEF Shapes
  <2>9. \A d \in Contexts : cnn'[d] # Null => heap'[cnn'[d]] # None
    <3>1. ASSUME NEW d \in Contexts, cnn'[d] # Null, d # c PROVE heap'[cnn'[d]] # None
      <4>1. cnn'[d] = cnn[d] /\ cnn[d] \in Addresses /\ cnn[d] # a /\ cnn[d] # cnn[c]
        BY <2>4, <2>8, <3>1 DEF Loaded, Shapes
      <4>2. heap'[cnn[d]] = heap[cnn[d]]
        BY <2>1, <4>1
      <4> QED BY <3>1, <4>1, <4>2 DEF Loaded
    <3>2. heap'[a] = file
      BY <2>1, <2>3
    <3> QED BY <2>2, <2>8, <3>1, <3>2
  <2>10. \A d, e \in Contexts : cnn'[d] = cnn'[e] /\ d # e => cnn'[d] = Null
    <3>1. \A d \in Contexts \ {c} : cnn'[d] # cnn'[c]
      BY <2>4, <2>8
    <3>2. \A d, e \in Contexts \ {c} : cnn[d] = cnn[e] /\ d # e => cnn[d] = Null
      BY DEF Loaded
    <3> QED BY <2>8, <3>1, <3>2
  <2>11. \A d \in interop' : cnn'[d] # Null
    BY <1>0, <2>3, <2>6, <2>8 DEF Loaded, Shapes
  <2>12. (~ Idle => call.ctx \in interop)'
    BY <2>6 DEF Idle
  <2>13. Loaded'
    BY <2>9, <2>10, <2>11, <2>12 DEF Loaded
  <2> QED BY <2>7, <2>13
<1>2. ASSUME UNCHANGED <<heap, cnn, interop, call>> PROVE Loaded'
  BY <1>2 DEF Loaded, Idle
<1>4. ASSUME NEW c \in Contexts, Build(c) PROVE Shapes' /\ Loaded'
  BY <1>4 DEF Build, Shapes, Loaded, Idle
<1>5. ASSUME NEW c \in Contexts, Render(c) PROVE Shapes' /\ Loaded'
  BY <1>2, <1>5 DEF Render, Shapes
<1>6. ASSUME NEW c \in Contexts, GeneratePlain(c) PROVE Shapes' /\ Loaded'
  <2>1. PlainOf(c) \in Batch
    <3>1. Base(c) \in Nat /\ Base(c) + 1 \in Nat /\ Base(c) + 3 \in Nat /\ frames[c] + 1 \in Nat
      BY DEF Base, Shapes
    <3>2. WarpOf(c) \in Batch
      BY <3>1 DEF WarpOf, Batch
    <3> QED BY <3>1, <3>2 DEF PlainOf, Batch
  <2> QED BY <1>2, <1>6, <2>1 DEF GeneratePlain, Shapes
<1>7. ASSUME NEW c \in Contexts, Generate(c) PROVE Shapes' /\ Loaded'
  <2>1. c \in interop /\ Idle
    BY <1>7, GenerateCases
  <2>2. CASE Submits(c)
    <3>1. stream' \in Seq(Op) /\ WarpOf(c) \in Batch /\ ResidualOf(c) \in Batch
      BY <2>1, <2>2, OpTypes, SubmitsStream
    <3> QED BY <1>2, <2>2, <3>1 DEF Submits, Shapes
  <2>3. CASE Begins(c)
    <3>1. WaitOf(c) \in Op /\ WarpOf(c) \in Batch /\ Base(c) + 1 \in Nat
      BY <2>1, OpTypes DEF Base, Shapes
    <3>2. stream' \in Seq(Op)
      BY <2>3, <3>1 DEF Begins, Shapes
    <3>3. Shapes'
      BY <2>3, <3>1, <3>2 DEF Begins, Shapes
    <3>4. Loaded'
      BY <2>1, <2>3 DEF Begins, Loaded
    <3> QED BY <3>3, <3>4
  <2> QED BY <1>7, <2>2, <2>3, GenerateCases
<1>8. CASE Upload
  <2>1. call.ctx \in interop /\ call.ctx \in Contexts /\ stream' \in Seq(Op)
    BY <1>8, UploadStream
  <2>2. heap[cnn[call.ctx]] \in Weights /\ ResidualOf(call.ctx) \in Batch
    BY <2>1, OpTypes
  <2>3. Shapes'
    <3>1. PICK c \in Contexts : c = call.ctx
      BY <2>1
    <3>2. /\ cache' = [cache EXCEPT ![cnn[c]] = heap[cnn[c]]]
          /\ batches' = batches \cup {ResidualOf(c)}
          /\ frames' = [frames EXCEPT ![c] = @ + 1]
          /\ call' = NoUpload /\ UNCHANGED <<heap, cnn, interop, reached>>
      BY <1>8, <3>1 DEF Upload
    <3>3. cache' \in [Addresses -> Weights \cup {None}]
      BY <2>2, <3>1, <3>2 DEF Shapes
    <3>4. frames' \in [Contexts -> Nat]
      BY <3>2 DEF Shapes
    <3> QED BY <2>1, <2>2, <3>1, <3>2, <3>3, <3>4 DEF Shapes
  <2>4. Loaded'
    BY <1>8 DEF Upload, Loaded, Idle
  <2> QED BY <2>3, <2>4
<1>9. ASSUME NEW b \in batches, Execute(b) PROVE Shapes' /\ Loaded'
  <2>1. b.value \in Nat
    BY DEF Shapes, Batch
  <2> QED BY <1>2, <1>9, <2>1 DEF Execute, Shapes
<1>10. CASE StreamStep
  <2>1. Head(stream) \in Op /\ Tail(stream) \in Seq(Op) /\ stream' = Tail(stream)
    BY <1>10, OneLess DEF StreamStep, Shapes
  <2>2. Head(stream).op = "signal" => Head(stream).value \in Nat
    BY <2>1 DEF Op
  <2>3. reached' \in [Contexts -> Nat]
    BY <1>10, <2>2 DEF StreamStep, Shapes
  <2> QED BY <1>2, <1>10, <2>1, <2>3 DEF StreamStep, Shapes
<1>11. ASSUME NEW c \in Contexts, TearDown(c) PROVE Shapes' /\ Loaded'
  BY <1>11 DEF TearDown, Shapes, Loaded, Idle
<1>12. ASSUME NEW c \in Contexts, Destroy(c) PROVE Shapes' /\ Loaded'
  <2>1. /\ heap' = [x \in Addresses |-> IF x = cnn[c] THEN None ELSE heap[x]]
        /\ cnn' = [cnn EXCEPT ![c] = Null] /\ interop' = interop \ {c} /\ Idle
        /\ UNCHANGED <<cache, frames, reached, batches, stream, call>>
    BY <1>12 DEF Destroy
  <2>2. cnn'[c] = Null /\ \A d \in Contexts \ {c} : cnn'[d] = cnn[d]
    BY <2>1 DEF Shapes
  <2>3. Shapes'
    BY <2>1 DEF Shapes
  <2>4. \A d \in Contexts : cnn'[d] # Null => heap'[cnn'[d]] # None
    <3>1. ASSUME NEW d \in Contexts, cnn'[d] # Null PROVE heap'[cnn'[d]] # None
      <4>1. d # c /\ cnn'[d] = cnn[d] /\ cnn[d] \in Addresses /\ cnn[d] # cnn[c]
        BY <2>2, <3>1 DEF Loaded, Shapes
      <4>2. heap'[cnn[d]] = heap[cnn[d]]
        BY <2>1, <4>1
      <4> QED BY <3>1, <4>1, <4>2 DEF Loaded
    <3> QED BY <3>1
  <2>5. Loaded'
    BY <2>1, <2>2, <2>4 DEF Loaded, Idle
  <2> QED BY <2>3, <2>5
<1>13. CASE UNCHANGED vars
  BY <1>2, <1>13 DEF vars, Shapes
<1> QED
  BY <1>1, <1>4, <1>5, <1>6, <1>7, <1>8, <1>9, <1>10, <1>11, <1>12, <1>13 DEF Next

LEMMA LoadedInit == FusionAssumption /\ Init => Shapes /\ Loaded
BY DEF FusionAssumption, Init, Shapes, Loaded, Idle, NoUpload

-------------------------------------------------------------------------------
(* The weights a frame is refined with                                       *)

\* The weights uploaded for an address are those of the model that is there, unless
\* they are a deleted one's, and what is on the stream was enqueued with them.
Fresh ==
  /\ \A a \in Addresses : cache[a] # None /\ a \notin stale => heap[a] = cache[a]
  /\ \A i \in DOMAIN stream : stream[i].op = "run" /\ stream[i].weights # stream[i].loaded => stream[i].reused
  /\ StaleOnlyByReuse

\* A fusion as it is put on the stream.
Honest(o) == o.op = "run" /\ o.weights # o.loaded => o.reused

LEMMA RunIsHonest ==
  ASSUME NEW c, NEW w, w = heap[cnn[c]] \/ cnn[c] \in stale
  PROVE  Honest(Run(c, w))
BY DEF Run, Honest

LEMMA WaitIsHonest == \A c : Honest(WaitOf(c)) /\ Honest(SignalOf(c))
BY DEF WaitOf, SignalOf, Honest

LEMMA FreshNext ==
  ASSUME FusionAssumption, Shapes, Loaded, Fresh, [Next]_vars
  PROVE  Fresh'
<1>0. ASSUME UNCHANGED <<heap, cache, stale, stream, ran>> PROVE Fresh'
  BY <1>0 DEF Fresh, StaleOnlyByReuse
<1>h. \A i \in DOMAIN stream : Honest(stream[i])
  BY DEF Fresh, Honest
<1>1. ASSUME NEW c \in Contexts, NEW file \in Weights, Load(c, file)
      PROVE  Fresh'
  <2>1. PICK a \in Free : heap' = [x \in Addresses |-> IF x = a THEN file ELSE IF x = cnn[c] THEN None ELSE heap[x]]
    BY <1>1 DEF Load
  <2>2. UNCHANGED <<cache, stream, ran>> /\ stale' = stale \cup Deleted(c)
    BY <1>1 DEF Load
  <2>3. a \in Addresses /\ heap[a] = None
    BY DEF Free
  <2>4. cache[a] # None => a \in stale
    BY <2>3 DEF Fresh
  <2>5. \A x \in Addresses : cache[x] # None /\ x = cnn[c] => x \in stale'
    BY <2>2 DEF Deleted
  <2>6. \A x \in Addresses : cache'[x] # None /\ x \notin stale' => heap'[x] = cache'[x]
    BY <2>1, <2>2, <2>4, <2>5 DEF Fresh
  <2> QED BY <2>2, <2>6 DEF Fresh, StaleOnlyByReuse
<1>3. ASSUME NEW c \in Contexts, Generate(c) PROVE Fresh'
  <2>1. c \in interop /\ cnn[c] \in Addresses
    BY <1>3, GenerateCases, OpTypes DEF Loaded, Shapes
  <2>2. UNCHANGED <<heap, cache, stale, ran>>
    BY <1>3 DEF Generate
  <2>3. \A i \in DOMAIN stream' : Honest(stream'[i])
    <3>1. CASE Submits(c)
      <4>1. cache[cnn[c]] = heap[cnn[c]] \/ cnn[c] \in stale
        BY <2>1, <3>1 DEF Submits, Cached, Fresh
      <4>2. Honest(Run(c, cache[cnn[c]])) /\ Honest(WaitOf(c)) /\ Honest(SignalOf(c))
        BY <4>1, RunIsHonest, WaitIsHonest
      <4>4. \A i \in 1 .. Len(stream) + 3 :
              \/ i \in 1 .. Len(stream) /\ stream'[i] = stream[i]
              \/ stream'[i] \in {WaitOf(c), Run(c, cache[cnn[c]]), SignalOf(c)}
        <5>1. Len(stream) \in Nat
          BY <2>1, <3>1, SubmitsStream
        <5>2. \A i \in 1 .. Len(stream) + 3 :
                i \in 1 .. Len(stream) \/ i = Len(stream) + 1 \/ i = Len(stream) + 2 \/ i = Len(stream) + 3
          BY <5>1
        <5> QED BY <2>1, <3>1, <5>2, SubmitsStream
      <4>5. DOMAIN stream' = 1 .. Len(stream) + 3 /\ DOMAIN stream = 1 .. Len(stream)
        BY <2>1, <3>1, SubmitsStream
      <4> QED BY <1>h, <4>2, <4>4, <4>5
    <3>2. CASE Begins(c)
      <4>1. WaitOf(c) \in Op /\ Honest(WaitOf(c))
        BY <2>1, OpTypes, WaitIsHonest
      <4>2. /\ DOMAIN stream' = 1 .. Len(stream) + 1 /\ DOMAIN stream = 1 .. Len(stream) /\ Len(stream) \in Nat
            /\ \A i \in 1 .. Len(stream) : stream'[i] = stream[i]
            /\ stream'[Len(stream) + 1] = WaitOf(c)
        BY <3>2, <4>1, OneMore DEF Begins, Shapes
      <4>3. \A i \in 1 .. Len(stream) + 1 : i \in 1 .. Len(stream) \/ i = Len(stream) + 1
        BY <4>2
      <4> QED BY <1>h, <4>1, <4>2, <4>3
    <3> QED BY <1>3, <3>1, <3>2, GenerateCases
  <2> QED BY <2>2, <2>3 DEF Fresh, StaleOnlyByReuse, Honest
<1>4. CASE Upload
  <2>1. PICK c \in interop : c = call.ctx
    BY <1>4, UploadStream
  <2>2. cnn[c] \in Addresses /\ UNCHANGED <<heap, stale, ran>>
    BY <1>4, <2>1, OpTypes DEF Upload
  <2>3. cache' = [cache EXCEPT ![cnn[c]] = heap[cnn[c]]]
    BY <1>4, <2>1 DEF Upload
  <2>4. \A a \in Addresses : cache'[a] # None /\ a \notin stale' => heap'[a] = cache'[a]
    BY <2>2, <2>3 DEF Fresh, Shapes
  <2>5. \A i \in DOMAIN stream' : Honest(stream'[i])
    <3>1. DOMAIN stream' = 1 .. 2 /\ stream'[1] = Run(c, heap[cnn[c]]) /\ stream'[2] = SignalOf(c)
      BY <1>4, <2>1, UploadStream
    <3>2. \A i \in 1 .. 2 : i = 1 \/ i = 2
      OBVIOUS
    <3>3. Honest(SignalOf(c)) /\ Honest(Run(c, heap[cnn[c]]))
      BY RunIsHonest, WaitIsHonest
    <3> QED BY <3>1, <3>2, <3>3
  <2> QED BY <2>2, <2>4, <2>5 DEF Fresh, StaleOnlyByReuse, Honest
<1>5. CASE StreamStep
  <2>1. UNCHANGED <<heap, cache, stale>>
    BY <1>5 DEF StreamStep
  <2>2. /\ DOMAIN stream' = 1 .. Len(stream) - 1 /\ DOMAIN stream = 1 .. Len(stream)
        /\ Len(stream) \in Nat \ {0} /\ Head(stream) = stream[1]
        /\ \A i \in 1 .. Len(stream) - 1 : stream'[i] = stream[i + 1]
    BY <1>5, OneLess DEF StreamStep, Shapes
  <2>3. \A i \in 1 .. Len(stream) - 1 : i + 1 \in 1 .. Len(stream)
    BY <2>2
  <2>4. \A i \in DOMAIN stream' : Honest(stream'[i])
    BY <1>h, <2>2, <2>3
  <2>5. StaleOnlyByReuse'
    <3>1. CASE UNCHANGED ran
      BY <3>1 DEF Fresh, StaleOnlyByReuse
    <3>2. CASE /\ Head(stream).op = "run"
               /\ ran' = [weights |-> Head(stream).weights, loaded |-> Head(stream).loaded,
                          reused |-> Head(stream).reused]
      <4>1. 1 \in DOMAIN stream
        BY <2>2
      <4>2. Honest(Head(stream))
        BY <1>h, <2>2, <4>1
      <4> QED BY <3>2, <4>2 DEF StaleOnlyByReuse, Honest
    <3> QED BY <1>5, <3>1, <3>2 DEF StreamStep
  <2> QED BY <2>1, <2>4, <2>5 DEF Fresh, Honest
<1>6. ASSUME NEW c \in Contexts, Destroy(c) PROVE Fresh'
  <2>1. /\ heap' = [x \in Addresses |-> IF x = cnn[c] THEN None ELSE heap[x]]
        /\ stale' = stale \cup Deleted(c) /\ UNCHANGED <<cache, stream, ran>>
    BY <1>6 DEF Destroy
  <2>2. \A x \in Addresses : cache[x] # None /\ x = cnn[c] => x \in stale'
    BY <2>1 DEF Deleted
  <2> QED BY <2>1, <2>2 DEF Fresh, StaleOnlyByReuse
<1>7. ASSUME NEW c \in Contexts, Build(c) \/ Render(c) \/ GeneratePlain(c) \/ TearDown(c) PROVE Fresh'
  BY <1>0, <1>7 DEF Build, Render, GeneratePlain, TearDown
<1>8. ASSUME NEW b \in batches, Execute(b) PROVE Fresh'
  BY <1>0, <1>8 DEF Execute
<1>9. CASE UNCHANGED vars
  BY <1>0, <1>9 DEF vars
<1> QED BY <1>1, <1>3, <1>4, <1>5, <1>6, <1>7, <1>8, <1>9 DEF Next

\* For any number of contexts, models and addresses, with addresses handed out again
\* as every heap does: a frame is refined with the weights of the model that was
\* loaded when it was generated, or that model lives where a deleted one had its own
\* uploaded, which are kept by address and never given up (cnn_cuda.cu, context.cpp).
THEOREM StaleOnlyByReuseCorrect == Spec => []StaleOnlyByReuse
<1>1. Init => Fresh
  BY DEF Init, Fresh, StaleOnlyByReuse
<1>2. Fresh => StaleOnlyByReuse
  BY DEF Fresh
<1>4. Init => Shapes /\ Loaded
  BY LoadedInit, FusionAssumption
<1>5. Shapes /\ Loaded /\ [Next]_vars => (Shapes /\ Loaded)'
  BY LoadedNext, FusionAssumption
<1>6. Shapes /\ Loaded /\ Fresh /\ [Next]_vars => Fresh'
  BY FreshNext, FusionAssumption
<1> QED BY <1>1, <1>2, <1>4, <1>5, <1>6, PTL DEF Spec

-------------------------------------------------------------------------------
(* What the stream refers to                                                 *)

\* The last value of the timeline of c that a submitted batch will signal.
Promised(c) == 3 * frames[c] + (IF ~ Idle /\ call.ctx = c THEN 1 ELSE 0)

\* A batch is the warp, the residual or the whole of frame f + 1.
Third(f, b) ==
  \/ b.after = 3 * f /\ b.value = 3 * f + 1
  \/ b.after = 3 * f + 2 /\ b.value = 3 * f + 3
  \/ b.after = 3 * f /\ b.value = 3 * f + 3

Bounded ==
  /\ \A c \in Contexts : reached[c] <= Promised(c)
  /\ \A b \in batches : b.value <= Promised(b.ctx) /\ \E f \in Nat : Third(f, b)

IsSignal(o, c, v) == o.op = "signal" /\ o.ctx = c /\ o.value = v

\* The value v of c is still to come, and a submitted batch waits for it: the
\* device is not idle before it has been signalled.
Awaited(c, v) ==
  /\ \E f \in Nat : v = 3 * f + 2
  /\ reached[c] < v /\ v < 3 * frames[c]
  /\ \E b \in batches : b.ctx = c /\ b.after = v
  /\ \A b \in batches : b.ctx = c /\ b.value = b.after + 3 => b.after + 2 # v

\* The signals on the stream are awaited, those of a context come in the order
\* of its timeline, and behind every operation there is one of its context,
\* unless the call that enqueued it waits for the upload.
Signals ==
  \A c \in Contexts, v \in Nat, i \in DOMAIN stream : IsSignal(stream[i], c, v) => Awaited(c, v)
Increasing ==
  \A c \in Contexts : \A v, w \in Nat : \A i, j \in DOMAIN stream :
    i < j /\ IsSignal(stream[i], c, v) /\ IsSignal(stream[j], c, w) => v < w
Covered ==
  \A c \in Contexts, i \in DOMAIN stream : stream[i].ctx = c =>
    \/ \E j \in DOMAIN stream, v \in Nat : i <= j /\ IsSignal(stream[j], c, v)
    \/ ~ Idle /\ call.ctx = c

Ordered == Bounded /\ Signals /\ Increasing /\ Covered /\ InteropUnused

LEMMA StreamType ==
  ASSUME Shapes, NEW i \in DOMAIN stream
  PROVE  /\ stream[i] \in Op /\ stream[i].ctx \in Contexts
         /\ stream[i].op = "signal" =>
              stream[i].value \in Nat /\ IsSignal(stream[i], stream[i].ctx, stream[i].value)
<1>1. stream[i] \in Op
  BY DEF Shapes
<1> QED BY <1>1 DEF Op, IsSignal

\* A new batch disturbs nothing that is awaited, unless it stands for the whole
\* of a frame that is.
LEMMA StillAwaited ==
  ASSUME Shapes, NEW c \in Contexts, NEW v \in Nat, Awaited(c, v),
         reached' = reached, frames' \in [Contexts -> Nat], frames[c] <= frames'[c],
         batches \subseteq batches',
         \A b \in batches' \ batches : b.ctx = c /\ b.value = b.after + 3 => b.after + 2 # v
  PROVE  Awaited(c, v)'
<1>1. v < 3 * frames'[c]
  BY DEF Awaited, Shapes
<1> QED BY <1>1 DEF Awaited

\* Whatever leaves the batches and the stream alone, and enough interops.
LEMMA OrderedElsewhere ==
  ASSUME Ordered, UNCHANGED <<frames, reached, batches, stream, call>>,
         interop \subseteq interop' \/ DOMAIN stream = {}
  PROVE  Ordered'
<1>1. Bounded'
  BY DEF Ordered, Bounded, Promised, Idle
<1>2. Signals'
  <2> SUFFICES ASSUME NEW c \in Contexts, NEW v \in Nat, NEW i \in DOMAIN stream, IsSignal(stream[i], c, v)
               PROVE  Awaited(c, v)'
    BY DEF Signals
  <2>1. Awaited(c, v)
    BY DEF Ordered, Signals
  <2> QED BY <2>1 DEF Awaited
<1>3. Increasing'
  BY DEF Ordered, Increasing
<1>4. Covered'
  BY DEF Ordered, Covered, Idle
<1>5. InteropUnused'
  BY DEF Ordered, InteropUnused
<1> QED BY <1>1, <1>2, <1>3, <1>4, <1>5 DEF Ordered

\* Where Vulkan has nothing left to execute the stream is empty.
LEMMA IdleCoversStream ==
  ASSUME Shapes, Ordered, Idle, DeviceIdle
  PROVE  DOMAIN stream = {}
<1> SUFFICES ASSUME NEW i \in DOMAIN stream PROVE FALSE
  OBVIOUS
<1>1. stream[i].ctx \in Contexts
  BY StreamType
<1>2. PICK j \in DOMAIN stream, v \in Nat : IsSignal(stream[j], stream[i].ctx, v)
  BY <1>1 DEF Ordered, Covered
<1>3. Awaited(stream[i].ctx, v)
  BY <1>1, <1>2 DEF Ordered, Signals
<1> QED BY <1>3 DEF Awaited, DeviceIdle

\* A context's next frame while no call waits for an upload.
LEMMA NextFrame ==
  ASSUME Shapes, Ordered, Idle, NEW c \in Contexts
  PROVE  /\ Base(c) = 3 * frames[c] /\ Promised(c) = Base(c) /\ frames[c] \in Nat
         /\ reached[c] \in Nat /\ reached[c] <= Base(c)
         /\ \A v \in Nat : Awaited(c, v) => v < Base(c)
         /\ \A b \in batches : b.ctx = c => b.value <= Base(c)
BY DEF Shapes, Ordered, Bounded, Promised, Base, Awaited

LEMMA PlainOrdered ==
  ASSUME Shapes, Ordered, NEW c \in Contexts, GeneratePlain(c)
  PROVE  Ordered'
<1>1. /\ batches' = batches \cup {PlainOf(c)} /\ frames' = [frames EXCEPT ![c] = @ + 1]
      /\ UNCHANGED <<interop, reached, stream, call>> /\ Idle
  BY DEF GeneratePlain, MayGenerate
<1>2. /\ Base(c) = 3 * frames[c] /\ frames[c] \in Nat /\ reached[c] <= Base(c)
      /\ \A v \in Nat : Awaited(c, v) => v < Base(c)
  BY <1>1, NextFrame
<1>3. PICK p : p = PlainOf(c)
  OBVIOUS
<1>4. p.ctx = c /\ p.after = Base(c) /\ p.value = Base(c) + 3
  BY <1>3 DEF PlainOf, WarpOf
<1>5. frames' \in [Contexts -> Nat] /\ frames'[c] = frames[c] + 1 /\ \A d \in Contexts : frames[d] <= frames'[d]
  BY <1>1 DEF Shapes
<1>6. \A d \in Contexts : Promised(d) <= Promised(d)' /\ Promised(c)' = Base(c) + 3
  <2>1. Idle'
    BY <1>1 DEF Idle
  <2>2. \A d \in Contexts : frames[d] \in Nat /\ frames'[d] \in Nat
    BY <1>5 DEF Shapes
  <2>3. \A d \in Contexts : Promised(d) = 3 * frames[d]
    BY <1>1, <2>2 DEF Promised
  <2>4. \A d \in Contexts : Promised(d)' = 3 * frames'[d]
    BY <2>1, <2>2 DEF Promised
  <2> QED BY <1>2, <1>5, <2>2, <2>3, <2>4
<1>7. Bounded'
  <2>1. \A d \in Contexts : reached'[d] <= Promised(d)'
    BY <1>1, <1>6, <1>5 DEF Ordered, Bounded, Shapes, Promised
  <2>2. \E f \in Nat : Third(f, p)
    BY <1>2, <1>4 DEF Third
  <2>3. p.value <= Promised(p.ctx)'
    BY <1>2, <1>4, <1>6
  <2>4. \A b \in batches : b.value <= Promised(b.ctx)' /\ \E f \in Nat : Third(f, b)
    BY <1>6, <1>5, <1>1, SMTT(30) DEF Ordered, Bounded, Shapes, Batch, Promised
  <2> QED BY <1>1, <1>3, <2>1, <2>2, <2>3, <2>4 DEF Bounded
<1>8. Signals'
  <2> SUFFICES ASSUME NEW d \in Contexts, NEW v \in Nat, NEW i \in DOMAIN stream, IsSignal(stream[i], d, v)
               PROVE  Awaited(d, v)'
    BY <1>1 DEF Signals
  <2>1. Awaited(d, v)
    BY DEF Ordered, Signals
  <2>2. d = c => v < Base(c)
    BY <1>2, <2>1
  <2>3. \A b \in batches' \ batches : b.ctx = d /\ b.value = b.after + 3 => b.after + 2 # v
    BY <1>1, <1>2, <1>3, <1>4, <2>2
  <2> QED BY <1>1, <1>5, <2>1, <2>3, StillAwaited
<1>9. Increasing' /\ Covered' /\ InteropUnused'
  BY <1>1 DEF Ordered, Increasing, Covered, InteropUnused, Idle
<1> QED BY <1>7, <1>8, <1>9 DEF Ordered

\* The batches of the operations on the stream and of the warp and residual.
LEMMA OpsOf ==
  ASSUME NEW c
  PROVE  /\ WaitOf(c).ctx = c /\ SignalOf(c).ctx = c
         /\ \A w : Run(c, w).ctx = c
         /\ \A d, v : ~ IsSignal(WaitOf(c), d, v)
         /\ \A w, d, v : ~ IsSignal(Run(c, w), d, v)
         /\ \A d, v : IsSignal(SignalOf(c), d, v) <=> d = c /\ v = Base(c) + 2
         /\ WarpOf(c).ctx = c /\ WarpOf(c).after = Base(c) /\ WarpOf(c).value = Base(c) + 1
         /\ ResidualOf(c).ctx = c /\ ResidualOf(c).after = Base(c) + 2
         /\ ResidualOf(c).value = Base(c) + 3
BY DEF WaitOf, SignalOf, Run, WarpOf, ResidualOf, IsSignal

LEMMA SubmitsOrdered ==
  ASSUME FusionAssumption, Shapes, Loaded, Ordered, Idle, NEW c \in interop, Submits(c)
  PROVE  Ordered'
<1>1. /\ frames' = [frames EXCEPT ![c] = @ + 1]
      /\ UNCHANGED <<interop, reached, call>> /\ Idle' /\ c \in Contexts
  BY DEF Submits, Idle, Shapes
<1>2. /\ Base(c) = 3 * frames[c] /\ frames[c] \in Nat /\ reached[c] \in Nat /\ reached[c] <= Base(c)
      /\ \A v \in Nat : Awaited(c, v) => v < Base(c)
      /\ \A b \in batches : b.ctx = c => b.value <= Base(c)
  BY <1>1, NextFrame
<1>3. PICK p, r : /\ p = WarpOf(c) /\ r = ResidualOf(c) /\ batches' = batches \cup {p, r}
                  /\ p.ctx = c /\ p.after = Base(c) /\ p.value = Base(c) + 1
                  /\ r.ctx = c /\ r.after = Base(c) + 2 /\ r.value = Base(c) + 3
  BY OpsOf DEF Submits
<1>4. PICK n : n = Len(stream)
  OBVIOUS
<1>5. PICK x, y, z : x = WaitOf(c) /\ y = Run(c, cache[cnn[c]]) /\ z = SignalOf(c)
  OBVIOUS
<1>6. /\ n \in Nat /\ DOMAIN stream' = 1 .. n + 3 /\ DOMAIN stream = 1 .. n
      /\ \A i \in 1 .. n : stream'[i] = stream[i]
      /\ stream'[n + 1] = x /\ stream'[n + 2] = y /\ stream'[n + 3] = z
  BY <1>4, <1>5, SubmitsStream
<1>7. /\ x.ctx = c /\ y.ctx = c /\ z.ctx = c
      /\ \A d, v : ~ IsSignal(x, d, v) /\ ~ IsSignal(y, d, v)
      /\ \A d, v : IsSignal(z, d, v) <=> d = c /\ v = Base(c) + 2
  BY <1>5, OpsOf
<1>8. \A i \in DOMAIN stream' : i \in 1 .. n \/ i = n + 1 \/ i = n + 2 \/ i = n + 3
  BY <1>6
<1>9. /\ frames' \in [Contexts -> Nat] /\ frames'[c] = frames[c] + 1
      /\ \A d \in Contexts : frames[d] <= frames'[d]
  BY <1>1 DEF Shapes
<1>10. \A d \in Contexts : Promised(d) <= Promised(d)' /\ Promised(c)' = Base(c) + 3
  <2>1. \A d \in Contexts : frames[d] \in Nat /\ frames'[d] \in Nat
    BY <1>9 DEF Shapes
  <2>2. \A d \in Contexts : Promised(d) = 3 * frames[d]
    BY <1>1, <2>1 DEF Promised
  <2>3. \A d \in Contexts : Promised(d)' = 3 * frames'[d]
    BY <1>1, <2>1 DEF Promised
  <2> QED BY <1>1, <1>2, <1>9, <2>1, <2>2, <2>3
<1>11. Bounded'
  <2>1. \A d \in Contexts : reached'[d] <= Promised(d)'
    BY <1>1, <1>10, <1>9 DEF Ordered, Bounded, Shapes, Promised
  <2>2. \E f \in Nat : Third(f, p)
    BY <1>2, <1>3 DEF Third
  <2>3. \E f \in Nat : Third(f, r)
    BY <1>2, <1>3 DEF Third
  <2>4. p.value <= Promised(p.ctx)' /\ r.value <= Promised(r.ctx)'
    BY <1>1, <1>2, <1>3, <1>10
  <2>5. \A b \in batches : b.value <= Promised(b.ctx)' /\ \E f \in Nat : Third(f, b)
    BY <1>10, <1>9, <1>1, SMTT(30) DEF Ordered, Bounded, Shapes, Batch, Promised
  <2> QED BY <1>3, <2>1, <2>2, <2>3, <2>4, <2>5 DEF Bounded
<1>12. Signals'
  <2> SUFFICES ASSUME NEW d \in Contexts, NEW v \in Nat, NEW i \in DOMAIN stream', IsSignal(stream'[i], d, v)
               PROVE  Awaited(d, v)'
    BY DEF Signals, IsSignal
  <2>1. CASE i \in 1 .. n
    <3>1. Awaited(d, v)
      BY <1>6, <2>1 DEF Ordered, Signals
    <3>2. \A b \in batches' \ batches : b.ctx = d /\ b.value = b.after + 3 => b.after + 2 # v
      BY <1>2, <1>3
    <3> QED BY <1>1, <1>3, <1>9, <3>1, <3>2, StillAwaited
  <2>2. CASE i = n + 3
    <3>1. d = c /\ v = Base(c) + 2
      BY <1>6, <1>7, <2>2
    <3>2. /\ v = 3 * frames[c] + 2 /\ reached'[c] < v /\ v < 3 * frames'[c]
      BY <1>1, <1>2, <1>9, <3>1
    <3>3. \E b \in batches' : b.ctx = c /\ b.after = v
      BY <1>3, <3>1
    <3>4. \A b \in batches : b.value \in Nat /\ b.after \in Nat
      BY DEF Shapes, Batch
    <3>5. \A b \in batches' : b.ctx = c /\ b.value = b.after + 3 => b.after + 2 # v
      BY <1>2, <1>3, <3>1, <3>4
    <3> QED BY <1>2, <3>1, <3>2, <3>3, <3>5 DEF Awaited
  <2> QED BY <1>6, <1>7, <1>8, <2>1, <2>2
<1>13. Increasing'
  <2> SUFFICES ASSUME NEW d \in Contexts, NEW v \in Nat, NEW w \in Nat,
                      NEW i \in DOMAIN stream', NEW j \in DOMAIN stream', i < j,
                      IsSignal(stream'[i], d, v), IsSignal(stream'[j], d, w)
               PROVE  v < w
    BY DEF Increasing, IsSignal
  <2>1. i \in 1 .. n /\ stream'[i] = stream[i] /\ (j \in 1 .. n \/ j = n + 3)
    BY <1>6, <1>7, <1>8
  <2>2. CASE j \in 1 .. n
    BY <1>6, <2>1, <2>2 DEF Ordered, Increasing
  <2>3. CASE j = n + 3
    <3>1. d = c /\ w = Base(c) + 2
      BY <1>6, <1>7, <2>3
    <3>2. Awaited(c, v)
      BY <1>6, <2>1, <3>1 DEF Ordered, Signals
    <3> QED BY <1>2, <3>1, <3>2
  <2> QED BY <2>1, <2>2, <2>3
<1>14. Covered'
  <2> SUFFICES ASSUME NEW d \in Contexts, NEW i \in DOMAIN stream', stream'[i].ctx = d
               PROVE  \E j \in DOMAIN stream', v \in Nat : i <= j /\ IsSignal(stream'[j], d, v)
    BY DEF Covered, IsSignal
  <2>1. CASE d = c
    <3>1. n + 3 \in DOMAIN stream' /\ i <= n + 3 /\ Base(c) + 2 \in Nat
      BY <1>2, <1>6
    <3>2. IsSignal(stream'[n + 3], c, Base(c) + 2)
      BY <1>6, <1>7
    <3> QED BY <2>1, <3>1, <3>2
  <2>2. CASE d # c
    <3>1. i \in 1 .. n /\ stream[i].ctx = d
      BY <1>6, <1>7, <1>8, <2>2
    <3>2. PICK j \in DOMAIN stream, v \in Nat : i <= j /\ IsSignal(stream[j], d, v)
      BY <1>6, <3>1 DEF Ordered, Covered
    <3>3. j \in DOMAIN stream' /\ stream'[j] = stream[j]
      BY <1>6
    <3> QED BY <3>2, <3>3
  <2> QED BY <2>1, <2>2
<1>15. InteropUnused'
  BY <1>1, <1>6, <1>7, <1>8 DEF Ordered, InteropUnused
<1> QED BY <1>11, <1>12, <1>13, <1>14, <1>15 DEF Ordered

LEMMA BeginsOrdered ==
  ASSUME FusionAssumption, Shapes, Loaded, Ordered, Idle, NEW c \in interop, Begins(c)
  PROVE  Ordered'
<1>1. /\ UNCHANGED <<interop, reached, frames>> /\ c \in Contexts
      /\ call' = [ctx |-> c, value |-> Base(c) + 1]
  BY DEF Begins, Shapes
<1>2. /\ Base(c) = 3 * frames[c] /\ frames[c] \in Nat /\ reached[c] \in Nat /\ reached[c] <= Base(c)
      /\ \A v \in Nat : Awaited(c, v) => v < Base(c)
      /\ \A b \in batches : b.ctx = c => b.value <= Base(c)
  BY <1>1, NextFrame
<1>3. PICK p : /\ p = WarpOf(c) /\ batches' = batches \cup {p}
               /\ p.ctx = c /\ p.after = Base(c) /\ p.value = Base(c) + 1
  BY OpsOf DEF Begins
<1>4. PICK n, x : n = Len(stream) /\ x = WaitOf(c)
  OBVIOUS
<1>5. /\ n \in Nat /\ DOMAIN stream' = 1 .. n + 1 /\ DOMAIN stream = 1 .. n
      /\ \A i \in 1 .. n : stream'[i] = stream[i]
      /\ stream'[n + 1] = x
  <2>1. x \in Op /\ stream \in Seq(Op) /\ stream' = Append(stream, x)
    BY <1>4, OpTypes DEF Begins, Shapes
  <2> QED BY <1>4, <2>1, OneMore
<1>6. x.ctx = c /\ \A d, v : ~ IsSignal(x, d, v)
  BY <1>4, OpsOf
<1>7. \A i \in DOMAIN stream' : i \in 1 .. n \/ i = n + 1
  BY <1>5
<1>8. ~ Idle' /\ call'.ctx = c
  <2>1. call'.value # 0 /\ call'.ctx = c
    BY <1>1, <1>2
  <2> QED BY <2>1 DEF Idle, NoUpload
<1>9. \A d \in Contexts : Promised(d) <= Promised(d)' /\ Promised(c)' = Base(c) + 1
  <2>1. \A d \in Contexts : frames[d] \in Nat
    BY DEF Shapes
  <2>2. \A d \in Contexts : Promised(d) = 3 * frames[d]
    BY <2>1 DEF Promised
  <2>3. \A d \in Contexts : Promised(d)' = IF d = c THEN 3 * frames[d] + 1 ELSE 3 * frames[d]
    BY <1>1, <1>8, <2>1 DEF Promised
  <2> QED BY <1>1, <1>2, <2>1, <2>2, <2>3
<1>10. \A d \in Contexts : Promised(d) \in Nat /\ Promised(d)' \in Nat
  BY <1>1 DEF Promised, Shapes
<1>11. Bounded'
  <2>1. \A d \in Contexts : reached'[d] <= Promised(d)'
    BY <1>1, <1>9, <1>10 DEF Ordered, Bounded, Shapes
  <2>2. \E f \in Nat : Third(f, p)
    BY <1>2, <1>3 DEF Third
  <2>3. p.value <= Promised(p.ctx)'
    BY <1>1, <1>2, <1>3, <1>9
  <2>4. \A b \in batches : b.value <= Promised(b.ctx)' /\ \E f \in Nat : Third(f, b)
    BY <1>9, <1>10 DEF Ordered, Bounded, Shapes, Batch
  <2> QED BY <1>3, <2>1, <2>2, <2>3, <2>4 DEF Bounded
<1>12. Signals'
  <2> SUFFICES ASSUME NEW d \in Contexts, NEW v \in Nat, NEW i \in DOMAIN stream', IsSignal(stream'[i], d, v)
               PROVE  Awaited(d, v)'
    BY DEF Signals, IsSignal
  <2>1. i \in 1 .. n
    BY <1>5, <1>6, <1>7
  <2>2. Awaited(d, v)
    BY <1>5, <2>1 DEF Ordered, Signals
  <2>3. \A b \in batches' \ batches : b.ctx = d /\ b.value = b.after + 3 => b.after + 2 # v
    BY <1>2, <1>3
  <2>4. frames' \in [Contexts -> Nat] /\ frames[d] <= frames'[d]
    BY <1>1 DEF Shapes
  <2> QED BY <1>1, <1>3, <2>2, <2>3, <2>4, StillAwaited
<1>13. Increasing'
  <2> SUFFICES ASSUME NEW d \in Contexts, NEW v \in Nat, NEW w \in Nat,
                      NEW i \in DOMAIN stream', NEW j \in DOMAIN stream', i < j,
                      IsSignal(stream'[i], d, v), IsSignal(stream'[j], d, w)
               PROVE  v < w
    BY DEF Increasing, IsSignal
  <2>1. i \in 1 .. n /\ j \in 1 .. n
    BY <1>5, <1>6, <1>7
  <2> QED BY <1>5, <2>1 DEF Ordered, Increasing
<1>14. Covered'
  <2> SUFFICES ASSUME NEW d \in Contexts, NEW i \in DOMAIN stream', stream'[i].ctx = d, d # c
               PROVE  \E j \in DOMAIN stream', v \in Nat : i <= j /\ IsSignal(stream'[j], d, v)
    BY <1>8 DEF Covered, IsSignal
  <2>1. i \in 1 .. n /\ stream[i].ctx = d
    BY <1>5, <1>6, <1>7
  <2>2. PICK j \in DOMAIN stream, v \in Nat : i <= j /\ IsSignal(stream[j], d, v)
    BY <1>5, <2>1 DEF Ordered, Covered
  <2>3. j \in DOMAIN stream' /\ stream'[j] = stream[j]
    BY <1>5
  <2> QED BY <2>2, <2>3
<1>15. InteropUnused'
  BY <1>1, <1>5, <1>6, <1>7 DEF Ordered, InteropUnused
<1> QED BY <1>11, <1>12, <1>13, <1>14, <1>15 DEF Ordered

LEMMA UploadOrdered ==
  ASSUME FusionAssumption, Shapes, Loaded, Ordered, Upload
  PROVE  Ordered'
<1>1. PICK c \in interop : c = call.ctx
  BY UploadStream
<1>2. /\ frames' = [frames EXCEPT ![c] = @ + 1] /\ batches' = batches \cup {ResidualOf(c)}
      /\ UNCHANGED <<interop, reached>> /\ ~ Idle /\ Idle' /\ c \in Contexts
  BY <1>1 DEF Upload, Idle, Shapes
<1>3. PICK r : /\ r = ResidualOf(c) /\ batches' = batches \cup {r}
               /\ r.ctx = c /\ r.after = Base(c) + 2 /\ r.value = Base(c) + 3
  BY <1>2, OpsOf
<1>4. PICK y, z : y = Run(c, heap[cnn[c]]) /\ z = SignalOf(c)
  OBVIOUS
<1>5. DOMAIN stream' = 1 .. 2 /\ stream'[1] = y /\ stream'[2] = z
  BY <1>1, <1>4, UploadStream
<1>6. /\ y.ctx = c /\ z.ctx = c
      /\ \A d, v : ~ IsSignal(y, d, v)
      /\ \A d, v : IsSignal(z, d, v) <=> d = c /\ v = Base(c) + 2
  BY <1>4, OpsOf
<1>7. \A i \in DOMAIN stream' : i = 1 \/ i = 2
  BY <1>5
<1>8. /\ frames' \in [Contexts -> Nat] /\ frames'[c] = frames[c] + 1 /\ frames[c] \in Nat
      /\ \A d \in Contexts : frames[d] <= frames'[d]
  BY <1>2 DEF Shapes
<1>9. /\ Base(c) = 3 * frames[c] /\ Promised(c) = Base(c) + 1 /\ reached[c] \in Nat
  BY <1>1, <1>2, <1>8 DEF Base, Promised, Shapes
<1>10. \A d \in Contexts : Promised(d) <= Promised(d)' /\ Promised(c)' = Base(c) + 3
  <2>1. \A d \in Contexts : frames[d] \in Nat /\ frames'[d] \in Nat
    BY <1>8 DEF Shapes
  <2>2. \A d \in Contexts : Promised(d) = IF d = c THEN 3 * frames[d] + 1 ELSE 3 * frames[d]
    BY <1>1, <1>2, <2>1 DEF Promised
  <2>3. \A d \in Contexts : Promised(d)' = 3 * frames'[d]
    BY <1>2, <2>1 DEF Promised
  <2> QED BY <1>2, <1>8, <1>9, <2>1, <2>2, <2>3
<1>11. \A d \in Contexts : Promised(d) \in Nat /\ Promised(d)' \in Nat
  BY <1>2, <1>8 DEF Promised, Shapes
<1>12. Bounded'
  <2>1. \A d \in Contexts : reached'[d] <= Promised(d)'
    BY <1>2, <1>10, <1>11 DEF Ordered, Bounded, Shapes
  <2>2. \E f \in Nat : Third(f, r)
    BY <1>3, <1>8, <1>9 DEF Third
  <2>3. r.value <= Promised(r.ctx)'
    BY <1>2, <1>3, <1>8, <1>9, <1>10
  <2>4. \A b \in batches : b.value <= Promised(b.ctx)' /\ \E f \in Nat : Third(f, b)
    BY <1>10, <1>11 DEF Ordered, Bounded, Shapes, Batch
  <2> QED BY <1>3, <2>1, <2>2, <2>3, <2>4 DEF Bounded
<1>13. Signals'
  <2> SUFFICES ASSUME NEW d \in Contexts, NEW v \in Nat, NEW i \in DOMAIN stream', IsSignal(stream'[i], d, v)
               PROVE  Awaited(d, v)'
    BY DEF Signals, IsSignal
  <2>1. d = c /\ v = Base(c) + 2
    BY <1>5, <1>6, <1>7
  <2>2. reached[c] <= Base(c) + 1 /\ \A b \in batches : b.ctx = c => b.value <= Base(c) + 1
    BY <1>2, <1>9 DEF Ordered, Bounded
  <2>3. v = 3 * frames[c] + 2 /\ reached'[c] < v /\ v < 3 * frames'[c]
    BY <1>2, <1>8, <1>9, <2>1, <2>2
  <2>4. \E b \in batches' : b.ctx = c /\ b.after = v
    BY <1>3, <2>1
  <2>5. \A b \in batches : b.value \in Nat /\ b.after \in Nat
    BY DEF Shapes, Batch
  <2>6. \A b \in batches' : b.ctx = c /\ b.value = b.after + 3 => b.after + 2 # v
    BY <1>3, <1>8, <1>9, <2>1, <2>2, <2>5
  <2> QED BY <1>8, <2>1, <2>3, <2>4, <2>6 DEF Awaited
<1>14. Increasing'
  <2> SUFFICES ASSUME NEW d \in Contexts, NEW v \in Nat, NEW w \in Nat,
                      NEW i \in DOMAIN stream', NEW j \in DOMAIN stream', i < j,
                      IsSignal(stream'[i], d, v), IsSignal(stream'[j], d, w)
               PROVE  FALSE
    BY DEF Increasing, IsSignal
  <2>1. i = 2 /\ j = 2
    BY <1>5, <1>6, <1>7
  <2> QED BY <2>1
<1>15. Covered'
  <2> SUFFICES ASSUME NEW d \in Contexts, NEW i \in DOMAIN stream', stream'[i].ctx = d
               PROVE  \E j \in DOMAIN stream', v \in Nat : i <= j /\ IsSignal(stream'[j], d, v)
    BY DEF Covered, IsSignal
  <2>1. d = c /\ 2 \in DOMAIN stream' /\ i <= 2 /\ Base(c) + 2 \in Nat
    BY <1>5, <1>6, <1>7, <1>8, <1>9
  <2>2. IsSignal(stream'[2], c, Base(c) + 2)
    BY <1>5, <1>6
  <2> QED BY <2>1, <2>2
<1>16. InteropUnused'
  BY <1>2, <1>5, <1>6, <1>7 DEF InteropUnused
<1> QED BY <1>12, <1>13, <1>14, <1>15, <1>16 DEF Ordered

\* A batch that may run ends before anything of its context that is awaited.
LEMMA EndsBefore ==
  ASSUME Shapes, Ordered, NEW b \in batches, reached[b.ctx] >= b.after,
         NEW v \in Nat, Awaited(b.ctx, v)
  PROVE  b.after < v /\ b.value < v
<1>1. b.after \in Nat /\ b.value \in Nat /\ b.ctx \in Contexts /\ reached[b.ctx] \in Nat
  BY DEF Shapes, Batch
<1>2. b.after < v /\ ~ (b.value = b.after + 3 /\ b.after + 2 = v)
  BY <1>1 DEF Awaited
<1>3. PICK f \in Nat : v = 3 * f + 2
  BY DEF Awaited
<1>4. PICK g \in Nat : Third(g, b)
  BY DEF Ordered, Bounded
<1>5. CASE b.after = 3 * g /\ b.value = 3 * g + 1
  BY <1>2, <1>3, <1>5
<1>6. CASE b.after = 3 * g + 2 /\ b.value = 3 * g + 3
  BY <1>2, <1>3, <1>6
<1>7. CASE b.after = 3 * g /\ b.value = 3 * g + 3
  BY <1>2, <1>3, <1>7
<1> QED BY <1>2, <1>4, <1>5, <1>6, <1>7 DEF Third

LEMMA ExecuteOrdered ==
  ASSUME Shapes, Ordered, NEW b \in batches, Execute(b)
  PROVE  Ordered'
<1>1. /\ reached' = [reached EXCEPT ![b.ctx] = b.value] /\ batches' = batches \ {b}
      /\ reached[b.ctx] >= b.after /\ UNCHANGED <<interop, frames, stream, call>>
  BY DEF Execute
<1>2. /\ b.ctx \in Contexts /\ reached'[b.ctx] = b.value
      /\ \A d \in Contexts \ {b.ctx} : reached'[d] = reached[d]
  BY <1>1 DEF Shapes, Batch
<1>3. \A d \in Contexts : Promised(d)' = Promised(d)
  BY <1>1 DEF Promised, Idle
<1>4. Bounded'
  BY <1>1, <1>2, <1>3 DEF Ordered, Bounded, Shapes, Batch
<1>5. Signals'
  <2> SUFFICES ASSUME NEW d \in Contexts, NEW v \in Nat, NEW i \in DOMAIN stream, IsSignal(stream[i], d, v)
               PROVE  Awaited(d, v)'
    BY <1>1 DEF Signals
  <2>1. Awaited(d, v)
    BY DEF Ordered, Signals
  <2>2. PICK a \in batches : a.ctx = d /\ a.after = v
    BY <2>1 DEF Awaited
  <2>3. CASE d = b.ctx
    <3>1. b.after < v /\ b.value < v
      BY <1>1, <2>1, <2>3, EndsBefore
    <3>2. a \in batches' /\ reached'[d] < v
      BY <1>1, <1>2, <2>2, <2>3, <3>1
    <3> QED BY <1>1, <2>1, <2>2, <3>2 DEF Awaited
  <2>4. CASE d # b.ctx
    <3>1. a \in batches' /\ reached'[d] = reached[d]
      BY <1>1, <1>2, <2>2, <2>4
    <3> QED BY <1>1, <2>1, <2>2, <3>1 DEF Awaited
  <2> QED BY <2>3, <2>4
<1>6. Increasing' /\ Covered' /\ InteropUnused'
  BY <1>1 DEF Ordered, Increasing, Covered, InteropUnused, Idle
<1> QED BY <1>4, <1>5, <1>6 DEF Ordered

LEMMA StreamStepOrdered ==
  ASSUME Shapes, Ordered, StreamStep
  PROVE  Ordered'
<1>1. PICK n : n = Len(stream)
  OBVIOUS
<1>2. /\ DOMAIN stream' = 1 .. n - 1 /\ DOMAIN stream = 1 .. n /\ n \in Nat \ {0}
      /\ \A i \in 1 .. n - 1 : stream'[i] = stream[i + 1]
      /\ Head(stream) = stream[1] /\ 1 \in DOMAIN stream
  BY <1>1, OneLess DEF StreamStep, Shapes
<1>3. UNCHANGED <<interop, frames, batches, call>>
  BY DEF StreamStep
<1>4. \A i \in DOMAIN stream' : i + 1 \in DOMAIN stream /\ stream'[i] = stream[i + 1] /\ 1 < i + 1
  BY <1>2
<1>5. \A d \in Contexts : Promised(d)' = Promised(d) /\ 3 * frames[d] <= Promised(d)
  BY <1>3 DEF Promised, Idle, Shapes
<1>6. PICK o : o = stream[1]
  OBVIOUS
<1>7. /\ o.ctx \in Contexts
      /\ o.op = "signal" => o.value \in Nat /\ IsSignal(stream[1], o.ctx, o.value)
  BY <1>2, <1>6, StreamType
<1>8. \/ UNCHANGED reached
      \/ o.op = "signal" /\ reached' = [reached EXCEPT ![o.ctx] = o.value]
  BY <1>2, <1>6 DEF StreamStep
<1>9. o.op = "signal" => o.value < 3 * frames[o.ctx]
  BY <1>2, <1>7 DEF Ordered, Signals, Awaited
<1>10. Bounded'
  <2>1. \A d \in Contexts : reached'[d] <= Promised(d)'
    <3>1. CASE UNCHANGED reached
      BY <1>5, <3>1 DEF Ordered, Bounded
    <3>2. CASE o.op = "signal" /\ reached' = [reached EXCEPT ![o.ctx] = o.value]
      <4>1. frames[o.ctx] \in Nat /\ Promised(o.ctx) \in Nat
        BY <1>7 DEF Promised, Shapes
      <4>2. o.value <= Promised(o.ctx)
        BY <1>5, <1>7, <1>9, <3>2, <4>1
      <4> QED BY <1>5, <1>7, <3>2, <4>2 DEF Ordered, Bounded, Shapes
    <3> QED BY <1>8, <3>1, <3>2
  <2>2. \A b \in batches : b.ctx \in Contexts
    BY DEF Shapes, Batch
  <2> QED BY <1>3, <1>5, <2>1, <2>2 DEF Ordered, Bounded
<1>11. Signals'
  <2> SUFFICES ASSUME NEW d \in Contexts, NEW v \in Nat, NEW i \in DOMAIN stream', IsSignal(stream'[i], d, v)
               PROVE  Awaited(d, v)'
    BY DEF Signals, IsSignal
  <2>1. i + 1 \in DOMAIN stream /\ 1 < i + 1 /\ IsSignal(stream[i + 1], d, v)
    BY <1>4
  <2>2. Awaited(d, v)
    BY <2>1 DEF Ordered, Signals
  <2>3. reached'[d] < v
    <3>1. CASE UNCHANGED reached
      BY <2>2, <3>1 DEF Awaited
    <3>2. CASE o.op = "signal" /\ reached' = [reached EXCEPT ![o.ctx] = o.value]
      <4>1. CASE d = o.ctx
        <5>1. o.value < v
          BY <1>2, <1>7, <2>1, <3>2, <4>1 DEF Ordered, Increasing
        <5> QED BY <3>2, <4>1, <5>1 DEF Shapes
      <4>2. CASE d # o.ctx
        BY <2>2, <3>2, <4>2 DEF Awaited, Shapes
      <4> QED BY <4>1, <4>2
    <3> QED BY <1>8, <3>1, <3>2
  <2> QED BY <1>3, <2>2, <2>3 DEF Awaited
<1>12. Increasing'
  <2> SUFFICES ASSUME NEW d \in Contexts, NEW v \in Nat, NEW w \in Nat,
                      NEW i \in DOMAIN stream', NEW j \in DOMAIN stream', i < j,
                      IsSignal(stream'[i], d, v), IsSignal(stream'[j], d, w)
               PROVE  v < w
    BY DEF Increasing, IsSignal
  <2>1. /\ i + 1 \in DOMAIN stream /\ j + 1 \in DOMAIN stream /\ i + 1 < j + 1
        /\ IsSignal(stream[i + 1], d, v) /\ IsSignal(stream[j + 1], d, w)
    BY <1>2, <1>4
  <2> QED BY <2>1 DEF Ordered, Increasing
<1>13. Covered'
  <2> SUFFICES ASSUME NEW d \in Contexts, NEW i \in DOMAIN stream', stream'[i].ctx = d, ~ (~ Idle /\ call.ctx = d)
               PROVE  \E j \in DOMAIN stream', v \in Nat : i <= j /\ IsSignal(stream'[j], d, v)
    BY <1>3 DEF Covered, IsSignal, Idle
  <2>1. i + 1 \in DOMAIN stream /\ stream[i + 1].ctx = d
    BY <1>4
  <2>2. PICK j \in DOMAIN stream, v \in Nat : i + 1 <= j /\ IsSignal(stream[j], d, v)
    BY <2>1 DEF Ordered, Covered
  <2>3. j - 1 \in 1 .. n - 1 /\ i <= j - 1 /\ (j - 1) + 1 = j
    BY <1>2, <2>2
  <2>4. stream'[j - 1] = stream[j]
    BY <1>2, <2>3
  <2> QED BY <1>2, <2>2, <2>3, <2>4
<1>14. InteropUnused'
  BY <1>3, <1>4 DEF Ordered, InteropUnused
<1> QED BY <1>10, <1>11, <1>12, <1>13, <1>14 DEF Ordered

LEMMA OrderedNext ==
  ASSUME FusionAssumption, Shapes, Loaded, Ordered, [Next]_vars
  PROVE  Ordered'
<1>1. ASSUME NEW c \in Contexts, NEW file \in Weights, Load(c, file) PROVE Ordered'
  <2>1. UNCHANGED <<frames, reached, batches, stream, call, interop>>
    BY <1>1 DEF Load
  <2> QED BY <2>1, OrderedElsewhere
<1>3. ASSUME NEW c \in Contexts, Build(c) \/ Render(c) PROVE Ordered'
  <2>1. UNCHANGED <<frames, reached, batches, stream, call>> /\ interop \subseteq interop'
    BY <1>3 DEF Build, Render
  <2> QED BY <2>1, OrderedElsewhere
<1>4. ASSUME NEW c \in Contexts, GeneratePlain(c) PROVE Ordered'
  BY <1>4, PlainOrdered
<1>5. ASSUME NEW c \in Contexts, Generate(c) PROVE Ordered'
  BY <1>5, GenerateCases, SubmitsOrdered, BeginsOrdered
<1>6. ASSUME NEW c \in Contexts, TearDown(c) \/ Destroy(c) PROVE Ordered'
  <2>1. UNCHANGED <<frames, reached, batches, stream, call>> /\ Idle /\ DeviceIdle
    BY <1>6 DEF TearDown, Destroy
  <2> QED BY <2>1, IdleCoversStream, OrderedElsewhere
<1>7. ASSUME NEW b \in batches, Execute(b) PROVE Ordered'
  BY <1>7, ExecuteOrdered
<1>8. CASE UNCHANGED vars
  <2>1. UNCHANGED <<frames, reached, batches, stream, call, interop>>
    BY <1>8 DEF vars
  <2> QED BY <2>1, OrderedElsewhere
<1> QED
  BY <1>1, <1>3, <1>4, <1>5, <1>6, <1>7, <1>8, UploadOrdered, StreamStepOrdered DEF Next

LEMMA OrderedInit == Init => Ordered
<1> SUFFICES ASSUME Init PROVE Ordered
  OBVIOUS
<1>1. DOMAIN stream = {}
  BY DEF Init
<1>2. Bounded
  BY DEF Init, Bounded, Promised, Idle
<1> QED BY <1>1, <1>2 DEF Ordered, Signals, Increasing, Covered, InteropUnused

\* For any number of contexts and frames, in whichever order the application
\* signals its inputs and however often a pipeline is built and torn down: what
\* is on the CUDA stream refers to an interop that exists, although
\* destroyPipeline waits for the Vulkan queues only (pipeline.cpp).  An operation
\* on the stream is followed by a signal that a residual on a Vulkan queue still
\* waits for, so that the device is not idle before the stream is through.
THEOREM InteropUnusedCorrect == Spec => []InteropUnused
<1>1. Init => Shapes /\ Loaded /\ Ordered
  BY LoadedInit, OrderedInit, FusionAssumption
<1>2. Ordered => InteropUnused
  BY DEF Ordered
<1>3. Shapes /\ Loaded /\ [Next]_vars => (Shapes /\ Loaded)'
  BY LoadedNext, FusionAssumption
<1>4. Shapes /\ Loaded /\ Ordered /\ [Next]_vars => Ordered'
  BY OrderedNext, FusionAssumption
<1> QED BY <1>1, <1>2, <1>3, <1>4, PTL DEF Spec

-------------------------------------------------------------------------------
(* Types                                                                     *)

\* What TypeOK says beyond Shapes and what Ordered says of the timelines: a call that
\* waits for an upload has a frame left to finish.
Limits ==
  /\ stale \subseteq Addresses /\ ready \subseteq Contexts /\ interop \subseteq ready
  /\ \A c \in Contexts : frames[c] <= MaxFrames
  /\ input \in [Contexts -> 0 .. MaxFrames]
  /\ ~ Idle => frames[call.ctx] < MaxFrames /\ call.value = 3 * frames[call.ctx] + 1
  /\ ran \in [weights : Weights \cup {None}, loaded : Weights \cup {None}, reused : BOOLEAN]

LEMMA LimitsNext ==
  ASSUME FusionAssumption, Shapes, Loaded, Limits, [Next]_vars
  PROVE  Limits'
<1>0. MaxFrames \in Nat /\ \A c \in Contexts : frames[c] \in Nat
  BY DEF FusionAssumption, Shapes
<1>1. ASSUME NEW c \in Contexts, NEW file \in Weights, Load(c, file) PROVE Limits'
  BY <1>1 DEF Load, Deleted, Limits, Idle
<1>3. ASSUME NEW c \in Contexts, Build(c) PROVE Limits'
  BY <1>3 DEF Build, Limits, Idle
<1>4. ASSUME NEW c \in Contexts, Render(c) PROVE Limits'
  <2>1. input[c] \in 0 .. MaxFrames /\ input' = [input EXCEPT ![c] = @ + 1] /\ input[c] < MaxFrames
    BY <1>4 DEF Render, Limits
  <2>2. input' \in [Contexts -> 0 .. MaxFrames]
    BY <1>0, <2>1 DEF Limits
  <2> QED BY <1>4, <2>2 DEF Render, Limits, Idle
<1>5. ASSUME NEW c \in Contexts, MayGenerate(c), frames' = [frames EXCEPT ![c] = @ + 1]
      PROVE  \A d \in Contexts : frames'[d] <= MaxFrames
  BY <1>0, <1>5 DEF MayGenerate, Limits, Shapes
<1>6. ASSUME NEW c \in Contexts, GeneratePlain(c) PROVE Limits'
  <2>1. \A d \in Contexts : frames'[d] <= MaxFrames
    BY <1>5, <1>6 DEF GeneratePlain
  <2> QED BY <1>6, <2>1 DEF GeneratePlain, MayGenerate, Limits, Idle
<1>7. ASSUME NEW c \in Contexts, Generate(c) PROVE Limits'
  <2>1. c \in interop /\ Idle /\ frames[c] < MaxFrames /\ UNCHANGED <<stale, ready, interop, input, ran>>
    BY <1>7 DEF Generate, MayGenerate
  <2>2. CASE Submits(c)
    <3>1. \A d \in Contexts : frames'[d] <= MaxFrames
      BY <1>5, <1>7, <2>2 DEF Generate, Submits
    <3> QED BY <2>1, <2>2, <3>1 DEF Submits, Limits, Idle
  <2>3. CASE Begins(c)
    <3>1. call'.ctx = c /\ call'.value = 3 * frames[c] + 1 /\ frames' = frames
      BY <2>3 DEF Begins, Base
    <3> QED BY <2>1, <3>1 DEF Limits
  <2> QED BY <1>7, <2>2, <2>3, GenerateCases
<1>8. CASE Upload
  <2>1. PICK c \in Contexts : c = call.ctx
    BY <1>8, UploadStream
  <2>2. frames[c] < MaxFrames /\ frames' = [frames EXCEPT ![c] = @ + 1] /\ call' = NoUpload
    BY <1>8, <2>1 DEF Upload, Limits
  <2>3. \A d \in Contexts : frames'[d] <= MaxFrames
    BY <1>0, <2>2 DEF Limits, Shapes
  <2> QED BY <1>8, <2>2, <2>3 DEF Upload, Limits, Idle
<1>9. ASSUME NEW b \in batches, Execute(b) PROVE Limits'
  BY <1>9 DEF Execute, Limits, Idle
<1>10. CASE StreamStep
  <2>1. Head(stream) \in Op
    BY <1>10, OneLess DEF StreamStep, Shapes
  <2>2. ran' \in [weights : Weights \cup {None}, loaded : Weights \cup {None}, reused : BOOLEAN]
    BY <1>10, <2>1 DEF StreamStep, Limits, Op
  <2> QED BY <1>10, <2>2 DEF StreamStep, Limits, Idle
<1>11. ASSUME NEW c \in Contexts, TearDown(c) PROVE Limits'
  BY <1>11 DEF TearDown, Limits, Idle
<1>12. ASSUME NEW c \in Contexts, Destroy(c) PROVE Limits'
  BY <1>12 DEF Destroy, Deleted, Limits, Idle
<1>13. CASE UNCHANGED vars
  BY <1>13 DEF vars, Limits, Idle
<1> QED
  BY <1>1, <1>3, <1>4, <1>6, <1>7, <1>8, <1>9, <1>10, <1>11, <1>12, <1>13 DEF Next

LEMMA LimitsType ==
  ASSUME FusionAssumption, Shapes, Loaded, Ordered, Limits
  PROVE  TypeOK
<1>0. MaxFrames \in Nat /\ Null \notin Addresses
  BY DEF FusionAssumption
<1>1. frames \in [Contexts -> 0 .. MaxFrames]
  BY <1>0 DEF Shapes, Limits
<1>2. reached \in [Contexts -> 0 .. 3 * MaxFrames]
  <2>1. \A c \in Contexts : reached[c] \in Nat /\ reached[c] <= Promised(c)
    BY DEF Shapes, Ordered, Bounded
  <2>2. \A c \in Contexts : Promised(c) \in Nat /\ Promised(c) <= 3 * MaxFrames
    <3> TAKE c \in Contexts
    <3>1. frames[c] \in Nat /\ frames[c] <= MaxFrames
      BY DEF Shapes, Limits
    <3>2. ~ Idle /\ call.ctx = c => frames[c] < MaxFrames
      BY DEF Limits
    <3> QED BY <1>0, <3>1, <3>2 DEF Promised
  <2>3. \A c \in Contexts : reached[c] \in 0 .. 3 * MaxFrames
    BY <1>0, <2>1, <2>2
  <2> QED BY <2>3 DEF Shapes
<1>3. call \in [ctx : Contexts, value : 1 .. 3 * MaxFrames] \cup {NoUpload}
  <2>1. CASE Idle
    BY <2>1 DEF Idle
  <2>2. CASE ~ Idle
    <3>1. call \in [ctx : Contexts, value : Nat]
      BY <2>2 DEF Shapes, Idle
    <3>2. frames[call.ctx] \in Nat /\ frames[call.ctx] < MaxFrames /\ call.value = 3 * frames[call.ctx] + 1
      BY <2>2, <3>1 DEF Shapes, Limits
    <3>3. call.value \in 1 .. 3 * MaxFrames
      BY <1>0, <3>2
    <3> QED BY <3>1, <3>3
  <2> QED BY <2>1, <2>2
<1>4. \A i \in DOMAIN stream : stream[i] \in Op
  BY DEF Shapes
<1> QED BY <1>1, <1>2, <1>3, <1>4 DEF TypeOK, Shapes, Limits

\* The variables keep their types; in particular no timeline passes the last value of
\* its frames and a call that waits for an upload is about the frame it has begun.
THEOREM TypeCorrect == Spec => []TypeOK
<1>1. Init => Shapes /\ Loaded /\ Ordered /\ Limits
  <2>1. Init => Limits
    BY FusionAssumption DEF FusionAssumption, Init, Limits, Idle
  <2> QED BY <2>1, LoadedInit, OrderedInit, FusionAssumption
<1>2. Shapes /\ Loaded /\ [Next]_vars => (Shapes /\ Loaded)'
  BY LoadedNext, FusionAssumption
<1>3. Shapes /\ Loaded /\ Ordered /\ [Next]_vars => Ordered'
  BY OrderedNext, FusionAssumption
<1>4. Shapes /\ Loaded /\ Limits /\ [Next]_vars => Limits'
  BY LimitsNext, FusionAssumption
<1>5. Shapes /\ Loaded /\ Ordered /\ Limits => TypeOK
  BY LimitsType, FusionAssumption
<1> QED BY <1>1, <1>2, <1>3, <1>4, <1>5, PTL DEF Spec

-------------------------------------------------------------------------------
(* What the device waits for                                                 *)

IsWait(o, c, v) == o.op = "wait" /\ o.ctx = c /\ o.value = v

\* Whether c has a frame whose warp is submitted and whose residual is not.
Begun(c) == IF ~ Idle /\ call.ctx = c THEN 1 ELSE 0

\* The batches of a context come one behind the other and none is over.
Apart ==
  /\ \A b \in batches : reached[b.ctx] < b.value
  /\ \A a, b \in batches : a.ctx = b.ctx /\ a # b => a.value <= b.after \/ b.value <= a.after

\* Of every frame that is not complete what is left is there: the warp, the signal of
\* the fusion and the residual, or the one batch of a plain frame.
Plain(c, f) == \E b \in batches : b.ctx = c /\ b.after = 3 * f /\ b.value = 3 * f + 3
Left(c, v) == \E b \in batches : b.ctx = c /\ b.after = v
Signalled(c, v) == \E i \in DOMAIN stream : IsSignal(stream[i], c, v)
WarpLeft ==
  \A c \in Contexts, f \in Nat : reached[c] <= 3 * f /\ f < frames[c] + Begun(c) => Left(c, 3 * f)
FusionLeft ==
  \A c \in Contexts, f \in Nat :
    reached[c] <= 3 * f + 1 /\ f < frames[c] => Plain(c, f) \/ Signalled(c, 3 * f + 2)
ResidualLeft ==
  \A c \in Contexts, f \in Nat :
    reached[c] <= 3 * f + 2 /\ f < frames[c] => Plain(c, f) \/ Left(c, 3 * f + 2)

\* A fusion is behind the wait for its own warp, and so is the upload it may need.
FusionBehind ==
  \A j \in DOMAIN stream, c \in Contexts, v \in Nat : IsSignal(stream[j], c, v + 1) =>
    reached[c] >= v \/ \E i \in DOMAIN stream : i < j /\ IsWait(stream[i], c, v)
UploadBehind ==
  \A c \in Contexts : Begun(c) = 1 =>
    \/ reached[c] >= 3 * frames[c] + 1
    \/ \E i \in DOMAIN stream : IsWait(stream[i], c, 3 * frames[c] + 1)

\* Behind a wait are the signals of the frame and of later ones only, and it is for a
\* warp that has been submitted.
WaitsInOrder ==
  \A i, j \in DOMAIN stream, c \in Contexts, v, w \in Nat :
    i < j /\ IsWait(stream[i], c, w) /\ IsSignal(stream[j], c, v) => w < v
WaitsForWarp ==
  \A i \in DOMAIN stream, c \in Contexts, w \in Nat : IsWait(stream[i], c, w) =>
    w <= 3 * frames[c] + Begun(c) /\ \E f \in Nat : w = 3 * f + 1

\* The application has submitted what the batches read.
InputThere ==
  /\ input \in [Contexts -> Nat]
  /\ \A c \in Contexts : frames[c] + Begun(c) <= input[c]
  /\ \A b \in batches : b.frame <= frames[b.ctx] + Begun(b.ctx)

Chained ==
  /\ Apart /\ WarpLeft /\ FusionLeft /\ ResidualLeft
  /\ FusionBehind /\ UploadBehind /\ WaitsInOrder /\ WaitsForWarp /\ InputThere

LEMMA Numbers ==
  ASSUME Shapes, Ordered
  PROVE  /\ \A c \in Contexts : /\ frames[c] \in Nat /\ reached[c] \in Nat /\ Begun(c) \in {0, 1}
                                /\ reached[c] <= 3 * frames[c] + Begun(c)
                                /\ Idle => Begun(c) = 0
         /\ \A b \in batches : /\ b.ctx \in Contexts /\ b.after \in Nat /\ b.value \in Nat /\ b.frame \in Nat
                               /\ b.after < b.value /\ b.value <= 3 * frames[b.ctx] + Begun(b.ctx)
                               /\ \E f \in Nat : b.value = 3 * f + 1 \/ b.value = 3 * f + 3
<1>1. \A c \in Contexts : frames[c] \in Nat /\ reached[c] \in Nat
  BY DEF Shapes
<1>2. \A c \in Contexts : Begun(c) \in {0, 1} /\ (Idle => Begun(c) = 0)
  BY DEF Begun
<1>3. \A c \in Contexts : Promised(c) = 3 * frames[c] + Begun(c)
  BY DEF Promised, Begun
<1>4. \A c \in Contexts : reached[c] <= 3 * frames[c] + Begun(c)
  BY <1>3 DEF Ordered, Bounded
<1>5. ASSUME NEW b \in batches
      PROVE  /\ b.ctx \in Contexts /\ b.after \in Nat /\ b.value \in Nat /\ b.frame \in Nat
             /\ b.after < b.value /\ b.value <= 3 * frames[b.ctx] + Begun(b.ctx)
             /\ \E f \in Nat : b.value = 3 * f + 1 \/ b.value = 3 * f + 3
  <2>1. b.ctx \in Contexts /\ b.after \in Nat /\ b.value \in Nat /\ b.frame \in Nat
    BY DEF Shapes, Batch
  <2>2. b.value <= 3 * frames[b.ctx] + Begun(b.ctx)
    BY <1>3, <2>1 DEF Ordered, Bounded
  <2>3. PICK f \in Nat : Third(f, b)
    BY DEF Ordered, Bounded
  <2>4. b.after < b.value /\ (b.value = 3 * f + 1 \/ b.value = 3 * f + 3)
    BY <2>1, <2>3 DEF Third
  <2> QED BY <2>1, <2>2, <2>4
<1> QED BY <1>1, <1>2, <1>4, <1>5

\* Whatever leaves the batches and the stream alone.
LEMMA ChainedElsewhere ==
  ASSUME Chained, UNCHANGED <<frames, reached, batches, stream, call>>,
         input' \in [Contexts -> Nat], \A c \in Contexts : input[c] <= input'[c],
         Shapes, Ordered
  PROVE  Chained'
<1>1. \A c : Begun(c)' = Begun(c)
  BY DEF Begun, Idle
<1>2. \A c, f : Plain(c, f)' = Plain(c, f) /\ Left(c, f)' = Left(c, f) /\ Signalled(c, f)' = Signalled(c, f)
  BY DEF Plain, Left, Signalled
<1>3. Apart' /\ WarpLeft' /\ FusionLeft' /\ ResidualLeft'
  BY <1>1, <1>2 DEF Chained, Apart, WarpLeft, FusionLeft, ResidualLeft
<1>4. FusionBehind' /\ UploadBehind' /\ WaitsInOrder' /\ WaitsForWarp'
  BY <1>1 DEF Chained, FusionBehind, UploadBehind, WaitsInOrder, WaitsForWarp
<1>5. InputThere'
  BY <1>1, Numbers DEF Chained, InputThere
<1> QED BY <1>3, <1>4, <1>5 DEF Chained

\* A frame without an interop.
LEMMA PlainChained ==
  ASSUME InputFirst, Shapes, Ordered, Chained, NEW c \in Contexts, GeneratePlain(c)
  PROVE  Chained'
<1>0. PICK F : F = frames[c]
  OBVIOUS
<1>1. /\ batches' = batches \cup {PlainOf(c)} /\ frames' = [frames EXCEPT ![c] = @ + 1]
      /\ UNCHANGED <<input, reached, stream, call>> /\ Idle /\ F < input[c]
  BY <1>0 DEF GeneratePlain, MayGenerate
<1>2. PICK p : p = PlainOf(c)
  OBVIOUS
<1>13. p.ctx = c /\ p.after = 3 * F /\ p.value = 3 * F + 3 /\ p.frame = F + 1 /\ batches' = batches \cup {p}
  BY <1>0, <1>1, <1>2 DEF PlainOf, WarpOf, Base
<1>3. /\ F \in Nat /\ frames'[c] = F + 1 /\ \A d \in Contexts \ {c} : frames'[d] = frames[d]
      /\ \A d \in Contexts : frames[d] \in Nat /\ frames[d] <= frames'[d]
  BY <1>0, <1>1 DEF Shapes
<1>4. \A d \in Contexts : Begun(d) = 0 /\ Begun(d)' = 0
  BY <1>1 DEF Begun, Idle
<1>5. /\ \A b \in batches : b.ctx \in Contexts /\ b.after \in Nat /\ b.value \in Nat /\ b.frame \in Nat
      /\ \A b \in batches : b.ctx = c => b.value <= 3 * F
      /\ reached[c] <= 3 * F /\ reached[c] \in Nat
  BY <1>0, <1>4, Numbers
<1>6. Apart'
  BY <1>1, <1>13, <1>3, <1>5 DEF Chained, Apart
<1>7. /\ \A d \in Contexts, f \in Nat : Plain(d, f) => Plain(d, f)'
      /\ \A d \in Contexts, v \in Nat : (Left(d, v) => Left(d, v)') /\ Signalled(d, v)' = Signalled(d, v)
      /\ Plain(c, F)' /\ Left(c, 3 * F)'
  BY <1>1, <1>13 DEF Plain, Left, Signalled
<1>8. \A d \in Contexts, f \in Nat : f < frames'[d] => f < frames[d] \/ (d = c /\ f = F)
  BY <1>0, <1>3
<1>9. WarpLeft' /\ FusionLeft' /\ ResidualLeft'
  <2>1. ASSUME NEW d \in Contexts, NEW f \in Nat, f < frames'[d], reached[d] <= 3 * f
        PROVE  Left(d, 3 * f)'
    <3>1. CASE d = c /\ f = F
      BY <1>7, <3>1
    <3>2. CASE f < frames[d]
      <4>1. frames[d] + Begun(d) = frames[d]
        BY <1>3, <1>4
      <4>2. Left(d, 3 * f)
        BY <2>1, <3>2, <4>1 DEF Chained, WarpLeft
      <4>3. 3 * f \in Nat
        OBVIOUS
      <4> QED BY <1>7, <4>2, <4>3
    <3> QED BY <1>8, <2>1, <3>1, <3>2
  <2>2. ASSUME NEW d \in Contexts, NEW f \in Nat, f < frames'[d], reached[d] <= 3 * f + 1
        PROVE  Plain(d, f)' \/ Signalled(d, 3 * f + 2)'
    BY <1>0, <1>7, <1>8, <2>2 DEF Chained, FusionLeft
  <2>3. ASSUME NEW d \in Contexts, NEW f \in Nat, f < frames'[d], reached[d] <= 3 * f + 2
        PROVE  Plain(d, f)' \/ Left(d, 3 * f + 2)'
    BY <1>0, <1>7, <1>8, <2>3 DEF Chained, ResidualLeft
  <2>4. \A d \in Contexts : frames'[d] + Begun(d)' = frames'[d] /\ frames'[d] \in Nat
    BY <1>3, <1>4
  <2> QED BY <1>1, <2>1, <2>2, <2>3, <2>4 DEF WarpLeft, FusionLeft, ResidualLeft
<1>10. FusionBehind' /\ UploadBehind' /\ WaitsInOrder'
  BY <1>1, <1>4 DEF Chained, FusionBehind, UploadBehind, WaitsInOrder
<1>11. WaitsForWarp'
  BY <1>1, <1>3, <1>4 DEF Chained, WaitsForWarp
<1>12. InputThere'
  BY <1>0, <1>1, <1>13, <1>3, <1>4, <1>5 DEF Chained, InputThere
<1> QED BY <1>6, <1>9, <1>10, <1>11, <1>12 DEF Chained

\* What an operation of c on the stream is, in terms of the frames F it has generated.
LEMMA OpsNow ==
  ASSUME NEW c, NEW F \in Nat, F = frames[c]
  PROVE  /\ \A d : \A w \in Nat : IsWait(WaitOf(c), d, w) <=> d = c /\ w = 3 * F + 1
         /\ \A d, w : ~ IsWait(SignalOf(c), d, w) /\ ~ IsSignal(WaitOf(c), d, w)
         /\ \A d : \A v \in Nat : IsSignal(SignalOf(c), d, v) <=> d = c /\ v = 3 * F + 2
         /\ \A u, d, w : ~ IsWait(Run(c, u), d, w) /\ ~ IsSignal(Run(c, u), d, w)
         /\ WarpOf(c).ctx = c /\ WarpOf(c).after = 3 * F /\ WarpOf(c).value = 3 * F + 1
         /\ WarpOf(c).frame = F + 1
         /\ ResidualOf(c).ctx = c /\ ResidualOf(c).after = 3 * F + 2
         /\ ResidualOf(c).value = 3 * F + 3 /\ ResidualOf(c).frame = F + 1
BY DEF WaitOf, SignalOf, Run, WarpOf, ResidualOf, IsSignal, IsWait, Base

\* A frame whose weights have been uploaded.
LEMMA SubmitsChained ==
  ASSUME FusionAssumption, InputFirst, Shapes, Loaded, Ordered, Chained, NEW c \in interop,
         MayGenerate(c), UNCHANGED input, Submits(c)
  PROVE  Chained'
<1>0. PICK F : F = frames[c]
  OBVIOUS
<1>1. /\ frames' = [frames EXCEPT ![c] = @ + 1] /\ UNCHANGED <<input, reached, call>>
      /\ Idle /\ c \in Contexts /\ F < input[c]
  BY <1>0 DEF Submits, MayGenerate, Shapes
<1>2. /\ F \in Nat /\ frames'[c] = F + 1 /\ \A d \in Contexts \ {c} : frames'[d] = frames[d]
      /\ \A d \in Contexts : frames[d] \in Nat /\ frames'[d] \in Nat /\ frames[d] <= frames'[d]
  BY <1>0, <1>1 DEF Shapes
<1>3. \A d \in Contexts : Begun(d) = 0 /\ Begun(d)' = 0
  BY <1>1 DEF Begun, Idle
<1>4. PICK p, r, x, y, z : p = WarpOf(c) /\ r = ResidualOf(c) /\ x = WaitOf(c) /\ y = Run(c, cache[cnn[c]]) /\ z = SignalOf(c)
  OBVIOUS
<1>5. /\ p.ctx = c /\ p.after = 3 * F /\ p.value = 3 * F + 1 /\ p.frame = F + 1
      /\ r.ctx = c /\ r.after = 3 * F + 2 /\ r.value = 3 * F + 3 /\ r.frame = F + 1
      /\ batches' = batches \cup {p, r}
  BY <1>0, <1>2, <1>4, OpsNow, SMTT(30) DEF Submits
<1>6. PICK n : n = Len(stream)
  OBVIOUS
<1>7. /\ n \in Nat /\ DOMAIN stream' = 1 .. n + 3 /\ DOMAIN stream = 1 .. n
      /\ \A i \in 1 .. n : stream'[i] = stream[i]
      /\ stream'[n + 1] = x /\ stream'[n + 2] = y /\ stream'[n + 3] = z
  BY <1>4, <1>6, SubmitsStream
<1>8. /\ \A d : \A w \in Nat : IsWait(x, d, w) <=> d = c /\ w = 3 * F + 1
      /\ \A d : \A v \in Nat : IsSignal(z, d, v) <=> d = c /\ v = 3 * F + 2
      /\ \A d, w : ~ IsWait(y, d, w) /\ ~ IsWait(z, d, w) /\ ~ IsSignal(x, d, w) /\ ~ IsSignal(y, d, w)
  BY <1>0, <1>2, <1>4, OpsNow
<1>9. /\ \A b \in batches : b.ctx \in Contexts /\ b.after \in Nat /\ b.value \in Nat /\ b.frame \in Nat
      /\ \A b \in batches : b.ctx = c => b.value <= 3 * F
      /\ reached[c] <= 3 * F /\ reached[c] \in Nat
  BY <1>0, <1>1, <1>3, Numbers
<1>10. Apart'
  BY <1>1, <1>5, <1>2, <1>9 DEF Chained, Apart
<1>11. /\ \A d \in Contexts, f \in Nat : Plain(d, f) => Plain(d, f)'
       /\ \A d \in Contexts, v \in Nat : Left(d, v) => Left(d, v)'
       /\ Left(c, 3 * F)' /\ Left(c, 3 * F + 2)'
  BY <1>1, <1>5 DEF Plain, Left
<1>12. \A d \in Contexts, v \in Nat : Signalled(d, v) => Signalled(d, v)'
  <2> SUFFICES ASSUME NEW d \in Contexts, NEW v \in Nat, NEW i \in DOMAIN stream, IsSignal(stream[i], d, v)
               PROVE  \E j \in DOMAIN stream' : IsSignal(stream'[j], d, v)
    BY DEF Signalled, IsSignal
  <2>1. i \in DOMAIN stream' /\ stream'[i] = stream[i]
    BY <1>7
  <2> QED BY <2>1
<1>13. Signalled(c, 3 * F + 2)'
  <2>1. n + 3 \in DOMAIN stream' /\ 3 * F + 2 \in Nat
    BY <1>2, <1>7
  <2>2. IsSignal(stream'[n + 3], c, 3 * F + 2)
    BY <1>7, <1>8, <2>1
  <2> QED BY <2>1, <2>2 DEF Signalled, IsSignal
<1>14. \A d \in Contexts, f \in Nat : f < frames'[d] => f < frames[d] \/ (d = c /\ f = F)
  BY <1>0, <1>2
<1>15. WarpLeft' /\ FusionLeft' /\ ResidualLeft'
  <2>1. ASSUME NEW d \in Contexts, NEW f \in Nat, f < frames'[d], reached[d] <= 3 * f
        PROVE  Left(d, 3 * f)'
    <3>1. CASE d = c /\ f = F
      BY <1>11, <3>1
    <3>2. CASE f < frames[d]
      <4>1. f < frames[d] + Begun(d)
        BY <1>2, <1>3, <3>2
      <4>2. Left(d, 3 * f) /\ 3 * f \in Nat
        BY <2>1, <4>1 DEF Chained, WarpLeft
      <4> QED BY <1>11, <4>2
    <3> QED BY <1>14, <2>1, <3>1, <3>2
  <2>2. ASSUME NEW d \in Contexts, NEW f \in Nat, f < frames'[d], reached[d] <= 3 * f + 1
        PROVE  Plain(d, f)' \/ Signalled(d, 3 * f + 2)'
    BY <1>0, <1>11, <1>12, <1>13, <1>14, <2>2 DEF Chained, FusionLeft
  <2>3. ASSUME NEW d \in Contexts, NEW f \in Nat, f < frames'[d], reached[d] <= 3 * f + 2
        PROVE  Plain(d, f)' \/ Left(d, 3 * f + 2)'
    BY <1>0, <1>11, <1>14, <2>3 DEF Chained, ResidualLeft
  <2>4. \A d \in Contexts : frames'[d] + Begun(d)' = frames'[d]
    BY <1>2, <1>3
  <2> QED BY <1>1, <2>1, <2>2, <2>3, <2>4 DEF WarpLeft, FusionLeft, ResidualLeft
<1>16. FusionBehind'
  <2> SUFFICES ASSUME NEW j \in DOMAIN stream', NEW d \in Contexts, NEW v \in Nat, IsSignal(stream'[j], d, v + 1),
                      ~ (reached[d] >= v)
               PROVE  \E i \in DOMAIN stream' : i < j /\ IsWait(stream'[i], d, v)
    BY <1>1 DEF FusionBehind, IsSignal, IsWait
  <2>1. CASE j \in 1 .. n
    <3>1. PICK i \in DOMAIN stream : i < j /\ IsWait(stream[i], d, v)
      BY <1>7, <2>1 DEF Chained, FusionBehind
    <3> QED BY <1>7, <3>1
  <2>2. CASE j = n + 3
    <3>1. d = c /\ v = 3 * F + 1
      BY <1>2, <1>7, <1>8, <2>2
    <3>2. n + 1 \in DOMAIN stream' /\ n + 1 < j /\ IsWait(stream'[n + 1], d, v)
      BY <1>2, <1>7, <1>8, <2>2, <3>1
    <3> QED BY <3>2
  <2> QED BY <1>7, <1>8, <2>1, <2>2
<1>17. UploadBehind'
  BY <1>3 DEF UploadBehind
<1>18. ASSUME NEW i \in DOMAIN stream', NEW d \in Contexts, NEW w \in Nat, IsWait(stream'[i], d, w)
       PROVE  \/ i \in 1 .. n /\ IsWait(stream[i], d, w) /\ w <= 3 * frames[d] /\ \E f \in Nat : w = 3 * f + 1
              \/ i = n + 1 /\ d = c /\ w = 3 * F + 1
  <2>1. CASE i \in 1 .. n
    <3>1. IsWait(stream[i], d, w)
      BY <1>7, <1>18, <2>1
    <3>2. w <= 3 * frames[d] + Begun(d) /\ \E f \in Nat : w = 3 * f + 1
      BY <1>7, <2>1, <3>1 DEF Chained, WaitsForWarp
    <3> QED BY <1>2, <1>3, <2>1, <3>1, <3>2
  <2>2. CASE i \notin 1 .. n
    BY <1>7, <1>8, <1>18, <2>2
  <2> QED BY <2>1, <2>2
<1>19. WaitsInOrder'
  <2> SUFFICES ASSUME NEW i \in DOMAIN stream', NEW j \in DOMAIN stream', NEW d \in Contexts, NEW v \in Nat, NEW w \in Nat,
                      i < j, IsWait(stream'[i], d, w), IsSignal(stream'[j], d, v)
               PROVE  w < v
    BY DEF WaitsInOrder, IsSignal, IsWait
  <2>1. CASE j \in 1 .. n
    <3>1. i \in 1 .. n /\ IsSignal(stream[j], d, v)
      BY <1>7, <2>1
    <3>2. IsWait(stream[i], d, w)
      BY <1>7, <3>1
    <3> QED BY <1>7, <2>1, <3>1, <3>2 DEF Chained, WaitsInOrder
  <2>2. CASE j = n + 3
    <3>1. d = c /\ v = 3 * F + 2
      BY <1>7, <1>8, <2>2
    <3>2. w <= 3 * F + 1
      BY <1>0, <1>2, <1>18, <3>1
    <3> QED BY <1>2, <3>1, <3>2
  <2> QED BY <1>7, <1>8, <2>1, <2>2
<1>20. WaitsForWarp'
  <2> SUFFICES ASSUME NEW i \in DOMAIN stream', NEW d \in Contexts, NEW w \in Nat, IsWait(stream'[i], d, w)
               PROVE  w <= 3 * frames'[d] /\ \E f \in Nat : w = 3 * f + 1
    BY <1>2, <1>3 DEF WaitsForWarp, IsWait
  <2> QED BY <1>2, <1>18
<1>21. InputThere'
  <2>1. \A d \in Contexts : frames'[d] <= input[d] /\ input[d] \in Nat
    BY <1>0, <1>1, <1>2, <1>3 DEF Chained, InputThere
  <2>2. \A b \in batches' : b.frame <= frames'[b.ctx]
    BY <1>1, <1>2, <1>3, <1>5, <1>9 DEF Chained, InputThere
  <2> QED BY <1>1, <1>2, <1>3, <1>5, <1>9, <2>1, <2>2 DEF Chained, InputThere
<1> QED BY <1>10, <1>15, <1>16, <1>17, <1>19, <1>20, <1>21 DEF Chained

\* A frame that needs an upload: its warp is submitted and the stream told to wait.
LEMMA BeginsChained ==
  ASSUME FusionAssumption, InputFirst, Shapes, Loaded, Ordered, Chained, NEW c \in interop,
         MayGenerate(c), UNCHANGED input, Begins(c)
  PROVE  Chained'
<1>0. PICK F : F = frames[c]
  OBVIOUS
<1>1. /\ UNCHANGED <<frames, input, reached>> /\ Idle /\ c \in Contexts /\ F < input[c]
      /\ call' = [ctx |-> c, value |-> Base(c) + 1]
  BY <1>0 DEF Begins, MayGenerate, Shapes
<1>2. F \in Nat /\ \A d \in Contexts : frames[d] \in Nat /\ reached[d] \in Nat
  BY <1>0, <1>1 DEF Shapes
<1>3. \A d \in Contexts : Begun(d) = 0 /\ Begun(d)' = IF d = c THEN 1 ELSE 0
  <2>1. call'.value # 0 /\ call'.ctx = c
    BY <1>0, <1>1, <1>2 DEF Base
  <2>2. ~ Idle'
    BY <2>1 DEF Idle, NoUpload
  <2> QED BY <1>1, <2>1, <2>2 DEF Begun
<1>4. PICK p, x : p = WarpOf(c) /\ x = WaitOf(c)
  OBVIOUS
<1>5. /\ p.ctx = c /\ p.after = 3 * F /\ p.value = 3 * F + 1 /\ p.frame = F + 1
      /\ batches' = batches \cup {p}
  BY <1>0, <1>2, <1>4, OpsNow DEF Begins
<1>6. PICK n : n = Len(stream)
  OBVIOUS
<1>7. /\ n \in Nat /\ DOMAIN stream' = 1 .. n + 1 /\ DOMAIN stream = 1 .. n
      /\ \A i \in 1 .. n : stream'[i] = stream[i]
      /\ stream'[n + 1] = x
  <2>1. x \in Op /\ stream \in Seq(Op) /\ stream' = Append(stream, x)
    BY <1>4, OpTypes DEF Begins, Shapes
  <2> QED BY <1>6, <2>1, OneMore
<1>8. /\ \A d : \A w \in Nat : IsWait(x, d, w) <=> d = c /\ w = 3 * F + 1
      /\ \A d, w : ~ IsSignal(x, d, w)
  BY <1>0, <1>2, <1>4, OpsNow
<1>9. /\ \A b \in batches : b.ctx \in Contexts /\ b.after \in Nat /\ b.value \in Nat /\ b.frame \in Nat
      /\ \A b \in batches : b.ctx = c => b.value <= 3 * F
      /\ reached[c] <= 3 * F /\ reached[c] \in Nat
  BY <1>0, <1>1, <1>3, Numbers
<1>10. Apart'
  BY <1>1, <1>5, <1>2, <1>9 DEF Chained, Apart
<1>11. /\ \A d \in Contexts, f \in Nat : Plain(d, f) => Plain(d, f)'
       /\ \A d \in Contexts, v \in Nat : Left(d, v) => Left(d, v)'
       /\ Left(c, 3 * F)'
  BY <1>1, <1>5 DEF Plain, Left
<1>12. \A d \in Contexts, v \in Nat : Signalled(d, v) => Signalled(d, v)'
  <2> SUFFICES ASSUME NEW d \in Contexts, NEW v \in Nat, NEW i \in DOMAIN stream, IsSignal(stream[i], d, v)
               PROVE  \E j \in DOMAIN stream' : IsSignal(stream'[j], d, v)
    BY DEF Signalled, IsSignal
  <2>1. i \in DOMAIN stream' /\ stream'[i] = stream[i]
    BY <1>7
  <2> QED BY <2>1
<1>15. WarpLeft' /\ FusionLeft' /\ ResidualLeft'
  <2>1. ASSUME NEW d \in Contexts, NEW f \in Nat, f < frames[d] + Begun(d)', reached[d] <= 3 * f
        PROVE  Left(d, 3 * f)'
    <3>1. f < frames[d] \/ (d = c /\ f = F)
      BY <1>0, <1>2, <1>3, <2>1
    <3> QED BY <1>2, <1>3, <1>11, <2>1, <3>1 DEF Chained, WarpLeft
  <2>2. ASSUME NEW d \in Contexts, NEW f \in Nat, f < frames[d], reached[d] <= 3 * f + 1
        PROVE  Plain(d, f)' \/ Signalled(d, 3 * f + 2)'
    BY <1>11, <1>12, <2>2 DEF Chained, FusionLeft
  <2>3. ASSUME NEW d \in Contexts, NEW f \in Nat, f < frames[d], reached[d] <= 3 * f + 2
        PROVE  Plain(d, f)' \/ Left(d, 3 * f + 2)'
    BY <1>11, <2>3 DEF Chained, ResidualLeft
  <2> QED BY <1>1, <2>1, <2>2, <2>3 DEF WarpLeft, FusionLeft, ResidualLeft
<1>16. FusionBehind'
  <2> SUFFICES ASSUME NEW j \in DOMAIN stream', NEW d \in Contexts, NEW v \in Nat, IsSignal(stream'[j], d, v + 1),
                      ~ (reached[d] >= v)
               PROVE  \E i \in DOMAIN stream' : i < j /\ IsWait(stream'[i], d, v)
    BY <1>1 DEF FusionBehind, IsSignal, IsWait
  <2>1. j \in 1 .. n /\ IsSignal(stream[j], d, v + 1)
    BY <1>7, <1>8
  <2>2. PICK i \in DOMAIN stream : i < j /\ IsWait(stream[i], d, v)
    BY <1>7, <2>1 DEF Chained, FusionBehind
  <2> QED BY <1>7, <2>2
<1>17. UploadBehind'
  <2>1. n + 1 \in DOMAIN stream' /\ 3 * F + 1 \in Nat
    BY <1>2, <1>7
  <2>2. IsWait(stream'[n + 1], c, 3 * F + 1)
    BY <1>7, <1>8, <2>1
  <2>3. \A d \in Contexts : Begun(d)' = 1 => d = c
    BY <1>3
  <2> QED BY <1>0, <1>1, <2>1, <2>2, <2>3 DEF UploadBehind, IsWait
<1>18. ASSUME NEW i \in DOMAIN stream', NEW d \in Contexts, NEW w \in Nat, IsWait(stream'[i], d, w)
       PROVE  \/ i \in 1 .. n /\ IsWait(stream[i], d, w) /\ w <= 3 * frames[d] /\ \E f \in Nat : w = 3 * f + 1
              \/ i = n + 1 /\ d = c /\ w = 3 * F + 1
  <2>1. CASE i \in 1 .. n
    <3>1. IsWait(stream[i], d, w)
      BY <1>7, <1>18, <2>1
    <3>2. w <= 3 * frames[d] + Begun(d) /\ \E f \in Nat : w = 3 * f + 1
      BY <1>7, <2>1, <3>1 DEF Chained, WaitsForWarp
    <3> QED BY <1>2, <1>3, <2>1, <3>1, <3>2
  <2>2. CASE i \notin 1 .. n
    BY <1>7, <1>8, <1>18, <2>2
  <2> QED BY <2>1, <2>2
<1>19. WaitsInOrder'
  <2> SUFFICES ASSUME NEW i \in DOMAIN stream', NEW j \in DOMAIN stream', NEW d \in Contexts, NEW v \in Nat, NEW w \in Nat,
                      i < j, IsWait(stream'[i], d, w), IsSignal(stream'[j], d, v)
               PROVE  w < v
    BY DEF WaitsInOrder, IsSignal, IsWait
  <2>1. j \in 1 .. n /\ i \in 1 .. n /\ IsSignal(stream[j], d, v)
    BY <1>7, <1>8
  <2>2. IsWait(stream[i], d, w)
    BY <1>7, <2>1
  <2> QED BY <1>7, <2>1, <2>2 DEF Chained, WaitsInOrder
<1>20. WaitsForWarp'
  <2> SUFFICES ASSUME NEW i \in DOMAIN stream', NEW d \in Contexts, NEW w \in Nat, IsWait(stream'[i], d, w)
               PROVE  w <= 3 * frames[d] + Begun(d)' /\ \E f \in Nat : w = 3 * f + 1
    BY <1>1 DEF WaitsForWarp, IsWait
  <2>1. CASE w <= 3 * frames[d] /\ \E f \in Nat : w = 3 * f + 1
    BY <1>2, <1>3, <2>1
  <2>2. CASE d = c /\ w = 3 * F + 1
    BY <1>0, <1>2, <1>3, <2>2
  <2> QED BY <1>18, <2>1, <2>2
<1>21. InputThere'
  <2>1. \A d \in Contexts : frames[d] + Begun(d)' <= input[d] /\ input[d] \in Nat
    BY <1>0, <1>1, <1>2, <1>3 DEF Chained, InputThere
  <2>2. \A b \in batches' : b.frame <= frames[b.ctx] + Begun(b.ctx)'
    BY <1>0, <1>1, <1>2, <1>3, <1>5, <1>9 DEF Chained, InputThere
  <2> QED BY <1>1, <2>1, <2>2 DEF Chained, InputThere
<1> QED BY <1>10, <1>15, <1>16, <1>17, <1>19, <1>20, <1>21 DEF Chained

\* The upload is over: the fusion and the residual of the frame are submitted.
LEMMA UploadChained ==
  ASSUME FusionAssumption, Shapes, Loaded, Ordered, Chained, Upload
  PROVE  Chained'
<1>1. PICK c \in interop : c = call.ctx
  BY UploadStream
<1>0. PICK F : F = frames[c]
  OBVIOUS
<1>2. /\ frames' = [frames EXCEPT ![c] = @ + 1] /\ batches' = batches \cup {ResidualOf(c)}
      /\ UNCHANGED <<input, reached>> /\ ~ Idle /\ Idle' /\ c \in Contexts
  BY <1>1 DEF Upload, Idle, Shapes
<1>3. /\ F \in Nat /\ frames'[c] = F + 1 /\ \A d \in Contexts \ {c} : frames'[d] = frames[d]
      /\ \A d \in Contexts : frames[d] \in Nat /\ frames'[d] \in Nat /\ reached[d] \in Nat
  BY <1>0, <1>2 DEF Shapes
<1>4. \A d \in Contexts : Begun(d) = (IF d = c THEN 1 ELSE 0) /\ Begun(d)' = 0
  BY <1>1, <1>2 DEF Begun
<1>5. PICK r, y, z : r = ResidualOf(c) /\ y = Run(c, heap[cnn[c]]) /\ z = SignalOf(c)
  OBVIOUS
<1>6. /\ r.ctx = c /\ r.after = 3 * F + 2 /\ r.value = 3 * F + 3 /\ r.frame = F + 1
      /\ batches' = batches \cup {r}
  <2>1. F = frames[c] /\ F \in Nat
    BY <1>0, <1>3
  <2>2. /\ ResidualOf(c).ctx = c /\ ResidualOf(c).after = 3 * F + 2
        /\ ResidualOf(c).value = 3 * F + 3 /\ ResidualOf(c).frame = F + 1
    BY <2>1, OpsNow
  <2> QED BY <1>2, <1>5, <2>2
<1>7. DOMAIN stream' = 1 .. 2 /\ stream'[1] = y /\ stream'[2] = z /\ DOMAIN stream = {}
  <2>1. DOMAIN stream = {}
    BY DEF Upload
  <2> QED BY <1>1, <1>5, <2>1, UploadStream
<1>8. /\ \A d : \A v \in Nat : IsSignal(z, d, v) <=> d = c /\ v = 3 * F + 2
      /\ \A d, w : ~ IsWait(y, d, w) /\ ~ IsWait(z, d, w) /\ ~ IsSignal(y, d, w)
  BY <1>0, <1>3, <1>5, OpsNow
<1>9. /\ \A b \in batches : b.ctx \in Contexts /\ b.after \in Nat /\ b.value \in Nat /\ b.frame \in Nat
      /\ \A b \in batches : b.ctx = c => b.value <= 3 * F + 1
      /\ reached[c] <= 3 * F + 1
  BY <1>0, <1>2, <1>4, Numbers
<1>10. reached[c] = 3 * F + 1
  <2>1. reached[c] >= 3 * F + 1
    BY <1>0, <1>2, <1>4, <1>7 DEF Chained, UploadBehind
  <2> QED BY <1>2, <1>3, <1>9, <2>1
<1>11. Apart'
  BY <1>2, <1>6, <1>3, <1>9, <1>10 DEF Chained, Apart
<1>12. /\ \A d \in Contexts, f \in Nat : Plain(d, f) => Plain(d, f)'
       /\ \A d \in Contexts, v \in Nat : (Left(d, v) => Left(d, v)') /\ ~ Signalled(d, v)
       /\ Left(c, 3 * F + 2)'
  BY <1>6, <1>7 DEF Plain, Left, Signalled
<1>13. Signalled(c, 3 * F + 2)'
  <2>1. 2 \in DOMAIN stream' /\ 3 * F + 2 \in Nat
    BY <1>3, <1>7
  <2>2. IsSignal(stream'[2], c, 3 * F + 2)
    BY <1>7, <1>8, <2>1
  <2> QED BY <2>1, <2>2 DEF Signalled, IsSignal
<1>14. WarpLeft' /\ FusionLeft' /\ ResidualLeft'
  <2>1. ASSUME NEW d \in Contexts, NEW f \in Nat, f < frames'[d], reached[d] <= 3 * f
        PROVE  Left(d, 3 * f)'
    <3>1. f < frames[d] + Begun(d)
      BY <1>0, <1>3, <1>4, <2>1
    <3> QED BY <1>12, <2>1, <3>1 DEF Chained, WarpLeft
  <2>2. ASSUME NEW d \in Contexts, NEW f \in Nat, f < frames'[d], reached[d] <= 3 * f + 1
        PROVE  Plain(d, f)' \/ Signalled(d, 3 * f + 2)'
    <3>1. f < frames[d] \/ (d = c /\ f = F)
      BY <1>0, <1>3, <2>2
    <3> QED BY <1>12, <1>13, <2>2, <3>1 DEF Chained, FusionLeft
  <2>3. ASSUME NEW d \in Contexts, NEW f \in Nat, f < frames'[d], reached[d] <= 3 * f + 2
        PROVE  Plain(d, f)' \/ Left(d, 3 * f + 2)'
    <3>1. f < frames[d] \/ (d = c /\ f = F)
      BY <1>0, <1>3, <2>3
    <3> QED BY <1>12, <2>3, <3>1 DEF Chained, ResidualLeft
  <2>4. \A d \in Contexts : frames'[d] + Begun(d)' = frames'[d]
    BY <1>3, <1>4
  <2> QED BY <1>2, <2>1, <2>2, <2>3, <2>4 DEF WarpLeft, FusionLeft, ResidualLeft
<1>15. \A i \in DOMAIN stream' : i = 1 \/ i = 2
  BY <1>7
<1>16. FusionBehind'
  <2> SUFFICES ASSUME NEW j \in DOMAIN stream', NEW d \in Contexts, NEW v \in Nat, IsSignal(stream'[j], d, v + 1)
               PROVE  reached[d] >= v
    BY <1>2 DEF FusionBehind, IsSignal, IsWait
  <2>1. d = c /\ v = 3 * F + 1
    BY <1>3, <1>7, <1>8, <1>15
  <2> QED BY <1>10, <2>1
<1>17. UploadBehind'
  BY <1>4 DEF UploadBehind
<1>18. \A i \in DOMAIN stream' : \A d, w : ~ IsWait(stream'[i], d, w)
  BY <1>7, <1>8, <1>15
<1>19. WaitsInOrder' /\ WaitsForWarp'
  BY <1>18 DEF WaitsInOrder, WaitsForWarp, IsWait
<1>20. InputThere'
  <2>1. \A d \in Contexts : frames'[d] <= input[d] /\ input[d] \in Nat
    BY <1>0, <1>3, <1>4 DEF Chained, InputThere
  <2>2. \A b \in batches' : b.frame <= frames'[b.ctx]
    BY <1>0, <1>2, <1>3, <1>4, <1>6, <1>9 DEF Chained, InputThere
  <2>3. \A b \in batches' : b.ctx \in Contexts
    BY <1>2, <1>6, <1>9
  <2> QED BY <1>2, <1>3, <1>4, <2>1, <2>2, <2>3 DEF Chained, InputThere
<1> QED BY <1>11, <1>14, <1>16, <1>17, <1>19, <1>20 DEF Chained

\* A batch has run: the others of its context come behind it.
LEMMA ExecuteChained ==
  ASSUME Shapes, Ordered, Chained, NEW b \in batches, Execute(b)
  PROVE  Chained'
<1>1. PICK e, V : e = b.ctx /\ V = b.value
  OBVIOUS
<1>2. /\ reached' = [reached EXCEPT ![e] = V] /\ batches' = batches \ {b}
      /\ reached[e] >= b.after /\ UNCHANGED <<frames, input, stream, call>>
  BY <1>1 DEF Execute
<1>3. /\ e \in Contexts /\ V \in Nat /\ b.after \in Nat /\ b.after < V /\ reached[e] < V
      /\ \A a \in batches : a.ctx \in Contexts /\ a.after \in Nat /\ a.value \in Nat /\ a.after < a.value
      /\ \A d \in Contexts : reached[d] \in Nat
  BY <1>1, Numbers DEF Chained, Apart
<1>4. /\ reached'[e] = V /\ \A d \in Contexts \ {e} : reached'[d] = reached[d]
      /\ \A d \in Contexts : reached'[d] \in Nat /\ reached[d] <= reached'[d]
  BY <1>2, <1>3 DEF Shapes
<1>5. \A d \in Contexts : Begun(d)' = Begun(d)
  BY <1>2 DEF Begun, Idle
<1>6. \A a \in batches' : a.ctx = e => V <= a.after
  <2> SUFFICES ASSUME NEW a \in batches, a # b, a.ctx = e PROVE V <= a.after
    BY <1>2
  <2>1. a.value <= b.after \/ V <= a.after
    BY <1>1 DEF Chained, Apart
  <2>2. reached[e] < a.value
    BY DEF Chained, Apart
  <2> QED BY <1>2, <1>3, <2>1, <2>2
<1>7. Apart'
  <2>1. \A a \in batches' : reached'[a.ctx] < a.value
    <3> SUFFICES ASSUME NEW a \in batches' PROVE reached'[a.ctx] < a.value
      OBVIOUS
    <3>1. CASE a.ctx = e
      BY <1>2, <1>3, <1>4, <1>6, <3>1
    <3>2. CASE a.ctx # e
      BY <1>2, <1>3, <1>4, <3>2 DEF Chained, Apart
    <3> QED BY <3>1, <3>2
  <2> QED BY <1>2, <2>1 DEF Chained, Apart
<1>8. /\ \A d \in Contexts, v \in Nat : Left(d, v) /\ reached'[d] <= v => Left(d, v)'
      /\ \A d \in Contexts, f \in Nat : Plain(d, f) /\ reached'[d] <= 3 * f + 2 => Plain(d, f)'
  <2>1. ASSUME NEW d \in Contexts, NEW v \in Nat, Left(d, v), reached'[d] <= v PROVE Left(d, v)'
    <3>1. PICK a \in batches : a.ctx = d /\ a.after = v
      BY <2>1 DEF Left
    <3>2. a # b
      BY <1>1, <1>3, <1>4, <2>1, <3>1
    <3> QED BY <1>2, <3>1, <3>2 DEF Left
  <2>2. ASSUME NEW d \in Contexts, NEW f \in Nat, Plain(d, f), reached'[d] <= 3 * f + 2 PROVE Plain(d, f)'
    <3>1. PICK a \in batches : a.ctx = d /\ a.after = 3 * f /\ a.value = 3 * f + 3
      BY <2>2 DEF Plain
    <3>2. a # b
      BY <1>1, <1>3, <1>4, <2>2, <3>1
    <3> QED BY <1>2, <3>1, <3>2 DEF Plain
  <2> QED BY <2>1, <2>2
<1>9. \A d \in Contexts, v \in Nat : Signalled(d, v)' = Signalled(d, v)
  BY <1>2 DEF Signalled
<1>10. WarpLeft' /\ FusionLeft' /\ ResidualLeft'
  <2>1. ASSUME NEW d \in Contexts, NEW f \in Nat, f < frames[d] + Begun(d), reached'[d] <= 3 * f
        PROVE  Left(d, 3 * f)'
    <3>1. reached[d] <= 3 * f
      BY <1>3, <1>4, <2>1
    <3> QED BY <1>8, <2>1, <3>1 DEF Chained, WarpLeft
  <2>2. ASSUME NEW d \in Contexts, NEW f \in Nat, f < frames[d], reached'[d] <= 3 * f + 1
        PROVE  Plain(d, f)' \/ Signalled(d, 3 * f + 2)'
    <3>1. reached[d] <= 3 * f + 1 /\ reached'[d] <= 3 * f + 2
      BY <1>3, <1>4, <2>2
    <3>2. Plain(d, f) \/ Signalled(d, 3 * f + 2)
      BY <2>2, <3>1 DEF Chained, FusionLeft
    <3> QED BY <1>8, <1>9, <3>1, <3>2
  <2>3. ASSUME NEW d \in Contexts, NEW f \in Nat, f < frames[d], reached'[d] <= 3 * f + 2
        PROVE  Plain(d, f)' \/ Left(d, 3 * f + 2)'
    <3>1. reached[d] <= 3 * f + 2 /\ 3 * f + 2 \in Nat
      BY <1>3, <1>4, <2>3
    <3>2. Plain(d, f) \/ Left(d, 3 * f + 2)
      BY <2>3, <3>1 DEF Chained, ResidualLeft
    <3> QED BY <1>8, <2>3, <3>1, <3>2
  <2> QED BY <1>2, <1>5, <2>1, <2>2, <2>3 DEF WarpLeft, FusionLeft, ResidualLeft
<1>11. FusionBehind'
  <2> SUFFICES ASSUME NEW j \in DOMAIN stream, NEW d \in Contexts, NEW v \in Nat, IsSignal(stream[j], d, v + 1),
                      ~ (reached'[d] >= v)
               PROVE  \E i \in DOMAIN stream : i < j /\ IsWait(stream[i], d, v)
    BY <1>2 DEF FusionBehind
  <2>1. ~ (reached[d] >= v)
    BY <1>3, <1>4
  <2> QED BY <2>1 DEF Chained, FusionBehind
<1>12. UploadBehind'
  <2> SUFFICES ASSUME NEW d \in Contexts, Begun(d) = 1, ~ (reached'[d] >= 3 * frames[d] + 1)
               PROVE  \E i \in DOMAIN stream : IsWait(stream[i], d, 3 * frames[d] + 1)
    BY <1>2, <1>5 DEF UploadBehind
  <2>1. ~ (reached[d] >= 3 * frames[d] + 1)
    BY <1>3, <1>4 DEF Shapes
  <2> QED BY <2>1 DEF Chained, UploadBehind
<1>13. WaitsInOrder' /\ WaitsForWarp' /\ InputThere'
  BY <1>2, <1>3, <1>5 DEF Chained, WaitsInOrder, WaitsForWarp, InputThere
<1> QED BY <1>7, <1>10, <1>11, <1>12, <1>13 DEF Chained

\* The stream goes one operation further.
LEMMA StreamStepChained ==
  ASSUME Shapes, Ordered, Chained, StreamStep
  PROVE  Chained'
<1>1. PICK n : n = Len(stream)
  OBVIOUS
<1>2. /\ DOMAIN stream' = 1 .. n - 1 /\ DOMAIN stream = 1 .. n /\ n \in Nat \ {0}
      /\ \A i \in 1 .. n - 1 : stream'[i] = stream[i + 1]
      /\ Head(stream) = stream[1] /\ 1 \in DOMAIN stream
  BY <1>1, OneLess DEF StreamStep, Shapes
<1>3. UNCHANGED <<input, frames, batches, call>>
  BY DEF StreamStep
<1>4. PICK o : o = stream[1]
  OBVIOUS
<1>5. /\ o.ctx \in Contexts
      /\ o.op = "signal" => o.value \in Nat /\ IsSignal(stream[1], o.ctx, o.value)
  BY <1>2, <1>4, StreamType
<1>6. \/ o.op = "wait" /\ reached[o.ctx] >= o.value /\ UNCHANGED reached
      \/ o.op = "run" /\ UNCHANGED reached
      \/ o.op = "signal" /\ reached' = [reached EXCEPT ![o.ctx] = o.value]
  BY <1>2, <1>4 DEF StreamStep
<1>7. \A d \in Contexts : Begun(d)' = Begun(d)
  BY <1>3 DEF Begun, Idle
<1>8. \A d \in Contexts : reached[d] \in Nat /\ frames[d] \in Nat
  BY DEF Shapes
\* Only a signal moves a timeline, and it moves it by one.
<1>9. o.op = "signal" => /\ \E f \in Nat : o.value = 3 * f + 2
                         /\ reached[o.ctx] + 1 = o.value
  <2> SUFFICES ASSUME o.op = "signal"
               PROVE  (\E f \in Nat : o.value = 3 * f + 2) /\ reached[o.ctx] + 1 = o.value
    OBVIOUS
  <2>1. PICK f \in Nat : o.value = 3 * f + 2 /\ reached[o.ctx] < o.value
    BY <1>2, <1>4, <1>5, SMTT(60) DEF Ordered, Signals, Awaited
  <2>2. o.value = (3 * f + 1) + 1 /\ 3 * f + 1 \in Nat
    BY <2>1
  <2>3. ~ \E i \in DOMAIN stream : i < 1
    BY <1>2
  <2>4. IsSignal(stream[1], o.ctx, (3 * f + 1) + 1)
    BY <1>5, <2>2
  <2>5. reached[o.ctx] >= 3 * f + 1
    BY <1>2, <1>5, <2>2, <2>3, <2>4 DEF Chained, FusionBehind
  <2>6. PICK R : R = reached[o.ctx]
    OBVIOUS
  <2>7. R \in Nat /\ R >= 3 * f + 1 /\ R < 3 * f + 2
    BY <1>5, <1>8, <2>1, <2>5, <2>6
  <2>8. R + 1 = 3 * f + 2
    BY <2>7
  <2> QED BY <2>1, <2>6, <2>8
<1>10. \A d \in Contexts : reached'[d] \in Nat /\ reached[d] <= reached'[d]
  BY <1>5, <1>6, <1>8, <1>9 DEF Shapes
<1>11. \A i \in DOMAIN stream' : i + 1 \in DOMAIN stream /\ stream'[i] = stream[i + 1] /\ i \in Nat
  BY <1>2
<1>12. \A i \in DOMAIN stream : i # 1 => i - 1 \in DOMAIN stream' /\ stream'[i - 1] = stream[i]
  BY <1>2
<1>13. Apart'
  <2>1. ASSUME NEW b \in batches PROVE reached'[b.ctx] < b.value
    <3>1. b.ctx \in Contexts /\ b.value \in Nat /\ \E f \in Nat : b.value = 3 * f + 1 \/ b.value = 3 * f + 3
      BY Numbers
    <3>2. reached[b.ctx] < b.value
      BY DEF Chained, Apart
    <3>3. CASE o.op = "signal" /\ b.ctx = o.ctx
      BY <1>5, <1>6, <1>8, <1>9, <3>1, <3>2, <3>3 DEF Shapes
    <3>4. CASE ~ (o.op = "signal" /\ b.ctx = o.ctx)
      BY <1>6, <3>1, <3>2, <3>4 DEF Shapes
    <3> QED BY <3>3, <3>4
  <2> QED BY <1>3, <2>1 DEF Chained, Apart
<1>14. /\ \A d \in Contexts, v \in Nat : Left(d, v)' = Left(d, v)
       /\ \A d \in Contexts, f \in Nat : Plain(d, f)' = Plain(d, f)
  BY <1>3 DEF Left, Plain
<1>15. ASSUME NEW d \in Contexts, NEW v \in Nat, Signalled(d, v), reached'[d] < v
       PROVE  Signalled(d, v)'
  <2>1. PICK i \in DOMAIN stream : IsSignal(stream[i], d, v)
    BY <1>15 DEF Signalled
  <2>2. i # 1
    <3> SUFFICES ASSUME i = 1 PROVE FALSE
      OBVIOUS
    <3>1. o.op = "signal" /\ o.ctx = d /\ o.value = v
      BY <1>4, <2>1 DEF IsSignal
    <3> QED BY <1>6, <1>15, <3>1 DEF Shapes
  <2>3. i - 1 \in DOMAIN stream' /\ IsSignal(stream'[i - 1], d, v)
    BY <1>12, <2>1, <2>2
  <2> QED BY <2>3 DEF Signalled, IsSignal
<1>16. WarpLeft' /\ FusionLeft' /\ ResidualLeft'
  <2>1. ASSUME NEW d \in Contexts, NEW f \in Nat, f < frames[d] + Begun(d), reached'[d] <= 3 * f
        PROVE  Left(d, 3 * f)
    <3>1. reached[d] <= 3 * f
      BY <1>8, <1>10, <2>1
    <3> QED BY <2>1, <3>1 DEF Chained, WarpLeft
  <2>2. ASSUME NEW d \in Contexts, NEW f \in Nat, f < frames[d], reached'[d] <= 3 * f + 1
        PROVE  Plain(d, f) \/ Signalled(d, 3 * f + 2)'
    <3>1. reached[d] <= 3 * f + 1 /\ reached'[d] < 3 * f + 2 /\ 3 * f + 2 \in Nat
      BY <1>8, <1>10, <2>2
    <3>2. Plain(d, f) \/ Signalled(d, 3 * f + 2)
      BY <2>2, <3>1 DEF Chained, FusionLeft
    <3> QED BY <1>15, <3>1, <3>2
  <2>3. ASSUME NEW d \in Contexts, NEW f \in Nat, f < frames[d], reached'[d] <= 3 * f + 2
        PROVE  Plain(d, f) \/ Left(d, 3 * f + 2)
    <3>1. reached[d] <= 3 * f + 2
      BY <1>8, <1>10, <2>3
    <3> QED BY <2>3, <3>1 DEF Chained, ResidualLeft
  <2>4. \A f \in Nat : 3 * f \in Nat /\ 3 * f + 2 \in Nat
    OBVIOUS
  <2> QED BY <1>3, <1>7, <1>14, <2>1, <2>2, <2>3, <2>4 DEF WarpLeft, FusionLeft, ResidualLeft
\* A wait leaves the stream when its value is there.
<1>17. ASSUME NEW d \in Contexts, NEW v \in Nat, NEW i \in DOMAIN stream, IsWait(stream[i], d, v),
              ~ (reached'[d] >= v)
       PROVE  i # 1 /\ i - 1 \in DOMAIN stream' /\ IsWait(stream'[i - 1], d, v)
  <2>1. i # 1
    <3> SUFFICES ASSUME i = 1 PROVE FALSE
      OBVIOUS
    <3>1. o.op = "wait" /\ o.ctx = d /\ o.value = v
      BY <1>4, <1>17 DEF IsWait
    <3>2. reached[d] >= v /\ UNCHANGED reached
      BY <1>6, <3>1
    <3> QED BY <1>17, <3>2
  <2> QED BY <1>12, <1>17, <2>1
<1>18. FusionBehind'
  <2> SUFFICES ASSUME NEW j \in DOMAIN stream', NEW d \in Contexts, NEW v \in Nat, IsSignal(stream'[j], d, v + 1),
                      ~ (reached'[d] >= v)
               PROVE  \E i \in DOMAIN stream' : i < j /\ IsWait(stream'[i], d, v)
    BY DEF FusionBehind, IsSignal, IsWait
  <2>1. j + 1 \in DOMAIN stream /\ IsSignal(stream[j + 1], d, v + 1)
    BY <1>11
  <2>2. ~ (reached[d] >= v)
    BY <1>8, <1>10
  <2>3. PICK i \in DOMAIN stream : i < j + 1 /\ IsWait(stream[i], d, v)
    BY <2>1, <2>2 DEF Chained, FusionBehind
  <2>4. i - 1 \in DOMAIN stream' /\ IsWait(stream'[i - 1], d, v)
    BY <1>17, <2>3
  <2>5. i - 1 < j
    BY <1>2, <1>11, <2>3
  <2> QED BY <2>4, <2>5
<1>19. UploadBehind'
  <2> SUFFICES ASSUME NEW d \in Contexts, Begun(d) = 1, ~ (reached'[d] >= 3 * frames[d] + 1)
               PROVE  \E i \in DOMAIN stream' : IsWait(stream'[i], d, 3 * frames[d] + 1)
    BY <1>3, <1>7 DEF UploadBehind, IsWait
  <2>1. ~ (reached[d] >= 3 * frames[d] + 1) /\ 3 * frames[d] + 1 \in Nat
    BY <1>8, <1>10
  <2>2. PICK i \in DOMAIN stream : IsWait(stream[i], d, 3 * frames[d] + 1)
    BY <2>1 DEF Chained, UploadBehind
  <2> QED BY <1>17, <2>1, <2>2
<1>20. WaitsInOrder'
  <2> SUFFICES ASSUME NEW i \in DOMAIN stream', NEW j \in DOMAIN stream', NEW d \in Contexts, NEW v \in Nat, NEW w \in Nat,
                      i < j, IsWait(stream'[i], d, w), IsSignal(stream'[j], d, v)
               PROVE  w < v
    BY DEF WaitsInOrder, IsSignal, IsWait
  <2>1. /\ i + 1 \in DOMAIN stream /\ j + 1 \in DOMAIN stream /\ i + 1 < j + 1
        /\ IsWait(stream[i + 1], d, w) /\ IsSignal(stream[j + 1], d, v)
    BY <1>11
  <2> QED BY <2>1 DEF Chained, WaitsInOrder
<1>21. WaitsForWarp'
  <2> SUFFICES ASSUME NEW i \in DOMAIN stream', NEW d \in Contexts, NEW w \in Nat, IsWait(stream'[i], d, w)
               PROVE  w <= 3 * frames[d] + Begun(d) /\ \E f \in Nat : w = 3 * f + 1
    BY <1>3, <1>7 DEF WaitsForWarp, IsWait
  <2>1. i + 1 \in DOMAIN stream /\ IsWait(stream[i + 1], d, w)
    BY <1>11
  <2> QED BY <2>1 DEF Chained, WaitsForWarp
<1>22. InputThere'
  <2>1. \A b \in batches : b.ctx \in Contexts
    BY Numbers
  <2> QED BY <1>3, <1>7, <2>1 DEF Chained, InputThere
<1> QED BY <1>13, <1>16, <1>18, <1>19, <1>20, <1>21, <1>22 DEF Chained

LEMMA ChainedInit == FusionAssumption /\ Init => Chained
<1> SUFFICES ASSUME FusionAssumption, Init PROVE Chained
  OBVIOUS
<1>1. /\ DOMAIN stream = {} /\ batches = {} /\ \A c \in Contexts : frames[c] = 0 /\ Begun(c) = 0 /\ input[c] = 0
  BY DEF Init, Begun, Idle
<1>2. WarpLeft /\ FusionLeft /\ ResidualLeft
  <2>1. \A f \in Nat : ~ (f < 0)
    OBVIOUS
  <2> QED BY <1>1, <2>1 DEF WarpLeft, FusionLeft, ResidualLeft
<1>3. InputThere
  BY <1>1 DEF Init, InputThere
<1> QED BY <1>1, <1>2, <1>3 DEF Chained, Apart, FusionBehind, UploadBehind, WaitsInOrder, WaitsForWarp

LEMMA ChainedNext ==
  ASSUME FusionAssumption, InputFirst, Shapes, Loaded, Ordered, Chained, [Next]_vars
  PROVE  Chained'
<1>0. input \in [Contexts -> Nat]
  BY DEF Chained, InputThere
<1>1. ASSUME UNCHANGED <<frames, input, reached, batches, stream, call>> PROVE Chained'
  <2>1. \A c \in Contexts : input[c] <= input'[c]
    BY <1>0, <1>1
  <2> QED BY <1>0, <1>1, <2>1, ChainedElsewhere
<1>2. ASSUME NEW c \in Contexts, NEW file \in Weights, Load(c, file) PROVE Chained'
  BY <1>1, <1>2 DEF Load
<1>4. ASSUME NEW c \in Contexts, Build(c) \/ TearDown(c) \/ Destroy(c) PROVE Chained'
  BY <1>1, <1>4 DEF Build, TearDown, Destroy
<1>5. ASSUME NEW c \in Contexts, Render(c) PROVE Chained'
  <2>1. UNCHANGED <<frames, reached, batches, stream, call>> /\ input' = [input EXCEPT ![c] = @ + 1]
    BY <1>5 DEF Render
  <2>2. input' \in [Contexts -> Nat] /\ \A d \in Contexts : input[d] <= input'[d]
    BY <1>0, <2>1
  <2> QED BY <2>1, <2>2, ChainedElsewhere
<1>6. ASSUME NEW c \in Contexts, GeneratePlain(c) PROVE Chained'
  BY <1>6, PlainChained
<1>7. ASSUME NEW c \in Contexts, Generate(c) PROVE Chained'
  <2>1. MayGenerate(c) /\ UNCHANGED input /\ c \in interop
    BY <1>7 DEF Generate
  <2> QED BY <1>7, <2>1, GenerateCases, SubmitsChained, BeginsChained
<1>8. ASSUME NEW b \in batches, Execute(b) PROVE Chained'
  BY <1>8, ExecuteChained
<1>9. CASE UNCHANGED vars
  BY <1>1, <1>9 DEF vars
<1> QED
  BY <1>2, <1>4, <1>5, <1>6, <1>7, <1>8, <1>9, UploadChained, StreamStepChained DEF Next

\* The next value of a timeline is one that a batch is free to signal or one of a
\* fusion that is on the stream.
LEMMA NextValue ==
  ASSUME Shapes, Ordered, Chained, NEW c \in Contexts, NEW R, R = reached[c],
         R < 3 * frames[c] + Begun(c)
  PROVE  BatchMoves \/ Signalled(c, R + 1)
<1>1. R \in Nat /\ frames[c] \in Nat /\ Begun(c) \in {0, 1}
  BY Numbers
<1>2. ASSUME NEW b \in batches, b.ctx = c, b.after <= R PROVE BatchMoves
  <2>1. b.frame <= frames[c] + Begun(c) /\ frames[c] + Begun(c) <= input[c] /\ input[c] \in Nat /\ b.frame \in Nat
    BY <1>2, Numbers DEF Chained, InputThere
  <2>2. input[c] >= b.frame
    BY <1>1, <2>1
  <2>3. b.after \in Nat
    BY Numbers
  <2> QED BY <1>1, <1>2, <2>2, <2>3 DEF BatchMoves
<1>3. PICK f \in Nat : R = 3 * f \/ R = 3 * f + 1 \/ R = 3 * f + 2
  <2>1. R \div 3 \in Nat /\ (R = 3 * (R \div 3) \/ R = 3 * (R \div 3) + 1 \/ R = 3 * (R \div 3) + 2)
    BY <1>1
  <2> QED BY <2>1
<1>4. CASE R = 3 * f
  <2>1. f < frames[c] + Begun(c) /\ reached[c] <= 3 * f
    BY <1>1, <1>3, <1>4
  <2>2. Left(c, 3 * f)
    BY <1>3, <2>1 DEF Chained, WarpLeft
  <2>3. PICK b \in batches : b.ctx = c /\ b.after = 3 * f
    BY <2>2 DEF Left
  <2> QED BY <1>2, <1>3, <1>4, <2>3
<1>5. ASSUME Plain(c, f), R = 3 * f + 1 \/ R = 3 * f + 2 PROVE BatchMoves
  <2>1. PICK b \in batches : b.ctx = c /\ b.after = 3 * f
    BY <1>5 DEF Plain
  <2> QED BY <1>2, <1>3, <1>5, <2>1
<1>6. CASE R = 3 * f + 1
  <2>1. f < frames[c] /\ R + 1 = 3 * f + 2 /\ reached[c] <= 3 * f + 1
    BY <1>1, <1>3, <1>6
  <2>2. Plain(c, f) \/ Signalled(c, 3 * f + 2)
    BY <1>3, <2>1 DEF Chained, FusionLeft
  <2> QED BY <1>5, <1>6, <2>1, <2>2
<1>7. CASE R = 3 * f + 2
  <2>1. f < frames[c] /\ reached[c] <= 3 * f + 2
    BY <1>1, <1>3, <1>7
  <2>2. Plain(c, f) \/ Left(c, 3 * f + 2)
    BY <1>3, <2>1 DEF Chained, ResidualLeft
  <2>3. CASE Left(c, 3 * f + 2)
    <3>1. PICK b \in batches : b.ctx = c /\ b.after = 3 * f + 2
      BY <2>3 DEF Left
    <3> QED BY <1>2, <1>3, <1>7, <3>1
  <2> QED BY <1>5, <1>7, <2>2, <2>3
<1> QED BY <1>3, <1>4, <1>6, <1>7

LEMMA ChainedMoves ==
  ASSUME Shapes, Ordered, Chained
  PROVE  NeverStuck
<1> SUFFICES ASSUME stream # <<>> \/ batches # {}, ~ StreamMoves PROVE BatchMoves
  BY DEF NeverStuck
<1>1. CASE stream # <<>>
  <2>1. PICK o : o = stream[1] /\ o = Head(stream) /\ 1 \in DOMAIN stream
    BY <1>1, OneLess DEF Shapes
  <2>2. o \in Op /\ o.ctx \in Contexts
    BY <2>1, StreamType
  <2>3. PICK c, w : c = o.ctx /\ w = o.value
    OBVIOUS
  <2>4. o.op = "wait" /\ ~ (reached[c] >= w)
    BY <1>1, <2>1, <2>3 DEF StreamMoves
  <2>5. c \in Contexts /\ w \in Nat /\ IsWait(stream[1], c, w)
    BY <2>1, <2>2, <2>3, <2>4 DEF Op, IsWait
  <2>6. w <= 3 * frames[c] + Begun(c)
    BY <2>1, <2>5 DEF Chained, WaitsForWarp
  <2>7. PICK R : R = reached[c]
    OBVIOUS
  <2>8. R \in Nat /\ frames[c] \in Nat /\ Begun(c) \in {0, 1}
    BY <2>5, <2>7, Numbers
  <2>9. R < w /\ R < 3 * frames[c] + Begun(c)
    BY <2>4, <2>5, <2>6, <2>7, <2>8
  <2>10. ASSUME Signalled(c, R + 1) PROVE FALSE
    <3>1. PICK i \in DOMAIN stream : IsSignal(stream[i], c, R + 1)
      BY <2>10 DEF Signalled
    <3>2. i # 1
      BY <2>5, <3>1 DEF IsSignal, IsWait
    <3>3. 1 < i /\ R + 1 \in Nat
      BY <2>8, <3>2 DEF Shapes
    <3>4. w < R + 1
      BY <2>1, <2>5, <3>1, <3>3 DEF Chained, WaitsInOrder
    <3> QED BY <2>5, <2>8, <2>9, <3>4
  <2> QED BY <2>5, <2>7, <2>9, <2>10, NextValue
<1>2. CASE stream = <<>>
  <2>1. PICK b \in batches : TRUE
    BY <1>2
  <2>2. PICK c, R : c = b.ctx /\ R = reached[c]
    OBVIOUS
  <2>3. c \in Contexts /\ R < b.value /\ b.value <= 3 * frames[c] + Begun(c)
    BY <2>1, <2>2, Numbers DEF Chained, Apart
  <2>4. R < 3 * frames[c] + Begun(c)
    <3>1. R \in Nat /\ b.value \in Nat /\ frames[c] \in Nat /\ Begun(c) \in {0, 1}
      BY <2>2, <2>3, Numbers
    <3> QED BY <2>3, <3>1
  <2>5. ~ Signalled(c, R + 1)
    BY <1>2 DEF Signalled
  <2> QED BY <2>2, <2>3, <2>4, <2>5, NextValue
<1> QED BY <1>1, <1>2

\* Where the application submits what a frame reads before it generates it, the
\* device never comes to a standstill, for any number of contexts and frames: the
\* contexts share one in-order CUDA stream and their batches wait for it, but the
\* head of the stream, or a batch, always finds what it waits for signalled.  A
\* wait is for a warp that has been submitted and stands before the fusion whose
\* value the residual needs, and what the frame has left is still there.
THEOREM NeverStuckCorrect ==
  ASSUME InputFirst
  PROVE  Spec => []NeverStuck
<1>1. Init => Shapes /\ Loaded /\ Ordered /\ Chained
  BY LoadedInit, OrderedInit, ChainedInit, FusionAssumption
<1>2. Shapes /\ Loaded /\ [Next]_vars => (Shapes /\ Loaded)'
  BY LoadedNext, FusionAssumption
<1>3. Shapes /\ Loaded /\ Ordered /\ [Next]_vars => Ordered'
  BY OrderedNext, FusionAssumption
<1>4. Shapes /\ Loaded /\ Ordered /\ Chained /\ [Next]_vars => Chained'
  BY ChainedNext, FusionAssumption
<1>5. Shapes /\ Ordered /\ Chained => NeverStuck
  BY ChainedMoves
<1> QED BY <1>1, <1>2, <1>3, <1>4, <1>5, PTL DEF Spec

-------------------------------------------------------------------------------
(* The network                                                               *)

LEMMA StridedSizes ==
  ASSUME NEW n \in Nat \ {0}
  PROVE  /\ Strided(n, 1) = n
         /\ Strided(n, 2) \in Nat \ {0}
BY DEF Strided

LEMMA LayersOf ==
  ASSUME NEW base \in Nat
  PROVE  LET net == Layers(base)
         IN /\ net["e1"].in = 12 /\ net["e1"].out = base /\ net["e1"].stride = 1
            /\ net["e2"].in = base /\ net["e2"].out = 2 * base /\ net["e2"].stride = 2
            /\ net["e3"].in = 2 * base /\ net["e3"].out = 3 * base /\ net["e3"].stride = 2
            /\ net["e4"].in = 3 * base /\ net["e4"].out = 4 * base /\ net["e4"].stride = 2
            /\ net["d3"].in = 7 * base /\ net["d3"].out = 3 * base /\ net["d3"].stride = 1
            /\ net["d2"].in = 5 * base /\ net["d2"].out = 2 * base /\ net["d2"].stride = 1
            /\ net["d1"].in = 3 * base /\ net["d1"].out = base /\ net["d1"].stride = 1
            /\ net["out"].in = base /\ net["out"].out = 3 /\ net["out"].stride = 1
BY DEF Layers

\* A tensor that fits, of c channels, h by w.
Whole(t, c, h, w) == t.fits /\ t.c = c /\ t.h = h /\ t.w = w /\ h \in Nat \ {0} /\ w \in Nat \ {0}

LEMMA ConvWhole ==
  ASSUME NEW in, NEW cin, NEW h, NEW w, Whole(in, cin, h, w),
         NEW block, NEW n, NEW stride \in {1, 2}, NEW cout
  PROVE  Whole(Conv(in, block, n, stride, cin, cout), cout, Strided(h, stride), Strided(w, stride))
<1>1. Strided(h, stride) \in Nat \ {0} /\ Strided(w, stride) \in Nat \ {0}
  BY StridedSizes DEF Whole
<1> QED BY <1>1 DEF Whole, Conv, Tensor

\* So has what the CUDA runtime computes, whether or not its indices fit; where they
\* do, it is the same tensor.
LEMMA RawWhole ==
  ASSUME NEW in, NEW cin, NEW h, NEW w, Whole(in, cin, h, w),
         NEW block, NEW n, NEW stride \in {1, 2}, NEW cout
  PROVE  /\ Whole(conv_raw(in, block, n, stride, cin, cout), cout, Strided(h, stride), Strided(w, stride))
         /\ Indexed(cin, Strided(h, stride) * Strided(w, stride))
              => conv_raw(in, block, n, stride, cin, cout) = Conv(in, block, n, stride, cin, cout)
<1>1. PICK o : o = Conv(in, block, n, stride, cin, cout)
  OBVIOUS
<1>2. Whole(o, cout, Strided(h, stride), Strided(w, stride))
  BY <1>1, ConvWhole
<1>3. conv_raw(in, block, n, stride, cin, cout)
        = IF Indexed(in.c, o.h * o.w) THEN o ELSE [o EXCEPT !.holds = Undefined]
  BY <1>1 DEF conv_raw
<1>4. in.c = cin /\ o.h = Strided(h, stride) /\ o.w = Strided(w, stride)
  BY <1>2 DEF Whole
<1>5. Whole([o EXCEPT !.holds = Undefined], cout, Strided(h, stride), Strided(w, stride))
  <2>1. o = [c |-> o.c, h |-> o.h, w |-> o.w, fits |-> o.fits, holds |-> o.holds]
    BY <1>1 DEF Conv, Tensor
  <2> QED BY <1>2, <2>1 DEF Whole
<1> QED BY <1>1, <1>2, <1>3, <1>4, <1>5

LEMMA seq2Whole ==
  ASSUME NEW net, NEW block, NEW in, NEW h, NEW w, Whole(in, net[block].in, h, w),
         NEW stride \in {1, 2}
  PROVE  LET n == Strided(h, stride) * Strided(w, stride)
         IN /\ Whole(seq2(net, in, block, stride), net[block].out, Strided(h, stride), Strided(w, stride))
            /\ Indexed(net[block].in, n) /\ Indexed(net[block].out, n)
                 => seq2(net, in, block, stride) = Seq2(net, in, block, stride)
<1>1. PICK b : b = net[block]
  OBVIOUS
<1>2. PICK a : a = conv_raw(in, block, 0, stride, b.in, b.out)
  OBVIOUS
<1>3. /\ Whole(a, b.out, Strided(h, stride), Strided(w, stride))
      /\ Indexed(b.in, Strided(h, stride) * Strided(w, stride)) => a = Conv(in, block, 0, stride, b.in, b.out)
  BY <1>1, <1>2, RawWhole
<1>4. Strided(h, stride) \in Nat \ {0} /\ Strided(w, stride) \in Nat \ {0}
  BY <1>3 DEF Whole
<1>5. Strided(Strided(h, stride), 1) = Strided(h, stride) /\ Strided(Strided(w, stride), 1) = Strided(w, stride)
  BY <1>4, StridedSizes
<1>6. /\ Whole(conv_raw(a, block, 1, 1, b.out, b.out), b.out, Strided(h, stride), Strided(w, stride))
      /\ Indexed(b.out, Strided(h, stride) * Strided(w, stride))
           => conv_raw(a, block, 1, 1, b.out, b.out) = Conv(a, block, 1, 1, b.out, b.out)
  BY <1>3, <1>5, RawWhole
<1> QED BY <1>1, <1>2, <1>3, <1>6 DEF seq2, Seq2

\* A skip connection is met by what is scaled to its size.
LEMMA DecodeWhole ==
  ASSUME NEW deep, NEW c \in Nat, NEW h, NEW w, Whole(deep, c, h, w),
         NEW skip, NEW d \in Nat, NEW sh, NEW sw, Whole(skip, d, sh, sw)
  PROVE  Whole(Cat(UpTo(deep, skip), skip), c + d, sh, sw)
<1>1. PICK up : up = UpTo(deep, skip)
  OBVIOUS
<1>2. up.fits = deep.fits /\ up.c = c /\ up.h = sh /\ up.w = sw
  BY <1>1 DEF Whole, UpTo, Up, Tensor
<1>3. PICK cat : cat = Cat(up, skip)
  OBVIOUS
<1>4. cat.c = up.c + skip.c /\ cat.h = up.h /\ cat.w = up.w
  BY <1>3 DEF Cat, Tensor
<1>5. cat.fits = (up.fits /\ skip.fits /\ <<up.h, up.w>> = <<skip.h, skip.w>>)
  BY <1>3 DEF Cat, Tensor
<1> QED BY <1>1, <1>2, <1>3, <1>4, <1>5 DEF Whole

\* Fewer channels are indexed where more are.
LEMMA IndexedLess ==
  ASSUME NEW c \in Nat, NEW d \in Nat, c <= d, NEW n, Indexed(d, n)
  PROVE  Indexed(c, n)
<1>1. PICK q : q = (INT_MAX - (n - 1)) \div n
  OBVIOUS
<1> QED BY <1>1 DEF Indexed

\* The frame goes through sizes 1 to 4 and back; fusionCore is the expression of the
\* CPU reference wherever the widest inputs are indexed.
LEMMA CoreWhole ==
  ASSUME NEW base \in Nat, NEW h \in Nat \ {0}, NEW w \in Nat \ {0}
  PROVE  /\ Whole(fusionCore(Layers(base), NetInput(h, w)), 3, h, w)
         /\ Indexable(base, h, w)
              => fusionCore(Layers(base), NetInput(h, w)) = CPU(Layers(base), NetInput(h, w))
<1>1. PICK net : net = Layers(base)
  OBVIOUS
<1> DEFINE h2 == Strided(h, 2)
           h3 == Strided(h2, 2)
           h4 == Strided(h3, 2)
           w2 == Strided(w, 2)
           w3 == Strided(w2, 2)
           w4 == Strided(w3, 2)
           Fits == Indexable(base, h, w)
<1>2. PICK s1 : s1 = seq2(net, NetInput(h, w), "e1", 1)
  OBVIOUS
<1>3. PICK s2 : s2 = seq2(net, s1, "e2", 2)
  OBVIOUS
<1>4. PICK s3 : s3 = seq2(net, s2, "e3", 2)
  OBVIOUS
<1>5. PICK s4 : s4 = seq2(net, s3, "e4", 2)
  OBVIOUS
<1>6. PICK d3 : d3 = seq2(net, Cat(UpTo(s4, s3), s3), "d3", 1)
  OBVIOUS
<1>7. PICK d2 : d2 = seq2(net, Cat(UpTo(d3, s2), s2), "d2", 1)
  OBVIOUS
<1>8. PICK d1 : d1 = seq2(net, Cat(UpTo(d2, s1), s1), "d1", 1)
  OBVIOUS
<1>9. fusionCore(net, NetInput(h, w)) = conv_raw(d1, "out", 0, 1, net.out.in, net.out.out)
  BY <1>2, <1>3, <1>4, <1>5, <1>6, <1>7, <1>8 DEF fusionCore
<1>10. /\ net["e1"].in = 12 /\ net["e1"].out = base
       /\ net["e2"].in = base /\ net["e2"].out = 2 * base
       /\ net["e3"].in = 2 * base /\ net["e3"].out = 3 * base
       /\ net["e4"].in = 3 * base /\ net["e4"].out = 4 * base
       /\ net["d3"].in = 7 * base /\ net["d3"].out = 3 * base
       /\ net["d2"].in = 5 * base /\ net["d2"].out = 2 * base
       /\ net["d1"].in = 3 * base /\ net["d1"].out = base
       /\ net.out.in = base /\ net.out.out = 3
  BY <1>1, LayersOf
<1>11. /\ 2 * base \in Nat /\ 3 * base \in Nat /\ 4 * base \in Nat /\ 5 * base \in Nat /\ 7 * base \in Nat
       /\ base <= 3 * base /\ base <= 5 * base /\ 2 * base <= 5 * base /\ 2 * base <= 7 * base
       /\ 3 * base <= 7 * base /\ 3 * base <= 4 * base
  OBVIOUS
<1>12. Whole(NetInput(h, w), 12, h, w)
  BY DEF Whole, NetInput, Tensor
<1>13. /\ h2 \in Nat \ {0} /\ w2 \in Nat \ {0} /\ h3 \in Nat \ {0} /\ w3 \in Nat \ {0}
       /\ h4 \in Nat \ {0} /\ w4 \in Nat \ {0}
  BY StridedSizes
<1>14. /\ Strided(h, 1) = h /\ Strided(w, 1) = w /\ Strided(h2, 1) = h2 /\ Strided(w2, 1) = w2
       /\ Strided(h3, 1) = h3 /\ Strided(w3, 1) = w3
  BY <1>13, StridedSizes
<1>15. Fits => /\ Indexed(12, h * w) /\ Indexed(base, h * w) /\ Indexed(3 * base, h * w)
               /\ Indexed(base, h2 * w2) /\ Indexed(2 * base, h2 * w2) /\ Indexed(5 * base, h2 * w2)
               /\ Indexed(2 * base, h3 * w3) /\ Indexed(3 * base, h3 * w3) /\ Indexed(7 * base, h3 * w3)
               /\ Indexed(3 * base, h4 * w4) /\ Indexed(4 * base, h4 * w4)
  <2> SUFFICES ASSUME Fits
               PROVE  /\ Indexed(12, h * w) /\ Indexed(base, h * w) /\ Indexed(3 * base, h * w)
                      /\ Indexed(base, h2 * w2) /\ Indexed(2 * base, h2 * w2) /\ Indexed(5 * base, h2 * w2)
                      /\ Indexed(2 * base, h3 * w3) /\ Indexed(3 * base, h3 * w3) /\ Indexed(7 * base, h3 * w3)
                      /\ Indexed(3 * base, h4 * w4) /\ Indexed(4 * base, h4 * w4)
    OBVIOUS
  <2>1. /\ Indexed(12, h * w) /\ Indexed(3 * base, h * w) /\ Indexed(5 * base, h2 * w2)
        /\ Indexed(7 * base, h3 * w3) /\ Indexed(4 * base, h4 * w4)
    BY DEF Indexable
  <2> HIDE DEF h2, h3, h4, w2, w3, w4, Fits
  <2>2. Indexed(base, h * w)
    BY <2>1, <1>11, IndexedLess
  <2>3. Indexed(base, h2 * w2) /\ Indexed(2 * base, h2 * w2)
    BY <2>1, <1>11, IndexedLess
  <2>4. Indexed(2 * base, h3 * w3) /\ Indexed(3 * base, h3 * w3)
    BY <2>1, <1>11, IndexedLess
  <2>5. Indexed(3 * base, h4 * w4)
    BY <2>1, <1>11, IndexedLess
  <2> QED BY <2>1, <2>2, <2>3, <2>4, <2>5
<1>16. Whole(s1, base, h, w) /\ (Fits => s1 = Seq2(net, NetInput(h, w), "e1", 1))
  BY <1>2, <1>10, <1>12, <1>14, <1>15, seq2Whole
<1>17. Whole(s2, 2 * base, h2, w2) /\ (Fits => s2 = Seq2(net, s1, "e2", 2))
  BY <1>3, <1>10, <1>15, <1>16, seq2Whole
<1> HIDE DEF h2, w2, Fits
<1>18. Whole(s3, 3 * base, h3, w3) /\ (Fits => s3 = Seq2(net, s2, "e3", 2))
  BY <1>4, <1>10, <1>15, <1>17, seq2Whole
<1> HIDE DEF h3, w3
<1>19. Whole(s4, 4 * base, h4, w4) /\ (Fits => s4 = Seq2(net, s3, "e4", 2))
  BY <1>5, <1>10, <1>15, <1>18, seq2Whole
<1> HIDE DEF h4, w4
<1>20. /\ Whole(d3, 3 * base, h3, w3)
       /\ Fits => d3 = Seq2(net, Cat(UpTo(s4, s3), s3), "d3", 1)
  <2>1. Whole(Cat(UpTo(s4, s3), s3), 4 * base + 3 * base, h3, w3)
    BY <1>11, <1>18, <1>19, DecodeWhole
  <2>2. 4 * base + 3 * base = net["d3"].in
    BY <1>10
  <2> QED BY <1>6, <1>10, <1>14, <1>15, <2>1, <2>2, seq2Whole
<1>21. /\ Whole(d2, 2 * base, h2, w2)
       /\ Fits => d2 = Seq2(net, Cat(UpTo(d3, s2), s2), "d2", 1)
  <2>1. Whole(Cat(UpTo(d3, s2), s2), 3 * base + 2 * base, h2, w2)
    BY <1>11, <1>17, <1>20, DecodeWhole
  <2>2. 3 * base + 2 * base = net["d2"].in
    BY <1>10
  <2> QED BY <1>7, <1>10, <1>14, <1>15, <2>1, <2>2, seq2Whole
<1>22. /\ Whole(d1, base, h, w)
       /\ Fits => d1 = Seq2(net, Cat(UpTo(d2, s1), s1), "d1", 1)
  <2>1. Whole(Cat(UpTo(d2, s1), s1), 2 * base + base, h, w)
    BY <1>11, <1>16, <1>21, DecodeWhole
  <2>2. 2 * base + base = net["d1"].in
    BY <1>10
  <2> QED BY <1>8, <1>10, <1>14, <1>15, <2>1, <2>2, seq2Whole
<1>23. LET raw == conv_raw(d1, "out", 0, 1, net.out.in, net.out.out)
       IN Whole(raw, 3, h, w) /\ (Fits => raw = Conv(d1, "out", 0, 1, net.out.in, net.out.out))
  BY <1>10, <1>14, <1>15, <1>22, RawWhole
<1>24. Fits => fusionCore(net, NetInput(h, w)) = CPU(net, NetInput(h, w))
  BY <1>9, <1>16, <1>17, <1>18, <1>19, <1>20, <1>21, <1>22, <1>23 DEF CPU, UpTo
<1> QED BY <1>1, <1>9, <1>23, <1>24 DEF Fits

\* The reference, the golden test and the trainer are the same expression.
LEMMA SameExpression ==
  ASSUME NEW base \in Nat, NEW x
  PROVE  /\ CPU(Layers(base), x) = Golden(Layers(base), x)
         /\ CPU(Layers(base), x) = Trained(Layers(base), x)
<1>1. PICK net : net = Layers(base)
  OBVIOUS
<1>2. CPU(net, x) = Golden(net, x)
  BY DEF CPU, Golden
<1>3. /\ net["e1"].stride = 1 /\ net["e2"].stride = 2 /\ net["e3"].stride = 2 /\ net["e4"].stride = 2
      /\ net["d3"].stride = 1 /\ net["d2"].stride = 1 /\ net["d1"].stride = 1 /\ net["out"].stride = 1
  BY <1>1, LayersOf
<1>4. CPU(net, x) = Trained(net, x)
  BY <1>3 DEF CPU, Trained
<1> QED BY <1>1, <1>2, <1>4

LEMMA Agreement == FusionNetAssumption => NetworksAgree
<1> SUFFICES ASSUME FusionNetAssumption, NEW base \in NetBases, NEW h \in NetExtents, NEW w \in NetExtents,
                    NEW y, y = fusionCore(Layers(base), NetInput(h, w))
             PROVE  /\ y.fits /\ <<y.c, y.h, y.w>> = <<3, h, w>>
                    /\ Indexable(base, h, w) =>
                         /\ y = CPU(Layers(base), NetInput(h, w))
                         /\ y = Golden(Layers(base), NetInput(h, w))
                         /\ y = Trained(Layers(base), NetInput(h, w))
  BY DEF NetworksAgree
<1>1. base \in Nat /\ h \in Nat \ {0} /\ w \in Nat \ {0}
  BY DEF FusionNetAssumption
<1>2. Whole(y, 3, h, w) /\ (Indexable(base, h, w) => y = CPU(Layers(base), NetInput(h, w)))
  BY <1>1, CoreWhole
<1>3. y.fits /\ <<y.c, y.h, y.w>> = <<3, h, w>>
  BY <1>2 DEF Whole
<1> QED BY <1>1, <1>2, <1>3, SameExpression

\* At every frame size and for every width of the first layer, the skip connections
\* of the network that cnn_cuda.cu enqueues meet tensors of their own size, its
\* layers the channels of their weights, and the residual has the size of the frame;
\* and at every size whose column matrices a 32-bit index reaches, it is the network
\* of the CPU reference, of the golden test and of the trainer.
THEOREM SameNetworkCorrect == Spec => []SameNetwork
<1>1. NetworksAgree
  BY Agreement, FusionNetAssumption
<1>2. SameNetwork
  BY <1>1 DEF SameNetwork
<1> QED BY <1>2, PTL

-------------------------------------------------------------------------------
(* The temporaries                                                           *)

\* What temporaries are called.
Tags == {"s1", "s2", "s3", "s4", "u3", "c3", "d3", "u2", "c2", "d2", "u1", "c1", "d1", "raw", "hin", "hout",
         "first", "feat", "gate", "col"}
PoolOp == [op : {"make", "read", "drop"}, of : Seq(Tags)]

\* The temporaries that a part of the stream's operations is about.
Of(s) == {s[n].of : n \in 1 .. Len(s)}

\* t is made at m and dropped at d and read in between; 0 is before s, Len(s) + 1 after.
Life(s, t, m, d) ==
  /\ m \in 0 .. Len(s) + 1 /\ d \in 0 .. Len(s) + 1
  /\ \A n \in 1 .. Len(s) : s[n].of = t =>
       \/ s[n].op = "make" /\ n = m
       \/ s[n].op = "read" /\ m < n /\ n < d
       \/ s[n].op = "drop" /\ n = d
  /\ m \in 1 .. Len(s) => s[m].op = "make" /\ s[m].of = t
  /\ d \in 1 .. Len(s) => s[d].op = "drop" /\ s[d].of = t

\* s takes t from p to q: 0 is not made yet, 1 is made, 2 is dropped.
Takes(s, t, p, q) ==
  \E m, d \in 0 .. Len(s) + 1 :
    /\ Life(s, t, m, d)
    /\ m = 0 <=> p # 0
    /\ d = 0 <=> p = 2
    /\ m = Len(s) + 1 <=> q = 0
    /\ d = Len(s) + 1 <=> q # 2

LEMMA TakesThrough ==
  ASSUME NEW s \in Seq(PoolOp), NEW u \in Seq(PoolOp), NEW t, NEW p \in 0 .. 2, NEW q \in 0 .. 2, NEW r \in 0 .. 2,
         Takes(s, t, p, q), Takes(u, t, q, r)
  PROVE  Takes(s \o u, t, p, r)
<1>1. PICK v : v = s \o u
  OBVIOUS
<1>2. PICK k : k = Len(s)
  OBVIOUS
<1>3. PICK l : l = Len(u)
  OBVIOUS
<1>4. /\ k \in Nat /\ l \in Nat /\ Len(v) = k + l
      /\ \A n \in 1 .. k + l : v[n] = IF n <= k THEN s[n] ELSE u[n - k]
  BY <1>1, <1>2, <1>3, ConcatProperties
<1>5. PICK m, d \in 0 .. k + 1 :
        /\ Life(s, t, m, d) /\ (m = 0 <=> p # 0) /\ (d = 0 <=> p = 2)
        /\ (m = k + 1 <=> q = 0) /\ (d = k + 1 <=> q # 2)
  BY <1>2 DEF Takes
<1>6. PICK x, y \in 0 .. l + 1 :
        /\ Life(u, t, x, y) /\ (x = 0 <=> q # 0) /\ (y = 0 <=> q = 2)
        /\ (x = l + 1 <=> r = 0) /\ (y = l + 1 <=> r # 2)
  BY <1>3 DEF Takes
<1>7. PICK made : made = IF m <= k THEN m ELSE k + x
  OBVIOUS
<1>8. PICK dropped : dropped = IF d <= k THEN d ELSE k + y
  OBVIOUS
<1>9. made \in 0 .. k + l + 1 /\ dropped \in 0 .. k + l + 1
  BY <1>4, <1>5, <1>6, <1>7, <1>8
<1>10. /\ made = 0 <=> p # 0
       /\ dropped = 0 <=> p = 2
       /\ made = k + l + 1 <=> r = 0
       /\ dropped = k + l + 1 <=> r # 2
  BY <1>4, <1>5, <1>6, <1>7, <1>8
<1>11. ASSUME NEW n \in 1 .. k + l, v[n].of = t
       PROVE  \/ v[n].op = "make" /\ n = made
              \/ v[n].op = "read" /\ made < n /\ n < dropped
              \/ v[n].op = "drop" /\ n = dropped
  <2>1. CASE n <= k
    <3>1. n \in 1 .. k /\ v[n] = s[n] /\ s[n].of = t
      BY <1>4, <1>11, <2>1
    <3>2. \/ s[n].op = "make" /\ n = m
          \/ s[n].op = "read" /\ m < n /\ n < d
          \/ s[n].op = "drop" /\ n = d
      BY <1>2, <1>5, <3>1 DEF Life
    <3> QED BY <1>4, <1>5, <1>6, <1>7, <1>8, <3>1, <3>2
  <2>2. CASE ~ n <= k
    <3>1. PICK j : j = n - k
      OBVIOUS
    <3>2. j \in 1 .. l /\ n = k + j /\ v[n] = u[j] /\ u[j].of = t
      BY <1>4, <1>11, <2>2, <3>1, SMTT(30)
    <3>3. \/ u[j].op = "make" /\ j = x
          \/ u[j].op = "read" /\ x < j /\ j < y
          \/ u[j].op = "drop" /\ j = y
      BY <1>3, <1>6, <3>2 DEF Life
    <3> QED BY <1>4, <1>5, <1>6, <1>7, <1>8, <3>2, <3>3
  <2> QED BY <2>1, <2>2
<1>12. made \in 1 .. k + l => v[made].op = "make" /\ v[made].of = t
  <2>1. CASE m <= k
    BY <1>2, <1>4, <1>5, <1>7, <2>1 DEF Life
  <2>2. CASE ~ m <= k
    <3> SUFFICES ASSUME made \in 1 .. k + l PROVE v[made].op = "make" /\ v[made].of = t
      OBVIOUS
    <3>1. made = k + x /\ x \in 1 .. l
      BY <1>4, <1>5, <1>6, <1>7, <2>2
    <3>2. v[made] = u[x]
      BY <1>4, <3>1, SMTT(30)
    <3> QED BY <1>3, <1>6, <3>1, <3>2 DEF Life
  <2> QED BY <2>1, <2>2
<1>13. dropped \in 1 .. k + l => v[dropped].op = "drop" /\ v[dropped].of = t
  <2>1. CASE d <= k
    BY <1>2, <1>4, <1>5, <1>8, <2>1 DEF Life
  <2>2. CASE ~ d <= k
    <3> SUFFICES ASSUME dropped \in 1 .. k + l PROVE v[dropped].op = "drop" /\ v[dropped].of = t
      OBVIOUS
    <3>1. dropped = k + y /\ y \in 1 .. l
      BY <1>4, <1>5, <1>6, <1>8, <2>2
    <3>2. v[dropped] = u[y]
      BY <1>4, <3>1, SMTT(30)
    <3> QED BY <1>3, <1>6, <3>1, <3>2 DEF Life
  <2> QED BY <2>1, <2>2
<1>14. Life(v, t, made, dropped)
  BY <1>4, <1>9, <1>11, <1>12, <1>13 DEF Life
<1>15. Takes(v, t, p, r)
  BY <1>4, <1>9, <1>10, <1>14 DEF Takes
<1> QED BY <1>1, <1>15

\* What s is not about stays as it is, and what it changes it is about.
LEMMA NotAbout ==
  ASSUME NEW s \in Seq(PoolOp), NEW t, t \notin Of(s)
  PROVE  Takes(s, t, 0, 0) /\ Takes(s, t, 1, 1) /\ Takes(s, t, 2, 2)
<1>1. PICK k : k = Len(s)
  OBVIOUS
<1>2. k \in Nat
  BY <1>1
<1>3. \A n \in 1 .. k : s[n].of # t
  BY <1>1 DEF Of
<1>4. Life(s, t, k + 1, k + 1) /\ Life(s, t, 0, k + 1) /\ Life(s, t, 0, 0)
  BY <1>1, <1>2, <1>3 DEF Life
<1> QED BY <1>1, <1>2, <1>4 DEF Takes

LEMMA About ==
  ASSUME NEW s \in Seq(PoolOp), NEW t, NEW p \in 0 .. 2, NEW q \in 0 .. 2, p # q, Takes(s, t, p, q)
  PROVE  t \in Of(s)
<1>1. PICK k : k = Len(s)
  OBVIOUS
<1>2. k \in Nat
  BY <1>1
<1>3. PICK m, d \in 0 .. k + 1 :
        /\ Life(s, t, m, d) /\ (m = 0 <=> p # 0) /\ (d = 0 <=> p = 2)
        /\ (m = k + 1 <=> q = 0) /\ (d = k + 1 <=> q # 2)
  BY <1>1 DEF Takes
<1>4. m \in 1 .. k \/ d \in 1 .. k
  BY <1>2, <1>3
<1> QED BY <1>1, <1>3, <1>4 DEF Life, Of

\* s is about the temporaries of N only and takes the live ones from A to B; each of
\* the others is left alone or made and dropped again.
Does(s, N, A, B) ==
  /\ s \in Seq(PoolOp) /\ Of(s) \subseteq N
  /\ \A t : /\ t \in A /\ t \in B => Takes(s, t, 1, 1)
            /\ t \in A /\ t \notin B => Takes(s, t, 1, 2)
            /\ t \notin A /\ t \in B => Takes(s, t, 0, 1)
            /\ t \notin A /\ t \notin B => t \notin Of(s) \/ Takes(s, t, 0, 2)

\* Two parts follow each other if the second is about nothing that the first has dropped.
LEMMA DoesBoth ==
  ASSUME NEW s, NEW u, NEW M, NEW N, NEW A, NEW B, NEW C,
         Does(s, M, A, B), Does(u, N, B, C), M \cap N \subseteq B
  PROVE  Does(s \o u, M \cup N, A, C)
<1>1. s \in Seq(PoolOp) /\ u \in Seq(PoolOp)
  BY DEF Does
<1>2. PICK v : v = s \o u
  OBVIOUS
<1>3. v \in Seq(PoolOp) /\ Of(v) = Of(s) \cup Of(u)
  <2>1. PICK k : k = Len(s)
    OBVIOUS
  <2>2. PICK l : l = Len(u)
    OBVIOUS
  <2>3. /\ k \in Nat /\ l \in Nat /\ v \in Seq(PoolOp) /\ Len(v) = k + l
        /\ \A n \in 1 .. k + l : v[n] = IF n <= k THEN s[n] ELSE u[n - k]
    BY <1>1, <1>2, <2>1, <2>2, ConcatProperties
  <2>4. \A n \in 1 .. k : n \in 1 .. k + l /\ v[n] = s[n]
    BY <2>3
  <2>5. \A n \in 1 .. l : n + k \in 1 .. k + l /\ v[n + k] = u[n]
    BY <2>3
  <2>6. Of(s) \subseteq Of(v)
    BY <2>1, <2>3, <2>4 DEF Of
  <2>7. Of(u) \subseteq Of(v)
    BY <2>2, <2>3, <2>5 DEF Of
  <2>8. Of(v) \subseteq Of(s) \cup Of(u)
    <3>1. ASSUME NEW n \in 1 .. k + l PROVE v[n].of \in Of(s) \cup Of(u)
      <4>1. CASE n <= k
        BY <2>1, <2>3, <4>1 DEF Of
      <4>2. CASE ~ n <= k
        <5>1. n - k \in 1 .. l /\ v[n] = u[n - k]
          BY <2>3, <4>2
        <5> QED BY <2>2, <5>1 DEF Of
      <4> QED BY <4>1, <4>2
    <3> QED BY <2>3, <3>1 DEF Of
  <2> QED BY <2>3, <2>6, <2>7, <2>8
<1>4. ASSUME NEW t
      PROVE  /\ t \in A /\ t \in C => Takes(v, t, 1, 1)
             /\ t \in A /\ t \notin C => Takes(v, t, 1, 2)
             /\ t \notin A /\ t \in C => Takes(v, t, 0, 1)
             /\ t \notin A /\ t \notin C => t \notin Of(v) \/ Takes(v, t, 0, 2)
  <2>1. ASSUME NEW p \in 0 .. 2, NEW q \in 0 .. 2, NEW r \in 0 .. 2, Takes(s, t, p, q), Takes(u, t, q, r)
        PROVE  Takes(v, t, p, r)
    BY <1>1, <1>2, <2>1, TakesThrough
  <2>2. t \in B \/ t \notin Of(s) \/ t \notin Of(u)
    BY DEF Does
  <2>3. t \notin Of(s) => Takes(s, t, 0, 0) /\ Takes(s, t, 1, 1) /\ Takes(s, t, 2, 2)
    BY <1>1, NotAbout
  <2>4. t \notin Of(u) => Takes(u, t, 0, 0) /\ Takes(u, t, 1, 1) /\ Takes(u, t, 2, 2)
    BY <1>1, NotAbout
  <2>5. 0 \in 0 .. 2 /\ 1 \in 0 .. 2 /\ 2 \in 0 .. 2 /\ 0 # 1 /\ 1 # 2 /\ 0 # 2
    OBVIOUS
  <2>6. Takes(s, t, 1, 2) \/ Takes(s, t, 0, 1) \/ Takes(s, t, 0, 2) => t \in Of(s)
    BY <1>1, <2>5, About
  <2>7. Takes(u, t, 1, 2) \/ Takes(u, t, 0, 1) \/ Takes(u, t, 0, 2) => t \in Of(u)
    BY <1>1, <2>5, About
  <2>8. /\ t \in A /\ t \in B => Takes(s, t, 1, 1)
        /\ t \in A /\ t \notin B => Takes(s, t, 1, 2)
        /\ t \notin A /\ t \in B => Takes(s, t, 0, 1)
        /\ t \notin A /\ t \notin B => t \notin Of(s) \/ Takes(s, t, 0, 2)
    BY DEF Does
  <2>9. /\ t \in B /\ t \in C => Takes(u, t, 1, 1)
        /\ t \in B /\ t \notin C => Takes(u, t, 1, 2)
        /\ t \notin B /\ t \in C => Takes(u, t, 0, 1)
        /\ t \notin B /\ t \notin C => t \notin Of(u) \/ Takes(u, t, 0, 2)
    BY DEF Does
  <2>10. CASE t \in B
    BY <2>1, <2>5, <2>8, <2>9, <2>10
  <2>11. CASE t \notin B
    BY <1>3, <2>1, <2>2, <2>3, <2>4, <2>5, <2>6, <2>7, <2>8, <2>9, <2>11
  <2> QED BY <2>10, <2>11
<1>5. Of(v) \subseteq M \cup N
  BY <1>3 DEF Does
<1>6. Does(v, M \cup N, A, C)
  BY <1>3, <1>4, <1>5 DEF Does
<1> QED BY <1>2, <1>6

\* The three operations.
LEMMA OneOp ==
  ASSUME NEW o \in {"make", "read", "drop"}, NEW t \in Seq(Tags), NEW s, s = <<[op |-> o, of |-> t]>>
  PROVE  /\ s \in Seq(PoolOp) /\ Len(s) = 1 /\ s[1].op = o /\ s[1].of = t
         /\ Of(s) = {t}
<1>1. PICK x : x = [op |-> o, of |-> t]
  OBVIOUS
<1>2. x \in PoolOp /\ x.op = o /\ x.of = t
  BY <1>1 DEF PoolOp
<1>3. s = <<x>>
  BY <1>1
<1>4. s \in Seq(PoolOp) /\ Len(s) = 1 /\ s[1] = x
  BY <1>2, <1>3
<1>5. Of(s) = {t}
  <2>1. \A n : n \in 1 .. 1 <=> n = 1
    OBVIOUS
  <2> QED BY <1>2, <1>4, <2>1 DEF Of
<1> QED BY <1>2, <1>4, <1>5

LEMMA Makes ==
  ASSUME NEW t \in Seq(Tags), NEW A, t \notin A
  PROVE  Does(Make(t), {t}, A, A \cup {t})
<1>1. PICK s : s = Make(t)
  OBVIOUS
<1>2. s \in Seq(PoolOp) /\ Len(s) = 1 /\ s[1].op = "make" /\ s[1].of = t /\ Of(s) = {t}
  BY <1>1, OneOp DEF Make
<1>3. \A n : n \in 1 .. 1 <=> n = 1
  OBVIOUS
<1>4. Life(s, t, 1, 2)
  BY <1>2, <1>3 DEF Life
<1>5. Takes(s, t, 0, 1)
  BY <1>2, <1>4 DEF Takes
<1>6. \A x : x # t => x \notin Of(s) /\ Takes(s, x, 1, 1)
  BY <1>2, NotAbout
<1> QED BY <1>1, <1>2, <1>5, <1>6 DEF Does

LEMMA Reads ==
  ASSUME NEW t \in Seq(Tags), NEW A, t \in A
  PROVE  Does(Read(t), {t}, A, A)
<1>1. PICK s : s = Read(t)
  OBVIOUS
<1>2. s \in Seq(PoolOp) /\ Len(s) = 1 /\ s[1].op = "read" /\ s[1].of = t /\ Of(s) = {t}
  BY <1>1, OneOp DEF Read
<1>3. \A n : n \in 1 .. 1 <=> n = 1
  OBVIOUS
<1>4. Life(s, t, 0, 2)
  BY <1>2, <1>3 DEF Life
<1>5. Takes(s, t, 1, 1)
  BY <1>2, <1>4 DEF Takes
<1>6. \A x : x # t => x \notin Of(s) /\ Takes(s, x, 1, 1)
  BY <1>2, NotAbout
<1> QED BY <1>1, <1>2, <1>5, <1>6 DEF Does

LEMMA Drops ==
  ASSUME NEW t \in Seq(Tags), NEW A, t \in A
  PROVE  Does(Drop(t), {t}, A, A \ {t})
<1>1. PICK s : s = Drop(t)
  OBVIOUS
<1>2. s \in Seq(PoolOp) /\ Len(s) = 1 /\ s[1].op = "drop" /\ s[1].of = t /\ Of(s) = {t}
  BY <1>1, OneOp DEF Drop
<1>3. \A n : n \in 1 .. 1 <=> n = 1
  OBVIOUS
<1>4. Life(s, t, 0, 1)
  BY <1>2, <1>3 DEF Life
<1>5. Takes(s, t, 1, 2)
  BY <1>2, <1>4 DEF Takes
<1>6. \A x : x # t => x \notin Of(s) /\ Takes(s, x, 1, 1)
  BY <1>2, NotAbout
<1> QED BY <1>1, <1>2, <1>5, <1>6 DEF Does

\* One more operation behind a part.
LEMMA ThenMake ==
  ASSUME NEW s, NEW N, NEW A, NEW B, Does(s, N, A, B), NEW t \in Seq(Tags), t \notin N, t \notin B
  PROVE  Does(s \o Make(t), N \cup {t}, A, B \cup {t})
<1>1. Does(Make(t), {t}, B, B \cup {t})
  BY Makes
<1> QED BY <1>1, DoesBoth

LEMMA ThenRead ==
  ASSUME NEW s, NEW N, NEW A, NEW B, Does(s, N, A, B), NEW t \in Seq(Tags), t \in B
  PROVE  Does(s \o Read(t), N \cup {t}, A, B)
<1>1. Does(Read(t), {t}, B, B)
  BY Reads
<1> QED BY <1>1, DoesBoth

LEMMA ThenDrop ==
  ASSUME NEW s, NEW N, NEW A, NEW B, Does(s, N, A, B), NEW t \in Seq(Tags), t \in B
  PROVE  Does(s \o Drop(t), N \cup {t}, A, B \ {t})
<1>1. Does(Drop(t), {t}, B, B \ {t})
  BY Drops
<1> QED BY <1>1, DoesBoth

\* The parts of a tensor's name.
LEMMA Parts ==
  ASSUME NEW t \in Seq(Tags), NEW a \in Tags
  PROVE  /\ Part(t, a) \in Seq(Tags) /\ Len(Part(t, a)) = Len(t) + 1 /\ Len(t) \in Nat
         /\ t # <<>> => Part(t, a) # <<>> /\ Part(t, a)[1] = t[1]
         /\ Part(t, a)[Len(t) + 1] = a
BY DEF Part

LEMMA ConvDoes ==
  ASSUME NEW i \in Seq(Tags), NEW o \in Seq(Tags), NEW A, i \in A, o \notin A, Part(o, "col") \notin A
  PROVE  Does(ConvOps(i, o), {i, o, Part(o, "col")}, A, A \cup {o})
<1>1. PICK col : col = Part(o, "col")
  OBVIOUS
<1>2. col \in Seq(Tags) /\ col # o
  BY <1>1, Parts DEF Tags
<1>3. Does(Make(col), {col}, A, A \cup {col})
  BY <1>1, <1>2, Makes
<1>4. PICK s : s = Make(col) \o Read(i)
  OBVIOUS
<1>5. Does(s, {col} \cup {i}, A, A \cup {col})
  BY <1>3, <1>4, ThenRead
<1>6. PICK u : u = s \o Make(o)
  OBVIOUS
<1>7. Does(u, ({col} \cup {i}) \cup {o}, A, (A \cup {col}) \cup {o})
  BY <1>2, <1>5, <1>6, ThenMake
<1>8. PICK v : v = u \o Read(col)
  OBVIOUS
<1>9. Does(v, (({col} \cup {i}) \cup {o}) \cup {col}, A, (A \cup {col}) \cup {o})
  BY <1>2, <1>7, <1>8, ThenRead
<1>10. Does(v \o Drop(col), ((({col} \cup {i}) \cup {o}) \cup {col}) \cup {col}, A, ((A \cup {col}) \cup {o}) \ {col})
  BY <1>2, <1>9, ThenDrop
<1>11. ((({col} \cup {i}) \cup {o}) \cup {col}) \cup {col} = {i, o, col}
  OBVIOUS
<1>12. ((A \cup {col}) \cup {o}) \ {col} = A \cup {o}
  BY <1>1, <1>2
<1>13. ConvOps(i, o) = v \o Drop(col)
  BY <1>1, <1>4, <1>6, <1>8 DEF ConvOps
<1> QED BY <1>1, <1>10, <1>11, <1>12, <1>13

\* The names of a gated convolution and its parts.
GatedNames(o) ==
  {o, Part(o, "feat"), Part(o, "gate"), Part(Part(o, "feat"), "col"), Part(Part(o, "gate"), "col")}

\* They begin with the name of its result, and go on with one of its two halves.
LEMMA GatedShapes ==
  ASSUME NEW o \in Seq(Tags), NEW n, n = Len(o), NEW t \in GatedNames(o)
  PROVE  /\ t \in Seq(Tags) /\ Len(t) >= n /\ Len(t) \in Nat /\ n \in Nat
         /\ \A j \in 1 .. n : t[j] = o[j]
         /\ t = o \/ (Len(t) > n /\ t[n + 1] \in {"feat", "gate"})
<1>1. /\ "feat" \in Tags /\ "gate" \in Tags /\ "col" \in Tags
  BY DEF Tags
<1>2. ASSUME NEW r \in Seq(Tags), NEW a \in Tags
      PROVE  /\ Part(r, a) \in Seq(Tags) /\ Len(r) \in Nat /\ Len(Part(r, a)) = Len(r) + 1
             /\ \A j \in 1 .. Len(r) : Part(r, a)[j] = r[j]
             /\ Part(r, a)[Len(r) + 1] = a
  BY DEF Part
<1>3. PICK a : a = Part(o, "feat")
  OBVIOUS
<1>4. PICK g : g = Part(o, "gate")
  OBVIOUS
<1>5. /\ a \in Seq(Tags) /\ g \in Seq(Tags) /\ n \in Nat /\ Len(a) = n + 1 /\ Len(g) = n + 1
      /\ \A j \in 1 .. n : a[j] = o[j] /\ g[j] = o[j]
      /\ a[n + 1] = "feat" /\ g[n + 1] = "gate"
  BY <1>1, <1>2, <1>3, <1>4
<1>6. ASSUME NEW r \in {a, g}, t = Part(r, "col")
      PROVE  /\ t \in Seq(Tags) /\ Len(t) = n + 2
             /\ \A j \in 1 .. n : t[j] = o[j]
             /\ t[n + 1] \in {"feat", "gate"}
  <2>1. r \in Seq(Tags) /\ Len(r) = n + 1
    BY <1>5
  <2>2. t \in Seq(Tags) /\ Len(t) = Len(r) + 1 /\ \A j \in 1 .. Len(r) : t[j] = r[j]
    BY <1>1, <1>2, <1>6, <2>1
  <2>3. Len(t) = n + 2 /\ \A j \in 1 .. n + 1 : t[j] = r[j]
    BY <1>5, <2>1, <2>2
  <2> QED BY <1>5, <2>2, <2>3
<1>7. t \in {o, a, g, Part(a, "col"), Part(g, "col")}
  BY <1>3, <1>4 DEF GatedNames
<1>8. CASE t = o
  BY <1>5, <1>8
<1>9. CASE t \in {a, g}
  BY <1>5, <1>9
<1>10. CASE t \in {Part(a, "col"), Part(g, "col")}
  BY <1>5, <1>6, <1>10
<1> QED BY <1>7, <1>8, <1>9, <1>10

LEMMA GatedDistinct ==
  ASSUME NEW o \in Seq(Tags), NEW a, a = Part(o, "feat"), NEW g, g = Part(o, "gate"),
         NEW x, x = Part(a, "col"), NEW y, y = Part(g, "col")
  PROVE  /\ a \in Seq(Tags) /\ g \in Seq(Tags)
         /\ o # a /\ o # g /\ o # x /\ o # y /\ a # g /\ a # x /\ a # y /\ g # x /\ g # y /\ x # y
<1>1. /\ "feat" \in Tags /\ "gate" \in Tags /\ "col" \in Tags /\ "feat" # "gate"
  BY DEF Tags
<1>2. /\ a \in Seq(Tags) /\ g \in Seq(Tags) /\ Len(o) \in Nat /\ Len(a) = Len(o) + 1 /\ Len(g) = Len(o) + 1
      /\ a[Len(o) + 1] = "feat" /\ g[Len(o) + 1] = "gate"
  BY <1>1, Parts
<1>3. /\ Len(x) = Len(o) + 2 /\ Len(y) = Len(o) + 2
      /\ x[Len(o) + 1] = a[Len(o) + 1] /\ y[Len(o) + 1] = g[Len(o) + 1]
  BY <1>1, <1>2 DEF Part
<1> QED BY <1>1, <1>2, <1>3

LEMMA GatedDoes ==
  ASSUME NEW i \in Seq(Tags), NEW o \in Seq(Tags), NEW A, i \in A, A \cap GatedNames(o) = {}
  PROVE  Does(GatedOps(i, o), {i} \cup GatedNames(o), A, A \cup {o})
<1>1. PICK a : a = Part(o, "feat")
  OBVIOUS
<1>2. PICK g : g = Part(o, "gate")
  OBVIOUS
<1>3. PICK x : x = Part(a, "col")
  OBVIOUS
<1>4. PICK y : y = Part(g, "col")
  OBVIOUS
<1>5. /\ a \in Seq(Tags) /\ g \in Seq(Tags)
      /\ o # a /\ o # g /\ o # x /\ o # y /\ a # g /\ a # x /\ a # y /\ g # x /\ g # y /\ x # y
  BY <1>1, <1>2, <1>3, <1>4, GatedDistinct
<1>6. GatedNames(o) = {o, a, g, x, y}
  BY <1>1, <1>2, <1>3, <1>4 DEF GatedNames
<1>7. o \notin A /\ a \notin A /\ g \notin A /\ x \notin A /\ y \notin A
  BY <1>6
<1>8. Does(ConvOps(i, a), {i, a, x}, A, A \cup {a})
  BY <1>3, <1>5, <1>7, ConvDoes
<1>9. PICK B : B = A \cup {a}
  OBVIOUS
<1>10. Does(ConvOps(i, g), {i, g, y}, B, B \cup {g})
  BY <1>4, <1>5, <1>7, <1>9, ConvDoes
<1>11. PICK s : s = ConvOps(i, a) \o ConvOps(i, g)
  OBVIOUS
<1>12. Does(s, {i, a, x} \cup {i, g, y}, A, B \cup {g})
  <2>1. {i, a, x} \cap {i, g, y} \subseteq B
    BY <1>5, <1>9
  <2> QED BY <1>8, <1>9, <1>10, <1>11, <2>1, DoesBoth
<1>13. PICK N : N = {i, a, x} \cup {i, g, y}
  OBVIOUS
<1>14. PICK C : C = (B \cup {g}) \cup {o}
  OBVIOUS
<1>15. a \in C /\ g \in C /\ o \notin N /\ o \notin B \cup {g}
  BY <1>5, <1>7, <1>9, <1>13, <1>14
<1>16. PICK s1 : s1 = s \o Make(o)
  OBVIOUS
<1>17. Does(s1, N \cup {o}, A, C)
  BY <1>12, <1>13, <1>14, <1>15, <1>16, ThenMake
<1>18. PICK s2 : s2 = s1 \o Read(a)
  OBVIOUS
<1>19. Does(s2, (N \cup {o}) \cup {a}, A, C)
  BY <1>5, <1>15, <1>17, <1>18, ThenRead
<1>20. PICK s3 : s3 = s2 \o Read(g)
  OBVIOUS
<1>21. Does(s3, ((N \cup {o}) \cup {a}) \cup {g}, A, C)
  BY <1>5, <1>15, <1>19, <1>20, ThenRead
<1>22. PICK s4 : s4 = s3 \o Drop(a)
  OBVIOUS
<1>23. Does(s4, (((N \cup {o}) \cup {a}) \cup {g}) \cup {a}, A, C \ {a})
  BY <1>5, <1>15, <1>21, <1>22, ThenDrop
<1>24. g \in C \ {a}
  BY <1>5, <1>15
<1>25. Does(s4 \o Drop(g), ((((N \cup {o}) \cup {a}) \cup {g}) \cup {a}) \cup {g}, A, (C \ {a}) \ {g})
  BY <1>5, <1>23, <1>24, ThenDrop
<1>26. (C \ {a}) \ {g} = A \cup {o}
  BY <1>5, <1>7, <1>9, <1>14
<1>27. ((((N \cup {o}) \cup {a}) \cup {g}) \cup {a}) \cup {g} = {i} \cup GatedNames(o)
  BY <1>6, <1>13
<1>28. GatedOps(i, o) = s4 \o Drop(g)
  BY <1>1, <1>2, <1>11, <1>16, <1>18, <1>20, <1>22 DEF GatedOps
<1> QED BY <1>25, <1>26, <1>27, <1>28

\* The two gated convolutions of a block.
LEMMA Seq2Does ==
  ASSUME NEW i \in Seq(Tags), NEW o \in Seq(Tags), NEW a, a = Part(o, "first"), NEW A, i \in A,
         A \cap GatedNames(o) = {}, A \cap GatedNames(a) = {}
  PROVE  Does(Seq2Ops(i, o), ({i} \cup GatedNames(a)) \cup ({a} \cup GatedNames(o)), A, A \cup {o})
<1>1. a \in Seq(Tags) /\ Len(o) \in Nat /\ Len(a) = Len(o) + 1 /\ a[Len(o) + 1] = "first"
  BY Parts DEF Tags
<1>2. GatedNames(a) \cap GatedNames(o) = {}
  <2>1. SUFFICES ASSUME NEW t \in GatedNames(a), t \in GatedNames(o) PROVE FALSE
    OBVIOUS
  <2>2. Len(t) >= Len(o) + 1 /\ t[Len(o) + 1] = "first"
    BY <1>1, GatedShapes
  <2>3. t = o \/ t[Len(o) + 1] \in {"feat", "gate"}
    BY <2>1, GatedShapes
  <2> QED BY <1>1, <2>2, <2>3
<1>3. a \in GatedNames(a) /\ o \in GatedNames(o)
  BY DEF GatedNames
<1>4. a \notin A /\ o \notin A /\ a # o
  BY <1>2, <1>3
<1>5. Does(GatedOps(i, a), {i} \cup GatedNames(a), A, A \cup {a})
  BY <1>1, GatedDoes
<1>6. PICK B : B = A \cup {a}
  OBVIOUS
<1>7. B \cap GatedNames(o) = {} /\ a \in B
  BY <1>2, <1>3, <1>6
<1>8. Does(GatedOps(a, o), {a} \cup GatedNames(o), B, B \cup {o})
  BY <1>1, <1>7, GatedDoes
<1>9. ({i} \cup GatedNames(a)) \cap ({a} \cup GatedNames(o)) \subseteq B
  BY <1>2, <1>6
<1>10. PICK s : s = GatedOps(i, a) \o GatedOps(a, o)
  OBVIOUS
<1>11. PICK N : N = ({i} \cup GatedNames(a)) \cup ({a} \cup GatedNames(o))
  OBVIOUS
<1>12. Does(s, N, A, B \cup {o})
  BY <1>5, <1>6, <1>8, <1>9, <1>10, <1>11, DoesBoth
<1>13. Does(s \o Drop(a), N \cup {a}, A, (B \cup {o}) \ {a})
  BY <1>1, <1>7, <1>12, ThenDrop
<1>14. N \cup {a} = N /\ (B \cup {o}) \ {a} = A \cup {o}
  BY <1>4, <1>6, <1>11
<1>15. Seq2Ops(i, o) = s \o Drop(a)
  BY <1>10 DEF Seq2Ops
<1> QED BY <1>11, <1>13, <1>14, <1>15

\* The temporaries whose name begins with one of X, and the tensors that have these names.
Rooted(X) == {t \in Seq(Tags) : t # <<>> /\ t[1] \in X}
Tensors(X) == {<<x>> : x \in X}

LEMMA TensorNames ==
  ASSUME NEW X \in SUBSET Tags
  PROVE  /\ Tensors(X) \subseteq Rooted(X)
         /\ \A x \in Tags : <<x>> \in Seq(Tags) /\ (<<x>> \in Tensors(X) <=> x \in X)
<1>1. \A x \in Tags : <<x>> \in Seq(Tags) /\ <<x>> # <<>> /\ <<x>>[1] = x
  OBVIOUS
<1> QED BY <1>1 DEF Tensors, Rooted

\* The names of a block are rooted in its result.
LEMMA BlockRooted ==
  ASSUME NEW x \in Tags, NEW o, o = <<x>>
  PROVE  GatedNames(o) \subseteq Rooted({x}) /\ GatedNames(Part(o, "first")) \subseteq Rooted({x})
<1>1. PICK a : a = Part(o, "first")
  OBVIOUS
<1>2. o \in Seq(Tags) /\ Len(o) = 1 /\ o[1] = x /\ o # <<>>
  OBVIOUS
<1>3. a \in Seq(Tags) /\ Len(a) = 2 /\ a[1] = x
  <2>1. "first" \in Tags
    BY DEF Tags
  <2>2. a \in Seq(Tags) /\ Len(a) = Len(o) + 1 /\ a[1] = o[1]
    BY <1>1, <1>2, <2>1, Parts
  <2> QED BY <1>2, <2>2
<1>4. ASSUME NEW t \in GatedNames(o) PROVE t \in Rooted({x})
  <2>1. t \in Seq(Tags) /\ Len(t) >= Len(o) /\ \A j \in 1 .. Len(o) : t[j] = o[j]
    BY <1>2, GatedShapes
  <2>2. t # <<>> /\ t[1] = x
    BY <1>2, <2>1
  <2> QED BY <2>1, <2>2 DEF Rooted
<1>5. ASSUME NEW t \in GatedNames(a) PROVE t \in Rooted({x})
  <2>1. t \in Seq(Tags) /\ Len(t) >= Len(a) /\ \A j \in 1 .. Len(a) : t[j] = a[j]
    BY <1>3, GatedShapes
  <2>2. t # <<>> /\ t[1] = x
    BY <1>3, <2>1
  <2> QED BY <2>1, <2>2 DEF Rooted
<1> QED BY <1>1, <1>4, <1>5

LEMMA DoesWithin ==
  ASSUME NEW s, NEW M, NEW N, NEW A, NEW B, Does(s, M, A, B), M \subseteq N
  PROVE  Does(s, N, A, B)
BY DEF Does

\* A pass makes the tensor x from tensors that exist.
Pass(u, x, X) == Does(u, Tensors(X) \cup Rooted({x}), Tensors(X), Tensors(X \cup {x}))

LEMMA Passes ==
  ASSUME NEW X \in SUBSET Tags, NEW y \in X, NEW z \in X, NEW x \in Tags \ X
  PROVE  /\ Pass(Seq2Ops(<<y>>, <<x>>), x, X)
         /\ Pass(UpOps(<<y>>, <<x>>), x, X)
         /\ Pass(CatOps(<<y>>, <<z>>, <<x>>), x, X)
         /\ Pass(ConvOps(<<y>>, <<x>>), x, X)
<1>1. PICK o : o = <<x>>
  OBVIOUS
<1>2. PICK i : i = <<y>>
  OBVIOUS
<1>3. PICK k : k = <<z>>
  OBVIOUS
<1>4. PICK A : A = Tensors(X)
  OBVIOUS
<1>5. PICK a : a = Part(o, "first")
  OBVIOUS
<1>6. /\ o \in Seq(Tags) /\ i \in Seq(Tags) /\ k \in Seq(Tags) /\ i \in A /\ k \in A /\ o \notin A
      /\ A \subseteq Rooted(X)
  BY <1>1, <1>2, <1>3, <1>4, TensorNames
<1>7. Rooted(X) \cap Rooted({x}) = {}
  BY DEF Rooted
<1>8. GatedNames(o) \subseteq Rooted({x}) /\ GatedNames(a) \subseteq Rooted({x})
  BY <1>1, <1>5, BlockRooted
<1>9. o \in Rooted({x}) /\ a \in Rooted({x}) /\ Part(o, "col") \in Rooted({x})
  <2>1. o \in GatedNames(o) /\ a \in GatedNames(a)
    BY DEF GatedNames
  <2>2. Part(o, "col") \in Seq(Tags) /\ Part(o, "col") # <<>> /\ Part(o, "col")[1] = o[1] /\ o[1] = x
    BY <1>1, <1>6, Parts DEF Tags
  <2> QED BY <1>8, <2>1, <2>2 DEF Rooted
<1>10. Tensors(X \cup {x}) = A \cup {o}
  BY <1>1, <1>4 DEF Tensors
<1>11. PICK N : N = A \cup Rooted({x})
  OBVIOUS
<1>12. Does(Seq2Ops(i, o), N, A, A \cup {o})
  <2>1. A \cap GatedNames(o) = {} /\ A \cap GatedNames(a) = {}
    BY <1>6, <1>7, <1>8
  <2>2. Does(Seq2Ops(i, o), ({i} \cup GatedNames(a)) \cup ({a} \cup GatedNames(o)), A, A \cup {o})
    BY <1>5, <1>6, <2>1, Seq2Does
  <2>3. ({i} \cup GatedNames(a)) \cup ({a} \cup GatedNames(o)) \subseteq N
    BY <1>6, <1>8, <1>9, <1>11
  <2> QED BY <2>2, <2>3, DoesWithin
<1>13. Does(Make(o), {o}, A, A \cup {o})
  BY <1>6, Makes
<1>14. PICK s : s = Make(o) \o Read(i)
  OBVIOUS
<1>15. Does(s, {o} \cup {i}, A, A \cup {o})
  <2>1. i \in A \cup {o}
    BY <1>6
  <2> QED BY <1>6, <1>13, <1>14, <2>1, ThenRead
<1>16. Does(s, N, A, A \cup {o})
  <2>1. {o} \cup {i} \subseteq N
    BY <1>6, <1>9, <1>11
  <2> QED BY <1>15, <2>1, DoesWithin
<1>17. Does(s \o Read(k), N, A, A \cup {o})
  <2>1. k \in A \cup {o} /\ ({o} \cup {i}) \cup {k} \subseteq N
    BY <1>6, <1>9, <1>11
  <2>2. Does(s \o Read(k), ({o} \cup {i}) \cup {k}, A, A \cup {o})
    BY <1>6, <1>15, <2>1, ThenRead
  <2> QED BY <2>1, <2>2, DoesWithin
<1>18. Does(ConvOps(i, o), N, A, A \cup {o})
  <2>1. Part(o, "col") \notin A
    BY <1>6, <1>7, <1>9
  <2>2. Does(ConvOps(i, o), {i, o, Part(o, "col")}, A, A \cup {o})
    BY <1>6, <2>1, ConvDoes
  <2>3. {i, o, Part(o, "col")} \subseteq N
    BY <1>6, <1>9, <1>11
  <2> QED BY <2>2, <2>3, DoesWithin
<1>19. UpOps(i, o) = s /\ CatOps(i, k, o) = s \o Read(k)
  BY <1>14 DEF UpOps, CatOps
<1> QED BY <1>1, <1>2, <1>3, <1>4, <1>10, <1>11, <1>12, <1>16, <1>17, <1>18, <1>19 DEF Pass

\* The passes up to here have made the tensors of X.
HalfTensors == {"hin", "hout"}
Live(s, X) == Does(s, Rooted(X), Tensors(HalfTensors), Tensors(X))

LEMMA ThenPass ==
  ASSUME NEW X \in SUBSET Tags, NEW s, Live(s, X), NEW x \in Tags \ X, NEW u, Pass(u, x, X)
  PROVE  Live(s \o u, X \cup {x})
<1>1. Rooted(X) \cap (Tensors(X) \cup Rooted({x})) \subseteq Tensors(X)
  BY DEF Rooted
<1>2. Does(s \o u, Rooted(X) \cup (Tensors(X) \cup Rooted({x})), Tensors(HalfTensors), Tensors(X \cup {x}))
  BY <1>1, DoesBoth DEF Live, Pass
<1>3. Rooted(X) \cup (Tensors(X) \cup Rooted({x})) \subseteq Rooted(X \cup {x})
  BY TensorNames DEF Rooted
<1> QED BY <1>2, <1>3, DoesWithin DEF Live

LEMMA NamesOf ==
  /\ Names.s1 = <<"s1">> /\ Names.s2 = <<"s2">> /\ Names.s3 = <<"s3">> /\ Names.s4 = <<"s4">>
  /\ Names.u3 = <<"u3">> /\ Names.c3 = <<"c3">> /\ Names.d3 = <<"d3">>
  /\ Names.u2 = <<"u2">> /\ Names.c2 = <<"c2">> /\ Names.d2 = <<"d2">>
  /\ Names.u1 = <<"u1">> /\ Names.c1 = <<"c1">> /\ Names.d1 = <<"d1">> /\ Names.raw = <<"raw">>
BY DEF Names

Made == {"s1", "s2", "s3", "s4", "u3", "c3", "d3", "u2", "c2", "d2", "u1", "c1", "d1", "raw"}

\* fusionCore makes its tensors, and of what the passes need in between nothing is left.
LEMMA CoreDoes ==
  Live(CoreOps(<<"hin">>, <<"hout">>), HalfTensors \cup Made)
<1> DEFINE X0 == HalfTensors
           X1 == X0 \cup {"s1"}
           X2 == X1 \cup {"s2"}
           X3 == X2 \cup {"s3"}
           X4 == X3 \cup {"s4"}
           X5 == X4 \cup {"u3"}
           X6 == X5 \cup {"c3"}
           X7 == X6 \cup {"d3"}
           X8 == X7 \cup {"u2"}
           X9 == X8 \cup {"c2"}
           X10 == X9 \cup {"d2"}
           X11 == X10 \cup {"u1"}
           X12 == X11 \cup {"c1"}
           X13 == X12 \cup {"d1"}
           X14 == X13 \cup {"raw"}
<1>1. PICK p1 : p1 = Seq2Ops(<<"hin">>, <<"s1">>)
  OBVIOUS
<1>2. Live(p1, X1)
  <2>1. X0 \in SUBSET Tags /\ "hin" \in X0 /\ "s1" \in Tags \ X0
    BY DEF HalfTensors, Tags
  <2> HIDE DEF X0
  <2>2. Pass(p1, "s1", X0)
    BY <1>1, <2>1, Passes
  <2>3. Tensors(X0) \cup Rooted({"s1"}) \subseteq Rooted(X1)
    BY <2>1, TensorNames DEF Rooted
  <2> QED BY <2>2, <2>3, DoesWithin DEF Pass, Live, X0
<1>3. PICK p2 : p2 = p1 \o Seq2Ops(<<"s1">>, <<"s2">>)
  OBVIOUS
<1>4. Live(p2, X2)
  <2>1. X1 \in SUBSET Tags /\ "s1" \in X1 /\ "s2" \in Tags \ X1
    BY DEF HalfTensors, Tags
  <2> HIDE DEF X1
  <2>2. Pass(Seq2Ops(<<"s1">>, <<"s2">>), "s2", X1)
    BY <2>1, Passes
  <2> QED BY <1>2, <1>3, <2>1, <2>2, ThenPass
<1>5. PICK p3 : p3 = p2 \o Seq2Ops(<<"s2">>, <<"s3">>)
  OBVIOUS
<1>6. Live(p3, X3)
  <2>1. X2 \in SUBSET Tags /\ "s2" \in X2 /\ "s3" \in Tags \ X2
    BY DEF HalfTensors, Tags
  <2> HIDE DEF X2
  <2>2. Pass(Seq2Ops(<<"s2">>, <<"s3">>), "s3", X2)
    BY <2>1, Passes
  <2> QED BY <1>4, <1>5, <2>1, <2>2, ThenPass
<1>7. PICK p4 : p4 = p3 \o Seq2Ops(<<"s3">>, <<"s4">>)
  OBVIOUS
<1>8. Live(p4, X4)
  <2>1. X3 \in SUBSET Tags /\ "s3" \in X3 /\ "s4" \in Tags \ X3
    BY DEF HalfTensors, Tags
  <2> HIDE DEF X3
  <2>2. Pass(Seq2Ops(<<"s3">>, <<"s4">>), "s4", X3)
    BY <2>1, Passes
  <2> QED BY <1>6, <1>7, <2>1, <2>2, ThenPass
<1>9. PICK p5 : p5 = p4 \o UpOps(<<"s4">>, <<"u3">>)
  OBVIOUS
<1>10. Live(p5, X5)
  <2>1. X4 \in SUBSET Tags /\ "s4" \in X4 /\ "u3" \in Tags \ X4
    BY DEF HalfTensors, Tags
  <2> HIDE DEF X4
  <2>2. Pass(UpOps(<<"s4">>, <<"u3">>), "u3", X4)
    BY <2>1, Passes
  <2> QED BY <1>8, <1>9, <2>1, <2>2, ThenPass
<1>11. PICK p6 : p6 = p5 \o CatOps(<<"u3">>, <<"s3">>, <<"c3">>)
  OBVIOUS
<1>12. Live(p6, X6)
  <2>1. X5 \in SUBSET Tags /\ "u3" \in X5 /\ "s3" \in X5 /\ "c3" \in Tags \ X5
    BY DEF HalfTensors, Tags
  <2> HIDE DEF X5
  <2>2. Pass(CatOps(<<"u3">>, <<"s3">>, <<"c3">>), "c3", X5)
    BY <2>1, Passes
  <2> QED BY <1>10, <1>11, <2>1, <2>2, ThenPass
<1>13. PICK p7 : p7 = p6 \o Seq2Ops(<<"c3">>, <<"d3">>)
  OBVIOUS
<1>14. Live(p7, X7)
  <2>1. X6 \in SUBSET Tags /\ "c3" \in X6 /\ "d3" \in Tags \ X6
    BY DEF HalfTensors, Tags
  <2> HIDE DEF X6
  <2>2. Pass(Seq2Ops(<<"c3">>, <<"d3">>), "d3", X6)
    BY <2>1, Passes
  <2> QED BY <1>12, <1>13, <2>1, <2>2, ThenPass
<1>15. PICK p8 : p8 = p7 \o UpOps(<<"d3">>, <<"u2">>)
  OBVIOUS
<1>16. Live(p8, X8)
  <2>1. X7 \in SUBSET Tags /\ "d3" \in X7 /\ "u2" \in Tags \ X7
    BY DEF HalfTensors, Tags
  <2> HIDE DEF X7
  <2>2. Pass(UpOps(<<"d3">>, <<"u2">>), "u2", X7)
    BY <2>1, Passes
  <2> QED BY <1>14, <1>15, <2>1, <2>2, ThenPass
<1>17. PICK p9 : p9 = p8 \o CatOps(<<"u2">>, <<"s2">>, <<"c2">>)
  OBVIOUS
<1>18. Live(p9, X9)
  <2>1. X8 \in SUBSET Tags /\ "u2" \in X8 /\ "s2" \in X8 /\ "c2" \in Tags \ X8
    BY DEF HalfTensors, Tags
  <2> HIDE DEF X8
  <2>2. Pass(CatOps(<<"u2">>, <<"s2">>, <<"c2">>), "c2", X8)
    BY <2>1, Passes
  <2> QED BY <1>16, <1>17, <2>1, <2>2, ThenPass
<1>19. PICK p10 : p10 = p9 \o Seq2Ops(<<"c2">>, <<"d2">>)
  OBVIOUS
<1>20. Live(p10, X10)
  <2>1. X9 \in SUBSET Tags /\ "c2" \in X9 /\ "d2" \in Tags \ X9
    BY DEF HalfTensors, Tags
  <2> HIDE DEF X9
  <2>2. Pass(Seq2Ops(<<"c2">>, <<"d2">>), "d2", X9)
    BY <2>1, Passes
  <2> QED BY <1>18, <1>19, <2>1, <2>2, ThenPass
<1>21. PICK p11 : p11 = p10 \o UpOps(<<"d2">>, <<"u1">>)
  OBVIOUS
<1>22. Live(p11, X11)
  <2>1. X10 \in SUBSET Tags /\ "d2" \in X10 /\ "u1" \in Tags \ X10
    BY DEF HalfTensors, Tags
  <2> HIDE DEF X10
  <2>2. Pass(UpOps(<<"d2">>, <<"u1">>), "u1", X10)
    BY <2>1, Passes
  <2> QED BY <1>20, <1>21, <2>1, <2>2, ThenPass
<1>23. PICK p12 : p12 = p11 \o CatOps(<<"u1">>, <<"s1">>, <<"c1">>)
  OBVIOUS
<1>24. Live(p12, X12)
  <2>1. X11 \in SUBSET Tags /\ "u1" \in X11 /\ "s1" \in X11 /\ "c1" \in Tags \ X11
    BY DEF HalfTensors, Tags
  <2> HIDE DEF X11
  <2>2. Pass(CatOps(<<"u1">>, <<"s1">>, <<"c1">>), "c1", X11)
    BY <2>1, Passes
  <2> QED BY <1>22, <1>23, <2>1, <2>2, ThenPass
<1>25. PICK p13 : p13 = p12 \o Seq2Ops(<<"c1">>, <<"d1">>)
  OBVIOUS
<1>26. Live(p13, X13)
  <2>1. X12 \in SUBSET Tags /\ "c1" \in X12 /\ "d1" \in Tags \ X12
    BY DEF HalfTensors, Tags
  <2> HIDE DEF X12
  <2>2. Pass(Seq2Ops(<<"c1">>, <<"d1">>), "d1", X12)
    BY <2>1, Passes
  <2> QED BY <1>24, <1>25, <2>1, <2>2, ThenPass
<1>27. PICK p14 : p14 = p13 \o ConvOps(<<"d1">>, <<"raw">>)
  OBVIOUS
<1>28. Live(p14, X14)
  <2>1. X13 \in SUBSET Tags /\ "d1" \in X13 /\ "raw" \in Tags \ X13
    BY DEF HalfTensors, Tags
  <2> HIDE DEF X13
  <2>2. Pass(ConvOps(<<"d1">>, <<"raw">>), "raw", X13)
    BY <2>1, Passes
  <2> QED BY <1>26, <1>27, <2>1, <2>2, ThenPass
<1>29. X14 = HalfTensors \cup Made /\ "raw" \in X14 /\ "hout" \in X14 /\ X14 \in SUBSET Tags
  BY DEF HalfTensors, Made, Tags
<1> HIDE DEF X14
<1>30. PICK r : r = p14 \o Read(<<"raw">>)
  OBVIOUS
<1>31. Live(r \o Read(<<"hout">>), X14)
  <2>1. /\ <<"raw">> \in Seq(Tags) /\ <<"raw">> \in Tensors(X14) /\ <<"raw">> \in Rooted(X14)
        /\ <<"hout">> \in Seq(Tags) /\ <<"hout">> \in Tensors(X14) /\ <<"hout">> \in Rooted(X14)
    BY <1>29, TensorNames
  <2>2. Does(p14, Rooted(X14), Tensors(HalfTensors), Tensors(X14))
    BY <1>28 DEF Live
  <2>3. Does(r, Rooted(X14) \cup {<<"raw">>}, Tensors(HalfTensors), Tensors(X14))
    BY <1>30, <2>1, <2>2, ThenRead
  <2>4. Does(r \o Read(<<"hout">>), (Rooted(X14) \cup {<<"raw">>}) \cup {<<"hout">>}, Tensors(HalfTensors), Tensors(X14))
    BY <2>1, <2>3, ThenRead
  <2>5. (Rooted(X14) \cup {<<"raw">>}) \cup {<<"hout">>} \subseteq Rooted(X14)
    BY <2>1
  <2> QED BY <2>4, <2>5, DoesWithin DEF Live
<1>32. CoreOps(<<"hin">>, <<"hout">>) = r \o Read(<<"hout">>)
  BY <1>1, <1>3, <1>5, <1>7, <1>9, <1>11, <1>13, <1>15, <1>17, <1>19, <1>21, <1>23, <1>25, <1>27, <1>30, NamesOf DEF CoreOps
<1> QED BY <1>29, <1>31, <1>32

\* One more free.
LEMMA ThenFree ==
  ASSUME NEW X \in SUBSET Tags, NEW F \in SUBSET X, NEW s, Does(s, Tensors(F), Tensors(X), Tensors(X \ F)),
         NEW x \in X \ F
  PROVE  Does(s \o Drop(<<x>>), Tensors(F \cup {x}), Tensors(X), Tensors(X \ (F \cup {x})))
<1>1. <<x>> \in Seq(Tags) /\ <<x>> \in Tensors(X \ F)
  BY TensorNames
<1>2. Does(s \o Drop(<<x>>), Tensors(F) \cup {<<x>>}, Tensors(X), Tensors(X \ F) \ {<<x>>})
  BY <1>1, ThenDrop
<1>3. Tensors(F \cup {x}) = Tensors(F) \cup {<<x>>}
  BY DEF Tensors
<1>4. Tensors(X \ (F \cup {x})) = Tensors(X \ F) \ {<<x>>}
  <2>1. \A y, z \in Tags : <<y>> = <<z>> => y = z
    OBVIOUS
  <2> QED BY <2>1 DEF Tensors
<1> QED BY <1>2, <1>3, <1>4

LEMMA ReleasedDoes ==
  Does(Released, Tensors(Made), Tensors(HalfTensors \cup Made), Tensors(HalfTensors))
<1> DEFINE X == HalfTensors \cup Made
           F1 == {"s1"}
           F2 == F1 \cup {"s2"}
           F3 == F2 \cup {"s3"}
           F4 == F3 \cup {"s4"}
           F5 == F4 \cup {"u3"}
           F6 == F5 \cup {"c3"}
           F7 == F6 \cup {"d3"}
           F8 == F7 \cup {"u2"}
           F9 == F8 \cup {"c2"}
           F10 == F9 \cup {"d2"}
           F11 == F10 \cup {"u1"}
           F12 == F11 \cup {"c1"}
           F13 == F12 \cup {"d1"}
           F14 == F13 \cup {"raw"}
<1>1. X \in SUBSET Tags /\ "s1" \in X
  BY DEF HalfTensors, Made, Tags
<1>2. PICK p1 : p1 = Drop(<<"s1">>)
  OBVIOUS
<1>3. Does(p1, Tensors(F1), Tensors(X), Tensors(X \ F1))
  <2> HIDE DEF X
  <2>1. <<"s1">> \in Seq(Tags) /\ <<"s1">> \in Tensors(X)
    BY <1>1, TensorNames
  <2>2. Does(p1, {<<"s1">>}, Tensors(X), Tensors(X) \ {<<"s1">>})
    BY <1>2, <2>1, Drops
  <2>3. Tensors(F1) = {<<"s1">>}
    BY DEF Tensors
  <2>4. Tensors(X \ F1) = Tensors(X) \ {<<"s1">>}
    <3>1. \A y, z \in Tags : <<y>> = <<z>> => y = z
      OBVIOUS
    <3> QED BY <1>1, <3>1 DEF Tensors
  <2> QED BY <2>2, <2>3, <2>4
<1>4. PICK p2 : p2 = p1 \o Drop(<<"s2">>)
  OBVIOUS
<1>5. Does(p2, Tensors(F2), Tensors(X), Tensors(X \ F2))
  <2>1. F1 \in SUBSET X /\ "s2" \in X \ F1
    BY DEF HalfTensors, Made
  <2> HIDE DEF X, F1
  <2> QED BY <1>1, <1>3, <1>4, <2>1, ThenFree
<1>6. PICK p3 : p3 = p2 \o Drop(<<"s3">>)
  OBVIOUS
<1>7. Does(p3, Tensors(F3), Tensors(X), Tensors(X \ F3))
  <2>1. F2 \in SUBSET X /\ "s3" \in X \ F2
    BY DEF HalfTensors, Made
  <2> HIDE DEF X, F2
  <2> QED BY <1>1, <1>5, <1>6, <2>1, ThenFree
<1>8. PICK p4 : p4 = p3 \o Drop(<<"s4">>)
  OBVIOUS
<1>9. Does(p4, Tensors(F4), Tensors(X), Tensors(X \ F4))
  <2>1. F3 \in SUBSET X /\ "s4" \in X \ F3
    BY DEF HalfTensors, Made
  <2> HIDE DEF X, F3
  <2> QED BY <1>1, <1>7, <1>8, <2>1, ThenFree
<1>10. PICK p5 : p5 = p4 \o Drop(<<"u3">>)
  OBVIOUS
<1>11. Does(p5, Tensors(F5), Tensors(X), Tensors(X \ F5))
  <2>1. F4 \in SUBSET X /\ "u3" \in X \ F4
    BY DEF HalfTensors, Made
  <2> HIDE DEF X, F4
  <2> QED BY <1>1, <1>9, <1>10, <2>1, ThenFree
<1>12. PICK p6 : p6 = p5 \o Drop(<<"c3">>)
  OBVIOUS
<1>13. Does(p6, Tensors(F6), Tensors(X), Tensors(X \ F6))
  <2>1. F5 \in SUBSET X /\ "c3" \in X \ F5
    BY DEF HalfTensors, Made
  <2> HIDE DEF X, F5
  <2> QED BY <1>1, <1>11, <1>12, <2>1, ThenFree
<1>14. PICK p7 : p7 = p6 \o Drop(<<"d3">>)
  OBVIOUS
<1>15. Does(p7, Tensors(F7), Tensors(X), Tensors(X \ F7))
  <2>1. F6 \in SUBSET X /\ "d3" \in X \ F6
    BY DEF HalfTensors, Made
  <2> HIDE DEF X, F6
  <2> QED BY <1>1, <1>13, <1>14, <2>1, ThenFree
<1>16. PICK p8 : p8 = p7 \o Drop(<<"u2">>)
  OBVIOUS
<1>17. Does(p8, Tensors(F8), Tensors(X), Tensors(X \ F8))
  <2>1. F7 \in SUBSET X /\ "u2" \in X \ F7
    BY DEF HalfTensors, Made
  <2> HIDE DEF X, F7
  <2> QED BY <1>1, <1>15, <1>16, <2>1, ThenFree
<1>18. PICK p9 : p9 = p8 \o Drop(<<"c2">>)
  OBVIOUS
<1>19. Does(p9, Tensors(F9), Tensors(X), Tensors(X \ F9))
  <2>1. F8 \in SUBSET X /\ "c2" \in X \ F8
    BY DEF HalfTensors, Made
  <2> HIDE DEF X, F8
  <2> QED BY <1>1, <1>17, <1>18, <2>1, ThenFree
<1>20. PICK p10 : p10 = p9 \o Drop(<<"d2">>)
  OBVIOUS
<1>21. Does(p10, Tensors(F10), Tensors(X), Tensors(X \ F10))
  <2>1. F9 \in SUBSET X /\ "d2" \in X \ F9
    BY DEF HalfTensors, Made
  <2> HIDE DEF X, F9
  <2> QED BY <1>1, <1>19, <1>20, <2>1, ThenFree
<1>22. PICK p11 : p11 = p10 \o Drop(<<"u1">>)
  OBVIOUS
<1>23. Does(p11, Tensors(F11), Tensors(X), Tensors(X \ F11))
  <2>1. F10 \in SUBSET X /\ "u1" \in X \ F10
    BY DEF HalfTensors, Made
  <2> HIDE DEF X, F10
  <2> QED BY <1>1, <1>21, <1>22, <2>1, ThenFree
<1>24. PICK p12 : p12 = p11 \o Drop(<<"c1">>)
  OBVIOUS
<1>25. Does(p12, Tensors(F12), Tensors(X), Tensors(X \ F12))
  <2>1. F11 \in SUBSET X /\ "c1" \in X \ F11
    BY DEF HalfTensors, Made
  <2> HIDE DEF X, F11
  <2> QED BY <1>1, <1>23, <1>24, <2>1, ThenFree
<1>26. PICK p13 : p13 = p12 \o Drop(<<"d1">>)
  OBVIOUS
<1>27. Does(p13, Tensors(F13), Tensors(X), Tensors(X \ F13))
  <2>1. F12 \in SUBSET X /\ "d1" \in X \ F12
    BY DEF HalfTensors, Made
  <2> HIDE DEF X, F12
  <2> QED BY <1>1, <1>25, <1>26, <2>1, ThenFree
<1>28. PICK p14 : p14 = p13 \o Drop(<<"raw">>)
  OBVIOUS
<1>29. Does(p14, Tensors(F14), Tensors(X), Tensors(X \ F14))
  <2>1. F13 \in SUBSET X /\ "raw" \in X \ F13
    BY DEF HalfTensors, Made
  <2> HIDE DEF X, F13
  <2> QED BY <1>1, <1>27, <1>28, <2>1, ThenFree
<1>30. F14 = Made /\ X \ F14 = HalfTensors
  BY DEF HalfTensors, Made
<1>31. Released = p14
  BY <1>2, <1>4, <1>6, <1>8, <1>10, <1>12, <1>14, <1>16, <1>18, <1>20, <1>22, <1>24, <1>26, <1>28, NamesOf DEF Released
<1> QED BY <1>29, <1>30, <1>31

\* The operations of a whole fusion begin and end without a temporary.
LEMMA FusionDoes == \E N : Does(FusionOps, N, {}, {})
<1>1. PICK i : i = <<"hin">>
  OBVIOUS
<1>2. PICK o : o = <<"hout">>
  OBVIOUS
<1>3. i \in Seq(Tags) /\ o \in Seq(Tags) /\ i # o
  <2>1. "hin" \in Tags /\ "hout" \in Tags /\ "hin" # "hout"
    BY DEF Tags
  <2> QED BY <1>1, <1>2, <2>1
<1>4. PICK H : H = Tensors(HalfTensors)
  OBVIOUS
<1>5. H = {i, o}
  BY <1>1, <1>2, <1>4 DEF Tensors, HalfTensors
<1>6. PICK s1 : s1 = Make(i) \o Make(o)
  OBVIOUS
<1>7. Does(s1, H, {}, H)
  <2>1. Does(Make(i), {i}, {}, {} \cup {i})
    BY <1>3, Makes
  <2>2. o \notin {i} /\ o \notin {} \cup {i}
    BY <1>3
  <2>3. Does(s1, {i} \cup {o}, {}, ({} \cup {i}) \cup {o})
    BY <1>3, <1>6, <2>1, <2>2, ThenMake
  <2>4. {i} \cup {o} = H /\ ({} \cup {i}) \cup {o} = H
    BY <1>5
  <2> QED BY <2>3, <2>4
<1>8. PICK L : L = Tensors(HalfTensors \cup Made)
  OBVIOUS
<1>9. PICK R : R = Rooted(HalfTensors \cup Made)
  OBVIOUS
<1>10. PICK s2 : s2 = s1 \o CoreOps(i, o)
  OBVIOUS
<1>11. Does(s2, H \cup R, {}, L)
  <2>1. Does(CoreOps(i, o), R, H, L)
    BY <1>1, <1>2, <1>4, <1>8, <1>9, CoreDoes DEF Live
  <2> QED BY <1>7, <1>10, <2>1, DoesBoth
<1>12. PICK s3 : s3 = s2 \o Released
  OBVIOUS
<1>13. PICK M : M = (H \cup R) \cup Tensors(Made)
  OBVIOUS
<1>14. Does(s3, M, {}, H)
  <2>1. Does(Released, Tensors(Made), L, H)
    BY <1>4, <1>8, ReleasedDoes
  <2>2. (H \cup R) \cap Tensors(Made) \subseteq L
    BY <1>8 DEF Tensors
  <2> QED BY <1>11, <1>12, <1>13, <2>1, <2>2, DoesBoth
<1>15. PICK s4 : s4 = s3 \o Read(o)
  OBVIOUS
<1>16. Does(s4, M \cup {o}, {}, H)
  BY <1>3, <1>5, <1>14, <1>15, ThenRead
<1>17. PICK s5 : s5 = s4 \o Drop(i)
  OBVIOUS
<1>18. Does(s5, (M \cup {o}) \cup {i}, {}, H \ {i})
  BY <1>3, <1>5, <1>16, <1>17, ThenDrop
<1>19. Does(s5 \o Drop(o), ((M \cup {o}) \cup {i}) \cup {o}, {}, (H \ {i}) \ {o})
  BY <1>3, <1>5, <1>18, ThenDrop
<1>20. (H \ {i}) \ {o} = {}
  BY <1>5
<1>21. FusionOps = s5 \o Drop(o)
  BY <1>1, <1>2, <1>6, <1>10, <1>12, <1>15, <1>17 DEF FusionOps
<1> QED BY <1>19, <1>20, <1>21

LEMMA Balanced == PoolBalanced
<1>1. PICK s : s = FusionOps
  OBVIOUS
<1>2. PICK k : k = Len(s)
  OBVIOUS
<1>3. s \in Seq(PoolOp) /\ k \in Nat /\ DOMAIN s = 1 .. k
  BY <1>1, <1>2, FusionDoes DEF Does
<1>4. \A n \in 1 .. k : \A op, t : s[n] = [op |-> op, of |-> t] <=> s[n].op = op /\ s[n].of = t
  <2>1. \A n \in 1 .. k : s[n] \in PoolOp
    BY <1>2, <1>3
  <2> QED BY <2>1 DEF PoolOp
<1> DEFINE At(op, t) == {n \in DOMAIN s : s[n] = [op |-> op, of |-> t]}
<1>5. ASSUME NEW t \in {s[n].of : n \in DOMAIN s}
      PROVE  \E m \in At("make", t), d \in At("drop", t) :
               /\ At("make", t) = {m} /\ At("drop", t) = {d}
               /\ \A r \in At("read", t) : m < r /\ r < d
  <2>1. t \in Of(s)
    BY <1>2, <1>3 DEF Of
  <2>2. Takes(s, t, 0, 2)
    BY <1>1, <2>1, FusionDoes DEF Does
  <2>3. PICK m, d \in 0 .. k + 1 :
          /\ Life(s, t, m, d) /\ m # 0 /\ m # k + 1 /\ d # 0 /\ d # k + 1
    BY <1>2, <2>2 DEF Takes
  <2>4. m \in 1 .. k /\ d \in 1 .. k
    BY <1>3, <2>3
  <2>5. /\ s[m].op = "make" /\ s[m].of = t /\ s[d].op = "drop" /\ s[d].of = t
        /\ \A n \in 1 .. k : s[n].of = t =>
             \/ s[n].op = "make" /\ n = m
             \/ s[n].op = "read" /\ m < n /\ n < d
             \/ s[n].op = "drop" /\ n = d
    BY <1>2, <2>3, <2>4 DEF Life
  <2>6. ASSUME NEW op, NEW n PROVE n \in At(op, t) <=> n \in 1 .. k /\ s[n].op = op /\ s[n].of = t
    <3>1. n \in At(op, t) <=> n \in 1 .. k /\ s[n] = [op |-> op, of |-> t]
      BY <1>3
    <3> HIDE DEF At
    <3> QED BY <1>4, <3>1
  <2> HIDE DEF At
  <2>7. At("make", t) = {m}
    BY <2>4, <2>5, <2>6
  <2>8. At("drop", t) = {d}
    BY <2>4, <2>5, <2>6
  <2>9. \A r \in At("read", t) : m < r /\ r < d
    BY <2>5, <2>6
  <2> QED BY <2>7, <2>8, <2>9
<1> QED BY <1>1, <1>5 DEF PoolBalanced

\* Whatever runs on the stream has given every temporary back exactly once, after
\* its last use: the pool of the device is as full after a fusion as before.
THEOREM TemporariesReturnedCorrect == Spec => []TemporariesReturned
<1>1. TemporariesReturned
  BY Balanced DEF TemporariesReturned
<1> QED BY <1>1, PTL
===============================================================================
