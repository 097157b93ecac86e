------------------------------ MODULE FusionNet -------------------------------
(***************************************************************************)
(* The fusion network as a graph of tensors: the one training/model.py     *)
(* defines and export.py writes to a file, the one its golden test         *)
(* evaluates (training/b4), the one cnn_infer.cpp evaluates and the one    *)
(* cnn_cuda.cu enqueues, with the temporaries the last of them takes from  *)
(* the stream-ordered allocator.                                           *)
(*                                                                         *)
(* A tensor is its size and the expression it holds; the arithmetic of the *)
(* layers is left out.  The four programs share the names of the layers,   *)
(* the channels of the model file and nothing else.                        *)
(***************************************************************************)
EXTENDS Naturals, Sequences, FiniteSets

CONSTANTS
  NetExtents,  \* widths and heights of a frame
  NetBases     \* widths of the network's first layer

ASSUME FusionNetAssumption ==
  /\ NetExtents \subseteq Nat \ {0}
  /\ NetBases \subseteq Nat \ {0}

-------------------------------------------------------------------------------
(* The trainer                                                               *)

\* FusionNet.__init__: channels in and out of each block, and its stride.  Every
\* block but "out" is two gated convolutions, the second of them out -> out.
Layers(base) ==
  LET Block(cin, cout, stride) == [in |-> cin, out |-> cout, stride |-> stride]
  IN [e1 |-> Block(12, base, 1),           e2 |-> Block(base, 2 * base, 2),
      e3 |-> Block(2 * base, 3 * base, 2), e4 |-> Block(3 * base, 4 * base, 2),
      d3 |-> Block(7 * base, 3 * base, 1), d2 |-> Block(5 * base, 2 * base, 1),
      d1 |-> Block(3 * base, base, 1),     out |-> Block(base, 3, 1)]

\* A tensor; it fits if every operation that led to it found the sizes it reads.
Tensor(c, h, w, fits, holds) == [c |-> c, h |-> h, w |-> w, fits |-> fits, holds |-> holds]
NetInput(h, w) == Tensor(12, h, w, TRUE, <<"input">>)

\* A size under a 3x3 kernel with padding 1: (n + 2 - 3) / stride + 1.
Strided(n, stride) == (n - 1) \div stride + 1

\* A convolution takes its output channels from the file and its input channels
\* from the tensor: the weights are read with in.c * 9 values to a row.
Conv(in, block, n, stride, cin, cout) ==
  Tensor(cout, Strided(in.h, stride), Strided(in.w, stride), in.fits /\ in.c = cin,
         <<"conv", block, n, stride, in.holds>>)

\* Two gated convolutions; feature and gate have the same shape.
Seq2(net, in, block, stride) ==
  LET b == net[block]
  IN Conv(Conv(in, block, 0, stride, b.in, b.out), block, 1, 1, b.out, b.out)

\* Bilinear interpolation to a given size.
Up(in, h, w) == Tensor(in.c, h, w, in.fits, <<"up", h, w, in.holds>>)

\* Concatenation by channel copies as many values of each as the first has pixels.
Cat(a, b) ==
  Tensor(a.c + b.c, a.h, a.w, a.fits /\ b.fits /\ <<a.h, a.w>> = <<b.h, b.w>>,
         <<"cat", a.holds, b.holds>>)

\* FusionNet.forward: the strides are those of the layers.
Trained(net, x) ==
  LET Of(block, in) == Seq2(net, in, block, net[block].stride)
      To(in, ref) == Up(in, ref.h, ref.w)
      s1 == Of("e1", x)
      s2 == Of("e2", s1)
      s3 == Of("e3", s2)
      s4 == Of("e4", s3)
      d3 == Of("d3", Cat(To(s4, s3), s3))
      d2 == Of("d2", Cat(To(d3, s2), s2))
      d1 == Of("d1", Cat(To(d2, s1), s1))
  IN Conv(d1, "out", 0, net.out.stride, net.out.in, net.out.out)

\* The golden test of the exported file (training/b4/cnn_infer.cpp).
Golden(net, x) ==
  LET Decode(deep, skip, block) == Seq2(net, Cat(Up(deep, skip.h, skip.w), skip), block, 1)
      s1 == Seq2(net, x, "e1", 1)
      s2 == Seq2(net, s1, "e2", 2)
      s3 == Seq2(net, s2, "e3", 2)
      s4 == Seq2(net, s3, "e4", 2)
  IN Conv(Decode(Decode(Decode(s4, s3, "d3"), s2, "d2"), s1, "d1"), "out", 0, 1,
          net.out.in, net.out.out)

-------------------------------------------------------------------------------
(* The two runtimes                                                          *)

\* runFusionCPU
CPU(net, x) ==
  LET s1 == Seq2(net, x, "e1", 1)
      s2 == Seq2(net, s1, "e2", 2)
      s3 == Seq2(net, s2, "e3", 2)
      s4 == Seq2(net, s3, "e4", 2)
      d3 == Seq2(net, Cat(Up(s4, s3.h, s3.w), s3), "d3", 1)
      d2 == Seq2(net, Cat(Up(d3, s2.h, s2.w), s2), "d2", 1)
      d1 == Seq2(net, Cat(Up(d2, s1.h, s1.w), s1), "d1", 1)
  IN Conv(d1, "out", 0, 1, net.out.in, net.out.out)

\* k_im2col writes row (ci*3 + ky)*3 + kx, pixel p of a matrix of n columns: for c
\* channels the largest index, (9*c - 1)*n + n - 1, must be an int.
INT_MAX == 2147483647
Indexed(c, n) == 9 * c - 1 <= (INT_MAX - (n - 1)) \div n

\* conv_raw: where an index overflows, what the product reads is anything.
Undefined == <<"undefined">>
conv_raw(in, block, n, stride, cin, cout) ==
  LET o == Conv(in, block, n, stride, cin, cout)
  IN IF Indexed(in.c, o.h * o.w) THEN o ELSE [o EXCEPT !.holds = Undefined]

seq2(net, in, block, stride) ==
  LET b == net[block]
  IN conv_raw(conv_raw(in, block, 0, stride, b.in, b.out), block, 1, 1, b.out, b.out)

\* Mutant of UpTo: the decoder doubles the size, whatever the skip connection has.
UpDoubled(in, skip) == Up(in, 2 * in.h, 2 * in.w)
\* The decoder scales to the size of the skip connection.
UpTo(in, skip) == Up(in, skip.h, skip.w)

\* fusionCore
fusionCore(net, x) ==
  LET s1 == seq2(net, x, "e1", 1)
      s2 == seq2(net, s1, "e2", 2)
      s3 == seq2(net, s2, "e3", 2)
      s4 == seq2(net, s3, "e4", 2)
      d3 == seq2(net, Cat(UpTo(s4, s3), s3), "d3", 1)
      d2 == seq2(net, Cat(UpTo(d3, s2), s2), "d2", 1)
      d1 == seq2(net, Cat(UpTo(d2, s1), s1), "d1", 1)
  IN conv_raw(d1, "out", 0, 1, net.out.in, net.out.out)

-------------------------------------------------------------------------------
(* The temporaries of the CUDA runtime, by the operations on its stream      *)

Make(t) == <<[op |-> "make", of |-> t]>>
Read(t) == <<[op |-> "read", of |-> t]>>
Drop(t) == <<[op |-> "drop", of |-> t]>>
Part(t, name) == Append(t, name)

\* conv_raw: im2col to a temporary, then the matrix product.
ConvOps(in, o) ==
  LET col == Part(o, "col")
  IN Make(col) \o Read(in) \o Make(o) \o Read(col) \o Drop(col)

GatedOps(in, o) ==
  LET a == Part(o, "feat")
      g == Part(o, "gate")
  IN ConvOps(in, a) \o ConvOps(in, g) \o Make(o) \o Read(a) \o Read(g) \o Drop(a) \o Drop(g)

Seq2Ops(in, o) ==
  LET a == Part(o, "first")
  IN GatedOps(in, a) \o GatedOps(a, o) \o Drop(a)

UpOps(in, o) == Make(o) \o Read(in)
CatOps(a, b, o) == Make(o) \o Read(a) \o Read(b)

Names ==
  [s1 |-> <<"s1">>, s2 |-> <<"s2">>, s3 |-> <<"s3">>, s4 |-> <<"s4">>,
   u3 |-> <<"u3">>, c3 |-> <<"c3">>, d3 |-> <<"d3">>, u2 |-> <<"u2">>, c2 |-> <<"c2">>,
   d2 |-> <<"d2">>, u1 |-> <<"u1">>, c1 |-> <<"c1">>, d1 |-> <<"d1">>, raw |-> <<"raw">>]

\* The passes of fusionCore from d_in to d_out.
CoreOps(in, out) ==
  LET n == Names
  IN Seq2Ops(in, n.s1) \o Seq2Ops(n.s1, n.s2) \o Seq2Ops(n.s2, n.s3) \o Seq2Ops(n.s3, n.s4)
     \o UpOps(n.s4, n.u3) \o CatOps(n.u3, n.s3, n.c3) \o Seq2Ops(n.c3, n.d3)
     \o UpOps(n.d3, n.u2) \o CatOps(n.u2, n.s2, n.c2) \o Seq2Ops(n.c2, n.d2)
     \o UpOps(n.d2, n.u1) \o CatOps(n.u1, n.s1, n.c1) \o Seq2Ops(n.c1, n.d1)
     \o ConvOps(n.d1, n.raw) \o Read(n.raw) \o Read(out)

\* Mutant of Released: the three skip connections are forgotten.
ReleasedSkips ==
  Drop(Names.s4) \o Drop(Names.u3) \o Drop(Names.c3) \o Drop(Names.d3) \o Drop(Names.u2)
    \o Drop(Names.c2) \o Drop(Names.d2) \o Drop(Names.u1) \o Drop(Names.c1) \o Drop(Names.d1)
    \o Drop(Names.raw)

\* The frees at the end of fusionCore.
Released ==
  Drop(Names.s1) \o Drop(Names.s2) \o Drop(Names.s3) \o Drop(Names.s4) \o Drop(Names.u3)
    \o Drop(Names.c3) \o Drop(Names.d3) \o Drop(Names.u2) \o Drop(Names.c2) \o Drop(Names.d2)
    \o Drop(Names.u1) \o Drop(Names.c1) \o Drop(Names.d1) \o Drop(Names.raw)

\* runFusionCUDADeviceF32: half-precision copies around the core.
FusionOps ==
  LET hin == <<"hin">>
      hout == <<"hout">>
  IN Make(hin) \o Make(hout) \o CoreOps(hin, hout) \o Released \o Read(hout) \o Drop(hin) \o Drop(hout)

-------------------------------------------------------------------------------
(* What the four programs have in common                                     *)

\* The frames whose column matrices an int can index, by the widest input at each
\* size: d1 (and e1, for narrow networks), d2, d3 and e4.
Indexable(base, h, w) ==
  LET h2 == Strided(h, 2)  h3 == Strided(h2, 2)  h4 == Strided(h3, 2)
      w2 == Strided(w, 2)  w3 == Strided(w2, 2)  w4 == Strided(w3, 2)
  IN /\ Indexed(12, h * w) /\ Indexed(3 * base, h * w)
     /\ Indexed(5 * base, h2 * w2) /\ Indexed(7 * base, h3 * w3) /\ Indexed(4 * base, h4 * w4)

\* At every frame size every skip connection meets a tensor of its own size, every
\* layer the channels its weights have, and the residual is as large as the frame
\* it is added to; and the four programs compute the same expression of every
\* frame that can be indexed.
NetworksAgree ==
  \A base \in NetBases, h, w \in NetExtents :
    LET net == Layers(base)
        y == fusionCore(net, NetInput(h, w))
    IN /\ y.fits /\ <<y.c, y.h, y.w>> = <<3, h, w>>
       /\ Indexable(base, h, w) =>
            /\ y = CPU(net, NetInput(h, w))
            /\ y = Golden(net, NetInput(h, w)) /\ y = Trained(net, NetInput(h, w))

\* Every temporary is made once and freed once, after everything that reads it.
PoolBalanced ==
  LET At(op, t) == {n \in DOMAIN FusionOps : FusionOps[n] = [op |-> op, of |-> t]}
  IN \A t \in {FusionOps[n].of : n \in DOMAIN FusionOps} :
       \E m \in At("make", t), d \in At("drop", t) :
         /\ At("make", t) = {m} /\ At("drop", t) = {d}
         /\ \A r \in At("read", t) : m < r /\ r < d
===============================================================================
