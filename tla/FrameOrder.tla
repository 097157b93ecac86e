----------------------------- MODULE FrameOrder -----------------------------
(***************************************************************************)
(* What the per-frame interface of nvofg promises, whatever the tier and   *)
(* however many GPU stages a frame takes: every record call issues one     *)
(* frame, frames complete in the order they were issued, at most Depth     *)
(* (kRing) of them are in flight, and every issued frame completes.        *)
(***************************************************************************)
EXTENDS Naturals

CONSTANT Depth     \* how many frames may be in flight at once, a positive number

VARIABLES issued,  \* frames handed to the GPU so far
          done     \* frames whose sync point has been reached

vars == <<issued, done>>

Init == issued = 0 /\ done = 0

Issue ==
  /\ issued - done < Depth
  /\ issued' = issued + 1
  /\ UNCHANGED done

Complete ==
  /\ done < issued
  /\ done' = done + 1
  /\ UNCHANGED issued

Next == Issue \/ Complete

Spec == Init /\ [][Next]_vars /\ WF_vars(Complete)
=============================================================================
