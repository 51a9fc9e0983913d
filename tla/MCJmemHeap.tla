----------------------------- MODULE MCJmemHeap -----------------------------
(***************************************************************************)
(* JmemHeap with four blocks, whose names are interchangeable, in an area  *)
(* of seven units: a block may lie between two free regions, a region may  *)
(* be left on either side of it, and the area may be full.                 *)
(***************************************************************************)
EXTENDS JmemHeap, TLC

Symmetry == Permutations(Blocks)
=============================================================================
