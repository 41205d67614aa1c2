------------------------------- MODULE MCHeap -------------------------------
(***************************************************************************)
(* A small heap for TLC: pages of 32 bytes (two alignment units), two      *)
(* initial pages and growth by two pages or one, up to MaxFrames frames.   *)
(* The sizes reach a split, a block taken whole, growth by one step and by *)
(* several, and the sizes at which size_t arithmetic wraps.                *)
(***************************************************************************)
EXTENDS Heap

MCSizes == {1, 17, 40, 255}
MCCallocArgs == {<<3, 16>>, <<3, 90>>}
MCForeignPtrs == {16, 56, 264}

=============================================================================
