------------------------------- MODULE MCMemory -------------------------------
(***************************************************************************)
(* A small heap for TLC: two blocks with the hole of a PC between them, of *)
(* which the upper one, as on every PC, has an odd number of words.        *)
(***************************************************************************)
EXTENDS XinuMemory, TLC

SmallHeap == (0 :> 6) @@ (8 :> 7)
==============================================================================
