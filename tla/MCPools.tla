------------------------------- MODULE MCPools -------------------------------
(***************************************************************************)
(* Buffer pools for TLC: processes are model values and interchangeable.   *)
(***************************************************************************)
EXTENDS XinuPools, TLC

CONSTANTS p1, p2, p3

ThreeProcs == {p1, p2, p3}

Interchangeable == Permutations(Procs)
==============================================================================
