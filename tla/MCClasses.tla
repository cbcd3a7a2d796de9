----------------------------- MODULE MCClasses -----------------------------
(***************************************************************************)
(* The scheduling classes for TLC: main, a process that blocks, and one    *)
(* that was made by createReal.                                            *)
(***************************************************************************)
EXTENDS XinuClasses, TLC

MCPrio == 0 :> 0 @@ 1 :> 1 @@ 2 :> 2 @@ 3 :> 1
=============================================================================
