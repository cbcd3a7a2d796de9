------------------------------ MODULE MCMonNet ------------------------------
(***************************************************************************)
(* The network layer of the monitor for TLC: its constants are in the      *)
(* configuration.                                                          *)
(***************************************************************************)
EXTENDS XinuMonNet
=============================================================================
