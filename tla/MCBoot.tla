------------------------------- MODULE MCBoot -------------------------------
(***************************************************************************)
(* The network boot for TLC: the bounds are in the configuration.          *)
(***************************************************************************)
EXTENDS XinuBoot
==============================================================================
