------------------------------ MODULE BootLoad ------------------------------
(***************************************************************************)
(* What the network boot of the monitor promises: a file is loaded block   *)
(* by block, each block after the one before it, possibly from the start   *)
(* again, and nothing is run but the whole file.  How the blocks arrive is *)
(* not said.                                                               *)
(***************************************************************************)
EXTENDS Integers, Sequences

CONSTANT NBLOCKS     \* blocks of the boot file

VARIABLES phase,     \* "idle", "loading" or "running"
          loaded     \* the blocks in memory, from the load address on

lvars == <<phase, loaded>>

LoadInit == phase = "idle" /\ loaded = <<>>

Start ==
  /\ phase = "idle"
  /\ phase' = "loading"
  /\ UNCHANGED loaded

Receive ==
  /\ phase = "loading"
  /\ Len(loaded) < NBLOCKS
  /\ loaded' = Append(loaded, Len(loaded) + 1)
  /\ UNCHANGED phase

Restart ==
  /\ phase = "loading"
  /\ loaded' = <<>>
  /\ UNCHANGED phase

GiveUp ==
  /\ phase = "loading"
  /\ phase' = "idle"
  /\ UNCHANGED loaded

Run ==
  /\ phase = "loading"
  /\ Len(loaded) = NBLOCKS
  /\ phase' = "running"
  /\ UNCHANGED loaded

LoadNext == Start \/ Receive \/ Restart \/ GiveUp \/ Run

LoadSpec == LoadInit /\ [][LoadNext]_lvars
==============================================================================
