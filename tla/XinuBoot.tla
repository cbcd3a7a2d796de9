------------------------------ MODULE XinuBoot ------------------------------
(***************************************************************************)
(* The network boot of the monitor (OS_Projects/Locks/mon: monboot.c,      *)
(* monbootp.c, montftp.c, monudp.c, montimer.c).  boot_xinu loops over a   *)
(* state that the handlers of the clock and of the Ethernet change; they   *)
(* may interrupt it between any two of its assignments, and they disable   *)
(* interrupts themselves.                                                  *)
(*                                                                         *)
(* The server and the network are outside the code.  Each request opens a  *)
(* session; a session has sent block b once it has the acknowledgements of *)
(* all blocks below b.  Whatever was sent may be delivered at any later    *)
(* time, out of order, more than once, or never.                           *)
(***************************************************************************)
EXTENDS Integers, Sequences

CONSTANTS NBLOCKS,      \* blocks of the boot file; the last one is shorter
          MON_MAX_TRY,  \* 3 in monitor.h
          MAXRETX,      \* acknowledgements sent again at most: 5 in mon_timer
          MaxBoots,     \* bound on the commands "b", for model checking
          MaxStray      \* bound on deliveries of blocks that are not due

ASSUME BootAssumption == /\ NBLOCKS \in Nat \ {0}
                         /\ MON_MAX_TRY \in Nat
                         /\ MAXRETX \in Nat
                         /\ MaxBoots \in Nat
                         /\ MaxStray \in Nat

VARIABLES pc,        \* where boot_xinu is: the assignment it makes next
          state,     \* mon_boot_state
          try,       \* mon_boot_try
          timer,     \* seconds from mon_clktime to mon_timeout, or OFF
          block,     \* mon_tftp_block
          bytes,     \* mon_tftp_bytes, in blocks
          retx,      \* mon_tftp_retx
          memloc,    \* mon_tftp_memloc, in blocks from BOOTPLOC
          memory,    \* memory[k]: the block stored at place k, 0 if none was
          server,    \* mon_tftp_server and mon_boot_fname are known
          port,      \* mon_tftp_server_port: the session last heard of
          sessions,  \* sessions that the server has opened
          acks,      \* the acknowledgements sent, as <<session, block>>
          boots,
          stray

mainVars == <<try, server, boots>>
fileVars == <<block, bytes, retx, memloc, memory>>
netVars  == <<port, sessions, acks, stray>>
vars     == <<pc, state, timer, mainVars, fileVars, netVars>>

OFF == -1

BootStates == {"BEGIN_BOOTP", "BOOTP_REQ_SENT", "BOOTP_RETX", "BEGIN_TFTP",
               "TFTP_REQ_SENT", "TFTP_RETX", "BOOT_DONE", "BOOT_ERROR"}

\* The monitor waits for a command; the image has been jumped to.
Places == {"monitor", "loop", "bootp_timer", "tftp_state", "tftp_timer",
           "tftp_block", "tftp_bytes", "tftp_retx", "jumped"}

Blocks == 1 .. NBLOCKS

BootInit ==
  /\ pc       = "monitor"
  /\ state    = "BEGIN_BOOTP"
  /\ try      = 0
  /\ timer    = OFF
  /\ block    = 0
  /\ bytes    = 0
  /\ retx     = 0
  /\ memloc   = 0
  /\ memory   = [k \in Blocks |-> 0]
  /\ server   = FALSE
  /\ port     = 0
  /\ sessions = 0
  /\ acks     = {}
  /\ boots    = 0
  /\ stray    = 0

----------------------------------------------------------------------------
(* boot_xinu, called for the command "b".                                  *)

BootXinu ==
  /\ pc = "monitor"
  /\ boots < MaxBoots
  /\ boots' = boots + 1
  /\ pc'    = "loop"
  /\ state' = "BEGIN_BOOTP"
  /\ try'   = 0
  /\ timer' = OFF
  /\ UNCHANGED <<server, fileVars, netVars>>

\* The tries once this turn of the loop has counted its own.
Tries == IF state \in {"BOOTP_RETX", "TFTP_RETX"} THEN try + 1 ELSE try

\* Too many of them: "No reply", and back to the monitor.
NoReply ==
  /\ pc = "loop"
  /\ state \in {"BOOTP_RETX", "TFTP_RETX"}
  /\ Tries > MON_MAX_TRY
  /\ try' = Tries
  /\ pc'  = "monitor"
  /\ UNCHANGED <<state, timer, server, boots, fileVars, netVars>>

\* No handler touches what these assignments use before the state is set.
BootpRequest ==
  /\ pc = "loop"
  /\ state \in {"BEGIN_BOOTP", "BOOTP_RETX"}
  /\ Tries <= MON_MAX_TRY
  /\ try'   = Tries
  /\ state' = "BOOTP_REQ_SENT"
  /\ pc'    = "bootp_timer"
  /\ UNCHANGED <<timer, server, boots, fileVars, netVars>>

\* Faulty variant: the load address is not set again for a repeated request.
TftpRequest_KeepMemloc ==
  /\ pc = "loop"
  /\ state \in {"BEGIN_TFTP", "TFTP_RETX"}
  /\ Tries <= MON_MAX_TRY
  /\ try'      = Tries
  /\ block'    = 0
  /\ bytes'    = 0
  /\ sessions' = IF server THEN sessions + 1 ELSE sessions
  /\ pc'       = "tftp_state"
  /\ UNCHANGED <<state, timer, server, boots, retx, memloc, memory, port, acks,
                 stray>>

(***************************************************************************)
(* mon_tftp_req, called in a state in which the handlers leave the         *)
(* transfer alone.  A server that is not known never answers with data.    *)
(***************************************************************************)
TftpRequest ==
  /\ pc = "loop"
  /\ state \in {"BEGIN_TFTP", "TFTP_RETX"}
  /\ Tries <= MON_MAX_TRY
  /\ try'      = Tries
  /\ memloc'   = 0
  /\ block'    = 0
  /\ bytes'    = 0
  /\ sessions' = IF server THEN sessions + 1 ELSE sessions
  /\ pc'       = "tftp_state"
  /\ UNCHANGED <<state, timer, server, boots, retx, memory, port, acks, stray>>

At(here, next) == pc = here /\ pc' = next

\* The assignments that follow a request, with interrupts enabled.
BootpTimer ==
  /\ At("bootp_timer", "loop")
  /\ timer' = try + 2
  /\ UNCHANGED <<state, mainVars, fileVars, netVars>>

TftpState ==
  /\ At("tftp_state", "tftp_timer")
  /\ state' = "TFTP_REQ_SENT"
  /\ UNCHANGED <<timer, mainVars, fileVars, netVars>>

TftpTimer ==
  /\ At("tftp_timer", "tftp_block")
  /\ timer' = try + 2
  /\ UNCHANGED <<state, mainVars, fileVars, netVars>>

TftpBlock ==
  /\ At("tftp_block", "tftp_bytes")
  /\ block' = 1
  /\ UNCHANGED <<state, timer, mainVars, bytes, retx, memloc, memory, netVars>>

TftpBytes ==
  /\ At("tftp_bytes", "tftp_retx")
  /\ bytes' = 0
  /\ UNCHANGED <<state, timer, mainVars, block, retx, memloc, memory, netVars>>

TftpRetx ==
  /\ At("tftp_retx", "loop")
  /\ retx' = 0
  /\ UNCHANGED <<state, timer, mainVars, block, bytes, memloc, memory, netVars>>

BootDone ==
  /\ At("loop", "jumped")
  /\ state = "BOOT_DONE"
  /\ UNCHANGED <<state, timer, mainVars, fileVars, netVars>>

BootError ==
  /\ At("loop", "monitor")
  /\ state = "BOOT_ERROR"
  /\ UNCHANGED <<state, timer, mainVars, fileVars, netVars>>

BootLoop == \/ NoReply \/ BootpRequest \/ BootpTimer \/ TftpRequest
            \/ TftpState \/ TftpTimer \/ TftpBlock \/ TftpBytes \/ TftpRetx
            \/ BootDone \/ BootError

----------------------------------------------------------------------------
(* mon_timer, once per second.                                             *)

Booting == pc \notin {"monitor", "jumped"}

\* mon_tftp_ack starts the timer again, for two seconds.
Ack(s, b) == acks' = acks \union {<<s, b>>} /\ timer' = 2

\* mon_clktime reaches mon_timeout, or has passed it.
Due == timer \in {0, 1}

TickQuiet ==
  /\ Booting
  /\ Due => state \notin {"BOOTP_REQ_SENT", "TFTP_REQ_SENT"}
  /\ timer' = IF timer > 0 THEN timer - 1 ELSE timer
  /\ UNCHANGED <<pc, state, mainVars, fileVars, netVars>>

\* No answer at all yet: the timer stays due while the request is repeated.
TickRequest ==
  /\ Booting /\ Due
  /\ \/ state = "BOOTP_REQ_SENT" /\ state' = "BOOTP_RETX"
     \/ state = "TFTP_REQ_SENT" /\ bytes = 0 /\ state' = "TFTP_RETX"
  /\ timer' = 0
  /\ UNCHANGED <<pc, mainVars, fileVars, netVars>>

\* Faulty variant: the block that is awaited is acknowledged.
TickAck_Ahead ==
  /\ Booting /\ Due
  /\ state = "TFTP_REQ_SENT" /\ bytes # 0 /\ retx < MAXRETX
  /\ Ack(port, block)
  /\ retx' = retx + 1
  /\ UNCHANGED <<pc, state, mainVars, block, bytes, memloc, memory, port,
                 sessions, stray>>

TickAck ==
  /\ Booting /\ Due
  /\ state = "TFTP_REQ_SENT" /\ bytes # 0 /\ retx < MAXRETX
  /\ Ack(port, block - 1)
  /\ retx' = retx + 1
  /\ UNCHANGED <<pc, state, mainVars, block, bytes, memloc, memory, port,
                 sessions, stray>>

\* Faulty variant: giving up is left out.
TickGiveUp_Not ==
  /\ Booting /\ Due
  /\ state = "TFTP_REQ_SENT" /\ bytes # 0 /\ retx >= MAXRETX
  /\ timer' = 0
  /\ UNCHANGED <<pc, state, mainVars, fileVars, netVars>>

TickGiveUp ==
  /\ Booting /\ Due
  /\ state = "TFTP_REQ_SENT" /\ bytes # 0 /\ retx >= MAXRETX
  /\ state' = "BOOT_ERROR"
  /\ timer' = OFF
  /\ UNCHANGED <<pc, mainVars, fileVars, netVars>>

Tick == TickQuiet \/ TickRequest \/ TickAck \/ TickGiveUp

----------------------------------------------------------------------------
(* mon_udp_in: an answer to BOOTP, or a packet of the transfer.            *)

\* A message with the wrong cookie is refused; one that is no reply is not.
BootpIn(kind) ==
  /\ Booting
  /\ state = "BOOTP_REQ_SENT"
  /\ timer' = OFF
  /\ \/ /\ kind = "bad"
        /\ state' = "BOOTP_RETX"
        /\ UNCHANGED <<try, server>>
     \/ /\ kind \in {"reply", "other"}
        /\ state'  = "BEGIN_TFTP"
        /\ try'    = 0
        /\ server' = (server \/ kind = "reply")
  /\ UNCHANGED <<pc, boots, fileVars, netVars>>

\* mon_tftp_in: the timer is stopped and the sender becomes the server.
TftpIn(s) ==
  /\ Booting
  /\ state = "TFTP_REQ_SENT"
  /\ port' = s
  /\ UNCHANGED <<pc, mainVars, sessions>>

TftpErrorIn(s) ==
  /\ TftpIn(s)
  /\ timer' = OFF
  /\ state' = "TFTP_RETX"
  /\ UNCHANGED <<fileVars, acks, stray>>

\* Session s has sent block b at least once.
Sent(s, b) == \A k \in 1 .. b - 1 : <<s, k>> \in acks

\* Faulty variant: any block but the one just stored is taken for the next.
DataIn_AnyOrder(s, b) ==
  /\ TftpIn(s)
  /\ b >= block
  /\ memory' = [memory EXCEPT ![memloc + 1] = b]
  /\ memloc' = memloc + 1
  /\ bytes'  = bytes + 1
  /\ Ack(s, b)
  /\ \/ b = NBLOCKS /\ state' = "BOOT_DONE" /\ UNCHANGED block
     \/ b # NBLOCKS /\ block' = b + 1 /\ UNCHANGED state
  /\ UNCHANGED <<retx, stray>>

\* The block that is due is stored and acknowledged; a short one is the last.
DataIn(s, b) ==
  /\ TftpIn(s)
  /\ b = block
  /\ memory' = [memory EXCEPT ![memloc + 1] = b]
  /\ memloc' = memloc + 1
  /\ bytes'  = bytes + 1
  /\ Ack(s, b)
  /\ \/ b = NBLOCKS /\ state' = "BOOT_DONE" /\ UNCHANGED block
     \/ b # NBLOCKS /\ block' = b + 1 /\ UNCHANGED state
  /\ UNCHANGED <<retx, stray>>

(***************************************************************************)
(* Any other block: the one before is acknowledged again, for the one      *)
(* after the one that is due is; for the rest the timer just stays off.    *)
(***************************************************************************)
StrayIn(s, b) ==
  /\ TftpIn(s)
  /\ b # block
  /\ stray < MaxStray
  /\ stray' = stray + 1
  /\ \/ b = block - 1 /\ Ack(s, b)
     \/ b = block + 1 /\ Ack(s, block)
     \/ b \notin {block - 1, block + 1} /\ timer' = OFF /\ UNCHANGED acks
  /\ UNCHANGED <<state, fileVars>>

DataArrives == \E s \in 1 .. sessions, b \in Blocks :
                 Sent(s, b) /\ (DataIn(s, b) \/ StrayIn(s, b))

Network == \/ \E kind \in {"reply", "bad", "other"} : BootpIn(kind)
           \/ \E s \in 0 .. sessions : TftpErrorIn(s)
           \/ DataArrives

BootNext == BootXinu \/ BootLoop \/ Tick \/ Network

BootSpec == BootInit /\ [][BootNext]_vars

(***************************************************************************)
(* boot_xinu never stops looping, and the clock never stops ticking.  The  *)
(* network owes nothing.                                                   *)
(***************************************************************************)
BootFairSpec == BootSpec /\ WF_vars(BootLoop) /\ WF_vars(Tick)

----------------------------------------------------------------------------

\* Type invariant of the boot state of the monitor.
BootTypeOK ==
  /\ pc \in Places
  /\ state \in BootStates
  /\ try \in 0 .. MON_MAX_TRY + 1
  /\ timer \in {OFF} \union 0 .. MON_MAX_TRY + 2
  /\ block \in 0 .. NBLOCKS
  /\ bytes \in 0 .. NBLOCKS
  /\ retx \in 0 .. MAXRETX
  /\ memloc \in 0 .. NBLOCKS
  /\ memory \in [Blocks -> 0 .. NBLOCKS]
  /\ server \in BOOLEAN
  /\ sessions \in Nat
  /\ port \in 0 .. sessions
  /\ acks \subseteq (0 .. sessions) \X (0 .. NBLOCKS)
  /\ boots \in 0 .. MaxBoots
  /\ stray \in 0 .. MaxStray

(***************************************************************************)
(* mon_tftp_in acknowledges in three places and mon_timer in a fourth, one *)
(* of them ("lost DATA?") a block that has not come in this transfer.      *)
(* Whatever was acknowledged is in memory at its place: a server that goes *)
(* on has lost nothing.                                                    *)
(***************************************************************************)
AckedIsStored == \A a \in acks : a[2] > 0 => memory[a[2]] = a[2]

\* What the abstract load sees of the boot.
Phase == IF pc = "monitor" THEN "idle"
         ELSE IF pc = "jumped" THEN "running" ELSE "loading"

Loaded == SubSeq(memory, 1, memloc)

Load == INSTANCE BootLoad WITH phase <- Phase, loaded <- Loaded

(***************************************************************************)
(* The boot loads a file in order and runs only the whole of it, whatever  *)
(* the network does and wherever the handlers interrupt the loop.          *)
(***************************************************************************)
LoadsTheFile == Load!LoadSpec

\* The timer is off and boot_xinu waits: only a packet can wake it.
Deaf == pc = "loop" /\ state = "TFTP_REQ_SENT" /\ timer = OFF

(***************************************************************************)
(* A boot comes to an end, by jumping or by giving up, or waits without a  *)
(* timer after a block far from the one due.  Retries, resent              *)
(* acknowledgements and races with the loop never keep it going for ever.  *)
(***************************************************************************)
BootEnds == Booting ~> (~Booting \/ Deaf)
==============================================================================
