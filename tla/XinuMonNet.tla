----------------------------- MODULE XinuMonNet -----------------------------
(***************************************************************************)
(* The network layer under the boot monitor (OS_Projects/Locks/mon:        *)
(* monnet.c, monarp.c, mongpq.c, ethwrite.c, ethwstrt.c, ethintr.c,        *)
(* ethdemux.c, and the command "b" of monitor.c), with the Intel card: a   *)
(* pool of buffers, an ARP table that holds packets until their            *)
(* destination answers, and a queue in front of the memory of the card.    *)
(*                                                                         *)
(* The handlers run with interrupts disabled, so that each is one step,    *)
(* except where it waits for a buffer.  The requests of boot_xinu can be   *)
(* interrupted wherever interrupts are enabled.                            *)
(***************************************************************************)
EXTENDS Integers, Sequences, FiniteSets

CONSTANTS NBUFS,      \* buffers of mon_bufpool: 16
          QMAX,       \* places in the output queue: 16
          TSIZE,      \* MON_ARP_TSIZE: 3
          RING,       \* frames that fit into the memory of the card
          Hosts,      \* addresses on the network
          ClassD,     \* those among them that are multicast addresses
          None,       \* no buffer
          MaxBoots    \* bound on the commands "b", for model checking

ASSUME MonAssumption == /\ NBUFS \in Nat \ {0} /\ QMAX \in Nat /\ NBUFS <= QMAX
                        /\ TSIZE \in Nat \ {0} /\ RING \in Nat \ {0}
                        /\ ClassD \subseteq Hosts
                        /\ MaxBoots \in Nat

Bufs    == 1 .. NBUFS
Entries == 1 .. TSIZE

ASSUME NoneAssumption == None \notin Bufs

VARIABLES net,      \* the pool, the queue, the card and the ARP table
          pc,       \* where boot_xinu is in sending a request
          buf,      \* the buffer that it holds
          late,     \* an acknowledgement that waits for a buffer
          server,   \* mon_tftp_server
          boots

vars == <<net, pc, buf, late, server, boots>>

\* One entry of mon_arptable; what a free one holds is never looked at.
Blank == [state |-> "free", pra |-> None, pep |-> None]

NotLate == [at |-> "no", rx |-> None]

MonInit ==
  /\ net    = [free |-> [i \in Bufs |-> i], outq |-> <<>>, ring |-> 0,
               arp  |-> [i \in Entries |-> Blank]]
  /\ pc     = "monitor"
  /\ buf    = None
  /\ late   = NotLate
  /\ server = None
  /\ boots  = 0

----------------------------------------------------------------------------
(* The operations that run with interrupts disabled, on a state s of net.  *)

Least(S) == CHOOSE i \in S : \A j \in S : i <= j

\* Faulty variant: no test for an entry that holds no packet.
Freebuf_Unchecked(s, b) == [s EXCEPT !.free = <<b>> \o @]

Freebuf(s, b) == IF b = None THEN s ELSE [s EXCEPT !.free = <<b>> \o @]

Popped(s) == [s EXCEPT !.free = Tail(@)]

Enq(s, b) == [s EXCEPT !.outq = Append(@, b)]

\* mon_ethwstrt: what fits is copied to the card, and its buffers are freed.
Wstrt(s) ==
  LET room == RING - s.ring
      n    == IF Len(s.outq) <= room THEN Len(s.outq) ELSE room
  IN  [s EXCEPT !.outq = SubSeq(@, n + 1, Len(@)), !.ring = @ + n,
                !.free = [i \in 1 .. n |-> s.outq[n + 1 - i]] \o @]

\* mon_ethwrite, called where it cannot be interrupted.
Ethwrite(s, b) == Wstrt(IF Len(s.outq) >= QMAX THEN Freebuf(s, b) ELSE Enq(s, b))

\* mon_arpfind
Found(s, h) == {i \in Entries : s.arp[i].state # "free" /\ s.arp[i].pra = h}

Resolved(s, h) == \E i \in Found(s, h) : s.arp[i].state = "resolved"

\* mon_arpalloc: a free entry, or the first one, whatever it holds.
Slot(s) == LET free == {i \in Entries : s.arp[i].state = "free"}
           IN  IF free = {} THEN 1 ELSE Least(free)

(***************************************************************************)
(* mon_netwrite for an address that has not answered: the packet takes the *)
(* place of the one that its entry holds, or a new entry.                  *)
(***************************************************************************)
\* Faulty variant: the packet that was held is not freed.
Hold_Forgets(s, b, h) ==
  LET i == IF Found(s, h) # {} THEN Least(Found(s, h)) ELSE Slot(s)
  IN  [s EXCEPT !.arp[i] = [state |-> "pending", pra |-> h, pep |-> b]]

Hold(s, b, h) ==
  LET known == Found(s, h) # {}
      i     == IF known THEN Least(Found(s, h)) ELSE Slot(s)
  IN  [Freebuf(s, IF known THEN s.arp[i].pep ELSE None)
         EXCEPT !.arp[i] = [state |-> "pending", pra |-> h, pep |-> b]]

\* mon_netwrite gives up on a multicast address, and forgets the packet.
Refused(s, h) == Found(s, h) = {} /\ h \in ClassD

\* mon_arpsend broadcasts the question, in a buffer of its own.
Arpsend(s) == Ethwrite(Popped(s), Head(s.free))

----------------------------------------------------------------------------
(* boot_xinu: requests for BOOTP and TFTP.                                 *)

Booting == pc # "monitor"

\* The command "b": a new queue, an empty card and an empty ARP table.
CmdB ==
  /\ pc = "monitor"
  /\ boots < MaxBoots
  /\ boots' = boots + 1
  /\ server' \in Hosts
  /\ net' = [net EXCEPT !.outq = <<>>, !.ring = 0,
                        !.arp = [i \in Entries |-> Blank]]
  /\ pc' = "loop"
  /\ UNCHANGED <<buf, late>>

GiveUp ==
  /\ pc = "loop" /\ late = NotLate
  /\ pc' = "monitor"
  /\ UNCHANGED <<net, buf, late, server, boots>>

\* mon_bootp_request broadcasts; mon_tftp_req has an address to look up.
Request ==
  /\ pc = "loop" /\ late = NotLate
  /\ net.free # <<>>
  /\ buf' = Head(net.free)
  /\ net' = Popped(net)
  /\ pc' \in {"enq", "netwrite"}
  /\ UNCHANGED <<late, server, boots>>

NetwriteResolved ==
  /\ pc = "netwrite" /\ Resolved(net, server)
  /\ pc' = "enq"
  /\ UNCHANGED <<net, buf, late, server, boots>>

NetwriteRefused ==
  /\ pc = "netwrite" /\ Refused(net, server)
  /\ pc'  = "loop"
  /\ buf' = None
  /\ UNCHANGED <<net, late, server, boots>>

\* The question needs a buffer; boot_xinu may have to wait for it.
NetwriteHeld ==
  /\ pc = "netwrite" /\ ~Resolved(net, server) /\ ~Refused(net, server)
  /\ LET s == Hold(net, buf, server)
     IN  IF s.free = <<>> THEN net' = s /\ pc' = "arpsend"
                          ELSE net' = Arpsend(s) /\ pc' = "loop"
  /\ buf' = None
  /\ UNCHANGED <<late, server, boots>>

ArpsendLater ==
  /\ pc = "arpsend" /\ net.free # <<>>
  /\ net' = Arpsend(net)
  /\ pc'  = "loop"
  /\ UNCHANGED <<buf, late, server, boots>>

\* mon_enq looks at the queue before it disables interrupts.
EnqCheck ==
  /\ pc = "enq"
  /\ IF Len(net.outq) >= QMAX
     THEN net' = Freebuf(net, buf) /\ buf' = None /\ pc' = "start"
     ELSE pc' = "store" /\ UNCHANGED <<net, buf>>
  /\ UNCHANGED <<late, server, boots>>

EnqStore ==
  /\ pc = "store"
  /\ net' = Enq(net, buf)
  /\ buf' = None
  /\ pc'  = "start"
  /\ UNCHANGED <<late, server, boots>>

Start ==
  /\ pc = "start"
  /\ net' = Wstrt(net)
  /\ pc'  = "loop"
  /\ UNCHANGED <<buf, late, server, boots>>

Main == \/ Request \/ NetwriteResolved \/ NetwriteRefused \/ NetwriteHeld
        \/ ArpsendLater \/ EnqCheck \/ EnqStore \/ Start

----------------------------------------------------------------------------
(* The handlers.                                                           *)

\* Faulty variant: the output is not started again.
TxDone_Stops ==
  /\ Booting /\ net.ring > 0
  /\ net' = [net EXCEPT !.ring = @ - 1]
  /\ UNCHANGED <<pc, buf, late, server, boots>>

\* eep_xintr, for a frame that has been sent.
TxDone ==
  /\ Booting /\ net.ring > 0
  /\ net' = Wstrt([net EXCEPT !.ring = @ - 1])
  /\ UNCHANGED <<pc, buf, late, server, boots>>

\* Faulty variant: a packet that has been sent stays in its entry.
Answered_Keeps(s, i) ==
  Ethwrite([s EXCEPT !.arp[i].state = "resolved"], s.arp[i].pep)

\* The packet that entry i holds is sent.
Answered(s, i) ==
  IF s.arp[i].pep = None THEN [s EXCEPT !.arp[i].state = "resolved"]
  ELSE Ethwrite([s EXCEPT !.arp[i].state = "resolved", !.arp[i].pep = None],
                s.arp[i].pep)

(***************************************************************************)
(* mon_arp_in, for a packet to this machine.  One to another changes a     *)
(* hardware address at most.  A question is answered in its own buffer.    *)
(***************************************************************************)
Learned(s, h) ==
  IF Found(s, h) = {}
  THEN [s EXCEPT !.arp[Slot(s)] = [state |-> "resolved", pra |-> h, pep |-> None]]
  ELSE LET i == Least(Found(s, h))
       IN  IF s.arp[i].state = "pending" THEN Answered(s, i) ELSE s

ArpIn(h, question) ==
  /\ Booting
  /\ net.free # <<>>
  /\ LET rx == Head(net.free)
         s  == Learned(Popped(net), h)
     IN  net' = IF question THEN Ethwrite(s, rx) ELSE Freebuf(s, rx)
  /\ UNCHANGED <<pc, buf, late, server, boots>>

(***************************************************************************)
(* mon_tftp_ack, called for a packet in buffer rx or by mon_timer, when no *)
(* request is being made.  Where there is no buffer left getbuf waits, in  *)
(* the middle of the handler and of boot_xinu, which it has interrupted.   *)
(***************************************************************************)
\* The question is asked, or waits; then the packet that came is freed.
Ask(s, rx) ==
  IF s.free = <<>> THEN net' = s /\ late' = [at |-> "arpsend", rx |-> rx]
                   ELSE net' = Freebuf(Arpsend(s), rx) /\ late' = NotLate

Ack(s, rx) ==
  IF s.free = <<>> THEN net' = s /\ late' = [at |-> "ack", rx |-> rx]
  ELSE LET b == Head(s.free)
           t == Popped(s)
       IN  \/ /\ Resolved(t, server)
              /\ net' = Freebuf(Ethwrite(t, b), rx) /\ late' = NotLate
           \/ /\ Refused(t, server)
              /\ net' = Freebuf(t, rx) /\ late' = NotLate
           \/ /\ ~Resolved(t, server) /\ ~Refused(t, server)
              /\ Ask(Hold(t, b, server), rx)

AckIn ==
  /\ pc = "loop" /\ late = NotLate /\ net.free # <<>>
  /\ Ack(Popped(net), Head(net.free))
  /\ UNCHANGED <<pc, buf, server, boots>>

AckTimer ==
  /\ pc = "loop" /\ late = NotLate
  /\ Ack(net, None)
  /\ UNCHANGED <<pc, buf, server, boots>>

AckLater ==
  /\ late # NotLate /\ net.free # <<>>
  /\ \/ late.at = "ack"     /\ Ack(net, late.rx)
     \/ late.at = "arpsend" /\ Ask(net, late.rx)
  /\ UNCHANGED <<pc, buf, server, boots>>

Handlers == \/ TxDone \/ AckIn \/ AckTimer \/ AckLater
            \/ \E h \in Hosts, question \in BOOLEAN : ArpIn(h, question)

MonNext == CmdB \/ GiveUp \/ Main \/ Handlers

MonSpec == MonInit /\ [][MonNext]_vars

\* A frame in the memory of the card is sent, and boot_xinu goes on.
MonFairSpec == MonSpec /\ WF_vars(TxDone) /\ WF_vars(Main)

----------------------------------------------------------------------------

HeldIn(s) == {i \in Entries : s.arp[i].state # "free" /\ s.arp[i].pep # None}

Buffers == Bufs \union {None}

\* Type invariant; the queue has room for all the buffers there are.
MonTypeOK ==
  /\ net.free \in Seq(Bufs)
  /\ net.outq \in Seq(Bufs) /\ Len(net.outq) <= QMAX
  /\ net.ring \in 0 .. RING
  /\ net.arp \in [Entries -> [state : {"free", "pending", "resolved"},
                              pra : Hosts \union {None}, pep : Buffers]]
  /\ pc \in {"monitor", "loop", "netwrite", "arpsend", "enq", "store", "start"}
  /\ buf \in Buffers
  /\ late \in [at : {"no", "ack", "arpsend"}, rx : Buffers]
  /\ server \in Hosts \union {None}
  /\ boots \in 0 .. MaxBoots

Elements(q) == {q[k] : k \in 1 .. Len(q)}

\* The buffers that somebody will still send or free.
Kept(s, b, l) == Elements(s.free) \union Elements(s.outq)
                 \union {s.arp[i].pep : i \in HeldIn(s)} \union ({b, l.rx} \ {None})

One(b) == IF b = None THEN 0 ELSE 1

(***************************************************************************)
(* Buffers pass from the pool to callers, the ARP table, the queue and     *)
(* back, on paths that a handler may cross at any step of a request.  None *)
(* is ever in two places: freed while it is held or queued, freed twice,   *)
(* or sent twice.  That is also what keeps the queue, whose check is made  *)
(* with interrupts enabled, within its bounds.                             *)
(***************************************************************************)
InOnePlace ==
  Cardinality(Kept(net, buf, late)) =
    Len(net.free) + Len(net.outq) + Cardinality(HeldIn(net)) + One(buf)
    + One(late.rx)

(***************************************************************************)
(* mon_arpalloc takes the first entry of a full table, and "b" empties the *)
(* table and the queue: the packets in them are lost to the pool, as one   *)
(* to a multicast address is.  Nothing else ever loses a buffer.           *)
(***************************************************************************)
Overwritten == /\ \A i \in Entries : net.arp[i].state # "free"
               /\ 1 \in HeldIn(net) /\ net'.arp[1].pra # net.arp[1].pra

OnlyTheTableLoses ==
  [][\/ Kept(net, buf, late) \subseteq Kept(net', buf', late')
     \/ boots' # boots \/ Refused(net, server) \/ Overwritten]_vars

(***************************************************************************)
(* A queued packet leaves the queue as long as the card sends: every path  *)
(* that enqueues also starts the output, and only an interrupt restarts    *)
(* it.  When the boot is given up the queue stays as it is.                *)
(***************************************************************************)
InQueue(b) == b \in Elements(net.outq)

QueueDrains == \A b \in Bufs : InQueue(b) ~> (~InQueue(b) \/ ~Booting)
=============================================================================
