------------------------------ MODULE XinuPools ------------------------------
(***************************************************************************)
(* Buffer pools (OS_Projects/Locks/sys: mkpool.c, poolinit.c, mark.c,      *)
(* getbuf.c, freebuf.c).  A pool is a list of free buffers and a semaphore *)
(* that counts them.  getbuf waits for the semaphore with interrupts       *)
(* enabled and takes the buffer later; freebuf puts the buffer back first  *)
(* and signals later.  Between the two, and at every other point where     *)
(* interrupts are enabled, any other process may run, or kill this one.    *)
(***************************************************************************)
EXTENDS XinuQueue, FiniteSets

CONSTANTS Procs,        \* the processes
          NBPOOLS,      \* size of the table of pools
          PoolSizes,    \* numbers of buffers asked of mkpool
          MaxBufs,      \* buffers that getmem has room for
          MaxKills      \* bound on kills, for model checking

ASSUME PoolAssumption == /\ IsFiniteSet(Procs)
                         /\ NBPOOLS \in Nat
                         /\ PoolSizes \subseteq Nat \ {0}
                         /\ MaxBufs \in Nat
                         /\ MaxKills \in Nat

Pools == 0 .. NBPOOLS - 1
Bufs  == 1 .. MaxBufs

VARIABLES marked,     \* bpmark is marked: poolinit has run
          nbpools,    \* pools made
          bptotal,    \* bptotal[i]: buffers of pool i
          bpmaxused,  \* bpmaxused[i]: what getbuf saw in use at most
          bpnext,     \* bpnext[i]: the free buffers, by their links
          bpsem,      \* bpsem[i]: pool i has a semaphore
          semcnt,     \* its count
          squeue,     \* and its queue, as in wait.c and signal.c
          made,       \* buffers that getmem has given
          hdr,        \* hdr[b]: the first word of buffer b
          held,       \* the buffers that callers hold
          pc,         \* pc[p]: where process p is, and its local variables
          stray,      \* stray[i]: kills that left pool i with a buffer uncounted
          kills

poolVars == <<bptotal, bpmaxused, bpnext, bpsem>>
semVars  == <<semcnt, squeue>>
mkVars   == <<marked, nbpools, made>>
vars     == <<poolVars, semVars, mkVars, hdr, held, pc, stray, kills>>

At(label, i, n) == [at |-> label, pool |-> i, n |-> n]
User == At("user", 0, 0)

\* The first word of a free buffer is a link, not the number of a pool.
LINK == -1

PoolInit ==
  /\ marked    = FALSE
  /\ nbpools   = 0
  /\ bptotal   = [i \in Pools |-> 0]
  /\ bpmaxused = [i \in Pools |-> 0]
  /\ bpnext    = [i \in Pools |-> <<>>]
  /\ bpsem     = [i \in Pools |-> FALSE]
  /\ semcnt    = [i \in Pools |-> 0]
  /\ squeue    = [i \in Pools |-> EmptyQueue]
  /\ made      = 0
  /\ hdr       = [b \in Bufs |-> LINK]
  /\ held      = {}
  /\ pc        = [p \in Procs |-> User]
  /\ stray     = [i \in Pools |-> 0]
  /\ kills     = 0

InUser(p) == pc[p] = User
Go(p, l)  == pc' = [pc EXCEPT ![p] = l]

\* scount(bptab[i].bpsem)
Scount(i) == IF bpsem[i] THEN semcnt[i] ELSE -1

----------------------------------------------------------------------------
(* mkpool(bufsiz, n).                                                      *)

Mkpool(p, n) ==
  /\ InUser(p)
  /\ Go(p, At(IF marked THEN "mkpool" ELSE "poolinit", 0, n))
  /\ UNCHANGED <<poolVars, semVars, mkVars, hdr, held, stray, kills>>

\* Faulty variant: the answer of mark() is not looked at.
Poolinit_Again(p) ==
  /\ pc[p].at = "poolinit"
  /\ marked'  = TRUE
  /\ nbpools' = 0
  /\ Go(p, At("mkpool", 0, pc[p].n))
  /\ UNCHANGED <<poolVars, semVars, made, hdr, held, stray, kills>>

(***************************************************************************)
(* poolinit(), with interrupts disabled.  Somebody else may have been here *)
(* since mkpool looked: then mark() does not return OK.  Its mutex is      *)
(* always free, as poolinit is the only one to call it.                    *)
(***************************************************************************)
Poolinit(p) ==
  /\ pc[p].at = "poolinit"
  /\ marked'  = TRUE
  /\ nbpools' = IF marked THEN nbpools ELSE 0
  /\ Go(p, At("mkpool", 0, pc[p].n))
  /\ UNCHANGED <<poolVars, semVars, made, hdr, held, stray, kills>>

\* Faulty variant: the loop that links goes round once too often.
Linked_OneMore(n) ==
  [k \in 1 .. (IF made + n < MaxBufs THEN n + 1 ELSE n) |-> made + k]

\* The buffers of a new pool, linked in the order of their addresses.
Linked(n) == [k \in 1 .. n |-> made + k]

\* Faulty variant: one pool more than the table has room for.
NoRoom_OneMore(n) == nbpools > NBPOOLS \/ made + n > MaxBufs

NoRoom(n) == nbpools >= NBPOOLS \/ made + n > MaxBufs

(***************************************************************************)
(* The rest of mkpool, with interrupts disabled.  screate fails when the   *)
(* others have taken all semaphores; mkpool does not look at its result.   *)
(***************************************************************************)
MkpoolEnd(p) ==
  LET n == pc[p].n
  IN  /\ pc[p].at = "mkpool"
      /\ Go(p, User)
      /\ IF NoRoom(n)
         THEN UNCHANGED <<poolVars, semcnt, nbpools, made>>
         ELSE /\ nbpools'   = nbpools + 1
              /\ bptotal'   = [bptotal EXCEPT ![nbpools] = n]
              /\ bpmaxused' = [bpmaxused EXCEPT ![nbpools] = 0]
              /\ bpnext'    = [bpnext EXCEPT ![nbpools] = Linked(n)]
              /\ \E given \in BOOLEAN : bpsem' = [bpsem EXCEPT ![nbpools] = given]
              /\ semcnt'    = [semcnt EXCEPT ![nbpools] = n]
              /\ made'      = made + n
      /\ UNCHANGED <<squeue, marked, hdr, held, stray, kills>>

----------------------------------------------------------------------------
(* getbuf(i) and nbgetbuf(i).                                              *)

IsPool(i) == marked /\ i >= 0 /\ i < nbpools

\* getbuf, up to and with its wait; without a semaphore wait() returns at once.
Getbuf(p, i) ==
  /\ InUser(p)
  /\ IsPool(i)
  /\ semcnt' = IF bpsem[i] THEN [semcnt EXCEPT ![i] = @ - 1] ELSE semcnt
  /\ IF semcnt'[i] < 0
     THEN /\ squeue' = [squeue EXCEPT ![i] = Enqueue(@, p)]
          /\ Go(p, At("wait", i, 0))
     ELSE /\ Go(p, At("count", i, 0))
          /\ UNCHANGED squeue
  /\ UNCHANGED <<poolVars, mkVars, hdr, held, stray, kills>>

\* inuse = bptotal - scount(bpsem)
GetbufCount(p) ==
  LET i == pc[p].pool
  IN  /\ pc[p].at = "count"
      /\ Go(p, At("compare", i, bptotal[i] - Scount(i)))
      /\ UNCHANGED <<poolVars, semVars, mkVars, hdr, held, stray, kills>>

GetbufCompare(p) ==
  LET i == pc[p].pool
  IN  /\ pc[p].at = "compare"
      /\ Go(p, At(IF pc[p].n > bpmaxused[i] THEN "store" ELSE "take",
                  i, pc[p].n))
      /\ UNCHANGED <<poolVars, semVars, mkVars, hdr, held, stray, kills>>

GetbufStore(p) ==
  /\ pc[p].at = "store"
  /\ bpmaxused' = [bpmaxused EXCEPT ![pc[p].pool] = pc[p].n]
  /\ Go(p, At("take", pc[p].pool, 0))
  /\ UNCHANGED <<bptotal, bpnext, bpsem, semVars, mkVars, hdr, held, stray,
                 kills>>

(***************************************************************************)
(* The first buffer is unlinked.  Without a semaphore there may be none:   *)
(* getbuf would then follow a null pointer, which is not modelled.         *)
(***************************************************************************)
Unlinks(p, i) ==
  /\ bpnext[i] # <<>>
  /\ bpnext' = [bpnext EXCEPT ![i] = Tail(@)]
  /\ Go(p, At("label", i, Head(bpnext[i])))

GetbufTake(p) ==
  /\ pc[p].at = "take"
  /\ Unlinks(p, pc[p].pool)
  /\ UNCHANGED <<bptotal, bpmaxused, bpsem, semVars, mkVars, hdr, held,
                 stray, kills>>

\* The buffer remembers its pool, and is the caller's.
GetbufLabel(p) ==
  /\ pc[p].at = "label"
  /\ hdr'  = [hdr EXCEPT ![pc[p].n] = pc[p].pool]
  /\ held' = held \cup {pc[p].n}
  /\ Go(p, User)
  /\ UNCHANGED <<poolVars, semVars, mkVars, stray, kills>>

\* nbgetbuf, with interrupts disabled up to the label; if the semaphore
\* gives none it returns 0 and changes nothing.
Nbgetbuf(p, i) ==
  LET inuse == bptotal[i] - (Scount(i) - 1)
  IN  /\ InUser(p)
      /\ IsPool(i)
      /\ Scount(i) > 0
      /\ semcnt'    = [semcnt EXCEPT ![i] = @ - 1]
      /\ bpmaxused' = [bpmaxused EXCEPT ![i] = IF inuse > @ THEN inuse ELSE @]
      /\ Unlinks(p, i)
      /\ UNCHANGED <<bptotal, bpsem, squeue, mkVars, hdr, held, stray, kills>>

----------------------------------------------------------------------------
(* freebuf(b).  Callers pass buffers on, so that anybody may free one that *)
(* is held; nobody frees a buffer twice.                                   *)

Freebuf(p, b) ==
  LET i == hdr[b]
  IN  /\ InUser(p)
      /\ b \in held
      /\ IsPool(i)
      /\ bpnext' = [bpnext EXCEPT ![i] = <<b>> \o @]
      /\ hdr'    = [hdr EXCEPT ![b] = LINK]
      /\ held'   = held \ {b}
      /\ Go(p, At("signal", i, 0))
      /\ UNCHANGED <<bptotal, bpmaxused, bpsem, semVars, mkVars, stray, kills>>

FreebufSignal(p) ==
  LET i == pc[p].pool
  IN  /\ pc[p].at = "signal"
      /\ semcnt' = IF bpsem[i] THEN [semcnt EXCEPT ![i] = @ + 1] ELSE semcnt
      /\ IF bpsem[i] /\ semcnt[i] < 0
         THEN /\ squeue' = [squeue EXCEPT ![i] = ButFirst(@)]
              /\ pc' = [pc EXCEPT ![p] = User,
                                  ![FirstPid(squeue[i])] = At("count", i, 0)]
         ELSE /\ Go(p, User)
              /\ UNCHANGED squeue
      /\ UNCHANGED <<poolVars, mkVars, hdr, held, stray, kills>>

----------------------------------------------------------------------------
(***************************************************************************)
(* kill(p), and create of a new process in its place.  If p was waiting it *)
(* is taken off the queue and no longer counted.  A process that had its   *)
(* permission already, or had not signalled yet, leaves a buffer in the    *)
(* list that the semaphore does not count; one that had its buffer, leaves *)
(* it to nobody.                                                           *)
(***************************************************************************)
\* The processes that have a buffer of pool i coming to them.
Taking(i) == { p \in Procs : /\ pc[p].at \in {"count", "compare", "store", "take"}
                             /\ pc[p].pool = i }

\* The processes that have put one back and not signalled yet.
Signalling(i) == { p \in Procs : pc[p].at = "signal" /\ pc[p].pool = i }

\* Faulty variant: the semaphore keeps counting the dead process.
UnWait_NoCount(p) ==
  /\ squeue' = IF pc[p].at = "wait"
               THEN [squeue EXCEPT ![pc[p].pool] = Dequeue(@, p)] ELSE squeue
  /\ UNCHANGED semcnt

UnWait(p) ==
  IF pc[p].at = "wait"
  THEN /\ semcnt' = [semcnt EXCEPT ![pc[p].pool] = @ + 1]
       /\ squeue' = [squeue EXCEPT ![pc[p].pool] = Dequeue(@, p)]
  ELSE UNCHANGED semVars

Kill(p) ==
  LET i == pc[p].pool
  IN  /\ ~InUser(p)
      /\ kills < MaxKills
      /\ kills' = kills + 1
      /\ UnWait(p)
      /\ stray' = IF p \in Taking(i) \cup Signalling(i)
                  THEN [stray EXCEPT ![i] = @ + 1] ELSE stray
      /\ Go(p, User)
      /\ UNCHANGED <<poolVars, mkVars, hdr, held>>

PoolNext ==
  \E p \in Procs :
     \/ \E n \in PoolSizes : Mkpool(p, n)
     \/ Poolinit(p)
     \/ MkpoolEnd(p)
     \/ \E i \in Pools : Getbuf(p, i)
     \/ GetbufCount(p)
     \/ GetbufCompare(p)
     \/ GetbufStore(p)
     \/ GetbufTake(p)
     \/ GetbufLabel(p)
     \/ \E i \in Pools : Nbgetbuf(p, i)
     \/ \E b \in Bufs : Freebuf(p, b)
     \/ FreebufSignal(p)
     \/ Kill(p)

PoolSpec == PoolInit /\ [][PoolNext]_vars

----------------------------------------------------------------------------
Labels == {"user", "poolinit", "mkpool", "wait", "count", "compare", "store",
           "take", "label", "signal"}

PoolTypeOK ==
  /\ marked \in BOOLEAN
  /\ nbpools \in 0 .. NBPOOLS
  /\ bptotal \in [Pools -> Nat]
  /\ bpmaxused \in [Pools -> Int]
  /\ bpnext \in [Pools -> Seq(Bufs)]
  /\ bpsem \in [Pools -> BOOLEAN]
  /\ semcnt \in [Pools -> Int]
  /\ squeue \in [Pools -> Seq([pid : Procs, key : Int])]
  /\ made \in 0 .. MaxBufs
  /\ hdr \in [Bufs -> Pools \cup {LINK}]
  /\ held \subseteq Bufs
  /\ pc \in [Procs -> [at : Labels, pool : Pools \cup {0}, n : Int]]
  /\ stray \in [Pools -> Nat]
  /\ kills \in Nat

(***************************************************************************)
(* bufpool.h:23, "semaphore that counts buffers": getbuf takes a buffer    *)
(* without asking whether there is one.  The list of a pool is exactly as  *)
(* long as the semaphore says, with one buffer more for each process that  *)
(* has been let through by wait and has not taken it yet, for each that    *)
(* has put one back and not signalled, and for each killed at that point.  *)
(***************************************************************************)
BuffersCounted ==
  \A i \in Pools :
     i < nbpools /\ bpsem[i] =>
        /\ Len(bpnext[i]) = (IF semcnt[i] > 0 THEN semcnt[i] ELSE 0)
                              + Cardinality(Taking(i))
                              + Cardinality(Signalling(i)) + stray[i]
        /\ Len(squeue[i]) = IF semcnt[i] < 0 THEN -semcnt[i] ELSE 0

\* The buffers that getbuf has unlinked and not returned yet.
InHand == { pc[p].n : p \in { q \in Procs : pc[q].at = "label" } }

ListOf(i) == { bpnext[i][k] : k \in 1 .. Len(bpnext[i]) }

(***************************************************************************)
(* A buffer is in one place: once in the list of one pool, or on its way   *)
(* to one process, or held; and one that is held says by its first word    *)
(* which pool it belongs to, so that freebuf puts it back there.           *)
(***************************************************************************)
BufferInOnePlace ==
  /\ \A i, j \in Pools : \A k \in 1 .. Len(bpnext[i]), l \in 1 .. Len(bpnext[j]) :
        bpnext[i][k] = bpnext[j][l] => i = j /\ k = l
  /\ \A i \in Pools : ListOf(i) \cap (held \cup InHand) = {}
  /\ held \cap InHand = {}
  /\ \A p, q \in Procs :
        pc[p].at = "label" /\ pc[q].at = "label" /\ pc[p].n = pc[q].n => p = q
  /\ \A b \in held : hdr[b] \in Pools /\ hdr[b] < nbpools

(***************************************************************************)
(* poolinit.c:26, the "self initializing mark": two processes may both see *)
(* that the pools are not initialised; no pool made by one of them is lost *)
(* by the initialisation of the other.                                     *)
(***************************************************************************)
PoolsSurvive == [][nbpools' >= nbpools]_vars
==============================================================================
