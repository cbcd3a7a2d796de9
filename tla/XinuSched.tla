------------------------------ MODULE XinuSched ------------------------------
(***************************************************************************)
(* The dispatcher of the Xinu kernel (OS_Projects/Locks/sys: ready.c,      *)
(* resched.c, the slot search of create.c), as functions of the dispatcher *)
(* state: the processes' states and priorities, the ready list, the        *)
(* current process and its quantum.  System calls run with interrupts      *)
(* disabled, so a call applies several of these to one state and then      *)
(* stores the result.                                                      *)
(***************************************************************************)
EXTENDS XinuQueue

CONSTANTS NPROC,      \* slots of the process table, slot 0 included
          QUANTUM     \* clock ticks a process runs before it is preempted

ASSUME SchedAssumption == /\ NPROC \in Nat /\ NPROC >= 2
                          /\ QUANTUM \in Nat \ {0}

NULLPROC == 0
Pids     == 0 .. NPROC - 1
UserPids == 1 .. NPROC - 1          \* ~isbadpid(pid)

PrStates == {"PRCURR", "PRFREE", "PRREADY", "PRRECV", "PRSLEEP", "PRSUSP",
             "PRWAIT", "PRTRECV"}

Entries == [pid : Pids, key : Int]

Scheds == [pstate  : [Pids -> PrStates],
           pprio   : [Pids -> Nat],
           rdy     : Seq(Entries),
           currpid : Pids,
           preempt : Nat]

\* The state of a process that is not (or no longer) on the ready list.
SetState(s, p, st) == [s EXCEPT !.pstate[p] = st]

\* Faulty variant: the process is queued with no regard to its priority.
Ready_Unordered(s, p) ==
  IF p \in UserPids
  THEN [s EXCEPT !.pstate[p] = "PRREADY", !.rdy = Append(@, Entry(p, s.pprio[p]))]
  ELSE s

(***************************************************************************)
(* ready(pid, RESCHNO): make a process eligible.  A bad pid, the null      *)
(* process included, changes nothing.                                      *)
(***************************************************************************)
Ready(s, p) ==
  IF p \in UserPids
  THEN [s EXCEPT !.pstate[p] = "PRREADY",
                 !.rdy       = Insert(@, p, s.pprio[p])]
  ELSE s

\* A current process that is still PRCURR is put back before the choice.
Requeue(s) ==
  IF s.pstate[s.currpid] = "PRCURR"
  THEN [s EXCEPT !.pstate[s.currpid] = "PRREADY",
                 !.rdy = Insert(@, s.currpid, s.pprio[s.currpid])]
  ELSE s

\* getlast(rdytail) becomes the current process, with a full quantum.
Dispatch(s) ==
  [s EXCEPT !.currpid = LastPid(s.rdy),
            !.rdy     = ButLast(@),
            !.pstate[LastPid(s.rdy)] = "PRCURR",
            !.preempt = QUANTUM]

(***************************************************************************)
(* resched(): keep the current process if it is still PRCURR and strictly  *)
(* above every key of the ready list; otherwise switch.  The caller has    *)
(* already stored the next state of a process that is giving up the CPU.   *)
(***************************************************************************)
Resched(s) ==
  IF /\ s.pstate[s.currpid] = "PRCURR"
     /\ LastKey(s.rdy) < s.pprio[s.currpid]
  THEN s
  ELSE Dispatch(Requeue(s))

\* ready(pid, RESCHYES)
ReadyResched(s, p) == IF p \in UserPids THEN Resched(Ready(s, p)) ELSE s

\* The current process gives up the CPU, in state st.
Block(s, st) == Resched(SetState(s, s.currpid, st))

(***************************************************************************)
(* The clock's share of resched: clkint takes one tick off preempt and     *)
(* calls resched once nothing is left.  resched restores the quantum only  *)
(* when it switches, so the counter may go on below zero: what is tested   *)
(* is only whether it is positive, and it is kept at 0 here.               *)
(***************************************************************************)
TickPreempt(s) ==
  LET left == IF s.preempt > 1 THEN s.preempt - 1 ELSE 0
      s1   == [s EXCEPT !.preempt = left]
  IN  IF left = 0 THEN Resched(s1) ELSE s1

(***************************************************************************)
(* The search of newpid and newsem: a table of n slots is searched         *)
(* downwards and around from a remembered slot.                            *)
(***************************************************************************)
ScanFrom(next, i, n) == (next - i) % n

FirstFree(next, free, n) ==
  LET i == CHOOSE k \in 0 .. n - 1 :
              /\ ScanFrom(next, k, n) \in free
              /\ \A j \in 0 .. k - 1 : ScanFrom(next, j, n) \notin free
  IN  ScanFrom(next, i, n)

\* Faulty variant: the search position is not wrapped around.
Below_NoWrap(slot, n) == slot - 1

Below(slot, n) == (slot - 1) % n
==============================================================================
