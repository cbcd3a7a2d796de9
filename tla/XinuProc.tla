------------------------------- MODULE XinuProc -------------------------------
(***************************************************************************)
(* Process management (OS_Projects/Locks/sys: initialize.c, create.c,      *)
(* resume.c, suspend.c, chprio.c, sleep.c for sleep(0)), and the           *)
(* continuation a process leaves behind when the processor is taken away   *)
(* in the middle of a kernel call.                                         *)
(***************************************************************************)
EXTENDS XinuSched

CONSTANTS STACKS,     \* how many stacks fit in memory (getstk)
          Prios,      \* priorities asked of create
          NewPrios    \* priorities asked of chprio

ASSUME ProcAssumption == /\ STACKS \in Nat \ {0}
                         /\ Prios \subseteq Nat
                         /\ NewPrios \subseteq Nat \ {0}

VARIABLES sched,      \* dispatcher state: see XinuSched
          numproc,    \* number of live user processes
          nextproc,   \* where create looks for a free slot
          pbase,      \* pbase[p]: the stack recorded in slot p
          stkfree,    \* the stacks on the free memory list
          cont        \* cont[p]: what p does when it has the CPU back

procVars == <<sched, numproc, nextproc, pbase, stkfree, cont>>

(***************************************************************************)
(* Kernel code runs masked: clkint disables interrupts, and every call     *)
(* runs between disable and restore.  When it calls resched, another       *)
(* process may run; the code after resched runs when the old process is    *)
(* current again, masked still.  cont[p] is that code: "user" for none.    *)
(***************************************************************************)
KernelOps == {"user", "receive", "recvtim", "kill", "signaln", "sreset",
              "sdelete", "wakeup_clkint", "wakeup_strtclk", "clkint",
              "strtclk"}

Conts == [op : KernelOps, arg : Nat, n : Nat]

K(op)          == [op |-> op, arg |-> 0, n |-> 0]
K1(op, x)      == [op |-> op, arg |-> x, n |-> 0]
K2(op, x, cnt) == [op |-> op, arg |-> x, n |-> cnt]

User == K("user")

current == sched.currpid

\* The current process is in its own code, with interrupts enabled.
InUser == cont[current] = User

\* The null process only loops: it makes no system call after startup.
Calls == InUser /\ current # NULLPROC

\* The code a process resumes when it is dispatched again.
In(op) == cont[current].op = op

Goto(k)  == cont' = [cont EXCEPT ![current] = k]
ToUser   == Goto(User)

Stacks == 1 .. STACKS

FreeSlots(s) == { p \in Pids : s.pstate[p] = "PRFREE" }

(***************************************************************************)
(* sysinit and nulluser, up to resume(create(main)): main is the current   *)
(* process, in the highest slot with the highest stack, and the null       *)
(* process is ready with priority 0.                                       *)
(***************************************************************************)
MainPid == NPROC - 1

CONSTANT INITPRIO     \* priority of main

ASSUME InitPrioAssumption == INITPRIO \in Nat \ {0}

ProcInit ==
  /\ sched = [pstate  |-> [p \in Pids |-> IF p = NULLPROC THEN "PRREADY"
                                          ELSE IF p = MainPid THEN "PRCURR"
                                          ELSE "PRFREE"],
              pprio   |-> [p \in Pids |-> IF p = MainPid THEN INITPRIO ELSE 0],
              rdy     |-> << Entry(NULLPROC, 0) >>,
              currpid |-> MainPid,
              preempt |-> QUANTUM]
  /\ numproc  = 1
  /\ nextproc = Below(MainPid, NPROC)
  /\ pbase    = [p \in Pids |-> IF p = MainPid THEN STACKS ELSE 0]
  /\ stkfree  = Stacks \ {STACKS}
  /\ cont     = [p \in Pids |-> User]

(***************************************************************************)
(* create(.., prio, ..).  The operands of the failure test are evaluated   *)
(* in order: the stack is taken from memory first (getstk takes the        *)
(* highest block), then a slot, and only then is the priority looked at.   *)
(* A call that fails late keeps the stack, and newpid's search moves on.   *)
(* The other components' part of the new slot is NewSlot in XinuKernel.    *)
(***************************************************************************)
TopStack == CHOOSE b \in stkfree : \A c \in stkfree : c <= b

CreateFails(prio) == FreeSlots(sched) = {} \/ prio < 1

\* Faulty variant: the process is counted before the checks.
CreateFailing_Counts(prio) ==
  /\ Calls
  /\ stkfree # {}
  /\ CreateFails(prio)
  /\ stkfree' = stkfree \ {TopStack}
  /\ numproc' = numproc + 1
  /\ UNCHANGED <<sched, nextproc, pbase, cont>>

CreateFailing(prio) ==
  /\ Calls
  /\ stkfree # {}
  /\ CreateFails(prio)
  /\ stkfree' = stkfree \ {TopStack}
  /\ nextproc' = IF FreeSlots(sched) = {} THEN nextproc
                 ELSE Below(FirstFree(nextproc, FreeSlots(sched), NPROC), NPROC)
  /\ UNCHANGED <<sched, numproc, pbase, cont>>

NewPid == FirstFree(nextproc, FreeSlots(sched), NPROC)

Create(prio) ==
  /\ Calls
  /\ stkfree # {}
  /\ ~CreateFails(prio)
  /\ sched'    = [sched EXCEPT !.pstate[NewPid] = "PRSUSP",
                               !.pprio[NewPid]  = prio]
  /\ numproc'  = numproc + 1
  /\ nextproc' = Below(NewPid, NPROC)
  /\ pbase'    = [pbase EXCEPT ![NewPid] = TopStack]
  /\ stkfree'  = stkfree \ {TopStack}
  /\ cont'     = [cont EXCEPT ![NewPid] = User]

\* Faulty variant: any process that is not ready or current is resumed.
Resume_AnyState(p) ==
  /\ Calls
  /\ p \in UserPids
  /\ sched.pstate[p] \notin {"PRFREE", "PRREADY", "PRCURR"}
  /\ sched' = ReadyResched(sched, p)
  /\ UNCHANGED <<numproc, nextproc, pbase, stkfree, cont>>

\* resume(pid)
Resume(p) ==
  /\ Calls
  /\ p \in UserPids
  /\ sched.pstate[p] = "PRSUSP"
  /\ sched' = ReadyResched(sched, p)
  /\ UNCHANGED <<numproc, nextproc, pbase, stkfree, cont>>

\* suspend(pid) of a ready process: unlink it.
SuspendReady(p) ==
  /\ Calls
  /\ p \in UserPids
  /\ sched.pstate[p] = "PRREADY"
  /\ sched' = [sched EXCEPT !.pstate[p] = "PRSUSP", !.rdy = Dequeue(@, p)]
  /\ UNCHANGED <<numproc, nextproc, pbase, stkfree, cont>>

\* suspend(getpid())
SuspendSelf ==
  /\ Calls
  /\ sched' = Block(sched, "PRSUSP")
  /\ UNCHANGED <<numproc, nextproc, pbase, stkfree, cont>>

\* chprio(pid, newprio) stores the priority and does nothing else.
Chprio(p, prio) ==
  /\ Calls
  /\ p \in UserPids
  /\ sched.pstate[p] # "PRFREE"
  /\ sched' = [sched EXCEPT !.pprio[p] = prio]
  /\ UNCHANGED <<numproc, nextproc, pbase, stkfree, cont>>

\* sleep(0), sleep10(0) and sleep1000(0): offer the processor.
Yield ==
  /\ Calls
  /\ sched' = Resched(sched)
  /\ UNCHANGED <<numproc, nextproc, pbase, stkfree, cont>>

ProcNext ==
  \/ \E prio \in Prios : CreateFailing(prio)
  \/ \E p \in UserPids : Resume(p) \/ SuspendReady(p)
  \/ \E p \in UserPids, prio \in NewPrios : Chprio(p, prio)
  \/ SuspendSelf
  \/ Yield

----------------------------------------------------------------------------
ProcTypeOK ==
  /\ sched \in Scheds
  /\ numproc \in Int
  /\ nextproc \in Pids
  /\ pbase \in [Pids -> Nat]
  /\ stkfree \subseteq Stacks
  /\ cont \in [Pids -> Conts]
==============================================================================
