----------------------------- MODULE XinuKernel -----------------------------
(***************************************************************************)
(* The Xinu kernel: process management, semaphores, messages and clock     *)
(* together, with the two calls that touch all of them, create and kill    *)
(* (OS_Projects/Locks/sys/create.c, kill.c, xdone.c).                      *)
(*                                                                         *)
(* Exactly one process runs.  It is either in its own code, where it may   *)
(* make any system call and the clock may interrupt it, or in the kernel   *)
(* with interrupts disabled, where only the rest of its call is enabled.   *)
(***************************************************************************)
EXTENDS XinuSem, XinuMsg, FiniteSets

CONSTANT MaxUndercount   \* numproc stays above -MaxUndercount, for model checking

ASSUME KernelAssumption == MaxUndercount \in Nat

VARIABLE completed    \* xdone printed "All user processes have completed."

vars == <<procVars, semVars, clkVars, msgVars, completed>>

Init == ProcInit /\ SemInit /\ ClockInit /\ MsgInit /\ completed = FALSE

\* Faulty variant: a new process inherits the message of the slot's last owner.
NewSlot_KeepsMsg(prio) ==
  /\ Create(prio)
  /\ psem'    = [psem EXCEPT ![NewPid] = 0]
  /\ pnxtkin' = [pnxtkin EXCEPT ![NewPid] = BADPID]
  /\ UNCHANGED <<sstate, semcnt, squeue, nextsem, pwaitret, clkVars, pmsg,
                 phasmsg, completed>>

\* create: the fields of the new slot that belong to other components.
NewSlot(prio) ==
  /\ Create(prio)
  /\ psem'    = [psem EXCEPT ![NewPid] = 0]
  /\ phasmsg' = [phasmsg EXCEPT ![NewPid] = FALSE]
  /\ pnxtkin' = [pnxtkin EXCEPT ![NewPid] = BADPID]
  /\ UNCHANGED <<sstate, semcnt, squeue, nextsem, pwaitret, clkVars, pmsg,
                 completed>>

\* Faulty variant: the count is tested before it is taken down.
CountDeath_TestFirst ==
  /\ numproc'   = numproc - 1
  /\ completed' = (completed \/ numproc = 0)

CountDeath ==
  /\ numproc'   = numproc - 1
  /\ completed' = (completed \/ numproc' = 0)

\* send(pptr->pnxtkin, pid), whose result nobody looks at.
NotifyKin(p) ==
  LET kin == pnxtkin[p]
  IN  IF CanSend(kin) THEN Deliver(kin, p)
      ELSE UNCHANGED <<sched, clkVars, pmsg, phasmsg>>

\* Faulty variant: a free slot may be killed again.
Kill_NoCheck(p) ==
  /\ Calls
  /\ numproc > -MaxUndercount
  /\ CountDeath
  /\ Goto(K1("kill", p))
  /\ NotifyKin(p)
  /\ UNCHANGED <<nextproc, pbase, stkfree, semVars, pnxtkin>>

(***************************************************************************)
(* kill(pid), up to the notice to the next of kin.  send may find a        *)
(* waiting receiver of higher priority, which then runs before the rest of *)
(* kill.  The devices a process may hold (pdevs) are closed by drivers     *)
(* that keep no state for it, and are left out.                            *)
(***************************************************************************)
Kill(p) ==
  /\ Calls
  /\ numproc > -MaxUndercount
  /\ sched.pstate[p] # "PRFREE"
  /\ CountDeath
  /\ Goto(K1("kill", p))
  /\ NotifyKin(p)
  /\ UNCHANGED <<nextproc, pbase, stkfree, semVars, pnxtkin>>

\* A dead process never resumes what it was doing.
Bury(p) == cont' = [cont EXCEPT ![p] = User, ![current] = User]

\* Faulty variant: the semaphore keeps counting the dead process.
UnWait_NoCount(p) ==
  /\ squeue' = IF sched.pstate[p] = "PRWAIT"
               THEN [squeue EXCEPT ![psem[p]] = Dequeue(@, p)] ELSE squeue
  /\ UNCHANGED semcnt

\* A process killed while it waits no longer counts as waiting.
UnWait(p) ==
  IF sched.pstate[p] = "PRWAIT"
  THEN /\ semcnt' = [semcnt EXCEPT ![psem[p]] = @ + 1]
       /\ squeue' = [squeue EXCEPT ![psem[p]] = Dequeue(@, p)]
  ELSE UNCHANGED <<semcnt, squeue>>

(***************************************************************************)
(* The rest of kill: free the stack the slot names now, then take the      *)
(* process off whatever list its state now says it is on.                  *)
(***************************************************************************)
KillEnd ==
  /\ In("kill")
  /\ LET p  == cont[current].arg
         st == sched.pstate[p]
     IN  /\ stkfree' = stkfree \cup ({pbase[p]} \cap Stacks)
         /\ UnWait(p)
         /\ IF st \in {"PRSLEEP", "PRTRECV"} THEN Unsleep(p) ELSE UNCHANGED clkVars
         /\ sched' = IF st = "PRCURR" THEN Block(sched, "PRFREE")
                     ELSE [sched EXCEPT !.pstate[p] = "PRFREE",
                             !.rdy = IF st = "PRREADY" THEN Dequeue(@, p) ELSE @]
         /\ Bury(p)
  /\ UNCHANGED <<numproc, nextproc, pbase, sstate, nextsem, psem, pwaitret,
                 msgVars, completed>>

Next ==
  \/ ProcNext /\ UNCHANGED <<semVars, clkVars, msgVars, completed>>
  \/ SemNext /\ UNCHANGED <<clkVars, msgVars, completed>>
  \/ ClockNext /\ UNCHANGED <<semVars, msgVars, completed>>
  \/ MsgNext /\ UNCHANGED <<semVars, completed>>
  \/ \E prio \in Prios : NewSlot(prio)
  \/ \E p \in UserPids : Kill(p)
  \/ KillEnd

Spec == Init /\ [][Next]_vars

(***************************************************************************)
(* Kernel code is straight-line and masked, so what is left of a call runs *)
(* to its end (weak fairness).  The clock's request stays pending while    *)
(* interrupts are disabled and is served as soon as they are not, which is *)
(* again and again: strong fairness.                                       *)
(***************************************************************************)
Masked == /\ ~InUser
          /\ Next

Interrupt == Tick /\ UNCHANGED <<semVars, msgVars, completed>>

Fairness == WF_vars(Masked) /\ SF_vars(Interrupt)

LiveSpec == Spec /\ Fairness

----------------------------------------------------------------------------
TypeOK == /\ ProcTypeOK /\ SemTypeOK /\ ClockTypeOK /\ MsgTypeOK
          /\ completed \in BOOLEAN

(***************************************************************************)
(* resched.c takes the tail of the ready list without asking whether there *)
(* is one, dequeue unlinks whatever it is given, and insert relies on the  *)
(* order: the ready list holds exactly the PRREADY processes, each once,   *)
(* in key order; exactly the current process is PRCURR; and the null       *)
(* process is ready whenever it is not running.                            *)
(***************************************************************************)
ReadyListConsistent ==
  /\ Distinct(sched.rdy)
  /\ Sorted(sched.rdy)
  /\ \A p \in Pids : p \in Members(sched.rdy) <=> sched.pstate[p] = "PRREADY"
  /\ \A p \in Pids : sched.pstate[p] = "PRCURR" <=> p = current
  /\ sched.pstate[NULLPROC] \in {"PRCURR", "PRREADY"}
==============================================================================
