------------------------------- MODULE XinuSem -------------------------------
(***************************************************************************)
(* Counting semaphores (OS_Projects/Locks/sys: screate.c, wait.c,          *)
(* signal.c, signaln.c, sreset.c, sdelete.c).  A negative count says how   *)
(* many processes wait.                                                    *)
(*                                                                         *)
(* signaln, sreset and sdelete loop over the waiting processes.  A loop is *)
(* a sequence of steps here, one for each turn, that the caller takes with *)
(* interrupts disabled: until it reaches resched at the end, nothing but   *)
(* its next turn is enabled.                                               *)
(***************************************************************************)
EXTENDS XinuProc

CONSTANTS NSEM,         \* slots of the semaphore table
          SemCounts,    \* counts asked of screate and sreset
          SignalCounts, \* counts asked of signaln
          MaxSemCnt     \* bound on semcnt, for model checking

ASSUME SemAssumption == /\ NSEM \in Nat
                        /\ SemCounts \subseteq Nat
                        /\ SignalCounts \subseteq Nat \ {0}
                        /\ MaxSemCnt \in Nat

(***************************************************************************)
(* The slots that are left to processes.  At startup clkinit (clmutex), the*)
(* terminals and the buffer pools take the topmost slots of the table; the *)
(* search, cyclic and downwards, then goes on with the slot below them.    *)
(***************************************************************************)
Sems == 0 .. NSEM - 1

VARIABLES sstate,     \* sstate[s]: SFREE or SUSED
          semcnt,     \* semcnt[s]: the count
          squeue,     \* squeue[s]: the queue of s, from sqhead to sqtail
          nextsem,    \* where screate looks for a free slot
          psem,       \* psem[p]: the semaphore p last waited for
          pwaitret    \* pwaitret[p]: what wait() will return to p

semVars == <<sstate, semcnt, squeue, nextsem, psem, pwaitret>>

SemInit ==
  /\ sstate   = [s \in Sems |-> "SFREE"]
  /\ semcnt   = [s \in Sems |-> 0]
  /\ squeue   = [s \in Sems |-> EmptyQueue]
  /\ nextsem  = IF NSEM = 0 THEN 0 ELSE NSEM - 1
  /\ psem     = [p \in Pids |-> 0]
  /\ pwaitret = [p \in Pids |-> "OK"]

FreeSems == { s \in Sems : sstate[s] = "SFREE" }
NewSem   == FirstFree(nextsem, FreeSems, NSEM)

\* screate(count)
Screate(count) ==
  /\ Calls
  /\ FreeSems # {}
  /\ sstate'  = [sstate EXCEPT ![NewSem] = "SUSED"]
  /\ semcnt'  = [semcnt EXCEPT ![NewSem] = count]
  /\ nextsem' = Below(NewSem, NSEM)
  /\ UNCHANGED <<procVars, squeue, psem, pwaitret>>

\* wait(sem)
Wait(s) ==
  /\ Calls
  /\ sstate[s] = "SUSED"
  /\ semcnt' = [semcnt EXCEPT ![s] = @ - 1]
  /\ IF semcnt'[s] < 0
     THEN /\ psem'     = [psem EXCEPT ![current] = s]
          /\ squeue'   = [squeue EXCEPT ![s] = Enqueue(@, current)]
          /\ pwaitret' = [pwaitret EXCEPT ![current] = "OK"]
          /\ sched'    = Block(sched, "PRWAIT")
     ELSE UNCHANGED <<sched, squeue, psem, pwaitret>>
  /\ UNCHANGED <<numproc, nextproc, pbase, stkfree, cont, sstate, nextsem>>

\* Faulty variant: the waiter is readied where it is, in the queue.
Signal_NotUnlinked(s) ==
  /\ Calls
  /\ sstate[s] = "SUSED"
  /\ semcnt[s] < MaxSemCnt
  /\ semcnt' = [semcnt EXCEPT ![s] = @ + 1]
  /\ sched' = IF semcnt[s] < 0 THEN ReadyResched(sched, FirstPid(squeue[s]))
              ELSE sched
  /\ UNCHANGED <<numproc, nextproc, pbase, stkfree, cont, sstate, squeue,
                 nextsem, psem, pwaitret>>

\* signal(sem)
Signal(s) ==
  /\ Calls
  /\ sstate[s] = "SUSED"
  /\ semcnt[s] < MaxSemCnt
  /\ semcnt' = [semcnt EXCEPT ![s] = @ + 1]
  /\ IF semcnt[s] < 0
     THEN /\ squeue' = [squeue EXCEPT ![s] = ButFirst(@)]
          /\ sched'  = ReadyResched(sched, FirstPid(squeue[s]))
     ELSE UNCHANGED <<sched, squeue>>
  /\ UNCHANGED <<numproc, nextproc, pbase, stkfree, cont, sstate, nextsem,
                 psem, pwaitret>>

(***************************************************************************)
(* signaln(sem, count): one turn of the loop for each of the count, then   *)
(* resched.                                                                *)
(***************************************************************************)
Signaln(s, count) ==
  /\ Calls
  /\ sstate[s] = "SUSED"
  /\ semcnt[s] + count <= MaxSemCnt
  /\ Goto(K2("signaln", s, count))
  /\ UNCHANGED <<sched, numproc, nextproc, pbase, stkfree, semVars>>

SignalnTurn ==
  /\ In("signaln")
  /\ cont[current].n > 0
  /\ LET s == cont[current].arg
     IN  /\ semcnt' = [semcnt EXCEPT ![s] = @ + 1]
         /\ IF semcnt[s] < 0
            THEN /\ squeue' = [squeue EXCEPT ![s] = ButFirst(@)]
                 /\ sched'  = Ready(sched, FirstPid(squeue[s]))
            ELSE UNCHANGED <<sched, squeue>>
         /\ Goto(K2("signaln", s, cont[current].n - 1))
  /\ UNCHANGED <<numproc, nextproc, pbase, stkfree, sstate, nextsem, psem,
                 pwaitret>>

SignalnEnd ==
  /\ In("signaln")
  /\ cont[current].n = 0
  /\ sched' = Resched(sched)
  /\ ToUser
  /\ UNCHANGED <<numproc, nextproc, pbase, stkfree, semVars>>

(***************************************************************************)
(* sreset(sem, count): empty the queue, then set the count.                *)
(***************************************************************************)
Sreset(s, count) ==
  /\ Calls
  /\ sstate[s] = "SUSED"
  /\ Goto(K2("sreset", s, count))
  /\ UNCHANGED <<sched, numproc, nextproc, pbase, stkfree, semVars>>

SresetTurn ==
  /\ In("sreset")
  /\ LET s == cont[current].arg
     IN  /\ squeue[s] # EmptyQueue
         /\ squeue' = [squeue EXCEPT ![s] = ButFirst(@)]
         /\ sched'  = Ready(sched, FirstPid(squeue[s]))
  /\ UNCHANGED <<numproc, nextproc, pbase, stkfree, cont, sstate, semcnt,
                 nextsem, psem, pwaitret>>

SresetEnd ==
  /\ In("sreset")
  /\ LET s == cont[current].arg
     IN  /\ squeue[s] = EmptyQueue
         /\ semcnt' = [semcnt EXCEPT ![s] = cont[current].n]
  /\ sched' = Resched(sched)
  /\ ToUser
  /\ UNCHANGED <<numproc, nextproc, pbase, stkfree, sstate, squeue, nextsem,
                 psem, pwaitret>>

(***************************************************************************)
(* sdelete(sem): free the slot; if anyone waits, ready them all with the   *)
(* return value DELETED and reschedule.  The count is left as it was.      *)
(***************************************************************************)
Sdelete(s) ==
  /\ Calls
  /\ sstate[s] = "SUSED"
  /\ sstate' = [sstate EXCEPT ![s] = "SFREE"]
  /\ IF squeue[s] = EmptyQueue THEN UNCHANGED cont ELSE Goto(K1("sdelete", s))
  /\ UNCHANGED <<sched, numproc, nextproc, pbase, stkfree, semcnt, squeue,
                 nextsem, psem, pwaitret>>

SdeleteTurn ==
  /\ In("sdelete")
  /\ LET s == cont[current].arg
         p == FirstPid(squeue[s])
     IN  /\ squeue[s] # EmptyQueue
         /\ squeue'   = [squeue EXCEPT ![s] = ButFirst(@)]
         /\ pwaitret' = [pwaitret EXCEPT ![p] = "DELETED"]
         /\ sched'    = Ready(sched, p)
  /\ UNCHANGED <<numproc, nextproc, pbase, stkfree, cont, sstate, semcnt,
                 nextsem, psem>>

SdeleteEnd ==
  /\ In("sdelete")
  /\ squeue[cont[current].arg] = EmptyQueue
  /\ sched' = Resched(sched)
  /\ ToUser
  /\ UNCHANGED <<numproc, nextproc, pbase, stkfree, semVars>>

SemNext ==
  \/ \E count \in SemCounts : Screate(count)
  \/ \E s \in Sems : Wait(s) \/ Signal(s) \/ Sdelete(s)
  \/ \E s \in Sems, count \in SignalCounts : Signaln(s, count)
  \/ \E s \in Sems, count \in SemCounts : Sreset(s, count)
  \/ SignalnTurn \/ SignalnEnd
  \/ SresetTurn  \/ SresetEnd
  \/ SdeleteTurn \/ SdeleteEnd

----------------------------------------------------------------------------
(* Invariants.                                                             *)

SemTypeOK ==
  /\ sstate \in [Sems -> {"SFREE", "SUSED"}]
  /\ semcnt \in [Sems -> Int]
  /\ squeue \in [Sems -> Seq(Entries)]
  /\ nextsem \in Nat
  /\ psem \in [Pids -> Nat]
  /\ pwaitret \in [Pids -> {"OK", "DELETED"}]

\* The semaphore a masked loop is in the middle of, if any.
InLoop(op, s) == \E p \in Pids : cont[p].op = op /\ cont[p].arg = s

(***************************************************************************)
(* wait.c and signal.c trust semcnt alone: signal takes a process off the  *)
(* queue exactly when the count says one is there, whatever was killed,    *)
(* reset or deleted in between.  So a semaphore in use with a negative     *)
(* count has that many processes queued, and one with none queued has a    *)
(* count of zero or more; a free slot has nobody queued.  Only sreset and  *)
(* sdelete, in the middle of their loops, may disagree.                    *)
(***************************************************************************)
SemCountIsQueue ==
  \A s \in Sems :
     /\ sstate[s] = "SUSED" /\ ~InLoop("sreset", s) =>
           Len(squeue[s]) = IF semcnt[s] < 0 THEN -semcnt[s] ELSE 0
     /\ sstate[s] = "SFREE" /\ ~InLoop("sdelete", s) => squeue[s] = EmptyQueue

(***************************************************************************)
(* kill.c finds the queue of a waiting process through psem, and sdelete.c *)
(* wakes whoever is linked: a process is PRWAIT exactly when it is linked  *)
(* in the queue of the semaphore psem names, and it is linked there once.  *)
(***************************************************************************)
WaitersQueued ==
  /\ \A s \in Sems : Distinct(squeue[s])
  /\ \A p \in Pids, s \in Sems :
        p \in Members(squeue[s]) <=> sched.pstate[p] = "PRWAIT" /\ psem[p] = s
  /\ \A p \in Pids : sched.pstate[p] = "PRWAIT" => psem[p] \in Sems
==============================================================================
