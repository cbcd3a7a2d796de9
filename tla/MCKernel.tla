------------------------------- MODULE MCKernel -------------------------------
(***************************************************************************)
(* The kernel as it is model-checked: the refinement of XinuTimers and the *)
(* properties of whole runs.                                               *)
(***************************************************************************)
EXTENDS XinuKernel

(***************************************************************************)
(* Timers.  A process on the delta list has the time of its own entry and  *)
(* of all entries before it.                                               *)
(***************************************************************************)
TimeLeft(p) ==
  IF p \in Members(clockq) THEN Before(clockq)[PosOf(clockq, p)] ELSE 0

\* What XinuTimers calls a process state.
TimerMode(st) == CASE st = "PRSLEEP" -> "asleep"
                   [] st = "PRTRECV" -> "timing"
                   [] st = "PRFREE"  -> "dead"
                   [] OTHER          -> "awake"

TimerModes == [p \in UserPids |-> TimerMode(sched.pstate[p])]
TimesLeft  == [p \in UserPids |-> TimeLeft(p)]
TimerHas   == [p \in UserPids |-> phasmsg[p]]

Timers == INSTANCE XinuTimers WITH
  Procs <- UserPids,
  Times <- SleepTicks \cup RecvTicks,
  mode  <- TimerModes,
  left  <- TimesLeft,
  has   <- TimerHas

(***************************************************************************)
(* insertd, unsleep and clkint keep one shared list of differences; a slip *)
(* in any of them makes somebody wake early, late or never.  The kernel    *)
(* implements the countdowns of XinuTimers.                                *)
(***************************************************************************)
TimersExact == Timers!TimerSpec

----------------------------------------------------------------------------
(* Death.                                                                  *)

Live == { p \in UserPids : sched.pstate[p] # "PRFREE" }

Killing == \E p \in Pids : cont[p].op = "kill"

(***************************************************************************)
(* kill.c decrements numproc before it notifies the next of kin, and the   *)
(* notice may run somebody else before the process is dead.  Whatever that *)
(* one does, numproc is never above the number of live processes, so that  *)
(* the last death is always reported.                                      *)
(***************************************************************************)
LastDeathReported ==
  /\ numproc <= Cardinality(Live)
  /\ Live = {} => completed

(***************************************************************************)
(* kill.c frees the stack that the slot names after the notice.  As long   *)
(* as nobody runs in between, the stacks of live processes are their own   *)
(* and none of them is on the free list, whatever create and kill did      *)
(* before.                                                                 *)
(***************************************************************************)
StacksOwned ==
  \A p \in Live :
     /\ pbase[p] \in Stacks
     /\ pbase[p] \in stkfree => \E q \in Pids : cont[q] = K1("kill", p)
     /\ \A r \in Live \ {p} : pbase[r] # pbase[p]

\* numproc counts the live processes, but for the one being killed.
NumprocExact == ~Killing => numproc = Cardinality(Live)

----------------------------------------------------------------------------
(* Liveness, under LiveSpec.                                               *)

(***************************************************************************)
(* clkint.S wakes a sleeper through two cached words that five calls       *)
(* maintain; if they ever lose it, it sleeps for ever.                     *)
(***************************************************************************)
SleepersWake ==
  \A p \in UserPids :
     sched.pstate[p] = "PRSLEEP" ~> sched.pstate[p] # "PRSLEEP"

(***************************************************************************)
(* insert.c puts a process before its equals and resched.c switches to an  *)
(* equal: among processes of one priority nobody waits for ever, although  *)
(* others are created, resumed and woken all the time.                     *)
(***************************************************************************)
EqualsTakeTurns ==
  \A p \in UserPids :
     sched.pstate[p] = "PRREADY" ~> sched.pstate[p] # "PRREADY"
==============================================================================
