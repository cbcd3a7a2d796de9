------------------------------ MODULE XinuClock ------------------------------
(***************************************************************************)
(* The real-time clock (OS_Projects/Locks/sys: clkint.S, clkinit.c,        *)
(* sleep.c, sleep10.c, sleep100.c, sleep1000.c, unsleep.c, wakeup.c,       *)
(* ssclock.c).  Sleeping processes are linked in a delta list; the         *)
(* interrupt handler looks at two cached words only, slnempty and *sltop,  *)
(* and decrements the key sltop points to.                                 *)
(*                                                                         *)
(* sleep, sleep10 and sleep100 differ from sleep1000 in the unit of their  *)
(* argument; times are in clock ticks here.                                *)
(***************************************************************************)
EXTENDS XinuProc

CONSTANTS SleepTicks,   \* sleeping times, in ticks
          MaxDefer      \* bound on nested stopclk calls, for model checking

ASSUME ClockAssumption == /\ SleepTicks \subseteq Nat \ {0}
                          /\ MaxDefer \in Nat

VARIABLES clockq,     \* the delta list
          slnempty,   \* cached: somebody is on clockq
          sltop,      \* cached: the process whose key comes first
          defclk      \* nested stopclk calls

clkVars == <<clockq, slnempty, sltop, defclk>>

ClockInit ==
  /\ clockq   = EmptyQueue
  /\ slnempty = FALSE
  /\ sltop    = NULLPROC
  /\ defclk   = 0

(***************************************************************************)
(* The lines sleep10, sleep100, sleep1000 and recvtim share.               *)
(***************************************************************************)
EnterClockq(p, ticks) ==
  /\ clockq'   = InsertD(clockq, p, ticks)
  /\ slnempty' = TRUE
  /\ sltop'    = FirstPid(clockq')
  /\ UNCHANGED defclk

\* Faulty variant: the process is not taken off the list.
Unlink_KeyOnly(list, p) ==
  LET i == PosOf(list, p)
  IN  IF i < Len(list)
      THEN [list EXCEPT ![i + 1].key = @ + list[i].key] ELSE list

\* What unsleep does to the delta list: the follower inherits the key.
Unlink(list, p) ==
  LET i == PosOf(list, p)
      l == IF i < Len(list)
           THEN [list EXCEPT ![i + 1].key = @ + list[i].key] ELSE list
  IN  Dequeue(l, p)

\* Faulty variant: the cached head is left as it is.
Unsleep_StaleTop(p) ==
  /\ clockq'   = Unlink(clockq, p)
  /\ slnempty' = (clockq' # EmptyQueue)
  /\ UNCHANGED <<sltop, defclk>>

(***************************************************************************)
(* unsleep(pid), as send and kill call it on a PRSLEEP or PRTRECV process. *)
(***************************************************************************)
Unsleep(p) ==
  /\ clockq'   = Unlink(clockq, p)
  /\ slnempty' = (clockq' # EmptyQueue)
  /\ sltop'    = IF clockq' # EmptyQueue THEN FirstPid(clockq') ELSE sltop
  /\ UNCHANGED defclk

\* sleep1000(n), n > 0
Sleep(n) ==
  /\ Calls
  /\ EnterClockq(current, n)
  /\ sched' = Block(sched, "PRSLEEP")
  /\ UNCHANGED <<numproc, nextproc, pbase, stkfree, cont>>

\* The key sltop points to, one tick shorter.
TickKey == [clockq EXCEPT ![PosOf(clockq, sltop)].key = @ - 1]

(***************************************************************************)
(* clkint: the interrupt takes the processor of whoever is not masked.     *)
(* With nobody asleep, or the head not due, only the quantum is left to    *)
(* do; otherwise wakeup is called, and the quantum follows when the        *)
(* interrupted process returns from it.                                    *)
(***************************************************************************)
Tick ==
  /\ InUser
  /\ IF slnempty THEN clockq' = TickKey ELSE UNCHANGED clockq
  /\ IF slnempty /\ KeyOf(clockq', sltop) <= 0
     THEN Goto(K("wakeup_clkint")) /\ UNCHANGED sched
     ELSE sched' = TickPreempt(sched) /\ UNCHANGED cont
  /\ UNCHANGED <<slnempty, sltop, defclk, numproc, nextproc, pbase, stkfree>>

ClkintEnd ==
  /\ In("clkint")
  /\ sched' = TickPreempt(sched)
  /\ ToUser
  /\ UNCHANGED <<numproc, nextproc, pbase, stkfree, clkVars>>

(***************************************************************************)
(* wakeup(): ready everybody whose key is due, refresh the cached words,   *)
(* and reschedule.  Its callers are clkint and strtclk.                    *)
(***************************************************************************)
Waking == In("wakeup_clkint") \/ In("wakeup_strtclk")

HeadIsDue == clockq # EmptyQueue /\ Head(clockq).key <= 0

WakeupTurn ==
  /\ Waking
  /\ HeadIsDue
  /\ clockq' = ButFirst(clockq)
  /\ sched'  = Ready(sched, FirstPid(clockq))
  /\ UNCHANGED <<numproc, nextproc, pbase, stkfree, cont, slnempty, sltop,
                 defclk>>

\* Faulty variant: the flag is cleared although somebody still sleeps.
WakeupEnd_ClearsFlag ==
  /\ Waking
  /\ ~HeadIsDue
  /\ slnempty' = FALSE
  /\ sltop'    = IF clockq # EmptyQueue THEN FirstPid(clockq) ELSE sltop
  /\ sched'    = Resched(sched)
  /\ Goto(IF In("wakeup_clkint") THEN K("clkint") ELSE K("strtclk"))
  /\ UNCHANGED <<numproc, nextproc, pbase, stkfree, clockq, defclk>>

WakeupEnd ==
  /\ Waking
  /\ ~HeadIsDue
  /\ slnempty' = (clockq # EmptyQueue)
  /\ sltop'    = IF clockq # EmptyQueue THEN FirstPid(clockq) ELSE sltop
  /\ sched'    = Resched(sched)
  /\ Goto(IF In("wakeup_clkint") THEN K("clkint") ELSE K("strtclk"))
  /\ UNCHANGED <<numproc, nextproc, pbase, stkfree, clockq, defclk>>

\* stopclk()
Stopclk ==
  /\ Calls
  /\ defclk < MaxDefer
  /\ defclk' = defclk + 1
  /\ UNCHANGED <<procVars, clockq, slnempty, sltop>>

(***************************************************************************)
(* strtclk(): nothing ever counts a deferred tick (clkint does not look at *)
(* defclk), so clkdiff is 0, no key and no quantum is made up, and the     *)
(* outermost call comes down to a wakeup if somebody is asleep.            *)
(***************************************************************************)
Strtclk ==
  /\ Calls
  /\ defclk > 0
  /\ defclk' = defclk - 1
  /\ IF defclk' > 0 THEN UNCHANGED cont
     ELSE Goto(K(IF slnempty THEN "wakeup_strtclk" ELSE "strtclk"))
  /\ UNCHANGED <<sched, numproc, nextproc, pbase, stkfree, clockq, slnempty,
                 sltop>>

StrtclkEnd ==
  /\ In("strtclk")
  /\ sched' = IF sched.preempt = 0 THEN Resched(sched) ELSE sched
  /\ ToUser
  /\ UNCHANGED <<numproc, nextproc, pbase, stkfree, clkVars>>

ClockNext ==
  \/ \E n \in SleepTicks : Sleep(n)
  \/ Tick \/ ClkintEnd
  \/ WakeupTurn \/ WakeupEnd
  \/ Stopclk \/ Strtclk \/ StrtclkEnd

----------------------------------------------------------------------------
(* Invariants.                                                             *)

ClockTypeOK ==
  /\ clockq \in Seq(Entries)
  /\ slnempty \in BOOLEAN
  /\ sltop \in Pids
  /\ defclk \in Nat

(***************************************************************************)
(* clkint.S trusts slnempty and sltop and never looks at the list: outside *)
(* wakeup, which refreshes them, they say whether somebody sleeps and      *)
(* whose key comes first.                                                  *)
(***************************************************************************)
ClockCacheCoherent ==
  ~Waking => /\ slnempty <=> clockq # EmptyQueue
             /\ slnempty => sltop = FirstPid(clockq)

(***************************************************************************)
(* unsleep.c and wakeup.c dequeue without looking: a process is PRSLEEP or *)
(* PRTRECV exactly when it is on the delta list, and it is there once.     *)
(***************************************************************************)
SleepersQueued ==
  /\ Distinct(clockq)
  /\ \A p \in Pids :
        p \in Members(clockq) <=> sched.pstate[p] \in {"PRSLEEP", "PRTRECV"}
==============================================================================
