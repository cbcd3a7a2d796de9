---------------------------- MODULE XinuClasses ----------------------------
(***************************************************************************)
(* The scheduling classes of the kernel in OS_Projects/Scheduling:         *)
(* resched.c, ready.c, insert.c, setschedclass.c, the counters of create.c *)
(* and initialize.c, and the preemption of clkint.S.  Every process gets   *)
(* an allowance of ticks at the start of an epoch; a new epoch begins when *)
(* no ready process has any left.                                          *)
(*                                                                         *)
(* The second ready list, rdy2head, is inserted into only by               *)
(* round_robin_sched, and only when it is not empty.  So it stays empty,   *)
(* choosing_queue always ends in linux_sched, and real-time processes are  *)
(* kept in the one list there is.                                          *)
(***************************************************************************)
EXTENDS XinuQueue

CONSTANTS NPROC,      \* processes besides the null process, which is 0
          Prio,       \* pprio of every process
          RealTime,   \* the processes made by createReal
          Blockers,   \* the processes that suspend themselves
          QUANTUM     \* of the class of the original Xinu

Procs == 0 .. NPROC

ASSUME ClassAssumption == /\ NPROC \in Nat \ {0}
                          /\ Prio \in [Procs -> Nat]
                          /\ Prio[0] = 0 /\ \A p \in 1 .. NPROC : Prio[p] > 0
                          /\ RealTime \subseteq 1 .. NPROC
                          /\ Blockers \subseteq 1 .. NPROC
                          /\ QUANTUM \in Nat \ {0}

VARIABLES class,    \* scheduling, of setschedclass.c
          s         \* what resched works on, see ClassInit

vars == <<class, s>>

XINUSCHED   == 0      \* what the variable is before it is set
LINUXSCHED  == 1
MULTIQSCHED == 2

\* main runs, the null process is ready, the others have been created.
ClassInit ==
  /\ class = XINUSCHED
  /\ s = [curr    |-> 1,
          preempt |-> QUANTUM,
          pstate  |-> [p \in Procs |-> IF p = 0 THEN "READY"
                                       ELSE IF p = 1 THEN "CURR" ELSE "SUSP"],
          counter |-> [p \in Procs |-> 0],
          rdy     |-> <<Entry(0, 0)>>]

----------------------------------------------------------------------------
(* The ready list, from rdyhead to rdytail.                                *)

\* Process p is ready, and put into the list with key k; or at its tail.
Enlist(t, p, k) == [t EXCEPT !.pstate[p] = "READY", !.rdy = Insert(@, p, k)]

EnlistRR(t, p, k) ==
  [t EXCEPT !.pstate[p] = "READY", !.rdy = Append(@, Entry(p, k))]

\* The process to run next, taken from the list, with so many ticks.
Dispatch(t, p, ticks) ==
  [t EXCEPT !.rdy = Dequeue(@, p), !.curr = p, !.pstate[p] = "CURR",
            !.preempt = ticks]

----------------------------------------------------------------------------
(* resched                                                                 *)

\* Faulty variant: all that is left is kept.
Kept_Whole(n) == n

Kept(n) == n \div 2

Allowance(t) == [p \in Procs |-> Prio[p] + Kept(t.counter[p])]

Lists == Seq([pid : Procs, key : Nat])

\* The list after the walk through the process table, in which every ready
\* process is inserted: walk[p][l] goes on with list l from process p.
Relisted(t, list) ==
  LET c == Allowance(t)
      walk[p \in 0 .. NPROC + 1] ==
        [l \in Lists |->
           IF p > NPROC THEN l
           ELSE walk[p + 1][IF t.pstate[p] = "READY"
                            THEN Insert(l, p, Prio[p] + c[p]) ELSE l]]
  IN  walk[0][list]

\* Faulty variant: the old list is not forgotten.
NewLinuxEpoch_Grows(t) ==
  [t EXCEPT !.counter = Allowance(t), !.rdy = Relisted(t, @)]

NewLinuxEpoch(t) ==
  [t EXCEPT !.counter = Allowance(t),
            !.rdy = Relisted(t, EmptyQueue)]

\* The process that gives way; its key is made with what it had before.
\* Faulty variant: what it has left is not written back.
PutBack_Uncharged(t) ==
  LET p == t.curr
  IN  IF t.pstate[p] # "CURR" THEN t
      ELSE IF t.preempt <= 0 THEN [Enlist(t, p, Prio[p]) EXCEPT !.counter[p] = 0]
      ELSE Enlist(t, p, Prio[p] + t.counter[p])

PutBack(t) ==
  LET p == t.curr
  IN  IF t.pstate[p] # "CURR" THEN t
      ELSE IF t.preempt <= 0 THEN [Enlist(t, p, Prio[p]) EXCEPT !.counter[p] = 0]
      ELSE [Enlist(t, p, Prio[p] + t.counter[p]) EXCEPT !.counter[p] = t.preempt]

\* The places in the list of those that have something left.
Able(t) == {i \in DOMAIN t.rdy : t.counter[t.rdy[i].pid] >= 1}

\* newlinuxepoch and the last process in the new list.
StartEpoch(t) ==
  LET v == NewLinuxEpoch(t)
      p == LastPid(v.rdy)
  IN  Dispatch(v, p, v.counter[p])

\* Faulty variant: only the process at the end of the list is looked at.
LinuxSched_LastOnly(t) ==
  LET u == PutBack(t)
      p == LastPid(u.rdy)
  IN  IF u.counter[p] >= 1 THEN Dispatch(u, p, u.counter[p]) ELSE StartEpoch(u)

\* The walk for one that has something left ends at the head, of which the
\* key is not above 0, if there is none.
LinuxSched(t) ==
  LET u == PutBack(t)
      e == u.rdy[CHOOSE i \in Able(u) : \A j \in Able(u) : j <= i]
  IN  IF Able(u) # {} /\ e.key > 0
      THEN Dispatch(u, e.pid, u.counter[e.pid])
      ELSE StartEpoch(u)

XinuSched(t) ==
  LET p == t.curr
      v == IF t.pstate[p] = "CURR" THEN Enlist(t, p, Prio[p]) ELSE t
  IN  IF t.pstate[p] = "CURR" /\ LastKey(t.rdy) < Prio[p]
      THEN t
      ELSE Dispatch(v, LastPid(v.rdy), QUANTUM)

\* round_robin_sched: rdy2head is empty, so choosing_queue is called, which
\* comes to linux_sched whichever queue it draws.
RoundRobinSched(t) == LinuxSched(t)

\* The null process has no type: it is scheduled as in the original.
Resched(t) ==
  IF class = LINUXSCHED THEN LinuxSched(t)
  ELSE IF class = MULTIQSCHED /\ t.curr # 0
       THEN IF t.curr \in RealTime THEN RoundRobinSched(t) ELSE LinuxSched(t)
       ELSE XinuSched(t)

\* ready
Ready(t, p) ==
  IF p \in RealTime THEN EnlistRR(t, p, Prio[p])
                    ELSE Enlist(t, p, Prio[p] + t.counter[p])

----------------------------------------------------------------------------

\* main chooses a class, at any time.
SetSchedClass(c) ==
  /\ class = XINUSCHED /\ s.curr # 0
  /\ class' = c
  /\ UNCHANGED s

\* clkint.  Preempt is not reset when a process goes on: -1 is all below 0.
Tick ==
  /\ LET left == s.preempt - 1
         t    == [s EXCEPT !.preempt = IF left < 0 THEN -1 ELSE left]
     IN  s' = IF left > 0 THEN t ELSE Resched(t)
  /\ UNCHANGED class

\* Somebody, or a handler, makes p ready: resume, signal, wakeup.
MakeReady(p) ==
  /\ s.pstate[p] = "SUSP"
  /\ s' = Resched(Ready(s, p))
  /\ UNCHANGED class

\* The current process suspends a ready one.
Suspend(p) ==
  /\ s.curr # 0 /\ p # 0 /\ s.pstate[p] = "READY"
  /\ s' = [s EXCEPT !.rdy = Dequeue(@, p), !.pstate[p] = "SUSP"]
  /\ UNCHANGED class

\* It suspends itself, or waits; what it has left is not written back.
Block(p) ==
  /\ p \in Blockers /\ s.curr = p
  /\ s' = Resched([s EXCEPT !.pstate[p] = "SUSP"])
  /\ UNCHANGED class

ClassNext == \/ \E c \in {LINUXSCHED, MULTIQSCHED} : SetSchedClass(c)
             \/ Tick
             \/ \E p \in Procs : MakeReady(p) \/ Suspend(p) \/ Block(p)

ClassSpec == ClassInit /\ [][ClassNext]_vars

\* The clock goes on ticking.
ClassFairSpec == ClassSpec /\ WF_vars(Tick)

----------------------------------------------------------------------------

\* Ticks that process p may still have in this epoch.
Left(t, p) == IF p = t.curr THEN (IF t.preempt > 0 THEN t.preempt ELSE 0)
              ELSE t.counter[p]

(***************************************************************************)
(* Type invariant.  An allowance, of which half of what was left is a      *)
(* part, stays below twice the priority however many epochs go by.         *)
(***************************************************************************)
ClassTypeOK ==
  /\ class \in {XINUSCHED, LINUXSCHED, MULTIQSCHED}
  /\ s.curr \in Procs
  /\ s.preempt \in Int
  /\ s.pstate \in [Procs -> {"CURR", "READY", "SUSP"}]
  /\ s.counter \in [Procs -> Nat]
  /\ \A p \in Procs : s.counter[p] <= 2 * Prio[p] + QUANTUM
  /\ s.rdy \in Lists

(***************************************************************************)
(* newlinuxepoch forgets the ready list and links every entry anew, while  *)
(* the process that gives way has just been put into it.  No process gets  *)
(* lost or stands in it twice, and one process runs.                       *)
(***************************************************************************)
ListIsReady ==
  /\ Members(s.rdy) = {p \in Procs : s.pstate[p] = "READY"}
  /\ Distinct(s.rdy)
  /\ \A p \in Procs : (s.pstate[p] = "CURR") <=> p = s.curr

(***************************************************************************)
(* Nobody gets new ticks while a ready process has some left of this       *)
(* epoch, however often processes are suspended, resumed and preempted in  *)
(* it.  (One that blocks takes with it what it had at its last dispatch.)  *)
(***************************************************************************)
Spent == /\ \A p \in Procs : s.pstate[p] = "READY" => s.counter[p] = 0
         /\ s.curr \notin Blockers => s.preempt <= 1

EpochWhenSpent ==
  [][class = LINUXSCHED =>
       \/ \A p \in Procs : Left(s', p) <= Left(s, p) \/ s'.pstate[p] = "SUSP"
       \/ Spent]_vars

(***************************************************************************)
(* "No risk of starvation" (Lab1Answers.txt:18 and 29), under both of the  *)
(* new classes: a ready process is run in the end, unless processes go on  *)
(* blocking.  One that blocks is not charged for the ticks it used, so one *)
(* that wakes up again and again before they are used up keeps the epoch   *)
(* from ending, and a third process, however much it has left, from        *)
(* running: without the last line TLC finds this.                          *)
(***************************************************************************)
NoStarvation ==
  \A p \in 1 .. NPROC :
    (class # XINUSCHED /\ s.pstate[p] = "READY")
      ~> (s.pstate[p] # "READY" \/ \E b \in Blockers : s.pstate[b] = "SUSP")
=============================================================================
