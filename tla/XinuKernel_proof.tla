-------------------------- MODULE XinuKernel_proof --------------------------
(***************************************************************************)
(* The safety invariants of the kernel, for any number of processes, any   *)
(* semaphores, priorities, messages and times.                             *)
(*                                                                         *)
(* No component's invariant is inductive alone.  resched needs a ready     *)
(* list that agrees with the states; what ready() puts on it must not be   *)
(* there already, which is so because a process taken off a semaphore or   *)
(* off the clock was PRWAIT or asleep; signal takes one off only because   *)
(* the count says so; and all of it rests on who can be where in a call.   *)
(*                                                                         *)
(* On that invariant rest the properties of whole runs in MCKernel: the    *)
(* last death is reported, the kernel implements the countdowns of         *)
(* XinuTimers, and where no notice of a death runs anybody else, numproc   *)
(* is exact and every live process has a stack of its own.                 *)
(***************************************************************************)
EXTENDS MCKernel, XinuQueue_proof, FiniteSetTheorems

----------------------------------------------------------------------------
(***************************************************************************)
(* The dispatcher of XinuSched: each of its functions keeps the ready list *)
(* and the process states in agreement, and touches no process but those   *)
(* it is about.                                                            *)
(***************************************************************************)

Eligible == {"PRCURR", "PRREADY"}

(***************************************************************************)
(* The ready list agrees with the states.  In the middle of a call the     *)
(* current process may already have its next state.                        *)
(***************************************************************************)
SchedInv(s) ==
  /\ s \in Scheds
  /\ Distinct(s.rdy)
  /\ Sorted(s.rdy)
  /\ \A p \in Pids : p \in Members(s.rdy) <=> s.pstate[p] = "PRREADY"
  /\ \A p \in Pids : s.pstate[p] = "PRCURR" => p = s.currpid
  /\ s.pstate[NULLPROC] \in Eligible

Running(s) == SchedInv(s) /\ s.pstate[s.currpid] = "PRCURR"

\* Nobody is current: the state between the two halves of resched.
Vacant(s) == SchedInv(s) /\ \A p \in Pids : s.pstate[p] # "PRCURR"

(***************************************************************************)
(* Outside X nobody starts or stops waiting; the eligible may take turns.  *)
(***************************************************************************)
Same(s, t, X) ==
  \A p \in Pids \ X :
     \/ s.pstate[p] \in Eligible /\ t.pstate[p] \in Eligible
     \/ t.pstate[p] = s.pstate[p]

LEMMA EntriesRecords == Entries = Records(Pids)
  BY DEF Entries, Records

LEMMA PidFacts ==
  /\ NPROC \in Nat /\ NPROC >= 2 /\ QUANTUM \in Nat
  /\ Pids \subseteq Nat /\ UserPids \subseteq Pids
  /\ NULLPROC \in Pids /\ NULLPROC \notin UserPids
  /\ \A p \in Pids : p # NULLPROC => p \in UserPids
  BY SchedAssumption DEF Pids, UserPids, NULLPROC

LEMMA SchedFields ==
  ASSUME NEW s \in Scheds
  PROVE  /\ s.pstate \in [Pids -> PrStates] /\ s.pprio \in [Pids -> Nat]
         /\ s.rdy \in Seq(Records(Pids)) /\ s.currpid \in Pids
         /\ s.preempt \in Nat
  BY EntriesRecords DEF Scheds

LEMMA SameTransitive ==
  ASSUME NEW s, NEW t, NEW u, NEW X, NEW Y, Same(s, t, X), Same(t, u, Y)
  PROVE  Same(s, u, X \cup Y)
  BY DEF Same

(***************************************************************************)
(* The queueing half of ready and resched: process p, in nobody's way, is  *)
(* given the state PRREADY and its place in the list.                      *)
(***************************************************************************)
Queued(s, p) == [s EXCEPT !.pstate[p] = "PRREADY", !.rdy = Insert(@, p, s.pprio[p])]

LEMMA QueuedFields ==
  ASSUME NEW s \in Scheds, NEW p \in Pids, Distinct(s.rdy),
         p \notin Members(s.rdy)
  PROVE  LET t == Queued(s, p)
         IN  /\ t \in Scheds
             /\ t.pstate = [s.pstate EXCEPT ![p] = "PRREADY"]
             /\ t.rdy = Insert(s.rdy, p, s.pprio[p])
             /\ t.currpid = s.currpid /\ t.pprio = s.pprio
             /\ t.preempt = s.preempt
<1> DEFINE r == Insert(s.rdy, p, s.pprio[p])
           t == [s EXCEPT !.pstate[p] = "PRREADY", !.rdy = r]
<1>1. s.pprio[p] \in Int
  BY SchedFields
<1>2. r \in Seq(Entries)
  BY <1>1, SchedFields, InsertProps, EntriesRecords
<1>3. Queued(s, p) = t
  BY DEF Queued
<1> HIDE DEF r
<1>4. t \in Scheds
  BY <1>2 DEF Scheds, PrStates
<1>5. t.pstate = [s.pstate EXCEPT ![p] = "PRREADY"] /\ t.rdy = r
  BY DEF Scheds
<1>6. t.currpid = s.currpid /\ t.pprio = s.pprio /\ t.preempt = s.preempt
  BY DEF Scheds
<1> HIDE DEF t
<1>7. QED BY <1>3, <1>4, <1>5, <1>6 DEF r

LEMMA QueuedProps ==
  ASSUME NEW s \in Scheds, NEW p \in Pids, Distinct(s.rdy), Sorted(s.rdy),
         p \notin Members(s.rdy),
         \A q \in Pids : q # p =>
             (q \in Members(s.rdy) <=> s.pstate[q] = "PRREADY"),
         \A q \in Pids : q # p /\ s.pstate[q] = "PRCURR" => q = s.currpid,
         p = NULLPROC \/ s.pstate[NULLPROC] \in Eligible
  PROVE  /\ SchedInv(Queued(s, p))
         /\ Queued(s, p).pstate = [s.pstate EXCEPT ![p] = "PRREADY"]
         /\ Queued(s, p).currpid = s.currpid
<1> DEFINE t == Queued(s, p)
<1>1. /\ t \in Scheds
      /\ t.pstate = [s.pstate EXCEPT ![p] = "PRREADY"]
      /\ t.rdy = Insert(s.rdy, p, s.pprio[p])
      /\ t.currpid = s.currpid
  BY QueuedFields
<1> HIDE DEF t
<1>2. s.pprio[p] \in Int /\ s.rdy \in Seq(Records(Pids))
  BY SchedFields
<1>3. /\ Distinct(t.rdy) /\ Sorted(t.rdy)
      /\ Members(t.rdy) = Members(s.rdy) \cup {p}
  BY <1>1, <1>2, InsertProps
<1>4. \A q \in Pids : t.pstate[q] = IF q = p THEN "PRREADY" ELSE s.pstate[q]
  BY <1>1, SchedFields
<1>5. SchedInv(t)
  <2>1. \A q \in Pids : q \in Members(t.rdy) <=> t.pstate[q] = "PRREADY"
    BY <1>3, <1>4
  <2>2. \A q \in Pids : t.pstate[q] = "PRCURR" => q = t.currpid
    BY <1>1, <1>4
  <2>3. t.pstate[NULLPROC] \in Eligible
    BY <1>4, PidFacts DEF Eligible
  <2>4. QED BY <1>1, <1>3, <2>1, <2>2, <2>3 DEF SchedInv
<1>6. QED BY <1>1, <1>5 DEF t

----------------------------------------------------------------------------
(* ready.                                                                  *)

LEMMA ReadyProps ==
  ASSUME NEW s, SchedInv(s), NEW p \in UserPids, s.pstate[p] \notin Eligible
  PROVE  /\ SchedInv(Ready(s, p))
         /\ Ready(s, p).pstate = [s.pstate EXCEPT ![p] = "PRREADY"]
         /\ Ready(s, p).currpid = s.currpid
         /\ Running(s) => Running(Ready(s, p))
<1>1. Ready(s, p) = Queued(s, p)
  BY DEF Ready, Queued
<1>2. s \in Scheds /\ p \in Pids /\ p \notin Members(s.rdy)
  BY PidFacts DEF SchedInv, Eligible
<1>3. /\ SchedInv(Queued(s, p))
      /\ Queued(s, p).pstate = [s.pstate EXCEPT ![p] = "PRREADY"]
      /\ Queued(s, p).currpid = s.currpid
  BY <1>2, QueuedProps DEF SchedInv
<1>4. Running(s) => Running(Ready(s, p))
  BY <1>1, <1>2, <1>3, SchedFields DEF Running, Eligible
<1>5. QED BY <1>1, <1>3, <1>4

----------------------------------------------------------------------------
(* resched.                                                                *)

LEMMA RequeueProps ==
  ASSUME NEW s, SchedInv(s)
  PROVE  Vacant(Requeue(s)) /\ Same(s, Requeue(s), {})
<1> DEFINE c == s.currpid
<1>1. s \in Scheds /\ c \in Pids
  BY SchedFields DEF SchedInv
<1>2. CASE s.pstate[c] = "PRCURR"
  <2>1. Requeue(s) = Queued(s, c)
    BY <1>2 DEF Requeue, Queued
  <2>2. c \notin Members(s.rdy)
    BY <1>1, <1>2 DEF SchedInv
  <2>3. /\ SchedInv(Queued(s, c))
        /\ Queued(s, c).pstate = [s.pstate EXCEPT ![c] = "PRREADY"]
    BY <1>1, <2>2, QueuedProps DEF SchedInv
  <2>4. \A q \in Pids : Queued(s, c).pstate[q] =
                          IF q = c THEN "PRREADY" ELSE s.pstate[q]
    BY <1>1, <2>3, SchedFields
  <2>5. Vacant(Queued(s, c))
    BY <2>3, <2>4 DEF Vacant, SchedInv
  <2>6. Same(s, Queued(s, c), {})
    BY <1>2, <2>4 DEF Same, Eligible
  <2>7. QED BY <2>1, <2>5, <2>6
<1>3. CASE s.pstate[c] # "PRCURR"
  <2>1. Requeue(s) = s
    BY <1>3 DEF Requeue
  <2>2. Vacant(s)
    BY <1>3 DEF Vacant, SchedInv
  <2>3. QED BY <2>1, <2>2 DEF Same
<1>4. QED BY <1>2, <1>3

LEMMA DispatchProps ==
  ASSUME NEW s, Vacant(s)
  PROVE  Running(Dispatch(s)) /\ Same(s, Dispatch(s), {})
<1> DEFINE p == LastPid(s.rdy)
           f == [s.pstate EXCEPT ![p] = "PRCURR"]
           r == ButLast(s.rdy)
           t == Dispatch(s)
<1>1. s \in Scheds /\ s.rdy \in Seq(Records(Pids)) /\ Distinct(s.rdy)
  BY SchedFields DEF Vacant, SchedInv
<1>2. s.rdy # EmptyQueue
  <2>1. NULLPROC \in Members(s.rdy)
    BY PidFacts DEF Vacant, SchedInv, Eligible
  <2>2. QED BY <2>1, EmptyQueueProps
<1>3. /\ p \in Members(s.rdy) /\ r \in Seq(Records(Pids)) /\ Distinct(r)
      /\ Members(r) = Members(s.rdy) \ {p}
      /\ Sorted(s.rdy) => Sorted(r)
  BY <1>1, <1>2, ButLastProps
<1>4. p \in Pids
  BY <1>1, <1>3, ListFacts
<1>5. QUANTUM \in Nat /\ r \in Seq(Entries)
  BY <1>3, PidFacts, EntriesRecords
<1>6. t \in Scheds
  BY <1>1, <1>4, <1>5 DEF Dispatch, Scheds, PrStates
<1>7. t \in Scheds /\ t.pstate = f /\ t.rdy = r /\ t.currpid = p
  <2>1. t.pstate = f
    BY <1>1 DEF Dispatch, Scheds
  <2>2. t.rdy = r /\ t.currpid = p
    BY <1>1 DEF Dispatch, Scheds
  <2>3. QED BY <1>6, <2>1, <2>2
<1> HIDE DEF p, f, r
<1> HIDE DEF t
<1>8. \A q \in Pids : t.pstate[q] = IF q = p THEN "PRCURR" ELSE s.pstate[q]
  BY <1>1, <1>7, SchedFields DEF f
<1>9. SchedInv(t)
  <2>1. \A q \in Pids : q \in Members(t.rdy) <=> t.pstate[q] = "PRREADY"
    BY <1>3, <1>7, <1>8 DEF Vacant, SchedInv
  <2>2. \A q \in Pids : t.pstate[q] = "PRCURR" => q = t.currpid
    BY <1>7, <1>8 DEF Vacant, SchedInv
  <2>3. t.pstate[NULLPROC] \in Eligible
    BY <1>8, PidFacts DEF Vacant, SchedInv, Eligible
  <2>4. Sorted(t.rdy) /\ Distinct(t.rdy)
    BY <1>3, <1>7 DEF Vacant, SchedInv
  <2>5. QED BY <1>7, <2>1, <2>2, <2>3, <2>4 DEF SchedInv
<1>10. t.pstate[t.currpid] = "PRCURR"
  BY <1>4, <1>7, <1>8
<1>11. s.pstate[p] = "PRREADY"
  BY <1>3, <1>4 DEF Vacant, SchedInv
<1>12. Same(s, t, {})
  BY <1>8, <1>11 DEF Same, Eligible
<1>13. QED BY <1>9, <1>10, <1>12 DEF Running, t

LEMMA ReschedProps ==
  ASSUME NEW s, SchedInv(s)
  PROVE  Running(Resched(s)) /\ Same(s, Resched(s), {})
<1>1. CASE Resched(s) = s /\ s.pstate[s.currpid] = "PRCURR"
  BY <1>1 DEF Running, Same
<1>2. CASE Resched(s) = Dispatch(Requeue(s))
  <2>1. Vacant(Requeue(s)) /\ Same(s, Requeue(s), {})
    BY RequeueProps
  <2>2. /\ Running(Dispatch(Requeue(s)))
        /\ Same(Requeue(s), Dispatch(Requeue(s)), {})
    BY <2>1, DispatchProps
  <2>3. Same(s, Dispatch(Requeue(s)), {} \cup {})
    BY <2>1, <2>2, SameTransitive
  <2>4. QED BY <1>2, <2>2, <2>3
<1>3. QED BY <1>1, <1>2 DEF Resched

LEMMA ReadyReschedProps ==
  ASSUME NEW s, Running(s), NEW p \in UserPids, s.pstate[p] \notin Eligible
  PROVE  /\ Running(ReadyResched(s, p))
         /\ ReadyResched(s, p).pstate[p] \in Eligible
         /\ Same(s, ReadyResched(s, p), {p})
<1> DEFINE t == Ready(s, p)
           u == Resched(t)
<1>1. ReadyResched(s, p) = u
  BY DEF ReadyResched
<1>2. p \in Pids /\ s \in Scheds
  BY PidFacts DEF Running, SchedInv
<1>3. SchedInv(t) /\ t.pstate = [s.pstate EXCEPT ![p] = "PRREADY"]
  BY ReadyProps DEF Running
<1> HIDE DEF t
<1>4. Running(u) /\ Same(t, u, {})
  BY <1>3, ReschedProps
<1> HIDE DEF u
<1>5. \A q \in Pids : t.pstate[q] = IF q = p THEN "PRREADY" ELSE s.pstate[q]
  BY <1>2, <1>3, SchedFields
<1>6. u.pstate[p] \in Eligible /\ Same(s, u, {p})
  BY <1>2, <1>4, <1>5 DEF Same, Eligible
<1>7. QED BY <1>1, <1>4, <1>6

LEMMA BlockProps ==
  ASSUME NEW s, Running(s), s.currpid # NULLPROC,
         NEW st \in PrStates \ Eligible
  PROVE  /\ Running(Block(s, st))
         /\ Block(s, st).pstate[s.currpid] = st
         /\ Same(s, Block(s, st), {s.currpid})
<1> DEFINE c == s.currpid
           t == SetState(s, c, st)
           u == Resched(t)
<1>1. Block(s, st) = u
  BY DEF Block
<1>2. s \in Scheds /\ c \in Pids
  BY SchedFields DEF Running, SchedInv
<1>3. t \in Scheds
  BY <1>2 DEF SetState, Scheds
<1>4. t.rdy = s.rdy /\ t.currpid = c
  BY <1>2 DEF SetState, Scheds
<1>5. /\ t \in Scheds /\ t.rdy = s.rdy /\ t.currpid = c
      /\ t.pstate = [s.pstate EXCEPT ![c] = st]
  <2>1. t.pstate = [s.pstate EXCEPT ![c] = st]
    BY <1>2 DEF SetState, Scheds
  <2>2. QED BY <1>3, <1>4, <2>1
<1> HIDE DEF t
<1>6. \A q \in Pids : t.pstate[q] = IF q = c THEN st ELSE s.pstate[q]
  BY <1>2, <1>5, SchedFields
<1>7. SchedInv(t)
  <2>1. \A q \in Pids : q \in Members(t.rdy) <=> t.pstate[q] = "PRREADY"
    BY <1>2, <1>5, <1>6 DEF Running, SchedInv, Eligible
  <2>2. \A q \in Pids : t.pstate[q] = "PRCURR" => q = t.currpid
    BY <1>5, <1>6 DEF Running, SchedInv
  <2>3. t.pstate[NULLPROC] \in Eligible
    BY <1>6, PidFacts DEF Running, SchedInv
  <2>4. QED BY <1>5, <2>1, <2>2, <2>3 DEF Running, SchedInv
<1>8. Running(u) /\ Same(t, u, {})
  BY <1>7, ReschedProps
<1> HIDE DEF u
<1>9. u.pstate[c] = st /\ Same(s, u, {c})
  BY <1>2, <1>6, <1>8 DEF Same, Eligible
<1>10. QED BY <1>1, <1>8, <1>9

LEMMA TickPreemptProps ==
  ASSUME NEW s, Running(s)
  PROVE  Running(TickPreempt(s)) /\ Same(s, TickPreempt(s), {})
<1> DEFINE left == IF s.preempt > 1 THEN s.preempt - 1 ELSE 0
           t    == [s EXCEPT !.preempt = left]
<1>1. s \in Scheds
  BY DEF Running, SchedInv
<1>2. left \in Nat
  BY <1>1, SchedFields
<1> HIDE DEF left
<1>3. t \in Scheds
  BY <1>1, <1>2 DEF Scheds
<1>4. /\ t \in Scheds /\ t.pstate = s.pstate /\ t.rdy = s.rdy
      /\ t.currpid = s.currpid
  BY <1>1, <1>3 DEF Scheds
<1> HIDE DEF t
<1>5. Running(t) /\ Same(s, t, {})
  BY <1>4 DEF Running, SchedInv, Same
<1>6. SchedInv(t)
  BY <1>5 DEF Running
<1>7. Running(Resched(t)) /\ Same(t, Resched(t), {})
  BY <1>6, ReschedProps
<1>8. Same(s, Resched(t), {} \cup {})
  BY <1>5, <1>7, SameTransitive
<1>9. TickPreempt(s) = IF left = 0 THEN Resched(t) ELSE t
  BY DEF TickPreempt, left, t
<1>10. QED BY <1>5, <1>7, <1>8, <1>9

----------------------------------------------------------------------------
(* What other calls store in the dispatcher state.                         *)

\* A process that is not current leaves the ready list, or never was on it.
Retired(s, p, st) ==
  [s EXCEPT !.pstate[p] = st,
            !.rdy = IF s.pstate[p] = "PRREADY" THEN Dequeue(@, p) ELSE @]

LEMMA RetiredProps ==
  ASSUME NEW s, Running(s), NEW p \in UserPids, s.pstate[p] # "PRCURR",
         NEW st \in PrStates \ Eligible
  PROVE  /\ Running(Retired(s, p, st))
         /\ Retired(s, p, st).currpid = s.currpid
         /\ Retired(s, p, st).pstate[p] = st
         /\ Same(s, Retired(s, p, st), {p})
<1> DEFINE r == IF s.pstate[p] = "PRREADY" THEN Dequeue(s.rdy, p) ELSE s.rdy
           t == [s EXCEPT !.pstate[p] = st, !.rdy = r]
<1>1. p \in Pids /\ s \in Scheds /\ s.rdy \in Seq(Records(Pids))
  BY PidFacts, SchedFields DEF Running, SchedInv
<1>2. /\ r \in Seq(Records(Pids)) /\ Distinct(r) /\ Sorted(r)
      /\ Members(r) = Members(s.rdy) \ {p}
  <2>1. CASE s.pstate[p] = "PRREADY"
    <3>1. p \in Members(s.rdy) /\ Distinct(s.rdy) /\ Sorted(s.rdy)
      BY <1>1, <2>1 DEF Running, SchedInv
    <3>2. QED BY <1>1, <2>1, <3>1, DequeueProps
  <2>2. CASE s.pstate[p] # "PRREADY"
    BY <1>1, <2>2 DEF Running, SchedInv
  <2>3. QED BY <2>1, <2>2
<1>3. Retired(s, p, st) = t
  BY DEF Retired
<1> HIDE DEF r
<1>4. r \in Seq(Entries)
  BY <1>2, EntriesRecords
<1>5. t \in Scheds
  BY <1>1, <1>4 DEF Scheds
<1>6. t.rdy = r /\ t.currpid = s.currpid
  BY <1>1 DEF Scheds
<1>7. t.pstate = [s.pstate EXCEPT ![p] = st]
  BY <1>1 DEF Scheds
<1> HIDE DEF t
<1>8. \A q \in Pids : t.pstate[q] = IF q = p THEN st ELSE s.pstate[q]
  BY <1>1, <1>7, SchedFields
<1>9. Running(t)
  <2>1. \A q \in Pids : q \in Members(t.rdy) <=> t.pstate[q] = "PRREADY"
    BY <1>2, <1>6, <1>8 DEF Running, SchedInv, Eligible
  <2>2. \A q \in Pids : t.pstate[q] = "PRCURR" => q = t.currpid
    BY <1>6, <1>8 DEF Running, SchedInv, Eligible
  <2>3. t.pstate[NULLPROC] \in Eligible
    BY <1>8, PidFacts DEF Running, SchedInv
  <2>4. s.currpid \in Pids /\ s.currpid # p
    BY <1>1, SchedFields DEF Running
  <2>5. t.pstate[t.currpid] = "PRCURR"
    BY <1>6, <1>8, <2>4 DEF Running
  <2>6. QED BY <1>2, <1>5, <1>6, <2>1, <2>2, <2>3, <2>5 DEF Running, SchedInv
<1>10. t.pstate[p] = st /\ Same(s, t, {p})
  BY <1>1, <1>8 DEF Same
<1>11. QED BY <1>3, <1>6, <1>9, <1>10

\* create: a free slot becomes a suspended process.
Created(s, p, prio) == [s EXCEPT !.pstate[p] = "PRSUSP", !.pprio[p] = prio]

LEMMA CreatedProps ==
  ASSUME NEW s, Running(s), NEW p \in Pids, s.pstate[p] = "PRFREE",
         NEW prio \in Nat
  PROVE  /\ Running(Created(s, p, prio))
         /\ Created(s, p, prio).currpid = s.currpid
         /\ Created(s, p, prio).pstate[p] = "PRSUSP"
         /\ Same(s, Created(s, p, prio), {p})
<1> DEFINE t == [s EXCEPT !.pstate[p] = "PRSUSP", !.pprio[p] = prio]
<1>0. Created(s, p, prio) = t
  BY DEF Created
<1>1. s \in Scheds
  BY DEF Running, SchedInv
<1>2. t \in Scheds
  BY <1>1 DEF Scheds, PrStates
<1>3. t.rdy = s.rdy /\ t.currpid = s.currpid
  BY <1>1 DEF Scheds
<1>4. t.pstate = [s.pstate EXCEPT ![p] = "PRSUSP"]
  BY <1>1 DEF Scheds
<1>5. \A q \in Pids : t.pstate[q] = IF q = p THEN "PRSUSP" ELSE s.pstate[q]
  BY <1>1, <1>4, SchedFields
<1> HIDE DEF t
<1>6. SchedInv(t)
  BY <1>2, <1>3, <1>5, PidFacts DEF Running, SchedInv, Eligible
<1>7. t.pstate[t.currpid] = "PRCURR"
  BY <1>1, <1>3, <1>5, SchedFields DEF Running
<1>8. t.pstate[p] = "PRSUSP" /\ Same(s, t, {p})
  BY <1>5 DEF Same
<1>9. QED BY <1>0, <1>3, <1>6, <1>7, <1>8 DEF Running

\* chprio: the ready list keeps its keys, and so its order.
LEMMA NewPrioProps ==
  ASSUME NEW s, Running(s), NEW p \in Pids, NEW prio \in Nat, NEW t,
         t = [s EXCEPT !.pprio[p] = prio]
  PROVE  Running(t) /\ t.currpid = s.currpid /\ Same(s, t, {})
<1>1. s \in Scheds
  BY DEF Running, SchedInv
<1>2. t \in Scheds
  BY <1>1 DEF Scheds
<1>3. t.rdy = s.rdy /\ t.currpid = s.currpid /\ t.pstate = s.pstate
  BY <1>1 DEF Scheds
<1>4. QED BY <1>2, <1>3 DEF Running, SchedInv, Same

----------------------------------------------------------------------------
(* The slot searches.                                                      *)

LEMMA ModFacts ==
  ASSUME NEW n \in Nat \ {0}, NEW x \in 0 .. n - 1
  PROVE  x % n = x /\ (x - n) % n = x
  OBVIOUS

(***************************************************************************)
(* The search of newpid and newsem finds a free slot if there is one.      *)
(***************************************************************************)
LEMMA FirstFreeProps ==
  ASSUME NEW n \in Nat \ {0}, NEW next \in 0 .. n - 1,
         NEW free, free \subseteq 0 .. n - 1, free # {}
  PROVE  FirstFree(next, free, n) \in free
<1> DEFINE T == { k \in 0 .. n - 1 : ScanFrom(next, k, n) \in free }
<1>1. T # {}
  <2>1. PICK f \in free : f \in 0 .. n - 1
    OBVIOUS
  <2>2. CASE f <= next
    <3>1. next - f \in 0 .. n - 1 /\ next - (next - f) = f
      BY <2>1, <2>2
    <3>2. ScanFrom(next, next - f, n) = f
      BY <2>1, <3>1, ModFacts DEF ScanFrom
    <3>3. QED BY <2>1, <3>1, <3>2
  <2>3. CASE f > next
    <3>1. /\ next - f + n \in 0 .. n - 1
          /\ next - (next - f + n) = f - n
      BY <2>1, <2>3
    <3>2. ScanFrom(next, next - f + n, n) = f
      BY <2>1, <3>1, ModFacts DEF ScanFrom
    <3>3. QED BY <2>1, <3>1, <3>2
  <2>4. QED BY <2>1, <2>2, <2>3
<1>2. PICK m \in T : \A k \in T : m <= k
  <2>1. T \subseteq Nat
    OBVIOUS
  <2> HIDE DEF T
  <2>2. QED BY <1>1, <2>1, LeastNat
<1>3. m \in 0 .. n - 1 /\ ScanFrom(next, m, n) \in free
  BY <1>2
<1>4. ASSUME NEW j \in 0 .. m - 1
      PROVE  ScanFrom(next, j, n) \notin free
  <2>1. j \in 0 .. n - 1 /\ ~ (m <= j)
    BY <1>3
  <2>2. j \notin T
    <3> HIDE DEF T
    <3> QED BY <1>2, <2>1
  <2>3. QED BY <2>1, <2>2
<1>5. QED BY <1>3, <1>4 DEF FirstFree

LEMMA BelowProps ==
  ASSUME NEW n \in Nat \ {0}, NEW k \in Int
  PROVE  Below(k, n) \in 0 .. n - 1
  BY DEF Below

----------------------------------------------------------------------------
(* The invariant.                                                          *)

SemLoops   == {"signaln", "sreset", "sdelete"}
ClockLoops == {"wakeup_clkint", "wakeup_strtclk"}

(***************************************************************************)
(* Where processes may be in the kernel: the loops call resched only after *)
(* their last turn, so whoever is in one is current; the null process only *)
(* serves the clock; and a kill is about a user process.                   *)
(***************************************************************************)
ContInv ==
  /\ cont[NULLPROC].op \in {"user", "wakeup_clkint", "clkint"}
  /\ \A p \in Pids : cont[p].op \in SemLoops \cup ClockLoops => p = current
  /\ \A p \in Pids : cont[p].op = "kill" => cont[p].arg \in UserPids

\* A loop over a semaphore has not let go of it.
LoopInv ==
  \A p \in Pids :
     /\ cont[p].op \in SemLoops => cont[p].arg \in Sems
     /\ cont[p].op \in {"signaln", "sreset"} => sstate[cont[p].arg] = "SUSED"
     /\ cont[p].op = "sdelete" => sstate[cont[p].arg] = "SFREE"

\* The slot screate starts its search at exists, if any does.
ScanInv == NSEM = 0 \/ nextsem \in Sems

ProcInv  == ProcTypeOK /\ Running(sched) /\ ContInv
SemInv   == SemTypeOK /\ WaitersQueued /\ SemCountIsQueue /\ LoopInv /\ ScanInv
ClockInv == ClockTypeOK /\ SleepersQueued /\ ClockCacheCoherent
MsgInv   == MsgTypeOK /\ NoLostMessage

IInv == ProcInv /\ SemInv /\ ClockInv /\ MsgInv /\ completed \in BOOLEAN

----------------------------------------------------------------------------
(* Frames: when a component's own variables do not change, its invariant   *)
(* is kept by any step that leaves its processes where they are.           *)

\* The same processes have a state in W.
Keeps(s, t, W) == \A p \in Pids : s.pstate[p] \in W <=> t.pstate[p] \in W

\* Nobody enters or leaves a loop whose name is in L.
SameLoops(L) ==
  \A p \in Pids : cont[p].op \in L \/ cont'[p].op \in L => cont'[p] = cont[p]

LEMMA SemFrame ==
  ASSUME SemInv, UNCHANGED semVars, Keeps(sched, sched', {"PRWAIT"}),
         SameLoops(SemLoops)
  PROVE  SemInv'
<1>1. SemTypeOK' /\ ScanInv'
  BY DEF SemInv, SemTypeOK, ScanInv, semVars
<1>2. WaitersQueued'
  BY DEF SemInv, WaitersQueued, semVars, Keeps
<1>3. LoopInv'
  BY DEF SemInv, LoopInv, SameLoops, SemLoops, semVars
<1>4. \A op \in {"sreset", "sdelete"}, s \in Sems : InLoop(op, s)' <=> InLoop(op, s)
  BY DEF InLoop, SameLoops, SemLoops
<1>5. SemCountIsQueue'
  BY <1>4 DEF SemInv, SemCountIsQueue, semVars
<1>6. QED BY <1>1, <1>2, <1>3, <1>5 DEF SemInv

LEMMA ClockFrame ==
  ASSUME ClockInv, UNCHANGED <<clockq, slnempty, sltop>>, defclk' \in Nat,
         Keeps(sched, sched', {"PRSLEEP", "PRTRECV"}), Waking => Waking'
  PROVE  ClockInv'
  BY DEF ClockInv, ClockTypeOK, SleepersQueued, ClockCacheCoherent, Keeps

LEMMA MsgFrame ==
  ASSUME MsgInv, UNCHANGED msgVars, SameLoops({"receive"}),
         Keeps(sched, sched', {"PRRECV"}), Keeps(sched, sched', {"PRTRECV"})
  PROVE  MsgInv'
  BY DEF MsgInv, MsgTypeOK, NoLostMessage, msgVars, Keeps, SameLoops

(***************************************************************************)
(* A step after which exactly the processes outside X, or none, wait for   *)
(* what they waited for before.                                            *)
(***************************************************************************)
Waits == {"PRWAIT", "PRSLEEP", "PRTRECV", "PRRECV"}

LEMMA Moves ==
  ASSUME NEW s, NEW t, NEW X, Same(s, t, X),
         \A p \in X \cap Pids : s.pstate[p] \notin Waits /\ t.pstate[p] \notin Waits
  PROVE  /\ Keeps(s, t, {"PRWAIT"})
         /\ Keeps(s, t, {"PRSLEEP", "PRTRECV"})
         /\ Keeps(s, t, {"PRRECV"})
         /\ Keeps(s, t, {"PRTRECV"})
  BY DEF Same, Keeps, Eligible, Waits

LEMMA ProcFacts ==
  ASSUME ProcInv
  PROVE  /\ current \in Pids
         /\ sched.pstate[current] = "PRCURR"
         /\ sched \in Scheds
         /\ sched.pstate \in [Pids -> PrStates]
         /\ sched.currpid = current
         /\ cont \in [Pids -> Conts]
         /\ \A p \in Pids : sched.pstate[p] = "PRCURR" => p = current
  BY SchedFields DEF ProcInv, ProcTypeOK, Running, SchedInv, current

----------------------------------------------------------------------------
(* The continuations.                                                      *)

LEMMA StayCont ==
  ASSUME ProcInv, cont' = cont,
         current' # current => cont[current].op \notin SemLoops \cup ClockLoops
  PROVE  ContInv' /\ cont' \in [Pids -> Conts]
  BY DEF ProcInv, ProcTypeOK, ContInv

LEMMA GotoCont ==
  ASSUME ProcInv, NEW k \in Conts, Goto(k),
         k.op \in SemLoops \cup ClockLoops => current' = current,
         k.op = "kill" => k.arg \in UserPids,
         current = NULLPROC => k.op \in {"user", "wakeup_clkint", "clkint"}
  PROVE  /\ ContInv' /\ cont' \in [Pids -> Conts]
         /\ \A L : cont[current].op \notin L /\ k.op \notin L => SameLoops(L)
<1>1. current \in Pids /\ cont \in [Pids -> Conts]
  BY ProcFacts
<1>2. /\ cont' \in [Pids -> Conts]
      /\ \A p \in Pids : cont'[p] = IF p = current THEN k ELSE cont[p]
  BY <1>1 DEF Goto
<1>3. ContInv'
  BY <1>2, PidFacts DEF ProcInv, ContInv
<1>4. ASSUME NEW L, cont[current].op \notin L, k.op \notin L
      PROVE  SameLoops(L)
  BY <1>1, <1>2, <1>4 DEF SameLoops
<1>5. QED BY <1>2, <1>3, <1>4

LEMMA KTypes ==
  /\ \A op \in KernelOps : K(op) \in Conts /\ K(op).op = op
  /\ \A op \in KernelOps, x \in Nat :
       K1(op, x) \in Conts /\ K1(op, x).op = op /\ K1(op, x).arg = x
  /\ \A op \in KernelOps, x, n \in Nat :
       /\ K2(op, x, n) \in Conts /\ K2(op, x, n).op = op
       /\ K2(op, x, n).arg = x /\ K2(op, x, n).n = n
  /\ User \in Conts /\ User.op = "user"
  BY DEF K, K1, K2, Conts, User, KernelOps

----------------------------------------------------------------------------
(* Process management.                                                     *)

(***************************************************************************)
(* A call that touches nothing but the process table and nobody's wait.    *)
(***************************************************************************)
LEMMA QuietStep ==
  ASSUME IInv, InUser, cont' = cont, ProcTypeOK', Running(sched'),
         UNCHANGED <<semVars, clkVars, msgVars, completed>>,
         NEW X, Same(sched, sched', X),
         \A p \in X \cap Pids : /\ sched.pstate[p] \notin Waits
                                /\ sched'.pstate[p] \notin Waits
  PROVE  IInv'
<1>1. ProcInv /\ cont[current].op = "user"
  BY KTypes DEF IInv, InUser
<1>2. ProcInv'
  BY <1>1, StayCont DEF ProcInv, SemLoops, ClockLoops
<1>3. SameLoops(SemLoops) /\ SameLoops({"receive"})
  BY DEF SameLoops
<1>4. ~Waking
  BY <1>1 DEF Waking, In
<1>5. SemInv'
  BY <1>3, Moves, SemFrame DEF IInv
<1>6. ClockInv'
  BY <1>4, Moves, ClockFrame DEF IInv, ClockInv, ClockTypeOK, clkVars
<1>7. MsgInv'
  BY <1>3, Moves, MsgFrame DEF IInv
<1>8. QED BY <1>2, <1>5, <1>6, <1>7 DEF IInv

LEMMA NewPidProps ==
  ASSUME ProcInv, FreeSlots(sched) # {}
  PROVE  /\ NewPid \in Pids /\ sched.pstate[NewPid] = "PRFREE"
         /\ Below(NewPid, NPROC) \in Pids
<1>1. NPROC \in Nat \ {0} /\ nextproc \in 0 .. NPROC - 1
  BY PidFacts DEF ProcInv, ProcTypeOK, Pids
<1>2. FreeSlots(sched) \subseteq 0 .. NPROC - 1
  BY DEF FreeSlots, Pids
<1>3. NewPid \in FreeSlots(sched)
  BY <1>1, <1>2, FirstFreeProps DEF NewPid
<1>4. NewPid \in Pids /\ sched.pstate[NewPid] = "PRFREE"
  BY <1>3 DEF FreeSlots
<1>5. Below(NewPid, NPROC) \in 0 .. NPROC - 1
  BY <1>1, <1>4, BelowProps DEF Pids
<1>6. QED BY <1>4, <1>5 DEF Pids

LEMMA ProcStep ==
  ASSUME IInv, ProcNext, UNCHANGED <<semVars, clkVars, msgVars, completed>>
  PROVE  IInv'
<1>1. ProcInv /\ ProcTypeOK /\ Running(sched)
  BY DEF IInv, ProcInv
<1>2. ASSUME NEW prio \in Prios, CreateFailing(prio)
      PROVE  IInv'
  <2>1. nextproc' \in Pids
    BY <1>1, <1>2, NewPidProps DEF CreateFailing, NewPid, ProcTypeOK
  <2>2. ProcTypeOK'
    BY <1>1, <1>2, <2>1 DEF CreateFailing, ProcTypeOK
  <2>3. InUser /\ sched' = sched /\ cont' = cont
    BY <1>2 DEF CreateFailing, Calls
  <2>4. Same(sched, sched', {})
    BY <2>3 DEF Same
  <2>5. Running(sched')
    BY <1>1, <2>3
  <2>6. QED BY <2>2, <2>3, <2>4, <2>5, QuietStep
<1>3. ASSUME NEW p \in UserPids, Resume(p)
      PROVE  IInv'
  <2>1. /\ Running(sched') /\ sched'.pstate[p] \in Eligible
        /\ Same(sched, sched', {p})
    BY <1>1, <1>3, ReadyReschedProps DEF Resume, Eligible
  <2>2. ProcTypeOK'
    BY <1>1, <1>3, <2>1 DEF Resume, ProcTypeOK, Running, SchedInv
  <2>3. InUser /\ cont' = cont /\ sched.pstate[p] = "PRSUSP"
    BY <1>3 DEF Resume, Calls
  <2>4. sched.pstate[p] \notin Waits /\ sched'.pstate[p] \notin Waits
    BY <2>1, <2>3 DEF Waits, Eligible
  <2>5. QED BY <2>1, <2>2, <2>3, <2>4, QuietStep
<1>4. ASSUME NEW p \in UserPids, SuspendReady(p)
      PROVE  IInv'
  <2>1. sched' = Retired(sched, p, "PRSUSP")
    BY <1>4 DEF SuspendReady, Retired
  <2>2. /\ Running(sched') /\ sched'.pstate[p] = "PRSUSP"
        /\ Same(sched, sched', {p})
    <3>1. sched.pstate[p] # "PRCURR"
      BY <1>4 DEF SuspendReady
    <3>2. "PRSUSP" \in PrStates \ Eligible
      BY DEF PrStates, Eligible
    <3>3. QED BY <1>1, <2>1, <3>1, <3>2, RetiredProps
  <2>3. ProcTypeOK'
    BY <1>1, <1>4, <2>2 DEF SuspendReady, ProcTypeOK, Running, SchedInv
  <2>4. InUser /\ cont' = cont /\ sched.pstate[p] = "PRREADY"
    BY <1>4 DEF SuspendReady, Calls
  <2>5. sched.pstate[p] \notin Waits /\ sched'.pstate[p] \notin Waits
    BY <2>2, <2>4 DEF Waits
  <2>6. QED BY <2>2, <2>3, <2>4, <2>5, QuietStep
<1>5. ASSUME NEW p \in UserPids, NEW prio \in NewPrios, Chprio(p, prio)
      PROVE  IInv'
  <2>1. p \in Pids /\ prio \in Nat
    BY PidFacts, ProcAssumption
  <2>2. Running(sched') /\ Same(sched, sched', {})
    BY <1>1, <1>5, <2>1, NewPrioProps DEF Chprio
  <2>3. ProcTypeOK'
    BY <1>1, <1>5, <2>2 DEF Chprio, ProcTypeOK, Running, SchedInv
  <2>4. InUser /\ cont' = cont
    BY <1>5 DEF Chprio, Calls
  <2>5. QED BY <2>2, <2>3, <2>4, QuietStep
<1>6. ASSUME SuspendSelf
      PROVE  IInv'
  <2>1. current # NULLPROC /\ InUser /\ cont' = cont
    BY <1>6 DEF SuspendSelf, Calls
  <2>2. /\ Running(sched') /\ sched'.pstate[current] = "PRSUSP"
        /\ Same(sched, sched', {current})
    BY <1>1, <1>6, <2>1, BlockProps
      DEF SuspendSelf, PrStates, Eligible, current
  <2>3. ProcTypeOK'
    BY <1>1, <1>6, <2>2 DEF SuspendSelf, ProcTypeOK, Running, SchedInv
  <2>4. sched.pstate[current] \notin Waits /\ sched'.pstate[current] \notin Waits
    BY <1>1, <2>2, ProcFacts DEF Waits
  <2>5. QED BY <2>1, <2>2, <2>3, <2>4, QuietStep
<1>7. ASSUME Yield
      PROVE  IInv'
  <2>1. Running(sched') /\ Same(sched, sched', {})
    BY <1>1, <1>7, ReschedProps DEF Yield, Running
  <2>2. ProcTypeOK'
    BY <1>1, <1>7, <2>1 DEF Yield, ProcTypeOK, Running, SchedInv
  <2>3. InUser /\ cont' = cont
    BY <1>7 DEF Yield, Calls
  <2>4. QED BY <2>1, <2>2, <2>3, QuietStep
<1>8. QED BY <1>2, <1>3, <1>4, <1>5, <1>6, <1>7 DEF ProcNext

----------------------------------------------------------------------------
(* Semaphores.                                                             *)

LEMMA StayGoto ==
  ASSUME ProcInv, cont' = cont
  PROVE  cont[current] \in Conts /\ Goto(cont[current])
<1>1. cont \in [Pids -> Conts] /\ current \in Pids
  BY ProcFacts
<1>2. QED BY <1>1 DEF Goto

\* What is left to show of a semaphore call is its own component's invariant.
LEMMA SemCall ==
  ASSUME IInv, SemInv', NEW k \in Conts, Goto(k), current # NULLPROC,
         cont[current].op \in SemLoops \cup {"user"},
         k.op \in SemLoops \cup {"user"},
         k.op \in SemLoops => current' = current,
         Running(sched'),
         Keeps(sched, sched', {"PRSLEEP", "PRTRECV"}),
         Keeps(sched, sched', {"PRRECV"}), Keeps(sched, sched', {"PRTRECV"}),
         UNCHANGED <<numproc, nextproc, pbase, stkfree, clkVars, msgVars,
                     completed>>
  PROVE  IInv'
<1>1. ProcInv /\ ProcTypeOK
  BY DEF IInv, ProcInv
<1>2. /\ ContInv' /\ cont' \in [Pids -> Conts]
      /\ \A L : cont[current].op \notin L /\ k.op \notin L => SameLoops(L)
  BY <1>1, GotoCont DEF SemLoops, ClockLoops
<1>3. ProcInv'
  BY <1>1, <1>2 DEF ProcInv, ProcTypeOK, Running, SchedInv
<1>4. SameLoops({"receive"})
  BY <1>2 DEF SemLoops
<1>5. ~Waking
  BY DEF Waking, In, SemLoops
<1>6. ClockInv' /\ MsgInv'
  BY <1>4, <1>5, ClockFrame, MsgFrame DEF IInv, ClockInv, ClockTypeOK, clkVars
<1>7. QED BY <1>3, <1>6 DEF IInv

LEMMA OneLoop ==
  ASSUME ProcInv, NEW op \in {"sreset", "sdelete"}, cont[current].op # op
  PROVE  \A s : ~InLoop(op, s)
  BY DEF ProcInv, ContInv, InLoop, SemLoops

LEMMA SemFacts ==
  ASSUME SemInv, NEW s \in Sems
  PROVE  /\ squeue[s] \in Seq(Records(Pids)) /\ Distinct(squeue[s])
         /\ squeue \in [Sems -> Seq(Entries)]
         /\ semcnt[s] \in Int /\ semcnt \in [Sems -> Int]
         /\ Len(squeue[s]) \in Nat
         /\ Members(squeue[s]) \subseteq Pids
         /\ \A p \in Members(squeue[s]) : sched.pstate[p] = "PRWAIT" /\ psem[p] = s
<1>1. squeue[s] \in Seq(Records(Pids))
  BY EntriesRecords DEF SemInv, SemTypeOK
<1>2. Len(squeue[s]) \in Nat /\ Members(squeue[s]) \subseteq Pids
  BY <1>1, ListFacts
<1>3. QED BY <1>1, <1>2 DEF SemInv, SemTypeOK, WaitersQueued

(***************************************************************************)
(* A process leaves the queue of s, and waits no more.                     *)
(***************************************************************************)
LEMMA Leaves ==
  ASSUME SemInv, NEW s \in Sems, NEW p \in Members(squeue[s]),
         NEW r \in Seq(Records(Pids)), Distinct(r),
         Members(r) = Members(squeue[s]) \ {p},
         squeue' = [squeue EXCEPT ![s] = r], psem' = psem,
         sched'.pstate[p] # "PRWAIT",
         \A q \in Pids \ {p} :
            sched.pstate[q] = "PRWAIT" <=> sched'.pstate[q] = "PRWAIT"
  PROVE  /\ squeue' \in [Sems -> Seq(Entries)]
         /\ \A x \in Sems : squeue'[x] = IF x = s THEN r ELSE squeue[x]
         /\ WaitersQueued'
<1>1. squeue \in [Sems -> Seq(Entries)] /\ r \in Seq(Entries)
  BY SemFacts, EntriesRecords
<1>2. /\ squeue' \in [Sems -> Seq(Entries)]
      /\ \A x \in Sems : squeue'[x] = IF x = s THEN r ELSE squeue[x]
  BY <1>1
<1>3. p \in Pids /\ psem[p] = s
  BY SemFacts
<1>4. \A x \in Sems : Distinct(squeue'[x])
  BY <1>2 DEF SemInv, WaitersQueued
<1>5. ASSUME NEW q \in Pids, NEW x \in Sems
      PROVE  q \in Members(squeue'[x]) <=>
               sched'.pstate[q] = "PRWAIT" /\ psem'[q] = x
  <2>1. q \in Members(squeue[x]) <=> sched.pstate[q] = "PRWAIT" /\ psem[q] = x
    BY DEF SemInv, WaitersQueued
  <2>2. CASE q = p
    BY <1>2, <1>3, <2>1, <2>2
  <2>3. CASE q # p
    BY <1>2, <2>1, <2>3
  <2>4. QED BY <2>2, <2>3
<1>6. \A q \in Pids : sched'.pstate[q] = "PRWAIT" => psem'[q] \in Sems
  BY DEF SemInv, WaitersQueued
<1>7. WaitersQueued'
  BY <1>4, <1>5, <1>6 DEF WaitersQueued
<1>8. QED BY <1>2, <1>7

(***************************************************************************)
(* The head of a queue that is not empty is made ready: by ready alone, or *)
(* by ready and resched.                                                   *)
(***************************************************************************)
LEMMA FirstLeaves ==
  ASSUME ProcInv, SemInv, NEW s \in Sems, squeue[s] # EmptyQueue,
         squeue' = [squeue EXCEPT ![s] = ButFirst(@)], psem' = psem,
         \/ sched' = Ready(sched, FirstPid(squeue[s]))
         \/ sched' = ReadyResched(sched, FirstPid(squeue[s]))
  PROVE  /\ squeue' \in [Sems -> Seq(Entries)]
         /\ \A x \in Sems : Len(squeue'[x]) =
              IF x = s THEN Len(squeue[s]) - 1 ELSE Len(squeue[x])
         /\ \A x \in Sems \ {s} : squeue'[x] = squeue[x]
         /\ WaitersQueued'
         /\ Running(sched')
         /\ sched' = Ready(sched, FirstPid(squeue[s])) => current' = current
         /\ Keeps(sched, sched', {"PRSLEEP", "PRTRECV"})
         /\ Keeps(sched, sched', {"PRRECV"})
         /\ Keeps(sched, sched', {"PRTRECV"})
         /\ FirstPid(squeue[s]) \in Pids
<1> DEFINE p == FirstPid(squeue[s])
           r == ButFirst(squeue[s])
<1>1. squeue[s] \in Seq(Records(Pids)) /\ Distinct(squeue[s])
  BY SemFacts
<1>2. /\ p \in Members(squeue[s]) /\ r \in Seq(Records(Pids))
      /\ Len(r) = Len(squeue[s]) - 1 /\ Distinct(r)
      /\ Members(r) = Members(squeue[s]) \ {p}
  BY <1>1, ButFirstProps
<1>3. squeue' = [squeue EXCEPT ![s] = r]
  OBVIOUS
<1>4. (sched' = Ready(sched, p) \/ sched' = ReadyResched(sched, p))
  OBVIOUS
<1> HIDE DEF p, r
<1>5. sched.pstate[p] = "PRWAIT" /\ p \in Pids
  BY <1>2, SemFacts
<1>6. p \in UserPids
  BY <1>5, PidFacts DEF ProcInv, Running, SchedInv, Eligible
<1>7. /\ Running(sched') /\ sched'.pstate[p] \in Eligible
      /\ Same(sched, sched', {p})
      /\ sched' = Ready(sched, p) => sched'.currpid = sched.currpid
  <2>1. Running(sched) /\ SchedInv(sched) /\ sched.pstate[p] \notin Eligible
    BY <1>5 DEF ProcInv, Running, Eligible
  <2>2. CASE sched' = Ready(sched, p)
    <3>1. /\ Running(sched') /\ sched'.currpid = sched.currpid
          /\ sched'.pstate = [sched.pstate EXCEPT ![p] = "PRREADY"]
      BY <1>6, <2>1, <2>2, ReadyProps
    <3>2. \A q \in Pids : sched'.pstate[q] =
                            IF q = p THEN "PRREADY" ELSE sched.pstate[q]
      BY <3>1, ProcFacts
    <3>3. QED BY <1>5, <3>1, <3>2 DEF Same, Eligible
  <2>3. CASE sched' # Ready(sched, p) /\ sched' = ReadyResched(sched, p)
    BY <1>6, <2>1, <2>3, ReadyReschedProps
  <2>4. QED BY <1>4, <2>2, <2>3
<1>8. \A q \in Pids \ {p} :
         sched.pstate[q] = "PRWAIT" <=> sched'.pstate[q] = "PRWAIT"
  BY <1>7 DEF Same, Eligible
<1>9. /\ squeue' \in [Sems -> Seq(Entries)]
      /\ \A x \in Sems : squeue'[x] = IF x = s THEN r ELSE squeue[x]
      /\ WaitersQueued'
  <2>1. sched'.pstate[p] # "PRWAIT"
    BY <1>7 DEF Eligible
  <2>2. QED BY <1>2, <1>3, <1>8, <2>1, Leaves
<1>10. /\ Keeps(sched, sched', {"PRSLEEP", "PRTRECV"})
       /\ Keeps(sched, sched', {"PRRECV"})
       /\ Keeps(sched, sched', {"PRTRECV"})
  BY <1>5, <1>7 DEF Same, Keeps, Eligible
<1>11. QED BY <1>2, <1>5, <1>7, <1>9, <1>10 DEF p, r, current

(***************************************************************************)
(* A semaphore with a negative count has a first waiter.                   *)
(***************************************************************************)
LEMMA NegativeCount ==
  ASSUME SemInv, NEW s \in Sems, sstate[s] = "SUSED", ~InLoop("sreset", s)
  PROVE  /\ semcnt[s] < 0 => squeue[s] # EmptyQueue /\ Len(squeue[s]) = -semcnt[s]
         /\ semcnt[s] >= 0 => Len(squeue[s]) = 0
<1>1. Len(squeue[s]) = IF semcnt[s] < 0 THEN -semcnt[s] ELSE 0
  BY DEF SemInv, SemCountIsQueue
<1>2. semcnt[s] \in Int /\ squeue[s] \in Seq(Records(Pids))
  BY SemFacts
<1>3. squeue[s] = EmptyQueue <=> Len(squeue[s]) = 0
  BY <1>2, EmptyQueueLen
<1>4. QED BY <1>1, <1>2, <1>3

LEMMA LoopStep ==
  ASSUME ProcInv, NEW k \in Conts, Goto(k),
         k.op \in SemLoops => k.arg \in Sems,
         k.op \in {"signaln", "sreset"} => sstate'[k.arg] = "SUSED",
         k.op = "sdelete" => sstate'[k.arg] = "SFREE",
         cont[current].op \notin ClockLoops
  PROVE  /\ LoopInv'
         /\ \A op \in {"sreset", "sdelete"} : \A x \in Sems :
              InLoop(op, x)' <=> k.op = op /\ k.arg = x
         /\ \A op \in {"sreset", "sdelete"} : \A x \in Sems :
              InLoop(op, x) <=> cont[current].op = op /\ cont[current].arg = x
<1>1. current \in Pids /\ cont \in [Pids -> Conts]
  BY ProcFacts
<1>2. \A p \in Pids : cont'[p] = IF p = current THEN k ELSE cont[p]
  BY <1>1 DEF Goto
<1>3. \A p \in Pids \ {current} : cont[p].op \notin SemLoops
  BY DEF ProcInv, ContInv
<1>4. LoopInv'
  BY <1>2, <1>3 DEF LoopInv, SemLoops
<1>5. \A op \in {"sreset", "sdelete"} : \A x \in Sems :
        InLoop(op, x)' <=> k.op = op /\ k.arg = x
  BY <1>1, <1>2, <1>3 DEF InLoop, SemLoops
<1>6. \A op \in {"sreset", "sdelete"} : \A x \in Sems :
        InLoop(op, x) <=> cont[current].op = op /\ cont[current].arg = x
  BY <1>1, <1>3 DEF InLoop, SemLoops
<1>7. QED BY <1>4, <1>5, <1>6

(***************************************************************************)
(* All semaphores but s agree with their counts already.                   *)
(***************************************************************************)
CountOK(x) ==
  /\ sstate[x] = "SUSED" /\ ~InLoop("sreset", x) =>
        Len(squeue[x]) = IF semcnt[x] < 0 THEN -semcnt[x] ELSE 0
  /\ sstate[x] = "SFREE" /\ ~InLoop("sdelete", x) => squeue[x] = EmptyQueue

LEMMA CountStep ==
  ASSUME SemInv, NEW s \in Sems, CountOK(s)',
         \A x \in Sems \ {s} : /\ sstate'[x] = sstate[x]
                               /\ semcnt'[x] = semcnt[x]
                               /\ squeue'[x] = squeue[x],
         \A x \in Sems \ {s} : ~InLoop("sreset", x) /\ ~InLoop("sdelete", x)
  PROVE  SemCountIsQueue'
<1>1. ASSUME NEW x \in Sems
      PROVE  CountOK(x)'
  BY DEF SemInv, SemCountIsQueue, CountOK
<1>2. QED BY <1>1 DEF CountOK, SemCountIsQueue

----------------------------------------------------------------------------

LEMMA ScreateStep ==
  ASSUME IInv, NEW count \in SemCounts, Screate(count),
         UNCHANGED <<clkVars, msgVars, completed>>
  PROVE  IInv'
<1>1. ProcInv /\ SemInv /\ SemTypeOK
  BY DEF IInv, SemInv
<1>2. NSEM \in Nat \ {0} /\ nextsem \in 0 .. NSEM - 1
  BY <1>1, SemAssumption DEF Screate, SemInv, ScanInv, FreeSems, Sems
<1>3. PICK s \in Sems : s = NewSem /\ sstate[s] = "SFREE"
  <2>1. FreeSems \subseteq 0 .. NSEM - 1 /\ FreeSems # {}
    BY DEF Screate, FreeSems, Sems
  <2>2. NewSem \in FreeSems
    BY <1>2, <2>1, FirstFreeProps DEF NewSem
  <2>3. QED BY <2>2 DEF FreeSems
<1>4. Below(s, NSEM) \in 0 .. NSEM - 1
  BY <1>2, <1>3, BelowProps DEF Sems
<1>5. /\ sstate' = [sstate EXCEPT ![s] = "SUSED"]
      /\ semcnt' = [semcnt EXCEPT ![s] = count]
      /\ nextsem' = Below(s, NSEM)
      /\ UNCHANGED <<procVars, squeue, psem, pwaitret>>
  BY <1>3 DEF Screate
<1>6. count \in Nat
  BY SemAssumption
<1>7. cont[current].op = "user" /\ current # NULLPROC
  BY KTypes DEF Screate, Calls, InUser
<1>8. cont[current] \in Conts /\ Goto(cont[current])
  BY <1>1, <1>5, StayGoto DEF procVars
<1>9. /\ \A x \in Sems : sstate'[x] = IF x = s THEN "SUSED" ELSE sstate[x]
      /\ \A x \in Sems : semcnt'[x] = IF x = s THEN count ELSE semcnt[x]
  BY <1>1, <1>5 DEF SemTypeOK
<1>10. SemTypeOK' /\ ScanInv'
  <2>1. nextsem' \in Nat /\ nextsem' \in Sems
    BY <1>2, <1>4, <1>5 DEF Sems
  <2>2. /\ sstate' \in [Sems -> {"SFREE", "SUSED"}]
        /\ semcnt' \in [Sems -> Int]
    BY <1>1, <1>5, <1>6 DEF SemTypeOK
  <2>3. QED BY <1>1, <1>5, <2>1, <2>2 DEF SemTypeOK, ScanInv
<1>11. WaitersQueued'
  BY <1>1, <1>5 DEF SemInv, WaitersQueued, procVars
<1>12. /\ LoopInv'
       /\ \A op \in {"sreset", "sdelete"} : \A x \in Sems : ~InLoop(op, x)'
       /\ \A op \in {"sreset", "sdelete"} : \A x \in Sems : ~InLoop(op, x)
  BY <1>1, <1>7, <1>8, LoopStep DEF SemLoops, ClockLoops
<1>13. SemCountIsQueue'
  <2>1. squeue[s] = EmptyQueue
    BY <1>1, <1>3, <1>12 DEF SemInv, SemCountIsQueue
  <2>2. CountOK(s)'
    <3>1. Len(squeue'[s]) = 0
      BY <1>5, <2>1, EmptyQueueProps
    <3>2. QED BY <1>3, <1>6, <1>9, <3>1 DEF CountOK
  <2>3. QED BY <1>1, <1>3, <1>5, <1>9, <1>12, <2>2, CountStep
<1>14. SemInv'
  BY <1>10, <1>11, <1>12, <1>13 DEF SemInv
<1>15. /\ Running(sched') /\ sched' = sched
       /\ UNCHANGED <<numproc, nextproc, pbase, stkfree>>
  BY <1>1, <1>5 DEF ProcInv, procVars
<1>16. /\ Keeps(sched, sched', {"PRSLEEP", "PRTRECV"})
       /\ Keeps(sched, sched', {"PRRECV"}) /\ Keeps(sched, sched', {"PRTRECV"})
  BY <1>15 DEF Keeps
<1>17. QED BY <1>7, <1>8, <1>14, <1>15, <1>16, SemCall DEF SemLoops

LEMMA WaitStep ==
  ASSUME IInv, NEW s \in Sems, Wait(s),
         UNCHANGED <<clkVars, msgVars, completed>>
  PROVE  IInv'
<1>1. ProcInv /\ SemInv /\ SemTypeOK /\ Running(sched)
  BY DEF IInv, SemInv, ProcInv
<1>2. cont[current].op = "user" /\ current # NULLPROC /\ cont' = cont
  BY KTypes DEF Wait, Calls, InUser
<1>3. cont[current] \in Conts /\ Goto(cont[current])
  BY <1>1, <1>2, StayGoto
<1>4. /\ semcnt' = [semcnt EXCEPT ![s] = @ - 1] /\ sstate[s] = "SUSED"
      /\ UNCHANGED <<numproc, nextproc, pbase, stkfree, sstate, nextsem>>
  BY DEF Wait
<1>5. /\ semcnt[s] \in Int /\ semcnt \in [Sems -> Int]
      /\ squeue \in [Sems -> Seq(Entries)]
      /\ squeue[s] \in Seq(Records(Pids)) /\ Distinct(squeue[s])
      /\ Members(squeue[s]) \subseteq Pids
      /\ \A p \in Members(squeue[s]) : sched.pstate[p] = "PRWAIT"
  BY <1>1, SemFacts
<1>6. \A x \in Sems : semcnt'[x] = IF x = s THEN semcnt[s] - 1 ELSE semcnt[x]
  BY <1>4, <1>5
<1>7. /\ LoopInv'
      /\ \A op \in {"sreset", "sdelete"} : \A x \in Sems : ~InLoop(op, x)'
      /\ \A op \in {"sreset", "sdelete"} : \A x \in Sems : ~InLoop(op, x)
  BY <1>1, <1>2, <1>3, LoopStep DEF SemLoops, ClockLoops
<1>8. /\ semcnt[s] < 0 => Len(squeue[s]) = -semcnt[s]
      /\ semcnt[s] >= 0 => Len(squeue[s]) = 0
  BY <1>1, <1>4, <1>7, NegativeCount
<1>9. ScanInv'
  BY <1>1, <1>4 DEF SemInv, ScanInv
<1>10. CASE semcnt'[s] < 0
  <2>1. /\ psem'     = [psem EXCEPT ![current] = s]
        /\ squeue'   = [squeue EXCEPT ![s] = Enqueue(@, current)]
        /\ pwaitret' = [pwaitret EXCEPT ![current] = "OK"]
        /\ sched'    = Block(sched, "PRWAIT")
    BY <1>10 DEF Wait
  <2>2. /\ Running(sched') /\ sched'.pstate[current] = "PRWAIT"
        /\ Same(sched, sched', {current})
    BY <1>1, <1>2, <2>1, BlockProps DEF PrStates, Eligible, current
  <2>3. current \in Pids /\ sched.pstate[current] = "PRCURR"
    BY <1>1, ProcFacts
  <2> DEFINE q == Enqueue(squeue[s], current)
  <2>4. /\ q \in Seq(Records(Pids)) /\ Len(q) = Len(squeue[s]) + 1
        /\ Members(q) = Members(squeue[s]) \cup {current}
        /\ Distinct(q)
    <3>1. current \notin Members(squeue[s])
      BY <1>5, <2>3
    <3>2. QED BY <1>5, <2>3, <3>1, EnqueueProps
  <2>5. squeue' = [squeue EXCEPT ![s] = q] /\ q \in Seq(Entries)
    BY <2>1, <2>4, EntriesRecords
  <2> HIDE DEF q
  <2>6. /\ squeue' \in [Sems -> Seq(Entries)]
        /\ \A x \in Sems : squeue'[x] = IF x = s THEN q ELSE squeue[x]
    BY <1>5, <2>5
  <2>7. SemTypeOK'
    <3>1. s \in Nat
      BY DEF Sems
    <3>2. /\ psem' \in [Pids -> Nat]
          /\ pwaitret' \in [Pids -> {"OK", "DELETED"}]
      BY <1>1, <2>1, <3>1 DEF SemTypeOK
    <3>3. semcnt' \in [Sems -> Int]
      BY <1>4, <1>5
    <3>4. QED BY <1>1, <1>4, <2>6, <3>2, <3>3 DEF SemTypeOK
  <2>8. \A p \in Pids : psem'[p] = IF p = current THEN s ELSE psem[p]
    BY <1>1, <2>1 DEF SemTypeOK
  <2>9. WaitersQueued'
    <3>1. \A x \in Sems : Distinct(squeue'[x])
      BY <1>1, <2>4, <2>6 DEF SemInv, WaitersQueued
    <3>2. ASSUME NEW p \in Pids
          PROVE  /\ \A x \in Sems : p \in Members(squeue'[x]) <=>
                        sched'.pstate[p] = "PRWAIT" /\ psem'[p] = x
                 /\ sched'.pstate[p] = "PRWAIT" => psem'[p] \in Sems
      <4>1. CASE p = current
        <5>1. \A x \in Sems : p \notin Members(squeue[x])
          BY <1>1, <2>3, <4>1 DEF SemInv, WaitersQueued
        <5>2. QED BY <2>2, <2>4, <2>6, <2>8, <4>1, <5>1
      <4>2. CASE p # current
        <5>1. sched'.pstate[p] = "PRWAIT" <=> sched.pstate[p] = "PRWAIT"
          BY <2>2, <4>2 DEF Same, Eligible
        <5>2. \A x \in Sems : p \in Members(squeue'[x]) <=> p \in Members(squeue[x])
          BY <2>4, <2>6, <4>2
        <5>3. QED BY <1>1, <2>8, <4>2, <5>1, <5>2 DEF SemInv, WaitersQueued
      <4>3. QED BY <4>1, <4>2
    <3>3. QED BY <3>1, <3>2 DEF WaitersQueued
  <2>10. SemCountIsQueue'
    <3>1. Len(squeue'[s]) = -semcnt'[s]
      BY <1>5, <1>6, <1>8, <1>10, <2>4, <2>6
    <3>2. CountOK(s)'
      BY <1>4, <1>10, <3>1 DEF CountOK
    <3>3. QED BY <1>1, <1>4, <1>6, <1>7, <2>6, <3>2, CountStep
  <2>11. SemInv'
    BY <1>7, <1>9, <2>7, <2>9, <2>10 DEF SemInv
  <2>12. /\ Keeps(sched, sched', {"PRSLEEP", "PRTRECV"})
         /\ Keeps(sched, sched', {"PRRECV"}) /\ Keeps(sched, sched', {"PRTRECV"})
    BY <2>2, <2>3 DEF Same, Keeps, Eligible
  <2>13. QED BY <1>2, <1>3, <1>4, <2>2, <2>11, <2>12, SemCall DEF SemLoops
<1>11. CASE ~ (semcnt'[s] < 0)
  <2>1. UNCHANGED <<sched, squeue, psem, pwaitret>>
    BY <1>11 DEF Wait
  <2>2. SemTypeOK'
    BY <1>1, <1>4, <1>5, <2>1 DEF SemTypeOK
  <2>3. WaitersQueued'
    BY <1>1, <2>1 DEF SemInv, WaitersQueued
  <2>4. SemCountIsQueue'
    <3>1. CountOK(s)'
      BY <1>4, <1>5, <1>6, <1>8, <1>11, <2>1 DEF CountOK
    <3>2. QED BY <1>1, <1>4, <1>6, <1>7, <2>1, <3>1, CountStep
  <2>5. SemInv'
    BY <1>7, <1>9, <2>2, <2>3, <2>4 DEF SemInv
  <2>6. /\ Keeps(sched, sched', {"PRSLEEP", "PRTRECV"})
        /\ Keeps(sched, sched', {"PRRECV"}) /\ Keeps(sched, sched', {"PRTRECV"})
    BY <2>1 DEF Keeps
  <2>7. Running(sched')
    BY <1>1, <2>1
  <2>8. QED BY <1>2, <1>3, <1>4, <2>5, <2>6, <2>7, SemCall DEF SemLoops
<1>12. QED BY <1>10, <1>11

(***************************************************************************)
(* A turn of a call on s that takes the first process off its queue.       *)
(***************************************************************************)
LEMMA TurnStep ==
  ASSUME IInv, NEW s \in Sems, squeue[s] # EmptyQueue,
         squeue' = [squeue EXCEPT ![s] = ButFirst(@)],
         \/ sched' = Ready(sched, FirstPid(squeue[s]))
         \/ sched' = ReadyResched(sched, FirstPid(squeue[s])),
         NEW k \in Conts, Goto(k), current # NULLPROC,
         cont[current].op \in SemLoops \cup {"user"},
         cont[current].op \in SemLoops => cont[current].arg = s,
         k.op = cont[current].op,
         k.op \in SemLoops => /\ k.arg = s
                              /\ sched' = Ready(sched, FirstPid(squeue[s])),
         UNCHANGED <<sstate, nextsem, psem, numproc, nextproc, pbase, stkfree,
                     clkVars, msgVars, completed>>,
         pwaitret' \in [Pids -> {"OK", "DELETED"}],
         semcnt' \in [Sems -> Int],
         \A x \in Sems \ {s} : semcnt'[x] = semcnt[x],
         CountOK(s)'
  PROVE  IInv'
<1>1. ProcInv /\ SemInv /\ SemTypeOK /\ LoopInv
  BY DEF IInv, SemInv
<1>2. /\ squeue' \in [Sems -> Seq(Entries)]
      /\ \A x \in Sems \ {s} : squeue'[x] = squeue[x]
      /\ WaitersQueued' /\ Running(sched')
      /\ sched' = Ready(sched, FirstPid(squeue[s])) => current' = current
      /\ Keeps(sched, sched', {"PRSLEEP", "PRTRECV"})
      /\ Keeps(sched, sched', {"PRRECV"})
      /\ Keeps(sched, sched', {"PRTRECV"})
  BY <1>1, FirstLeaves
<1>3. SemTypeOK' /\ ScanInv'
  BY <1>1, <1>2 DEF SemInv, SemTypeOK, ScanInv
<1>4. current \in Pids
  BY <1>1, ProcFacts
<1>5. /\ k.op \in {"signaln", "sreset"} => sstate[s] = "SUSED"
      /\ k.op = "sdelete" => sstate[s] = "SFREE"
  BY <1>1, <1>4 DEF LoopInv, SemLoops
<1>6. /\ LoopInv'
      /\ \A op \in {"sreset", "sdelete"} : \A x \in Sems \ {s} : ~InLoop(op, x)
  BY <1>1, <1>5, LoopStep DEF SemLoops, ClockLoops
<1>7. SemCountIsQueue'
  BY <1>1, <1>2, <1>6, CountStep
<1>8. SemInv'
  BY <1>2, <1>3, <1>6, <1>7 DEF SemInv
<1>9. k.op \in SemLoops => current' = current
  BY <1>2
<1>10. QED BY <1>2, <1>8, <1>9, SemCall

(***************************************************************************)
(* A step of a call on s that leaves the queues alone.                     *)
(***************************************************************************)
LEMMA NoQueueStep ==
  ASSUME IInv, NEW s \in Sems, NEW k \in Conts, Goto(k), current # NULLPROC,
         cont[current].op \in SemLoops \cup {"user"},
         cont[current].op \in SemLoops => cont[current].arg = s,
         k.op \in SemLoops \cup {"user"},
         k.op \in SemLoops => k.arg = s /\ current' = current,
         k.op \in {"signaln", "sreset"} => sstate'[s] = "SUSED",
         k.op = "sdelete" => sstate'[s] = "SFREE",
         Running(sched'), Same(sched, sched', {}),
         UNCHANGED <<squeue, nextsem, psem, pwaitret, numproc, nextproc, pbase,
                     stkfree, clkVars, msgVars, completed>>,
         semcnt' \in [Sems -> Int],
         sstate' \in [Sems -> {"SFREE", "SUSED"}],
         \A x \in Sems \ {s} : semcnt'[x] = semcnt[x] /\ sstate'[x] = sstate[x],
         CountOK(s)'
  PROVE  IInv'
<1>1. ProcInv /\ SemInv /\ SemTypeOK
  BY DEF IInv, SemInv
<1>2. SemTypeOK' /\ ScanInv'
  BY <1>1 DEF SemInv, SemTypeOK, ScanInv
<1>3. /\ Keeps(sched, sched', {"PRWAIT"})
      /\ Keeps(sched, sched', {"PRSLEEP", "PRTRECV"})
      /\ Keeps(sched, sched', {"PRRECV"})
      /\ Keeps(sched, sched', {"PRTRECV"})
  BY Moves
<1>4. WaitersQueued'
  BY <1>1, <1>3 DEF SemInv, WaitersQueued, Keeps
<1>5. /\ LoopInv'
      /\ \A op \in {"sreset", "sdelete"} : \A x \in Sems \ {s} : ~InLoop(op, x)
  BY <1>1, LoopStep DEF SemLoops, ClockLoops
<1>6. SemCountIsQueue'
  BY <1>1, <1>5, CountStep
<1>7. SemInv'
  BY <1>2, <1>4, <1>5, <1>6 DEF SemInv
<1>8. QED BY <1>3, <1>7, SemCall

\* Where a call on a semaphore in use starts from.
LEMMA CallOn ==
  ASSUME IInv, NEW s \in Sems, Calls
  PROVE  /\ ProcInv /\ SemInv /\ SemTypeOK /\ Running(sched)
         /\ cont[current].op = "user" /\ current # NULLPROC
         /\ cont \in [Pids -> Conts] /\ current \in Pids
         /\ \A op \in {"sreset", "sdelete"} : \A x \in Sems : ~InLoop(op, x)
<1>1. ProcInv /\ SemInv /\ SemTypeOK /\ Running(sched)
  BY DEF IInv, SemInv, ProcInv
<1>2. cont[current].op = "user" /\ current # NULLPROC
  BY KTypes DEF Calls, InUser
<1>3. cont \in [Pids -> Conts] /\ current \in Pids
  BY <1>1, ProcFacts
<1>4. \A op \in {"sreset", "sdelete"} : \A x \in Sems : ~InLoop(op, x)
  BY <1>1, <1>2, OneLoop
<1>5. QED BY <1>1, <1>2, <1>3, <1>4

\* Where the next turn of a loop starts from.
LEMMA InLoopOn ==
  ASSUME IInv, cont[current].op \in SemLoops
  PROVE  /\ ProcInv /\ SemInv /\ SemTypeOK /\ Running(sched)
         /\ current # NULLPROC /\ cont \in [Pids -> Conts] /\ current \in Pids
         /\ cont[current] \in Conts /\ cont[current].arg \in Sems
         /\ cont[current].op \in {"signaln", "sreset"} =>
              sstate[cont[current].arg] = "SUSED"
         /\ cont[current].op = "sdelete" => sstate[cont[current].arg] = "SFREE"
<1>1. ProcInv /\ SemInv /\ SemTypeOK /\ Running(sched) /\ LoopInv
  BY DEF IInv, SemInv, ProcInv
<1>2. cont \in [Pids -> Conts] /\ current \in Pids
  BY <1>1, ProcFacts
<1>3. current # NULLPROC
  BY <1>1 DEF ProcInv, ContInv, SemLoops
<1>4. QED BY <1>1, <1>2, <1>3 DEF LoopInv

LEMMA SignalStep ==
  ASSUME IInv, NEW s \in Sems, Signal(s),
         UNCHANGED <<clkVars, msgVars, completed>>
  PROVE  IInv'
<1>1. /\ ProcInv /\ SemInv /\ SemTypeOK /\ Running(sched)
      /\ cont[current].op = "user" /\ current # NULLPROC
      /\ cont \in [Pids -> Conts] /\ current \in Pids
      /\ \A op \in {"sreset", "sdelete"} : \A x \in Sems : ~InLoop(op, x)
  BY CallOn DEF Signal
<1>2. /\ sstate[s] = "SUSED" /\ semcnt' = [semcnt EXCEPT ![s] = @ + 1]
      /\ UNCHANGED <<numproc, nextproc, pbase, stkfree, cont, sstate, nextsem,
                     psem, pwaitret>>
  BY DEF Signal
<1>3. semcnt[s] \in Int /\ semcnt \in [Sems -> Int]
      /\ squeue[s] \in Seq(Records(Pids)) /\ Distinct(squeue[s])
  BY <1>1, SemFacts
<1>4. /\ semcnt' \in [Sems -> Int]
      /\ \A x \in Sems : semcnt'[x] = IF x = s THEN semcnt[s] + 1 ELSE semcnt[x]
  BY <1>2, <1>3
<1>5. cont[current] \in Conts /\ Goto(cont[current])
  BY <1>1, <1>2, StayGoto
<1>6. /\ semcnt[s] < 0 => squeue[s] # EmptyQueue /\ Len(squeue[s]) = -semcnt[s]
      /\ semcnt[s] >= 0 => Len(squeue[s]) = 0
  BY <1>1, <1>2, NegativeCount
<1>7. CASE semcnt[s] < 0
  <2>1. /\ squeue' = [squeue EXCEPT ![s] = ButFirst(@)]
        /\ sched'  = ReadyResched(sched, FirstPid(squeue[s]))
    BY <1>7 DEF Signal
  <2>2. Len(squeue'[s]) = Len(squeue[s]) - 1
    BY <1>1, <1>2, <1>6, <1>7, <2>1, FirstLeaves
  <2>3. CountOK(s)'
    BY <1>2, <1>3, <1>4, <1>6, <1>7, <2>2 DEF CountOK
  <2>4. QED BY <1>1, <1>2, <1>4, <1>5, <1>6, <1>7, <2>1, <2>3, TurnStep
            DEF SemLoops, SemTypeOK
<1>8. CASE ~ (semcnt[s] < 0)
  <2>1. UNCHANGED <<sched, squeue>>
    BY <1>8 DEF Signal
  <2>2. CountOK(s)'
    BY <1>2, <1>3, <1>4, <1>6, <1>8, <2>1 DEF CountOK
  <2>3. Running(sched') /\ Same(sched, sched', {})
    BY <1>1, <2>1 DEF Same
  <2>4. QED BY <1>1, <1>2, <1>4, <1>5, <2>1, <2>2, <2>3, NoQueueStep
            DEF SemLoops, SemTypeOK
<1>9. QED BY <1>7, <1>8

LEMMA SignalnStep ==
  ASSUME IInv, NEW s \in Sems, NEW count \in SignalCounts, Signaln(s, count),
         UNCHANGED <<clkVars, msgVars, completed>>
  PROVE  IInv'
<1>1. /\ ProcInv /\ SemInv /\ SemTypeOK /\ Running(sched)
      /\ cont[current].op = "user" /\ current # NULLPROC
      /\ cont \in [Pids -> Conts] /\ current \in Pids
      /\ \A op \in {"sreset", "sdelete"} : \A x \in Sems : ~InLoop(op, x)
  BY CallOn DEF Signaln
<1> DEFINE k == K2("signaln", s, count)
<1>2. k \in Conts /\ k.op = "signaln" /\ k.arg = s
  BY KTypes, SemAssumption DEF KernelOps, Sems
<1>3. /\ sstate[s] = "SUSED" /\ Goto(k)
      /\ UNCHANGED <<sched, numproc, nextproc, pbase, stkfree, semVars>>
  BY DEF Signaln
<1> HIDE DEF k
<1>4. ~InLoop("sreset", s)'
  BY <1>1, <1>2, <1>3, LoopStep DEF SemLoops, ClockLoops, semVars
<1>5. CountOK(s)'
  BY <1>1, <1>3, <1>4 DEF CountOK, SemInv, SemCountIsQueue, semVars
<1>6. Running(sched') /\ Same(sched, sched', {}) /\ current' = current
  BY <1>1, <1>3 DEF Same, current
<1>7. QED BY <1>1, <1>2, <1>3, <1>5, <1>6, NoQueueStep
          DEF SemLoops, SemTypeOK, semVars

LEMMA SignalnTurnStep ==
  ASSUME IInv, SignalnTurn, UNCHANGED <<clkVars, msgVars, completed>>
  PROVE  IInv'
<1> DEFINE c == cont[current]
<1>1. c.op = "signaln" /\ c.n > 0
  BY DEF SignalnTurn, In
<1>2. /\ ProcInv /\ SemInv /\ SemTypeOK /\ Running(sched)
      /\ current # NULLPROC /\ cont \in [Pids -> Conts] /\ current \in Pids
      /\ c \in Conts /\ c.arg \in Sems /\ sstate[c.arg] = "SUSED"
  BY <1>1, InLoopOn DEF SemLoops
<1>3. PICK s \in Sems : s = c.arg /\ sstate[s] = "SUSED"
  BY <1>2
<1>4. PICK k \in Conts : k = K2("signaln", s, c.n - 1) /\ k.op = "signaln" /\ k.arg = s
  <2>1. c.n - 1 \in Nat /\ s \in Nat
    BY <1>1, <1>2 DEF Conts, Sems
  <2>2. "signaln" \in KernelOps
    BY DEF KernelOps
  <2> DEFINE m == c.n - 1
  <2>3. m \in Nat
    BY <2>1
  <2> HIDE DEF m
  <2>4. /\ K2("signaln", s, m) \in Conts /\ K2("signaln", s, m).op = "signaln"
        /\ K2("signaln", s, m).arg = s
    BY <2>1, <2>2, <2>3, KTypes
  <2>5. QED BY <2>4 DEF m
<1>5. /\ semcnt' = [semcnt EXCEPT ![s] = @ + 1] /\ Goto(k)
      /\ UNCHANGED <<numproc, nextproc, pbase, stkfree, sstate, nextsem, psem,
                     pwaitret>>
      /\ IF semcnt[s] < 0
         THEN /\ squeue' = [squeue EXCEPT ![s] = ButFirst(@)]
              /\ sched'  = Ready(sched, FirstPid(squeue[s]))
         ELSE UNCHANGED <<sched, squeue>>
  BY <1>3, <1>4 DEF SignalnTurn
<1> HIDE DEF c
<1>6. semcnt[s] \in Int /\ semcnt \in [Sems -> Int]
      /\ squeue[s] \in Seq(Records(Pids)) /\ Distinct(squeue[s])
  BY <1>2, SemFacts
<1>7. /\ semcnt' \in [Sems -> Int]
      /\ \A x \in Sems : semcnt'[x] = IF x = s THEN semcnt[s] + 1 ELSE semcnt[x]
  BY <1>5, <1>6
<1>8. ~InLoop("sreset", s) /\ ~InLoop("sreset", s)'
  BY <1>1, <1>2, <1>3, <1>4, <1>5, LoopStep DEF SemLoops, ClockLoops, c
<1>9. /\ semcnt[s] < 0 => squeue[s] # EmptyQueue /\ Len(squeue[s]) = -semcnt[s]
      /\ semcnt[s] >= 0 => Len(squeue[s]) = 0
  BY <1>2, <1>3, <1>8, NegativeCount
<1>10. CASE semcnt[s] < 0
  <2>1. Len(squeue'[s]) = Len(squeue[s]) - 1
    BY <1>2, <1>5, <1>9, <1>10, FirstLeaves
  <2>2. CountOK(s)'
    BY <1>3, <1>5, <1>6, <1>7, <1>8, <1>9, <1>10, <2>1 DEF CountOK
  <2>3. QED BY <1>1, <1>2, <1>3, <1>4, <1>5, <1>7, <1>9, <1>10, <2>2, TurnStep
            DEF SemLoops, SemTypeOK, c
<1>11. CASE ~ (semcnt[s] < 0)
  <2>1. UNCHANGED <<sched, squeue>>
    BY <1>5, <1>11
  <2>2. CountOK(s)'
    BY <1>3, <1>5, <1>6, <1>7, <1>8, <1>9, <1>11, <2>1 DEF CountOK
  <2>3. Running(sched') /\ Same(sched, sched', {}) /\ current' = current
    BY <1>2, <2>1 DEF Same, current
  <2>4. QED BY <1>1, <1>2, <1>3, <1>4, <1>5, <1>7, <2>1, <2>2, <2>3, NoQueueStep
            DEF SemLoops, SemTypeOK, c
<1>12. QED BY <1>10, <1>11

LEMMA SignalnEndStep ==
  ASSUME IInv, SignalnEnd, UNCHANGED <<clkVars, msgVars, completed>>
  PROVE  IInv'
<1> DEFINE c == cont[current]
<1>1. /\ c.op = "signaln" /\ Goto(User) /\ sched' = Resched(sched)
      /\ UNCHANGED <<numproc, nextproc, pbase, stkfree, semVars>>
  BY DEF SignalnEnd, In, ToUser
<1>2. /\ ProcInv /\ SemInv /\ SemTypeOK /\ Running(sched)
      /\ current # NULLPROC /\ c.arg \in Sems /\ sstate[c.arg] = "SUSED"
  BY <1>1, InLoopOn DEF SemLoops
<1>3. PICK s \in Sems : s = c.arg /\ sstate[s] = "SUSED"
  BY <1>2
<1>4. User \in Conts /\ User.op = "user"
  BY KTypes
<1>5. ~InLoop("sreset", s) /\ ~InLoop("sreset", s)'
  BY <1>1, <1>2, <1>3, <1>4, LoopStep DEF SemLoops, ClockLoops
<1>6. CountOK(s)'
  BY <1>1, <1>2, <1>3, <1>5 DEF CountOK, SemInv, SemCountIsQueue, semVars
<1>7. Running(sched') /\ Same(sched, sched', {})
  BY <1>1, <1>2, ReschedProps DEF Running
<1>8. QED BY <1>1, <1>2, <1>3, <1>4, <1>6, <1>7, NoQueueStep
          DEF SemLoops, SemTypeOK, semVars

LEMMA SresetStep ==
  ASSUME IInv, NEW s \in Sems, NEW count \in SemCounts, Sreset(s, count),
         UNCHANGED <<clkVars, msgVars, completed>>
  PROVE  IInv'
<1>1. /\ ProcInv /\ SemInv /\ SemTypeOK /\ Running(sched)
      /\ cont[current].op = "user" /\ current # NULLPROC
      /\ cont \in [Pids -> Conts] /\ current \in Pids
  BY CallOn DEF Sreset
<1> DEFINE k == K2("sreset", s, count)
<1>2. k \in Conts /\ k.op = "sreset" /\ k.arg = s
  BY KTypes, SemAssumption DEF KernelOps, Sems
<1>3. /\ sstate[s] = "SUSED" /\ Goto(k)
      /\ UNCHANGED <<sched, numproc, nextproc, pbase, stkfree, semVars>>
  BY DEF Sreset
<1> HIDE DEF k
<1>4. InLoop("sreset", s)'
  BY <1>1, <1>2, <1>3, LoopStep DEF SemLoops, ClockLoops, semVars
<1>5. CountOK(s)'
  BY <1>3, <1>4 DEF CountOK, semVars
<1>6. Running(sched') /\ Same(sched, sched', {}) /\ current' = current
  BY <1>1, <1>3 DEF Same, current
<1>7. QED BY <1>1, <1>2, <1>3, <1>5, <1>6, NoQueueStep
          DEF SemLoops, SemTypeOK, semVars

LEMMA SresetTurnStep ==
  ASSUME IInv, SresetTurn, UNCHANGED <<clkVars, msgVars, completed>>
  PROVE  IInv'
<1> DEFINE c == cont[current]
<1>1. c.op = "sreset"
  BY DEF SresetTurn, In
<1>2. /\ ProcInv /\ SemInv /\ SemTypeOK /\ Running(sched)
      /\ current # NULLPROC /\ c \in Conts /\ c.arg \in Sems
      /\ sstate[c.arg] = "SUSED"
  BY <1>1, InLoopOn DEF SemLoops
<1>3. PICK s \in Sems : s = c.arg /\ sstate[s] = "SUSED"
  BY <1>2
<1>4. PICK k \in Conts : k = c
  BY <1>2
<1>5. /\ squeue[s] # EmptyQueue
      /\ squeue' = [squeue EXCEPT ![s] = ButFirst(@)]
      /\ sched'  = Ready(sched, FirstPid(squeue[s]))
      /\ UNCHANGED <<numproc, nextproc, pbase, stkfree, cont, sstate, semcnt,
                     nextsem, psem, pwaitret>>
  BY <1>3 DEF SresetTurn
<1>6. Goto(k) /\ k.op = "sreset" /\ k.arg = s
  BY <1>1, <1>2, <1>3, <1>4, <1>5, StayGoto
<1> HIDE DEF c
<1>7. InLoop("sreset", s)'
  BY <1>1, <1>2, <1>3, <1>5, <1>6, LoopStep DEF SemLoops, ClockLoops, c
<1>8. CountOK(s)'
  BY <1>3, <1>5, <1>7 DEF CountOK
<1>9. QED BY <1>1, <1>2, <1>3, <1>5, <1>6, <1>8, TurnStep
          DEF SemLoops, SemTypeOK, c

LEMMA SresetEndStep ==
  ASSUME IInv, SresetEnd, UNCHANGED <<clkVars, msgVars, completed>>
  PROVE  IInv'
<1> DEFINE c == cont[current]
<1>1. /\ c.op = "sreset" /\ Goto(User) /\ sched' = Resched(sched)
      /\ squeue[c.arg] = EmptyQueue
      /\ semcnt' = [semcnt EXCEPT ![c.arg] = c.n]
      /\ UNCHANGED <<numproc, nextproc, pbase, stkfree, sstate, squeue,
                     nextsem, psem, pwaitret>>
  BY DEF SresetEnd, In, ToUser
<1>2. /\ ProcInv /\ SemInv /\ SemTypeOK /\ Running(sched)
      /\ current # NULLPROC /\ c \in Conts /\ c.arg \in Sems
      /\ sstate[c.arg] = "SUSED"
  BY <1>1, InLoopOn DEF SemLoops
<1>3. PICK s \in Sems : s = c.arg /\ sstate[s] = "SUSED"
  BY <1>2
<1>4. PICK n \in Nat : n = c.n
  BY <1>2 DEF Conts
<1>5. User \in Conts /\ User.op = "user"
  BY KTypes
<1>6. /\ semcnt' \in [Sems -> Int]
      /\ \A x \in Sems : semcnt'[x] = IF x = s THEN n ELSE semcnt[x]
  BY <1>1, <1>2, <1>3, <1>4 DEF SemTypeOK
<1>7. CountOK(s)'
  <2>1. squeue'[s] = EmptyQueue /\ Len(squeue'[s]) = 0
    BY <1>1, <1>3, EmptyQueueProps
  <2>2. QED BY <1>1, <1>3, <1>4, <1>6, <2>1 DEF CountOK
<1>8. Running(sched') /\ Same(sched, sched', {})
  BY <1>1, <1>2, ReschedProps DEF Running
<1>9. QED BY <1>1, <1>2, <1>3, <1>5, <1>6, <1>7, <1>8, NoQueueStep
          DEF SemLoops, SemTypeOK

LEMMA SdeleteStep ==
  ASSUME IInv, NEW s \in Sems, Sdelete(s),
         UNCHANGED <<clkVars, msgVars, completed>>
  PROVE  IInv'
<1>1. /\ ProcInv /\ SemInv /\ SemTypeOK /\ Running(sched)
      /\ cont[current].op = "user" /\ current # NULLPROC
      /\ cont \in [Pids -> Conts] /\ current \in Pids
  BY CallOn DEF Sdelete
<1>2. /\ sstate' = [sstate EXCEPT ![s] = "SFREE"]
      /\ UNCHANGED <<sched, numproc, nextproc, pbase, stkfree, semcnt, squeue,
                     nextsem, psem, pwaitret>>
  BY DEF Sdelete
<1>3. /\ sstate' \in [Sems -> {"SFREE", "SUSED"}]
      /\ \A x \in Sems : sstate'[x] = IF x = s THEN "SFREE" ELSE sstate[x]
  BY <1>1, <1>2 DEF SemTypeOK
<1>4. Running(sched') /\ Same(sched, sched', {}) /\ current' = current
  BY <1>1, <1>2 DEF Same, current
<1>5. CASE squeue[s] = EmptyQueue
  <2>1. cont' = cont
    BY <1>5 DEF Sdelete
  <2>2. cont[current] \in Conts /\ Goto(cont[current])
    BY <1>1, <2>1, StayGoto
  <2>3. CountOK(s)'
    BY <1>2, <1>3, <1>5 DEF CountOK
  <2>4. QED BY <1>1, <1>2, <1>3, <1>4, <2>2, <2>3, NoQueueStep
            DEF SemLoops, SemTypeOK
<1>6. CASE squeue[s] # EmptyQueue
  <2> DEFINE k == K1("sdelete", s)
  <2>1. k \in Conts /\ k.op = "sdelete" /\ k.arg = s
    BY KTypes DEF KernelOps, Sems
  <2>2. Goto(k)
    BY <1>6 DEF Sdelete
  <2> HIDE DEF k
  <2>3. InLoop("sdelete", s)'
    BY <1>1, <1>3, <2>1, <2>2, LoopStep DEF SemLoops, ClockLoops
  <2>4. CountOK(s)'
    BY <1>3, <2>3 DEF CountOK
  <2>5. QED BY <1>1, <1>2, <1>3, <1>4, <2>1, <2>2, <2>4, NoQueueStep
            DEF SemLoops, SemTypeOK
<1>7. QED BY <1>5, <1>6

LEMMA SdeleteTurnStep ==
  ASSUME IInv, SdeleteTurn, UNCHANGED <<clkVars, msgVars, completed>>
  PROVE  IInv'
<1> DEFINE c == cont[current]
<1>1. c.op = "sdelete"
  BY DEF SdeleteTurn, In
<1>2. /\ ProcInv /\ SemInv /\ SemTypeOK /\ Running(sched)
      /\ current # NULLPROC /\ c \in Conts /\ c.arg \in Sems
      /\ sstate[c.arg] = "SFREE"
  BY <1>1, InLoopOn DEF SemLoops
<1>3. PICK s \in Sems : s = c.arg /\ sstate[s] = "SFREE"
  BY <1>2
<1>4. PICK k \in Conts : k = c
  BY <1>2
<1>5. /\ squeue[s] # EmptyQueue
      /\ squeue' = [squeue EXCEPT ![s] = ButFirst(@)]
      /\ sched'  = Ready(sched, FirstPid(squeue[s]))
      /\ pwaitret' = [pwaitret EXCEPT ![FirstPid(squeue[s])] = "DELETED"]
      /\ UNCHANGED <<numproc, nextproc, pbase, stkfree, cont, sstate, semcnt,
                     nextsem, psem>>
  BY <1>3 DEF SdeleteTurn
<1>6. Goto(k) /\ k.op = "sdelete" /\ k.arg = s
  BY <1>1, <1>2, <1>3, <1>4, <1>5, StayGoto
<1> HIDE DEF c
<1>7. InLoop("sdelete", s)'
  BY <1>1, <1>2, <1>3, <1>5, <1>6, LoopStep DEF SemLoops, ClockLoops, c
<1>8. CountOK(s)'
  BY <1>3, <1>5, <1>7 DEF CountOK
<1>9. pwaitret' \in [Pids -> {"OK", "DELETED"}]
  BY <1>2, <1>5 DEF SemTypeOK
<1>10. QED BY <1>1, <1>2, <1>3, <1>5, <1>6, <1>8, <1>9, TurnStep
           DEF SemLoops, SemTypeOK, c

LEMMA SdeleteEndStep ==
  ASSUME IInv, SdeleteEnd, UNCHANGED <<clkVars, msgVars, completed>>
  PROVE  IInv'
<1> DEFINE c == cont[current]
<1>1. /\ c.op = "sdelete" /\ Goto(User) /\ sched' = Resched(sched)
      /\ squeue[c.arg] = EmptyQueue
      /\ UNCHANGED <<numproc, nextproc, pbase, stkfree, semVars>>
  BY DEF SdeleteEnd, In, ToUser
<1>2. /\ ProcInv /\ SemInv /\ SemTypeOK /\ Running(sched)
      /\ current # NULLPROC /\ c.arg \in Sems /\ sstate[c.arg] = "SFREE"
  BY <1>1, InLoopOn DEF SemLoops
<1>3. PICK s \in Sems : s = c.arg /\ sstate[s] = "SFREE"
  BY <1>2
<1>4. User \in Conts /\ User.op = "user"
  BY KTypes
<1>5. CountOK(s)'
  BY <1>1, <1>3 DEF CountOK, semVars
<1>6. Running(sched') /\ Same(sched, sched', {})
  BY <1>1, <1>2, ReschedProps DEF Running
<1>7. QED BY <1>1, <1>2, <1>3, <1>4, <1>5, <1>6, NoQueueStep
          DEF SemLoops, SemTypeOK, semVars

LEMMA SemStep ==
  ASSUME IInv, SemNext, UNCHANGED <<clkVars, msgVars, completed>>
  PROVE  IInv'
  BY Zenon, ScreateStep, WaitStep, SignalStep, SignalnStep, SignalnTurnStep,
     SignalnEndStep, SresetStep, SresetTurnStep, SresetEndStep, SdeleteStep,
     SdeleteTurnStep, SdeleteEndStep DEF SemNext

----------------------------------------------------------------------------
(* The clock.                                                              *)

LEMMA UnlinkProps ==
  ASSUME NEW P, NEW s \in Seq(Records(P)), NEW p \in Members(s), Distinct(s)
  PROVE  /\ Unlink(s, p) \in Seq(Records(P))
         /\ Distinct(Unlink(s, p))
         /\ Members(Unlink(s, p)) = Members(s) \ {p}
<1> DEFINE i == PosOf(s, p)
           l == IF i < Len(s)
                THEN [s EXCEPT ![i + 1].key = @ + s[i].key] ELSE s
<1>1. i \in 1 .. Len(s) /\ Len(s) \in Nat
  BY PosOfMember, ListFacts
<1>2. Unlink(s, p) = Dequeue(l, p)
  BY DEF Unlink
<1> HIDE DEF i
<1>3. l \in Seq(Records(P)) /\ SamePids(s, l)
  <2>1. CASE i < Len(s)
    <3>1. i + 1 \in 1 .. Len(s) /\ s[i].key \in Int /\ s[i + 1].key \in Int
      BY <1>1, <2>1, ListFacts
    <3> DEFINE x == s[i + 1].key + s[i].key
               n == i + 1
    <3>2. x \in Int /\ n \in 1 .. Len(s)
      BY <3>1
    <3>3. l = [s EXCEPT ![n].key = x]
      BY <2>1
    <3> HIDE DEF x, n, l
    <3>4. QED BY <3>2, <3>3, RekeyProps
  <2>2. CASE ~ (i < Len(s))
    BY <2>2 DEF SamePids
  <2>3. QED BY <2>1, <2>2
<1> HIDE DEF l
<1>4. Members(l) = Members(s) /\ Distinct(l)
  BY <1>3, SamePidsProps
<1>5. QED BY <1>2, <1>3, <1>4, DequeueProps

Asleep == {"PRSLEEP", "PRTRECV"}

LEMMA ClockFacts ==
  ASSUME ClockInv
  PROVE  /\ clockq \in Seq(Records(Pids)) /\ Distinct(clockq)
         /\ Members(clockq) \subseteq Pids
         /\ \A p \in Pids : p \in Members(clockq) <=> sched.pstate[p] \in Asleep
         /\ clockq # EmptyQueue => FirstPid(clockq) \in Members(clockq)
<1>1. clockq \in Seq(Records(Pids)) /\ Distinct(clockq)
  BY EntriesRecords DEF ClockInv, ClockTypeOK, SleepersQueued
<1>2. Members(clockq) \subseteq Pids
  BY <1>1, ListFacts
<1>3. clockq # EmptyQueue => FirstPid(clockq) \in Members(clockq)
  BY <1>1, ButFirstProps
<1>4. \A p \in Pids : p \in Members(clockq) <=> sched.pstate[p] \in Asleep
  BY DEF ClockInv, SleepersQueued, Asleep
<1>5. QED BY <1>1, <1>2, <1>3, <1>4

\* A process goes on the clock.
LEMMA SleepJoins ==
  ASSUME ClockInv, NEW p \in Pids, NEW n \in Int, EnterClockq(p, n),
         sched.pstate[p] \notin Asleep, sched'.pstate[p] \in Asleep,
         \A q \in Pids \ {p} : sched.pstate[q] \in Asleep <=> sched'.pstate[q] \in Asleep
  PROVE  ClockInv'
<1>1. /\ clockq \in Seq(Records(Pids)) /\ Distinct(clockq)
      /\ \A q \in Pids : q \in Members(clockq) <=> sched.pstate[q] \in Asleep
  BY ClockFacts
<1>2. /\ clockq' \in Seq(Records(Pids)) /\ Distinct(clockq')
      /\ Members(clockq') = Members(clockq) \cup {p}
  BY <1>1, InsertDProps DEF EnterClockq
<1>3. clockq' # EmptyQueue
  BY <1>2, EmptyQueueProps
<1>4. FirstPid(clockq') \in Members(clockq') /\ Members(clockq') \subseteq Pids
  BY <1>2, <1>3, ButFirstProps, ListFacts
<1>5. slnempty' = TRUE /\ sltop' = FirstPid(clockq') /\ defclk' = defclk
  BY DEF EnterClockq
<1>6. ClockTypeOK'
  BY <1>2, <1>4, <1>5, EntriesRecords DEF ClockInv, ClockTypeOK
<1>7. SleepersQueued'
  BY <1>1, <1>2 DEF SleepersQueued, Asleep
<1>8. ClockCacheCoherent'
  BY <1>3, <1>5 DEF ClockCacheCoherent
<1>9. QED BY <1>6, <1>7, <1>8 DEF ClockInv

\* A process is taken off the clock before its time.
LEMMA SleepLeaves ==
  ASSUME ClockInv, NEW p \in Pids, Unsleep(p),
         sched.pstate[p] \in Asleep, sched'.pstate[p] \notin Asleep,
         \A q \in Pids \ {p} : sched.pstate[q] \in Asleep <=> sched'.pstate[q] \in Asleep
  PROVE  ClockInv'
<1>1. /\ clockq \in Seq(Records(Pids)) /\ Distinct(clockq)
      /\ \A q \in Pids : q \in Members(clockq) <=> sched.pstate[q] \in Asleep
  BY ClockFacts
<1>2. /\ clockq' \in Seq(Records(Pids)) /\ Distinct(clockq')
      /\ Members(clockq') = Members(clockq) \ {p}
  BY <1>1, UnlinkProps DEF Unsleep
<1>3. clockq' # EmptyQueue => FirstPid(clockq') \in Pids
  BY <1>2, ButFirstProps, ListFacts
<1>4. /\ slnempty' = (clockq' # EmptyQueue) /\ defclk' = defclk
      /\ sltop' = IF clockq' # EmptyQueue THEN FirstPid(clockq') ELSE sltop
  BY DEF Unsleep
<1>5. ClockTypeOK'
  BY <1>2, <1>3, <1>4, EntriesRecords DEF ClockInv, ClockTypeOK
<1>6. SleepersQueued'
  BY <1>1, <1>2 DEF SleepersQueued, Asleep
<1>7. ClockCacheCoherent'
  BY <1>4 DEF ClockCacheCoherent
<1>8. QED BY <1>5, <1>6, <1>7 DEF ClockInv

(***************************************************************************)
(* What is left to show of a step of the clock or of a message: the        *)
(* process table, the clock and the messages; semaphores only have to be   *)
(* left alone.                                                             *)
(***************************************************************************)
LEMMA OtherCall ==
  ASSUME IInv, NEW k \in Conts, Goto(k),
         cont[current].op \notin SemLoops, k.op \notin SemLoops,
         k.op \in ClockLoops => current' = current,
         k.op = "kill" => k.arg \in UserPids,
         current = NULLPROC => k.op \in {"user", "wakeup_clkint", "clkint"},
         Running(sched'), Keeps(sched, sched', {"PRWAIT"}),
         numproc' \in Int, UNCHANGED <<nextproc, pbase, stkfree>>,
         UNCHANGED semVars, completed' \in BOOLEAN, ClockInv', MsgInv'
  PROVE  IInv'
<1>1. ProcInv /\ ProcTypeOK
  BY DEF IInv, ProcInv
<1>2. /\ ContInv' /\ cont' \in [Pids -> Conts]
      /\ \A L : cont[current].op \notin L /\ k.op \notin L => SameLoops(L)
  BY <1>1, GotoCont
<1>3. ProcInv'
  BY <1>1, <1>2 DEF ProcInv, ProcTypeOK, Running, SchedInv
<1>4. SemInv'
  BY <1>2, SemFrame DEF IInv
<1>5. QED BY <1>3, <1>4 DEF IInv

LEMMA MsgCallFrame ==
  ASSUME IInv, NEW k \in Conts, Goto(k), UNCHANGED msgVars,
         k.op \in SemLoops \cup ClockLoops => current' = current,
         k.op # "kill", current # NULLPROC \/ k.op \in {"user", "wakeup_clkint", "clkint"},
         cont[current].op # "receive", k.op # "receive",
         Keeps(sched, sched', {"PRRECV"}), Keeps(sched, sched', {"PRTRECV"})
  PROVE  MsgInv'
<1>1. SameLoops({"receive"})
  BY GotoCont DEF IInv
<1>2. QED BY <1>1, MsgFrame DEF IInv

LEMMA SleepStep ==
  ASSUME IInv, NEW n \in SleepTicks, Sleep(n),
         UNCHANGED <<semVars, msgVars, completed>>
  PROVE  IInv'
<1>1. /\ ProcInv /\ Running(sched) /\ ClockInv /\ ProcTypeOK
      /\ completed \in BOOLEAN
  BY DEF IInv, ProcInv
<1>2. cont[current].op = "user" /\ current # NULLPROC
  BY KTypes DEF Sleep, Calls, InUser
<1>3. /\ EnterClockq(current, n) /\ sched' = Block(sched, "PRSLEEP")
      /\ UNCHANGED <<numproc, nextproc, pbase, stkfree, cont>>
  BY DEF Sleep
<1>4. cont[current] \in Conts /\ Goto(cont[current])
  BY <1>1, <1>3, StayGoto
<1>5. current \in Pids /\ sched.pstate[current] = "PRCURR"
  BY <1>1, ProcFacts
<1>6. /\ Running(sched') /\ sched'.pstate[current] = "PRSLEEP"
      /\ Same(sched, sched', {current})
  BY <1>1, <1>2, <1>3, BlockProps DEF PrStates, Eligible, current
<1>7. /\ Keeps(sched, sched', {"PRWAIT"})
      /\ Keeps(sched, sched', {"PRRECV"}) /\ Keeps(sched, sched', {"PRTRECV"})
  BY <1>5, <1>6 DEF Same, Keeps, Eligible
<1>8. ClockInv'
  <2>1. \A q \in Pids \ {current} :
           sched.pstate[q] \in Asleep <=> sched'.pstate[q] \in Asleep
    BY <1>6 DEF Same, Eligible, Asleep
  <2>2. sched.pstate[current] \notin Asleep /\ sched'.pstate[current] \in Asleep
    BY <1>5, <1>6 DEF Asleep
  <2>3. n \in Int
    BY ClockAssumption
  <2>4. QED BY <1>1, <1>3, <1>5, <2>1, <2>2, <2>3, SleepJoins
<1>9. MsgInv'
  BY <1>2, <1>4, <1>7, MsgCallFrame DEF SemLoops, ClockLoops
<1>10. QED BY <1>1, <1>2, <1>3, <1>4, <1>6, <1>7, <1>8, <1>9, OtherCall
           DEF SemLoops, ClockLoops, ProcTypeOK

LEMMA TickKeyProps ==
  ASSUME ClockInv, ~Waking, slnempty
  PROVE  /\ TickKey \in Seq(Records(Pids)) /\ SamePids(clockq, TickKey)
<1> DEFINE i == PosOf(clockq, sltop)
<1>1. clockq \in Seq(Records(Pids)) /\ sltop \in Members(clockq)
  BY ClockFacts DEF ClockInv, ClockCacheCoherent
<1>2. i \in 1 .. Len(clockq)
  BY <1>1, PosOfMember
<1> DEFINE x == clockq[i].key - 1
<1>3. x \in Int
  BY <1>1, <1>2, ListFacts
<1>4. TickKey = [clockq EXCEPT ![i].key = x]
  BY DEF TickKey
<1> HIDE DEF i, x
<1>5. QED BY <1>1, <1>2, <1>3, <1>4, RekeyProps

LEMMA TickStep ==
  ASSUME IInv, Tick, UNCHANGED <<semVars, msgVars, completed>>
  PROVE  IInv'
<1>1. /\ ProcInv /\ Running(sched) /\ ClockInv /\ ProcTypeOK
      /\ completed \in BOOLEAN
  BY DEF IInv, ProcInv
<1>2. cont[current].op = "user" /\ ~Waking
  BY KTypes DEF Tick, InUser, Waking, In
<1>3. /\ IF slnempty THEN clockq' = TickKey ELSE UNCHANGED clockq
      /\ UNCHANGED <<slnempty, sltop, defclk, numproc, nextproc, pbase, stkfree>>
  BY DEF Tick
<1>4. PICK k \in Conts :
        /\ Goto(k) /\ k.op \in {"user", "wakeup_clkint"}
        /\ k.op = "wakeup_clkint" => sched' = sched
        /\ Running(sched') /\ Same(sched, sched', {})
  <2>1. CASE Goto(K("wakeup_clkint")) /\ UNCHANGED sched
    <3>1. /\ K("wakeup_clkint") \in Conts
          /\ K("wakeup_clkint").op = "wakeup_clkint"
      BY KTypes DEF KernelOps
    <3>2. Same(sched, sched', {})
      BY <2>1 DEF Same
    <3>3. QED BY <1>1, <2>1, <3>1, <3>2
  <2>2. CASE sched' = TickPreempt(sched) /\ UNCHANGED cont
    <3>1. cont[current] \in Conts /\ Goto(cont[current])
      BY <1>1, <2>2, StayGoto
    <3>2. Running(sched') /\ Same(sched, sched', {})
      BY <1>1, <2>2, TickPreemptProps
    <3>3. QED BY <1>2, <3>1, <3>2
  <2>3. QED BY <2>1, <2>2 DEF Tick
<1>5. /\ Keeps(sched, sched', {"PRWAIT"}) /\ Keeps(sched, sched', Asleep)
      /\ Keeps(sched, sched', {"PRRECV"}) /\ Keeps(sched, sched', {"PRTRECV"})
  BY <1>4, Moves DEF Asleep
<1>6. k.op \in ClockLoops => current' = current
  BY <1>4 DEF ClockLoops, current
<1>7. ClockInv'
  <2>1. CASE ~slnempty
    BY <1>1, <1>2, <1>3, <1>5, <2>1, ClockFrame DEF Asleep, ClockInv, ClockTypeOK
  <2>2. CASE slnempty
    <3>1. /\ clockq' \in Seq(Records(Pids)) /\ SamePids(clockq, clockq')
          /\ clockq \in Seq(Records(Pids))
      BY <1>1, <1>2, <1>3, <2>2, TickKeyProps, ClockFacts
    <3>2. /\ Members(clockq') = Members(clockq)
          /\ Distinct(clockq) => Distinct(clockq')
          /\ clockq' = EmptyQueue <=> clockq = EmptyQueue
          /\ clockq # EmptyQueue => FirstPid(clockq') = FirstPid(clockq)
      BY <3>1, SamePidsProps
    <3>3. ClockTypeOK'
      BY <1>1, <1>3, <3>1, EntriesRecords DEF ClockInv, ClockTypeOK
    <3>4. SleepersQueued'
      BY <1>1, <1>5, <3>2 DEF ClockInv, SleepersQueued, Keeps, Asleep
    <3>5. ClockCacheCoherent'
      BY <1>1, <1>2, <1>3, <3>2 DEF ClockInv, ClockCacheCoherent
    <3>6. QED BY <3>3, <3>4, <3>5 DEF ClockInv
  <2>3. QED BY <2>1, <2>2
<1>8. MsgInv'
  BY <1>2, <1>4, <1>5, <1>6, MsgCallFrame DEF SemLoops, ClockLoops
<1>9. QED BY <1>1, <1>2, <1>3, <1>4, <1>5, <1>6, <1>7, <1>8, OtherCall
          DEF SemLoops, ClockLoops, ProcTypeOK

\* A clock step that leaves the delta list and its cached head alone.
LEMMA QuietClockStep ==
  ASSUME IInv, NEW k \in Conts, Goto(k),
         UNCHANGED <<clockq, slnempty, sltop, semVars, msgVars, completed,
                     numproc, nextproc, pbase, stkfree>>, defclk' \in Nat,
         cont[current].op \in {"user", "clkint", "strtclk"},
         k.op \in {"user", "wakeup_strtclk", "strtclk"},
         k.op = "wakeup_strtclk" => current' = current,
         current = NULLPROC => k.op = "user",
         Running(sched'), Same(sched, sched', {})
  PROVE  IInv'
<1>1. ProcInv /\ ClockInv /\ ProcTypeOK /\ completed \in BOOLEAN
  BY DEF IInv, ProcInv
<1>2. /\ Keeps(sched, sched', {"PRWAIT"})
      /\ Keeps(sched, sched', {"PRSLEEP", "PRTRECV"})
      /\ Keeps(sched, sched', {"PRRECV"}) /\ Keeps(sched, sched', {"PRTRECV"})
  BY Moves
<1>3. ClockInv'
  BY <1>1, <1>2, ClockFrame DEF Waking, In
<1>4. MsgInv'
  BY <1>2, MsgCallFrame DEF SemLoops, ClockLoops
<1>5. QED BY <1>1, <1>2, <1>3, <1>4, OtherCall
          DEF SemLoops, ClockLoops, ProcTypeOK

LEMMA ClkintEndStep ==
  ASSUME IInv, ClkintEnd, UNCHANGED <<semVars, msgVars, completed>>
  PROVE  IInv'
<1>1. Running(sched) /\ defclk \in Nat
  BY DEF IInv, ProcInv, ClockInv, ClockTypeOK
<1>2. Running(sched') /\ Same(sched, sched', {})
  BY <1>1, TickPreemptProps DEF ClkintEnd
<1>3. QED BY <1>1, <1>2, QuietClockStep, KTypes
          DEF ClkintEnd, ToUser, In, clkVars

LEMMA StrtclkEndStep ==
  ASSUME IInv, StrtclkEnd, UNCHANGED <<semVars, msgVars, completed>>
  PROVE  IInv'
<1>1. Running(sched) /\ defclk \in Nat
  BY DEF IInv, ProcInv, ClockInv, ClockTypeOK
<1>2. Running(sched') /\ Same(sched, sched', {})
  <2>1. sched' = Resched(sched) \/ sched' = sched
    BY DEF StrtclkEnd
  <2>2. QED BY <1>1, <2>1, ReschedProps DEF Running, Same
<1>3. QED BY <1>1, <1>2, QuietClockStep, KTypes
          DEF StrtclkEnd, ToUser, In, clkVars

LEMMA StopclkStep ==
  ASSUME IInv, Stopclk, UNCHANGED <<semVars, msgVars, completed>>
  PROVE  IInv'
<1>1. Running(sched) /\ defclk \in Nat /\ ProcInv
  BY DEF IInv, ProcInv, ClockInv, ClockTypeOK
<1>2. cont[current].op = "user" /\ cont' = cont /\ sched' = sched
  BY KTypes DEF Stopclk, Calls, InUser, procVars
<1>3. cont[current] \in Conts /\ Goto(cont[current])
  BY <1>1, <1>2, StayGoto
<1>4. Same(sched, sched', {}) /\ defclk' \in Nat
  BY <1>1, <1>2 DEF Same, Stopclk
<1>5. QED BY <1>1, <1>2, <1>3, <1>4, QuietClockStep DEF Stopclk, procVars

LEMMA StrtclkStep ==
  ASSUME IInv, Strtclk, UNCHANGED <<semVars, msgVars, completed>>
  PROVE  IInv'
<1>1. Running(sched) /\ defclk \in Nat /\ ProcInv
  BY DEF IInv, ProcInv, ClockInv, ClockTypeOK
<1>2. /\ cont[current].op = "user" /\ current # NULLPROC /\ sched' = sched
      /\ defclk' \in Nat
  BY <1>1, KTypes DEF Strtclk, Calls, InUser
<1>3. Same(sched, sched', {}) /\ current' = current
  BY <1>2 DEF Same, current
<1>4. CASE cont' = cont
  <2>1. cont[current] \in Conts /\ Goto(cont[current])
    BY <1>1, <1>4, StayGoto
  <2>2. QED BY <1>1, <1>2, <1>3, <2>1, QuietClockStep DEF Strtclk
<1>5. CASE Goto(K(IF slnempty THEN "wakeup_strtclk" ELSE "strtclk"))
  <2>1. PICK op \in {"wakeup_strtclk", "strtclk"} : Goto(K(op))
    BY <1>5
  <2>2. K(op) \in Conts /\ K(op).op = op
    BY KTypes DEF KernelOps
  <2>3. QED BY <1>1, <1>2, <1>3, <2>1, <2>2, QuietClockStep DEF Strtclk
<1>6. QED BY <1>4, <1>5 DEF Strtclk

LEMMA WakeupTurnStep ==
  ASSUME IInv, WakeupTurn, UNCHANGED <<semVars, msgVars, completed>>
  PROVE  IInv'
<1>1. /\ ProcInv /\ Running(sched) /\ SchedInv(sched) /\ ClockInv /\ ProcTypeOK
      /\ completed \in BOOLEAN
  BY DEF IInv, ProcInv, Running
<1>2. cont[current].op \in ClockLoops /\ Waking /\ clockq # EmptyQueue
  BY DEF WakeupTurn, Waking, In, ClockLoops, HeadIsDue
<1>3. PICK p \in Pids : p = FirstPid(clockq) /\ sched.pstate[p] \in Asleep
  BY <1>1, <1>2, ClockFacts
<1>4. /\ clockq' = ButFirst(clockq) /\ sched' = Ready(sched, p)
      /\ UNCHANGED <<numproc, nextproc, pbase, stkfree, cont, slnempty, sltop,
                     defclk>>
  BY <1>3 DEF WakeupTurn
<1>5. p \in UserPids /\ sched.pstate[p] \notin Eligible
  BY <1>1, <1>3, PidFacts DEF SchedInv, Eligible, Asleep
<1>6. /\ Running(sched') /\ current' = current
      /\ sched'.pstate = [sched.pstate EXCEPT ![p] = "PRREADY"]
  BY <1>1, <1>4, <1>5, ReadyProps DEF current
<1>7. \A q \in Pids : sched'.pstate[q] = IF q = p THEN "PRREADY" ELSE sched.pstate[q]
  BY <1>1, <1>6, ProcFacts
<1>8. /\ clockq \in Seq(Records(Pids)) /\ Distinct(clockq)
      /\ \A q \in Pids : q \in Members(clockq) <=> sched.pstate[q] \in Asleep
  BY <1>1, ClockFacts
<1>9. /\ clockq' \in Seq(Records(Pids)) /\ Distinct(clockq')
      /\ Members(clockq') = Members(clockq) \ {p}
  BY <1>2, <1>3, <1>4, <1>8, ButFirstProps
<1>10. ClockInv'
  <2>1. ClockTypeOK'
    BY <1>1, <1>4, <1>9, EntriesRecords DEF ClockInv, ClockTypeOK
  <2>2. SleepersQueued'
    BY <1>7, <1>8, <1>9 DEF SleepersQueued, Asleep
  <2>3. ClockCacheCoherent'
    BY <1>2, <1>4, <1>6 DEF ClockCacheCoherent, Waking, In
  <2>4. QED BY <2>1, <2>2, <2>3 DEF ClockInv
<1>11. cont[current] \in Conts /\ Goto(cont[current])
  BY <1>1, <1>4, StayGoto
<1>12. Keeps(sched, sched', {"PRWAIT"})
  BY <1>3, <1>7 DEF Keeps, Asleep
<1>13. MsgInv'
  <2>1. MsgInv /\ \A q \in Pids : phasmsg'[q] = phasmsg[q] /\ cont'[q] = cont[q]
    BY <1>4 DEF IInv, msgVars
  <2>2. NoLostMessage'
    BY <1>3, <1>7, <2>1 DEF MsgInv, NoLostMessage, Asleep
  <2>3. QED BY <2>1, <2>2 DEF MsgInv, MsgTypeOK, msgVars
<1>14. cont[current].op \notin SemLoops /\ cont[current].op # "kill"
  BY <1>2 DEF ClockLoops, SemLoops
<1>15. current = NULLPROC =>
         cont[current].op \in {"user", "wakeup_clkint", "clkint"}
  BY <1>1 DEF ProcInv, ContInv
<1>16. QED BY <1>1, <1>4, <1>6, <1>10, <1>11, <1>12, <1>13, <1>14, <1>15,
              OtherCall DEF ProcTypeOK

LEMMA WakeupEndStep ==
  ASSUME IInv, WakeupEnd, UNCHANGED <<semVars, msgVars, completed>>
  PROVE  IInv'
<1>1. /\ ProcInv /\ Running(sched) /\ SchedInv(sched) /\ ClockInv /\ ProcTypeOK
      /\ completed \in BOOLEAN
  BY DEF IInv, ProcInv, Running
<1>2. PICK op \in {"clkint", "strtclk"} :
         /\ Goto(K(op))
         /\ op = "strtclk" => ~In("wakeup_clkint")
  BY DEF WakeupEnd
<1>3. K(op) \in Conts /\ K(op).op = op
  BY KTypes DEF KernelOps
<1>4. /\ cont[current].op \in ClockLoops /\ sched' = Resched(sched)
      /\ slnempty' = (clockq # EmptyQueue)
      /\ sltop' = IF clockq # EmptyQueue THEN FirstPid(clockq) ELSE sltop
      /\ UNCHANGED <<numproc, nextproc, pbase, stkfree, clockq, defclk>>
  BY DEF WakeupEnd, Waking, In, ClockLoops
<1>5. current = NULLPROC => op = "clkint"
  BY <1>1, <1>2, <1>4 DEF ProcInv, ContInv, In, ClockLoops
<1>6. Running(sched') /\ Same(sched, sched', {})
  BY <1>1, <1>4, ReschedProps
<1>7. /\ Keeps(sched, sched', {"PRWAIT"})
      /\ Keeps(sched, sched', {"PRSLEEP", "PRTRECV"})
      /\ Keeps(sched, sched', {"PRRECV"}) /\ Keeps(sched, sched', {"PRTRECV"})
  BY <1>6, Moves
<1>8. ClockInv'
  <2>1. clockq # EmptyQueue => FirstPid(clockq) \in Pids
    BY <1>1, ClockFacts
  <2>2. ClockTypeOK'
    BY <1>1, <1>4, <2>1 DEF ClockInv, ClockTypeOK
  <2>3. SleepersQueued'
    BY <1>1, <1>4, <1>7 DEF ClockInv, SleepersQueued, Keeps
  <2>4. ClockCacheCoherent'
    BY <1>4 DEF ClockCacheCoherent
  <2>5. QED BY <2>2, <2>3, <2>4 DEF ClockInv
<1>9. cont[current].op # "receive" /\ cont[current].op \notin SemLoops
  BY <1>4 DEF ClockLoops, SemLoops
<1>10. MsgInv'
  BY <1>2, <1>3, <1>5, <1>7, <1>9, MsgCallFrame DEF SemLoops, ClockLoops
<1>11. QED BY <1>1, <1>2, <1>3, <1>4, <1>5, <1>6, <1>7, <1>8, <1>9, <1>10,
              OtherCall DEF SemLoops, ClockLoops, ProcTypeOK

LEMMA ClockStep ==
  ASSUME IInv, ClockNext, UNCHANGED <<semVars, msgVars, completed>>
  PROVE  IInv'
  BY Zenon, SleepStep, TickStep, ClkintEndStep, WakeupTurnStep, WakeupEndStep,
     StopclkStep, StrtclkStep, StrtclkEndStep DEF ClockNext

----------------------------------------------------------------------------
(* Messages.                                                               *)

(***************************************************************************)
(* Delivering a message to p, from a process in its own code.              *)
(***************************************************************************)
LEMMA Delivered ==
  ASSUME ProcInv, ClockInv, MsgInv, ~Waking, NEW p, CanSend(p), NEW m \in Int,
         Deliver(p, m), SameLoops({"receive"}), UNCHANGED pnxtkin
  PROVE  /\ Running(sched') /\ Keeps(sched, sched', {"PRWAIT"})
         /\ ClockInv' /\ MsgInv'
<1>1. p \in UserPids /\ p \in Pids /\ phasmsg[p] = FALSE /\ Running(sched)
  BY PidFacts DEF CanSend, MsgInv, MsgTypeOK, ProcInv
<1> DEFINE waiting == sched.pstate[p] \in {"PRRECV", "PRTRECV"}
<1>2. /\ Running(sched') /\ Same(sched, sched', {p})
      /\ waiting => sched'.pstate[p] \in Eligible
      /\ ~waiting => sched' = sched
  <2>1. CASE waiting
    <3>1. sched' = ReadyResched(sched, p) /\ sched.pstate[p] \notin Eligible
      BY <2>1 DEF Deliver, Eligible
    <3>2. QED BY <1>1, <2>1, <3>1, ReadyReschedProps
  <2>2. CASE ~waiting
    BY <1>1, <2>2 DEF Deliver, Same
  <2>3. QED BY <2>1, <2>2
<1>3. Keeps(sched, sched', {"PRWAIT"})
  BY <1>2 DEF Same, Keeps, Eligible
<1>4. ClockInv'
  <2>1. CASE sched.pstate[p] = "PRTRECV"
    <3>1. Unsleep(p) /\ sched.pstate[p] \in Asleep /\ sched'.pstate[p] \notin Asleep
      BY <1>2, <2>1 DEF Deliver, Asleep, Eligible
    <3>2. \A q \in Pids \ {p} :
             sched.pstate[q] \in Asleep <=> sched'.pstate[q] \in Asleep
      BY <1>2 DEF Same, Eligible, Asleep
    <3>3. QED BY <1>1, <3>1, <3>2, SleepLeaves
  <2>2. CASE sched.pstate[p] # "PRTRECV"
    <3>1. UNCHANGED clkVars
      BY <2>2 DEF Deliver
    <3>2. Keeps(sched, sched', {"PRSLEEP", "PRTRECV"})
      BY <1>2, <2>2 DEF Same, Keeps, Eligible
    <3>3. QED BY <3>1, <3>2, ClockFrame DEF clkVars, ClockInv, ClockTypeOK
  <2>3. QED BY <2>1, <2>2
<1>5. MsgInv'
  <2>1. /\ pmsg' = [pmsg EXCEPT ![p] = m]
        /\ phasmsg' = [phasmsg EXCEPT ![p] = TRUE]
    BY DEF Deliver
  <2>2. MsgTypeOK'
    BY <2>1 DEF MsgInv, MsgTypeOK
  <2>3. \A q \in Pids : phasmsg'[q] = IF q = p THEN TRUE ELSE phasmsg[q]
    BY <2>1 DEF MsgInv, MsgTypeOK
  <2>4. sched'.pstate[p] \notin {"PRRECV", "PRTRECV"}
    BY <1>2 DEF Eligible
  <2>5. \A q \in Pids \ {p} :
           /\ sched'.pstate[q] \in {"PRRECV", "PRTRECV"}
                => sched.pstate[q] \in {"PRRECV", "PRTRECV"}
           /\ sched'.pstate[q] # "PRRECV" => sched.pstate[q] # "PRRECV"
    BY <1>2 DEF Same, Eligible
  <2>6. \A q \in Pids : cont'[q].op = "receive" => cont[q].op = "receive"
    BY DEF SameLoops
  <2>7. NoLostMessage'
    BY <2>3, <2>4, <2>5, <2>6 DEF MsgInv, NoLostMessage
  <2>8. QED BY <2>2, <2>7 DEF MsgInv
<1>6. QED BY <1>2, <1>3, <1>4, <1>5

LEMMA SendStep ==
  ASSUME IInv, NEW p \in UserPids, NEW m \in Msgs, Send(p, m),
         UNCHANGED <<semVars, completed>>
  PROVE  IInv'
<1>1. /\ ProcInv /\ ClockInv /\ MsgInv /\ ProcTypeOK /\ completed \in BOOLEAN
  BY DEF IInv, ProcInv
<1>2. /\ cont[current].op = "user" /\ cont' = cont /\ ~Waking
      /\ CanSend(p) /\ Deliver(p, m) /\ UNCHANGED pnxtkin
      /\ UNCHANGED <<numproc, nextproc, pbase, stkfree>>
  BY KTypes DEF Send, Calls, InUser, Waking, In
<1>3. cont[current] \in Conts /\ Goto(cont[current])
  BY <1>1, <1>2, StayGoto
<1>4. SameLoops({"receive"}) /\ m \in Int
  BY <1>2, MsgAssumption DEF SameLoops
<1>5. /\ Running(sched') /\ Keeps(sched, sched', {"PRWAIT"})
      /\ ClockInv' /\ MsgInv'
  BY <1>1, <1>2, <1>4, Delivered
<1>6. QED BY <1>1, <1>2, <1>3, <1>5, OtherCall
          DEF SemLoops, ClockLoops, ProcTypeOK

(***************************************************************************)
(* The current process takes its message.                                  *)
(***************************************************************************)
LEMMA TakeStep ==
  ASSUME IInv, NEW k \in Conts, Goto(k), TakeMsg, k.op = "user",
         cont[current].op \in {"user", "receive", "recvtim"},
         UNCHANGED <<sched, numproc, nextproc, pbase, stkfree, clkVars, pmsg,
                     pnxtkin, semVars, completed>>
  PROVE  IInv'
<1>1. /\ ProcInv /\ Running(sched) /\ ClockInv /\ MsgInv /\ ProcTypeOK
      /\ completed \in BOOLEAN
  BY DEF IInv, ProcInv
<1>2. /\ current \in Pids /\ sched.pstate[current] = "PRCURR"
      /\ cont \in [Pids -> Conts]
  BY <1>1, ProcFacts
<1>3. /\ Keeps(sched, sched', {"PRWAIT"}) /\ Running(sched')
      /\ Keeps(sched, sched', {"PRSLEEP", "PRTRECV"})
  BY <1>1 DEF Keeps
<1>4. ClockInv'
  BY <1>1, <1>3, ClockFrame DEF clkVars, ClockInv, ClockTypeOK, Waking, In
<1>5. MsgInv'
  <2>1. MsgTypeOK'
    BY <1>1, <1>2 DEF MsgInv, MsgTypeOK, TakeMsg
  <2>2. /\ \A q \in Pids \ {current} : phasmsg'[q] = phasmsg[q] /\ cont'[q] = cont[q]
        /\ phasmsg'[current] = FALSE /\ cont'[current].op = "user"
    BY <1>1, <1>2 DEF MsgInv, MsgTypeOK, TakeMsg, Goto
  <2>3. NoLostMessage'
    BY <1>1, <1>2, <2>2 DEF MsgInv, NoLostMessage
  <2>4. QED BY <2>1, <2>3 DEF MsgInv
<1>6. QED BY <1>1, <1>3, <1>4, <1>5, OtherCall
          DEF SemLoops, ClockLoops, ProcTypeOK

(***************************************************************************)
(* The current process, with no message, waits for one.                    *)
(***************************************************************************)
LEMMA WaitMsg ==
  ASSUME IInv, Calls, ~phasmsg[current], NEW k \in Conts, Goto(k),
         NEW st \in {"PRRECV", "PRTRECV"},
         k.op = IF st = "PRRECV" THEN "receive" ELSE "recvtim",
         sched' = Block(sched, st), UNCHANGED msgVars
  PROVE  /\ Running(sched') /\ sched'.pstate[current] = st
         /\ Same(sched, sched', {current})
         /\ Keeps(sched, sched', {"PRWAIT"}) /\ MsgInv'
<1>1. ProcInv /\ Running(sched) /\ MsgInv
  BY DEF IInv, ProcInv
<1>2. /\ current \in Pids /\ sched.pstate[current] = "PRCURR"
      /\ cont \in [Pids -> Conts] /\ current # NULLPROC
  BY <1>1, ProcFacts DEF Calls
<1>3. /\ Running(sched') /\ sched'.pstate[current] = st
      /\ Same(sched, sched', {current})
  <2>1. st \in PrStates \ Eligible
    BY DEF PrStates, Eligible
  <2>2. QED BY <1>1, <1>2, <2>1, BlockProps DEF current
<1>4. Keeps(sched, sched', {"PRWAIT"})
  BY <1>2, <1>3 DEF Same, Keeps, Eligible
<1>5. \A q \in Pids : cont'[q] = IF q = current THEN k ELSE cont[q]
  BY <1>2 DEF Goto
<1>6. NoLostMessage'
  <2>1. ASSUME NEW q \in Pids
        PROVE  /\ sched'.pstate[q] \in {"PRRECV", "PRTRECV"} => ~phasmsg'[q]
               /\ cont'[q].op = "receive" /\ sched'.pstate[q] # "PRRECV"
                    => phasmsg'[q]
    <3>1. phasmsg'[q] = phasmsg[q]
      BY DEF msgVars
    <3>2. CASE q = current
      BY <1>3, <1>5, <3>1, <3>2
    <3>3. CASE q # current
      <4>1. /\ sched'.pstate[q] \in {"PRRECV", "PRTRECV"}
                 => sched.pstate[q] \in {"PRRECV", "PRTRECV"}
            /\ sched'.pstate[q] # "PRRECV" => sched.pstate[q] # "PRRECV"
        BY <1>3, <3>3 DEF Same, Eligible
      <4>2. QED BY <1>1, <1>5, <3>1, <3>3, <4>1 DEF MsgInv, NoLostMessage
    <3>4. QED BY <3>2, <3>3
  <2>2. QED BY <2>1 DEF NoLostMessage
<1>7. MsgInv'
  BY <1>1, <1>6 DEF MsgInv, MsgTypeOK, msgVars
<1>8. QED BY <1>3, <1>4, <1>7

LEMMA ReceiveStep ==
  ASSUME IInv, Receive, UNCHANGED <<semVars, completed>>
  PROVE  IInv'
<1>1. /\ ProcInv /\ ClockInv /\ ProcTypeOK /\ completed \in BOOLEAN
  BY DEF IInv, ProcInv
<1>2. cont[current].op = "user" /\ Calls /\ current # NULLPROC /\ ~Waking
  BY KTypes DEF Receive, Calls, InUser, Waking, In
<1>3. UNCHANGED <<numproc, nextproc, pbase, stkfree, clkVars, pmsg, pnxtkin>>
  BY DEF Receive
<1>4. CASE phasmsg[current]
  <2>1. TakeMsg /\ UNCHANGED <<sched, cont>>
    BY <1>4 DEF Receive
  <2>2. cont[current] \in Conts /\ Goto(cont[current])
    BY <1>1, <2>1, StayGoto
  <2>3. QED BY <1>2, <1>3, <2>1, <2>2, TakeStep
<1>5. CASE ~phasmsg[current]
  <2> DEFINE k == K("receive")
  <2>1. k \in Conts /\ k.op = "receive"
    BY KTypes DEF KernelOps
  <2>2. Goto(k) /\ sched' = Block(sched, "PRRECV") /\ UNCHANGED phasmsg
    BY <1>5 DEF Receive
  <2> HIDE DEF k
  <2>3. UNCHANGED msgVars
    BY <1>3, <2>2 DEF msgVars
  <2>4. /\ Running(sched') /\ sched'.pstate[current] = "PRRECV"
        /\ Same(sched, sched', {current})
        /\ Keeps(sched, sched', {"PRWAIT"}) /\ MsgInv'
    BY <1>2, <1>5, <2>1, <2>2, <2>3, WaitMsg
  <2>5. Keeps(sched, sched', {"PRSLEEP", "PRTRECV"})
    BY <1>1, <2>4, ProcFacts DEF Same, Keeps, Eligible
  <2>6. ClockInv'
    BY <1>1, <1>2, <1>3, <2>5, ClockFrame DEF clkVars, ClockInv, ClockTypeOK
  <2>7. QED BY <1>1, <1>2, <1>3, <2>1, <2>2, <2>4, <2>6, OtherCall
            DEF SemLoops, ClockLoops, ProcTypeOK
<1>6. QED BY <1>4, <1>5

LEMMA RecvtimStep ==
  ASSUME IInv, NEW w \in RecvTicks, Recvtim(w), UNCHANGED <<semVars, completed>>
  PROVE  IInv'
<1>1. /\ ProcInv /\ ClockInv /\ ProcTypeOK /\ completed \in BOOLEAN
  BY DEF IInv, ProcInv
<1>2. cont[current].op = "user" /\ Calls /\ current # NULLPROC
  BY KTypes DEF Recvtim, Calls, InUser
<1>3. UNCHANGED <<numproc, nextproc, pbase, stkfree, pmsg, pnxtkin>>
  BY DEF Recvtim
<1>4. CASE phasmsg[current]
  <2>1. TakeMsg /\ UNCHANGED <<sched, cont, clkVars>>
    BY <1>4 DEF Recvtim
  <2>2. cont[current] \in Conts /\ Goto(cont[current])
    BY <1>1, <2>1, StayGoto
  <2>3. QED BY <1>2, <1>3, <2>1, <2>2, TakeStep
<1>5. CASE ~phasmsg[current]
  <2> DEFINE k == K("recvtim")
  <2>1. k \in Conts /\ k.op = "recvtim"
    BY KTypes DEF KernelOps
  <2>2. /\ Goto(k) /\ sched' = Block(sched, "PRTRECV") /\ UNCHANGED phasmsg
        /\ EnterClockq(current, w)
    BY <1>5 DEF Recvtim
  <2> HIDE DEF k
  <2>3. UNCHANGED msgVars
    BY <1>3, <2>2 DEF msgVars
  <2>4. /\ Running(sched') /\ sched'.pstate[current] = "PRTRECV"
        /\ Same(sched, sched', {current})
        /\ Keeps(sched, sched', {"PRWAIT"}) /\ MsgInv'
    BY <1>2, <1>5, <2>1, <2>2, <2>3, WaitMsg
  <2>5. ClockInv'
    <3>1. \A q \in Pids \ {current} :
             sched.pstate[q] \in Asleep <=> sched'.pstate[q] \in Asleep
      BY <2>4 DEF Same, Eligible, Asleep
    <3>2. /\ sched.pstate[current] \notin Asleep /\ current \in Pids
          /\ sched'.pstate[current] \in Asleep
      BY <1>1, <2>4, ProcFacts DEF Asleep
    <3>3. w \in Int
      BY MsgAssumption
    <3>4. QED BY <1>1, <2>2, <3>1, <3>2, <3>3, SleepJoins
  <2>6. QED BY <1>1, <1>2, <1>3, <2>1, <2>2, <2>4, <2>5, OtherCall
            DEF SemLoops, ClockLoops, ProcTypeOK
<1>6. QED BY <1>4, <1>5

LEMMA MsgStep ==
  ASSUME IInv, MsgNext, UNCHANGED <<semVars, completed>>
  PROVE  IInv'
<1>1. ProcInv
  BY DEF IInv
<1>2. ASSUME ReceiveEnd \/ RecvtimEnd PROVE IInv'
  <2>1. User \in Conts /\ User.op = "user"
    BY KTypes
  <2>2. QED BY <1>2, <2>1, TakeStep DEF ReceiveEnd, RecvtimEnd, In, ToUser
<1>3. ASSUME Recvclr PROVE IInv'
  <2>1. cont[current].op = "user" /\ cont' = cont
    BY <1>3, KTypes DEF Recvclr, Calls, InUser, procVars
  <2>2. cont[current] \in Conts /\ Goto(cont[current])
    BY <1>1, <2>1, StayGoto
  <2>3. QED BY <1>3, <2>1, <2>2, TakeStep DEF Recvclr, procVars
<1>4. ASSUME NEW p \in UserPids, NEW nok \in Noks, Setnok(nok, p) PROVE IInv'
  <2>1. nok \in Int
    BY MsgAssumption
  <2>2. MsgInv'
    BY <1>4, <2>1 DEF Setnok, procVars, IInv, MsgInv, MsgTypeOK, NoLostMessage
  <2>3. ClockInv'
    BY <1>4 DEF Setnok, procVars, clkVars, IInv, ClockInv, ClockTypeOK,
                SleepersQueued, ClockCacheCoherent, Waking, In, current
  <2>4. /\ cont[current].op = "user" /\ cont' = cont /\ sched' = sched
        /\ UNCHANGED <<numproc, nextproc, pbase, stkfree>>
    BY <1>4, KTypes DEF Setnok, Calls, InUser, procVars
  <2>5. cont[current] \in Conts /\ Goto(cont[current])
    BY <1>1, <2>4, StayGoto
  <2>6. Keeps(sched, sched', {"PRWAIT"}) /\ Running(sched')
    BY <1>1, <2>4 DEF Keeps, ProcInv
  <2>7. numproc \in Int /\ completed \in BOOLEAN
    BY DEF IInv, ProcInv, ProcTypeOK
  <2>8. QED BY <2>2, <2>3, <2>4, <2>5, <2>6, <2>7, OtherCall
            DEF SemLoops, ClockLoops
<1>5. QED BY Zenon, <1>2, <1>3, <1>4, SendStep, ReceiveStep, RecvtimStep DEF MsgNext
----------------------------------------------------------------------------
(* create and kill.                                                        *)

\* getstk takes the highest of the free stacks.
LEMMA TopStackProps ==
  ASSUME stkfree \subseteq Stacks, stkfree # {}
  PROVE  TopStack \in stkfree /\ TopStack \in Nat
<1> DEFINE T == { STACKS - b : b \in stkfree }
<1>1. STACKS \in Nat /\ stkfree \subseteq Int
  BY ProcAssumption DEF Stacks
<1>2. T # {}
  OBVIOUS
<1>3. T \subseteq Nat
  BY <1>1 DEF Stacks
<1> HIDE DEF T
<1>4. PICK m \in T : \A n \in T : m <= n
  BY <1>2, <1>3, LeastNat
<1>5. PICK b \in stkfree : m = STACKS - b
  BY <1>4 DEF T
<1>6. \A c \in stkfree : STACKS - b <= STACKS - c
  BY <1>4, <1>5 DEF T
<1>7. \A c \in stkfree : c <= b
  BY <1>1, <1>5, <1>6
<1>8. TopStack \in stkfree
  BY <1>7 DEF TopStack
<1>9. QED BY <1>8 DEF Stacks

LEMMA NewSlotStep ==
  ASSUME IInv, NEW prio \in Prios, NewSlot(prio)
  PROVE  IInv'
<1>1. /\ ProcInv /\ ProcTypeOK /\ Running(sched) /\ SemInv /\ ClockInv /\ MsgInv
      /\ completed \in BOOLEAN
  BY DEF IInv, ProcInv
<1>2. PICK p : p = NewPid
  OBVIOUS
<1>3. /\ p \in Pids /\ sched.pstate[p] = "PRFREE" /\ Below(p, NPROC) \in Pids
  BY <1>1, <1>2, NewPidProps DEF NewSlot, Create, CreateFails
<1>4. TopStack \in stkfree /\ TopStack \in Nat
  BY <1>1, TopStackProps DEF NewSlot, Create, ProcTypeOK
<1>5. /\ InUser
      /\ sched'    = [sched EXCEPT !.pstate[p] = "PRSUSP", !.pprio[p] = prio]
      /\ numproc'  = numproc + 1
      /\ nextproc' = Below(p, NPROC)
      /\ pbase'    = [pbase EXCEPT ![p] = TopStack]
      /\ stkfree'  = stkfree \ {TopStack}
      /\ cont'     = [cont EXCEPT ![p] = User]
      /\ psem'     = [psem EXCEPT ![p] = 0]
      /\ phasmsg'  = [phasmsg EXCEPT ![p] = FALSE]
      /\ pnxtkin'  = [pnxtkin EXCEPT ![p] = BADPID]
      /\ UNCHANGED <<sstate, semcnt, squeue, nextsem, pwaitret, clkVars, pmsg,
                     completed>>
  BY <1>2 DEF NewSlot, Create, Calls
<1>6. /\ Running(sched') /\ current' = current
      /\ sched'.pstate[p] = "PRSUSP" /\ Same(sched, sched', {p})
  <2>1. prio \in Nat
    BY ProcAssumption
  <2>2. sched' = Created(sched, p, prio)
    BY <1>5 DEF Created
  <2>3. /\ Running(sched') /\ sched'.currpid = sched.currpid
        /\ sched'.pstate[p] = "PRSUSP" /\ Same(sched, sched', {p})
    <3>1. Running(sched) /\ p \in Pids /\ sched.pstate[p] = "PRFREE"
      BY <1>1, <1>3
    <3>2. QED BY <2>1, <2>2, <3>1, CreatedProps
  <2>4. QED BY <2>3 DEF current
<1>7. /\ cont[current].op = "user" /\ User.op = "user" /\ User \in Conts
      /\ cont \in [Pids -> Conts] /\ current \in Pids
  BY <1>1, <1>5, KTypes, ProcFacts DEF InUser
<1>8. \A q \in Pids : cont'[q] = IF q = p THEN User ELSE cont[q]
  BY <1>5, <1>7
<1>9. \A q \in Pids : cont[q].op \notin SemLoops \cup ClockLoops
  BY <1>1, <1>7 DEF ProcInv, ContInv, SemLoops, ClockLoops
<1>10. ProcInv'
  <2>1. ContInv'
    <3>1. \A q \in Pids : cont'[q].op \notin SemLoops \cup ClockLoops
      BY <1>7, <1>8, <1>9 DEF SemLoops, ClockLoops
    <3>2. /\ cont[NULLPROC].op \in {"user", "wakeup_clkint", "clkint"}
          /\ \A q \in Pids : cont[q].op = "kill" => cont[q].arg \in UserPids
      BY <1>1 DEF ProcInv, ContInv
    <3>3. QED BY <1>7, <1>8, <3>1, <3>2, PidFacts DEF ContInv
  <2>2. numproc' \in Int /\ nextproc' \in Pids /\ stkfree' \subseteq Stacks
    BY <1>1, <1>3, <1>5 DEF ProcTypeOK
  <2>3. pbase' \in [Pids -> Nat] /\ cont' \in [Pids -> Conts]
    BY <1>1, <1>4, <1>5, <1>7 DEF ProcTypeOK
  <2>4. sched' \in Scheds
    BY <1>6 DEF Running, SchedInv
  <2>5. QED BY <1>6, <2>1, <2>2, <2>3, <2>4 DEF ProcInv, ProcTypeOK
<1>11. /\ Keeps(sched, sched', {"PRWAIT"})
       /\ Keeps(sched, sched', {"PRSLEEP", "PRTRECV"})
       /\ Keeps(sched, sched', {"PRRECV"}) /\ Keeps(sched, sched', {"PRTRECV"})
  BY <1>3, <1>6, Moves DEF Waits
<1>12. SemInv'
  <2>1. SemTypeOK' /\ ScanInv'
    BY <1>1, <1>5 DEF SemInv, SemTypeOK, ScanInv
  <2>2. \A q \in Pids \ {p} : psem'[q] = psem[q]
    BY <1>1, <1>5 DEF SemInv, SemTypeOK
  <2>3. WaitersQueued'
    BY <1>1, <1>3, <1>5, <1>6, <1>11, <2>2 DEF SemInv, WaitersQueued, Keeps
  <2>4. LoopInv'
    BY <1>7, <1>8, <1>9 DEF LoopInv, SemLoops
  <2>5. \A op \in {"sreset", "sdelete"}, s \in Sems : ~InLoop(op, s)
    BY <1>9 DEF InLoop, SemLoops
  <2>6. SemCountIsQueue'
    BY <1>1, <1>5, <2>5 DEF SemInv, SemCountIsQueue
  <2>7. QED BY <2>1, <2>3, <2>4, <2>6 DEF SemInv
<1>13. ClockInv'
  <2>1. ~Waking
    BY <1>7 DEF Waking, In
  <2>2. UNCHANGED <<clockq, slnempty, sltop>> /\ defclk' \in Nat
    BY <1>1, <1>5 DEF clkVars, ClockInv, ClockTypeOK
  <2>3. QED BY <1>1, <1>11, <2>1, <2>2, ClockFrame
<1>14. MsgInv'
  <2>1. MsgTypeOK'
    <3>1. /\ pmsg \in [Pids -> Int] /\ phasmsg \in [Pids -> BOOLEAN]
          /\ pnxtkin \in [Pids -> Int]
      BY <1>1 DEF MsgInv, MsgTypeOK
    <3>2. phasmsg' \in [Pids -> BOOLEAN] /\ pmsg' \in [Pids -> Int]
      BY <1>5, <3>1
    <3>3. pnxtkin' \in [Pids -> Int]
      <4>1. BADPID \in Int
        BY DEF BADPID
      <4>2. QED BY <1>5, <3>1, <4>1
    <3>4. QED BY <3>2, <3>3 DEF MsgTypeOK
  <2>2. /\ \A q \in Pids \ {p} : phasmsg'[q] = phasmsg[q] /\ cont'[q] = cont[q]
        /\ cont'[p].op = "user"
    BY <1>1, <1>3, <1>5, <1>7, <1>8 DEF MsgInv, MsgTypeOK
  <2>3. NoLostMessage'
    BY <1>1, <1>6, <1>11, <2>2 DEF MsgInv, NoLostMessage, Keeps
  <2>4. QED BY <2>1, <2>3 DEF MsgInv
<1>15. QED BY <1>1, <1>5, <1>10, <1>12, <1>13, <1>14 DEF IInv

LEMMA KillStep ==
  ASSUME IInv, NEW p \in UserPids, Kill(p)
  PROVE  IInv'
<1>1. /\ ProcInv /\ ClockInv /\ MsgInv /\ ProcTypeOK /\ completed \in BOOLEAN
      /\ Running(sched)
  BY DEF IInv, ProcInv
<1> DEFINE k == K1("kill", p)
<1>2. k \in Conts /\ k.op = "kill" /\ k.arg = p /\ p \in Nat
  BY KTypes, PidFacts DEF KernelOps
<1>3. Goto(k) /\ UNCHANGED <<nextproc, pbase, stkfree, semVars, pnxtkin>>
  BY DEF Kill
<1> HIDE DEF k
<1>4. cont[current].op = "user" /\ ~Waking /\ current # NULLPROC
  BY KTypes DEF Kill, Calls, InUser, Waking, In
<1>5. numproc' \in Int /\ completed' \in BOOLEAN
  BY <1>1 DEF Kill, CountDeath, ProcTypeOK
<1>6. SameLoops({"receive"})
  BY <1>1, <1>2, <1>3, <1>4, GotoCont DEF SemLoops, ClockLoops
<1>7. /\ Running(sched') /\ Keeps(sched, sched', {"PRWAIT"})
      /\ ClockInv' /\ MsgInv'
  <2> DEFINE kin == pnxtkin[p]
  <2>1. CASE CanSend(kin)
    <3>1. Deliver(kin, p) /\ p \in Int
      BY <1>2, <2>1 DEF Kill, NotifyKin
    <3>2. QED BY <1>1, <1>3, <1>4, <1>6, <2>1, <3>1, Delivered
  <2>2. CASE ~CanSend(kin)
    <3>1. UNCHANGED <<sched, clkVars, pmsg, phasmsg>>
      BY <2>2 DEF Kill, NotifyKin
    <3>2. /\ Keeps(sched, sched', {"PRWAIT"})
          /\ Keeps(sched, sched', {"PRSLEEP", "PRTRECV"})
          /\ Keeps(sched, sched', {"PRRECV"}) /\ Keeps(sched, sched', {"PRTRECV"})
      BY <3>1 DEF Keeps
    <3>3. ClockInv'
      BY <1>1, <1>4, <3>1, <3>2, ClockFrame DEF clkVars, ClockInv, ClockTypeOK
    <3>4. MsgInv'
      BY <1>1, <1>3, <1>6, <3>1, <3>2, MsgFrame DEF msgVars
    <3>5. QED BY <1>1, <3>1, <3>2, <3>3, <3>4
  <2>3. QED BY <2>1, <2>2
<1>8. QED BY <1>2, <1>3, <1>4, <1>5, <1>7, OtherCall DEF SemLoops, ClockLoops

\* The rest of kill, whatever became of its victim in the meantime.
LEMMA KillEndStep ==
  ASSUME IInv, KillEnd
  PROVE  IInv'
<1>1. /\ ProcInv /\ ProcTypeOK /\ Running(sched) /\ SemInv /\ SemTypeOK
      /\ ClockInv /\ MsgInv /\ completed \in BOOLEAN
  BY DEF IInv, ProcInv, SemInv
<1>2. PICK p : p = cont[current].arg
  OBVIOUS
<1>3. /\ current \in Pids /\ sched.pstate[current] = "PRCURR"
      /\ cont \in [Pids -> Conts] /\ cont[current].op = "kill"
      /\ \A q \in Pids : sched.pstate[q] = "PRCURR" => q = current
  BY <1>1, ProcFacts DEF KillEnd, In
<1>4. /\ p \in UserPids /\ p \in Pids /\ current # NULLPROC /\ ~Waking
      /\ \A q \in Pids : cont[q].op \notin SemLoops \cup ClockLoops
  BY <1>1, <1>2, <1>3, PidFacts
    DEF ProcInv, ContInv, SemLoops, ClockLoops, Waking, In
<1> DEFINE st == sched.pstate[p]
<1>5. /\ stkfree' = stkfree \cup ({pbase[p]} \cap Stacks)
      /\ IF st = "PRWAIT"
         THEN /\ semcnt' = [semcnt EXCEPT ![psem[p]] = @ + 1]
              /\ squeue' = [squeue EXCEPT ![psem[p]] = Dequeue(@, p)]
         ELSE UNCHANGED <<semcnt, squeue>>
      /\ IF st \in Asleep THEN Unsleep(p) ELSE UNCHANGED clkVars
      /\ sched' = IF st = "PRCURR" THEN Block(sched, "PRFREE")
                  ELSE Retired(sched, p, "PRFREE")
      /\ Bury(p)
      /\ UNCHANGED <<numproc, nextproc, pbase, sstate, nextsem, psem, pwaitret,
                     msgVars, completed>>
  BY <1>2 DEF KillEnd, UnWait, Retired, Asleep
<1>6. /\ Running(sched') /\ sched'.pstate[p] = "PRFREE" /\ Same(sched, sched', {p})
  <2>1. "PRFREE" \in PrStates \ Eligible
    BY DEF PrStates, Eligible
  <2>2. CASE st = "PRCURR"
    <3>1. p = current /\ sched' = Block(sched, "PRFREE")
      BY <1>3, <1>4, <1>5, <2>2
    <3>2. QED BY <1>1, <1>4, <2>1, <3>1, BlockProps DEF current
  <2>3. CASE st # "PRCURR"
    BY <1>1, <1>4, <1>5, <2>1, <2>3, RetiredProps
  <2>4. QED BY <2>2, <2>3
<1>7. /\ User \in Conts /\ User.op = "user"
      /\ cont' \in [Pids -> Conts]
      /\ \A q \in Pids : cont'[q] = IF q \in {p, current} THEN User ELSE cont[q]
  BY <1>3, <1>4, <1>5, KTypes DEF Bury
<1>8. ProcInv'
  <2>1. ContInv'
    <3>1. \A q \in Pids : cont'[q].op \notin SemLoops \cup ClockLoops
      BY <1>4, <1>7 DEF SemLoops, ClockLoops
    <3>2. /\ cont[NULLPROC].op \in {"user", "wakeup_clkint", "clkint"}
          /\ \A q \in Pids : cont[q].op = "kill" => cont[q].arg \in UserPids
      BY <1>1 DEF ProcInv, ContInv
    <3>3. QED BY <1>7, <3>1, <3>2, PidFacts DEF ContInv
  <2>2. stkfree' \subseteq Stacks
    BY <1>1, <1>5 DEF ProcTypeOK
  <2>3. sched' \in Scheds
    BY <1>6 DEF Running, SchedInv
  <2>4. QED BY <1>1, <1>5, <1>6, <1>7, <2>1, <2>2, <2>3 DEF ProcInv, ProcTypeOK
<1>9. \A q \in Pids \ {p} : \A W : W \cap Eligible = {} =>
        (sched.pstate[q] \in W <=> sched'.pstate[q] \in W)
  BY <1>6 DEF Same
<1>10. ClockInv'
  <2>1. CASE st \in Asleep
    <3>1. \A q \in Pids \ {p} :
             sched.pstate[q] \in Asleep <=> sched'.pstate[q] \in Asleep
      BY <1>6 DEF Same, Eligible, Asleep
    <3>2. sched'.pstate[p] \notin Asleep /\ Unsleep(p)
      BY <1>5, <1>6, <2>1 DEF Asleep
    <3>3. QED BY <1>1, <1>4, <2>1, <3>1, <3>2, SleepLeaves
  <2>2. CASE st \notin Asleep
    <3>1. Keeps(sched, sched', {"PRSLEEP", "PRTRECV"})
      BY <1>6, <2>2 DEF Same, Keeps, Eligible, Asleep
    <3>2. UNCHANGED <<clockq, slnempty, sltop>> /\ defclk' \in Nat
      BY <1>1, <1>5, <2>2 DEF clkVars, ClockInv, ClockTypeOK
    <3>3. QED BY <1>1, <1>4, <3>1, <3>2, ClockFrame
  <2>3. QED BY <2>1, <2>2
<1>11. MsgInv'
  <2>1. \A q \in Pids : cont'[q].op = "receive" => q # p /\ cont[q].op = "receive"
    BY <1>7
  <2>2. NoLostMessage'
    BY <1>1, <1>5, <1>6, <2>1 DEF MsgInv, NoLostMessage, msgVars, Same, Eligible
  <2>3. QED BY <1>1, <1>5, <2>2 DEF MsgInv, MsgTypeOK, msgVars
<1>12. SemInv'
  <2>1. LoopInv'
    BY <1>4, <1>7 DEF LoopInv, SemLoops
  <2>2. ScanInv'
    BY <1>1, <1>5 DEF SemInv, ScanInv
  <2>3. \A op \in {"sreset", "sdelete"} : \A x \in Sems : ~InLoop(op, x)
    BY <1>4 DEF InLoop, SemLoops
  <2>4. CASE st = "PRWAIT"
    <3>1. PICK s \in Sems : s = psem[p] /\ p \in Members(squeue[s])
      BY <1>1, <1>4, <2>4 DEF SemInv, WaitersQueued
    <3>2. /\ squeue[s] \in Seq(Records(Pids)) /\ Distinct(squeue[s])
          /\ semcnt[s] \in Int /\ semcnt \in [Sems -> Int]
      BY <1>1, SemFacts
    <3> DEFINE r == Dequeue(squeue[s], p)
    <3>3. /\ r \in Seq(Records(Pids)) /\ Distinct(r)
          /\ Len(r) = Len(squeue[s]) - 1
          /\ Members(r) = Members(squeue[s]) \ {p}
      BY <3>1, <3>2, DequeueProps
    <3>4. /\ semcnt' = [semcnt EXCEPT ![s] = @ + 1]
          /\ squeue' = [squeue EXCEPT ![s] = r]
      BY <1>5, <2>4, <3>1
    <3> HIDE DEF r
    <3>5. \A q \in Pids \ {p} :
            sched.pstate[q] = "PRWAIT" <=> sched'.pstate[q] = "PRWAIT"
      BY <1>6 DEF Same, Eligible
    <3>6. /\ squeue' \in [Sems -> Seq(Entries)]
          /\ \A x \in Sems : squeue'[x] = IF x = s THEN r ELSE squeue[x]
          /\ WaitersQueued'
      BY <1>1, <1>5, <1>6, <3>1, <3>3, <3>4, <3>5, Leaves
    <3>7. \A x \in Sems : semcnt'[x] = IF x = s THEN semcnt[s] + 1 ELSE semcnt[x]
      BY <3>2, <3>4
    <3>8. SemTypeOK'
      <4>1. semcnt' \in [Sems -> Int]
        BY <3>2, <3>4
      <4>2. QED BY <1>1, <1>5, <3>6, <4>1 DEF SemTypeOK
    <3>9. squeue[s] # EmptyQueue /\ sstate[s] = "SUSED"
      <4>1. squeue[s] # EmptyQueue
        BY <3>1, EmptyQueueProps
      <4>2. sstate[s] \in {"SFREE", "SUSED"}
        BY <1>1 DEF SemTypeOK
      <4>3. QED BY <1>1, <2>3, <4>1, <4>2 DEF SemInv, SemCountIsQueue
    <3>10. Len(squeue[s]) # 0 /\ Len(squeue[s]) \in Nat
      BY <3>2, <3>9, EmptyQueueLen, ListFacts
    <3>11. semcnt[s] < 0 /\ Len(squeue[s]) = -semcnt[s]
      BY <1>1, <2>3, <3>2, <3>9, <3>10, NegativeCount
    <3>12. Len(squeue'[s]) = IF semcnt'[s] < 0 THEN -semcnt'[s] ELSE 0
      <4>1. Len(squeue'[s]) = -semcnt[s] - 1 /\ semcnt'[s] = semcnt[s] + 1
        BY <3>3, <3>6, <3>7, <3>11
      <4>2. QED BY <3>2, <3>11, <4>1
    <3>13. CountOK(s)'
      BY <1>5, <3>9, <3>12 DEF CountOK
    <3>14. SemCountIsQueue'
      BY <1>1, <1>5, <2>3, <3>6, <3>7, <3>13, CountStep
    <3>15. QED BY <2>1, <2>2, <3>6, <3>8, <3>14 DEF SemInv
  <2>5. CASE st # "PRWAIT"
    <3>1. UNCHANGED semVars
      BY <1>5, <2>5 DEF semVars
    <3>2. Keeps(sched, sched', {"PRWAIT"})
      BY <1>6, <2>5 DEF Same, Keeps, Eligible
    <3>3. SameLoops(SemLoops)
      BY <1>4, <1>7 DEF SameLoops, SemLoops
    <3>4. QED BY <1>1, <3>1, <3>2, <3>3, SemFrame
  <2>6. QED BY <2>4, <2>5
<1>13. QED BY <1>1, <1>5, <1>8, <1>10, <1>11, <1>12 DEF IInv

----------------------------------------------------------------------------
(* The start, and the theorems.                                            *)

LEMMA InitSched ==
  ASSUME ProcInit
  PROVE  Running(sched) /\ current = MainPid /\ \A p \in Pids :
           sched.pstate[p] = IF p = NULLPROC THEN "PRREADY"
                             ELSE IF p = MainPid THEN "PRCURR" ELSE "PRFREE"
<1> DEFINE r  == << Entry(NULLPROC, 0) >>
           st == [p \in Pids |-> IF p = NULLPROC THEN "PRREADY"
                                 ELSE IF p = MainPid THEN "PRCURR" ELSE "PRFREE"]
           pr == [p \in Pids |-> IF p = MainPid THEN INITPRIO ELSE 0]
<1>1. /\ MainPid \in Pids /\ MainPid # NULLPROC /\ NULLPROC \in Pids
      /\ INITPRIO \in Nat /\ QUANTUM \in Nat
  BY PidFacts, SchedAssumption, InitPrioAssumption DEF MainPid, Pids, NULLPROC
<1>2. sched = [pstate |-> st, pprio |-> pr, rdy |-> r, currpid |-> MainPid,
               preempt |-> QUANTUM]
  BY DEF ProcInit
<1>3. /\ r \in Seq(Entries) /\ Members(r) = {NULLPROC}
      /\ Distinct(r) /\ Sorted(r)
  <2>1. Entry(NULLPROC, 0) \in Entries /\ Entry(NULLPROC, 0).pid = NULLPROC
    BY <1>1 DEF Entry, Entries
  <2>2. r \in Seq(Entries) /\ Len(r) = 1 /\ r[1] = Entry(NULLPROC, 0)
    BY <2>1
  <2>3. DOMAIN r = {1}
    BY <2>2
  <2> HIDE DEF r
  <2>4. Members(r) = {NULLPROC}
    BY <2>1, <2>2, <2>3 DEF Members
  <2>5. Distinct(r)
    BY <2>2, <2>3 DEF Distinct
  <2>6. Sorted(r)
    <3>1. r[1].key = 0
      BY <2>2 DEF Entry
    <3>2. QED BY <2>3, <3>1 DEF Sorted
  <2>7. QED BY <2>2, <2>4, <2>5, <2>6
<1>4. st \in [Pids -> PrStates] /\ pr \in [Pids -> Nat]
  BY <1>1 DEF PrStates
<1>5. \A p \in Pids : st[p] = IF p = NULLPROC THEN "PRREADY"
                              ELSE IF p = MainPid THEN "PRCURR" ELSE "PRFREE"
  OBVIOUS
<1> HIDE DEF r, st, pr
<1>6. sched \in Scheds
  BY <1>1, <1>2, <1>3, <1>4 DEF Scheds
<1>7. sched.pstate = st /\ sched.rdy = r /\ sched.currpid = MainPid
  BY <1>2
<1>8. SchedInv(sched)
  BY <1>1, <1>3, <1>5, <1>6, <1>7 DEF SchedInv, Eligible
<1>9. QED BY <1>1, <1>5, <1>7, <1>8 DEF Running, current

LEMMA InitInv == Init => IInv
<1> SUFFICES ASSUME Init PROVE IInv
  OBVIOUS
<1>1. ProcInit /\ SemInit /\ ClockInit /\ MsgInit /\ completed = FALSE
  BY DEF Init
<1>2. /\ Running(sched) /\ current = MainPid
      /\ \A p \in Pids : sched.pstate[p] \in {"PRREADY", "PRCURR", "PRFREE"}
  BY <1>1, InitSched
<1>3. /\ cont = [p \in Pids |-> User] /\ User \in Conts /\ User.op = "user"
      /\ NULLPROC \in Pids /\ NULLPROC \in Nat
  BY <1>1, KTypes, PidFacts DEF ProcInit, NULLPROC
<1>4. cont \in [Pids -> Conts] /\ \A p \in Pids : cont[p].op = "user"
  BY <1>3
<1>5. ProcInv
  <2>1. nextproc \in Pids
    <3>1. NPROC \in Nat \ {0} /\ MainPid \in Int
      BY SchedAssumption DEF MainPid
    <3>2. QED BY <1>1, <3>1, BelowProps DEF ProcInit, Pids
  <2>2. STACKS \in Nat
    BY ProcAssumption
  <2>3. pbase \in [Pids -> Nat] /\ stkfree \subseteq Stacks /\ numproc \in Int
    BY <1>1, <2>2 DEF ProcInit
  <2>4. ContInv
    BY <1>3, <1>4 DEF ContInv, SemLoops, ClockLoops
  <2>5. QED BY <1>2, <1>4, <2>1, <2>3, <2>4
            DEF ProcInv, ProcTypeOK, Running, SchedInv
<1>6. EmptyQueue \in Seq(Entries) /\ Members(EmptyQueue) = {}
      /\ Distinct(EmptyQueue) /\ Len(EmptyQueue) = 0
  BY EmptyQueueProps, EntriesRecords
<1>7. SemInv
  <2>1. /\ sstate = [s \in Sems |-> "SFREE"] /\ semcnt = [s \in Sems |-> 0]
        /\ squeue = [s \in Sems |-> EmptyQueue]
        /\ nextsem = IF NSEM = 0 THEN 0 ELSE NSEM - 1
        /\ psem = [p \in Pids |-> 0] /\ pwaitret = [p \in Pids |-> "OK"]
        /\ NSEM \in Nat
    BY <1>1, SemAssumption DEF SemInit
  <2>2. SemTypeOK
    BY <1>6, <2>1 DEF SemTypeOK
  <2>3. ScanInv
    BY <2>1 DEF ScanInv, Sems
  <2>4. WaitersQueued
    BY <1>2, <1>6, <2>1 DEF WaitersQueued
  <2>5. LoopInv
    BY <1>4 DEF LoopInv, SemLoops
  <2>6. SemCountIsQueue
    BY <1>6, <2>1 DEF SemCountIsQueue
  <2>7. QED BY <2>2, <2>3, <2>4, <2>5, <2>6 DEF SemInv
<1>8. ClockInv
  BY <1>1, <1>2, <1>3, <1>6
    DEF ClockInv, ClockInit, ClockTypeOK, SleepersQueued, ClockCacheCoherent
<1>9. MsgInv
  <2>1. pnxtkin \in [Pids -> Int]
    BY <1>1 DEF MsgInit, BADPID
  <2>2. QED BY <1>1, <1>2, <1>4, <2>1 DEF MsgInv, MsgInit, MsgTypeOK, NoLostMessage
<1>10. QED BY <1>1, <1>5, <1>7, <1>8, <1>9 DEF IInv

LEMMA StutterStep ==
  ASSUME IInv, UNCHANGED vars
  PROVE  IInv'
  BY SMTT(30) DEF IInv, vars, procVars, semVars, clkVars, msgVars, ProcInv, ProcTypeOK,
         ContInv, current, SemInv, SemTypeOK, WaitersQueued, SemCountIsQueue,
         InLoop, LoopInv, ScanInv, ClockInv, ClockTypeOK, SleepersQueued,
         ClockCacheCoherent, Waking, In, MsgInv, MsgTypeOK, NoLostMessage

(***************************************************************************)
(* The components' invariants together are kept by every step of the       *)
(* kernel, whatever the tables' sizes and the calls' arguments.            *)
(***************************************************************************)
THEOREM Inductive == Spec => []IInv
<1>1. IInv /\ [Next]_vars => IInv'
  <2> SUFFICES ASSUME IInv, [Next]_vars PROVE IInv'
    OBVIOUS
  <2>1. CASE ProcNext /\ UNCHANGED <<semVars, clkVars, msgVars, completed>>
    BY <2>1, ProcStep
  <2>2. CASE SemNext /\ UNCHANGED <<clkVars, msgVars, completed>>
    BY <2>2, SemStep
  <2>3. CASE ClockNext /\ UNCHANGED <<semVars, msgVars, completed>>
    BY <2>3, ClockStep
  <2>4. CASE MsgNext /\ UNCHANGED <<semVars, completed>>
    BY <2>4, MsgStep
  <2>5. ASSUME NEW prio \in Prios, NewSlot(prio) PROVE IInv'
    BY <2>5, NewSlotStep
  <2>6. ASSUME NEW p \in UserPids, Kill(p) PROVE IInv'
    BY <2>6, KillStep
  <2>7. CASE KillEnd
    BY <2>7, KillEndStep
  <2>8. CASE UNCHANGED vars
    BY <2>8, StutterStep
  <2>9. QED BY Zenon, <2>1, <2>2, <2>3, <2>4, <2>5, <2>6, <2>7, <2>8 DEF Next
<1>2. QED BY <1>1, InitInv, PTL DEF Spec

(***************************************************************************)
(* Every table of the kernel keeps its type (proc.h, sem.h, sleep.h).      *)
(***************************************************************************)
THEOREM KernelTypes == Spec => []TypeOK
<1>1. IInv => TypeOK
  BY DEF IInv, TypeOK, ProcInv, SemInv, ClockInv, MsgInv
<1>2. QED BY <1>1, Inductive, PTL

(***************************************************************************)
(* The ready list always holds exactly the ready processes, in order, so   *)
(* resched.c always finds somebody to run.                                 *)
(***************************************************************************)
THEOREM ReadyListSafe == Spec => []ReadyListConsistent
<1>1. ASSUME ProcInv PROVE ReadyListConsistent
  <2>1. SchedInv(sched) /\ sched.pstate[current] = "PRCURR" /\ current \in Pids
    BY <1>1, ProcFacts DEF ProcInv, Running
  <2>2. QED BY <2>1 DEF SchedInv, ReadyListConsistent, current, Eligible
<1>2. IInv => ReadyListConsistent
  BY <1>1 DEF IInv
<1>3. QED BY <1>2, Inductive, PTL

(***************************************************************************)
(* A process waits for a semaphore exactly when it is in that semaphore's  *)
(* queue: signal.c, sdelete.c and kill.c unlink whom they mean to.         *)
(***************************************************************************)
THEOREM SemaphoreQueues == Spec => []WaitersQueued
<1>1. IInv => WaitersQueued
  BY DEF IInv, SemInv
<1>2. QED BY <1>1, Inductive, PTL

(***************************************************************************)
(* The count of a semaphore is right about its queue, after any kills,     *)
(* resets and deletions: signal.c never takes from an empty queue.         *)
(***************************************************************************)
THEOREM SemaphoreCounts == Spec => []SemCountIsQueue
<1>1. IInv => SemCountIsQueue
  BY DEF IInv, SemInv
<1>2. QED BY <1>1, Inductive, PTL

(***************************************************************************)
(* A process is asleep exactly when it is on the delta list.               *)
(***************************************************************************)
THEOREM SleepQueue == Spec => []SleepersQueued
<1>1. IInv => SleepersQueued
  BY DEF IInv, ClockInv
<1>2. QED BY <1>1, Inductive, PTL

(***************************************************************************)
(* The words clkint.S reads instead of the delta list agree with it        *)
(* whenever an interrupt can come.                                         *)
(***************************************************************************)
THEOREM ClockCache == Spec => []ClockCacheCoherent
<1>1. IInv => ClockCacheCoherent
  BY DEF IInv, ClockInv
<1>2. QED BY <1>1, Inductive, PTL

(***************************************************************************)
(* Nobody waits for a message it has, and receive.c, which does not look   *)
(* again after the wait, always returns one.                               *)
(***************************************************************************)
THEOREM MessagesKept == Spec => []NoLostMessage
<1>1. IInv => NoLostMessage
  BY DEF IInv, MsgInv
<1>2. QED BY <1>1, Inductive, PTL

----------------------------------------------------------------------------
(***************************************************************************)
(* The death of the last process is always reported.  It is not inductive: *)
(* between Kill and KillEnd the count is already down and the process      *)
(* still alive, and others run there, may kill the same process again, or  *)
(* reuse its slot.  DeathInv counts the calls of kill that are under way:  *)
(* each of them owes at most one death.  Every other step kills nobody and *)
(* starts no kill (Ordinary).                                              *)
(***************************************************************************)

\* Nobody outside X who is alive in s is dead in t.
Undead(s, t, X) ==
  \A p \in Pids \ X : s.pstate[p] # "PRFREE" => t.pstate[p] # "PRFREE"

\* A record of the dispatcher, whatever its list.
Shaped(s) ==
  /\ s = [pstate |-> s.pstate, pprio |-> s.pprio, rdy |-> s.rdy,
          currpid |-> s.currpid, preempt |-> s.preempt]
  /\ s.pstate \in [Pids -> PrStates]

\* One field changed.
LEMMA Changed ==
  ASSUME NEW s, NEW a, NEW b, NEW c, NEW d, NEW e, NEW x,
         s = [pstate |-> a, pprio |-> b, rdy |-> c, currpid |-> d, preempt |-> e]
  PROVE  /\ [s EXCEPT !.pstate = x]
              = [pstate |-> x, pprio |-> b, rdy |-> c, currpid |-> d, preempt |-> e]
         /\ [s EXCEPT !.rdy = x]
              = [pstate |-> a, pprio |-> b, rdy |-> x, currpid |-> d, preempt |-> e]
         /\ [s EXCEPT !.currpid = x]
              = [pstate |-> a, pprio |-> b, rdy |-> c, currpid |-> x, preempt |-> e]
         /\ [s EXCEPT !.preempt = x]
              = [pstate |-> a, pprio |-> b, rdy |-> c, currpid |-> d, preempt |-> x]
  OBVIOUS

LEMMA QueuedUndead ==
  ASSUME NEW s, Shaped(s), NEW p
  PROVE  Shaped(Queued(s, p)) /\ Undead(s, Queued(s, p), {})
<1> DEFINE f == [s.pstate EXCEPT ![p] = "PRREADY"]
           r == Insert(s.rdy, p, s.pprio[p])
           t == [pstate |-> f, pprio |-> s.pprio, rdy |-> r,
                 currpid |-> s.currpid, preempt |-> s.preempt]
<1>1. Queued(s, p) = t
  <2>1. Queued(s, p) = [s EXCEPT !.pstate[p] = "PRREADY", !.rdy = r]
    BY DEF Queued
  <2> HIDE DEF r
  <2>2. QED BY <2>1, Changed DEF Shaped
<1>2. f \in [Pids -> PrStates]
  BY DEF Shaped, PrStates
<1>3. \A q \in Pids : s.pstate[q] # "PRFREE" => f[q] # "PRFREE"
  BY DEF Shaped
<1> HIDE DEF f, r
<1>4. QED BY <1>1, <1>2, <1>3 DEF Undead, Shaped

LEMMA DispatchUndead ==
  ASSUME NEW s, Shaped(s)
  PROVE  Shaped(Dispatch(s)) /\ Undead(s, Dispatch(s), {})
<1> DEFINE p == LastPid(s.rdy)
           r == ButLast(s.rdy)
           f == [s.pstate EXCEPT ![p] = "PRCURR"]
           t == [pstate |-> f, pprio |-> s.pprio, rdy |-> r,
                 currpid |-> p, preempt |-> QUANTUM]
<1>1. Dispatch(s) = t
  <2>1. Dispatch(s) = [s EXCEPT !.currpid = p, !.rdy = r, !.pstate[p] = "PRCURR",
                                !.preempt = QUANTUM]
    BY DEF Dispatch
  <2> HIDE DEF p, r
  <2>2. QED BY <2>1, Changed DEF Shaped
<1>2. f \in [Pids -> PrStates]
  BY DEF Shaped, PrStates
<1>3. \A q \in Pids : s.pstate[q] # "PRFREE" => f[q] # "PRFREE"
  BY DEF Shaped
<1> HIDE DEF f, r, p
<1>4. QED BY <1>1, <1>2, <1>3 DEF Undead, Shaped

LEMMA ReschedUndead ==
  ASSUME NEW s, Shaped(s)
  PROVE  Shaped(Resched(s)) /\ Undead(s, Resched(s), {})
<1> DEFINE u == Requeue(s)
<1>1. u = s \/ u = Queued(s, s.currpid)
  BY DEF Requeue, Queued
<1>2. Shaped(u) /\ Undead(s, u, {})
  BY <1>1, QueuedUndead DEF Undead
<1>3. Resched(s) = s \/ Resched(s) = Dispatch(u)
  BY DEF Resched
<1> HIDE DEF u
<1>4. Shaped(Dispatch(u)) /\ Undead(u, Dispatch(u), {})
  BY <1>2, DispatchUndead
<1>5. QED BY <1>2, <1>3, <1>4 DEF Undead

LEMMA ReadyUndead ==
  ASSUME NEW s, Shaped(s), NEW p
  PROVE  /\ Shaped(Ready(s, p)) /\ Undead(s, Ready(s, p), {})
         /\ Undead(s, ReadyResched(s, p), {})
<1> DEFINE u == Ready(s, p)
<1>1. u = s \/ u = Queued(s, p)
  BY DEF Ready, Queued
<1>2. Shaped(u) /\ Undead(s, u, {})
  BY <1>1, QueuedUndead DEF Undead
<1>3. ReadyResched(s, p) = s \/ ReadyResched(s, p) = Resched(u)
  BY DEF ReadyResched
<1> HIDE DEF u
<1>4. Undead(u, Resched(u), {})
  BY <1>2, ReschedUndead
<1>5. Undead(s, ReadyResched(s, p), {})
  BY <1>2, <1>3, <1>4 DEF Undead
<1>6. QED BY <1>2, <1>5 DEF u

LEMMA BlockUndead ==
  ASSUME NEW s, Shaped(s), NEW st \in PrStates
  PROVE  /\ st # "PRFREE" => Undead(s, Block(s, st), {})
         /\ Undead(s, Block(s, st), {s.currpid})
<1> DEFINE c == s.currpid
           f == [s.pstate EXCEPT ![c] = st]
           t == SetState(s, c, st)
<1>1. t = [pstate |-> f, pprio |-> s.pprio, rdy |-> s.rdy,
           currpid |-> c, preempt |-> s.preempt]
  BY DEF SetState, Shaped
<1>2. f \in [Pids -> PrStates]
  BY DEF Shaped
<1>3. /\ \A q \in Pids \ {c} : f[q] = s.pstate[q]
      /\ c \in Pids => f[c] = st
  BY DEF Shaped
<1> HIDE DEF f
<1>4. Shaped(t) /\ t.pstate = f
  BY <1>1, <1>2 DEF Shaped
<1> HIDE DEF t
<1>5. Undead(t, Resched(t), {})
  BY <1>4, ReschedUndead
<1>6. Block(s, st) = Resched(t)
  BY DEF Block, t
<1>7. QED BY <1>3, <1>4, <1>5, <1>6 DEF Undead

LEMMA TickPreemptUndead ==
  ASSUME NEW s, Shaped(s)
  PROVE  Undead(s, TickPreempt(s), {})
<1> DEFINE left == IF s.preempt > 1 THEN s.preempt - 1 ELSE 0
           t == [s EXCEPT !.preempt = left]
<1>1. t = [pstate |-> s.pstate, pprio |-> s.pprio, rdy |-> s.rdy,
           currpid |-> s.currpid, preempt |-> left]
  BY DEF Shaped
<1>2. Shaped(t) /\ t.pstate = s.pstate
  BY <1>1 DEF Shaped
<1>3. TickPreempt(s) = t \/ TickPreempt(s) = Resched(t)
  BY DEF TickPreempt
<1> HIDE DEF t
<1>4. QED BY <1>2, <1>3, ReschedUndead DEF Undead

----------------------------------------------------------------------------
(* The calls that neither kill nor create.                                 *)

NoMoreKills == \A p \in Pids : cont'[p].op = "kill" => cont[p].op = "kill"

Ordinary == Undead(sched, sched', {}) /\ NoMoreKills

LEMMA SchedShaped ==
  ASSUME IInv
  PROVE  Shaped(sched) /\ current \in Pids /\ cont \in [Pids -> Conts]
<1>1. sched \in Scheds /\ current \in Pids /\ cont \in [Pids -> Conts]
  BY ProcFacts DEF IInv
<1>2. QED BY <1>1 DEF Scheds, Shaped

LEMMA GoesOn ==
  ASSUME IInv, NEW k, Goto(k), k.op # "kill"
  PROVE  NoMoreKills
  BY SchedShaped DEF Goto, NoMoreKills

LEMMA Stays == cont' = cont => NoMoreKills
  BY DEF NoMoreKills

LEMMA Untouched == sched' = sched => Undead(sched, sched', {})
  BY DEF Undead

LEMMA OpNames ==
  /\ \A op : K(op).op = op
  /\ \A op, x : K1(op, x).op = op
  /\ \A op, x, n : K2(op, x, n).op = op
  /\ User.op = "user"
  BY DEF K, K1, K2, User

LEMMA BlockedUndead ==
  ASSUME IInv, NEW st \in PrStates, st # "PRFREE", sched' = Block(sched, st)
  PROVE  Undead(sched, sched', {})
  BY SchedShaped, BlockUndead

LEMMA ProcOrdinary ==
  ASSUME IInv, ProcNext, UNCHANGED completed
  PROVE  Ordinary /\ UNCHANGED <<numproc, completed>>
<1>1. Shaped(sched)
  BY SchedShaped
<1>2. ASSUME NEW prio \in Prios, CreateFailing(prio)
      PROVE  Ordinary /\ UNCHANGED <<numproc, completed>>
  BY <1>2, Stays, Untouched DEF CreateFailing, Ordinary
<1>3. ASSUME NEW p \in UserPids, Resume(p)
      PROVE  Ordinary /\ UNCHANGED <<numproc, completed>>
  BY <1>1, <1>3, Stays, ReadyUndead DEF Resume, Ordinary
<1>4. ASSUME NEW p \in UserPids, SuspendReady(p)
      PROVE  Ordinary /\ UNCHANGED <<numproc, completed>>
  <2>1. /\ sched \in Scheds
        /\ sched' = [sched EXCEPT !.pstate[p] = "PRSUSP", !.rdy = Dequeue(@, p)]
    BY <1>4, ProcFacts DEF SuspendReady, IInv
  <2>2. Undead(sched, sched', {})
    BY <2>1 DEF Undead, Scheds
  <2>3. QED BY <1>4, <2>2, Stays DEF SuspendReady, Ordinary
<1>5. ASSUME NEW p \in UserPids, NEW prio \in NewPrios, Chprio(p, prio)
      PROVE  Ordinary /\ UNCHANGED <<numproc, completed>>
  <2>1. sched \in Scheds /\ sched' = [sched EXCEPT !.pprio[p] = prio]
    BY <1>5, ProcFacts DEF Chprio, IInv
  <2>2. Undead(sched, sched', {})
    BY <2>1 DEF Undead, Scheds
  <2>3. QED BY <1>5, <2>2, Stays DEF Chprio, Ordinary
<1>6. ASSUME SuspendSelf
      PROVE  Ordinary /\ UNCHANGED <<numproc, completed>>
  BY <1>6, Stays, BlockedUndead DEF SuspendSelf, Ordinary, PrStates
<1>7. ASSUME Yield
      PROVE  Ordinary /\ UNCHANGED <<numproc, completed>>
  BY <1>1, <1>7, Stays, ReschedUndead DEF Yield, Ordinary
<1>8. QED BY <1>2, <1>3, <1>4, <1>5, <1>6, <1>7 DEF ProcNext

LEMMA SemOrdinary ==
  ASSUME IInv, SemNext, UNCHANGED completed
  PROVE  Ordinary /\ UNCHANGED <<numproc, completed>>
<1> USE DEF Ordinary
<1>1. Shaped(sched)
  BY SchedShaped
<1>2. ASSUME NEW count \in SemCounts, Screate(count)
      PROVE  Ordinary /\ UNCHANGED <<numproc, completed>>
  BY <1>2, Stays, Untouched DEF Screate, procVars
<1>3. ASSUME NEW s \in Sems, Wait(s)
      PROVE  Ordinary /\ UNCHANGED <<numproc, completed>>
  <2>1. sched' = sched \/ sched' = Block(sched, "PRWAIT")
    BY <1>3 DEF Wait
  <2>2. "PRWAIT" \in PrStates
    BY DEF PrStates
  <2>3. QED BY <1>3, <2>1, <2>2, Stays, Untouched, BlockedUndead DEF Wait
<1>4. ASSUME NEW s \in Sems, Signal(s)
      PROVE  Ordinary /\ UNCHANGED <<numproc, completed>>
  <2>1. sched' = sched \/ sched' = ReadyResched(sched, FirstPid(squeue[s]))
    BY <1>4 DEF Signal
  <2>2. QED BY <1>1, <1>4, <2>1, Stays, Untouched, ReadyUndead DEF Signal
<1>5. ASSUME NEW s \in Sems, Sdelete(s)
      PROVE  Ordinary /\ UNCHANGED <<numproc, completed>>
  <2>1. cont' = cont \/ Goto(K1("sdelete", s))
    BY <1>5 DEF Sdelete
  <2>2. QED BY <1>5, <2>1, OpNames, GoesOn, Stays, Untouched DEF Sdelete
<1>6. ASSUME NEW s \in Sems, NEW count \in SignalCounts, Signaln(s, count)
      PROVE  Ordinary /\ UNCHANGED <<numproc, completed>>
  BY <1>6, OpNames, GoesOn, Untouched DEF Signaln
<1>7. ASSUME NEW s \in Sems, NEW count \in SemCounts, Sreset(s, count)
      PROVE  Ordinary /\ UNCHANGED <<numproc, completed>>
  BY <1>7, OpNames, GoesOn, Untouched DEF Sreset
<1>8. ASSUME SignalnTurn
      PROVE  Ordinary /\ UNCHANGED <<numproc, completed>>
  <2>1. PICK s, p : /\ sched' = sched \/ sched' = Ready(sched, p)
                    /\ Goto(K2("signaln", s, cont[current].n - 1))
    BY <1>8 DEF SignalnTurn
  <2>2. QED BY <1>1, <1>8, <2>1, OpNames, GoesOn, Untouched, ReadyUndead DEF SignalnTurn
<1>9. ASSUME SignalnEnd \/ SresetEnd \/ SdeleteEnd
      PROVE  Ordinary /\ UNCHANGED <<numproc, completed>>
  BY <1>1, <1>9, OpNames, GoesOn, ReschedUndead
    DEF SignalnEnd, SresetEnd, SdeleteEnd, ToUser
<1>10. ASSUME SresetTurn \/ SdeleteTurn
       PROVE  Ordinary /\ UNCHANGED <<numproc, completed>>
  <2>1. PICK p : sched' = Ready(sched, p) /\ UNCHANGED <<cont, numproc>>
    BY <1>10 DEF SresetTurn, SdeleteTurn
  <2>2. QED BY <1>1, <2>1, Stays, ReadyUndead
<1>11. QED BY <1>2, <1>3, <1>4, <1>5, <1>6, <1>7, <1>8, <1>9, <1>10 DEF SemNext

LEMMA ClockOrdinary ==
  ASSUME IInv, ClockNext, UNCHANGED completed
  PROVE  Ordinary /\ UNCHANGED <<numproc, completed>>
<1> USE DEF Ordinary
<1>1. Shaped(sched)
  BY SchedShaped
<1>2. ASSUME NEW n \in SleepTicks, Sleep(n)
      PROVE  Ordinary /\ UNCHANGED <<numproc, completed>>
  <2>1. "PRSLEEP" \in PrStates
    BY DEF PrStates
  <2>2. QED BY <1>2, <2>1, Stays, BlockedUndead DEF Sleep
<1>3. ASSUME Tick
      PROVE  Ordinary /\ UNCHANGED <<numproc, completed>>
  <2>1. \/ Goto(K("wakeup_clkint")) /\ sched' = sched
        \/ sched' = TickPreempt(sched) /\ cont' = cont
    BY <1>3 DEF Tick
  <2>2. numproc' = numproc
    BY <1>3 DEF Tick
  <2>3. QED BY <1>1, <2>1, <2>2, OpNames, GoesOn, Stays, Untouched, TickPreemptUndead
<1>4. ASSUME ClkintEnd
      PROVE  Ordinary /\ UNCHANGED <<numproc, completed>>
  BY <1>1, <1>4, OpNames, GoesOn, TickPreemptUndead DEF ClkintEnd, ToUser
<1>5. ASSUME WakeupTurn
      PROVE  Ordinary /\ UNCHANGED <<numproc, completed>>
  BY <1>1, <1>5, Stays, ReadyUndead DEF WakeupTurn
<1>6. ASSUME WakeupEnd
      PROVE  Ordinary /\ UNCHANGED <<numproc, completed>>
  <2>1. Goto(K("clkint")) \/ Goto(K("strtclk"))
    BY <1>6 DEF WakeupEnd
  <2>2. QED BY <1>1, <1>6, <2>1, OpNames, GoesOn, ReschedUndead DEF WakeupEnd
<1>7. ASSUME Stopclk
      PROVE  Ordinary /\ UNCHANGED <<numproc, completed>>
  BY <1>7, Stays, Untouched DEF Stopclk, procVars
<1>8. ASSUME Strtclk
      PROVE  Ordinary /\ UNCHANGED <<numproc, completed>>
  <2>1. cont' = cont \/ Goto(K("wakeup_strtclk")) \/ Goto(K("strtclk"))
    BY <1>8 DEF Strtclk
  <2>2. QED BY <1>8, <2>1, OpNames, GoesOn, Stays, Untouched DEF Strtclk
<1>9. ASSUME StrtclkEnd
      PROVE  Ordinary /\ UNCHANGED <<numproc, completed>>
  <2>1. sched' = sched \/ sched' = Resched(sched)
    BY <1>9 DEF StrtclkEnd
  <2>2. QED BY <1>1, <1>9, <2>1, OpNames, GoesOn, Untouched, ReschedUndead
          DEF StrtclkEnd, ToUser
<1>10. QED BY <1>2, <1>3, <1>4, <1>5, <1>6, <1>7, <1>8, <1>9 DEF ClockNext

LEMMA DeliveredUndead ==
  ASSUME IInv, NEW p, NEW m, Deliver(p, m)
  PROVE  Undead(sched, sched', {})
<1>1. sched' = sched \/ sched' = ReadyResched(sched, p)
  BY DEF Deliver
<1>2. QED BY <1>1, SchedShaped, Untouched, ReadyUndead

LEMMA MsgOrdinary ==
  ASSUME IInv, MsgNext, UNCHANGED completed
  PROVE  Ordinary /\ UNCHANGED <<numproc, completed>>
<1> USE DEF Ordinary
<1>1. ASSUME NEW p \in UserPids, NEW m \in Msgs, Send(p, m)
      PROVE  Ordinary /\ UNCHANGED <<numproc, completed>>
  BY <1>1, Stays, DeliveredUndead DEF Send
<1>2. ASSUME Receive
      PROVE  Ordinary /\ UNCHANGED <<numproc, completed>>
  <2>1. \/ UNCHANGED <<sched, cont>>
        \/ Goto(K("receive")) /\ sched' = Block(sched, "PRRECV")
    BY <1>2 DEF Receive
  <2>2. "PRRECV" \in PrStates /\ numproc' = numproc
    BY <1>2 DEF PrStates, Receive
  <2>3. QED BY <2>1, <2>2, OpNames, GoesOn, Stays, Untouched, BlockedUndead
<1>3. ASSUME ReceiveEnd \/ RecvtimEnd
      PROVE  Ordinary /\ UNCHANGED <<numproc, completed>>
  BY <1>3, OpNames, GoesOn, Untouched DEF ReceiveEnd, RecvtimEnd, ToUser
<1>4. ASSUME Recvclr
      PROVE  Ordinary /\ UNCHANGED <<numproc, completed>>
  BY <1>4, Stays, Untouched DEF Recvclr, procVars
<1>5. ASSUME NEW w \in RecvTicks, Recvtim(w)
      PROVE  Ordinary /\ UNCHANGED <<numproc, completed>>
  <2>1. \/ UNCHANGED <<sched, cont>>
        \/ Goto(K("recvtim")) /\ sched' = Block(sched, "PRTRECV")
    BY <1>5 DEF Recvtim
  <2>2. "PRTRECV" \in PrStates /\ numproc' = numproc
    BY <1>5 DEF PrStates, Recvtim
  <2>3. QED BY <2>1, <2>2, OpNames, GoesOn, Stays, Untouched, BlockedUndead
<1>6. ASSUME NEW p \in UserPids, NEW nok \in Noks, Setnok(nok, p)
      PROVE  Ordinary /\ UNCHANGED <<numproc, completed>>
  BY <1>6, Stays, Untouched DEF Setnok, procVars
<1>7. QED BY <1>1, <1>2, <1>3, <1>4, <1>5, <1>6 DEF MsgNext

----------------------------------------------------------------------------
(* Counting.                                                               *)

Killers == { p \in Pids : cont[p].op = "kill" }

DeathInv ==
  /\ numproc + Cardinality(Killers) <= Cardinality(Live)
  /\ numproc <= 0 => completed

LEMMA Finite ==
  /\ IsFiniteSet(Pids)
  /\ \A S \in SUBSET Pids : IsFiniteSet(S) /\ Cardinality(S) \in Nat
<1>1. NPROC \in Nat /\ Pids = 0 .. NPROC - 1
  BY PidFacts DEF Pids
<1>2. IsFiniteSet(Pids)
  BY <1>1, FS_Interval
<1>3. ASSUME NEW S \in SUBSET Pids
      PROVE  IsFiniteSet(S) /\ Cardinality(S) \in Nat
  BY <1>2, FS_Subset, FS_CardinalityType
<1>4. QED BY <1>2, <1>3

LEMMA Sizes ==
  /\ Live \subseteq Pids /\ Killers \subseteq Pids
  /\ Cardinality(Live) \in Nat /\ Cardinality(Killers) \in Nat
<1>1. Live \subseteq Pids /\ Killers \subseteq Pids
  BY PidFacts DEF Live, Killers
<1>2. QED BY <1>1, Finite

LEMMA SizesNext ==
  /\ Live' \subseteq Pids /\ Killers' \subseteq Pids
  /\ Cardinality(Live') \in Nat /\ Cardinality(Killers') \in Nat
<1>1. Live' \subseteq Pids /\ Killers' \subseteq Pids
  BY PidFacts DEF Live, Killers
<1>2. QED BY <1>1, Finite

LEMMA Monotone ==
  ASSUME NEW S \in SUBSET Pids, NEW T \in SUBSET S
  PROVE  Cardinality(T) <= Cardinality(S)
  BY Finite, FS_Subset

LEMMA OneMore ==
  ASSUME NEW S \in SUBSET Pids, NEW T \in SUBSET Pids, NEW x \in T \ S, S \subseteq T
  PROVE  Cardinality(S) + 1 <= Cardinality(T)
<1>1. IsFiniteSet(S) /\ S \cup {x} \in SUBSET T
  BY Finite
<1>2. Cardinality(S \cup {x}) = Cardinality(S) + 1
  BY <1>1, FS_AddElement
<1>3. QED BY <1>1, <1>2, Monotone

LEMMA OneLess ==
  ASSUME NEW S \in SUBSET Pids, NEW T \in SUBSET Pids, NEW x, S \subseteq T \cup {x},
         x \in Pids
  PROVE  Cardinality(S) <= Cardinality(T) + 1
<1>1. IsFiniteSet(T) /\ T \cup {x} \in SUBSET Pids /\ Cardinality(T) \in Nat
  BY Finite
<1>2. Cardinality(T \cup {x}) <= Cardinality(T) + 1
  BY <1>1, FS_AddElement
<1>3. Cardinality(S) <= Cardinality(T \cup {x})
  BY <1>1, Monotone
<1>4. S \in SUBSET Pids /\ Cardinality(S) \in Nat /\ Cardinality(T \cup {x}) \in Nat
  BY <1>1, Finite
<1>5. QED BY <1>1, <1>2, <1>3, <1>4

LEMMA Types ==
  ASSUME IInv
  PROVE  numproc \in Int /\ completed \in BOOLEAN
  BY DEF IInv, ProcInv, ProcTypeOK

\* Whoever was alive is alive, and the killers were killers.
LEMMA OrdinarySets ==
  /\ Undead(sched, sched', {}) => Live \subseteq Live'
  /\ NoMoreKills => Killers' \subseteq Killers
  BY PidFacts DEF Undead, NoMoreKills, Live, Killers

LEMMA OrdinaryDeath ==
  ASSUME IInv, DeathInv, Ordinary, UNCHANGED <<numproc, completed>>
  PROVE  DeathInv'
<1>1. Live \subseteq Live' /\ Killers' \subseteq Killers
  BY OrdinarySets DEF Ordinary
<1>2. Cardinality(Live) <= Cardinality(Live')
  BY <1>1, SizesNext, Monotone
<1>3. Cardinality(Killers') <= Cardinality(Killers)
  BY <1>1, Sizes, Monotone
<1>4. /\ numproc' + Cardinality(Killers') <= Cardinality(Live')
      /\ numproc' <= 0 => completed'
  BY <1>2, <1>3, Sizes, SizesNext, Types DEF DeathInv
<1>5. QED BY <1>4 DEF DeathInv

LEMMA BirthDeath ==
  ASSUME IInv, DeathInv, NEW prio \in Prios, NewSlot(prio)
  PROVE  DeathInv'
<1>1. ProcInv /\ Shaped(sched) /\ cont \in [Pids -> Conts] /\ sched \in Scheds
  BY SchedShaped, ProcFacts DEF IInv
<1>2. PICK p : p = NewPid
  OBVIOUS
<1>3. p \in Pids /\ sched.pstate[p] = "PRFREE"
  BY <1>1, <1>2, NewPidProps DEF NewSlot, Create, CreateFails
<1>4. /\ sched'   = [sched EXCEPT !.pstate[p] = "PRSUSP", !.pprio[p] = prio]
      /\ numproc' = numproc + 1
      /\ cont'    = [cont EXCEPT ![p] = User]
      /\ UNCHANGED completed
  BY <1>2 DEF NewSlot, Create
<1>5. Killers' \subseteq Killers
  BY <1>1, <1>4, OpNames DEF Killers
<1>6. \A q \in Pids : sched'.pstate[q] = IF q = p THEN "PRSUSP" ELSE sched.pstate[q]
  BY <1>1, <1>3, <1>4 DEF Scheds
<1>7. p \in UserPids
  <2>1. sched.pstate[NULLPROC] # "PRFREE"
    BY <1>1 DEF ProcInv, Running, SchedInv, Eligible
  <2>2. QED BY <1>3, <2>1, PidFacts DEF UserPids
<1>8. Live \subseteq Live' /\ p \in Live' \ Live
  BY <1>3, <1>6, <1>7, PidFacts DEF Live
<1>9. Cardinality(Live) + 1 <= Cardinality(Live')
  BY <1>8, Sizes, SizesNext, OneMore
<1>10. Cardinality(Killers') <= Cardinality(Killers)
  BY <1>5, Sizes, Monotone
<1>11. /\ numproc' + Cardinality(Killers') <= Cardinality(Live')
       /\ numproc' <= 0 => completed'
  BY <1>4, <1>9, <1>10, Sizes, SizesNext, Types DEF DeathInv
<1>12. QED BY <1>11 DEF DeathInv

LEMMA KillDeath ==
  ASSUME IInv, DeathInv, NEW p \in UserPids, Kill(p)
  PROVE  DeathInv'
<1>1. current \in Pids /\ cont \in [Pids -> Conts]
  BY SchedShaped
<1>2. Goto(K1("kill", p)) /\ CountDeath /\ NotifyKin(p)
  BY DEF Kill
<1>3. Undead(sched, sched', {})
  <2>1. CASE CanSend(pnxtkin[p])
    BY <1>2, <2>1, DeliveredUndead DEF NotifyKin
  <2>2. CASE ~CanSend(pnxtkin[p])
    BY <1>2, <2>2, Untouched DEF NotifyKin
  <2>3. QED BY <2>1, <2>2
<1>4. Live \subseteq Live'
  BY <1>3, OrdinarySets
<1>5. Killers' \subseteq Killers \cup {current}
  BY <1>1, <1>2 DEF Goto, Killers
<1>6. Cardinality(Live) <= Cardinality(Live')
  BY <1>4, SizesNext, Monotone
<1>7. Cardinality(Killers') <= Cardinality(Killers) + 1
  BY <1>1, <1>5, Sizes, SizesNext, OneLess
<1>8. numproc' + Cardinality(Killers') <= Cardinality(Live')
  BY <1>2, <1>6, <1>7, Sizes, SizesNext, Types DEF DeathInv, CountDeath
<1>9. numproc' <= 0 => completed'
  <2>1. numproc' = numproc - 1 /\ numproc \in Int
    BY <1>2, Types DEF CountDeath
  <2>2. numproc' <= 0 => numproc <= 0 \/ numproc' = 0
    BY <2>1
  <2>3. completed \/ numproc' = 0 => completed'
    BY <1>2 DEF CountDeath
  <2>4. QED BY Zenon, <2>2, <2>3 DEF DeathInv
<1>10. QED BY <1>8, <1>9 DEF DeathInv

LEMMA KillEndDeath ==
  ASSUME IInv, DeathInv, KillEnd
  PROVE  DeathInv'
<1>1. PICK p : p = cont[current].arg
  OBVIOUS
<1>2. /\ ProcInv /\ Shaped(sched) /\ current \in Pids /\ cont \in [Pids -> Conts]
      /\ sched \in Scheds /\ sched.currpid = current
      /\ \A q \in Pids : sched.pstate[q] = "PRCURR" => q = current
  BY SchedShaped, ProcFacts DEF IInv
<1>3. cont[current].op = "kill" /\ p \in UserPids /\ p \in Pids
  BY <1>1, <1>2, PidFacts DEF KillEnd, In, ProcInv, ContInv
<1>4. /\ sched' = IF sched.pstate[p] = "PRCURR" THEN Block(sched, "PRFREE")
                  ELSE [sched EXCEPT !.pstate[p] = "PRFREE",
                          !.rdy = IF sched.pstate[p] = "PRREADY"
                                  THEN Dequeue(@, p) ELSE @]
      /\ Bury(p)
      /\ UNCHANGED <<numproc, completed>>
  BY <1>1 DEF KillEnd
<1>5. Undead(sched, sched', {p})
  <2>1. CASE sched.pstate[p] = "PRCURR"
    <3>1. p = sched.currpid /\ sched' = Block(sched, "PRFREE") /\ "PRFREE" \in PrStates
      BY <1>2, <1>3, <1>4, <2>1 DEF PrStates
    <3>2. QED BY <1>2, <3>1, BlockUndead
  <2>2. CASE sched.pstate[p] # "PRCURR"
    <3>1. \A q \in Pids \ {p} : sched'.pstate[q] = sched.pstate[q]
      BY <1>2, <1>4, <2>2 DEF Scheds
    <3>2. QED BY <3>1 DEF Undead
  <2>3. QED BY <2>1, <2>2
<1>6. Live \subseteq Live' \cup {p}
  BY <1>5, PidFacts DEF Undead, Live
<1>7. Killers' \subseteq Killers /\ current \in Killers \ Killers'
  BY <1>2, <1>3, <1>4, OpNames DEF Bury, Killers
<1>8. Cardinality(Live) <= Cardinality(Live') + 1
  BY <1>3, <1>6, Sizes, SizesNext, OneLess
<1>9. Cardinality(Killers') + 1 <= Cardinality(Killers)
  BY <1>7, Sizes, SizesNext, OneMore
<1>10. /\ numproc' + Cardinality(Killers') <= Cardinality(Live')
       /\ numproc' <= 0 => completed'
  BY <1>4, <1>8, <1>9, Sizes, SizesNext, Types DEF DeathInv
<1>11. QED BY <1>10 DEF DeathInv

LEMMA InitDeath == Init => DeathInv
<1> SUFFICES ASSUME Init PROVE DeathInv
  OBVIOUS
<1>1. /\ numproc = 1 /\ cont = [p \in Pids |-> User]
      /\ sched.pstate = [p \in Pids |-> IF p = NULLPROC THEN "PRREADY"
                                        ELSE IF p = MainPid THEN "PRCURR"
                                        ELSE "PRFREE"]
  BY DEF Init, ProcInit
<1>2. Killers = {}
  BY <1>1, OpNames DEF Killers
<1>3. MainPid \in Pids /\ MainPid # NULLPROC
  BY PidFacts DEF MainPid, Pids, NULLPROC
<1>4. MainPid \in Live
  <2>1. MainPid \in UserPids
    BY <1>3, PidFacts
  <2>2. sched.pstate[MainPid] = "PRCURR"
    BY <1>1, <1>3
  <2>3. QED BY <2>1, <2>2 DEF Live
<1>5. Cardinality({MainPid}) = 1
  BY FS_Singleton
<1>6. 1 <= Cardinality(Live)
  BY <1>4, <1>5, Sizes, Monotone
<1>7. Cardinality(Killers) = 0
  BY <1>2, FS_EmptySet
<1>8. QED BY <1>1, <1>6, <1>7, Sizes DEF DeathInv

(***************************************************************************)
(* kill.c and xdone.c: whatever runs between the decrement of numproc and  *)
(* the death it counts, and however often a process is killed, numproc is  *)
(* never above the number of live processes, and the end of the last one   *)
(* has been reported.                                                      *)
(***************************************************************************)
THEOREM LastDeath == Spec => []LastDeathReported
<1>1. IInv /\ DeathInv /\ [Next]_vars => DeathInv'
  <2> SUFFICES ASSUME IInv, DeathInv, [Next]_vars PROVE DeathInv'
    OBVIOUS
  <2>1. CASE ProcNext /\ UNCHANGED <<semVars, clkVars, msgVars, completed>>
    BY <2>1, ProcOrdinary, OrdinaryDeath
  <2>2. CASE SemNext /\ UNCHANGED <<clkVars, msgVars, completed>>
    BY <2>2, SemOrdinary, OrdinaryDeath
  <2>3. CASE ClockNext /\ UNCHANGED <<semVars, msgVars, completed>>
    BY <2>3, ClockOrdinary, OrdinaryDeath
  <2>4. CASE MsgNext /\ UNCHANGED <<semVars, completed>>
    BY <2>4, MsgOrdinary, OrdinaryDeath
  <2>5. ASSUME NEW prio \in Prios, NewSlot(prio) PROVE DeathInv'
    BY <2>5, BirthDeath
  <2>6. ASSUME NEW p \in UserPids, Kill(p) PROVE DeathInv'
    BY <2>6, KillDeath
  <2>7. CASE KillEnd
    BY <2>7, KillEndDeath
  <2>8. CASE UNCHANGED vars
    BY <2>8, Stays, Untouched, OrdinaryDeath DEF vars, procVars, Ordinary
  <2>9. QED BY Zenon, <2>1, <2>2, <2>3, <2>4, <2>5, <2>6, <2>7, <2>8 DEF Next
<1>2. IInv /\ DeathInv => LastDeathReported
  <2> SUFFICES ASSUME IInv, DeathInv PROVE LastDeathReported
    OBVIOUS
  <2>1. numproc <= Cardinality(Live)
    BY Sizes, Types DEF DeathInv
  <2>2. Live = {} => completed
    BY <2>1, FS_EmptySet, Types DEF DeathInv
  <2>3. QED BY <2>1, <2>2 DEF LastDeathReported
<1>3. QED BY <1>1, <1>2, InitDeath, Inductive, PTL DEF Spec

----------------------------------------------------------------------------
(* Times on the delta list.                                                *)

(***************************************************************************)
(* unsleep gives the key of the one that leaves to its follower: nobody    *)
(* else's time changes.                                                    *)
(***************************************************************************)
LEMMA UnlinkTimes ==
  ASSUME NEW P, NEW s \in Seq(Records(P)), NEW p \in Members(s), Distinct(s),
         LateOrNow(s)
  PROVE  /\ LateOrNow(Unlink(s, p))
         /\ \A q \in Members(s) \ {p} : TimeIn(Unlink(s, p), q) = TimeIn(s, q)
         /\ s[1].key > 0 /\ Unlink(s, p) # EmptyQueue => Unlink(s, p)[1].key > 0
<1> DEFINE i == PosOf(s, p)
           l == IF i < Len(s)
                THEN [s EXCEPT ![i + 1].key = @ + s[i].key] ELSE s
           r == Unlink(s, p)
           B == Before(s)
           C == Before(r)
<1>1. i \in 1 .. Len(s) /\ s[i].pid = p /\ Len(s) \in Nat
  BY PosOfMember, ListFacts
<1>2. r = Ext!RemoveAt(l, PosOf(l, p))
  BY DEF Unlink, Dequeue
<1>3. r \in Seq(Records(P)) /\ Distinct(r)
  BY UnlinkProps
<1>4. /\ B[0] = 0
      /\ \A j \in 1 .. Len(s) : /\ s[j].key \in Int /\ s[j] \in Records(P)
                                /\ B[j] = B[j - 1] + s[j].key /\ s[j].key >= 0
      /\ \A j \in 0 .. Len(s) : B[j] \in Int
  BY ListFacts, BeforeProps, BeforeStep, ElementOfSeq DEF LateOrNow
<1>5. C[0] = 0 /\ \A j \in 1 .. Len(r) : C[j] = C[j - 1] + r[j].key
  BY <1>3, BeforeStep
<1> HIDE DEF i, B, C, r
<1>6. /\ l \in Seq(Records(P)) /\ Len(l) = Len(s)
      /\ \A j \in 1 .. Len(s) :
           /\ l[j].pid = s[j].pid
           /\ l[j].key = IF j = i + 1 THEN s[j].key + s[i].key ELSE s[j].key
  <2>1. CASE i < Len(s)
    <3> DEFINE n == i + 1
               x == [s[n] EXCEPT !.key = @ + s[i].key]
    <3>1. n \in 1 .. Len(s) /\ s[n] \in Records(P) /\ s[n].key + s[i].key \in Int
      BY <1>1, <1>4, <2>1
    <3>2. x \in Records(P) /\ x.pid = s[n].pid /\ x.key = s[n].key + s[i].key
      BY <3>1 DEF Records
    <3>3. l = [s EXCEPT ![n] = x]
      BY <2>1
    <3> HIDE DEF x, n, l
    <3>4. /\ l \in Seq(Records(P)) /\ Len(l) = Len(s)
          /\ \A j \in 1 .. Len(s) : l[j] = IF j = n THEN x ELSE s[j]
      BY <3>1, <3>2, <3>3, ExceptSeq
    <3>5. QED BY <3>2, <3>4 DEF n
  <2>2. CASE ~ (i < Len(s))
    BY <1>1, <1>4, <2>2
  <2>3. QED BY <2>1, <2>2
<1> HIDE DEF l
<1>7. PosOf(l, p) = i
  <2>1. Distinct(l)
    BY <1>6, SamePidsProps DEF SamePids
  <2>2. i \in 1 .. Len(l) /\ l[i].pid = p
    BY <1>1, <1>6
  <2>3. QED BY <1>6, <2>1, <2>2, PosOfUnique
<1>8. /\ Len(r) = Len(s) - 1
      /\ \A j \in 1 .. Len(s) - 1 : r[j] = IF j < i THEN l[j] ELSE l[j + 1]
  <2>1. r = Ext!RemoveAt(l, i)
    BY <1>2, <1>7
  <2>2. l \in Seq(Records(P)) /\ i \in 1 .. Len(l) /\ Len(l) = Len(s)
    BY <1>1, <1>6
  <2>3. /\ Len(Ext!RemoveAt(l, i)) = Len(l) - 1
        /\ \A j \in 1 .. Len(l) - 1 :
             Ext!RemoveAt(l, i)[j] = IF j < i THEN l[j] ELSE l[j + 1]
    BY <2>2, RemoveAtProps
  <2>4. QED BY <2>1, <2>2, <2>3
<1>9. \A j \in 1 .. i - 1 : r[j].pid = s[j].pid /\ r[j].key = s[j].key
  <2>1. ASSUME NEW j \in 1 .. i - 1
        PROVE  r[j].pid = s[j].pid /\ r[j].key = s[j].key
    <3>1. j \in 1 .. Len(s) /\ j \in 1 .. Len(s) - 1 /\ j < i /\ j # i + 1
      BY <1>1
    <3>2. QED BY <1>6, <1>8, <3>1
  <2>2. QED BY <2>1
<1>10. \A j \in i .. Len(s) - 1 :
         /\ r[j].pid = s[j + 1].pid
         /\ r[j].key = IF j = i THEN s[j + 1].key + s[i].key ELSE s[j + 1].key
  <2>1. ASSUME NEW j \in i .. Len(s) - 1
        PROVE  /\ r[j].pid = s[j + 1].pid
               /\ r[j].key = IF j = i THEN s[j + 1].key + s[i].key
                             ELSE s[j + 1].key
    <3>1. j + 1 \in 1 .. Len(s) /\ j \in 1 .. Len(s) - 1 /\ ~ (j < i)
      BY <1>1
    <3>2. QED BY <1>1, <1>6, <1>8, <3>1
  <2>2. QED BY <2>1
<1>11. \A j \in 0 .. i - 1 : C[j] = B[j]
  <2> DEFINE n == i - 1
             z == 0
  <2>1. /\ n \in Nat /\ z \in Nat /\ z \in Int
        /\ z + n <= Len(s) /\ z + n <= Len(r)
    BY <1>1, <1>8
  <2>2. Before(r)[z] = Before(s)[z] + z
    BY <1>4, <1>5 DEF B, C
  <2>3. SameKeys(s, z, r, z, n)
    BY <1>9 DEF SameKeys
  <2>4. Spaced(s, z, r, z, n, z)
    <3> HIDE DEF n, z
    <3>1. QED BY <1>3, <2>1, <2>2, <2>3, SumsApart
  <2>5. ASSUME NEW j \in 0 .. i - 1 PROVE C[j] = B[j]
    <3>1. z + j = j /\ B[j] \in Int /\ B[j] + z = B[j]
      <4>1. j \in 0 .. Len(s)
        BY <1>1
      <4>2. B[j] \in Int
        BY <1>4, <4>1
      <4>3. QED BY <4>2
    <3>2. QED BY <2>4, <3>1 DEF B, C, Spaced
  <2>6. QED BY <2>5
<1>12. \A j \in i .. Len(s) - 1 : C[j] = B[j + 1]
  <2>1. CASE i < Len(s)
    <3>1. C[i] = B[i + 1]
      <4>1. /\ i \in 1 .. Len(r) /\ i \in i .. Len(s) - 1 /\ i - 1 \in 0 .. i - 1
            /\ i + 1 \in 1 .. Len(s) /\ (i + 1) - 1 = i /\ i - 1 \in 0 .. Len(s)
        BY <1>1, <1>8, <2>1
      <4>2. C[i] = C[i - 1] + r[i].key /\ C[i - 1] = B[i - 1]
        BY <1>5, <1>11, <4>1
      <4>3. r[i].key = s[i + 1].key + s[i].key
        BY <1>10, <4>1
      <4>4. /\ B[i] = B[i - 1] + s[i].key /\ B[i + 1] = B[i] + s[i + 1].key
            /\ s[i].key \in Int /\ s[i + 1].key \in Int /\ B[i - 1] \in Int
        BY <1>1, <1>4, <4>1
      <4>5. QED BY <4>2, <4>3, <4>4
    <3> DEFINE n == Len(s) - 1 - i
               m == i + 1
               z == 0
    <3>2. /\ n \in Nat /\ m \in Nat /\ z \in Int /\ i \in Nat
          /\ m + n <= Len(s) /\ i + n <= Len(r)
      BY <1>1, <1>8, <2>1
    <3>3. Before(r)[i] = Before(s)[m] + z
      <4>1. i + 1 \in 0 .. Len(s)
        BY <1>1, <2>1
      <4>2. B[i + 1] \in Int
        BY <1>4, <4>1
      <4>3. QED BY <3>1, <4>2 DEF B, C
    <3>4. SameKeys(s, m, r, i, n)
      <4>1. ASSUME NEW j \in 1 .. n
            PROVE  r[i + j].key = s[m + j].key
        <5>1. i + j \in i .. Len(s) - 1 /\ i + j # i /\ (i + j) + 1 = m + j
          BY <1>1
        <5>2. QED BY <1>10, <5>1
      <4>2. QED BY <4>1 DEF SameKeys
    <3>5. Spaced(s, m, r, i, n, z)
      <4> HIDE DEF n, m, z
      <4>1. QED BY <1>3, <3>2, <3>3, <3>4, SumsApart
    <3>6. ASSUME NEW j \in i .. Len(s) - 1
          PROVE  C[j] = B[j + 1]
      <4>1. /\ j - i \in 0 .. n /\ i + (j - i) = j /\ m + (j - i) = j + 1
            /\ j + 1 \in 0 .. Len(s)
        BY <1>1
      <4>2. B[j + 1] \in Int
        BY <1>4, <4>1
      <4>3. Before(r)[i + (j - i)] = Before(s)[m + (j - i)] + z
        <5> HIDE DEF n, m, z
        <5>1. QED BY <3>5, <4>1 DEF Spaced
      <4>4. QED BY <4>1, <4>2, <4>3 DEF B, C
    <3>7. QED BY <3>6
  <2>2. CASE ~ (i < Len(s))
    BY <1>1, <2>2
  <2>3. QED BY <2>1, <2>2
<1>13. ASSUME NEW q \in Members(s) \ {p}
       PROVE  TimeIn(r, q) = TimeIn(s, q)
  <2>1. PICK j \in 1 .. Len(s) : s[j].pid = q
    BY MemberPlace
  <2>2. PICK m \in 1 .. Len(r) : r[m].pid = s[j].pid /\ C[m] = B[j]
    <3>1. CASE j < i
      <4>1. j \in 1 .. i - 1 /\ j \in 0 .. i - 1 /\ j \in 1 .. Len(r)
        BY <1>1, <1>8, <3>1
      <4>2. QED BY <1>9, <1>11, <4>1
    <3>2. CASE j > i
      <4>1. /\ j - 1 \in i .. Len(s) - 1 /\ (j - 1) + 1 = j
            /\ j - 1 \in 1 .. Len(r)
        BY <1>1, <1>8, <3>2
      <4>2. QED BY <1>10, <1>12, <4>1
    <3>3. j # i
      BY <1>1, <2>1
    <3>4. QED BY <1>1, <3>1, <3>2, <3>3
  <2> DEFINE z == 0
  <2>3. Before(r)[m] = Before(s)[j] + z
    <3>1. B[j] \in Int
      BY <1>4
    <3>2. QED BY <2>2, <3>1 DEF B, C
  <2>4. TimeIn(r, q) = TimeIn(s, q) + z
    <3> HIDE DEF z
    <3>1. QED BY <1>3, <2>1, <2>2, <2>3, TimesApart
  <2>5. QED BY <2>4, TimeType
<1>14. \A j \in 1 .. Len(r) : r[j].key >= 0
  <2>1. ASSUME NEW j \in 1 .. Len(r)
        PROVE  r[j].key >= 0
    <3>1. CASE j < i
      <4>1. j \in 1 .. i - 1 /\ j \in 1 .. Len(s)
        BY <1>1, <1>8, <3>1
      <4>2. QED BY <1>4, <1>9, <4>1
    <3>2. CASE ~ (j < i)
      <4>1. j \in i .. Len(s) - 1 /\ j + 1 \in 1 .. Len(s)
        BY <1>1, <1>8, <3>2
      <4>2. /\ s[j + 1].key \in Int /\ s[j + 1].key >= 0
            /\ s[i].key \in Int /\ s[i].key >= 0
        BY <1>1, <1>4, <4>1
      <4>3. r[j].key = IF j = i THEN s[j + 1].key + s[i].key ELSE s[j + 1].key
        BY <1>10, <4>1
      <4>4. QED BY <4>2, <4>3
    <3>3. QED BY <3>1, <3>2
  <2>2. QED BY <2>1
<1>15. ASSUME s[1].key > 0, r # EmptyQueue
       PROVE  r[1].key > 0
  <2>1. Len(s) - 1 \in Nat /\ Len(s) - 1 # 0
    BY <1>1, <1>3, <1>8, <1>15, EmptyQueueLen
  <2>2. CASE i = 1
    <3>1. 1 \in i .. Len(s) - 1 /\ 1 + 1 \in 1 .. Len(s)
      <4> DEFINE n == Len(s)
      <4>1. n \in Nat /\ n - 1 \in Nat /\ n - 1 # 0
        BY <1>1, <2>1
      <4> HIDE DEF n
      <4>2. 1 <= n - 1 /\ 1 + 1 <= n /\ n - 1 \in Int
        BY <4>1
      <4>3. 1 \in 1 .. n - 1 /\ 1 + 1 \in 1 .. n
        BY <4>1, <4>2
      <4>4. QED BY Zenon, <2>2, <4>3 DEF n
    <3>2. r[1].key = s[1 + 1].key + s[i].key
      BY <1>10, <2>2, <3>1
    <3>3. s[1 + 1].key \in Int /\ s[1 + 1].key >= 0 /\ s[1].key \in Int
      BY <1>1, <1>4, <3>1
    <3>4. QED BY <1>15, <2>2, <3>2, <3>3
  <2>3. CASE i # 1
    <3>1. 1 \in 1 .. i - 1
      BY <1>1, <2>3
    <3>2. QED BY <1>9, <1>15, <3>1
  <2>4. QED BY <2>2, <2>3
<1>16. QED BY <1>13, <1>14, <1>15 DEF LateOrNow, r

(***************************************************************************)
(* A shorter first key brings everybody's time nearer by as much, and so   *)
(* does taking off the first entry.                                        *)
(***************************************************************************)
Nearer(s, r) == r = [s EXCEPT ![1].key = @ - 1]

LEMMA FirstKeyTimes ==
  ASSUME NEW P, NEW s \in Seq(Records(P)), Distinct(s), s # EmptyQueue,
         NEW r, Nearer(s, r)
  PROVE  /\ \A q \in Members(s) : TimeIn(r, q) = TimeIn(s, q) - 1
         /\ r[1].key = s[1].key - 1
         /\ \A j \in 1 .. Len(s) : j # 1 => r[j].key = s[j].key
         /\ Len(r) = Len(s)
<1> DEFINE B == Before(s)
           C == Before(r)
<1>1. /\ Len(s) \in Nat /\ Len(s) # 0
      /\ \A j \in 1 .. Len(s) : s[j] \in Records(P) /\ s[j].key \in Int
      /\ \A j \in 0 .. Len(s) : B[j] \in Int
      /\ B[0] = 0 /\ \A j \in 1 .. Len(s) : B[j] = B[j - 1] + s[j].key
  BY ListFacts, ElementOfSeq, EmptyQueueLen, BeforeProps, BeforeStep
<1> DEFINE x == s[1].key - 1
<1>2. 1 \in 1 .. Len(s) /\ x \in Int /\ s[1] \in Records(P)
  BY <1>1
<1>3. r = [s EXCEPT ![1].key = x]
  BY DEF Nearer
<1>4. r \in Seq(Records(P)) /\ SamePids(s, r) /\ Len(r) = Len(s)
  <2> HIDE DEF x
  <2>1. QED BY <1>2, <1>3, RekeyProps DEF SamePids
<1>5. Distinct(r)
  BY <1>4, SamePidsProps
<1>6. \A j \in 1 .. Len(s) : r[j].key = IF j = 1 THEN x ELSE s[j].key
  <2> DEFINE e == [s[1] EXCEPT !.key = x]
  <2>1. e \in Records(P) /\ e.key = x
    BY <1>2 DEF Records
  <2>2. r = [s EXCEPT ![1] = e]
    BY <1>3
  <2> HIDE DEF e, x
  <2>3. \A j \in 1 .. Len(s) : r[j] = IF j = 1 THEN e ELSE s[j]
    BY <1>2, <2>1, <2>2, ExceptSeq
  <2>4. ASSUME NEW j \in 1 .. Len(s)
        PROVE  r[j].key = IF j = 1 THEN x ELSE s[j].key
    <3>1. CASE j = 1
      BY <2>1, <2>3, <3>1
    <3>2. CASE j # 1
      BY <2>3, <3>2
    <3>3. QED BY <3>1, <3>2
  <2>5. QED BY <2>4
<1>7. C[0] = 0 /\ \A j \in 1 .. Len(s) : C[j] = C[j - 1] + r[j].key
  BY <1>4, BeforeStep
<1> HIDE DEF B, C
<1>8. \A j \in 1 .. Len(s) : C[j] = B[j] + (-1)
  <2> DEFINE n == Len(s) - 1
             o == 1
             d == -1
  <2>1. /\ n \in Nat /\ o \in Nat /\ d \in Int
        /\ o + n <= Len(s) /\ o + n <= Len(r)
    BY <1>1, <1>4
  <2>2. Before(r)[o] = Before(s)[o] + d
    <3>1. C[1] = C[1 - 1] + r[1].key /\ B[1] = B[1 - 1] + s[1].key
      BY <1>1, <1>2, <1>7
    <3>2. QED BY <1>1, <1>2, <1>6, <1>7, <3>1 DEF B, C
  <2>3. SameKeys(s, o, r, o, n)
    <3>1. ASSUME NEW j \in 1 .. n
          PROVE  r[o + j].key = s[o + j].key
      <4>1. o + j \in 1 .. Len(s) /\ o + j # 1
        BY <1>1
      <4>2. QED BY <1>6, <4>1
    <3>2. QED BY <3>1 DEF SameKeys
  <2>4. Spaced(s, o, r, o, n, d)
    <3> HIDE DEF n, o, d
    <3>1. QED BY <1>4, <2>1, <2>2, <2>3, SumsApart
  <2>5. ASSUME NEW j \in 1 .. Len(s)
        PROVE  C[j] = B[j] + (-1)
    <3>1. j - 1 \in 0 .. n /\ o + (j - 1) = j
      BY <1>1
    <3>2. QED BY <2>4, <3>1 DEF B, C, Spaced
  <2>6. QED BY <2>5
<1>9. ASSUME NEW q \in Members(s)
      PROVE  TimeIn(r, q) = TimeIn(s, q) - 1
  <2>1. PICK j \in 1 .. Len(s) : s[j].pid = q
    BY MemberPlace
  <2> DEFINE d == -1
  <2>2. /\ j \in 1 .. Len(r) /\ r[j].pid = s[j].pid
        /\ Before(r)[j] = Before(s)[j] + d
    BY <1>4, <1>8 DEF B, C, SamePids
  <2>3. TimeIn(r, q) = TimeIn(s, q) + d
    <3> HIDE DEF d
    <3>1. TimeIn(r, s[j].pid) = TimeIn(s, s[j].pid) + d
      BY <1>4, <1>5, <2>2, TimesApart
    <3>2. QED BY <2>1, <3>1
  <2>4. QED BY <2>3, TimeType
<1>10. QED BY <1>2, <1>4, <1>6, <1>9

LEMMA ButFirstTimes ==
  ASSUME NEW P, NEW s \in Seq(Records(P)), Distinct(s), s # EmptyQueue,
         LateOrNow(s)
  PROVE  /\ LateOrNow(ButFirst(s))
         /\ \A q \in Members(s) \ {FirstPid(s)} :
              TimeIn(ButFirst(s), q) = TimeIn(s, q) - s[1].key
         /\ TimeIn(s, FirstPid(s)) = s[1].key /\ s[1].key \in Int
         /\ FirstPid(s) = s[1].pid
<1> DEFINE r == ButFirst(s)
           B == Before(s)
           C == Before(r)
<1>1. /\ Len(s) \in Nat /\ Len(s) # 0 /\ 1 \in 1 .. Len(s)
      /\ \A j \in 1 .. Len(s) : s[j].key \in Int /\ s[j].key >= 0
      /\ \A j \in 0 .. Len(s) : B[j] \in Int
      /\ B[0] = 0 /\ \A j \in 1 .. Len(s) : B[j] = B[j - 1] + s[j].key
  BY ListFacts, EmptyQueueLen, BeforeProps, BeforeStep DEF LateOrNow
<1>2. /\ r \in Seq(Records(P)) /\ Distinct(r) /\ Len(r) = Len(s) - 1
      /\ C[0] = 0
  BY ButFirstProps, BeforeStep
<1>3. FirstPid(s) = s[1].pid /\ \A j \in 1 .. Len(s) - 1 : r[j] = s[j + 1]
  BY HeadTailProperties DEF FirstPid, ButFirst, EmptyQueue
<1> HIDE DEF r, B, C
<1>4. B[1] = s[1].key
  <2>1. B[1] = B[1 - 1] + s[1].key
    BY <1>1
  <2>2. QED BY <1>1, <2>1
<1>5. \A j \in 0 .. Len(s) - 1 : C[j] = B[j + 1] - s[1].key
  <2> DEFINE n == Len(s) - 1
             o == 1
             z == 0
             d == - s[1].key
  <2>1. /\ n \in Nat /\ o \in Nat /\ z \in Nat /\ d \in Int
        /\ o + n <= Len(s) /\ z + n <= Len(r)
    BY <1>1, <1>2
  <2>2. Before(r)[z] = Before(s)[o] + d
    BY <1>1, <1>2, <1>4 DEF B, C
  <2>3. SameKeys(s, o, r, z, n)
    <3>1. ASSUME NEW j \in 1 .. n
          PROVE  r[z + j].key = s[o + j].key
      <4>1. z + j \in 1 .. Len(s) - 1 /\ (z + j) + 1 = o + j
        BY <1>1
      <4>2. QED BY <1>3, <4>1
    <3>2. QED BY <3>1 DEF SameKeys
  <2>4. Spaced(s, o, r, z, n, d)
    <3> HIDE DEF n, o, z, d
    <3>1. QED BY <1>2, <2>1, <2>2, <2>3, SumsApart
  <2>5. ASSUME NEW j \in 0 .. Len(s) - 1
        PROVE  C[j] = B[j + 1] - s[1].key
    <3>1. j \in 0 .. n /\ z + j = j /\ o + j = j + 1 /\ j + 1 \in 0 .. Len(s)
      BY <1>1
    <3>2. C[j] = B[j + 1] + d
      <4> HIDE DEF n, d
      <4>1. QED BY <2>4, <3>1 DEF B, C, Spaced
    <3>3. B[j + 1] \in Int /\ s[1].key \in Int
      BY <1>1, <3>1
    <3>4. QED BY <3>2, <3>3
  <2>6. QED BY <2>5
<1>6. ASSUME NEW q \in Members(s) \ {FirstPid(s)}
      PROVE  TimeIn(r, q) = TimeIn(s, q) - s[1].key
  <2>1. PICK j \in 1 .. Len(s) : s[j].pid = q
    BY MemberPlace
  <2>2. j # 1
    BY <1>3, <2>1
  <2> DEFINE m == j - 1
             d == - s[1].key
  <2>3. /\ m \in 1 .. Len(r) /\ m \in 1 .. Len(s) - 1 /\ m \in 0 .. Len(s) - 1
        /\ m + 1 = j /\ d \in Int
    BY <1>1, <1>2, <2>2
  <2>4. r[m].pid = s[j].pid
    BY <1>3, <2>3
  <2>5. Before(r)[m] = Before(s)[j] + d
    <3>1. C[m] = B[j] - s[1].key /\ B[j] \in Int /\ s[1].key \in Int
      BY <1>1, <1>5, <2>3
    <3>2. QED BY <3>1 DEF B, C
  <2>6. TimeIn(r, q) = TimeIn(s, q) + d
    <3> HIDE DEF d, m
    <3>1. QED BY <1>2, <2>1, <2>3, <2>4, <2>5, TimesApart
  <2>7. TimeIn(s, q) \in Int /\ s[1].key \in Int
    BY <1>1, TimeType
  <2>8. QED BY <2>6, <2>7
<1>7. TimeIn(s, FirstPid(s)) = s[1].key
  <2>1. PosOf(s, s[1].pid) = 1
    BY <1>1, PosOfUnique
  <2>2. QED BY <1>3, <1>4, <2>1 DEF TimeIn, B
<1>8. \A j \in 1 .. Len(r) : r[j].key >= 0
  <2>1. ASSUME NEW j \in 1 .. Len(r)
        PROVE  r[j].key >= 0
    <3>1. j \in 1 .. Len(s) - 1 /\ j + 1 \in 1 .. Len(s)
      BY <1>1, <1>2
    <3>2. QED BY <1>1, <1>3, <3>1
  <2>2. QED BY <2>1
<1>9. QED BY <1>1, <1>3, <1>6, <1>7, <1>8 DEF LateOrNow, r

----------------------------------------------------------------------------
(* What each step does to the process states, as XinuTimers sees them.     *)

\* Nobody falls asleep, is woken, is born or dies.
Calm ==
  \A p \in Pids : TimerMode(sched'.pstate[p]) = TimerMode(sched.pstate[p])

LEMMA ModeFacts ==
  /\ TimerMode("PRSLEEP") = "asleep" /\ TimerMode("PRTRECV") = "timing"
  /\ TimerMode("PRFREE") = "dead"
  /\ \A st : st \notin {"PRSLEEP", "PRTRECV", "PRFREE"} <=> TimerMode(st) = "awake"
  /\ \A st \in Eligible : TimerMode(st) = "awake"
  /\ \A st : TimerMode(st) = "asleep" <=> st = "PRSLEEP"
  /\ \A st : TimerMode(st) = "timing" <=> st = "PRTRECV"
  /\ \A st : TimerMode(st) = "dead" <=> st = "PRFREE"
<1>1. \A st : TimerMode(st) = IF st = "PRSLEEP" THEN "asleep"
                              ELSE IF st = "PRTRECV" THEN "timing"
                              ELSE IF st = "PRFREE" THEN "dead" ELSE "awake"
  BY DEF TimerMode
<1>2. QED BY <1>1 DEF Eligible

\* Outside X everybody keeps its mode.
LEMMA ModesKept ==
  ASSUME NEW X, Same(sched, sched', X)
  PROVE  \A p \in Pids \ X :
           TimerMode(sched'.pstate[p]) = TimerMode(sched.pstate[p])
  BY ModeFacts DEF Same

LEMMA CalmSame ==
  ASSUME NEW X, Same(sched, sched', X),
         \A p \in X \cap Pids : /\ TimerMode(sched.pstate[p]) = "awake"
                                /\ TimerMode(sched'.pstate[p]) = "awake"
  PROVE  Calm
  BY ModesKept DEF Calm

LEMMA CalmStill == sched' = sched => Calm
  BY DEF Calm

LEMMA CalmResched ==
  ASSUME IInv, \/ sched' = Resched(sched)
               \/ sched' = TickPreempt(sched)
  PROVE  Calm
<1>1. Running(sched) /\ SchedInv(sched)
  BY DEF IInv, ProcInv, Running
<1>2. Same(sched, sched', {})
  BY <1>1, ReschedProps, TickPreemptProps
<1>3. QED BY <1>2, CalmSame

\* The current process waits, in state st.
LEMMA BlockModes ==
  ASSUME IInv, Calls, NEW st \in PrStates \ Eligible, sched' = Block(sched, st)
  PROVE  /\ current \in UserPids /\ sched.pstate[current] = "PRCURR"
         /\ sched'.pstate[current] = st
         /\ \A p \in Pids \ {current} :
              TimerMode(sched'.pstate[p]) = TimerMode(sched.pstate[p])
<1>1. /\ Running(sched) /\ current \in Pids /\ current # NULLPROC
      /\ sched.pstate[current] = "PRCURR"
  BY ProcFacts DEF IInv, ProcInv, Calls
<1>2. sched'.pstate[current] = st /\ Same(sched, sched', {current})
  BY <1>1, BlockProps DEF current
<1>3. QED BY <1>1, <1>2, PidFacts, ModesKept

LEMMA CalmBlock ==
  ASSUME IInv, Calls, NEW st \in {"PRSUSP", "PRWAIT", "PRRECV"},
         sched' = Block(sched, st)
  PROVE  Calm
<1>1. st \in PrStates \ Eligible
  BY DEF PrStates, Eligible
<1>2. /\ sched.pstate[current] = "PRCURR" /\ sched'.pstate[current] = st
      /\ \A p \in Pids \ {current} :
           TimerMode(sched'.pstate[p]) = TimerMode(sched.pstate[p])
  BY <1>1, BlockModes
<1>3. QED BY <1>2, ModeFacts DEF Calm

\* A waiting process p becomes ready.
LEMMA ReadyModes ==
  ASSUME IInv, NEW p \in UserPids, sched.pstate[p] \notin Eligible,
         sched' = Ready(sched, p) \/ sched' = ReadyResched(sched, p)
  PROVE  /\ TimerMode(sched'.pstate[p]) = "awake"
         /\ \A q \in Pids \ {p} :
              TimerMode(sched'.pstate[q]) = TimerMode(sched.pstate[q])
<1>1. /\ Running(sched) /\ SchedInv(sched) /\ p \in Pids
      /\ sched.pstate \in [Pids -> PrStates]
  BY ProcFacts, PidFacts DEF IInv, ProcInv, Running
<1>2. CASE sched' = Ready(sched, p)
  <2>1. sched'.pstate = [sched.pstate EXCEPT ![p] = "PRREADY"]
    BY <1>1, <1>2, ReadyProps
  <2>2. QED BY <1>1, <2>1, ModeFacts
<1>3. CASE sched' # Ready(sched, p)
  <2>1. sched'.pstate[p] \in Eligible /\ Same(sched, sched', {p})
    BY <1>1, <1>3, ReadyReschedProps
  <2>2. QED BY <2>1, ModeFacts, ModesKept
<1>4. QED BY <1>2, <1>3

LEMMA ProcCalm ==
  ASSUME IInv, ProcNext
  PROVE  Calm
<1>1. Running(sched)
  BY DEF IInv, ProcInv
<1>2. ASSUME NEW prio \in Prios, CreateFailing(prio) PROVE Calm
  BY <1>2, CalmStill DEF CreateFailing
<1>3. ASSUME NEW p \in UserPids, Resume(p) PROVE Calm
  <2>1. sched.pstate[p] = "PRSUSP" /\ sched' = ReadyResched(sched, p)
    BY <1>3 DEF Resume
  <2>2. sched.pstate[p] \notin Eligible /\ TimerMode(sched.pstate[p]) = "awake"
    BY <2>1, ModeFacts DEF Eligible
  <2>3. QED BY <2>1, <2>2, ReadyModes DEF Calm
<1>4. ASSUME NEW p \in UserPids, SuspendReady(p) PROVE Calm
  <2>1. sched' = Retired(sched, p, "PRSUSP") /\ sched.pstate[p] = "PRREADY"
    BY <1>4 DEF SuspendReady, Retired
  <2>2. "PRSUSP" \in PrStates \ Eligible
    BY DEF PrStates, Eligible
  <2>3. sched'.pstate[p] = "PRSUSP" /\ Same(sched, sched', {p})
    BY <1>1, <2>1, <2>2, RetiredProps
  <2>4. QED BY <2>1, <2>3, ModeFacts, CalmSame
<1>5. ASSUME NEW p \in UserPids, NEW prio \in NewPrios, Chprio(p, prio) PROVE Calm
  <2>1. p \in Pids /\ prio \in Nat
    BY PidFacts, ProcAssumption
  <2>2. Same(sched, sched', {})
    BY <1>1, <1>5, <2>1, NewPrioProps DEF Chprio
  <2>3. QED BY <2>2, CalmSame
<1>6. ASSUME SuspendSelf PROVE Calm
  BY <1>6, CalmBlock DEF SuspendSelf
<1>7. ASSUME Yield PROVE Calm
  BY <1>7, CalmResched DEF Yield
<1>8. QED BY <1>2, <1>3, <1>4, <1>5, <1>6, <1>7 DEF ProcNext

\* The first process of a semaphore's queue is let go.
LEMMA CalmTurn ==
  ASSUME IInv, NEW s \in Sems, squeue[s] # EmptyQueue,
         \/ sched' = Ready(sched, FirstPid(squeue[s]))
         \/ sched' = ReadyResched(sched, FirstPid(squeue[s]))
  PROVE  Calm
<1> DEFINE p == FirstPid(squeue[s])
<1>1. ProcInv /\ SemInv
  BY DEF IInv
<1>2. squeue[s] \in Seq(Records(Pids)) /\ Distinct(squeue[s])
  BY <1>1, SemFacts
<1>3. p \in Members(squeue[s])
  BY <1>2, ButFirstProps
<1>4. p \in Pids /\ sched.pstate[p] = "PRWAIT"
  BY <1>1, <1>3, SemFacts
<1>5. sched' = Ready(sched, p) \/ sched' = ReadyResched(sched, p)
  OBVIOUS
<1> HIDE DEF p
<1>6. p \in UserPids /\ sched.pstate[p] \notin Eligible
  BY <1>1, <1>4, PidFacts DEF ProcInv, Running, SchedInv, Eligible
<1>7. QED BY <1>4, <1>5, <1>6, ReadyModes, ModeFacts DEF Calm

LEMMA SemCalm ==
  ASSUME IInv, SemNext
  PROVE  Calm
<1>1. ProcInv /\ SemInv
  BY DEF IInv
<1>2. ASSUME NEW count \in SemCounts, Screate(count) PROVE Calm
  BY <1>2, CalmStill DEF Screate, procVars
<1>3. ASSUME NEW s \in Sems, Wait(s) PROVE Calm
  <2>1. Calls /\ (sched' = sched \/ sched' = Block(sched, "PRWAIT"))
    BY <1>3 DEF Wait
  <2>2. QED BY <2>1, CalmStill, CalmBlock
<1>4. ASSUME NEW s \in Sems, Signal(s) PROVE Calm
  <2>1. sstate[s] = "SUSED" /\ Calls
    BY <1>4 DEF Signal
  <2>2. ~InLoop("sreset", s)
    BY <2>1, CallOn
  <2>3. \/ sched' = sched
        \/ semcnt[s] < 0 /\ sched' = ReadyResched(sched, FirstPid(squeue[s]))
    BY <1>4 DEF Signal
  <2>4. semcnt[s] < 0 => squeue[s] # EmptyQueue
    BY <1>1, <2>1, <2>2, NegativeCount
  <2>5. QED BY <2>3, <2>4, CalmStill, CalmTurn
<1>5. ASSUME NEW s \in Sems, Sdelete(s) PROVE Calm
  BY <1>5, CalmStill DEF Sdelete
<1>6. ASSUME NEW s \in Sems, NEW count \in SignalCounts, Signaln(s, count)
      PROVE  Calm
  BY <1>6, CalmStill DEF Signaln
<1>7. ASSUME NEW s \in Sems, NEW count \in SemCounts, Sreset(s, count)
      PROVE  Calm
  BY <1>7, CalmStill DEF Sreset
<1>8. ASSUME SignalnTurn PROVE Calm
  <2>1. cont[current].op = "signaln"
    BY <1>8 DEF SignalnTurn, In
  <2>2. PICK s \in Sems : s = cont[current].arg /\ sstate[s] = "SUSED"
    BY <2>1, InLoopOn DEF SemLoops
  <2>3. ~InLoop("sreset", s)
    BY <1>1, <2>1, OneLoop
  <2>4. \/ sched' = sched
        \/ semcnt[s] < 0 /\ sched' = Ready(sched, FirstPid(squeue[s]))
    BY <1>8, <2>2 DEF SignalnTurn
  <2>5. semcnt[s] < 0 => squeue[s] # EmptyQueue
    BY <1>1, <2>2, <2>3, NegativeCount
  <2>6. QED BY <2>4, <2>5, CalmStill, CalmTurn
<1>9. ASSUME SignalnEnd \/ SresetEnd \/ SdeleteEnd PROVE Calm
  BY <1>9, CalmResched DEF SignalnEnd, SresetEnd, SdeleteEnd
<1>10. ASSUME SresetTurn \/ SdeleteTurn PROVE Calm
  <2>1. cont[current].op \in {"sreset", "sdelete"}
    BY <1>10 DEF SresetTurn, SdeleteTurn, In
  <2>2. PICK s \in Sems : s = cont[current].arg
    BY <2>1, InLoopOn DEF SemLoops
  <2>3. squeue[s] # EmptyQueue /\ sched' = Ready(sched, FirstPid(squeue[s]))
    BY <1>10, <2>2 DEF SresetTurn, SdeleteTurn
  <2>4. QED BY <2>3, CalmTurn
<1>11. QED BY <1>2, <1>3, <1>4, <1>5, <1>6, <1>7, <1>8, <1>9, <1>10 DEF SemNext

----------------------------------------------------------------------------
(* The timers.                                                             *)

(***************************************************************************)
(* No entry of the delta list is overdue, and the first one is due only    *)
(* while wakeup is on its way to take it off.                              *)
(***************************************************************************)
DeltaInv ==
  /\ LateOrNow(clockq)
  /\ ~Waking /\ clockq # EmptyQueue => clockq[1].key > 0

LEMMA TimerFacts ==
  ASSUME IInv
  PROVE  /\ clockq \in Seq(Records(Pids)) /\ Distinct(clockq)
         /\ \A p \in UserPids : p \in Pids
         /\ \A p \in Pids : p \in Members(clockq) <=> sched.pstate[p] \in Asleep
         /\ \A p : TimeLeft(p) = IF p \in Members(clockq)
                                 THEN TimeIn(clockq, p) ELSE 0
         /\ \A p \in UserPids : /\ TimerModes[p] = TimerMode(sched.pstate[p])
                                /\ TimesLeft[p] = TimeLeft(p)
                                /\ TimerHas[p] = phasmsg[p]
                                /\ Timers!OnClock(p) <=> p \in Members(clockq)
         /\ phasmsg \in [Pids -> BOOLEAN]
<1>1. /\ clockq \in Seq(Records(Pids)) /\ Distinct(clockq)
      /\ \A p \in Pids : p \in Members(clockq) <=> sched.pstate[p] \in Asleep
  BY ClockFacts DEF IInv
<1>2. \A p : TimeLeft(p) = IF p \in Members(clockq)
                           THEN TimeIn(clockq, p) ELSE 0
  BY DEF TimeLeft, TimeIn
<1>3. \A p \in UserPids : /\ TimerModes[p] = TimerMode(sched.pstate[p])
                          /\ TimesLeft[p] = TimeLeft(p)
                          /\ TimerHas[p] = phasmsg[p]
  BY DEF TimerModes, TimesLeft, TimerHas
<1>4. \A p \in UserPids : Timers!OnClock(p) <=> p \in Members(clockq)
  BY <1>1, <1>3, PidFacts, ModeFacts DEF Timers!OnClock, Asleep
<1>5. QED BY <1>1, <1>2, <1>3, <1>4, PidFacts DEF IInv, MsgInv, MsgTypeOK

\* The mapped variables, one process at a time.
LEMMA ModesTo ==
  ASSUME NEW p \in UserPids, NEW m, TimerMode(sched'.pstate[p]) = m,
         \A q \in Pids \ {p} :
            TimerMode(sched'.pstate[q]) = TimerMode(sched.pstate[q])
  PROVE  TimerModes' = [TimerModes EXCEPT ![p] = m]
  BY PidFacts DEF TimerModes

LEMMA LeftTo ==
  ASSUME NEW p \in UserPids, NEW n, TimeLeft(p)' = n,
         \A q \in Pids \ {p} : TimeLeft(q)' = TimeLeft(q)
  PROVE  TimesLeft' = [TimesLeft EXCEPT ![p] = n]
  BY PidFacts DEF TimesLeft

LEMMA HasTo ==
  ASSUME IInv, NEW p \in UserPids, NEW b \in BOOLEAN,
         phasmsg' = [phasmsg EXCEPT ![p] = b]
  PROVE  TimerHas' = [TimerHas EXCEPT ![p] = b]
<1>1. \A q \in Pids : phasmsg'[q] = IF q = p THEN b ELSE phasmsg[q]
  BY TimerFacts
<1>2. QED BY <1>1, PidFacts DEF TimerHas

LEMMA ModesStay == Calm => TimerModes' = TimerModes
  BY PidFacts DEF Calm, TimerModes

LEMMA LeftStays == clockq' = clockq => TimesLeft' = TimesLeft
  BY DEF TimesLeft, TimeLeft

LEMMA HasStays == phasmsg' = phasmsg => TimerHas' = TimerHas
  BY DEF TimerHas

LEMMA TimersStill ==
  ASSUME Calm, clockq' = clockq, phasmsg' = phasmsg
  PROVE  UNCHANGED Timers!timerVars
  BY ModesStay, LeftStays, HasStays DEF Timers!timerVars

\* Outside wakeup a step that leaves the list alone keeps DeltaInv.
LEMMA DeltaFrame ==
  ASSUME DeltaInv, ~Waking, clockq' = clockq
  PROVE  DeltaInv'
  BY DEF DeltaInv

Steps == [Timers!TimerNext]_(Timers!timerVars) /\ DeltaInv'

LEMMA StillSteps ==
  ASSUME DeltaInv, ~Waking, Calm, clockq' = clockq, phasmsg' = phasmsg
  PROVE  Steps
  BY TimersStill, DeltaFrame DEF Steps

(***************************************************************************)
(* sleep1000(n), or recvtim(n) with no message.                            *)
(***************************************************************************)
LEMMA EnterSteps ==
  ASSUME IInv, IInv', DeltaInv, Calls, NEW n \in SleepTicks \cup RecvTicks, n \in Nat \ {0},
         NEW st \in Asleep, sched' = Block(sched, st), EnterClockq(current, n),
         st = "PRTRECV" => ~phasmsg[current], phasmsg' = phasmsg
  PROVE  Steps
<1>1. /\ clockq \in Seq(Records(Pids)) /\ Distinct(clockq)
      /\ \A p \in Pids : p \in Members(clockq) <=> sched.pstate[p] \in Asleep
      /\ \A p : TimeLeft(p) = IF p \in Members(clockq)
                              THEN TimeIn(clockq, p) ELSE 0
      /\ \A p \in UserPids : TimerModes[p] = TimerMode(sched.pstate[p])
      /\ TimerHas[current] = phasmsg[current] \/ current \notin UserPids
  BY TimerFacts
<1>2. \A p : TimeLeft(p)' = IF p \in Members(clockq')
                            THEN TimeIn(clockq', p) ELSE 0
  BY DEF TimeLeft, TimeIn
<1>3. st \in PrStates \ Eligible /\ ~Waking
  BY KTypes DEF Asleep, PrStates, Eligible, Calls, InUser, Waking, In
<1>4. PICK c \in UserPids :
        /\ c = current /\ sched.pstate[c] = "PRCURR" /\ sched'.pstate[c] = st
        /\ \A p \in Pids \ {c} :
             TimerMode(sched'.pstate[p]) = TimerMode(sched.pstate[p])
  BY <1>3, BlockModes
<1>5. c \in Pids /\ c \notin Members(clockq) /\ clockq' = InsertD(clockq, c, n)
  BY <1>1, <1>4, PidFacts DEF Asleep, EnterClockq
<1>6. /\ LateOrNow(clockq') /\ TimeIn(clockq', c) = n
      /\ \A q \in Members(clockq) : TimeIn(clockq', q) = TimeIn(clockq, q)
      /\ clockq'[1].key > 0
  <2>1. LateOrNow(clockq) /\ (clockq # EmptyQueue => clockq[1].key > 0)
    BY <1>3 DEF DeltaInv
  <2>2. QED BY <1>1, <1>5, <2>1, InsertDTimes
<1>7. Members(clockq') = Members(clockq) \cup {c}
  <2>1. n \in Int
    OBVIOUS
  <2>2. QED BY <1>1, <1>5, <2>1, InsertDProps
<1>8. TimerMode(st) = IF st = "PRSLEEP" THEN "asleep" ELSE "timing"
  BY ModeFacts DEF Asleep
<1>9. TimerModes' = [TimerModes EXCEPT ![c] = TimerMode(st)]
  BY <1>4, ModesTo
<1>10. TimesLeft' = [TimesLeft EXCEPT ![c] = n]
  <2>1. TimeLeft(c)' = n /\ \A q \in Pids \ {c} : TimeLeft(q)' = TimeLeft(q)
    BY <1>1, <1>2, <1>6, <1>7
  <2>2. QED BY <1>4, <2>1, LeftTo
<1>11. TimerHas' = TimerHas
  BY HasStays
<1>12. /\ TimerModes[c] = "awake" /\ TimerMode(st) \in {"asleep", "timing"}
       /\ TimerMode(st) = "timing" => ~TimerHas[c]
  BY <1>1, <1>4, <1>8, ModeFacts DEF Eligible, Asleep
<1>13. Timers!Start(c, TimerMode(st), n)
  BY <1>9, <1>10, <1>11, <1>12 DEF Timers!Start
<1>14. Timers!TimerNext
  BY <1>4, <1>12, <1>13 DEF Timers!TimerNext
<1>15. DeltaInv'
  BY <1>6 DEF DeltaInv
<1>16. QED BY <1>14, <1>15 DEF Steps

\* send(p, m), or the notice of a death.
LEMMA DeliverSteps ==
  ASSUME IInv, DeltaInv, ~Waking, NEW p, CanSend(p), NEW m, Deliver(p, m)
  PROVE  Steps
<1>1. /\ clockq \in Seq(Records(Pids)) /\ Distinct(clockq)
      /\ \A q \in Pids : q \in Members(clockq) <=> sched.pstate[q] \in Asleep
      /\ \A q : TimeLeft(q) = IF q \in Members(clockq)
                              THEN TimeIn(clockq, q) ELSE 0
      /\ \A q \in UserPids : TimerModes[q] = TimerMode(sched.pstate[q])
  BY TimerFacts
<1>2. \A q : TimeLeft(q)' = IF q \in Members(clockq')
                            THEN TimeIn(clockq', q) ELSE 0
  BY DEF TimeLeft, TimeIn
<1>3. p \in UserPids /\ p \in Pids /\ sched.pstate[p] # "PRFREE"
  BY PidFacts DEF CanSend
<1>4. TimerHas' = [TimerHas EXCEPT ![p] = TRUE] /\ TimerModes[p] # "dead"
  BY <1>1, <1>3, HasTo, ModeFacts DEF Deliver
<1>5. CASE sched.pstate[p] = "PRTRECV"
  <2>1. /\ sched' = ReadyResched(sched, p) /\ clockq' = Unlink(clockq, p)
        /\ sched.pstate[p] \notin Eligible /\ p \in Members(clockq)
    BY <1>1, <1>3, <1>5 DEF Deliver, Unsleep, Eligible, Asleep
  <2>2. TimerModes' = [TimerModes EXCEPT ![p] = "awake"]
    BY <1>3, <2>1, ReadyModes, ModesTo
  <2>3. /\ LateOrNow(clockq')
        /\ \A q \in Members(clockq) \ {p} : TimeIn(clockq', q) = TimeIn(clockq, q)
        /\ clockq[1].key > 0 /\ clockq' # EmptyQueue => clockq'[1].key > 0
    BY <1>1, <2>1, UnlinkTimes DEF DeltaInv
  <2>4. Members(clockq') = Members(clockq) \ {p}
    BY <1>1, <2>1, UnlinkProps
  <2>5. TimesLeft' = [TimesLeft EXCEPT ![p] = 0]
    <3>1. TimeLeft(p)' = 0 /\ \A q \in Pids \ {p} : TimeLeft(q)' = TimeLeft(q)
      BY <1>1, <1>2, <2>3, <2>4
    <3>2. QED BY <1>3, <3>1, LeftTo
  <2>6. Timers!Message(p)
    <3>1. TimerModes[p] = "timing"
      BY <1>1, <1>3, <1>5, ModeFacts
    <3>2. QED BY <1>4, <2>2, <2>5, <3>1 DEF Timers!Message
  <2>7. clockq # EmptyQueue
    BY <2>1, EmptyQueueProps
  <2>8. DeltaInv'
    BY <2>3, <2>7 DEF DeltaInv
  <2>9. QED BY <1>3, <2>6, <2>8 DEF Steps, Timers!TimerNext
<1>6. CASE sched.pstate[p] # "PRTRECV"
  <2>1. /\ sched' = sched \/ (sched' = ReadyResched(sched, p)
                              /\ sched.pstate[p] = "PRRECV")
        /\ UNCHANGED clkVars
    BY <1>6 DEF Deliver
  <2>2. Calm
    <3>1. CASE sched' = ReadyResched(sched, p) /\ sched.pstate[p] = "PRRECV"
      <4>1. sched.pstate[p] \notin Eligible
        BY <3>1 DEF Eligible
      <4>2. QED BY <1>3, <3>1, <4>1, ReadyModes, ModeFacts DEF Calm
    <3>2. QED BY <2>1, <3>1, CalmStill
  <2>3. TimerModes' = TimerModes /\ TimesLeft' = TimesLeft
    BY <2>1, <2>2, ModesStay, LeftStays DEF clkVars
  <2>4. TimerModes[p] # "timing"
    BY <1>1, <1>3, <1>6, ModeFacts
  <2>5. Timers!Message(p)
    BY <1>4, <2>3, <2>4 DEF Timers!Message
  <2>6. DeltaInv'
    BY <2>1, DeltaFrame DEF clkVars
  <2>7. QED BY <1>3, <2>5, <2>6 DEF Steps, Timers!TimerNext
<1>7. QED BY <1>5, <1>6

\* The current process takes its message, if it has one.
LEMMA TakeSteps ==
  ASSUME IInv, DeltaInv, ~Waking, current # NULLPROC, TakeMsg,
         UNCHANGED <<sched, clockq>>
  PROVE  Steps
<1>1. current \in Pids /\ sched.pstate[current] = "PRCURR"
  BY ProcFacts DEF IInv
<1>2. current \in UserPids
  BY <1>1, PidFacts
<1>3. TimerModes[current] = "awake"
  BY <1>1, <1>2, TimerFacts, ModeFacts
<1>4. TimerHas' = [TimerHas EXCEPT ![current] = FALSE]
  BY <1>2, HasTo DEF TakeMsg
<1>5. TimerModes' = TimerModes /\ TimesLeft' = TimesLeft
  BY CalmStill, ModesStay, LeftStays
<1>6. Timers!Take(current)
  BY <1>3, <1>4, <1>5 DEF Timers!Take
<1>7. QED BY <1>2, <1>6, DeltaFrame DEF Steps, Timers!TimerNext

LEMMA MsgSteps ==
  ASSUME IInv, IInv', DeltaInv, MsgNext, RecvTicks \subseteq Nat \ {0}
  PROVE  Steps
<1>1. /\ ProcInv /\ cont[NULLPROC].op \in {"user", "wakeup_clkint", "clkint"}
      /\ Calls => current # NULLPROC /\ ~Waking
  BY KTypes DEF IInv, ProcInv, ContInv, Calls, InUser, Waking, In
<1>2. ASSUME NEW p \in UserPids, NEW m \in Msgs, Send(p, m) PROVE Steps
  BY <1>1, <1>2, DeliverSteps DEF Send
<1>3. ASSUME Receive PROVE Steps
  <2>1. CASE phasmsg[current]
    BY <1>1, <1>3, <2>1, TakeSteps DEF Receive, clkVars
  <2>2. CASE ~phasmsg[current]
    <3>1. Calls /\ sched' = Block(sched, "PRRECV") /\ UNCHANGED <<phasmsg, clkVars>>
      BY <1>3, <2>2 DEF Receive
    <3>2. QED BY <1>1, <3>1, CalmBlock, StillSteps DEF clkVars
  <2>3. QED BY <2>1, <2>2
<1>4. ASSUME ReceiveEnd \/ RecvtimEnd PROVE Steps
  <2>1. TakeMsg /\ UNCHANGED <<sched, clkVars>>
    BY <1>4 DEF ReceiveEnd, RecvtimEnd
  <2>2. current # NULLPROC /\ ~Waking
    BY <1>1, <1>4 DEF ReceiveEnd, RecvtimEnd, In, Waking
  <2>3. QED BY <2>1, <2>2, TakeSteps DEF clkVars
<1>5. ASSUME Recvclr PROVE Steps
  BY <1>1, <1>5, TakeSteps DEF Recvclr, procVars, clkVars
<1>6. ASSUME NEW w \in RecvTicks, Recvtim(w) PROVE Steps
  <2>1. CASE phasmsg[current]
    BY <1>1, <1>6, <2>1, TakeSteps DEF Recvtim, clkVars
  <2>2. CASE ~phasmsg[current]
    <3>1. /\ Calls /\ sched' = Block(sched, "PRTRECV") /\ phasmsg' = phasmsg
          /\ EnterClockq(current, w)
      BY <1>6, <2>2 DEF Recvtim
    <3>2. "PRTRECV" \in Asleep /\ w \in Nat \ {0} /\ w \in SleepTicks \cup RecvTicks
      BY DEF Asleep
    <3>3. QED BY <2>2, <3>1, <3>2, EnterSteps
  <2>3. QED BY <2>1, <2>2
<1>7. ASSUME NEW p \in UserPids, NEW nok \in Noks, Setnok(nok, p) PROVE Steps
  BY <1>1, <1>7, CalmStill, StillSteps DEF Setnok, procVars, clkVars
<1>8. QED BY <1>2, <1>3, <1>4, <1>5, <1>6, <1>7 DEF MsgNext

\* One tick shortens the first key, and with it everybody's time.
LEMMA TickSteps ==
  ASSUME IInv, DeltaInv, Tick, phasmsg' = phasmsg
  PROVE  Steps
<1>1. /\ clockq \in Seq(Records(Pids)) /\ Distinct(clockq)
      /\ \A q \in Pids : q \in Members(clockq) <=> sched.pstate[q] \in Asleep
      /\ \A q : TimeLeft(q) = IF q \in Members(clockq)
                              THEN TimeIn(clockq, q) ELSE 0
      /\ \A q \in UserPids : /\ TimesLeft[q] = TimeLeft(q) /\ q \in Pids
                             /\ Timers!OnClock(q) <=> q \in Members(clockq)
  BY TimerFacts
<1>2. \A q : TimeLeft(q)' = IF q \in Members(clockq')
                            THEN TimeIn(clockq', q) ELSE 0
  BY DEF TimeLeft, TimeIn
<1>3. ~Waking
  BY KTypes DEF Tick, InUser, Waking, In
<1>4. Calm
  <2>1. sched' = sched \/ sched' = TickPreempt(sched)
    BY DEF Tick
  <2>2. QED BY <2>1, CalmStill, CalmResched
<1>5. CASE ~slnempty
  <2>1. clockq' = clockq
    BY <1>5 DEF Tick
  <2>2. QED BY <1>3, <1>4, <2>1, StillSteps
<1>6. CASE slnempty
  <2>1. clockq # EmptyQueue /\ sltop = FirstPid(clockq)
    BY <1>3, <1>6 DEF IInv, ClockInv, ClockCacheCoherent
  <2>2. /\ Len(clockq) \in Nat /\ Len(clockq) # 0 /\ Len(clockq) > 0
        /\ 1 \in 1 .. Len(clockq)
    BY <1>1, <2>1, ListFacts, EmptyQueueLen
  <2>3. sltop = clockq[1].pid /\ PosOf(clockq, sltop) = 1
    <3>1. sltop = clockq[1].pid
      BY <1>1, <2>1, <2>2, ButFirstTimes, HeadTailProperties DEF FirstPid, EmptyQueue
    <3>2. QED BY <1>1, <2>2, <3>1, PosOfUnique
  <2>4. Nearer(clockq, clockq')
    BY <1>6, <2>3 DEF Tick, TickKey, Nearer
  <2>5. /\ \A q \in Members(clockq) : TimeIn(clockq', q) = TimeIn(clockq, q) - 1
        /\ clockq'[1].key = clockq[1].key - 1
        /\ \A j \in 1 .. Len(clockq) : j # 1 => clockq'[j].key = clockq[j].key
        /\ Len(clockq') = Len(clockq)
    BY <1>1, <2>1, <2>4, FirstKeyTimes
  <2>6. SamePids(clockq, clockq') /\ clockq' \in Seq(Records(Pids))
    BY <1>3, <1>6, TickKeyProps DEF Tick, IInv
  <2>7. Members(clockq') = Members(clockq) /\ Distinct(clockq')
    BY <1>1, <2>6, SamePidsProps
  <2>8. /\ LateOrNow(clockq) /\ clockq[1].key > 0
        /\ \A j \in 1 .. Len(clockq) : clockq[j].key \in Int
    BY <1>1, <1>3, <2>1, ListFacts DEF DeltaInv
  <2>9. \A q \in Members(clockq) : TimeIn(clockq, q) > 0
    <3>1. ASSUME NEW q \in Members(clockq) PROVE TimeIn(clockq, q) > 0
      <4>1. PosOf(clockq, q) \in 1 .. Len(clockq)
        BY <1>1, PosOfMember
      <4>2. TimeIn(clockq, q) >= clockq[1].key
        BY <1>1, <2>2, <2>8, <4>1, TimesPositive DEF TimeIn
      <4>3. TimeIn(clockq, q) \in Int /\ clockq[1].key \in Int
        BY <1>1, <2>2, <2>8, TimeType
      <4>4. QED BY <2>8, <4>2, <4>3
    <3>2. QED BY <3>1
  <2>10. TimesLeft' = [p \in UserPids |-> IF Timers!OnClock(p)
                                          THEN TimesLeft[p] - 1 ELSE 0]
    <3>1. ASSUME NEW p \in UserPids
          PROVE  TimeLeft(p)' = IF Timers!OnClock(p) THEN TimesLeft[p] - 1 ELSE 0
      BY <1>1, <1>2, <2>5, <2>7
    <3>2. QED BY <3>1 DEF TimesLeft
  <2>11. Timers!TimerTick
    <3>1. TimerModes' = TimerModes /\ TimerHas' = TimerHas
      BY <1>4, ModesStay, HasStays
    <3>2. \A p \in UserPids : Timers!OnClock(p) => TimesLeft[p] > 0
      BY <1>1, <2>9
    <3>3. QED BY <2>10, <3>1, <3>2 DEF Timers!TimerTick
  <2>12. LateOrNow(clockq')
    <3>1. ASSUME NEW j \in 1 .. Len(clockq) PROVE clockq'[j].key >= 0
      <4>1. CASE j = 1
        BY <2>2, <2>5, <2>8, <4>1
      <4>2. CASE j # 1
        BY <2>5, <2>8, <4>2 DEF LateOrNow
      <4>3. QED BY <4>1, <4>2
    <3>2. QED BY <2>5, <3>1 DEF LateOrNow
  <2>13. ~Waking' => clockq'[1].key > 0
    <3>1. KeyOf(clockq', sltop) = clockq'[1].key
      <4>1. sltop = clockq'[1].pid
        BY <2>2, <2>3, <2>6 DEF SamePids
      <4>2. 1 \in 1 .. Len(clockq')
        BY <2>2, <2>5
      <4>3. PosOf(clockq', sltop) = 1
        BY <2>6, <2>7, <4>1, <4>2, PosOfUnique
      <4>4. QED BY <4>3 DEF KeyOf
    <3>2. CASE KeyOf(clockq', sltop) <= 0
      <4>1. Goto(K("wakeup_clkint")) /\ sched' = sched
        BY <1>6, <3>2 DEF Tick
      <4>2. current \in Pids /\ cont \in [Pids -> Conts] /\ current' = current
        BY <4>1, ProcFacts DEF IInv, current
      <4>3. cont'[current'].op = "wakeup_clkint"
        BY <4>1, <4>2, OpNames DEF Goto
      <4>4. QED BY <4>3 DEF Waking, In
    <3>3. CASE ~ (KeyOf(clockq', sltop) <= 0)
      <4>1. clockq'[1].key \in Int
        BY <2>2, <2>5, <2>8
      <4>2. QED BY <3>1, <3>3, <4>1
    <3>4. QED BY <3>2, <3>3
  <2>14. DeltaInv'
    BY <2>12, <2>13 DEF DeltaInv
  <2>15. QED BY <2>11, <2>14 DEF Steps, Timers!TimerNext
<1>7. QED BY <1>5, <1>6

\* One turn of wakeup ends the countdown of the first process.
LEMMA WakeupSteps ==
  ASSUME IInv, DeltaInv, WakeupTurn, phasmsg' = phasmsg
  PROVE  Steps
<1>1. /\ clockq \in Seq(Records(Pids)) /\ Distinct(clockq)
      /\ \A q \in Pids : q \in Members(clockq) <=> sched.pstate[q] \in Asleep
      /\ \A q : TimeLeft(q) = IF q \in Members(clockq)
                              THEN TimeIn(clockq, q) ELSE 0
      /\ \A q \in UserPids : /\ TimesLeft[q] = TimeLeft(q) /\ q \in Pids
                             /\ Timers!OnClock(q) <=> q \in Members(clockq)
  BY TimerFacts
<1>2. \A q : TimeLeft(q)' = IF q \in Members(clockq')
                            THEN TimeIn(clockq', q) ELSE 0
  BY DEF TimeLeft, TimeIn
<1>3. /\ Waking /\ clockq # EmptyQueue /\ Head(clockq).key <= 0
      /\ clockq' = ButFirst(clockq) /\ sched' = Ready(sched, FirstPid(clockq))
      /\ UNCHANGED cont
  BY DEF WakeupTurn, HeadIsDue
<1>4. PICK p : p = FirstPid(clockq)
  OBVIOUS
<1>5. p \in Members(clockq) /\ Members(clockq') = Members(clockq) \ {p}
  BY <1>1, <1>3, <1>4, ButFirstProps
<1>6. p \in Pids /\ sched.pstate[p] \in Asleep /\ p \in UserPids
  <2>1. p \in Pids
    BY <1>1, <1>5, ListFacts
  <2>2. sched.pstate[p] \in Asleep
    BY <1>1, <1>5, <2>1
  <2>3. p # NULLPROC
    BY <2>2 DEF IInv, ProcInv, Running, SchedInv, Eligible, Asleep
  <2>4. QED BY <2>1, <2>2, <2>3, PidFacts
<1>7. /\ LateOrNow(clockq) /\ LateOrNow(clockq')
      /\ \A q \in Members(clockq) \ {p} :
           TimeIn(clockq', q) = TimeIn(clockq, q) - clockq[1].key
      /\ TimeIn(clockq, p) = clockq[1].key /\ clockq[1].key \in Int
  BY <1>1, <1>3, <1>4, ButFirstTimes DEF DeltaInv
<1>8. clockq[1].key = 0
  <2>1. Len(clockq) \in Nat /\ Len(clockq) # 0
    BY <1>1, <1>3, ListFacts, EmptyQueueLen
  <2>2. 1 \in 1 .. Len(clockq)
    BY <2>1
  <2>3. clockq[1].key >= 0
    BY <1>7, <2>2 DEF LateOrNow
  <2>4. clockq[1].key <= 0
    BY <1>1, <1>3, HeadTailProperties DEF EmptyQueue
  <2>5. QED BY <1>7, <2>3, <2>4
<1>9. TimeLeft(p) = 0 /\ \A q \in Pids : TimeLeft(q)' = TimeLeft(q)
  <2>1. ASSUME NEW q \in Pids PROVE TimeLeft(q)' = TimeLeft(q)
    <3>1. CASE q = p
      BY <1>1, <1>2, <1>5, <1>7, <1>8, <3>1
    <3>2. CASE q \in Members(clockq) \ {p}
      <4>1. TimeIn(clockq, q) \in Int /\ TimeIn(clockq', q) = TimeIn(clockq, q) - 0
        BY <1>1, <1>7, <1>8, <3>2, TimeType
      <4>2. QED BY <1>1, <1>2, <1>5, <3>2, <4>1
    <3>3. CASE q \notin Members(clockq)
      BY <1>1, <1>2, <1>5, <3>3
    <3>4. QED BY <3>1, <3>2, <3>3
  <2>2. QED BY <1>1, <1>5, <1>7, <1>8, <2>1
<1>10. TimerModes' = [TimerModes EXCEPT ![p] = "awake"]
  <2>1. sched.pstate[p] \notin Eligible
    BY <1>6 DEF Asleep, Eligible
  <2>2. QED BY <1>3, <1>4, <1>6, <2>1, ReadyModes, ModesTo
<1>11. TimesLeft' = TimesLeft /\ TimerHas' = TimerHas
  BY <1>1, <1>9, HasStays DEF TimesLeft
<1>12. Timers!Fire(p)
  BY <1>1, <1>5, <1>6, <1>9, <1>10, <1>11 DEF Timers!Fire
<1>13. DeltaInv'
  <2>1. current' = current
    <3>1. sched.pstate[p] \notin Eligible /\ SchedInv(sched)
      BY <1>6 DEF Asleep, Eligible, IInv, ProcInv, Running
    <3>2. QED BY <1>3, <1>4, <1>6, <3>1, ReadyProps DEF current
  <2>2. Waking'
    BY <1>3, <2>1 DEF Waking, In
  <2>3. QED BY <1>7, <2>2 DEF DeltaInv
<1>14. QED BY <1>6, <1>12, <1>13 DEF Steps, Timers!TimerNext

LEMMA ClockSteps ==
  ASSUME IInv, IInv', DeltaInv, ClockNext, phasmsg' = phasmsg
  PROVE  Steps
<1>1. ASSUME NEW n \in SleepTicks, Sleep(n) PROVE Steps
  <2>1. /\ Calls /\ sched' = Block(sched, "PRSLEEP") /\ EnterClockq(current, n)
        /\ "PRSLEEP" \in Asleep /\ n \in Nat \ {0} /\ n \in SleepTicks \cup RecvTicks
    BY <1>1, ClockAssumption DEF Sleep, Asleep
  <2>2. QED BY <2>1, EnterSteps
<1>2. ASSUME Tick PROVE Steps
  BY <1>2, TickSteps
<1>3. ASSUME WakeupTurn PROVE Steps
  BY <1>3, WakeupSteps
<1>4. ASSUME WakeupEnd PROVE Steps
  <2>1. ~HeadIsDue /\ sched' = Resched(sched) /\ clockq' = clockq
    BY <1>4 DEF WakeupEnd
  <2>2. clockq # EmptyQueue => clockq[1].key > 0
    <3>1. clockq \in Seq(Records(Pids)) /\ Len(clockq) \in Nat
      BY TimerFacts, ListFacts
    <3>2. ASSUME clockq # EmptyQueue PROVE clockq[1].key > 0
      <4>1. 1 \in 1 .. Len(clockq)
        BY <3>1, <3>2, EmptyQueueLen
      <4>2. clockq[1].key \in Int /\ Head(clockq) = clockq[1]
        BY <3>1, <3>2, <4>1, ListFacts, HeadTailProperties DEF EmptyQueue
      <4>3. QED BY <2>1, <3>2, <4>2 DEF HeadIsDue
    <3>3. QED BY <3>2
  <2>3. DeltaInv'
    BY <2>1, <2>2 DEF DeltaInv
  <2>4. QED BY <2>1, <2>3, CalmResched, TimersStill DEF Steps
<1>5. ASSUME ClkintEnd \/ Stopclk \/ Strtclk \/ StrtclkEnd PROVE Steps
  <2>1. ~Waking /\ clockq' = clockq
    BY <1>5, KTypes DEF ClkintEnd, Stopclk, Strtclk, StrtclkEnd, In, Calls, InUser,
                        Waking, clkVars
  <2>2. \/ sched' = sched \/ sched' = TickPreempt(sched) \/ sched' = Resched(sched)
    BY <1>5 DEF ClkintEnd, Stopclk, Strtclk, StrtclkEnd, procVars
  <2>3. QED BY <2>1, <2>2, CalmStill, CalmResched, StillSteps
<1>6. QED BY <1>1, <1>2, <1>3, <1>4, <1>5 DEF ClockNext

\* create gives a free slot to a new process, and nobody else notices.
LEMMA BirthModes ==
  ASSUME IInv, NEW prio \in Prios, NewSlot(prio)
  PROVE  \E p \in UserPids :
           /\ p = NewPid /\ sched.pstate[p] = "PRFREE" /\ sched'.pstate[p] = "PRSUSP"
           /\ \A q \in Pids \ {p} :
                TimerMode(sched'.pstate[q]) = TimerMode(sched.pstate[q])
<1>1. ProcInv /\ Running(sched) /\ sched.pstate[NULLPROC] \in Eligible
  BY DEF IInv, ProcInv, Running, SchedInv
<1>2. PICK p : p = NewPid
  OBVIOUS
<1>3. p \in Pids /\ sched.pstate[p] = "PRFREE"
  BY <1>1, <1>2, NewPidProps DEF NewSlot, Create, CreateFails
<1>4. p \in UserPids
  BY <1>1, <1>3, PidFacts DEF Eligible
<1>5. sched' = Created(sched, p, prio) /\ prio \in Nat
  BY <1>2, ProcAssumption DEF NewSlot, Create, Created
<1>6. sched'.pstate[p] = "PRSUSP" /\ Same(sched, sched', {p})
  BY <1>1, <1>3, <1>5, CreatedProps
<1>7. QED BY <1>2, <1>3, <1>4, <1>6, ModesKept

\* The end of kill frees its victim's slot, and nobody else notices.
LEMMA DeathModes ==
  ASSUME IInv, KillEnd
  PROVE  \E p \in UserPids :
           /\ p = cont[current].arg /\ sched'.pstate[p] = "PRFREE"
           /\ \A q \in Pids \ {p} :
                TimerMode(sched'.pstate[q]) = TimerMode(sched.pstate[q])
<1>1. PICK p : p = cont[current].arg
  OBVIOUS
<1>2. /\ ProcInv /\ Running(sched) /\ current \in Pids
      /\ \A q \in Pids : sched.pstate[q] = "PRCURR" => q = current
  BY ProcFacts DEF IInv, ProcInv
<1>3. cont[current].op = "kill" /\ p \in UserPids /\ p \in Pids /\ p # NULLPROC
  BY <1>1, <1>2, PidFacts DEF KillEnd, In, ProcInv, ContInv
<1>4. sched' = IF sched.pstate[p] = "PRCURR" THEN Block(sched, "PRFREE")
               ELSE Retired(sched, p, "PRFREE")
  BY <1>1 DEF KillEnd, Retired
<1>5. "PRFREE" \in PrStates \ Eligible
  BY DEF PrStates, Eligible
<1>6. sched'.pstate[p] = "PRFREE" /\ Same(sched, sched', {p})
  <2>1. CASE sched.pstate[p] = "PRCURR"
    <3>1. p = sched.currpid /\ sched' = Block(sched, "PRFREE")
      BY <1>2, <1>3, <1>4, <2>1 DEF current
    <3>2. QED BY <1>2, <1>3, <1>5, <3>1, BlockProps
  <2>2. CASE sched.pstate[p] # "PRCURR"
    BY <1>2, <1>3, <1>4, <1>5, <2>2, RetiredProps
  <2>3. QED BY <2>1, <2>2
<1>7. QED BY <1>1, <1>3, <1>6, ModesKept

LEMMA BirthSteps ==
  ASSUME IInv, DeltaInv, NEW prio \in Prios, NewSlot(prio)
  PROVE  Steps
<1>1. PICK p \in UserPids :
        /\ p = NewPid /\ sched.pstate[p] = "PRFREE" /\ sched'.pstate[p] = "PRSUSP"
        /\ \A q \in Pids \ {p} :
             TimerMode(sched'.pstate[q]) = TimerMode(sched.pstate[q])
  BY BirthModes
<1>2. /\ phasmsg' = [phasmsg EXCEPT ![p] = FALSE] /\ clockq' = clockq /\ Calls
  BY <1>1 DEF NewSlot, Create, clkVars
<1>3. TimerModes' = [TimerModes EXCEPT ![p] = "awake"] /\ TimerModes[p] = "dead"
  BY <1>1, ModeFacts, ModesTo, TimerFacts
<1>4. TimerHas' = [TimerHas EXCEPT ![p] = FALSE] /\ TimesLeft' = TimesLeft
  BY <1>2, HasTo, LeftStays
<1>5. Timers!Born(p)
  BY <1>3, <1>4 DEF Timers!Born
<1>6. ~Waking
  BY <1>2, KTypes DEF Calls, InUser, Waking, In
<1>7. QED BY <1>2, <1>5, <1>6, DeltaFrame DEF Steps, Timers!TimerNext

LEMMA KillSteps ==
  ASSUME IInv, DeltaInv, NEW p \in UserPids, Kill(p)
  PROVE  Steps
<1>1. ~Waking /\ NotifyKin(p)
  BY KTypes DEF Kill, Calls, InUser, Waking, In
<1>2. CASE CanSend(pnxtkin[p])
  BY <1>1, <1>2, DeliverSteps DEF NotifyKin
<1>3. CASE ~CanSend(pnxtkin[p])
  BY <1>1, <1>3, CalmStill, StillSteps DEF NotifyKin, clkVars
<1>4. QED BY <1>2, <1>3

LEMMA KillEndSteps ==
  ASSUME IInv, DeltaInv, KillEnd
  PROVE  Steps
<1>1. /\ clockq \in Seq(Records(Pids)) /\ Distinct(clockq)
      /\ \A q \in Pids : q \in Members(clockq) <=> sched.pstate[q] \in Asleep
      /\ \A q : TimeLeft(q) = IF q \in Members(clockq)
                              THEN TimeIn(clockq, q) ELSE 0
  BY TimerFacts
<1>2. \A q : TimeLeft(q)' = IF q \in Members(clockq')
                            THEN TimeIn(clockq', q) ELSE 0
  BY DEF TimeLeft, TimeIn
<1>3. PICK p \in UserPids :
        /\ p = cont[current].arg /\ sched'.pstate[p] = "PRFREE"
        /\ \A q \in Pids \ {p} :
             TimerMode(sched'.pstate[q]) = TimerMode(sched.pstate[q])
  BY DeathModes
<1>4. /\ IF sched.pstate[p] \in Asleep THEN Unsleep(p) ELSE UNCHANGED clkVars
      /\ phasmsg' = phasmsg /\ ~Waking /\ p \in Pids
  BY <1>3, PidFacts DEF KillEnd, msgVars, Asleep, Waking, In
<1>5. TimerModes' = [TimerModes EXCEPT ![p] = "dead"] /\ TimerHas' = TimerHas
  BY <1>3, <1>4, ModeFacts, ModesTo, HasStays
<1>6. TimesLeft' = [TimesLeft EXCEPT ![p] = 0] /\ DeltaInv'
  <2>1. CASE sched.pstate[p] \in Asleep
    <3>1. p \in Members(clockq) /\ clockq' = Unlink(clockq, p)
      BY <1>1, <1>4, <2>1 DEF Unsleep
    <3>2. clockq # EmptyQueue
      BY <3>1, EmptyQueueProps
    <3>3. /\ LateOrNow(clockq')
          /\ \A q \in Members(clockq) \ {p} : TimeIn(clockq', q) = TimeIn(clockq, q)
          /\ clockq' # EmptyQueue => clockq'[1].key > 0
      BY <1>1, <1>4, <3>1, <3>2, UnlinkTimes DEF DeltaInv
    <3>4. Members(clockq') = Members(clockq) \ {p}
      BY <1>1, <3>1, UnlinkProps
    <3>5. TimeLeft(p)' = 0 /\ \A q \in Pids \ {p} : TimeLeft(q)' = TimeLeft(q)
      BY <1>1, <1>2, <3>3, <3>4
    <3>6. QED BY <3>3, <3>5, LeftTo DEF DeltaInv
  <2>2. CASE sched.pstate[p] \notin Asleep
    <3>1. clockq' = clockq /\ p \notin Members(clockq)
      BY <1>1, <1>4, <2>2 DEF clkVars
    <3>2. TimeLeft(p)' = 0 /\ \A q \in Pids \ {p} : TimeLeft(q)' = TimeLeft(q)
      BY <1>1, <1>2, <3>1
    <3>3. QED BY <1>4, <3>1, <3>2, LeftTo, DeltaFrame
  <2>3. QED BY <2>1, <2>2
<1>7. Timers!Die(p)
  BY <1>5, <1>6 DEF Timers!Die
<1>8. QED BY <1>6, <1>7 DEF Steps, Timers!TimerNext

LEMMA InitTimers ==
  ASSUME Init
  PROVE  Timers!TimerInit /\ DeltaInv
<1>1. /\ clockq = EmptyQueue /\ phasmsg = [p \in Pids |-> FALSE]
      /\ sched.pstate = [p \in Pids |-> IF p = NULLPROC THEN "PRREADY"
                                        ELSE IF p = MainPid THEN "PRCURR"
                                        ELSE "PRFREE"]
  BY DEF Init, ProcInit, ClockInit, MsgInit
<1>2. \A p \in UserPids : TimerMode(sched.pstate[p]) \in {"awake", "dead"}
  BY <1>1, PidFacts, ModeFacts
<1>3. Members(clockq) = {}
  BY <1>1, EmptyQueueProps
<1>4. Timers!TimerInit
  <2>1. TimerModes \in [UserPids -> {"awake", "dead"}]
    BY <1>2 DEF TimerModes
  <2>2. TimesLeft = [p \in UserPids |-> 0]
    BY <1>3 DEF TimesLeft, TimeLeft
  <2>3. TimerHas = [p \in UserPids |-> FALSE]
    BY <1>1, PidFacts DEF TimerHas
  <2>4. QED BY <2>1, <2>2, <2>3 DEF Timers!TimerInit
<1>5. DeltaInv
  <2>1. Len(clockq) = 0
    BY <1>1 DEF EmptyQueue
  <2>2. QED BY <1>1, <2>1 DEF DeltaInv, LateOrNow
<1>6. QED BY <1>4, <1>5

(***************************************************************************)
(* insertd.c, unsleep.c, wakeup.c and clkint.S on one shared list of       *)
(* differences implement a countdown of its own for every process that     *)
(* sleeps or receives with a timeout, whoever is created, killed or sent a *)
(* message meanwhile: nobody is woken early, late or twice.  (recvtim(0)   *)
(* is left out: its entry is overdue before the next tick.)                *)
(***************************************************************************)
THEOREM TimersRefined ==
  ASSUME RecvTicks \subseteq Nat \ {0}
  PROVE  Spec => TimersExact
<1>1. Init => Timers!TimerInit /\ DeltaInv
  BY InitTimers
<1>2. IInv /\ IInv' /\ DeltaInv /\ [Next]_vars =>
        [Timers!TimerNext]_(Timers!timerVars) /\ DeltaInv'
  <2> SUFFICES ASSUME IInv, IInv', DeltaInv, [Next]_vars PROVE Steps
    BY DEF Steps
  <2>1. CASE ProcNext /\ UNCHANGED <<semVars, clkVars, msgVars, completed>>
    <3>1. ~Waking
      BY <2>1, KTypes DEF ProcNext, CreateFailing, Resume, SuspendReady, Chprio,
         SuspendSelf, Yield, Calls, InUser, Waking, In
    <3>2. QED BY <2>1, <3>1, ProcCalm, StillSteps DEF clkVars, msgVars
  <2>2. CASE SemNext /\ UNCHANGED <<clkVars, msgVars, completed>>
    <3>1. ~Waking
      BY <2>2, KTypes DEF SemNext, Screate, Wait, Signal, Sdelete, Signaln, Sreset,
         SignalnTurn, SignalnEnd, SresetTurn, SresetEnd, SdeleteTurn, SdeleteEnd,
         Calls, InUser, Waking, In
    <3>2. QED BY <2>2, <3>1, SemCalm, StillSteps DEF clkVars, msgVars
  <2>3. CASE ClockNext /\ UNCHANGED <<semVars, msgVars, completed>>
    BY <2>3, ClockSteps DEF msgVars
  <2>4. CASE MsgNext /\ UNCHANGED <<semVars, completed>>
    BY <2>4, MsgSteps
  <2>5. ASSUME NEW prio \in Prios, NewSlot(prio) PROVE Steps
    BY <2>5, BirthSteps
  <2>6. ASSUME NEW p \in UserPids, Kill(p) PROVE Steps
    BY <2>6, KillSteps
  <2>7. CASE KillEnd
    BY <2>7, KillEndSteps
  <2>8. CASE UNCHANGED vars
    <3>1. UNCHANGED <<sched, cont, clockq, phasmsg>>
      BY <2>8 DEF vars, procVars, clkVars, msgVars
    <3>2. UNCHANGED Timers!timerVars
      BY <3>1, CalmStill, TimersStill
    <3>3. Waking' <=> Waking
      BY <3>1 DEF Waking, In, current
    <3>4. QED BY <3>1, <3>2, <3>3 DEF Steps, DeltaInv
  <2>9. QED BY Zenon, <2>1, <2>2, <2>3, <2>4, <2>5, <2>6, <2>7, <2>8 DEF Next
<1>3. QED BY <1>1, <1>2, Inductive, PTL DEF Spec, TimersExact, Timers!TimerSpec

----------------------------------------------------------------------------
(* Kills that nobody interrupts.                                           *)

\* The notice of a death goes to nobody.
Quiet == \A p \in Pids : pnxtkin[p] \notin UserPids

\* Only the current process may be killing, and its victim is still alive.
OneKill ==
  \A p \in Pids : cont[p].op = "kill" =>
     p = current /\ sched.pstate[cont[p].arg] # "PRFREE"

\* The stack of a live process is its own and is not free.
OwnStacks ==
  \A p \in Live : /\ pbase[p] \in Stacks \ stkfree
                  /\ \A r \in Live \ {p} : pbase[r] # pbase[p]

\* Each kill under way has counted a process that is still alive.
Counted == numproc + Cardinality(Killers) = Cardinality(Live)

ExactInv == Quiet /\ OneKill /\ OwnStacks /\ Counted

\* Nobody is born or dies.
Alike ==
  \A p \in Pids : sched'.pstate[p] = "PRFREE" <=> sched.pstate[p] = "PRFREE"

\* A step that has nothing to do with lives, stacks and kills.
Plain ==
  /\ Alike /\ NoMoreKills /\ cont[current].op # "kill"
  /\ UNCHANGED <<numproc, pbase>> /\ stkfree' \subseteq stkfree
  /\ Quiet'

LEMMA CalmAlike == Calm => Alike
  BY ModeFacts DEF Calm, Alike

LEMMA SameLive == Alike => Live' = Live
  BY PidFacts DEF Alike, Live

LEMMA PlainExact ==
  ASSUME ExactInv, Plain
  PROVE  ExactInv'
<1>1. Live' = Live
  BY SameLive DEF Plain
<1>2. Killers = {} /\ Killers' = {}
  BY DEF ExactInv, OneKill, Plain, NoMoreKills, Killers
<1>3. Counted'
  BY <1>1, <1>2 DEF ExactInv, Counted, Plain
<1>4. OneKill'
  BY <1>2 DEF Killers, OneKill
<1>5. OwnStacks'
  BY <1>1 DEF ExactInv, OwnStacks, Plain
<1>6. QED BY <1>3, <1>4, <1>5 DEF ExactInv, Plain

\* The calls of processes and semaphores move nobody in or out.
LEMMA ProcPlain ==
  ASSUME IInv, ExactInv, ProcNext, UNCHANGED <<completed, pnxtkin>>
  PROVE  Plain
<1>1. Alike
  BY ProcCalm, CalmAlike
<1>2. NoMoreKills /\ numproc' = numproc
  BY ProcOrdinary DEF Ordinary
<1>3. cont[current].op # "kill" /\ pbase' = pbase /\ stkfree' \subseteq stkfree
  BY OpNames DEF ProcNext, CreateFailing, Resume, SuspendReady, Chprio, SuspendSelf,
     Yield, Calls, InUser
<1>4. Quiet'
  BY DEF ExactInv, Quiet
<1>5. QED BY <1>1, <1>2, <1>3, <1>4 DEF Plain

LEMMA SemPlain ==
  ASSUME IInv, ExactInv, SemNext, UNCHANGED <<completed, pnxtkin>>
  PROVE  Plain
<1>1. Alike
  BY SemCalm, CalmAlike
<1>2. NoMoreKills /\ numproc' = numproc
  BY SemOrdinary DEF Ordinary
<1>3. cont[current].op # "kill" /\ UNCHANGED <<pbase, stkfree>>
  BY OpNames DEF SemNext, Screate, Wait, Signal, Sdelete, Signaln, Sreset,
     SignalnTurn, SignalnEnd, SresetTurn, SresetEnd, SdeleteTurn, SdeleteEnd,
     Calls, InUser, In, procVars
<1>4. Quiet'
  BY DEF ExactInv, Quiet
<1>5. QED BY <1>1, <1>2, <1>3, <1>4 DEF Plain

\* The current process waits: it stays alive.
LEMMA BlockAlike ==
  ASSUME IInv, Calls, NEW st \in PrStates \ Eligible, st # "PRFREE",
         sched' = Block(sched, st)
  PROVE  Alike
<1>1. /\ sched.pstate[current] = "PRCURR" /\ sched'.pstate[current] = st
      /\ \A p \in Pids \ {current} :
           TimerMode(sched'.pstate[p]) = TimerMode(sched.pstate[p])
  BY BlockModes
<1>2. QED BY <1>1, ModeFacts DEF Alike

\* A waiting process becomes ready: it was alive.
LEMMA ReadyAlike ==
  ASSUME IInv, NEW p \in UserPids, sched.pstate[p] \notin Eligible \cup {"PRFREE"},
         sched' = Ready(sched, p) \/ sched' = ReadyResched(sched, p)
  PROVE  Alike
<1>1. /\ TimerMode(sched'.pstate[p]) = "awake"
      /\ \A q \in Pids \ {p} :
           TimerMode(sched'.pstate[q]) = TimerMode(sched.pstate[q])
  BY ReadyModes
<1>2. QED BY <1>1, ModeFacts DEF Alike

\* Whom wakeup takes off the delta list.
LEMMA FirstSleeper ==
  ASSUME IInv, clockq # EmptyQueue
  PROVE  /\ FirstPid(clockq) \in UserPids
         /\ sched.pstate[FirstPid(clockq)] \in {"PRSLEEP", "PRTRECV"}
<1>1. /\ clockq \in Seq(Records(Pids)) /\ Distinct(clockq)
      /\ \A q \in Pids : q \in Members(clockq) <=> sched.pstate[q] \in Asleep
  BY TimerFacts
<1>2. PICK p : p = FirstPid(clockq)
  OBVIOUS
<1>3. p \in Members(clockq)
  BY <1>1, <1>2, ButFirstProps
<1>4. p \in Pids /\ sched.pstate[p] \in Asleep
  BY <1>1, <1>3, ListFacts
<1>5. p # NULLPROC
  BY <1>4 DEF IInv, ProcInv, Running, SchedInv, Eligible, Asleep
<1>6. QED BY <1>2, <1>4, <1>5, PidFacts DEF Asleep

LEMMA ClockPlain ==
  ASSUME IInv, ExactInv, ClockNext, UNCHANGED <<completed, pnxtkin>>
  PROVE  Plain
<1>1. Alike
  <2>1. ASSUME NEW n \in SleepTicks, Sleep(n) PROVE Alike
    <3>1. "PRSLEEP" \in PrStates \ Eligible
      BY DEF PrStates, Eligible
    <3>2. QED BY <2>1, <3>1, BlockAlike DEF Sleep
  <2>2. ASSUME WakeupTurn PROVE Alike
    <3>1. PICK p : p = FirstPid(clockq)
      OBVIOUS
    <3>2. clockq # EmptyQueue /\ sched' = Ready(sched, p)
      BY <2>2, <3>1 DEF WakeupTurn, HeadIsDue
    <3>3. p \in UserPids /\ sched.pstate[p] \notin Eligible \cup {"PRFREE"}
      BY <3>1, <3>2, FirstSleeper DEF Eligible
    <3>4. QED BY <3>2, <3>3, ReadyAlike
  <2>3. ASSUME Tick \/ WakeupEnd \/ ClkintEnd \/ Stopclk \/ Strtclk \/ StrtclkEnd
        PROVE  Alike
    <3>1. \/ sched' = sched \/ sched' = TickPreempt(sched) \/ sched' = Resched(sched)
      BY <2>3 DEF Tick, WakeupEnd, ClkintEnd, Stopclk, Strtclk, StrtclkEnd, procVars
    <3>2. QED BY <3>1, CalmStill, CalmResched, CalmAlike
  <2>4. QED BY <2>1, <2>2, <2>3 DEF ClockNext
<1>2. NoMoreKills /\ numproc' = numproc
  BY ClockOrdinary DEF Ordinary
<1>3. cont[current].op # "kill" /\ UNCHANGED <<pbase, stkfree>>
  BY OpNames DEF ClockNext, Sleep, Tick, WakeupTurn, WakeupEnd, ClkintEnd, Stopclk,
     Strtclk, StrtclkEnd, Calls, InUser, Waking, In, procVars
<1>4. Quiet'
  BY DEF ExactInv, Quiet
<1>5. QED BY <1>1, <1>2, <1>3, <1>4 DEF Plain

\* send wakes nobody but a receiver.
LEMMA DeliverAlike ==
  ASSUME IInv, NEW p \in UserPids, NEW m, Deliver(p, m)
  PROVE  Alike
<1>1. CASE sched.pstate[p] \in {"PRRECV", "PRTRECV"}
  <2>1. sched' = ReadyResched(sched, p) /\ sched.pstate[p] \notin Eligible \cup {"PRFREE"}
    BY <1>1 DEF Deliver, Eligible
  <2>2. QED BY <2>1, ReadyAlike
<1>2. CASE sched.pstate[p] \notin {"PRRECV", "PRTRECV"}
  BY <1>2, CalmStill, CalmAlike DEF Deliver
<1>3. QED BY <1>1, <1>2

LEMMA MsgPlain ==
  ASSUME Noks \cap UserPids = {}, IInv, ExactInv, MsgNext, UNCHANGED completed
  PROVE  Plain
<1>1. Alike
  <2>1. ASSUME NEW p \in UserPids, NEW m \in Msgs, Send(p, m) PROVE Alike
    BY <2>1, DeliverAlike DEF Send
  <2>2. ASSUME Receive PROVE Alike
    <3>1. Calls /\ (sched' = sched \/ sched' = Block(sched, "PRRECV"))
      BY <2>2 DEF Receive
    <3>2. "PRRECV" \in PrStates \ Eligible
      BY DEF PrStates, Eligible
    <3>3. QED BY <3>1, <3>2, CalmStill, CalmAlike, BlockAlike
  <2>3. ASSUME NEW w \in RecvTicks, Recvtim(w) PROVE Alike
    <3>1. Calls /\ (sched' = sched \/ sched' = Block(sched, "PRTRECV"))
      BY <2>3 DEF Recvtim
    <3>2. "PRTRECV" \in PrStates \ Eligible
      BY DEF PrStates, Eligible
    <3>3. QED BY <3>1, <3>2, CalmStill, CalmAlike, BlockAlike
  <2>4. ASSUME NEW p \in UserPids, NEW nok \in Noks, Setnok(nok, p) PROVE Alike
    BY <2>4, CalmStill, CalmAlike DEF Setnok, procVars
  <2>5. ASSUME ReceiveEnd \/ RecvtimEnd \/ Recvclr PROVE Alike
    BY <2>5, CalmStill, CalmAlike DEF ReceiveEnd, RecvtimEnd, Recvclr, procVars
  <2>6. QED BY <2>1, <2>2, <2>3, <2>4, <2>5 DEF MsgNext
<1>2. NoMoreKills /\ numproc' = numproc
  BY MsgOrdinary DEF Ordinary
<1>3. cont[current].op # "kill" /\ UNCHANGED <<pbase, stkfree>>
  BY OpNames DEF MsgNext, Send, Receive, ReceiveEnd, Recvclr, Recvtim, RecvtimEnd,
     Setnok, Calls, InUser, In, procVars
<1>4. Quiet'
  <2>1. \/ pnxtkin' = pnxtkin
        \/ \E p \in UserPids, nok \in Noks : pnxtkin' = [pnxtkin EXCEPT ![p] = nok]
    BY DEF MsgNext, Send, Receive, ReceiveEnd, Recvclr, Recvtim, RecvtimEnd, Setnok
  <2>2. pnxtkin \in [Pids -> Int]
    BY DEF IInv, MsgInv, MsgTypeOK
  <2>3. QED BY <2>1, <2>2 DEF ExactInv, Quiet
<1>5. QED BY <1>1, <1>2, <1>3, <1>4 DEF Plain

\* create: one process more, with a stack of its own.
LEMMA BirthExact ==
  ASSUME IInv, ExactInv, NEW prio \in Prios, NewSlot(prio)
  PROVE  ExactInv'
<1>1. PICK p \in UserPids :
        /\ p = NewPid /\ sched.pstate[p] = "PRFREE" /\ sched'.pstate[p] = "PRSUSP"
        /\ \A q \in Pids \ {p} :
             TimerMode(sched'.pstate[q]) = TimerMode(sched.pstate[q])
  BY BirthModes
<1>2. PICK b : b = TopStack
  OBVIOUS
<1>3. /\ numproc' = numproc + 1 /\ pbase' = [pbase EXCEPT ![p] = b]
      /\ stkfree' = stkfree \ {b} /\ cont' = [cont EXCEPT ![p] = User]
      /\ pnxtkin' = [pnxtkin EXCEPT ![p] = BADPID] /\ Calls /\ stkfree # {}
  BY <1>1, <1>2 DEF NewSlot, Create
<1>4. /\ pbase \in [Pids -> Nat] /\ stkfree \subseteq Stacks /\ numproc \in Int
      /\ cont \in [Pids -> Conts] /\ pnxtkin \in [Pids -> Int]
  BY DEF IInv, ProcInv, ProcTypeOK, MsgInv, MsgTypeOK
<1>5. b \in stkfree
  BY <1>2, <1>3, <1>4, TopStackProps
<1>6. Live' = Live \cup {p} /\ p \notin Live
  <2>1. \A q \in UserPids \ {p} :
          sched'.pstate[q] = "PRFREE" <=> sched.pstate[q] = "PRFREE"
    BY <1>1, PidFacts, ModeFacts
  <2>2. QED BY <1>1, <2>1 DEF Live
<1>7. cont[current].op # "kill"
  BY <1>3, OpNames DEF Calls, InUser
<1>8. Killers = {} /\ Killers' = {}
  BY <1>3, <1>4, <1>7, OpNames DEF ExactInv, OneKill, Killers
<1>9. Quiet'
  BY <1>3, <1>4, PidFacts DEF ExactInv, Quiet, BADPID, UserPids
<1>10. OneKill'
  BY <1>8 DEF Killers, OneKill
<1>11. OwnStacks'
  BY <1>3, <1>4, <1>5, <1>6, PidFacts DEF ExactInv, OwnStacks, Live
<1>12. Counted'
  <2>1. Cardinality(Live \cup {p}) = Cardinality(Live) + 1
    BY <1>6, Sizes, Finite, FS_AddElement
  <2>2. QED BY <1>3, <1>4, <1>6, <1>8, <2>1, Sizes DEF ExactInv, Counted
<1>13. QED BY <1>9, <1>10, <1>11, <1>12 DEF ExactInv

\* kill: the death is counted, and nobody else runs before it happens.
LEMMA KillExact ==
  ASSUME IInv, ExactInv, NEW p \in UserPids, Kill(p)
  PROVE  ExactInv'
<1>1. /\ Calls /\ sched.pstate[p] # "PRFREE" /\ numproc' = numproc - 1
      /\ Goto(K1("kill", p)) /\ UNCHANGED <<pbase, stkfree, pnxtkin>>
  BY DEF Kill, CountDeath
<1>2. sched' = sched
  BY PidFacts DEF ExactInv, Quiet, Kill, NotifyKin, CanSend
<1>3. Live' = Live /\ current' = current
  BY <1>2 DEF Live, current
<1>4. current \in Pids /\ cont \in [Pids -> Conts] /\ numproc \in Int
  BY ProcFacts, Types DEF IInv
<1>5. \A q \in Pids : cont'[q] = IF q = current THEN K1("kill", p) ELSE cont[q]
  BY <1>1, <1>4 DEF Goto
<1>6. K1("kill", p).op = "kill" /\ K1("kill", p).arg = p
  BY DEF K1
<1>7. cont[current].op # "kill"
  BY <1>1, OpNames DEF Calls, InUser
<1>8. Killers = {} /\ Killers' = {current}
  BY <1>4, <1>5, <1>6, <1>7 DEF ExactInv, OneKill, Killers
<1>9. Counted'
  <2>1. Cardinality(Killers) = 0 /\ Cardinality(Killers') = 1
    BY <1>8, FS_EmptySet, FS_Singleton
  <2>2. QED BY <1>1, <1>3, <1>4, <2>1, Sizes DEF ExactInv, Counted
<1>10. OneKill'
  BY <1>1, <1>2, <1>3, <1>5, <1>6, <1>8 DEF OneKill, Killers
<1>11. Quiet' /\ OwnStacks'
  BY <1>1, <1>3 DEF ExactInv, Quiet, OwnStacks
<1>12. QED BY <1>9, <1>10, <1>11 DEF ExactInv

\* The end of kill: the victim is gone, and its stack is free.
LEMMA KillEndExact ==
  ASSUME IInv, ExactInv, KillEnd
  PROVE  ExactInv'
<1>1. PICK p \in UserPids :
        /\ p = cont[current].arg /\ sched'.pstate[p] = "PRFREE"
        /\ \A q \in Pids \ {p} :
             TimerMode(sched'.pstate[q]) = TimerMode(sched.pstate[q])
  BY DeathModes
<1>2. /\ cont[current].op = "kill" /\ Bury(p)
      /\ stkfree' = stkfree \cup ({pbase[p]} \cap Stacks)
      /\ UNCHANGED <<numproc, pbase, pnxtkin>>
  BY <1>1 DEF KillEnd, In, msgVars
<1>3. current \in Pids /\ cont \in [Pids -> Conts] /\ numproc \in Int
  BY ProcFacts, Types DEF IInv
<1>4. p \in Live
  BY <1>1, <1>2, <1>3 DEF ExactInv, OneKill, Live
<1>5. Live' = Live \ {p}
  BY <1>1, PidFacts, ModeFacts, ZenonT(30) DEF Live
<1>6. Killers = {current} /\ Killers' = {}
  BY <1>2, <1>3, OpNames DEF ExactInv, OneKill, Killers, Bury
<1>7. Counted'
  <2>1. Cardinality(Killers) = 1 /\ Cardinality(Killers') = 0
    BY <1>6, FS_EmptySet, FS_Singleton
  <2>2. Cardinality(Live \ {p}) = Cardinality(Live) - 1
    BY <1>4, Sizes, Finite, FS_RemoveElement
  <2>3. QED BY <1>2, <1>3, <1>5, <2>1, <2>2, Sizes DEF ExactInv, Counted
<1>8. OneKill'
  BY <1>6 DEF Killers, OneKill
<1>9. OwnStacks'
  BY <1>2, <1>4, <1>5 DEF ExactInv, OwnStacks
<1>10. Quiet'
  BY <1>2 DEF ExactInv, Quiet
<1>11. QED BY <1>7, <1>8, <1>9, <1>10 DEF ExactInv

LEMMA InitExact == Init => ExactInv
<1> SUFFICES ASSUME Init PROVE ExactInv
  OBVIOUS
<1>1. /\ numproc = 1 /\ cont = [p \in Pids |-> User]
      /\ pbase = [p \in Pids |-> IF p = MainPid THEN STACKS ELSE 0]
      /\ stkfree = Stacks \ {STACKS} /\ pnxtkin = [p \in Pids |-> BADPID]
      /\ sched.pstate = [p \in Pids |-> IF p = NULLPROC THEN "PRREADY"
                                        ELSE IF p = MainPid THEN "PRCURR"
                                        ELSE "PRFREE"]
  BY DEF Init, ProcInit, MsgInit
<1>2. MainPid \in UserPids /\ MainPid \in Pids /\ NULLPROC \notin UserPids
  BY PidFacts DEF MainPid, Pids, UserPids, NULLPROC
<1>3. Live = {MainPid}
  BY <1>1, <1>2, PidFacts DEF Live
<1>4. Killers = {}
  BY <1>1, OpNames DEF Killers
<1>5. Counted
  <2>1. Cardinality(Live) = 1 /\ Cardinality(Killers) = 0
    BY <1>3, <1>4, FS_EmptySet, FS_Singleton
  <2>2. QED BY <1>1, <2>1 DEF Counted
<1>6. OneKill
  BY <1>4 DEF Killers, OneKill
<1>7. OwnStacks
  <2>1. pbase[MainPid] = STACKS /\ STACKS \in Stacks
    BY <1>1, <1>2, ProcAssumption DEF Stacks
  <2>2. QED BY <1>1, <1>3, <2>1 DEF OwnStacks
<1>8. Quiet
  BY <1>1 DEF Quiet, BADPID, UserPids
<1>9. QED BY <1>5, <1>6, <1>7, <1>8 DEF ExactInv

LEMMA ExactAlways ==
  ASSUME Noks \cap UserPids = {}
  PROVE  Spec => []ExactInv
<1>1. IInv /\ ExactInv /\ [Next]_vars => ExactInv'
  <2> SUFFICES ASSUME IInv, ExactInv, [Next]_vars PROVE ExactInv'
    OBVIOUS
  <2>1. CASE ProcNext /\ UNCHANGED <<semVars, clkVars, msgVars, completed>>
    BY <2>1, ProcPlain, PlainExact DEF msgVars
  <2>2. CASE SemNext /\ UNCHANGED <<clkVars, msgVars, completed>>
    BY <2>2, SemPlain, PlainExact DEF msgVars
  <2>3. CASE ClockNext /\ UNCHANGED <<semVars, msgVars, completed>>
    BY <2>3, ClockPlain, PlainExact DEF msgVars
  <2>4. CASE MsgNext /\ UNCHANGED <<semVars, completed>>
    BY <2>4, MsgPlain, PlainExact
  <2>5. ASSUME NEW prio \in Prios, NewSlot(prio) PROVE ExactInv'
    BY <2>5, BirthExact
  <2>6. ASSUME NEW p \in UserPids, Kill(p) PROVE ExactInv'
    BY <2>6, KillExact
  <2>7. CASE KillEnd
    BY <2>7, KillEndExact
  <2>8. CASE UNCHANGED vars
    <3>1. UNCHANGED <<sched, numproc, pbase, stkfree, cont, pnxtkin>>
      BY <2>8 DEF vars, procVars, msgVars
    <3>2. Live' = Live /\ Killers' = Killers /\ current' = current
      BY <3>1 DEF Live, Killers, current
    <3>3. QED BY <3>1, <3>2 DEF ExactInv, Quiet, OneKill, OwnStacks, Counted
  <2>9. QED BY Zenon, <2>1, <2>2, <2>3, <2>4, <2>5, <2>6, <2>7, <2>8 DEF Next
<1>2. QED BY <1>1, InitExact, Inductive, PTL DEF Spec

(***************************************************************************)
(* create.c and kill.c: while no kill is under way, numproc is the number  *)
(* of live processes, for any number of processes and stacks.  The         *)
(* hypothesis says that no next of kin is named: with one, the notice may  *)
(* run a second process that kills the same victim, whose death is then    *)
(* counted twice, and only LastDeathReported is left.                      *)
(***************************************************************************)
THEOREM CountExact ==
  ASSUME Noks \cap UserPids = {}
  PROVE  Spec => []NumprocExact
<1>1. IInv /\ ExactInv => NumprocExact
  <2>1. ASSUME IInv, ExactInv, ~Killing PROVE numproc = Cardinality(Live)
    <3>1. Killers = {}
      BY <2>1 DEF Killing, Killers
    <3>2. Cardinality(Killers) = 0 /\ numproc \in Int
      BY <2>1, <3>1, FS_EmptySet, Types
    <3>3. QED BY <2>1, <3>2, Sizes DEF ExactInv, Counted
  <2>2. QED BY <2>1 DEF NumprocExact
<1>2. QED BY <1>1, ExactAlways, Inductive, PTL

(***************************************************************************)
(* create.c, kill.c and getstk: whatever was created and killed before, no *)
(* two live processes share a stack, and none of theirs is free.           *)
(***************************************************************************)
THEOREM StacksApart ==
  ASSUME Noks \cap UserPids = {}
  PROVE  Spec => []StacksOwned
<1>1. ExactInv => StacksOwned
  BY DEF ExactInv, OwnStacks, StacksOwned
<1>2. QED BY <1>1, ExactAlways, PTL
=============================================================================
