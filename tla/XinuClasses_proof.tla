------------------------- MODULE XinuClasses_proof -------------------------
(***************************************************************************)
(* The scheduling classes, for any number of processes and any priorities: *)
(* the ready list stays exact through every new epoch, allowances stay     *)
(* bounded, and under the linux-like class an epoch begins only when       *)
(* everybody has used up his ticks.                                        *)
(*                                                                         *)
(* The list alone is not inductive.  A new epoch, and the walk for one     *)
(* that has ticks left, need a list that is not empty, which it is because *)
(* the null process never waits; and the walk stops at the null process,   *)
(* whose key is 0, unless it never has ticks.                              *)
(***************************************************************************)
EXTENDS XinuClasses, XinuQueue_proof

States == {"CURR", "READY", "SUSP"}

\* Only the null process has the key 0.
Items == {e \in [pid : Procs, key : Nat] : e.pid # 0 => e.key > 0}

Exact(list, R) == list \in Seq(Items) /\ Distinct(list) /\ Members(list) = R

ClassStates == [curr : Procs, preempt : Int, pstate : [Procs -> States],
                counter : [Procs -> Nat], rdy : Seq(Items)]

Readies(t) == {p \in Procs : t.pstate[p] = "READY"}

\* What a process may have: half of what it had, and its priority.
Most(p) == 2 * Prio[p] + QUANTUM

(***************************************************************************)
(* The strengthening.  In the middle of a call the current process may     *)
(* already have its next state.                                            *)
(***************************************************************************)
Sound(t) ==
  /\ t \in ClassStates
  /\ Exact(t.rdy, Readies(t))
  /\ \A p \in Procs : t.pstate[p] = "CURR" => p = t.curr
  /\ t.pstate[0] # "SUSP"
  /\ \A p \in Procs : t.counter[p] <= Most(p)
  /\ t.preempt <= Most(t.curr)
  /\ t.counter[0] = 0

Running(t) == Sound(t) /\ t.pstate[t.curr] = "CURR"

Vacant(t) == Sound(t) /\ \A p \in Procs : t.pstate[p] # "CURR"

LEMMA ProcFacts ==
  /\ NPROC \in Nat /\ NPROC > 0 /\ QUANTUM \in Nat
  /\ Procs \subseteq Nat /\ 0 \in Procs /\ 1 \in Procs
  /\ \A p \in Procs : Prio[p] \in Nat /\ Most(p) \in Nat
  /\ Prio[0] = 0
  /\ \A p \in Procs : p # 0 => Prio[p] > 0
<1>1. /\ NPROC \in Nat /\ NPROC > 0 /\ QUANTUM \in Nat
      /\ Prio \in [Procs -> Nat] /\ Prio[0] = 0
      /\ \A p \in 1 .. NPROC : Prio[p] > 0
  BY ClassAssumption
<1>2. Procs = 0 .. NPROC
  BY DEF Procs
<1>3. \A p \in Procs : Prio[p] \in Nat
  BY <1>1
<1>4. \A p \in Procs : Most(p) \in Nat
  BY <1>1, <1>3 DEF Most
<1>5. QED BY <1>1, <1>2, <1>3, <1>4

LEMMA StateFields ==
  ASSUME NEW t \in ClassStates
  PROVE  /\ t.curr \in Procs /\ t.preempt \in Int
         /\ t.pstate \in [Procs -> States] /\ t.counter \in [Procs -> Nat]
         /\ t.rdy \in Seq(Items)
  BY DEF ClassStates

----------------------------------------------------------------------------
(* The ready list.                                                         *)

LEMMA ItemLists ==
  ASSUME NEW l \in Seq(Items)
  PROVE  l \in Lists /\ l \in Seq(Records(Procs))
<1>1. \A i \in 1 .. Len(l) : l[i] \in Items
  BY ElementOfSeq
<1>2. \A i \in 1 .. Len(l) : /\ l[i] \in [pid : Procs, key : Nat]
                             /\ l[i] \in Records(Procs)
  BY <1>1 DEF Items, Records
<1>3. Len(l) \in Nat /\ l = [i \in 1 .. Len(l) |-> l[i]]
  BY LenProperties
<1>4. l \in Lists
  <2> DEFINE E == [pid : Procs, key : Nat]
  <2>1. \A i \in 1 .. Len(l) : l[i] \in E
    BY <1>2
  <2> HIDE DEF E
  <2>2. l \in Seq(E)
    BY <2>1, <1>3, SeqDef
  <2>3. QED BY <2>2 DEF Lists, E
<1>5. l \in Seq(Records(Procs))
  BY <1>2, <1>3, SeqDef
<1>6. QED BY <1>4, <1>5

LEMMA ItemType ==
  ASSUME NEW p \in Procs, NEW k \in Nat, p # 0 => k > 0
  PROVE  Entry(p, k) \in Items
  BY DEF Entry, Items

LEMMA InsertLists ==
  ASSUME NEW l \in Lists, NEW p \in Procs, NEW k \in Nat
  PROVE  Insert(l, p, k) \in Lists
<1> DEFINE E == [pid : Procs, key : Nat]
<1>1. Entry(p, k) \in E
  BY DEF Entry
<1>2. l \in Seq(E) /\ \A i \in 1 .. Len(l) : l[i] \in E
  BY ElementOfSeq DEF Lists
<1>3. l \in Seq(Records(Procs))
  <2>1. \A i \in 1 .. Len(l) : l[i] \in Records(Procs)
    BY <1>2 DEF Records
  <2>2. Len(l) \in Nat /\ l = [i \in 1 .. Len(l) |-> l[i]]
    BY <1>2, LenProperties
  <2>3. QED BY <2>1, <2>2, SeqDef
<1>4. InsertPos(l, k) \in 1 .. Len(l) + 1
  BY <1>3, InsertPosProps
<1> HIDE DEF E
<1>5. Ext!InsertAt(l, InsertPos(l, k), Entry(p, k)) \in Seq(E)
  BY <1>1, <1>2, <1>4, InsertAtProps
<1>6. QED BY <1>5 DEF Insert, Lists, E

LEMMA InsertExact ==
  ASSUME NEW R, NEW l, Exact(l, R), NEW p \in Procs \ R, NEW k \in Nat,
         p # 0 => k > 0
  PROVE  Exact(Insert(l, p, k), R \cup {p})
<1>1. l \in Seq(Items) /\ l \in Seq(Records(Procs))
  BY ItemLists DEF Exact
<1>2. InsertPos(l, k) \in 1 .. Len(l) + 1
  BY <1>1, InsertPosProps
<1>3. Insert(l, p, k) \in Seq(Items)
  BY <1>1, <1>2, ItemType, InsertAtProps DEF Insert
<1>4. Distinct(Insert(l, p, k)) /\ Members(Insert(l, p, k)) = Members(l) \cup {p}
  BY <1>1, InsertProps DEF Exact
<1>5. QED BY <1>3, <1>4 DEF Exact

LEMMA AppendExact ==
  ASSUME NEW R, NEW l, Exact(l, R), NEW p \in Procs \ R, NEW k \in Nat,
         p # 0 => k > 0
  PROVE  Exact(Append(l, Entry(p, k)), R \cup {p})
<1> DEFINE r == Append(l, Entry(p, k))
<1>1. l \in Seq(Items) /\ l \in Seq(Records(Procs))
  BY ItemLists DEF Exact
<1>2. Entry(p, k) \in Items /\ Entry(p, k).pid = p
  BY ItemType DEF Entry
<1>3. /\ r \in Seq(Items) /\ Len(r) = Len(l) + 1
      /\ \A i \in 1 .. Len(r) : r[i] = IF i = Len(l) + 1 THEN Entry(p, k) ELSE l[i]
  BY <1>1, <1>2, AppendProperties
<1>4. Len(l) \in Nat /\ DOMAIN l = 1 .. Len(l) /\ DOMAIN r = 1 .. Len(r)
  BY <1>1, <1>3, LenProperties
<1> HIDE DEF r
<1>5. Members(r) = Members(l) \cup {p}
  <2>1. ASSUME NEW q \in Members(r) PROVE q \in Members(l) \cup {p}
    BY <1>2, <1>3, <1>4 DEF Members
  <2>2. p \in Members(r)
    BY <1>2, <1>3, <1>4 DEF Members
  <2>3. ASSUME NEW q \in Members(l) PROVE q \in Members(r)
    BY <1>3, <1>4 DEF Members
  <2>4. QED BY <2>1, <2>2, <2>3
<1>6. Distinct(r)
  <2>1. p \notin Members(l) /\ Distinct(l)
    BY DEF Exact
  <2>2. \A i \in 1 .. Len(l) : l[i].pid # p
    BY <1>4, <2>1 DEF Members
  <2>3. QED BY <1>2, <1>3, <1>4, <2>1, <2>2 DEF Distinct
<1>7. QED BY <1>3, <1>5, <1>6 DEF Exact, r

LEMMA DequeueExact ==
  ASSUME NEW R, NEW l, Exact(l, R), NEW p \in R
  PROVE  Exact(Dequeue(l, p), R \ {p})
<1>1. l \in Seq(Items) /\ l \in Seq(Records(Procs)) /\ p \in Members(l)
  BY ItemLists DEF Exact
<1>2. PosOf(l, p) \in 1 .. Len(l)
  BY <1>1, PosOfMember
<1>3. Dequeue(l, p) \in Seq(Items)
  BY <1>1, <1>2, RemoveAtProps DEF Dequeue
<1>4. Distinct(Dequeue(l, p)) /\ Members(Dequeue(l, p)) = Members(l) \ {p}
  BY <1>1, DequeueProps DEF Exact
<1>5. QED BY <1>3, <1>4 DEF Exact

----------------------------------------------------------------------------
(* The walk through the process table at the start of an epoch.            *)

Step(t, c, p, l) == IF t.pstate[p] = "READY" THEN Insert(l, p, Prio[p] + c[p]) ELSE l

Walk(t, c, f) ==
  f = [p \in 0 .. NPROC + 1 |->
         [l \in Lists |->
            IF p > NPROC THEN l
            ELSE f[p + 1][IF t.pstate[p] = "READY"
                          THEN Insert(l, p, Prio[p] + c[p]) ELSE l]]]

\* What the walk does from process p on, if f is the rest of it.
Onward(t, c, p, f) ==
  [l \in Lists |-> IF p > NPROC THEN l ELSE f[Step(t, c, p, l)]]

LEMMA StepLists ==
  ASSUME NEW t, NEW c \in [Procs -> Nat], NEW p \in Procs, NEW l \in Lists
  PROVE  Step(t, c, p, l) \in Lists
  BY ProcFacts, InsertLists, Prio[p] + c[p] \in Nat DEF Step

LEMMA WalkExists ==
  ASSUME NEW t, NEW c
  PROVE  \E f : Walk(t, c, f)
<1> DEFINE N == NPROC + 1
           Good(f, m) == f = [p \in N - m .. N |-> Onward(t, c, p, f[p + 1])]
           T == {m \in 0 .. N : ~ \E f : Good(f, m)}
<1>0. N \in Nat /\ N > 0 /\ NPROC = N - 1
  BY ProcFacts
<1>1. T = {}
  <2>1. SUFFICES ASSUME T # {} PROVE FALSE
    OBVIOUS
  <2>2. PICK m \in T : \A j \in T : m <= j
    <3>1. T \subseteq Nat
      BY <1>0
    <3> HIDE DEF T
    <3>2. QED BY <2>1, <3>1, LeastNat
  <2>3. m \in 0 .. N /\ ~ \E f : Good(f, m)
    OBVIOUS
  <2>4. m # 0
    <3> DEFINE f == [p \in N .. N |-> Onward(t, c, p, 0)]
    <3>1. ASSUME NEW x, NEW y PROVE Onward(t, c, N, x) = Onward(t, c, N, y)
      BY <1>0 DEF Onward
    <3>2. N .. N = {N}
      BY <1>0
    <3>3. f = [p \in N .. N |-> Onward(t, c, p, f[p + 1])]
      BY <3>1, <3>2
    <3>4. Good(f, 0)
      BY <1>0, <3>3, N - 0 = N
    <3>5. QED BY <2>3, <3>4
  <2>5. PICK f : Good(f, m - 1)
    <3>1. m - 1 \in 0 .. N /\ m - 1 < m /\ ~ (m <= m - 1)
      BY <1>0, <2>3, <2>4
    <3>2. m - 1 \notin T
      BY <2>2, <3>1
    <3>3. QED BY <3>1, <3>2
  <2> DEFINE q == N - m
             g == [p \in q .. N |-> IF p = q THEN Onward(t, c, q, f[q + 1]) ELSE f[p]]
  <2>6. q \in Nat /\ q < N /\ N - (m - 1) = q + 1
    BY <1>0, <2>3, <2>4
  <2>7. \A p \in q .. N : g[p] = IF p = q THEN Onward(t, c, q, f[q + 1]) ELSE f[p]
    OBVIOUS
  <2>8. \A p \in q + 1 .. N : f[p] = Onward(t, c, p, f[p + 1])
    BY <2>5, <2>6
  <2> DEFINE h == [p \in q .. N |-> Onward(t, c, p, g[p + 1])]
  <2>9. ASSUME NEW p \in q .. N PROVE g[p] = h[p]
    <3> HIDE DEF g, q
    <3>1. h[p] = Onward(t, c, p, g[p + 1])
      OBVIOUS
    <3>2. CASE p = q
      <4>1. p + 1 \in q .. N /\ p + 1 # q
        BY <1>0, <2>6, <3>2
      <4>2. QED BY <2>7, <3>1, <3>2, <4>1
    <3>3. CASE p # q /\ p < N
      <4>1. p + 1 \in q .. N /\ p + 1 # q /\ p \in q + 1 .. N
        BY <1>0, <2>6, <3>3
      <4>2. QED BY <2>7, <2>8, <3>1, <3>3, <4>1
    <3>4. CASE p = N
      <4>1. ASSUME NEW x, NEW y PROVE Onward(t, c, N, x) = Onward(t, c, N, y)
        BY <1>0 DEF Onward
      <4>2. p # q /\ p \in q + 1 .. N
        BY <1>0, <2>6, <3>4
      <4>3. g[p] = Onward(t, c, p, f[p + 1])
        BY <2>7, <2>8, <4>2
      <4>4. QED BY <3>1, <3>4, <4>1, <4>3
    <3>5. QED BY <1>0, <2>6, <3>2, <3>3, <3>4
  <2>10. g = h
    BY <2>9
  <2>11. Good(g, m)
    BY <2>10
  <2>12. QED BY <2>3, <2>11
<1>2. PICK f : Good(f, N)
  BY <1>0, <1>1, N \in 0 .. N
<1>3. f = [p \in 0 .. NPROC + 1 |-> Onward(t, c, p, f[p + 1])]
  BY <1>0, <1>2, N - N = 0
<1>4. QED BY <1>3 DEF Walk, Onward, Step

LEMMA WalkProps ==
  ASSUME NEW t, NEW c, NEW f, Walk(t, c, f), NEW p \in 0 .. NPROC + 1,
         NEW l \in Lists
  PROVE  f[p][l] = IF p > NPROC THEN l ELSE f[p + 1][Step(t, c, p, l)]
<1>1. f = [q \in 0 .. NPROC + 1 |-> Onward(t, c, q, f[q + 1])]
  BY DEF Walk, Onward, Step
<1>2. f[p] = Onward(t, c, p, f[p + 1])
  BY <1>1
<1>3. QED BY <1>2 DEF Onward

(***************************************************************************)
(* Whoever is ready, and nobody else, is in the list of a new epoch, once. *)
(***************************************************************************)
LEMMA RelistedExact ==
  ASSUME NEW t, t.counter \in [Procs -> Nat]
  PROVE  Exact(Relisted(t, EmptyQueue), Readies(t))
<1> DEFINE N == NPROC + 1
           c == Allowance(t)
           w == CHOOSE f : Walk(t, c, f)
           Seen(p) == {q \in Readies(t) : q < p}
           Goes(p) == \A l : Exact(l, Seen(p)) => Exact(w[p][l], Readies(t))
           T == {m \in 0 .. N : ~ Goes(N - m)}
<1>0. N \in Nat /\ NPROC = N - 1 /\ Procs = 0 .. N - 1
  BY ProcFacts DEF Procs
<1>1. c \in [Procs -> Nat]
  BY ProcFacts DEF Allowance, Kept
<1>2. Relisted(t, EmptyQueue) = w[0][EmptyQueue]
  BY DEF Relisted, Walk
<1>3. Walk(t, c, w)
  <2> HIDE DEF c
  <2> QED BY WalkExists
<1> HIDE DEF c, w
<1>4. Goes(N)
  <2>1. ASSUME NEW l, Exact(l, Seen(N)) PROVE Exact(w[N][l], Readies(t))
    <3>1. l \in Lists
      BY <2>1, ItemLists DEF Exact
    <3>2. w[N][l] = l
      BY <1>0, <1>3, <3>1, WalkProps
    <3>3. Seen(N) = Readies(t)
      BY <1>0 DEF Readies
    <3>4. QED BY <2>1, <3>2, <3>3
  <2>2. QED BY <2>1
<1>5. ASSUME NEW p \in Procs, Goes(p + 1) PROVE Goes(p)
  <2>1. SUFFICES ASSUME NEW l, Exact(l, Seen(p)) PROVE Exact(w[p][l], Readies(t))
    OBVIOUS
  <2> DEFINE r == Step(t, c, p, l)
  <2>2. l \in Lists /\ p \in 0 .. N /\ p <= NPROC
    BY <1>0, <2>1, ItemLists DEF Exact
  <2>3. w[p][l] = w[p + 1][r]
    BY <1>0, <1>3, <2>2, WalkProps
  <2>4. CASE t.pstate[p] = "READY"
    <3>1. Seen(p + 1) = Seen(p) \cup {p} /\ p \notin Seen(p)
      BY <1>0, <2>4 DEF Readies
    <3>2. /\ Prio[p] + c[p] \in Nat
          /\ p # 0 => Prio[p] + c[p] > 0
      BY <1>1, ProcFacts
    <3> HIDE DEF Seen
    <3>3. Exact(Insert(l, p, Prio[p] + c[p]), Seen(p) \cup {p})
      BY <2>1, <3>1, <3>2, InsertExact
    <3>4. Exact(r, Seen(p + 1))
      BY <2>4, <3>1, <3>3 DEF Step
    <3>5. QED BY <1>5, <2>3, <3>4
  <2>5. CASE t.pstate[p] # "READY"
    <3>1. Seen(p + 1) = Seen(p) /\ r = l
      BY <1>0, <2>5 DEF Readies, Step
    <3> HIDE DEF Seen
    <3>2. QED BY <1>5, <2>1, <2>3, <3>1
  <2>6. QED BY <2>4, <2>5
<1> HIDE DEF Goes
<1>6. T = {}
  <2>1. SUFFICES ASSUME T # {} PROVE FALSE
    OBVIOUS
  <2>2. PICK m \in T : \A j \in T : m <= j
    <3>1. T \subseteq Nat
      BY <1>0
    <3> HIDE DEF T
    <3>2. QED BY <2>1, <3>1, LeastNat
  <2>3. m \in 0 .. N /\ ~ Goes(N - m)
    OBVIOUS
  <2>4. m # 0
    BY <1>0, <1>4, <2>3, N - 0 = N
  <2>5. m - 1 \in 0 .. N /\ ~ (m <= m - 1)
    BY <1>0, <2>3, <2>4
  <2>6. Goes(N - (m - 1))
    BY <2>2, <2>5
  <2>7. N - (m - 1) = (N - m) + 1 /\ N - m \in Procs
    BY <1>0, <2>3, <2>4
  <2>8. QED BY <1>5, <2>3, <2>6, <2>7
<1>7. Goes(0)
  BY <1>0, <1>6, N \in 0 .. N, N - N = 0
<1>8. Exact(EmptyQueue, {})
  <2>1. EmptyQueue \in Seq(Items)
    BY DEF EmptyQueue
  <2>2. QED BY <2>1, EmptyQueueProps DEF Exact
<1>9. Seen(0) = {}
  <2>1. \A q \in Readies(t) : ~ (q < 0)
    BY <1>0 DEF Readies
  <2>2. QED BY <2>1
<1>10. QED BY <1>2, <1>7, <1>8, <1>9 DEF Goes

----------------------------------------------------------------------------
(* The parts of resched, one field at a time.                              *)

LEMMA EnlistFields ==
  ASSUME NEW t \in ClassStates, NEW p \in Procs, NEW k,
         Insert(t.rdy, p, k) \in Seq(Items)
  PROVE  LET u == Enlist(t, p, k)
         IN  /\ u \in ClassStates
             /\ u.pstate = [t.pstate EXCEPT ![p] = "READY"]
             /\ u.rdy = Insert(t.rdy, p, k)
             /\ u.curr = t.curr /\ u.preempt = t.preempt /\ u.counter = t.counter
<1> DEFINE r == Insert(t.rdy, p, k)
           u == [t EXCEPT !.pstate[p] = "READY", !.rdy = r]
<1>1. Enlist(t, p, k) = u
  BY DEF Enlist
<1> HIDE DEF r
<1>2. u \in ClassStates
  BY DEF ClassStates, States, r
<1>3. u.pstate = [t.pstate EXCEPT ![p] = "READY"] /\ u.rdy = r
  BY DEF ClassStates
<1>4. u.curr = t.curr /\ u.preempt = t.preempt /\ u.counter = t.counter
  BY DEF ClassStates
<1> HIDE DEF u
<1>5. QED BY <1>1, <1>2, <1>3, <1>4 DEF r

LEMMA EnlistRRFields ==
  ASSUME NEW t \in ClassStates, NEW p \in Procs, NEW k,
         Append(t.rdy, Entry(p, k)) \in Seq(Items)
  PROVE  LET u == EnlistRR(t, p, k)
         IN  /\ u \in ClassStates
             /\ u.pstate = [t.pstate EXCEPT ![p] = "READY"]
             /\ u.rdy = Append(t.rdy, Entry(p, k))
             /\ u.curr = t.curr /\ u.preempt = t.preempt /\ u.counter = t.counter
<1> DEFINE r == Append(t.rdy, Entry(p, k))
           u == [t EXCEPT !.pstate[p] = "READY", !.rdy = r]
<1>1. EnlistRR(t, p, k) = u
  BY DEF EnlistRR
<1> HIDE DEF r
<1>2. u \in ClassStates
  BY DEF ClassStates, States, r
<1>3. u.pstate = [t.pstate EXCEPT ![p] = "READY"] /\ u.rdy = r
  BY DEF ClassStates
<1>4. u.curr = t.curr /\ u.preempt = t.preempt /\ u.counter = t.counter
  BY DEF ClassStates
<1> HIDE DEF u
<1>5. QED BY <1>1, <1>2, <1>3, <1>4 DEF r

LEMMA CounterFields ==
  ASSUME NEW t \in ClassStates, NEW p \in Procs, NEW n \in Nat
  PROVE  LET u == [t EXCEPT !.counter[p] = n]
         IN  /\ u \in ClassStates
             /\ u.counter = [t.counter EXCEPT ![p] = n]
             /\ u.pstate = t.pstate /\ u.rdy = t.rdy
             /\ u.curr = t.curr /\ u.preempt = t.preempt
<1> DEFINE u == [t EXCEPT !.counter[p] = n]
<1>1. u \in ClassStates
  BY DEF ClassStates
<1>2. u.counter = [t.counter EXCEPT ![p] = n]
  BY DEF ClassStates
<1>3. u.pstate = t.pstate /\ u.rdy = t.rdy /\ u.curr = t.curr /\ u.preempt = t.preempt
  BY DEF ClassStates
<1>4. QED BY <1>1, <1>2, <1>3

LEMMA DispatchFields ==
  ASSUME NEW t \in ClassStates, NEW p \in Procs, NEW n \in Int,
         Dequeue(t.rdy, p) \in Seq(Items)
  PROVE  LET u == Dispatch(t, p, n)
         IN  /\ u \in ClassStates
             /\ u.pstate = [t.pstate EXCEPT ![p] = "CURR"]
             /\ u.rdy = Dequeue(t.rdy, p)
             /\ u.curr = p /\ u.preempt = n /\ u.counter = t.counter
<1> DEFINE r == Dequeue(t.rdy, p)
           u == [t EXCEPT !.rdy = r, !.curr = p, !.pstate[p] = "CURR", !.preempt = n]
<1>1. Dispatch(t, p, n) = u
  BY DEF Dispatch
<1> HIDE DEF r
<1>2. u \in ClassStates
  BY DEF ClassStates, States, r
<1>3. u.pstate = [t.pstate EXCEPT ![p] = "CURR"] /\ u.rdy = r
  BY DEF ClassStates
<1>4. u.curr = p /\ u.preempt = n /\ u.counter = t.counter
  BY DEF ClassStates
<1> HIDE DEF u
<1>5. QED BY <1>1, <1>2, <1>3, <1>4 DEF r

LEMMA EpochFields ==
  ASSUME NEW t \in ClassStates
  PROVE  LET u == NewLinuxEpoch(t)
         IN  /\ u \in ClassStates
             /\ u.counter = Allowance(t) /\ u.rdy = Relisted(t, EmptyQueue)
             /\ u.pstate = t.pstate /\ u.curr = t.curr /\ u.preempt = t.preempt
<1> DEFINE r == Relisted(t, EmptyQueue)
           c == Allowance(t)
           u == [t EXCEPT !.counter = c, !.rdy = r]
<1>1. NewLinuxEpoch(t) = u
  BY DEF NewLinuxEpoch
<1>2. r \in Seq(Items)
  BY StateFields, RelistedExact DEF Exact
<1>3. c \in [Procs -> Nat]
  BY ProcFacts, StateFields DEF Allowance, Kept
<1> HIDE DEF r, c
<1>4. u \in ClassStates
  BY <1>2, <1>3 DEF ClassStates
<1>5. u.counter = c /\ u.rdy = r
  BY DEF ClassStates
<1>6. u.pstate = t.pstate /\ u.curr = t.curr /\ u.preempt = t.preempt
  BY DEF ClassStates
<1> HIDE DEF u
<1>7. QED BY <1>1, <1>4, <1>5, <1>6 DEF r, c

LEMMA PreemptFields ==
  ASSUME NEW t \in ClassStates, NEW n \in Int
  PROVE  LET u == [t EXCEPT !.preempt = n]
         IN  /\ u \in ClassStates /\ u.preempt = n
             /\ u.pstate = t.pstate /\ u.rdy = t.rdy
             /\ u.curr = t.curr /\ u.counter = t.counter
  BY DEF ClassStates

LEMMA SuspFields ==
  ASSUME NEW t \in ClassStates, NEW p \in Procs
  PROVE  LET u == [t EXCEPT !.pstate[p] = "SUSP"]
         IN  /\ u \in ClassStates
             /\ u.pstate = [t.pstate EXCEPT ![p] = "SUSP"]
             /\ u.preempt = t.preempt /\ u.rdy = t.rdy
             /\ u.curr = t.curr /\ u.counter = t.counter
<1> DEFINE u == [t EXCEPT !.pstate[p] = "SUSP"]
<1>1. u \in ClassStates
  BY DEF ClassStates, States
<1>2. u.pstate = [t.pstate EXCEPT ![p] = "SUSP"]
  BY DEF ClassStates
<1>3. u.preempt = t.preempt /\ u.rdy = t.rdy /\ u.curr = t.curr /\ u.counter = t.counter
  BY DEF ClassStates
<1>4. QED BY <1>1, <1>2, <1>3

LEMMA TakenFields ==
  ASSUME NEW t \in ClassStates, NEW p \in Procs, Dequeue(t.rdy, p) \in Seq(Items)
  PROVE  LET u == [t EXCEPT !.rdy = Dequeue(@, p), !.pstate[p] = "SUSP"]
         IN  /\ u \in ClassStates
             /\ u.pstate = [t.pstate EXCEPT ![p] = "SUSP"]
             /\ u.rdy = Dequeue(t.rdy, p)
             /\ u.preempt = t.preempt /\ u.curr = t.curr /\ u.counter = t.counter
<1> DEFINE r == Dequeue(t.rdy, p)
           u == [t EXCEPT !.rdy = r, !.pstate[p] = "SUSP"]
<1>1. [t EXCEPT !.rdy = Dequeue(@, p), !.pstate[p] = "SUSP"] = u
  OBVIOUS
<1> HIDE DEF r
<1>2. u \in ClassStates
  BY DEF ClassStates, States, r
<1>3. u.pstate = [t.pstate EXCEPT ![p] = "SUSP"] /\ u.rdy = r
  BY DEF ClassStates
<1>4. u.preempt = t.preempt /\ u.curr = t.curr /\ u.counter = t.counter
  BY DEF ClassStates
<1> HIDE DEF u
<1>5. QED BY <1>1, <1>2, <1>3, <1>4 DEF r

----------------------------------------------------------------------------
(* What they do to a sound state.                                          *)

\* Process p, in nobody's way, is ready and in the list.
LEMMA EnlistedSound ==
  ASSUME NEW t, Sound(t), NEW p \in Procs, t.pstate[p] # "READY",
         NEW u \in ClassStates, u.pstate = [t.pstate EXCEPT ![p] = "READY"],
         Exact(u.rdy, Readies(t) \cup {p}),
         u.curr = t.curr, u.preempt = t.preempt, u.counter = t.counter
  PROVE  Sound(u)
<1>1. t \in ClassStates
  BY DEF Sound
<1>2. \A q \in Procs : u.pstate[q] = IF q = p THEN "READY" ELSE t.pstate[q]
  BY <1>1, StateFields
<1>3. Readies(u) = Readies(t) \cup {p}
  BY <1>2 DEF Readies
<1>4. QED BY <1>2, <1>3, ProcFacts DEF Sound

LEMMA ReadyProps ==
  ASSUME NEW t, Running(t), NEW p \in Procs, t.pstate[p] = "SUSP"
  PROVE  /\ Running(Ready(t, p))
         /\ Ready(t, p).pstate = [t.pstate EXCEPT ![p] = "READY"]
         /\ Ready(t, p).curr = t.curr /\ Ready(t, p).preempt = t.preempt
         /\ Ready(t, p).counter = t.counter
<1> DEFINE u == Ready(t, p)
           k == Prio[p] + t.counter[p]
<1>1. t \in ClassStates /\ Sound(t) /\ p \notin Readies(t) /\ p # 0
  BY DEF Running, Sound, Readies
<1>2. k \in Nat /\ k > 0 /\ Prio[p] \in Nat /\ Prio[p] > 0
  BY <1>1, ProcFacts, StateFields
<1>3. /\ u \in ClassStates
      /\ u.pstate = [t.pstate EXCEPT ![p] = "READY"]
      /\ Exact(u.rdy, Readies(t) \cup {p})
      /\ u.curr = t.curr /\ u.preempt = t.preempt /\ u.counter = t.counter
  <2> HIDE DEF k
  <2>1. CASE p \in RealTime
    <3>1. Exact(Append(t.rdy, Entry(p, Prio[p])), Readies(t) \cup {p})
      BY <1>1, <1>2, AppendExact DEF Sound
    <3>2. u = EnlistRR(t, p, Prio[p])
      BY <2>1 DEF Ready
    <3>3. Append(t.rdy, Entry(p, Prio[p])) \in Seq(Items)
      BY <3>1 DEF Exact
    <3>4. LET v == EnlistRR(t, p, Prio[p])
          IN  /\ v \in ClassStates
              /\ v.pstate = [t.pstate EXCEPT ![p] = "READY"]
              /\ v.rdy = Append(t.rdy, Entry(p, Prio[p]))
              /\ v.curr = t.curr /\ v.preempt = t.preempt /\ v.counter = t.counter
      BY <1>1, <3>3, EnlistRRFields
    <3> HIDE DEF u
    <3>5. QED BY <3>1, <3>2, <3>4
  <2>2. CASE p \notin RealTime
    <3>1. Exact(Insert(t.rdy, p, k), Readies(t) \cup {p})
      BY <1>1, <1>2, InsertExact DEF Sound
    <3>2. u = Enlist(t, p, k)
      BY <2>2 DEF Ready, k
    <3>3. Insert(t.rdy, p, k) \in Seq(Items)
      BY <3>1 DEF Exact
    <3>4. LET v == Enlist(t, p, k)
          IN  /\ v \in ClassStates
              /\ v.pstate = [t.pstate EXCEPT ![p] = "READY"]
              /\ v.rdy = Insert(t.rdy, p, k)
              /\ v.curr = t.curr /\ v.preempt = t.preempt /\ v.counter = t.counter
      BY <1>1, <3>3, EnlistFields
    <3> HIDE DEF u
    <3>5. QED BY <3>1, <3>2, <3>4
  <2>3. QED BY <2>1, <2>2
<1> HIDE DEF u
<1>4. Sound(u)
  BY <1>1, <1>3, EnlistedSound DEF Readies
<1>5. t.curr # p /\ t.curr \in Procs
  BY <1>1, StateFields DEF Running
<1>6. u.pstate[u.curr] = "CURR"
  BY <1>1, <1>3, <1>5, StateFields DEF Running
<1>7. QED BY <1>3, <1>4, <1>6 DEF Running, u

\* What the process that gives way keeps.
Charged(t) == IF t.preempt <= 0 THEN 0 ELSE t.preempt

LEMMA PutBackProps ==
  ASSUME NEW t, Sound(t), t.curr = 0 => t.preempt <= 0,
         t.pstate[t.curr] # "READY"
  PROVE  LET u == PutBack(t)
         IN  /\ Vacant(u) /\ u.curr = t.curr /\ u.preempt = t.preempt
             /\ t.pstate[t.curr] = "CURR" =>
                  /\ u.pstate = [t.pstate EXCEPT ![t.curr] = "READY"]
                  /\ u.counter = [t.counter EXCEPT ![t.curr] = Charged(t)]
             /\ t.pstate[t.curr] # "CURR" =>
                  u.pstate = t.pstate /\ u.counter = t.counter
<1> DEFINE u == PutBack(t)
           p == t.curr
<1>1. t \in ClassStates /\ p \in Procs /\ t.preempt \in Int
  BY StateFields DEF Sound
<1>2. CASE t.pstate[p] # "CURR"
  <2>1. u = t
    BY <1>2 DEF PutBack
  <2>2. Vacant(t)
    BY <1>2 DEF Sound, Vacant
  <2>3. QED BY <1>2, <2>1, <2>2
<1>3. CASE t.pstate[p] = "CURR"
  <2>1. p \notin Readies(t)
    BY <1>3 DEF Readies
  <2> DEFINE k == IF t.preempt <= 0 THEN Prio[p] ELSE Prio[p] + t.counter[p]
             n == Charged(t)
             v == Enlist(t, p, k)
             w == [v EXCEPT !.counter[p] = n]
  <2>2. k \in Nat /\ (p # 0 => k > 0) /\ n \in Nat /\ n <= Most(p)
    <3>1. Prio[p] \in Nat /\ t.counter[p] \in Nat /\ (p # 0 => Prio[p] > 0)
      BY <1>1, ProcFacts, StateFields
    <3>2. Most(p) \in Nat /\ t.preempt <= Most(p)
      BY <1>1, ProcFacts DEF Sound
    <3>3. QED BY <1>1, <3>1, <3>2 DEF Charged
  <2>3. u = w
    BY <1>3 DEF PutBack, Charged
  <2> HIDE DEF k
  <2>4. Exact(Insert(t.rdy, p, k), Readies(t) \cup {p})
    BY <1>1, <2>1, <2>2, InsertExact DEF Sound
  <2>5. /\ v \in ClassStates
        /\ v.pstate = [t.pstate EXCEPT ![p] = "READY"]
        /\ v.rdy = Insert(t.rdy, p, k)
        /\ v.curr = t.curr /\ v.preempt = t.preempt /\ v.counter = t.counter
    <3>1. Insert(t.rdy, p, k) \in Seq(Items)
      BY <2>4 DEF Exact
    <3>2. QED BY <1>1, <3>1, EnlistFields
  <2> HIDE DEF v
  <2>6. Sound(v)
    BY <1>1, <1>3, <2>4, <2>5, EnlistedSound
  <2>7. /\ w \in ClassStates
        /\ w.counter = [v.counter EXCEPT ![p] = n]
        /\ w.pstate = v.pstate /\ w.rdy = v.rdy
        /\ w.curr = v.curr /\ w.preempt = v.preempt
    BY <1>1, <2>2, <2>5, CounterFields
  <2> HIDE DEF w
  <2>8. \A q \in Procs : w.counter[q] = IF q = p THEN n ELSE t.counter[q]
    BY <1>1, <2>5, <2>7, StateFields
  <2>9. \A q \in Procs : w.pstate[q] = IF q = p THEN "READY" ELSE t.pstate[q]
    BY <1>1, <2>5, <2>7, StateFields
  <2>10. p = 0 => n = 0
    BY DEF Charged
  <2>11. Sound(w)
    <3>1. \A q \in Procs : w.counter[q] <= Most(q)
      BY <2>2, <2>8 DEF Sound
    <3>2. w.counter[0] = 0
      BY <2>8, <2>10, ProcFacts DEF Sound
    <3>3. Readies(w) = Readies(v)
      BY <2>7 DEF Readies
    <3>4. QED BY <2>6, <2>7, <3>1, <3>2, <3>3 DEF Sound
  <2>12. Vacant(w)
    BY <2>9, <2>11 DEF Vacant, Sound
  <2>13. QED BY <1>3, <2>3, <2>5, <2>7, <2>12
<1>4. QED BY <1>2, <1>3

LEMMA DispatchProps ==
  ASSUME NEW t, Vacant(t), NEW p \in Readies(t), NEW n \in Nat, n <= Most(p)
  PROVE  LET u == Dispatch(t, p, n)
         IN  /\ Running(u)
             /\ u.pstate = [t.pstate EXCEPT ![p] = "CURR"]
             /\ u.curr = p /\ u.preempt = n /\ u.counter = t.counter
<1> DEFINE u == Dispatch(t, p, n)
<1>1. t \in ClassStates /\ p \in Procs /\ Exact(t.rdy, Readies(t))
  BY DEF Vacant, Sound, Readies
<1>2. Exact(Dequeue(t.rdy, p), Readies(t) \ {p})
  BY <1>1, DequeueExact
<1>3. /\ u \in ClassStates
      /\ u.pstate = [t.pstate EXCEPT ![p] = "CURR"]
      /\ u.rdy = Dequeue(t.rdy, p)
      /\ u.curr = p /\ u.preempt = n /\ u.counter = t.counter
  <2>1. Dequeue(t.rdy, p) \in Seq(Items) /\ n \in Int
    BY <1>2 DEF Exact
  <2>2. LET w == Dispatch(t, p, n)
        IN  /\ w \in ClassStates
            /\ w.pstate = [t.pstate EXCEPT ![p] = "CURR"]
            /\ w.rdy = Dequeue(t.rdy, p)
            /\ w.curr = p /\ w.preempt = n /\ w.counter = t.counter
    BY <1>1, <2>1, DispatchFields
  <2> HIDE DEF u
  <2>3. u = Dispatch(t, p, n)
    BY DEF u
  <2>4. QED BY <2>2, <2>3
<1> HIDE DEF u
<1>4. \A q \in Procs : u.pstate[q] = IF q = p THEN "CURR" ELSE t.pstate[q]
  BY <1>1, <1>3, StateFields
<1>5. Readies(u) = Readies(t) \ {p}
  BY <1>4 DEF Readies
<1>6. Sound(u)
  BY <1>2, <1>3, <1>4, <1>5, ProcFacts DEF Vacant, Sound
<1>7. QED BY <1>1, <1>3, <1>4, <1>6 DEF Running, u

LEMMA AllowanceBound ==
  ASSUME NEW t, Sound(t), NEW p \in Procs
  PROVE  /\ Allowance(t)[p] \in Nat /\ Allowance(t)[p] <= Most(p)
         /\ Allowance(t)[0] = 0
<1>1. t.counter[p] \in Nat /\ t.counter[p] <= Most(p) /\ t.counter[0] = 0
  BY StateFields DEF Sound
<1>2. Allowance(t)[p] = Prio[p] + t.counter[p] \div 2
  BY DEF Allowance, Kept
<1>3. Allowance(t)[0] = Prio[0] + t.counter[0] \div 2
  BY ProcFacts DEF Allowance, Kept
<1>4. Prio[p] \in Nat /\ QUANTUM \in Nat /\ Prio[0] = 0
  BY ProcFacts
<1>5. QED BY <1>1, <1>2, <1>3, <1>4 DEF Most

LEMMA EpochProps ==
  ASSUME NEW t, Vacant(t)
  PROVE  LET u == NewLinuxEpoch(t)
         IN  /\ Vacant(u) /\ u.counter = Allowance(t)
             /\ u.pstate = t.pstate /\ u.curr = t.curr /\ u.preempt = t.preempt
<1> DEFINE u == NewLinuxEpoch(t)
<1>1. /\ u \in ClassStates
      /\ u.counter = Allowance(t) /\ u.rdy = Relisted(t, EmptyQueue)
      /\ u.pstate = t.pstate /\ u.curr = t.curr /\ u.preempt = t.preempt
  BY EpochFields DEF Vacant, Sound
<1>2. Exact(Relisted(t, EmptyQueue), Readies(t))
  BY RelistedExact, StateFields DEF Vacant, Sound
<1>3. \A p \in Procs : u.counter[p] <= Most(p) /\ u.counter[0] = 0
  BY <1>1, AllowanceBound DEF Vacant
<1> HIDE DEF u
<1>4. Readies(u) = Readies(t)
  BY <1>1 DEF Readies
<1>5. QED BY <1>1, <1>2, <1>3, <1>4, ProcFacts DEF Vacant, Sound, u

LEMMA LastReady ==
  ASSUME NEW t, Sound(t), t.pstate[0] # "CURR"
  PROVE  LastPid(t.rdy) \in Readies(t)
<1>1. 0 \in Readies(t)
  BY StateFields, ProcFacts DEF Sound, States, Readies
<1>2. t.rdy \in Seq(Records(Procs)) /\ Members(t.rdy) = Readies(t) /\ Distinct(t.rdy)
  BY ItemLists DEF Sound, Exact
<1>3. t.rdy # EmptyQueue
  BY <1>1, <1>2, EmptyQueueLen
<1>4. QED BY <1>2, <1>3, ButLastProps

LEMMA StartEpochProps ==
  ASSUME NEW t, Vacant(t)
  PROVE  /\ Running(StartEpoch(t))
         /\ StartEpoch(t).curr = 0 => StartEpoch(t).preempt <= 0
<1> DEFINE v == NewLinuxEpoch(t)
           p == LastPid(v.rdy)
           n == v.counter[p]
           u == Dispatch(v, p, n)
<1>1. Vacant(v)
  BY EpochProps
<1>2. StartEpoch(t) = u
  BY DEF StartEpoch
<1> HIDE DEF v
<1>3. p \in Readies(v) /\ p \in Procs
  BY <1>1, LastReady, ProcFacts DEF Vacant, Readies
<1>4. n \in Nat /\ n <= Most(p) /\ (p = 0 => n = 0)
  BY <1>1, <1>3, StateFields DEF Vacant, Sound
<1> HIDE DEF p, n
<1>5. /\ Running(u)
      /\ u.pstate = [v.pstate EXCEPT ![p] = "CURR"]
      /\ u.curr = p /\ u.preempt = n /\ u.counter = v.counter
  BY <1>1, <1>3, <1>4, DispatchProps
<1> HIDE DEF u
<1>6. QED BY <1>2, <1>4, <1>5

----------------------------------------------------------------------------
(* resched.                                                                *)

(***************************************************************************)
(* Between t and u nobody got ticks, but such as suspended themselves.     *)
(***************************************************************************)
NoneGiven(t, u) ==
  \A p \in Procs : Left(u, p) <= Left(t, p) \/ u.pstate[p] = "SUSP"

\* Nobody who is ready or current has any left.
AllUsed(t) ==
  /\ \A p \in Procs : t.pstate[p] = "READY" => t.counter[p] = 0
  /\ t.pstate[t.curr] = "CURR" => t.preempt <= 0

(***************************************************************************)
(* The last in the list of those that have something left: it is ready,    *)
(* and not the null process, so that its key is above 0.                   *)
(***************************************************************************)
LEMMA LastAble ==
  ASSUME NEW t, Sound(t), Able(t) # {}
  PROVE  LET e == t.rdy[CHOOSE i \in Able(t) : \A j \in Able(t) : j <= i]
         IN  e.pid \in Readies(t) /\ e.key > 0 /\ t.counter[e.pid] >= 1
<1> DEFINE A == Able(t)
           n == Len(t.rdy)
           T == {n - i : i \in A}
<1>1. t.rdy \in Seq(Items) /\ t.rdy \in Seq(Records(Procs)) /\ n \in Nat
  BY ItemLists, LenProperties DEF Sound, Exact
<1>2. DOMAIN t.rdy = 1 .. n /\ A \subseteq 1 .. n
  BY <1>1, LenProperties DEF Able
<1>3. \E i \in A : \A j \in A : j <= i
  <2>1. T \subseteq Nat /\ T # {}
    <3>1. \A i \in A : n - i \in Nat
      BY <1>1, <1>2
    <3>2. QED BY <3>1
  <2>2. PICK m \in T : \A k \in T : m <= k
    <3> HIDE DEF T
    <3>1. QED BY <2>1, LeastNat
  <2>3. PICK i \in A : m = n - i
    OBVIOUS
  <2>4. ASSUME NEW j \in A PROVE j <= i
    <3>1. n - j \in T
      OBVIOUS
    <3>2. n - i <= n - j
      BY <2>2, <2>3, <3>1
    <3>3. i \in Nat /\ j \in Nat
      BY <1>2
    <3>4. QED BY <1>1, <3>2, <3>3
  <2>5. QED BY <2>4
<1> DEFINE i == CHOOSE k \in A : \A j \in A : j <= k
<1>4. i \in A
  BY <1>3
<1> HIDE DEF i
<1>5. i \in 1 .. n /\ t.counter[t.rdy[i].pid] >= 1
  BY <1>2, <1>4 DEF Able
<1>6. t.rdy[i].pid \in Readies(t)
  BY <1>1, <1>5, ListFacts DEF Sound, Exact
<1>7. t.rdy[i] \in Items
  BY <1>1, <1>5, ElementOfSeq
<1>8. t.rdy[i].pid # 0
  BY <1>5, ~ (0 >= 1) DEF Sound
<1>9. t.rdy[i].key > 0
  BY <1>7, <1>8 DEF Items
<1>10. QED BY <1>5, <1>6, <1>9 DEF i

\* If there is nobody with ticks left, the counters of the ready are 0.
LEMMA NoneAble ==
  ASSUME NEW t, Sound(t), Able(t) = {}, NEW p \in Readies(t)
  PROVE  t.counter[p] = 0
<1>1. t.rdy \in Seq(Records(Procs)) /\ p \in Members(t.rdy)
  BY ItemLists DEF Sound, Exact
<1>2. PICK i \in 1 .. Len(t.rdy) : t.rdy[i].pid = p
  BY <1>1, MemberPlace
<1>3. i \notin Able(t) /\ i \in DOMAIN t.rdy
  BY <1>1, ListFacts
<1>4. ~ (t.counter[p] >= 1)
  BY <1>2, <1>3 DEF Able
<1>5. t.counter[p] \in Nat
  BY StateFields DEF Sound, Readies
<1>6. QED BY <1>4, <1>5

LEMMA LeftFacts ==
  ASSUME NEW t, Sound(t), NEW p \in Procs
  PROVE  /\ p = t.curr => Left(t, p) = Charged(t)
         /\ p # t.curr => Left(t, p) = t.counter[p]
         /\ Left(t, p) \in Nat
  BY StateFields DEF Sound, Left, Charged

LEMMA LinuxSchedProps ==
  ASSUME NEW t, Sound(t), t.curr = 0 => t.preempt <= 0,
         t.pstate[t.curr] # "READY"
  PROVE  /\ Running(LinuxSched(t))
         /\ LinuxSched(t).curr = 0 => LinuxSched(t).preempt <= 0
         /\ NoneGiven(t, LinuxSched(t)) \/ AllUsed(t)
<1> DEFINE u == PutBack(t)
           e == u.rdy[CHOOSE i \in Able(u) : \A j \in Able(u) : j <= i]
           v == LinuxSched(t)
<1>1. /\ Vacant(u) /\ u.curr = t.curr /\ u.preempt = t.preempt
      /\ t.pstate[t.curr] = "CURR" =>
           /\ u.pstate = [t.pstate EXCEPT ![t.curr] = "READY"]
           /\ u.counter = [t.counter EXCEPT ![t.curr] = Charged(t)]
      /\ t.pstate[t.curr] # "CURR" =>
           u.pstate = t.pstate /\ u.counter = t.counter
  BY PutBackProps
<1>2. v = IF Able(u) # {} /\ e.key > 0
          THEN Dispatch(u, e.pid, u.counter[e.pid]) ELSE StartEpoch(u)
  BY DEF LinuxSched
<1> HIDE DEF u, v
<1>3. t \in ClassStates /\ t.curr \in Procs /\ Sound(u)
  BY <1>1, StateFields DEF Sound, Vacant
\* What everybody has left, once the current process is back in the list.
<1>4. ASSUME NEW p \in Procs
      PROVE  \/ u.counter[p] <= Left(t, p) /\ u.counter[p] \in Nat
             \/ u.pstate[p] = "SUSP" /\ p = t.curr
  <2>1. Left(t, p) \in Nat /\ u.counter[p] \in Nat
    BY <1>3, LeftFacts, StateFields DEF Sound
  <2>2. CASE t.pstate[t.curr] = "CURR"
    <3>1. u.counter[p] = IF p = t.curr THEN Charged(t) ELSE t.counter[p]
      BY <1>1, <1>3, <2>2, StateFields
    <3>2. u.counter[p] = Left(t, p)
      BY <3>1, LeftFacts
    <3>3. QED BY <2>1, <3>2
  <2>3. CASE t.pstate[t.curr] # "CURR"
    <3>1. CASE p # t.curr
      BY <1>1, <2>1, <2>3, <3>1, LeftFacts
    <3>2. CASE p = t.curr
      BY <1>1, <1>3, <2>3, <3>2, StateFields DEF States
    <3>3. QED BY <3>1, <3>2
  <2>4. QED BY <2>2, <2>3
<1>5. CASE Able(u) # {}
  <2> DEFINE p == e.pid
             n == u.counter[p]
  <2>1. p \in Readies(u) /\ e.key > 0 /\ n >= 1
    BY <1>3, <1>5, LastAble
  <2>2. v = Dispatch(u, p, n)
    BY <1>2, <1>5, <2>1
  <2>3. p \in Procs /\ n \in Nat /\ n <= Most(p) /\ p # 0
    <3>1. p \in Procs
      BY <2>1 DEF Readies
    <3>2. n \in Nat /\ n <= Most(p)
      BY <1>3, <3>1, StateFields DEF Sound
    <3>3. p # 0
      BY <1>3, <2>1, ~ (0 >= 1) DEF Sound
    <3>4. QED BY <3>1, <3>2, <3>3
  <2> HIDE DEF p, n, e
  <2>4. /\ Running(v)
        /\ v.pstate = [u.pstate EXCEPT ![p] = "CURR"]
        /\ v.curr = p /\ v.preempt = n /\ v.counter = u.counter
    BY <1>1, <2>1, <2>2, <2>3, DispatchProps
  <2>5. NoneGiven(t, v)
    <3>1. SUFFICES ASSUME NEW q \in Procs
                   PROVE  Left(v, q) <= Left(t, q) \/ v.pstate[q] = "SUSP"
      BY DEF NoneGiven
    <3>2. v.pstate[q] = IF q = p THEN "CURR" ELSE u.pstate[q]
      BY <1>3, <2>3, <2>4, StateFields DEF Sound
    <3>3. Left(v, q) = u.counter[q]
      BY <2>1, <2>3, <2>4 DEF Left, n
    <3>4. u.pstate[p] # "SUSP"
      BY <2>1 DEF Readies
    <3>5. QED BY <1>4, <3>2, <3>3, <3>4
  <2>6. QED BY <2>3, <2>4, <2>5 DEF v
<1>6. CASE Able(u) = {}
  <2>1. v = StartEpoch(u)
    BY <1>2, <1>6
  <2>2. Running(v)
    BY <1>1, <2>1, StartEpochProps
  <2>3. v.curr = 0 => v.preempt <= 0
    BY <1>1, <2>1, StartEpochProps
  <2>4. AllUsed(t)
    <3>1. ASSUME NEW p \in Procs, t.pstate[p] = "READY" PROVE t.counter[p] = 0
      <4>1. p # t.curr
        BY <3>1
      <4>2. u.pstate[p] = "READY" /\ u.counter[p] = t.counter[p]
        BY <1>1, <1>3, <3>1, <4>1, StateFields
      <4>3. QED BY <1>3, <1>6, <4>2, NoneAble DEF Readies
    <3>2. ASSUME t.pstate[t.curr] = "CURR" PROVE t.preempt <= 0
      <4>1. u.pstate[t.curr] = "READY" /\ u.counter[t.curr] = Charged(t)
        BY <1>1, <1>3, <3>2, StateFields
      <4>2. Charged(t) = 0
        BY <1>3, <1>6, <4>1, NoneAble DEF Readies
      <4>3. QED BY <1>3, <4>2, StateFields DEF Charged
    <3>3. QED BY <3>1, <3>2 DEF AllUsed
  <2>5. QED BY <2>2, <2>3, <2>4 DEF v
<1>7. QED BY <1>5, <1>6

LEMMA XinuSchedProps ==
  ASSUME NEW t, Sound(t), t.pstate[t.curr] # "READY", t.curr = 0 => Running(t)
  PROVE  Running(XinuSched(t))
<1> DEFINE p == t.curr
           v == IF t.pstate[p] = "CURR" THEN Enlist(t, p, Prio[p]) ELSE t
<1>1. t \in ClassStates /\ p \in Procs
  BY StateFields DEF Sound
<1>2. CASE t.pstate[p] = "CURR" /\ LastKey(t.rdy) < Prio[p]
  <2>1. XinuSched(t) = t
    BY <1>2 DEF XinuSched
  <2>2. QED BY <1>2, <2>1 DEF Running
<1>3. CASE ~ (t.pstate[p] = "CURR" /\ LastKey(t.rdy) < Prio[p])
  <2> DEFINE q == LastPid(v.rdy)
             u == Dispatch(v, q, QUANTUM)
  <2>1. XinuSched(t) = u
    BY <1>3 DEF XinuSched
  <2>2. Vacant(v)
    <3>1. CASE t.pstate[p] # "CURR"
      BY <3>1 DEF Sound, Vacant
    <3>2. CASE t.pstate[p] = "CURR"
      <4> DEFINE w == Enlist(t, p, Prio[p])
      <4>1. p \notin Readies(t) /\ Prio[p] \in Nat /\ (p # 0 => Prio[p] > 0)
        BY <1>1, <3>2, ProcFacts DEF Readies
      <4>2. Exact(Insert(t.rdy, p, Prio[p]), Readies(t) \cup {p})
        BY <1>1, <4>1, InsertExact DEF Sound
      <4>3. /\ w \in ClassStates
            /\ w.pstate = [t.pstate EXCEPT ![p] = "READY"]
            /\ w.rdy = Insert(t.rdy, p, Prio[p])
            /\ w.curr = t.curr /\ w.preempt = t.preempt /\ w.counter = t.counter
        <5>1. Insert(t.rdy, p, Prio[p]) \in Seq(Items)
          BY <4>2 DEF Exact
        <5>2. QED BY <1>1, <5>1, EnlistFields
      <4> HIDE DEF w
      <4>4. Sound(w)
        BY <1>1, <3>2, <4>2, <4>3, EnlistedSound
      <4>5. \A r \in Procs : w.pstate[r] = IF r = p THEN "READY" ELSE t.pstate[r]
        BY <1>1, <4>3, StateFields
      <4>6. Vacant(w)
        BY <4>4, <4>5 DEF Vacant, Sound
      <4>7. QED BY <3>2, <4>6 DEF w
    <3>3. QED BY <3>1, <3>2
  <2> HIDE DEF v
  <2>3. q \in Readies(v) /\ q \in Procs
    BY <2>2, LastReady, ProcFacts DEF Vacant, Readies
  <2> HIDE DEF q
  <2>4. QUANTUM \in Nat /\ QUANTUM <= Most(q)
    <3>1. Prio[q] \in Nat /\ QUANTUM \in Nat
      BY <2>3, ProcFacts
    <3>2. QED BY <3>1 DEF Most
  <2>5. /\ Running(u)
        /\ u.pstate = [v.pstate EXCEPT ![q] = "CURR"]
        /\ u.curr = q /\ u.preempt = QUANTUM /\ u.counter = v.counter
    BY <2>2, <2>3, <2>4, DispatchProps
  <2>6. QED BY <2>1, <2>5
<1>4. QED BY <1>2, <1>3

----------------------------------------------------------------------------
(* The invariant.                                                          *)

(***************************************************************************)
(* Under the linux-like class the null process has no ticks even while it  *)
(* runs, so that it has none when it gives way.                            *)
(***************************************************************************)
ClassInv ==
  /\ class \in {XINUSCHED, LINUXSCHED, MULTIQSCHED}
  /\ Running(s)
  /\ class = LINUXSCHED /\ s.curr = 0 => s.preempt <= 0

LEMMA ReschedProps ==
  ASSUME NEW t, Sound(t), t.pstate[t.curr] # "READY",
         class = LINUXSCHED /\ t.curr = 0 => t.preempt <= 0
  PROVE  /\ Running(Resched(t))
         /\ class = LINUXSCHED /\ Resched(t).curr = 0 => Resched(t).preempt <= 0
         /\ class = LINUXSCHED => NoneGiven(t, Resched(t)) \/ AllUsed(t)
<1>1. \/ Resched(t) = LinuxSched(t) /\ (t.curr = 0 => t.preempt <= 0)
      \/ Resched(t) = XinuSched(t) /\ class # LINUXSCHED
  BY DEF Resched, RoundRobinSched, LINUXSCHED, MULTIQSCHED
<1>2. t.curr = 0 => Running(t)
  BY StateFields DEF Sound, Running, States
<1>3. QED BY <1>1, <1>2, LinuxSchedProps, XinuSchedProps

LEMMA ClassInitial ==
  ASSUME ClassInit
  PROVE  ClassInv
<1>1. s \in ClassStates
  <2>1. Entry(0, 0) \in Items
    BY ItemType, ProcFacts
  <2>2. << Entry(0, 0) >> \in Seq(Items)
    BY <2>1
  <2>3. [p \in Procs |-> 0] \in [Procs -> Nat]
    OBVIOUS
  <2>4. [p \in Procs |-> IF p = 0 THEN "READY" ELSE IF p = 1 THEN "CURR" ELSE "SUSP"]
          \in [Procs -> States]
    BY DEF States
  <2>5. QED BY <2>2, <2>3, <2>4, ProcFacts DEF ClassInit, ClassStates
<1>2. /\ s.curr = 1 /\ s.preempt = QUANTUM /\ s.rdy = << Entry(0, 0) >>
      /\ \A p \in Procs : s.counter[p] = 0
      /\ \A p \in Procs : s.pstate[p] = IF p = 0 THEN "READY"
                                        ELSE IF p = 1 THEN "CURR" ELSE "SUSP"
  BY DEF ClassInit
<1>3. Readies(s) = {0}
  BY <1>2, ProcFacts DEF Readies
<1>4. Exact(s.rdy, {0})
  <2>1. /\ DOMAIN s.rdy = {1} /\ s.rdy[1].pid = 0
    BY <1>2, DOMAIN << Entry(0, 0) >> = 1 .. 1, 1 .. 1 = {1} DEF Entry
  <2>2. s.rdy \in Seq(Items)
    BY <1>1, StateFields
  <2>3. QED BY <2>1, <2>2 DEF Exact, Distinct, Members
<1>5. \A p \in Procs : s.counter[p] <= Most(p)
  <2>1. ASSUME NEW p \in Procs PROVE s.counter[p] <= Most(p)
    <3>1. s.counter[p] = 0 /\ Most(p) \in Nat
      BY <1>2, ProcFacts
    <3>2. QED BY <3>1
  <2>2. QED BY <2>1
<1>6. s.preempt <= Most(s.curr)
  BY <1>2, ProcFacts DEF Most
<1>7. Sound(s)
  BY <1>1, <1>2, <1>3, <1>4, <1>5, <1>6, ProcFacts DEF Sound
<1>8. Running(s)
  BY <1>2, <1>7, ProcFacts DEF Running
<1>9. QED BY <1>2, <1>8, 1 # 0 DEF ClassInit, ClassInv

(***************************************************************************)
(* One step, whatever it is: the invariant is kept, and if the class is    *)
(* the linux-like one an epoch begins only when everything is used up.     *)
(***************************************************************************)
Fair == \/ \A p \in Procs : Left(s', p) <= Left(s, p) \/ s'.pstate[p] = "SUSP"
        \/ Spent

GoodStep == ClassInv' /\ (class = LINUXSCHED => Fair)

LEMMA TickKeeps ==
  ASSUME ClassInv, Tick
  PROVE  GoodStep
<1> DEFINE left == s.preempt - 1
           n == IF left < 0 THEN -1 ELSE left
           t == [s EXCEPT !.preempt = n]
<1>1. Running(s) /\ Sound(s) /\ s \in ClassStates /\ s.preempt \in Int
  BY StateFields DEF ClassInv, Running, Sound
<1>2. s.curr \in Procs /\ Most(s.curr) \in Nat /\ s.preempt <= Most(s.curr)
  BY <1>1, StateFields, ProcFacts DEF Sound
<1>3. /\ t \in ClassStates /\ t.preempt = n
      /\ t.pstate = s.pstate /\ t.rdy = s.rdy
      /\ t.curr = s.curr /\ t.counter = s.counter
  BY <1>1, n \in Int, PreemptFields
<1>4. class' = class /\ s' = IF left > 0 THEN t ELSE Resched(t)
  BY DEF Tick
<1>5. n <= Most(s.curr) /\ n \in Int
  BY <1>1, <1>2
<1>6. s.preempt <= 0 => n <= 0
  BY <1>1
<1> HIDE DEF t
<1>7. Readies(t) = Readies(s)
  BY <1>3 DEF Readies
<1>8. Sound(t) /\ Running(t)
  BY <1>1, <1>3, <1>5, <1>7 DEF Sound, Running
<1>9. class = LINUXSCHED /\ t.curr = 0 => t.preempt <= 0
  BY <1>3, <1>6 DEF ClassInv
<1>10. \A p \in Procs : Left(t, p) <= Left(s, p) /\ Left(t, p) \in Nat /\ Left(s, p) \in Nat
  <2>1. ASSUME NEW p \in Procs PROVE Left(t, p) <= Left(s, p)
    <3>1. s.counter[p] \in Nat
      BY <1>1, StateFields
    <3>2. QED BY <1>1, <1>3, <3>1 DEF Left
  <2>2. QED BY <1>1, <1>8, <2>1, LeftFacts
<1>11. CASE left > 0
  BY <1>4, <1>8, <1>9, <1>10, <1>11 DEF GoodStep, ClassInv, Fair
<1>12. CASE ~ (left > 0)
  <2> DEFINE u == Resched(t)
  <2>1. /\ Running(u)
        /\ class = LINUXSCHED /\ u.curr = 0 => u.preempt <= 0
        /\ class = LINUXSCHED => NoneGiven(t, u) \/ AllUsed(t)
    BY <1>8, <1>9, ReschedProps DEF Running
  <2>2. s' = u
    BY <1>4, <1>12
  <2> HIDE DEF u
  <2>3. ClassInv'
    BY <1>4, <2>1, <2>2 DEF ClassInv
  <2>4. NoneGiven(t, u) => Fair
    <3>1. ASSUME NoneGiven(t, u), NEW p \in Procs
          PROVE  Left(u, p) <= Left(s, p) \/ u.pstate[p] = "SUSP"
      <4>1. Left(u, p) \in Nat
        BY <2>1, LeftFacts DEF Running
      <4>2. QED BY <1>10, <3>1, <4>1 DEF NoneGiven
    <3>2. QED BY <2>2, <3>1 DEF Fair
  <2>5. AllUsed(t) => Fair
    <3>1. s.preempt <= 1
      BY <1>1, <1>12
    <3>2. QED BY <1>3, <3>1 DEF AllUsed, Fair, Spent
  <2>6. QED BY <2>1, <2>3, <2>4, <2>5 DEF GoodStep
<1>13. QED BY <1>11, <1>12

LEMMA MakeReadyKeeps ==
  ASSUME ClassInv, NEW p \in Procs, MakeReady(p)
  PROVE  GoodStep
<1> DEFINE t == Ready(s, p)
           u == Resched(t)
<1>1. Running(s) /\ s \in ClassStates /\ s.pstate[p] = "SUSP"
  BY DEF ClassInv, Running, Sound, MakeReady
<1>2. /\ Running(t) /\ t.pstate = [s.pstate EXCEPT ![p] = "READY"]
      /\ t.curr = s.curr /\ t.preempt = s.preempt /\ t.counter = s.counter
  BY <1>1, ReadyProps
<1>3. s' = u /\ class' = class
  BY DEF MakeReady
<1> HIDE DEF t
<1>4. class = LINUXSCHED /\ t.curr = 0 => t.preempt <= 0
  BY <1>2 DEF ClassInv
<1>5. /\ Running(u)
      /\ class = LINUXSCHED /\ u.curr = 0 => u.preempt <= 0
      /\ class = LINUXSCHED => NoneGiven(t, u) \/ AllUsed(t)
  BY <1>2, <1>4, ReschedProps DEF Running
<1> HIDE DEF u
<1>6. ClassInv'
  BY <1>3, <1>5 DEF ClassInv
<1>7. NoneGiven(t, u) => Fair
  BY <1>2, <1>3 DEF NoneGiven, Fair, Left
<1>8. AllUsed(t) => Fair
  <2>1. \A q \in Procs : s.pstate[q] = "READY" => t.pstate[q] = "READY"
    BY <1>1, <1>2, StateFields
  <2>2. s.preempt <= 0 => s.preempt <= 1
    BY <1>1, StateFields
  <2>3. t.pstate[t.curr] = "CURR"
    BY <1>2 DEF Running
  <2>4. QED BY <1>2, <2>1, <2>2, <2>3 DEF AllUsed, Fair, Spent
<1>9. QED BY <1>5, <1>6, <1>7, <1>8 DEF GoodStep

LEMMA SuspendKeeps ==
  ASSUME ClassInv, NEW p \in Procs, Suspend(p)
  PROVE  GoodStep
<1> DEFINE u == [s EXCEPT !.rdy = Dequeue(@, p), !.pstate[p] = "SUSP"]
<1>1. /\ Running(s) /\ Sound(s) /\ s \in ClassStates /\ s.pstate[p] = "READY"
      /\ p # 0 /\ s.curr # 0
  BY DEF ClassInv, Running, Sound, Suspend
<1>2. s' = u /\ class' = class
  BY DEF Suspend
<1>3. Exact(Dequeue(s.rdy, p), Readies(s) \ {p})
  BY <1>1, DequeueExact DEF Sound, Readies
<1>4. /\ u \in ClassStates
      /\ u.pstate = [s.pstate EXCEPT ![p] = "SUSP"]
      /\ u.rdy = Dequeue(s.rdy, p)
      /\ u.preempt = s.preempt /\ u.curr = s.curr /\ u.counter = s.counter
  <2>1. Dequeue(s.rdy, p) \in Seq(Items)
    BY <1>3 DEF Exact
  <2>2. QED BY <1>1, <2>1, TakenFields
<1> HIDE DEF u
<1>5. \A q \in Procs : u.pstate[q] = IF q = p THEN "SUSP" ELSE s.pstate[q]
  BY <1>1, <1>4, StateFields
<1>6. Readies(u) = Readies(s) \ {p}
  BY <1>5 DEF Readies
<1>7. Sound(u)
  BY <1>1, <1>3, <1>4, <1>5, <1>6, ProcFacts DEF Sound
<1>8. Running(u)
  BY <1>1, <1>4, <1>5, <1>7, StateFields DEF Running
<1>9. ClassInv'
  BY <1>1, <1>2, <1>4, <1>8 DEF ClassInv
<1>10. Fair
  <2>1. ASSUME NEW q \in Procs PROVE Left(u, q) = Left(s, q) /\ Left(s, q) \in Nat
    BY <1>1, <1>4, LeftFacts DEF Left
  <2>2. QED BY <1>2, <2>1 DEF Fair
<1>11. QED BY <1>9, <1>10 DEF GoodStep

LEMMA BlockKeeps ==
  ASSUME ClassInv, NEW p \in Procs, Block(p)
  PROVE  GoodStep
<1> DEFINE t == [s EXCEPT !.pstate[p] = "SUSP"]
           u == Resched(t)
<1>1. /\ Running(s) /\ Sound(s) /\ s \in ClassStates /\ s.pstate[p] = "CURR"
      /\ p \in Blockers /\ p = s.curr /\ p # 0
  BY ClassAssumption DEF ClassInv, Running, Sound, Block
<1>2. s' = u /\ class' = class
  BY DEF Block
<1>3. /\ t \in ClassStates
      /\ t.pstate = [s.pstate EXCEPT ![p] = "SUSP"]
      /\ t.preempt = s.preempt /\ t.rdy = s.rdy
      /\ t.curr = s.curr /\ t.counter = s.counter
  BY <1>1, SuspFields
<1> HIDE DEF t
<1>4. \A q \in Procs : t.pstate[q] = IF q = p THEN "SUSP" ELSE s.pstate[q]
  BY <1>1, <1>3, StateFields
<1>5. Readies(t) = Readies(s)
  BY <1>1, <1>4 DEF Readies
<1>6. Sound(t)
  BY <1>1, <1>3, <1>4, <1>5, ProcFacts DEF Sound
<1>7. /\ Running(u)
      /\ class = LINUXSCHED /\ u.curr = 0 => u.preempt <= 0
      /\ class = LINUXSCHED => NoneGiven(t, u) \/ AllUsed(t)
  <2>1. t.pstate[t.curr] = "SUSP" /\ t.curr # 0
    BY <1>1, <1>3, <1>4
  <2>2. QED BY <1>6, <2>1, ReschedProps
<1> HIDE DEF u
<1>8. ClassInv'
  BY <1>2, <1>7 DEF ClassInv
<1>9. NoneGiven(t, u) => Fair
  BY <1>2, <1>3 DEF NoneGiven, Fair, Left
<1>10. AllUsed(t) => Fair
  <2>1. \A q \in Procs : s.pstate[q] = "READY" => t.pstate[q] = "READY"
    BY <1>1, <1>4
  <2>2. QED BY <1>1, <1>3, <2>1 DEF AllUsed, Fair, Spent
<1>11. QED BY <1>7, <1>8, <1>9, <1>10 DEF GoodStep

LEMMA StayFair ==
  ASSUME ClassInv, s' = s
  PROVE  Fair
<1>1. Sound(s)
  BY DEF ClassInv, Running
<1>2. \A p \in Procs : Left(s', p) = Left(s, p) /\ Left(s, p) \in Nat
  BY <1>1, LeftFacts
<1>3. QED BY <1>2 DEF Fair

LEMMA StepKeeps ==
  ASSUME ClassInv, [ClassNext]_vars
  PROVE  GoodStep
<1>1. CASE \E c \in {LINUXSCHED, MULTIQSCHED} : SetSchedClass(c)
  <2>1. /\ class' \in {LINUXSCHED, MULTIQSCHED} /\ class = XINUSCHED
        /\ s.curr # 0 /\ s' = s
    BY <1>1 DEF SetSchedClass
  <2>2. ClassInv'
    BY <2>1 DEF ClassInv
  <2>3. QED BY <2>1, <2>2, StayFair DEF GoodStep
<1>2. CASE Tick
  BY <1>2, TickKeeps
<1>3. CASE \E p \in Procs : MakeReady(p) \/ Suspend(p) \/ Block(p)
  BY <1>3, MakeReadyKeeps, SuspendKeeps, BlockKeeps
<1>4. CASE UNCHANGED vars
  <2>1. class' = class /\ s' = s
    BY <1>4 DEF vars
  <2>2. QED BY <2>1, StayFair DEF GoodStep, ClassInv
<1>5. QED BY <1>1, <1>2, <1>3, <1>4 DEF ClassNext

(***************************************************************************)
(* The strengthening is inductive.                                         *)
(***************************************************************************)
THEOREM ClassInductive == ClassSpec => []ClassInv
<1>1. ASSUME ClassInv, [ClassNext]_vars PROVE ClassInv'
  BY <1>1, StepKeeps DEF GoodStep
<1>2. QED BY <1>1, ClassInitial, PTL DEF ClassSpec

(***************************************************************************)
(* Nobody gets more ticks than twice his priority and one quantum of the   *)
(* original class, however many epochs go by.                              *)
(***************************************************************************)
THEOREM ClassTypes == ClassSpec => []ClassTypeOK
<1>1. ASSUME ClassInv PROVE ClassTypeOK
  <2>1. Sound(s) /\ s \in ClassStates
    BY <1>1 DEF ClassInv, Running, Sound
  <2>2. s.rdy \in Lists
    BY <2>1, StateFields, ItemLists
  <2>3. QED BY <1>1, <2>1, <2>2, StateFields DEF ClassInv, Sound, ClassTypeOK, Most, States
<1>2. QED BY <1>1, ClassInductive, PTL

(***************************************************************************)
(* The ready list holds whoever is ready, once, through every new epoch,   *)
(* and one process runs.                                                   *)
(***************************************************************************)
THEOREM ListExact == ClassSpec => []ListIsReady
<1>1. ASSUME ClassInv PROVE ListIsReady
  BY <1>1 DEF ClassInv, Running, Sound, Exact, Readies, ListIsReady
<1>2. QED BY <1>1, ClassInductive, PTL

(***************************************************************************)
(* No new ticks before those of this epoch are used up.                    *)
(***************************************************************************)
THEOREM NoEarlyEpoch == ClassSpec => EpochWhenSpent
<1>1. ASSUME ClassInv, [ClassNext]_vars
      PROVE  [class = LINUXSCHED =>
                \/ \A p \in Procs : Left(s', p) <= Left(s, p) \/ s'.pstate[p] = "SUSP"
                \/ Spent]_vars
  BY <1>1, StepKeeps DEF GoodStep, Fair
<1>2. QED BY <1>1, ClassInductive, PTL DEF ClassSpec, EpochWhenSpent
=============================================================================
