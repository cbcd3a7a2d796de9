---------------------------- MODULE XinuTty_proof ----------------------------
(***************************************************************************)
(* Proofs about the terminal of XinuTty, for any number of processes, any  *)
(* sizes of the ring and of the input buffer, and any number of keys.      *)
(***************************************************************************)
EXTENDS XinuTty, FiniteSetTheorems, TLAPS

(***************************************************************************)
(* How many slots a call has asked for and not filled, and all calls of f. *)
(***************************************************************************)
Weight(c) == CASE c.at = "nl" -> 2 [] c.at = "put" -> 1 [] OTHER -> 0

AskedIn(f)   == { p \in Actors : f[p].at \in {"put", "nl"} }
TwiceIn(f)   == { p \in Actors : f[p].at = "nl" }
Promised(f)  == Cardinality(AskedIn(f)) + Cardinality(TwiceIn(f))

LEMMA ActorsFinite == IsFiniteSet(Actors)
  BY TtyAssumption, FS_AddElement DEF Actors

\* One member more, one less, or the same.
LEMMA OneMoves ==
  ASSUME NEW S, NEW R, NEW p, IsFiniteSet(S), R \ {p} = S \ {p}
  PROVE  /\ Cardinality(S) \in Nat
         /\ Cardinality(R) = Cardinality(S) - (IF p \in S THEN 1 ELSE 0)
                                            + (IF p \in R THEN 1 ELSE 0)
<1>1. Cardinality(S) \in Nat
  BY FS_CardinalityType
<1>2. CASE p \in S /\ p \in R
  <2>1. S = R
    BY <1>2
  <2> QED BY <1>1, <1>2, <2>1
<1>3. CASE p \in S /\ p \notin R
  <2>1. R = S \ {p}
    BY <1>3
  <2>2. Cardinality(R) = Cardinality(S) - 1
    BY <1>3, <2>1, FS_RemoveElement
  <2> QED BY <1>1, <1>3, <2>2
<1>4. CASE p \notin S /\ p \in R
  <2>1. R = S \cup {p}
    BY <1>4
  <2>2. Cardinality(R) = Cardinality(S) + 1
    BY <1>4, <2>1, FS_AddElement
  <2> QED BY <1>1, <1>4, <2>2
<1>5. CASE p \notin S /\ p \notin R
  <2>1. S = R
    BY <1>5
  <2> QED BY <1>1, <1>5, <2>1
<1> QED BY <1>2, <1>3, <1>4, <1>5

\* In g process p is at c, and everybody else is where it is in f.
Replaces(f, g, p, c) == \A q \in Actors : g[q] = IF q = p THEN c ELSE f[q]

LEMMA WeightMove ==
  ASSUME NEW f, NEW g, NEW p \in Actors, NEW c, Replaces(f, g, p, c)
  PROVE  /\ Promised(f) \in Nat
         /\ Promised(g) = Promised(f) - Weight(f[p]) + Weight(c)
<1>1. /\ g[p] = c
      /\ \A q \in Actors \ {p} : g[q] = f[q]
  BY DEF Replaces
<1>2. IsFiniteSet(AskedIn(f)) /\ IsFiniteSet(TwiceIn(f))
  BY ActorsFinite, FS_Subset DEF AskedIn, TwiceIn
<1>3. /\ AskedIn(g) \ {p} = AskedIn(f) \ {p}
      /\ TwiceIn(g) \ {p} = TwiceIn(f) \ {p}
  BY <1>1 DEF AskedIn, TwiceIn
<1>4. /\ p \in AskedIn(f) <=> f[p].at \in {"put", "nl"}
      /\ p \in TwiceIn(f) <=> f[p].at = "nl"
      /\ p \in AskedIn(g) <=> c.at \in {"put", "nl"}
      /\ p \in TwiceIn(g) <=> c.at = "nl"
  BY <1>1 DEF AskedIn, TwiceIn
<1> DEFINE a == Cardinality(AskedIn(f))   b == Cardinality(AskedIn(g))
           d == Cardinality(TwiceIn(f))   e == Cardinality(TwiceIn(g))
<1>5. a \in Nat /\ b = a - (IF p \in AskedIn(f) THEN 1 ELSE 0)
                         + (IF p \in AskedIn(g) THEN 1 ELSE 0)
  BY <1>2, <1>3, OneMoves
<1>6. d \in Nat /\ e = d - (IF p \in TwiceIn(f) THEN 1 ELSE 0)
                         + (IF p \in TwiceIn(g) THEN 1 ELSE 0)
  BY <1>2, <1>3, OneMoves
<1>7. Promised(f) = a + d /\ Promised(g) = b + e
  BY DEF Promised
<1> HIDE DEF a, b, d, e
<1> QED BY <1>4, <1>5, <1>6, <1>7 DEF Weight

----------------------------------------------------------------------------
(***************************************************************************)
(* The slots: n characters in the ring, the semaphore s, the calls f.  The *)
(* queue holds calls that have asked for a slot, each of them once.        *)
(***************************************************************************)
Semaphores == [cnt : Int, q : Seq(Actors)]

QueueLen(s) == Len(s.q) = IF s.cnt < 0 THEN -s.cnt ELSE 0

Once(q) == \A i, j \in 1 .. Len(q) : q[i] = q[j] => i = j

SlotInv(n, s, f) ==
  /\ n \in Nat
  /\ s \in Semaphores
  /\ QueueLen(s)
  /\ Once(s.q)
  /\ WaitingFor(s) \subseteq AskedIn(f)
  /\ n + s.cnt + Promised(f) = COMBUFSZ

\* A process goes on to wait for one slot more.
LEMMA WaitKeeps ==
  ASSUME NEW n, NEW s, NEW f, NEW g, SlotInv(n, s, f),
         NEW p \in Actors, NEW c, Replaces(f, g, p, c),
         p \notin WaitingFor(s), Weight(c) = Weight(f[p]) + 1,
         c.at \in {"put", "nl"}
  PROVE  SlotInv(n, Waited(s, p), g)
<1> DEFINE r == Waited(s, p)
<1>1. /\ s \in Semaphores /\ s.cnt \in Int /\ s.q \in Seq(Actors)
      /\ QueueLen(s) /\ Once(s.q)
  BY DEF SlotInv, Semaphores
<1>2. /\ r.cnt = s.cnt - 1
      /\ r.q = IF s.cnt <= 0 THEN Append(s.q, p) ELSE s.q
      /\ r \in Semaphores
  BY <1>1 DEF Waited, Semaphores
<1>3. QueueLen(r)
  BY <1>1, <1>2 DEF QueueLen
<1>4. \A k \in 1 .. Len(s.q) : s.q[k] # p
  BY DEF WaitingFor
<1>5. Once(r.q)
  <2>1. CASE s.cnt <= 0
    <3>1. /\ Len(r.q) = Len(s.q) + 1
          /\ \A k \in 1 .. Len(s.q) : r.q[k] = s.q[k]
          /\ r.q[Len(s.q) + 1] = p
      BY <1>1, <1>2, <2>1
    <3>2. Len(s.q) \in Nat
      BY <1>1
    <3> HIDE DEF r
    <3>3. \A k \in 1 .. Len(r.q) : k \in 1 .. Len(s.q) \/ k = Len(s.q) + 1
      BY <3>1, <3>2
    <3> SUFFICES ASSUME NEW i \in 1 .. Len(r.q), NEW j \in 1 .. Len(r.q),
                        r.q[i] = r.q[j]
                 PROVE  i = j
      BY DEF Once
    <3>4. CASE i \in 1 .. Len(s.q) /\ j \in 1 .. Len(s.q)
      BY <1>1, <3>1, <3>4 DEF Once
    <3>5. CASE i = Len(s.q) + 1 \/ j = Len(s.q) + 1
      BY <1>4, <3>1, <3>3, <3>5
    <3> QED BY <3>3, <3>4, <3>5
  <2>2. CASE s.cnt > 0
    BY <1>1, <1>2, <2>2
  <2> QED BY <1>1, <2>1, <2>2
<1>6. WaitingFor(r) \subseteq WaitingFor(s) \cup {p}
  <2>1. CASE s.cnt <= 0
    BY <1>1, <1>2, <2>1 DEF WaitingFor
  <2>2. CASE s.cnt > 0
    BY <1>1, <1>2, <2>2 DEF WaitingFor
  <2> QED BY <1>1, <2>1, <2>2
<1>7. AskedIn(f) \cup {p} \subseteq AskedIn(g)
  BY DEF AskedIn, Replaces
<1>8. /\ Promised(f) \in Nat
      /\ Promised(g) = Promised(f) - Weight(f[p]) + Weight(c)
  BY WeightMove
<1>9. Weight(f[p]) \in Int
  BY DEF Weight
<1>10. n + r.cnt + Promised(g) = COMBUFSZ
  <2>1. n \in Nat /\ n + s.cnt + Promised(f) = COMBUFSZ
    BY DEF SlotInv
  <2>2. Promised(g) = Promised(f) + 1
    BY <1>8, <1>9
  <2> DEFINE a == s.cnt   b == r.cnt   d == Promised(f)   e == Promised(g)
  <2>3. a \in Int /\ b = a - 1 /\ d \in Nat /\ e = d + 1 /\ n + a + d = COMBUFSZ
    BY <1>1, <1>2, <1>8, <2>1, <2>2
  <2> HIDE DEF a, b, d, e
  <2>4. n + b + e = COMBUFSZ
    BY <2>1, <2>3
  <2> QED BY <2>4 DEF b, e
<1> QED BY <1>2, <1>3, <1>5, <1>6, <1>7, <1>10 DEF SlotInv

\* A slot becomes free, and somebody who waits for it is let through.
LEMMA SignalKeeps ==
  ASSUME NEW n, NEW s, NEW f, SlotInv(n, s, f), n > 0
  PROVE  SlotInv(n - 1, Signalled(s), f)
<1> DEFINE r == Signalled(s)
<1>1. /\ s \in Semaphores /\ s.cnt \in Int /\ s.q \in Seq(Actors)
      /\ QueueLen(s) /\ Once(s.q)
  BY DEF SlotInv, Semaphores
<1>2. s.cnt < 0 => Len(s.q) > 0
  BY <1>1 DEF QueueLen
<1>3. /\ r.cnt = s.cnt + 1
      /\ r.q = IF s.cnt < 0 THEN Tail(s.q) ELSE s.q
      /\ r \in Semaphores
  BY <1>1, <1>2 DEF Signalled, Semaphores
<1>4. CASE s.cnt < 0
  <2>1. /\ Len(r.q) = Len(s.q) - 1
        /\ \A k \in 1 .. Len(r.q) : k + 1 \in 1 .. Len(s.q) /\ r.q[k] = s.q[k + 1]
    BY <1>1, <1>2, <1>3, <1>4
  <2>2. QueueLen(r)
    BY <1>1, <1>3, <1>4, <2>1 DEF QueueLen
  <2>3. Once(r.q) /\ WaitingFor(r) \subseteq WaitingFor(s)
    <3>1. Len(r.q) \in Nat
      BY <1>1, <2>1, <1>2, <1>4
    <3> HIDE DEF r
    <3>2. Once(r.q)
      <4> SUFFICES ASSUME NEW i \in 1 .. Len(r.q), NEW j \in 1 .. Len(r.q),
                          r.q[i] = r.q[j]
                   PROVE  i = j
        BY DEF Once
      <4>1. s.q[i + 1] = s.q[j + 1]
        BY <2>1
      <4>2. i + 1 = j + 1
        BY <1>1, <2>1, <4>1 DEF Once
      <4> QED BY <3>1, <4>2
    <3>3. WaitingFor(r) \subseteq WaitingFor(s)
      BY <2>1 DEF WaitingFor
    <3> QED BY <3>2, <3>3
  <2>4. n - 1 + r.cnt + Promised(f) = COMBUFSZ
    <3>1. Promised(f) \in Int
      BY ActorsFinite, FS_Subset, FS_CardinalityType DEF AskedIn, TwiceIn, Promised
    <3> QED BY <1>1, <1>3, <3>1 DEF SlotInv
  <2> QED BY <1>3, <2>2, <2>3, <2>4 DEF SlotInv
<1>5. CASE s.cnt >= 0
  <2>1. r.q = s.q /\ QueueLen(r)
    BY <1>1, <1>3, <1>5 DEF QueueLen
  <2>2. Once(r.q) /\ WaitingFor(r) = WaitingFor(s)
    BY <1>1, <2>1 DEF WaitingFor
  <2>3. n - 1 + r.cnt + Promised(f) = COMBUFSZ
    <3>1. Promised(f) \in Int
      BY ActorsFinite, FS_Subset, FS_CardinalityType DEF AskedIn, TwiceIn, Promised
    <3> QED BY <1>1, <1>3, <3>1 DEF SlotInv
  <2> QED BY <1>3, <2>1, <2>2, <2>3 DEF SlotInv
<1> QED BY <1>1, <1>4, <1>5

\* A process fills the slots that it has asked for.
LEMMA FillKeeps ==
  ASSUME NEW n, NEW s, NEW f, NEW g, SlotInv(n, s, f),
         NEW p \in Actors, NEW c, Replaces(f, g, p, c),
         p \notin WaitingFor(s), Weight(c) = 0
  PROVE  SlotInv(n + Weight(f[p]), s, g)
<1>1. AskedIn(f) \ {p} \subseteq AskedIn(g)
  BY DEF AskedIn, Replaces
<1>2. /\ Promised(f) \in Nat
      /\ Promised(g) = Promised(f) - Weight(f[p]) + Weight(c)
  BY WeightMove
<1>3. Weight(f[p]) \in Nat
  BY DEF Weight
<1>4. n \in Nat /\ s.cnt \in Int
  BY DEF SlotInv, Semaphores
<1>5. n + Weight(f[p]) + s.cnt + Promised(g) = COMBUFSZ
  BY <1>2, <1>3, <1>4 DEF SlotInv
<1> QED BY <1>1, <1>3, <1>4, <1>5 DEF SlotInv

\* The ring is never asked to hold more than it can.
LEMMA RingBound ==
  ASSUME NEW n, NEW s, NEW f, SlotInv(n, s, f)
  PROVE  n \in 0 .. COMBUFSZ
<1>1. /\ n \in Nat /\ s.cnt \in Int /\ s.q \in Seq(Actors)
      /\ QueueLen(s) /\ Once(s.q) /\ WaitingFor(s) \subseteq AskedIn(f)
      /\ n + s.cnt + Promised(f) = COMBUFSZ
  BY DEF SlotInv, Semaphores
<1>2. /\ IsFiniteSet(AskedIn(f)) /\ IsFiniteSet(TwiceIn(f))
      /\ Cardinality(AskedIn(f)) \in Nat /\ Cardinality(TwiceIn(f)) \in Nat
  BY ActorsFinite, FS_Subset, FS_CardinalityType DEF AskedIn, TwiceIn
<1>3. Len(s.q) <= Cardinality(AskedIn(f))
  <2>1. Len(s.q) \in Nat
    BY <1>1
  <2>2. IsFiniteSet(1 .. Len(s.q)) /\ Cardinality(1 .. Len(s.q)) = Len(s.q)
    BY <2>1, FS_Interval
  <2> DEFINE h == [k \in 1 .. Len(s.q) |-> s.q[k]]
  <2>3. h \in Injection(1 .. Len(s.q), AskedIn(f))
    <3>1. \A k \in 1 .. Len(s.q) : s.q[k] \in AskedIn(f)
      BY <1>1 DEF WaitingFor
    <3> QED BY <1>1, <3>1 DEF Once, Injection, IsInjective
  <2>4. Cardinality(1 .. Len(s.q)) <= Cardinality(AskedIn(f))
    BY <1>2, <2>2, <2>3, FS_Injection, Zenon DEF ExistsInjection
  <2> QED BY <2>2, <2>4
<1>4. COMBUFSZ \in Nat
  BY ComAssumption
<1> QED BY <1>1, <1>2, <1>3, <1>4 DEF QueueLen, Promised

----------------------------------------------------------------------------
(***************************************************************************)
(* The types, by name, and the invariant.                                  *)
(***************************************************************************)
Outputs == {"x", "nl"}
Rings   == [buf : [ComSlots -> BOOLEAN], start : ComSlots,
            count : 0 .. COMBUFSZ, ier : BOOLEAN, thre : BOOLEAN]
Buffers == [in : [InSlots -> Chars], start : InSlots, count : 0 .. IBLEN,
            eof : BOOLEAN, cr : BOOLEAN]
Places  == [at : {"user", "eof", "rwait", "take", "peek"}, len : Nat]
Sequels == [k : {"return", "eol", "word", "reprint"}, pos : InSlots, n : Nat]
Calls   == [at : {"idle", "wait", "put", "nl", "next"}, todo : Seq(Outputs),
            pos : 0 .. 2 * COMBUFSZ - 1, then : Sequels]
Readers == [cnt : Int, q : Seq(Procs)]

\* A call that is about to put a character has one.
CallOK(c) == c.at \in {"wait", "put", "nl"} => c.todo # <<>>

CallsOK(f) == f \in [Actors -> Calls] /\ \A p \in Actors : CallOK(f[p])

TtyInv == /\ TtyTypeOK
          /\ QueueLen(isema)
          /\ CallsOK(call)
          /\ SlotInv(com.count, osema, call)

\* What the types say, part by part.
LEMMA Parts ==
  ASSUME TtyInv
  PROVE  /\ com \in Rings /\ osema \in Semaphores /\ isema \in Readers
         /\ tty \in Buffers /\ user \in [Procs -> Places]
         /\ call \in [Actors -> Calls] /\ running \in Actors \cup {NOBODY}
         /\ keys \in 0 .. MaxKeys /\ puts \in 0 .. MaxPuts
  BY DEF TtyInv, TtyTypeOK, Rings, Semaphores, Readers, Buffers, Places, Calls,
         Sequels, Outputs

LEMMA PartsAfter ==
  ASSUME com' \in Rings, osema' \in Semaphores, isema' \in Readers,
         tty' \in Buffers, user' \in [Procs -> Places],
         call' \in [Actors -> Calls], running' \in Actors \cup {NOBODY},
         keys' \in 0 .. MaxKeys, puts' \in 0 .. MaxPuts
  PROVE  TtyTypeOK'
  BY DEF TtyTypeOK, Rings, Semaphores, Readers, Buffers, Places, Calls,
         Sequels, Outputs

LEMMA SequelType ==
  ASSUME NEW k \in {"return", "eol", "word", "reprint"},
         NEW pos \in InSlots, NEW n \in Nat
  PROVE  Then(k, pos, n) \in Sequels
  BY DEF Then, Sequels

LEMMA ReturnType == Return \in Sequels /\ 0 \in InSlots
<1>1. 0 \in InSlots
  BY TtyAssumption DEF InSlots
<1> QED BY <1>1, SequelType DEF Return

LEMMA CallFact ==
  ASSUME NEW todo \in Seq(Outputs), NEW then \in Sequels
  PROVE  LET c == Call(todo, then)
         IN  c \in Calls /\ CallOK(c) /\ Weight(c) = 0
<1>1. 0 \in 0 .. 2 * COMBUFSZ - 1
  BY ComAssumption
<1>2. << >> \in Seq(Outputs)
  OBVIOUS
<1>3. Idle \in Calls /\ CallOK(Idle) /\ Weight(Idle) = 0
  BY <1>1, <1>2, ReturnType DEF Idle, Calls, CallOK, Weight
<1>4. CASE todo = << >> /\ then = Return
  BY <1>3, <1>4 DEF Call
<1>5. CASE ~(todo = << >> /\ then = Return)
  <2> DEFINE c == [at   |-> IF todo = <<>> THEN "next" ELSE "wait",
                   todo |-> todo, pos |-> 0, then |-> then]
  <2>1. c \in Calls /\ CallOK(c) /\ Weight(c) = 0
    BY <1>1 DEF Calls, CallOK, Weight
  <2>2. Call(todo, then) = c
    BY <1>5 DEF Call
  <2> HIDE DEF c
  <2> QED BY <2>1, <2>2
<1> QED BY <1>4, <1>5

LEMMA IdleFact == Idle \in Calls /\ CallOK(Idle) /\ Weight(Idle) = 0
<1>1. << >> \in Seq(Outputs)
  OBVIOUS
<1>2. Idle = Call(<< >>, Return)
  BY DEF Call
<1> QED BY <1>1, <1>2, ReturnType, CallFact

\* The slots, the calls and the processor after GoesOn.
LEMMA GoesOnKeeps ==
  ASSUME call \in [Actors -> Calls], NEW p \in Actors, NEW c \in Calls,
         CallsOK(call), CallOK(c), NEW n, NEW s, NEW woken,
         SlotInv(n, s, [call EXCEPT ![p] = c]), GoesOn(p, c, s, woken)
  PROVE  /\ CallsOK(call')
         /\ SlotInv(n, osema', call')
         /\ osema' \in Semaphores
         /\ running' \in Actors \cup {NOBODY}
<1> DEFINE g == [call EXCEPT ![p] = c]
           d == [c EXCEPT !.at = "put"]
<1>1. d \in Calls /\ d.at = "put" /\ d.todo = c.todo
  BY DEF Calls
<1>2. running' \in Actors \cup {NOBODY}
  BY DEF GoesOn
<1>3. CASE c.at = "wait" /\ ~woken
  <2>1. call' = [call EXCEPT ![p] = d] /\ osema' = Waited(s, p)
    BY <1>3 DEF GoesOn
  <2>2. CallOK(d)
    BY <1>1, <1>3 DEF CallOK
  <2>3. Replaces(g, call', p, d) /\ g[p] = c
    BY <2>1 DEF Replaces
  <2>4. Weight(d) = Weight(g[p]) + 1
    BY <1>1, <1>3, <2>3 DEF Weight
  <2>5. p \notin AskedIn(g)
    BY <1>3, <2>3 DEF AskedIn
  <2>6. SlotInv(n, s, g) /\ p \notin WaitingFor(s)
    BY <2>5 DEF SlotInv
  <2>7. CallsOK(call')
    BY <1>1, <2>1, <2>2 DEF CallsOK
  <2> HIDE DEF g, d
  <2>8. SlotInv(n, osema', call')
    BY <1>1, <2>1, <2>3, <2>4, <2>6, WaitKeeps
  <2> QED BY <1>2, <2>7, <2>8 DEF SlotInv
<1>4. CASE ~(c.at = "wait" /\ ~woken)
  <2>1. call' = g /\ osema' = s
    BY <1>4 DEF GoesOn
  <2>2. CallsOK(call')
    BY <2>1 DEF CallsOK
  <2> QED BY <1>2, <2>1, <2>2 DEF SlotInv
<1> QED BY <1>3, <1>4

\* A call that holds no slot changes to one that holds none.
LEMMA MovesOn ==
  ASSUME TtyInv, NEW p \in Actors, NEW c \in Calls, CallOK(c),
         Weight(c) = 0, Weight(call[p]) = 0, ~Blocked(p),
         GoesOn(p, c, osema, FALSE)
  PROVE  /\ CallsOK(call')
         /\ SlotInv(com.count, osema', call')
         /\ osema' \in Semaphores
         /\ running' \in Actors \cup {NOBODY}
<1> DEFINE g == [call EXCEPT ![p] = c]
<1>1. call \in [Actors -> Calls] /\ CallsOK(call)
  BY DEF TtyInv, CallsOK
<1>2. Replaces(call, g, p, c)
  BY <1>1 DEF Replaces
<1>3. p \notin WaitingFor(osema)
  BY DEF Blocked
<1>4. SlotInv(com.count, osema, call)
  BY DEF TtyInv
<1>5. SlotInv(com.count + Weight(call[p]), osema, g)
  <2> HIDE DEF g
  <2> QED BY <1>2, <1>3, <1>4, FillKeeps
<1>6. SlotInv(com.count, osema, g)
  <2>1. com.count \in Nat
    BY <1>4 DEF SlotInv
  <2> QED BY <1>5, <2>1
<1> QED BY <1>1, <1>6, GoesOnKeeps

----------------------------------------------------------------------------
(* The ring.                                                               *)

LEMMA ComWrapFact ==
  ASSUME NEW n \in 0 .. 2 * COMBUFSZ - 1
  PROVE  ComWrap(n) \in ComSlots
  BY ComAssumption DEF ComWrap, ComSlots

\* The rings while a character is being stored: the count is any number.
OpenRings == [buf : [ComSlots -> BOOLEAN], start : ComSlots,
              count : Nat, ier : BOOLEAN, thre : BOOLEAN]

LEMMA SlotType ==
  ASSUME NEW b \in [ComSlots -> BOOLEAN], NEW i \in ComSlots, NEW v \in BOOLEAN
  PROVE  [b EXCEPT ![i] = v] \in [ComSlots -> BOOLEAN]
  OBVIOUS

LEMMA StoredFact ==
  ASSUME NEW c \in OpenRings, NEW pos \in 0 .. 2 * COMBUFSZ - 1
  PROVE  /\ Stored(c, pos) \in OpenRings
         /\ Stored(c, pos).count = c.count + 1 /\ Stored(c, pos).thre = c.thre
         /\ StoredPair(c, pos) \in OpenRings
         /\ StoredPair(c, pos).count = c.count + 2
         /\ StoredPair(c, pos).thre = c.thre
<1>1. ComWrap(pos) \in ComSlots
  BY ComWrapFact
<1>2. ComWrap(ComWrap(pos) + 1) \in ComSlots
  <2>1. ComWrap(pos) + 1 \in 0 .. 2 * COMBUFSZ - 1
    BY <1>1, ComAssumption DEF ComSlots
  <2> QED BY <2>1, ComWrapFact
<1> DEFINE a == [c.buf EXCEPT ![ComWrap(pos)] = TRUE]
           b == [a EXCEPT ![ComWrap(ComWrap(pos) + 1)] = TRUE]
<1>3. c.buf \in [ComSlots -> BOOLEAN] /\ c.count \in Nat
  BY DEF OpenRings
<1>4. a \in [ComSlots -> BOOLEAN]
  BY <1>1, <1>3, SlotType
<1>5. b \in [ComSlots -> BOOLEAN]
  <2> HIDE DEF a
  <2> QED BY <1>2, <1>4, SlotType
<1> DEFINE n == c.count + 1
           m == c.count + 2
<1>6. Stored(c, pos) = [c EXCEPT !.buf = a, !.count = n]
  BY DEF Stored
<1>7. StoredPair(c, pos) = [c EXCEPT !.buf = b, !.count = m]
  BY DEF StoredPair
<1>8. n \in Nat /\ m \in Nat
  BY <1>3
<1>9. /\ Stored(c, pos) \in OpenRings
      /\ Stored(c, pos).count = n /\ Stored(c, pos).thre = c.thre
  <2> HIDE DEF a, n
  <2>1. [c EXCEPT !.buf = a, !.count = n] \in OpenRings
    BY <1>4, <1>8, Zenon DEF OpenRings
  <2>2. /\ [c EXCEPT !.buf = a, !.count = n].count = n
        /\ [c EXCEPT !.buf = a, !.count = n].thre = c.thre
    BY DEF OpenRings
  <2> QED BY <1>6, <2>1, <2>2
<1>10. /\ StoredPair(c, pos) \in OpenRings
       /\ StoredPair(c, pos).count = m /\ StoredPair(c, pos).thre = c.thre
  <2> HIDE DEF b, m
  <2>1. [c EXCEPT !.buf = b, !.count = m] \in OpenRings
    BY <1>5, <1>8, Zenon DEF OpenRings
  <2>2. /\ [c EXCEPT !.buf = b, !.count = m].count = m
        /\ [c EXCEPT !.buf = b, !.count = m].thre = c.thre
    BY DEF OpenRings
  <2> QED BY <1>7, <2>1, <2>2
<1> QED BY <1>9, <1>10

LEMMA WstrtFact ==
  ASSUME NEW c \in OpenRings, c.count > 0
  PROVE  Wstrt(c) \in OpenRings /\ Wstrt(c).count = c.count - 1
<1>1. ComWrap(c.start + 1) \in ComSlots
  <2>1. c.start + 1 \in 0 .. 2 * COMBUFSZ - 1
    BY ComAssumption DEF OpenRings, ComSlots
  <2> QED BY <2>1, ComWrapFact
<1> DEFINE a == [c.buf EXCEPT ![c.start] = FALSE]
           e == c.ier /\ c.count # 1
<1>2. c.buf \in [ComSlots -> BOOLEAN] /\ c.start \in ComSlots
  BY DEF OpenRings
<1>3. a \in [ComSlots -> BOOLEAN]
  BY <1>2, SlotType
<1> DEFINE i == ComWrap(c.start + 1)
           n == c.count - 1
<1>4. Wstrt(c) = [c EXCEPT !.buf = a, !.start = i, !.count = n,
                           !.ier = e, !.thre = FALSE]
  BY DEF Wstrt
<1>5. e \in BOOLEAN /\ n \in Nat
  BY DEF OpenRings
<1>6. i \in ComSlots
  BY <1>1
<1>7. Wstrt(c) \in OpenRings /\ Wstrt(c).count = n
  <2> DEFINE d == [c EXCEPT !.buf = a, !.start = i, !.count = n,
                            !.ier = e, !.thre = FALSE]
  <2> HIDE DEF a, e, i, n
  <2>1. d \in OpenRings /\ d.count = n
    BY <1>3, <1>5, <1>6 DEF OpenRings
  <2> HIDE DEF d
  <2>2. Wstrt(c) = d
    BY <1>4 DEF d
  <2> QED BY <2>1, <2>2
<1> QED BY <1>7

LEMMA StartedFact ==
  ASSUME NEW c \in OpenRings, c.count > 0
  PROVE  /\ Started(c) \in OpenRings
         /\ Started(c).count = IF c.thre THEN c.count - 1 ELSE c.count
<1> DEFINE d == [c EXCEPT !.ier = TRUE]
<1>1. d \in OpenRings /\ d.count = c.count
  BY DEF OpenRings
<1>2. Wstrt(d) \in OpenRings /\ Wstrt(d).count = c.count - 1
  BY <1>1, WstrtFact
<1>3. Started(c) = IF c.thre THEN Wstrt(d) ELSE d
  BY DEF Started
<1> HIDE DEF d
<1> QED BY <1>1, <1>2, <1>3

LEMMA RingCloses ==
  ASSUME NEW c \in OpenRings, NEW s, NEW f, SlotInv(c.count, s, f)
  PROVE  c \in Rings
<1>1. c.count \in 0 .. COMBUFSZ
  BY RingBound
<1> QED BY <1>1 DEF OpenRings, Rings

LEMMA ComPosFact ==
  ASSUME TtyInv
  PROVE  /\ ComPos(com) \in 0 .. 2 * COMBUFSZ - 1
         /\ com \in OpenRings
<1>1. com.start \in ComSlots /\ com.count \in 0 .. COMBUFSZ
  BY Parts DEF Rings
<1>2. com \in OpenRings
  BY Parts DEF Rings, OpenRings
<1> QED BY <1>1, <1>2, ComAssumption DEF ComPos, ComSlots

----------------------------------------------------------------------------
(* computc.                                                                *)

\* What p puts first, and what is left after it.
LEMMA TodoFact ==
  ASSUME TtyInv, NEW p \in Actors, call[p].at \in {"wait", "put", "nl"}
  PROVE  /\ Tail(call[p].todo) \in Seq(Outputs)
         /\ call[p] \in Calls /\ CallOK(call[p])
         /\ call[p].then \in Sequels
<1>1. call[p] \in Calls /\ CallOK(call[p])
  BY DEF TtyInv, CallsOK
<1>2. call[p].todo \in Seq(Outputs) /\ call[p].todo # << >>
  BY <1>1 DEF Calls, CallOK
<1>3. Tail(call[p].todo) \in Seq(Outputs)
  BY <1>2
<1> QED BY <1>1, <1>3 DEF Calls

LEMMA TtyputcStep ==
  ASSUME TtyInv, NEW p, NEW c \in Outputs, Ttyputc(p, c)
  PROVE  TtyInv'
<1>1. p \in Actors /\ call[p] = Idle /\ ~Blocked(p)
  BY DEF Ttyputc, Outside, InCall, MayRun, Actors
<1> DEFINE d == Call(<<c>>, Return)
<1>2. d \in Calls /\ CallOK(d) /\ Weight(d) = 0
  <2>1. <<c>> \in Seq(Outputs)
    OBVIOUS
  <2> QED BY <2>1, ReturnType, CallFact
<1>3. GoesOn(p, d, osema, FALSE)
  BY DEF Ttyputc
<1> HIDE DEF d
<1>4. /\ CallsOK(call') /\ SlotInv(com.count, osema', call')
      /\ osema' \in Semaphores /\ running' \in Actors \cup {NOBODY}
  BY <1>1, <1>2, <1>3, IdleFact, MovesOn
<1>5. puts' \in 0 .. MaxPuts
  BY Parts, TtyAssumption DEF Ttyputc
<1>6. UNCHANGED <<com, tty, isema, user, keys>>
  BY DEF Ttyputc, inputVars
<1>7. TtyTypeOK'
  BY <1>4, <1>5, <1>6, Parts, PartsAfter DEF CallsOK
<1> QED BY <1>4, <1>6, <1>7 DEF TtyInv, QueueLen

LEMMA PutWaitStep ==
  ASSUME TtyInv, NEW p \in Actors, PutWait(p)
  PROVE  TtyInv'
<1>1. call[p].at = "wait" /\ ~Blocked(p) /\ GoesOn(p, call[p], osema, FALSE)
  BY DEF PutWait, MayRun
<1>2. call[p] \in Calls /\ CallOK(call[p]) /\ Weight(call[p]) = 0
  BY <1>1, TodoFact DEF Weight
<1>3. /\ CallsOK(call') /\ SlotInv(com.count, osema', call')
      /\ osema' \in Semaphores /\ running' \in Actors \cup {NOBODY}
  BY <1>1, <1>2, MovesOn
<1>4. UNCHANGED <<com, tty, isema, user, keys, puts>>
  BY DEF PutWait, inputVars, bounds
<1>5. TtyTypeOK'
  BY <1>3, <1>4, Parts, PartsAfter DEF CallsOK
<1> QED BY <1>3, <1>4, <1>5 DEF TtyInv, QueueLen

LEMMA PutNewlineStep ==
  ASSUME TtyInv, NEW p \in Actors, PutNewline(p)
  PROVE  TtyInv'
<1> DEFINE c == [call[p] EXCEPT !.at = "nl", !.pos = ComPos(com)]
           s == Waited(osema, p)
           g == [call EXCEPT ![p] = c]
<1>1. /\ call[p].at = "put" /\ p \notin WaitingFor(osema)
      /\ GoesOn(p, c, s, osema.cnt <= 0)
  BY DEF PutNewline, MayRun, Blocked
<1>2. /\ call[p] \in Calls /\ CallOK(call[p])
      /\ call \in [Actors -> Calls] /\ CallsOK(call)
      /\ SlotInv(com.count, osema, call)
  BY <1>1, TodoFact, Parts DEF TtyInv
<1>3. c \in Calls /\ CallOK(c) /\ c.at = "nl"
  BY <1>1, <1>2, ComPosFact DEF Calls, CallOK
<1>4. Weight(c) = Weight(call[p]) + 1
  BY <1>1, <1>3 DEF Weight
<1>5. Replaces(call, g, p, c)
  BY <1>2 DEF Replaces
<1> HIDE DEF c
<1>6. SlotInv(com.count, s, g)
  <2> HIDE DEF g
  <2> QED BY <1>1, <1>2, <1>3, <1>4, <1>5, WaitKeeps
<1> HIDE DEF s
<1>7. /\ CallsOK(call') /\ SlotInv(com.count, osema', call')
      /\ osema' \in Semaphores /\ running' \in Actors \cup {NOBODY}
  BY <1>1, <1>2, <1>3, <1>6, GoesOnKeeps
<1>8. UNCHANGED <<com, tty, isema, user, keys, puts>>
  BY DEF PutNewline, inputVars, bounds
<1>9. TtyTypeOK'
  BY <1>7, <1>8, Parts, PartsAfter DEF CallsOK
<1> QED BY <1>7, <1>8, <1>9 DEF TtyInv, QueueLen

\* c is the ring with everything in it that p had asked for.
LEMMA PutEndsStep ==
  ASSUME TtyInv, NEW p \in Actors, NEW c \in OpenRings, PutEnds(p, c),
         call[p].at \in {"put", "nl"}, p \notin WaitingFor(osema),
         c.count = com.count + Weight(call[p])
  PROVE  TtyInv'
<1> DEFINE d == Call(Tail(call[p].todo), call[p].then)
           g == [call EXCEPT ![p] = d]
           s == IF c.thre THEN Signalled(osema) ELSE osema
<1>1. /\ call \in [Actors -> Calls] /\ CallsOK(call)
      /\ SlotInv(com.count, osema, call)
  BY Parts DEF TtyInv
<1>2. d \in Calls /\ CallOK(d) /\ Weight(d) = 0
  BY TodoFact, CallFact
<1>3. com' = Started(c) /\ GoesOn(p, d, s, c.thre /\ osema.cnt < 0)
  BY DEF PutEnds
<1>4. Replaces(call, g, p, d)
  BY <1>1 DEF Replaces
<1>5. UNCHANGED <<tty, isema, user, keys, puts>>
  BY DEF PutEnds, inputVars, bounds
<1> HIDE DEF d
<1>6. SlotInv(c.count, osema, g)
  <2> HIDE DEF g
  <2> QED BY <1>1, <1>2, <1>4, FillKeeps
<1>7. c.count > 0
  <2>1. Weight(call[p]) > 0 /\ Weight(call[p]) \in Nat
    BY DEF Weight
  <2>2. com.count \in Nat
    BY <1>1 DEF SlotInv
  <2> QED BY <2>1, <2>2
<1>8. /\ com' \in OpenRings
      /\ com'.count = IF c.thre THEN c.count - 1 ELSE c.count
  BY <1>3, <1>7, StartedFact
<1>9. SlotInv(com'.count, s, g)
  <2> HIDE DEF g
  <2>1. CASE c.thre
    BY <1>6, <1>7, <1>8, <2>1, SignalKeeps
  <2>2. CASE ~c.thre
    BY <1>6, <1>8, <2>2
  <2> QED BY <2>1, <2>2
<1> HIDE DEF s
<1>10. /\ CallsOK(call') /\ SlotInv(com'.count, osema', call')
       /\ osema' \in Semaphores /\ running' \in Actors \cup {NOBODY}
  BY <1>1, <1>2, <1>3, <1>9, GoesOnKeeps
<1>11. com' \in Rings
  BY <1>8, <1>10, RingCloses
<1>12. TtyTypeOK'
  BY <1>5, <1>10, <1>11, Parts, PartsAfter DEF CallsOK
<1> QED BY <1>5, <1>10, <1>12 DEF TtyInv, QueueLen

LEMMA PutCharStep ==
  ASSUME TtyInv, NEW p \in Actors, PutChar(p)
  PROVE  TtyInv'
<1> DEFINE c == Stored(com, ComPos(com))
<1>1. /\ call[p].at = "put" /\ p \notin WaitingFor(osema) /\ PutEnds(p, c)
  BY DEF PutChar, MayRun, Blocked
<1>2. c \in OpenRings /\ c.count = com.count + 1
  BY ComPosFact, StoredFact
<1> HIDE DEF c
<1> QED BY <1>1, <1>2, PutEndsStep DEF Weight

LEMMA PutPairStep ==
  ASSUME TtyInv, NEW p \in Actors, PutPair(p)
  PROVE  TtyInv'
<1> DEFINE c == StoredPair(com, call[p].pos)
<1>1. /\ call[p].at = "nl" /\ p \notin WaitingFor(osema) /\ PutEnds(p, c)
  BY DEF PutPair, MayRun, Blocked
<1>2. call[p].pos \in 0 .. 2 * COMBUFSZ - 1
  BY <1>1, TodoFact DEF Calls
<1>3. c \in OpenRings /\ c.count = com.count + 2
  BY <1>2, ComPosFact, StoredFact
<1> HIDE DEF c
<1> QED BY <1>1, <1>3, PutEndsStep DEF Weight

----------------------------------------------------------------------------
(* The UART.                                                               *)

LEMMA TxDoneStep ==
  ASSUME TtyInv, TxDone
  PROVE  TtyInv'
<1>1. com' \in Rings /\ com'.count = com.count
  BY Parts DEF TxDone, Rings
<1>2. UNCHANGED <<osema, tty, isema, user, call, running, keys, puts>>
  BY DEF TxDone, inputVars, bounds
<1>3. TtyTypeOK'
  BY <1>1, <1>2, Parts, PartsAfter
<1> QED BY <1>1, <1>2, <1>3 DEF TtyInv, QueueLen

LEMMA TxInterruptStep ==
  ASSUME TtyInv, TxInterrupt
  PROVE  TtyInv'
<1>1. /\ com' = Wstrt(com) /\ osema' = Signalled(osema) /\ com.count > 0
      /\ UNCHANGED <<tty, isema, user, call, running, keys, puts>>
  BY DEF TxInterrupt, inputVars, bounds
<1>2. com' \in OpenRings /\ com'.count = com.count - 1
  BY <1>1, ComPosFact, WstrtFact
<1>3. SlotInv(com'.count, osema', call)
  BY <1>1, <1>2, SignalKeeps DEF TtyInv
<1>4. com' \in Rings
  BY <1>2, <1>3, RingCloses
<1>5. osema' \in Semaphores
  BY <1>3 DEF SlotInv
<1>6. TtyTypeOK'
  BY <1>1, <1>4, <1>5, Parts, PartsAfter
<1> QED BY <1>1, <1>3, <1>6 DEF TtyInv, QueueLen

----------------------------------------------------------------------------
(* The input buffer: places, and what becomes of it.                       *)

LEMMA InWrapFact ==
  ASSUME NEW n \in 0 .. 2 * IBLEN - 1
  PROVE  InWrap(n) \in InSlots
  BY TtyAssumption DEF InWrap, InSlots

LEMMA BackFact ==
  ASSUME NEW pos \in InSlots, NEW n \in 0 .. IBLEN
  PROVE  Back(pos, n) \in InSlots
  BY TtyAssumption DEF Back, InSlots

LEMMA LastPosFact ==
  ASSUME NEW t \in Buffers, t.count > 0
  PROVE  LastPos(t) \in InSlots
<1>1. t.start + t.count - 1 \in 0 .. 2 * IBLEN - 1
  BY TtyAssumption DEF Buffers, InSlots
<1> QED BY <1>1, InWrapFact DEF LastPos

LEMMA ShownFact ==
  ASSUME NEW t, NEW ch
  PROVE  /\ Echo(ch) \in Seq(Outputs)
         /\ Shows(t, ch) \in Seq(Outputs)
         /\ RubsOut(t) \in Seq(Outputs)
<1>1. /\ <<"x">> \in Seq(Outputs) /\ <<"nl">> \in Seq(Outputs)
      /\ <<"x", "x">> \in Seq(Outputs) /\ << >> \in Seq(Outputs)
      /\ <<"x", "x", "x">> \in Seq(Outputs)
  BY DEF Outputs
<1>2. <<"x", "x", "x", "x", "x", "x">> \in Seq(Outputs)
  BY DEF Outputs
<1>3. Echo(ch) \in Seq(Outputs)
  BY <1>1 DEF Echo
<1>4. \A k : Rubout(k) \in Seq(Outputs)
  BY <1>1, <1>2 DEF Rubout
<1> QED BY <1>1, <1>3, <1>4 DEF Shows, RubsOut

LEMMA ErasedFact ==
  ASSUME NEW t \in Buffers
  PROVE  /\ Erased(t) \in Buffers
         /\ Erased(t).in = t.in /\ Erased(t).start = t.start
         /\ Erased(t).count = IF CanErase(t) THEN t.count - 1 ELSE t.count
<1>1. CASE CanErase(t)
  <2> DEFINE n == t.count - 1
  <2>1. n \in 0 .. IBLEN
    BY <1>1, TtyAssumption DEF CanErase, Buffers
  <2>2. Erased(t) = [t EXCEPT !.count = n]
    BY <1>1 DEF Erased
  <2>3. [t EXCEPT !.count = n] \in Buffers
    <3> HIDE DEF n
    <3> QED BY <2>1, Zenon DEF Buffers
  <2> QED BY <1>1, <2>2, <2>3 DEF Buffers
<1>2. CASE ~CanErase(t)
  BY <1>2 DEF Erased
<1> QED BY <1>1, <1>2

LEMMA KeptFact ==
  ASSUME NEW t \in Buffers, NEW ch \in Chars
  PROVE  /\ Kept(t, ch) \in Buffers
         /\ HasRoom(t) =>
              /\ Kept(t, ch).count = t.count + 1
              /\ Kept(t, ch).start = t.start
              /\ Kept(t, ch).in = [t.in EXCEPT ![InWrap(t.start + t.count)] = ch]
         /\ ~HasRoom(t) => Kept(t, ch) = t
<1>1. CASE HasRoom(t)
  <2> DEFINE n == t.count + 1
             i == InWrap(t.start + t.count)
             b == [t.in EXCEPT ![i] = ch]
  <2>1. n \in 0 .. IBLEN /\ t.start + t.count \in 0 .. 2 * IBLEN - 1
    BY <1>1, TtyAssumption DEF HasRoom, Buffers, InSlots
  <2>2. i \in InSlots
    BY <2>1, InWrapFact
  <2>3. b \in [InSlots -> Chars]
    <3> HIDE DEF i
    <3> QED BY <2>2 DEF Buffers
  <2>4. Kept(t, ch) = [t EXCEPT !.in = b, !.count = n]
    BY <1>1 DEF Kept
  <2> HIDE DEF b, n
  <2>5. [t EXCEPT !.in = b, !.count = n] \in Buffers
    BY <2>1, <2>3, Zenon DEF Buffers
  <2>6. /\ [t EXCEPT !.in = b, !.count = n].in = b
        /\ [t EXCEPT !.in = b, !.count = n].count = n
        /\ [t EXCEPT !.in = b, !.count = n].start = t.start
    BY DEF Buffers
  <2> QED BY <1>1, <2>4, <2>5, <2>6 DEF b, n
<1>2. CASE ~HasRoom(t)
  BY <1>2 DEF Kept
<1> QED BY <1>1, <1>2

LEMMA TakenFact ==
  ASSUME NEW t \in Buffers, NEW n \in 0 .. t.count
  PROVE  /\ Taken(t, n) \in Buffers
         /\ Taken(t, n).in = t.in /\ Taken(t, n).start = InWrap(t.start + n)
         /\ Taken(t, n).count = t.count - n
<1> DEFINE i == InWrap(t.start + n)
           m == t.count - n
<1>1. t.start + n \in 0 .. 2 * IBLEN - 1 /\ m \in 0 .. IBLEN
  BY TtyAssumption DEF Buffers, InSlots
<1>2. i \in InSlots
  BY <1>1, InWrapFact
<1>3. Taken(t, n) = [t EXCEPT !.start = i, !.count = m]
  BY DEF Taken
<1> HIDE DEF i, m
<1>4. [t EXCEPT !.start = i, !.count = m] \in Buffers
  BY <1>1, <1>2, Zenon DEF Buffers
<1>5. /\ [t EXCEPT !.start = i, !.count = m].start = i
      /\ [t EXCEPT !.start = i, !.count = m].count = m
      /\ [t EXCEPT !.start = i, !.count = m].in = t.in
  BY DEF Buffers
<1> QED BY <1>3, <1>4, <1>5 DEF i, m

\* The flags, which are no part of the line.
LEMMA FlagFact ==
  ASSUME NEW t \in Buffers, NEW b \in BOOLEAN
  PROVE  /\ [t EXCEPT !.eof = b] \in Buffers
         /\ [t EXCEPT !.cr = b] \in Buffers
         /\ [t EXCEPT !.eof = b].in = t.in /\ [t EXCEPT !.cr = b].in = t.in
         /\ [t EXCEPT !.eof = b].start = t.start /\ [t EXCEPT !.cr = b].start = t.start
         /\ [t EXCEPT !.eof = b].count = t.count /\ [t EXCEPT !.cr = b].count = t.count
<1>1. [t EXCEPT !.eof = b] \in Buffers /\ [t EXCEPT !.cr = b] \in Buffers
  BY Zenon DEF Buffers
<1> QED BY <1>1 DEF Buffers

\* What reprint goes back to.
LEMMA ReprintFact ==
  ASSUME NEW t \in Buffers
  PROVE  /\ Reprint(t).tty = t
         /\ Reprint(t).call \in Calls /\ CallOK(Reprint(t).call)
         /\ Weight(Reprint(t).call) = 0
<1> DEFINE end     == IF t.start + t.count > IBLEN THEN t.start + t.count - IBLEN
                                                   ELSE t.start + t.count
           At(pos) == IF pos = IBLEN THEN "nul" ELSE t.in[pos]
           S       == { k \in 1 .. t.count :
                          \A j \in 0 .. k - 1 : At(Back(end, j)) # "nl" }
           n       == Cardinality(S)
           pos     == Back(end, n)
           first   == IF At(pos) = "nl" THEN InWrap(pos + 1) ELSE pos
           todo    == Echo("reprint") \o Echo("nl")
<1>1. Reprint(t) = [tty |-> t, call |-> Call(todo, Then("reprint", first, n))]
  BY DEF Reprint
<1>2. t.start \in 0 .. IBLEN - 1 /\ t.count \in 0 .. IBLEN /\ IBLEN \in Nat \ {0}
  BY TtyAssumption DEF Buffers, InSlots
<1>3. end \in 0 .. IBLEN /\ (end = IBLEN => t.count > 0)
  BY <1>2
<1>4. IsFiniteSet(S) /\ n \in 0 .. t.count
  <2>1. IsFiniteSet(1 .. t.count) /\ Cardinality(1 .. t.count) = t.count
    <3> DEFINE m == t.count
    <3>1. m \in Nat
      BY <1>2
    <3> HIDE DEF m
    <3>2. IsFiniteSet(1 .. m) /\ Cardinality(1 .. m) = m
      BY <3>1, FS_Interval
    <3> QED BY <3>2 DEF m
  <2>2. S \subseteq 1 .. t.count
    OBVIOUS
  <2> HIDE DEF S
  <2>3. IsFiniteSet(S) /\ Cardinality(S) <= t.count /\ Cardinality(S) \in Nat
    BY <2>1, <2>2, FS_Subset, FS_CardinalityType
  <2> QED BY <2>3, <1>2
<1>5. end = IBLEN => n # 0
  <2> SUFFICES ASSUME end = IBLEN PROVE n # 0
    OBVIOUS
  <2>1. Back(end, 0) = IBLEN
    BY <1>2 DEF Back
  <2>2. At(Back(end, 0)) # "nl"
    BY <2>1
  <2>3. 1 \in S
    BY <1>2, <1>3, <2>2
  <2> HIDE DEF S
  <2> QED BY <1>4, <2>3, FS_EmptySet
<1> HIDE DEF end, S
<1>6. pos \in InSlots
  BY <1>2, <1>3, <1>4, <1>5 DEF Back, InSlots
<1>7. pos + 1 \in 0 .. 2 * IBLEN - 1
  BY <1>2, <1>6 DEF InSlots
<1>8. first \in InSlots
  BY <1>6, <1>7, InWrapFact
<1>9. todo \in Seq(Outputs)
  BY ShownFact
<1>10. Then("reprint", first, n) \in Sequels
  <2>1. n \in Nat
    BY <1>4, <1>2
  <2> HIDE DEF n, first
  <2> QED BY <1>8, <2>1, SequelType
<1> HIDE DEF todo, first, n
<1>11. LET c == Call(todo, Then("reprint", first, n))
       IN  c \in Calls /\ CallOK(c) /\ Weight(c) = 0
  BY <1>9, <1>10, CallFact
<1> QED BY <1>1, <1>11

LEMMA EraseWordFact ==
  ASSUME NEW t \in Buffers
  PROVE  /\ EraseWord(t).tty \in {t, Erased(t)}
         /\ EraseWord(t).call \in Calls /\ CallOK(EraseWord(t).call)
         /\ Weight(EraseWord(t).call) = 0
<1>1. CASE t.count = 0
  BY <1>1, IdleFact DEF EraseWord
<1>2. CASE t.count # 0
  <2> DEFINE d == Then("word", LastPos(t), Kind(t.in[LastPos(t)]))
             c == Call(RubsOut(t), d)
  <2>1. EraseWord(t) = [tty |-> Erased(t), call |-> c]
    BY <1>2 DEF EraseWord
  <2>2. LastPos(t) \in InSlots
    BY <1>2, LastPosFact DEF Buffers
  <2>3. d \in Sequels
    <3>1. Kind(t.in[LastPos(t)]) \in Nat
      BY DEF Kind
    <3> QED BY <2>2, <3>1, SequelType
  <2> HIDE DEF d
  <2>4. c \in Calls /\ CallOK(c) /\ Weight(c) = 0
    BY <2>3, ShownFact, CallFact
  <2> HIDE DEF c
  <2> QED BY <2>1, <2>4
<1> QED BY <1>1, <1>2

LEMMA TypeInFact ==
  ASSUME NEW t \in Buffers, NEW ch \in Chars
  PROVE  LET r == TypeIn(t, ch)
         IN  /\ r.tty \in Buffers
             /\ r.tty.in = Kept(t, ch).in /\ r.tty.start = Kept(t, ch).start
             /\ r.tty.count = Kept(t, ch).count
             /\ r.call \in Calls /\ CallOK(r.call) /\ Weight(r.call) = 0
<1> DEFINE k == Kept(t, ch)
           b == k.eof \/ ch = "eof"
           d == IF ch \in {"nl", "eof"} THEN Then("eol", 0, 0) ELSE Return
           c == Call(Shows(t, ch), d)
<1>1. k \in Buffers
  BY KeptFact
<1>2. TypeIn(t, ch) = [tty |-> [k EXCEPT !.eof = b], call |-> c]
  BY DEF TypeIn
<1>3. b \in BOOLEAN
  OBVIOUS
<1>4. d \in Sequels
  BY ReturnType, SequelType
<1> HIDE DEF k, b, d
<1>5. c \in Calls /\ CallOK(c) /\ Weight(c) = 0
  BY <1>4, ShownFact, CallFact
<1> HIDE DEF c
<1> DEFINE e == [k EXCEPT !.eof = b]
<1>6. e \in Buffers /\ e.in = k.in /\ e.start = k.start /\ e.count = k.count
  BY <1>1, <1>3, FlagFact
<1> HIDE DEF e
<1>7. TypeIn(t, ch).tty = e /\ TypeIn(t, ch).call = c
  BY <1>2 DEF e
<1> QED BY <1>5, <1>6, <1>7 DEF k

----------------------------------------------------------------------------
(***************************************************************************)
(* The line in the buffer t, and what may become of a line: the steps of   *)
(* XinuLine, and no change, as a relation of two sequences.                *)
(***************************************************************************)
BufferedIn(t) == [k \in 1 .. t.count |-> t.in[InWrap(t.start + k - 1)]]

LineMove(b, d) ==
  \/ d = b
  \/ \E c \in Chars : Len(b) < IBLEN /\ d = Append(b, c)
  \/ b # <<>> /\ b[Len(b)] # "nl" /\ d = SubSeq(b, 1, Len(b) - 1)
  \/ \E n \in 1 .. Len(b) : d = SubSeq(b, n + 1, Len(b))

LEMMA SameSequence ==
  ASSUME NEW S, NEW a \in Seq(S), NEW b \in Seq(S), Len(a) = Len(b),
         \A k \in 1 .. Len(a) : a[k] = b[k]
  PROVE  a = b
  OBVIOUS

\* The slot of the k-th character, when i characters have gone.
LEMMA SlotOf ==
  ASSUME NEW a \in InSlots, NEW i \in Nat, NEW k \in Nat, i + k < IBLEN
  PROVE  /\ InWrap(a + i + k) \in InSlots
         /\ InWrap(InWrap(a + i) + k) = InWrap(a + i + k)
  BY TtyAssumption DEF InWrap, InSlots

LEMMA SlotsDiffer ==
  ASSUME NEW a \in InSlots, NEW i \in 0 .. IBLEN - 1, NEW j \in 0 .. IBLEN - 1,
         i # j
  PROVE  InWrap(a + i) # InWrap(a + j)
  BY TtyAssumption DEF InWrap, InSlots

LEMMA LineType ==
  ASSUME NEW t \in Buffers
  PROVE  /\ BufferedIn(t) \in Seq(Chars) /\ Len(BufferedIn(t)) = t.count
         /\ t.count \in 0 .. IBLEN /\ t.start \in InSlots /\ IBLEN \in Nat
         /\ \A k \in 1 .. t.count :
               BufferedIn(t)[k] = t.in[InWrap(t.start + k - 1)]
<1>1. /\ t.count \in 0 .. IBLEN /\ t.start \in InSlots /\ IBLEN \in Nat
      /\ t.in \in [InSlots -> Chars]
  BY TtyAssumption DEF Buffers
<1>2. \A k \in 1 .. t.count : t.in[InWrap(t.start + k - 1)] \in Chars
  <2> SUFFICES ASSUME NEW k \in 1 .. t.count
               PROVE  t.in[InWrap(t.start + k - 1)] \in Chars
    OBVIOUS
  <2>1. t.start + k - 1 \in 0 .. 2 * IBLEN - 1
    BY <1>1 DEF InSlots
  <2>2. InWrap(t.start + k - 1) \in InSlots
    BY <2>1, InWrapFact
  <2> HIDE DEF InWrap
  <2> QED BY <1>1, <2>2
<1>3. t.count \in Nat
  BY <1>1
<1> QED BY <1>1, <1>2, <1>3 DEF BufferedIn

LEMMA SameLine ==
  ASSUME NEW t, NEW u, u.in = t.in, u.start = t.start, u.count = t.count
  PROVE  BufferedIn(u) = BufferedIn(t)
  BY DEF BufferedIn

LEMMA ErasedLine ==
  ASSUME NEW t \in Buffers
  PROVE  LineMove(BufferedIn(t), BufferedIn(Erased(t)))
<1> DEFINE b == BufferedIn(t)
           d == BufferedIn(Erased(t))
<1>1. CASE CanErase(t)
  <2>1. /\ b \in Seq(Chars) /\ Len(b) = t.count /\ t.count \in Nat
        /\ \A k \in 1 .. t.count : b[k] = t.in[InWrap(t.start + k - 1)]
    BY LineType
  <2>2. /\ t.count > 0 /\ t.in[InWrap(t.start + t.count - 1)] # "nl"
    BY <1>1 DEF CanErase, LastPos
  <2>3. b[Len(b)] # "nl" /\ b # << >>
    BY <2>1, <2>2
  <2>4. /\ d \in Seq(Chars) /\ Len(d) = t.count - 1
        /\ \A k \in 1 .. t.count - 1 : d[k] = t.in[InWrap(t.start + k - 1)]
    <3>1. /\ Erased(t) \in Buffers /\ Erased(t).in = t.in
          /\ Erased(t).start = t.start /\ Erased(t).count = t.count - 1
      BY <1>1, ErasedFact
    <3> QED BY <3>1, LineType
  <2> HIDE DEF b, d
  <2>5. d = SubSeq(b, 1, Len(b) - 1)
    <3>1. \A k \in 1 .. t.count - 1 : d[k] = b[k]
      BY <2>1, <2>4
    <3> QED BY <2>1, <2>2, <2>4, <3>1
  <2> QED BY <2>3, <2>5 DEF LineMove, b, d
<1>2. CASE ~CanErase(t)
  BY <1>2 DEF Erased, LineMove
<1> QED BY <1>1, <1>2

LEMMA KeptLine ==
  ASSUME NEW t \in Buffers, NEW ch \in Chars
  PROVE  LineMove(BufferedIn(t), BufferedIn(Kept(t, ch)))
<1> DEFINE b == BufferedIn(t)
           u == Kept(t, ch)
           d == BufferedIn(u)
<1>1. CASE HasRoom(t)
  <2>1. /\ b \in Seq(Chars) /\ Len(b) = t.count /\ t.count \in Nat
        /\ t.start \in InSlots /\ IBLEN \in Nat
        /\ \A k \in 1 .. t.count : b[k] = t.in[InWrap(t.start + k - 1)]
    BY LineType
  <2>2. t.count < IBLEN
    BY <1>1 DEF HasRoom
  <2>3. /\ u \in Buffers /\ u.count = t.count + 1 /\ u.start = t.start
        /\ u.in = [t.in EXCEPT ![InWrap(t.start + t.count)] = ch]
    BY <1>1, KeptFact
  <2> HIDE DEF u
  <2>4. /\ d \in Seq(Chars) /\ Len(d) = t.count + 1
        /\ \A k \in 1 .. t.count + 1 : d[k] = u.in[InWrap(t.start + k - 1)]
    BY <2>3, LineType
  <2>5. \A k \in 1 .. t.count : d[k] = b[k]
    <3> SUFFICES ASSUME NEW k \in 1 .. t.count PROVE d[k] = b[k]
      OBVIOUS
    <3>1. k - 1 \in 0 .. IBLEN - 1 /\ t.count \in 0 .. IBLEN - 1 /\ k - 1 # t.count
      BY <2>1, <2>2
    <3>2. InWrap(t.start + (k - 1)) # InWrap(t.start + t.count)
      BY <2>1, <3>1, SlotsDiffer
    <3>3. t.start + (k - 1) = t.start + k - 1
      BY <2>1 DEF InSlots
    <3>4. d[k] = u.in[InWrap(t.start + k - 1)]
      BY <2>1, <2>4
    <3>5. b[k] = t.in[InWrap(t.start + k - 1)]
      BY <2>1
    <3>6. t.in \in [InSlots -> Chars] /\ InWrap(t.start + k - 1) \in InSlots
      <4>1. t.start + k - 1 \in 0 .. 2 * IBLEN - 1
        BY <2>1, <2>2 DEF InSlots
      <4> QED BY <4>1, InWrapFact DEF Buffers
    <3> HIDE DEF b, d
    <3> QED BY <2>3, <3>2, <3>3, <3>4, <3>5, <3>6
  <2>6. d[t.count + 1] = ch
    <3>1. InWrap(t.start + t.count) \in InSlots
      <4>1. t.start + t.count \in 0 .. 2 * IBLEN - 1
        BY <2>1, <2>2 DEF InSlots
      <4> QED BY <4>1, InWrapFact
    <3>2. t.start + (t.count + 1) - 1 = t.start + t.count
      BY <2>1 DEF InSlots
    <3>3. d[t.count + 1] = u.in[InWrap(t.start + t.count)]
      BY <2>1, <2>4, <3>2
    <3>4. t.in \in [InSlots -> Chars]
      BY DEF Buffers
    <3> HIDE DEF d
    <3> QED BY <2>3, <3>1, <3>3, <3>4
  <2> HIDE DEF b, d
  <2>7. d = Append(b, ch)
    <3>1. /\ Append(b, ch) \in Seq(Chars) /\ Len(Append(b, ch)) = t.count + 1
          /\ \A k \in 1 .. t.count : Append(b, ch)[k] = b[k]
          /\ Append(b, ch)[t.count + 1] = ch
      BY <2>1
    <3>2. \A k \in 1 .. t.count + 1 : k \in 1 .. t.count \/ k = t.count + 1
      BY <2>1
    <3>3. \A k \in 1 .. t.count + 1 : d[k] = Append(b, ch)[k]
      BY <2>5, <2>6, <3>1, <3>2
    <3> QED BY <2>4, <3>1, <3>3, SameSequence
  <2> QED BY <2>1, <2>2, <2>7 DEF LineMove, b, d, u
<1>2. CASE ~HasRoom(t)
  BY <1>2 DEF Kept, LineMove
<1> QED BY <1>1, <1>2

LEMMA TakenLine ==
  ASSUME NEW t \in Buffers, NEW n \in 0 .. t.count
  PROVE  LineMove(BufferedIn(t), BufferedIn(Taken(t, n)))
<1> DEFINE b == BufferedIn(t)
           u == Taken(t, n)
           d == BufferedIn(u)
<1>1. /\ b \in Seq(Chars) /\ Len(b) = t.count /\ t.count \in 0 .. IBLEN
      /\ t.start \in InSlots /\ IBLEN \in Nat
      /\ \A k \in 1 .. t.count : b[k] = t.in[InWrap(t.start + k - 1)]
  BY LineType
<1>2. /\ u \in Buffers /\ u.in = t.in /\ u.start = InWrap(t.start + n)
      /\ u.count = t.count - n
  BY TakenFact
<1> HIDE DEF u
<1>3. /\ d \in Seq(Chars) /\ Len(d) = t.count - n
      /\ \A k \in 1 .. t.count - n : d[k] = t.in[InWrap(InWrap(t.start + n) + k - 1)]
  BY <1>2, LineType
<1>4. \A k \in 1 .. t.count - n : d[k] = b[k + n]
  <2> SUFFICES ASSUME NEW k \in 1 .. t.count - n PROVE d[k] = b[k + n]
    OBVIOUS
  <2>1. n \in Nat /\ k - 1 \in Nat /\ n + (k - 1) < IBLEN /\ k + n \in 1 .. t.count
    BY <1>1
  <2>2. InWrap(InWrap(t.start + n) + (k - 1)) = InWrap(t.start + n + (k - 1))
    BY <1>1, <2>1, SlotOf
  <2>3. /\ t.start + n + (k - 1) = t.start + (k + n) - 1
        /\ InWrap(t.start + n) + (k - 1) = InWrap(t.start + n) + k - 1
    BY <1>1, <2>1 DEF InSlots, InWrap
  <2>4. b[k + n] = t.in[InWrap(t.start + (k + n) - 1)]
    BY <1>1, <2>1
  <2>5. d[k] = t.in[InWrap(InWrap(t.start + n) + k - 1)]
    BY <1>3
  <2> HIDE DEF b, d
  <2> QED BY <2>2, <2>3, <2>4, <2>5
<1> HIDE DEF b, d
<1>5. CASE n = 0
  <2>1. d = b
    <3>1. \A k \in 1 .. t.count : d[k] = b[k]
      BY <1>1, <1>4, <1>5
    <3> QED BY <1>1, <1>3, <1>5, <3>1
  <2> QED BY <2>1 DEF LineMove, b, d, u
<1>6. CASE n # 0
  <2>1. n \in 1 .. Len(b)
    BY <1>1, <1>6
  <2>2. d = SubSeq(b, n + 1, Len(b))
    <3> DEFINE e == SubSeq(b, n + 1, Len(b))
    <3>1. /\ e \in Seq(Chars) /\ Len(e) = t.count - n
          /\ \A k \in 1 .. t.count - n : e[k] = b[k + n]
      BY <1>1, <2>1
    <3> HIDE DEF e
    <3>2. \A k \in 1 .. t.count - n : d[k] = e[k]
      BY <1>4, <3>1
    <3>3. d = e
      BY <1>3, <3>1, <3>2, SameSequence
    <3> QED BY <3>3 DEF e
  <2> QED BY <2>1, <2>2 DEF LineMove, b, d, u
<1> QED BY <1>5, <1>6

\* All that a key does before anything is shown.
LEMMA TtyiinFact ==
  ASSUME NEW t \in Buffers, NEW ch \in Chars \cup {"erase", "werase", "reprint"}
  PROVE  LET r == Ttyiin(t, ch)
         IN  /\ r.tty \in Buffers
             /\ LineMove(BufferedIn(t), BufferedIn(r.tty))
             /\ r.call \in Calls /\ CallOK(r.call) /\ Weight(r.call) = 0
<1> DEFINE r == Ttyiin(t, ch)
<1>1. CASE ch = "erase"
  <2>1. r = [tty |-> Erased(t), call |-> Call(RubsOut(t), Return)]
    BY <1>1 DEF Ttyiin
  <2>2. LET c == Call(RubsOut(t), Return)
        IN  c \in Calls /\ CallOK(c) /\ Weight(c) = 0
    BY ShownFact, ReturnType, CallFact
  <2> HIDE DEF r
  <2> QED BY <2>1, <2>2, ErasedFact, ErasedLine DEF r
<1>2. CASE ch = "werase"
  <2>1. r = EraseWord(t)
    BY <1>2 DEF Ttyiin
  <2>2. r.tty \in {t, Erased(t)}
    BY <2>1, EraseWordFact
  <2>3. r.tty \in Buffers /\ LineMove(BufferedIn(t), BufferedIn(r.tty))
    <3>1. LineMove(BufferedIn(t), BufferedIn(t))
      BY DEF LineMove
    <3> HIDE DEF r
    <3> QED BY <2>2, <3>1, ErasedFact, ErasedLine
  <2> QED BY <2>1, <2>3, EraseWordFact
<1>3. CASE ch = "reprint"
  <2>1. r = Reprint(t)
    BY <1>3 DEF Ttyiin
  <2>2. LineMove(BufferedIn(t), BufferedIn(t))
    BY DEF LineMove
  <2> QED BY <2>1, <2>2, ReprintFact
<1>4. CASE ch \in Chars
  <2>1. r = TypeIn(t, ch)
    BY <1>4 DEF Ttyiin, Chars
  <2>2. BufferedIn(r.tty) = BufferedIn(Kept(t, ch))
    BY <1>4, <2>1, TypeInFact, SameLine
  <2> QED BY <1>4, <2>1, <2>2, TypeInFact, KeptLine
<1> QED BY <1>1, <1>2, <1>3, <1>4

----------------------------------------------------------------------------
(* The handler of a key.                                                   *)

LEMMA RxInterruptStep ==
  ASSUME TtyInv, NEW p \in Actors, NEW key \in Keys, RxInterrupt(p, key)
  PROVE  TtyInv' /\ LineMove(BufferedIn(tty), BufferedIn(tty'))
<1> DEFINE b  == key = "cr"
           t  == [tty EXCEPT !.cr = b]
           ch == IF key = "cr" THEN "nl" ELSE key
           in == Ttyiin(t, ch)
<1>1. call[p] = Idle /\ ~Blocked(p)
  BY DEF RxInterrupt, Outside, InCall, MayRun
<1>2. keys' \in 0 .. MaxKeys /\ UNCHANGED <<com, isema, user, puts>>
  BY Parts, TtyAssumption DEF RxInterrupt
<1>3. CASE key = "nl" /\ tty.cr
  <2>1. UNCHANGED <<tty, osema, call, running>>
    BY <1>3 DEF RxInterrupt
  <2>2. TtyTypeOK'
    BY <1>2, <2>1, Parts, PartsAfter
  <2> QED BY <1>2, <2>1, <2>2 DEF TtyInv, QueueLen, LineMove
<1>4. CASE ~(key = "nl" /\ tty.cr)
  <2>1. tty' = in.tty /\ GoesOn(p, in.call, osema, FALSE)
    BY <1>4 DEF RxInterrupt
  <2>2. b \in BOOLEAN /\ tty \in Buffers
    BY Parts
  <2>3. ch \in Chars \cup {"erase", "werase", "reprint"}
    BY KeyAssumption DEF Chars
  <2> HIDE DEF b, ch
  <2>4. t \in Buffers /\ BufferedIn(t) = BufferedIn(tty)
    BY <2>2, FlagFact, SameLine
  <2> HIDE DEF t
  <2>5. /\ in.tty \in Buffers
        /\ LineMove(BufferedIn(t), BufferedIn(in.tty))
        /\ in.call \in Calls /\ CallOK(in.call) /\ Weight(in.call) = 0
    BY <2>3, <2>4, TtyiinFact
  <2> HIDE DEF in
  <2>6. /\ CallsOK(call') /\ SlotInv(com.count, osema', call')
        /\ osema' \in Semaphores /\ running' \in Actors \cup {NOBODY}
    BY <1>1, <2>1, <2>5, IdleFact, MovesOn
  <2>7. TtyTypeOK'
    BY <1>2, <2>1, <2>5, <2>6, Parts, PartsAfter DEF CallsOK
  <2>8. TtyInv'
    BY <1>2, <2>6, <2>7 DEF TtyInv, QueueLen
  <2> QED BY <2>1, <2>4, <2>5, <2>8
<1> QED BY <1>3, <1>4

LEMMA SignalledReaders ==
  ASSUME isema \in Readers, QueueLen(isema)
  PROVE  Signalled(isema) \in Readers /\ QueueLen(Signalled(isema))
<1>1. isema.cnt \in Int /\ isema.q \in Seq(Procs)
  BY DEF Readers
<1>2. CASE isema.cnt < 0
  <2>1. Len(isema.q) = -isema.cnt /\ isema.q # << >>
    BY <1>1, <1>2 DEF QueueLen
  <2>2. Tail(isema.q) \in Seq(Procs) /\ Len(Tail(isema.q)) = Len(isema.q) - 1
    BY <1>1, <2>1
  <2>3. Signalled(isema) = [cnt |-> isema.cnt + 1, q |-> Tail(isema.q)]
    BY <1>2 DEF Signalled
  <2> QED BY <1>1, <1>2, <2>1, <2>2, <2>3 DEF Readers, QueueLen
<1>3. CASE ~(isema.cnt < 0)
  <2>1. Signalled(isema) = [cnt |-> isema.cnt + 1, q |-> isema.q]
    BY <1>3 DEF Signalled
  <2> QED BY <1>1, <1>3, <2>1 DEF Readers, QueueLen
<1> QED BY <1>2, <1>3

LEMMA WaitedReaders ==
  ASSUME isema \in Readers, QueueLen(isema), NEW p \in Procs
  PROVE  Waited(isema, p) \in Readers /\ QueueLen(Waited(isema, p))
<1>1. isema.cnt \in Int /\ isema.q \in Seq(Procs)
  BY DEF Readers
<1>2. Append(isema.q, p) \in Seq(Procs) /\ Len(Append(isema.q, p)) = Len(isema.q) + 1
  BY <1>1
<1>3. CASE isema.cnt <= 0
  <2>1. Waited(isema, p) = [cnt |-> isema.cnt - 1, q |-> Append(isema.q, p)]
    BY <1>3 DEF Waited
  <2> QED BY <1>1, <1>2, <1>3, <2>1 DEF Readers, QueueLen
<1>4. CASE ~(isema.cnt <= 0)
  <2>1. Waited(isema, p) = [cnt |-> isema.cnt - 1, q |-> isema.q]
    BY <1>4 DEF Waited
  <2> QED BY <1>1, <1>4, <2>1 DEF Readers, QueueLen
<1> QED BY <1>3, <1>4

LEMMA LineEndStep ==
  ASSUME TtyInv, NEW p \in Actors, LineEnd(p)
  PROVE  TtyInv'
<1>1. /\ call[p].at = "next" /\ ~Blocked(p) /\ GoesOn(p, Idle, osema, FALSE)
      /\ isema' = IF isema.cnt <= 0 THEN Signalled(isema) ELSE isema
      /\ UNCHANGED <<com, tty, user, keys, puts>>
  BY DEF LineEnd, MayRun, bounds
<1>2. Weight(call[p]) = 0
  BY <1>1 DEF Weight
<1>3. /\ CallsOK(call') /\ SlotInv(com.count, osema', call')
      /\ osema' \in Semaphores /\ running' \in Actors \cup {NOBODY}
  BY <1>1, <1>2, IdleFact, MovesOn
<1>4. isema' \in Readers /\ QueueLen(isema')
  BY <1>1, Parts, SignalledReaders DEF TtyInv
<1>5. TtyTypeOK'
  BY <1>1, <1>3, <1>4, Parts, PartsAfter DEF CallsOK
<1> QED BY <1>1, <1>3, <1>4, <1>5 DEF TtyInv

LEMMA WordNextStep ==
  ASSUME TtyInv, NEW p \in Actors, WordNext(p)
  PROVE  TtyInv' /\ LineMove(BufferedIn(tty), BufferedIn(tty'))
<1> DEFINE then == call[p].then
           pos  == Back(then.pos, 1)
           d    == [then EXCEPT !.pos = pos]
           e    == Call(RubsOut(tty), d)
<1>1. call[p].at = "next" /\ ~Blocked(p)
  BY DEF WordNext, MayRun
<1>2. UNCHANGED <<com, isema, user, keys, puts>>
  BY DEF WordNext, bounds
<1>3. /\ tty' \in {tty, Erased(tty)}
      /\ GoesOn(p, Idle, osema, FALSE) \/ GoesOn(p, e, osema, FALSE)
  BY DEF WordNext
<1>4. tty \in Buffers /\ call[p] \in Calls
  BY Parts
<1>5. then \in Sequels
  BY <1>4 DEF Calls
<1>6. pos \in InSlots
  <2>1. 1 \in 0 .. IBLEN
    BY TtyAssumption
  <2>2. then.pos \in InSlots
    BY <1>5 DEF Sequels
  <2> QED BY <2>1, <2>2, BackFact
<1>7. d \in Sequels
  BY <1>5, <1>6 DEF Sequels
<1> HIDE DEF d
<1>8. e \in Calls /\ CallOK(e) /\ Weight(e) = 0
  BY <1>7, ShownFact, CallFact
<1> HIDE DEF e
<1>9. Weight(call[p]) = 0
  BY <1>1 DEF Weight
<1>10. /\ CallsOK(call') /\ SlotInv(com.count, osema', call')
       /\ osema' \in Semaphores /\ running' \in Actors \cup {NOBODY}
  <2>1. CASE GoesOn(p, Idle, osema, FALSE)
    BY <1>1, <1>9, <2>1, IdleFact, MovesOn
  <2>2. CASE GoesOn(p, e, osema, FALSE)
    BY <1>1, <1>8, <1>9, <2>2, MovesOn
  <2> QED BY <1>3, <2>1, <2>2
<1>11. tty' \in Buffers /\ LineMove(BufferedIn(tty), BufferedIn(tty'))
  <2>1. LineMove(BufferedIn(tty), BufferedIn(tty))
    BY DEF LineMove
  <2> QED BY <1>3, <1>4, <2>1, ErasedFact, ErasedLine
<1>12. TtyTypeOK'
  BY <1>2, <1>10, <1>11, Parts, PartsAfter DEF CallsOK
<1> QED BY <1>2, <1>10, <1>11, <1>12 DEF TtyInv, QueueLen

LEMMA ReprintNextStep ==
  ASSUME TtyInv, NEW p \in Actors, ReprintNext(p)
  PROVE  TtyInv'
<1> DEFINE then == call[p].then
           d    == Then("reprint", InWrap(then.pos + 1), then.n - 1)
           e    == Call(Echo(tty.in[then.pos]), d)
<1>1. call[p].at = "next" /\ ~Blocked(p)
  BY DEF ReprintNext, MayRun
<1>2. UNCHANGED <<com, tty, isema, user, keys, puts>>
  BY DEF ReprintNext, inputVars, bounds
<1>3. \/ GoesOn(p, Idle, osema, FALSE)
      \/ then.n # 0 /\ GoesOn(p, e, osema, FALSE)
  BY DEF ReprintNext
<1>4. then \in Sequels
  BY Parts DEF Calls
<1>5. Weight(call[p]) = 0
  BY <1>1 DEF Weight
<1>6. CASE GoesOn(p, Idle, osema, FALSE)
  <2>1. /\ CallsOK(call') /\ SlotInv(com.count, osema', call')
        /\ osema' \in Semaphores /\ running' \in Actors \cup {NOBODY}
    BY <1>1, <1>5, <1>6, IdleFact, MovesOn
  <2>2. TtyTypeOK'
    BY <1>2, <2>1, Parts, PartsAfter DEF CallsOK
  <2> QED BY <1>2, <2>1, <2>2 DEF TtyInv, QueueLen
<1>7. CASE then.n # 0 /\ GoesOn(p, e, osema, FALSE)
  <2>1. InWrap(then.pos + 1) \in InSlots /\ then.n - 1 \in Nat
    <3>1. then.pos + 1 \in 0 .. 2 * IBLEN - 1
      BY <1>4, TtyAssumption DEF Sequels, InSlots
    <3> QED BY <1>4, <1>7, <3>1, InWrapFact DEF Sequels
  <2>2. d \in Sequels
    <3> DEFINE i == InWrap(then.pos + 1)
               m == then.n - 1
    <3>1. i \in InSlots /\ m \in Nat
      BY <2>1
    <3> HIDE DEF i, m
    <3>2. Then("reprint", i, m) \in Sequels
      BY <3>1, SequelType
    <3> QED BY <3>2 DEF i, m
  <2> HIDE DEF d
  <2>3. e \in Calls /\ CallOK(e) /\ Weight(e) = 0
    BY <2>2, ShownFact, CallFact
  <2> HIDE DEF e
  <2>4. /\ CallsOK(call') /\ SlotInv(com.count, osema', call')
        /\ osema' \in Semaphores /\ running' \in Actors \cup {NOBODY}
    BY <1>1, <1>5, <1>7, <2>3, MovesOn
  <2>5. TtyTypeOK'
    BY <1>2, <2>4, Parts, PartsAfter DEF CallsOK
  <2> QED BY <1>2, <2>4, <2>5 DEF TtyInv, QueueLen
<1> QED BY <1>3, <1>6, <1>7

----------------------------------------------------------------------------
(* Reading.                                                                *)

LEMMA UserType ==
  ASSUME TtyInv, NEW p \in Procs,
         NEW at \in {"user", "eof", "rwait", "take", "peek"}, NEW n \in Nat,
         Moves(p, In(at, n))
  PROVE  user' \in [Procs -> Places]
<1>1. In(at, n) \in Places
  BY DEF In, Places
<1> QED BY <1>1, Parts DEF Moves

LEMMA TtyreadStep ==
  ASSUME TtyInv, NEW p \in Procs, NEW n \in ReadLens, Ttyread(p, n)
  PROVE  TtyInv'
<1>1. n \in Nat
  BY TtyAssumption
<1>2. Moves(p, In("eof", 0)) \/ Moves(p, In("rwait", n))
  BY DEF Ttyread
<1>3. user' \in [Procs -> Places]
  BY <1>1, <1>2, UserType
<1>4. UNCHANGED <<com, osema, tty, isema, call, running, keys, puts>>
  BY DEF Ttyread, lineVars, inputVars, bounds
<1>5. TtyTypeOK'
  BY <1>3, <1>4, Parts, PartsAfter
<1> QED BY <1>4, <1>5 DEF TtyInv, QueueLen

LEMMA ReadEofStep ==
  ASSUME TtyInv, NEW p \in Procs, ReadEof(p)
  PROVE  TtyInv' /\ LineMove(BufferedIn(tty), BufferedIn(tty'))
<1>1. /\ tty' = [tty EXCEPT !.eof = FALSE] /\ Moves(p, In("user", 0))
      /\ UNCHANGED <<com, osema, isema, call, running, keys, puts>>
  BY DEF ReadEof, lineVars, bounds, AtUser
<1>2. FALSE \in BOOLEAN /\ tty \in Buffers
  BY Parts
<1>3. tty' \in Buffers /\ BufferedIn(tty') = BufferedIn(tty)
  BY <1>1, <1>2, FlagFact, SameLine
<1>4. user' \in [Procs -> Places]
  BY <1>1, UserType
<1>5. TtyTypeOK'
  BY <1>1, <1>3, <1>4, Parts, PartsAfter
<1>6. TtyInv'
  BY <1>1, <1>5 DEF TtyInv, QueueLen
<1> QED BY <1>3, <1>6 DEF LineMove

LEMMA InputWaitsStep ==
  ASSUME TtyInv, NEW p \in Procs, NEW at \in {"take", "peek"}, NEW n \in Nat,
         InputWaits(p, In(at, n))
  PROVE  TtyInv'
<1>1. /\ isema' = Waited(isema, p) /\ running' \in Actors \cup {NOBODY}
      /\ Moves(p, In(at, n))
      /\ UNCHANGED <<com, osema, tty, call, keys, puts>>
  BY DEF InputWaits, lineVars, bounds, Actors
<1>2. user' \in [Procs -> Places]
  BY <1>1, UserType
<1>3. isema' \in Readers /\ QueueLen(isema')
  BY <1>1, Parts, WaitedReaders DEF TtyInv
<1>4. TtyTypeOK'
  BY <1>1, <1>2, <1>3, Parts, PartsAfter
<1> QED BY <1>1, <1>3, <1>4 DEF TtyInv

LEMMA ReadTakeStep ==
  ASSUME TtyInv, NEW p \in Procs, ReadTake(p)
  PROVE  TtyInv' /\ LineMove(BufferedIn(tty), BufferedIn(tty'))
<1> DEFINE n == Obtained(tty, user[p].len)
<1>1. /\ tty' = Taken(tty, n) /\ running' = NOBODY /\ Moves(p, In("user", 0))
      /\ UNCHANGED <<com, osema, isema, call, keys, puts>>
  BY DEF ReadTake, lineVars, bounds, AtUser
<1>2. tty \in Buffers /\ user[p].len \in Nat
  BY Parts DEF Places
<1>3. n \in 0 .. tty.count
  BY <1>2 DEF Obtained, Buffers
<1> HIDE DEF n
<1>4. tty' \in Buffers /\ LineMove(BufferedIn(tty), BufferedIn(tty'))
  BY <1>1, <1>2, <1>3, TakenFact, TakenLine
<1>5. user' \in [Procs -> Places]
  BY <1>1, UserType
<1>6. TtyTypeOK'
  BY <1>1, <1>4, <1>5, Parts, PartsAfter
<1> QED BY <1>1, <1>4, <1>6 DEF TtyInv, QueueLen

LEMMA PeekSignalStep ==
  ASSUME TtyInv, NEW p \in Procs, PeekSignal(p)
  PROVE  TtyInv'
<1>1. /\ isema' = Signalled(isema) /\ running' = NOBODY /\ Moves(p, In("user", 0))
      /\ UNCHANGED <<com, osema, tty, call, keys, puts>>
  BY DEF PeekSignal, lineVars, bounds, AtUser
<1>2. user' \in [Procs -> Places]
  BY <1>1, UserType
<1>3. isema' \in Readers /\ QueueLen(isema')
  BY <1>1, Parts, SignalledReaders DEF TtyInv
<1>4. TtyTypeOK'
  BY <1>1, <1>2, <1>3, Parts, PartsAfter
<1> QED BY <1>1, <1>3, <1>4 DEF TtyInv

----------------------------------------------------------------------------
(* The whole system.                                                       *)

LEMMA InitTtyInv == TtyInit => TtyInv
<1> SUFFICES ASSUME TtyInit PROVE TtyInv
  OBVIOUS
<1> USE DEF TtyInit
<1>1. \A S : << >> \in Seq(S)
  OBVIOUS
<1>2. com \in Rings
  <2>1. 0 \in ComSlots /\ 0 \in 0 .. COMBUFSZ
    BY ComAssumption DEF ComSlots
  <2>2. [s \in ComSlots |-> FALSE] \in [ComSlots -> BOOLEAN]
    OBVIOUS
  <2> QED BY <2>1, <2>2 DEF ComIdle, Rings
<1>3. osema \in Semaphores /\ isema \in Readers /\ COMBUFSZ \in Nat
  <2>1. COMBUFSZ \in Nat
    BY ComAssumption
  <2> QED BY <1>1, <2>1 DEF Semaphore, Semaphores, Readers
<1>4. tty \in Buffers
  <2>1. 0 \in InSlots /\ 0 \in 0 .. IBLEN
    BY TtyAssumption DEF InSlots
  <2>2. [s \in InSlots |-> "nul"] \in [InSlots -> Chars]
    BY DEF Chars
  <2>3. FALSE \in BOOLEAN
    OBVIOUS
  <2> DEFINE b == [s \in InSlots |-> "nul"]
  <2>4. tty = [in |-> b, start |-> 0, count |-> 0, eof |-> FALSE, cr |-> FALSE]
    OBVIOUS
  <2> HIDE DEF b, TtyInit
  <2>5. b \in [InSlots -> Chars]
    BY <2>2 DEF b
  <2> QED BY <2>1, <2>3, <2>4, <2>5 DEF Buffers
<1>5. user \in [Procs -> Places]
  <2>1. AtUser \in Places
    BY DEF AtUser, In, Places
  <2> QED BY <2>1
<1>6. CallsOK(call)
  BY IdleFact DEF CallsOK
<1>7. keys \in 0 .. MaxKeys /\ puts \in 0 .. MaxPuts
  BY TtyAssumption
<1>8. TtyTypeOK
  BY <1>2, <1>3, <1>4, <1>5, <1>6, <1>7
     DEF TtyTypeOK, Rings, Semaphores, Readers, Buffers, Places, CallsOK, Calls,
         Sequels, Outputs
<1>9. SlotInv(com.count, osema, call)
  <2>1. AskedIn(call) = {} /\ TwiceIn(call) = {}
    BY DEF AskedIn, TwiceIn, Idle
  <2>2. Promised(call) = 0
    BY <2>1, FS_EmptySet DEF Promised
  <2>3. com.count = 0 /\ osema.cnt = COMBUFSZ /\ osema.q = << >>
    BY DEF ComIdle, Semaphore
  <2>4. Once(osema.q) /\ WaitingFor(osema) = {} /\ QueueLen(osema)
    BY <1>3, <2>3 DEF Once, WaitingFor, QueueLen
  <2> QED BY <1>3, <2>2, <2>3, <2>4 DEF SlotInv
<1>10. QueueLen(isema)
  BY DEF QueueLen, Semaphore
<1> QED BY <1>6, <1>8, <1>9, <1>10 DEF TtyInv

\* A step keeps the invariant, and moves the line as XinuLine allows.
LEMMA TtyStep ==
  ASSUME TtyInv, [TtyNext]_vars
  PROVE  TtyInv' /\ LineMove(BufferedIn(tty), BufferedIn(tty'))
<1>1. CASE UNCHANGED vars
  <2>1. UNCHANGED <<com, osema, isema, tty, user, call, running, keys, puts>>
    BY <1>1 DEF vars
  <2>2. TtyTypeOK'
    BY <2>1, Parts, PartsAfter
  <2> QED BY <2>1, <2>2 DEF TtyInv, QueueLen, LineMove
<1>2. ASSUME UNCHANGED tty
      PROVE  LineMove(BufferedIn(tty), BufferedIn(tty'))
  BY <1>2 DEF LineMove
<1>3. ASSUME NEW p \in Procs, Begins(p)
      PROVE  TtyInv' /\ UNCHANGED tty
  <2>1. CASE \E c \in {"x", "nl"} : Ttyputc(p, c)
    BY <2>1, TtyputcStep DEF Outputs, Ttyputc, inputVars
  <2>2. CASE \E n \in ReadLens : Ttyread(p, n)
    BY <2>2, TtyreadStep DEF Ttyread, inputVars
  <2>3. CASE Peek(p)
    <3>1. InputWaits(p, In("peek", 0)) /\ UNCHANGED tty
      BY <2>3 DEF Peek, InputWaits
    <3> QED BY <3>1, InputWaitsStep
  <2> QED BY <1>3, <2>1, <2>2, <2>3 DEF Begins
<1>4. ASSUME NEW p \in Procs, Resumes(p)
      PROVE  TtyInv' /\ LineMove(BufferedIn(tty), BufferedIn(tty'))
  <2>1. CASE ReadEof(p)
    BY <2>1, ReadEofStep
  <2>2. CASE ReadWait(p)
    <3>1. InputWaits(p, In("take", user[p].len)) /\ UNCHANGED tty
      BY <2>2 DEF ReadWait, InputWaits
    <3>2. user[p].len \in Nat
      BY Parts DEF Places
    <3> QED BY <1>2, <3>1, <3>2, InputWaitsStep
  <2>3. CASE ReadTake(p)
    BY <2>3, ReadTakeStep
  <2>4. CASE PeekSignal(p)
    BY <1>2, <2>4, PeekSignalStep DEF PeekSignal
  <2> QED BY <1>4, <2>1, <2>2, <2>3, <2>4 DEF Resumes
<1>5. ASSUME NEW p \in Actors, Step(p)
      PROVE  TtyInv' /\ LineMove(BufferedIn(tty), BufferedIn(tty'))
  <2>1. CASE PutWait(p)
    BY <1>2, <2>1, PutWaitStep DEF PutWait, inputVars
  <2>2. CASE PutNewline(p)
    BY <1>2, <2>2, PutNewlineStep DEF PutNewline, inputVars
  <2>3. CASE PutChar(p)
    BY <1>2, <2>3, PutCharStep DEF PutChar, PutEnds, inputVars
  <2>4. CASE PutPair(p)
    BY <1>2, <2>4, PutPairStep DEF PutPair, PutEnds, inputVars
  <2>5. CASE LineEnd(p)
    BY <1>2, <2>5, LineEndStep DEF LineEnd
  <2>6. CASE WordNext(p)
    BY <2>6, WordNextStep
  <2>7. CASE ReprintNext(p)
    BY <1>2, <2>7, ReprintNextStep DEF ReprintNext, inputVars
  <2> QED BY <1>5, <2>1, <2>2, <2>3, <2>4, <2>5, <2>6, <2>7 DEF Step
<1>6. CASE TxDone
  BY <1>2, <1>6, TxDoneStep DEF TxDone, inputVars
<1>7. CASE TxInterrupt
  BY <1>2, <1>7, TxInterruptStep DEF TxInterrupt, inputVars
<1> QED BY <1>1, <1>2, <1>3, <1>4, <1>5, <1>6, <1>7, RxInterruptStep DEF TtyNext

(***************************************************************************)
(* The invariant the other theorems rest on: types, a call that is to put  *)
(* a character has one, and the slots of the ring (SlotInv).               *)
(***************************************************************************)
THEOREM TtyInductive == TtySpec => []TtyInv
<1>1. TtyInit => TtyInv
  BY InitTtyInv
<1>2. TtyInv /\ [TtyNext]_vars => TtyInv'
  BY TtyStep
<1> QED BY <1>1, <1>2, PTL DEF TtySpec

\* The types of ring, input buffer and calls; among them that com_count and
\* tty_icount never exceed the sizes of their buffers.
THEOREM TtyTypes == TtySpec => []TtyTypeOK
<1>1. TtyInv => TtyTypeOK
  BY DEF TtyInv
<1> QED BY <1>1, TtyInductive, PTL

(***************************************************************************)
(* comoutput.c:51 stores without looking whether there is room: whatever   *)
(* writers and handlers wait where, the semaphore, the ring and what has   *)
(* been asked for make up the size of the ring.                            *)
(***************************************************************************)
THEOREM RoomIsCounted == TtySpec => []SpaceCounted
<1>1. TtyInv => SpaceCounted
  <2> SUFFICES ASSUME TtyInv PROVE SpaceCounted
    OBVIOUS
  <2>1. SlotInv(com.count, osema, call)
    BY DEF TtyInv
  <2>2. Asked = AskedIn(call) /\ AskedTwice = TwiceIn(call)
    BY DEF Asked, AskedTwice, AskedIn, TwiceIn
  <2>3. /\ Cardinality(AskedIn(call)) \in Int /\ Cardinality(TwiceIn(call)) \in Int
        /\ com.count \in Int /\ osema.cnt \in Int
    <3>1. IsFiniteSet(AskedIn(call)) /\ IsFiniteSet(TwiceIn(call))
      BY ActorsFinite, FS_Subset DEF AskedIn, TwiceIn
    <3> QED BY <2>1, <3>1, FS_CardinalityType DEF SlotInv, Semaphores
  <2>4. com.count + osema.cnt + Cardinality(Asked) + Cardinality(AskedTwice) = COMBUFSZ
    BY <2>1, <2>2, <2>3 DEF SlotInv, Promised
  <2> QED BY <2>1, <2>4 DEF SlotInv, QueueLen, SpaceCounted
<1> QED BY <1>1, TtyInductive, PTL

(***************************************************************************)
(* The input buffer implements XinuLine: handlers that stand still in the  *)
(* middle of delword or reprint, and readers that take characters in the   *)
(* meantime, never touch a line that has been ended.                       *)
(***************************************************************************)
THEOREM LineIsKept == TtySpec => LineKept
<1>1. TtyInit => Line!LineInit
  <2> SUFFICES ASSUME TtyInit PROVE Buffered = << >>
    BY DEF Line!LineInit
  <2>1. tty.count = 0
    BY DEF TtyInit
  <2> QED BY <2>1 DEF Buffered
<1>2. TtyInv /\ [TtyNext]_vars => [Line!LineNext]_Buffered
  <2> SUFFICES ASSUME TtyInv, [TtyNext]_vars PROVE [Line!LineNext]_Buffered
    OBVIOUS
  <2>1. LineMove(BufferedIn(tty), BufferedIn(tty'))
    BY TtyStep
  <2>2. Buffered = BufferedIn(tty) /\ Buffered' = BufferedIn(tty')
    BY DEF Buffered, BufferedIn
  <2>3. LineMove(Buffered, Buffered')
    BY <2>1, <2>2
  <2> HIDE DEF Buffered
  <2> QED BY <2>3 DEF LineMove, Line!LineNext, Line!Type, Line!Erase, Line!Read
<1> QED BY <1>1, <1>2, TtyInductive, PTL DEF TtySpec, LineKept, Line!LineSpec
==============================================================================
