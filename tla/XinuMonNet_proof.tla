-------------------------- MODULE XinuMonNet_proof --------------------------
(***************************************************************************)
(* The buffers of the boot monitor, for any numbers of buffers, places in  *)
(* the queue, entries of the ARP table and frames on the card, and any     *)
(* hosts.                                                                  *)
(*                                                                         *)
(* Each operation that runs with interrupts disabled is a move: it takes   *)
(* the buffers in the hands of its caller and those it knows, and leaves   *)
(* all of them in the pool, the queue, the table or the hands of whoever   *)
(* goes on.  An operation that calls others composes their moves.          *)
(***************************************************************************)
EXTENDS XinuMonNet, FiniteSetTheorems, SequenceTheorems, WellFoundedInduction,
        TLAPS

ArpRows == [state : {"free", "pending", "resolved"},
            pra : Hosts \union {None}, pep : Buffers]

Nets == [free : Seq(Bufs), outq : Seq(Bufs), ring : 0 .. RING,
         arp : [Entries -> ArpRows]]

Once(q) == \A i, j \in 1 .. Len(q) : q[i] = q[j] => i = j

Held(s) == {s.arp[i].pep : i \in HeldIn(s)}

Lined(s) == Elements(s.free) \union Elements(s.outq)

All(s) == Lined(s) \union Held(s)

\* A buffer that somebody has, if he has one.
Own(b) == {b} \ {None}

(***************************************************************************)
(* The state s, and X in the hands of callers: every buffer is in one      *)
(* place at most.                                                          *)
(***************************************************************************)
Sound(s, X) ==
  /\ s \in Nets
  /\ Once(s.free) /\ Once(s.outq)
  /\ \A i, j \in HeldIn(s) : s.arp[i].pep = s.arp[j].pep => i = j
  /\ Elements(s.free) \cap Elements(s.outq) = {}
  /\ Lined(s) \cap Held(s) = {}
  /\ X \subseteq Bufs /\ X \cap All(s) = {}

\* From s with X in hand to t with Y, and nothing is lost.
Move(s, X, t, Y) == Sound(t, Y) /\ All(t) \union Y = All(s) \union X

----------------------------------------------------------------------------
(* Lists of buffers.                                                       *)

LEMMA LeastNumber ==
  ASSUME NEW T, T \subseteq Nat, T # {}
  PROVE  \E m \in T : \A n \in T : m <= n
<1> DEFINE R == {ss \in Nat \X Nat : ss[1] < ss[2]}
<1>1. OpToRel(<, Nat) = R
  BY Zenon DEF OpToRel
<1>2. IsWellFoundedOn(R, Nat)
  BY NatLessThanWellFounded, <1>1
<1>3. \E x \in T : \A y \in T : ~(<<y, x>> \in R)
  <2> HIDE DEF R
  <2> QED BY <1>2, WFMin
<1>4. PICK x \in T : \A y \in T : ~(<<y, x>> \in R)
  BY <1>3
<1>5. ASSUME NEW y \in T PROVE x <= y
  <2>1. CASE y < x
    <3>1. <<y, x>> \in R
      BY <2>1
    <3>2. QED BY <3>1, <1>4
  <2>2. QED BY <2>1
<1>6. QED BY <1>5

LEMMA LeastEntry ==
  ASSUME NEW T, T \subseteq Entries, T # {}
  PROVE  Least(T) \in T
<1>1. T \subseteq Nat
  BY MonAssumption DEF Entries
<1>2. \E m \in T : \A n \in T : m <= n
  BY <1>1, LeastNumber
<1>3. QED BY <1>2 DEF Least

LEMMA MonFacts ==
  /\ NBUFS \in Nat /\ QMAX \in Nat /\ NBUFS <= QMAX /\ RING \in Nat
  /\ 1 \in Entries /\ Entries \subseteq Nat /\ None \notin Bufs
  /\ \A b \in Buffers : Own(b) \subseteq Bufs
  /\ Own(None) = {} /\ \A b \in Bufs : Own(b) = {b}
<1>1. None \notin Bufs
  BY NoneAssumption
<1>2. /\ NBUFS \in Nat /\ QMAX \in Nat /\ NBUFS <= QMAX /\ RING \in Nat
      /\ 1 \in Entries /\ Entries \subseteq Nat
  BY MonAssumption DEF Entries
<1>3. QED BY <1>1, <1>2 DEF Own, Buffers

LEMMA InElements ==
  ASSUME NEW q \in Seq(Bufs)
  PROVE  /\ Len(q) \in Nat /\ Elements(q) \subseteq Bufs
         /\ \A k \in 1 .. Len(q) : q[k] \in Elements(q)
         /\ q # << >> => Head(q) = q[1] /\ Len(q) > 0
<1>1. Len(q) \in Nat /\ \A k \in 1 .. Len(q) : q[k] \in Bufs
  BY LenProperties, ElementOfSeq
<1>2. q # << >> => Len(q) > 0
  BY <1>1, EmptySeq
<1>3. QED BY <1>1, <1>2 DEF Elements

\* The head goes.
LEMMA ElementsOfTail ==
  ASSUME NEW q \in Seq(Bufs), q # << >>, Once(q)
  PROVE  /\ Tail(q) \in Seq(Bufs) /\ Once(Tail(q))
         /\ Head(q) \in Elements(q)
         /\ Elements(Tail(q)) = Elements(q) \ {Head(q)}
<1>1. Len(q) \in Nat /\ Len(q) > 0 /\ Head(q) = q[1]
  BY InElements
<1>2. PICK r : r = Tail(q)
  OBVIOUS
<1>3. /\ r \in Seq(Bufs) /\ Len(r) = Len(q) - 1
      /\ \A i \in 1 .. Len(r) : r[i] = q[i + 1]
  BY <1>2, HeadTailProperties
<1>4. \A i \in 1 .. Len(r) : i + 1 \in 1 .. Len(q)
  BY <1>1, <1>3
<1>5. Once(r)
  <2>1. ASSUME NEW i \in 1 .. Len(r), NEW j \in 1 .. Len(r), r[i] = r[j] PROVE i = j
    <3>1. q[i + 1] = q[j + 1] /\ i + 1 \in 1 .. Len(q) /\ j + 1 \in 1 .. Len(q)
      BY <1>3, <1>4, <2>1
    <3>2. i + 1 = j + 1
      BY <3>1 DEF Once
    <3>3. QED BY <3>2
  <2>2. QED BY <2>1 DEF Once
<1>6. Elements(r) \subseteq Elements(q) \ {Head(q)}
  <2>1. ASSUME NEW i \in 1 .. Len(r) PROVE r[i] \in Elements(q) /\ r[i] # Head(q)
    <3>1. r[i] = q[i + 1] /\ i + 1 \in 1 .. Len(q) /\ 1 \in 1 .. Len(q) /\ i + 1 # 1
      BY <1>1, <1>3, <1>4
    <3>2. q[i + 1] # q[1]
      BY <3>1 DEF Once
    <3>3. QED BY <1>1, <3>1, <3>2 DEF Elements
  <2>2. QED BY <2>1 DEF Elements
<1>7. Elements(q) \ {Head(q)} \subseteq Elements(r)
  <2>1. ASSUME NEW k \in 1 .. Len(q), q[k] # Head(q) PROVE q[k] \in Elements(r)
    <3>1. k # 1
      BY <1>1, <2>1
    <3>2. k - 1 \in 1 .. Len(r) /\ (k - 1) + 1 = k
      BY <1>1, <1>3, <3>1
    <3>3. r[k - 1] = q[k]
      BY <1>3, <3>2
    <3>4. QED BY <3>2, <3>3 DEF Elements
  <2>2. QED BY <2>1 DEF Elements
<1>8. Head(q) \in Elements(q)
  BY <1>1 DEF Elements
<1>9. QED BY <1>2, <1>3, <1>5, <1>6, <1>7, <1>8

\* Two lists that share nothing, one behind the other.
LEMMA ElementsOfBoth ==
  ASSUME NEW q \in Seq(Bufs), NEW r \in Seq(Bufs), Once(q), Once(r),
         Elements(q) \cap Elements(r) = {}
  PROVE  /\ q \o r \in Seq(Bufs) /\ Once(q \o r)
         /\ Elements(q \o r) = Elements(q) \union Elements(r)
<1>1. PICK t : t = q \o r
  OBVIOUS
<1>2. /\ t \in Seq(Bufs) /\ Len(t) = Len(q) + Len(r)
      /\ \A i \in 1 .. Len(t) : t[i] = IF i <= Len(q) THEN q[i] ELSE r[i - Len(q)]
  BY <1>1, ConcatProperties
<1>3. Len(q) \in Nat /\ Len(r) \in Nat
  BY InElements
<1>4. ASSUME NEW i \in 1 .. Len(t)
      PROVE  \/ i \in 1 .. Len(q) /\ t[i] = q[i]
             \/ i - Len(q) \in 1 .. Len(r) /\ t[i] = r[i - Len(q)]
  BY <1>2, <1>3
<1>5. Once(t)
  <2>1. ASSUME NEW i \in 1 .. Len(t), NEW j \in 1 .. Len(t), t[i] = t[j] PROVE i = j
    <3>1. CASE i \in 1 .. Len(q) /\ t[i] = q[i] /\ j \in 1 .. Len(q) /\ t[j] = q[j]
      BY <2>1, <3>1 DEF Once
    <3>2. CASE /\ i - Len(q) \in 1 .. Len(r) /\ t[i] = r[i - Len(q)]
               /\ j - Len(q) \in 1 .. Len(r) /\ t[j] = r[j - Len(q)]
      <4>1. i - Len(q) = j - Len(q)
        BY <2>1, <3>2 DEF Once
      <4>2. QED BY <1>2, <1>3, <4>1
    <3>3. CASE /\ i \in 1 .. Len(q) /\ t[i] = q[i]
               /\ j - Len(q) \in 1 .. Len(r) /\ t[j] = r[j - Len(q)]
      <4>1. t[i] \in Elements(q) /\ t[j] \in Elements(r)
        BY <3>3, InElements
      <4>2. QED BY <2>1, <4>1
    <3>4. CASE /\ i - Len(q) \in 1 .. Len(r) /\ t[i] = r[i - Len(q)]
               /\ j \in 1 .. Len(q) /\ t[j] = q[j]
      <4>1. t[j] \in Elements(q) /\ t[i] \in Elements(r)
        BY <3>4, InElements
      <4>2. QED BY <2>1, <4>1
    <3>5. QED BY <1>4, <3>1, <3>2, <3>3, <3>4
  <2>2. QED BY <2>1 DEF Once
<1>6. Elements(t) \subseteq Elements(q) \union Elements(r)
  <2>1. ASSUME NEW i \in 1 .. Len(t) PROVE t[i] \in Elements(q) \union Elements(r)
    BY <1>4, InElements
  <2>2. QED BY <2>1 DEF Elements
<1>7. Elements(q) \union Elements(r) \subseteq Elements(t)
  <2>1. ASSUME NEW k \in 1 .. Len(q) PROVE q[k] \in Elements(t)
    <3>1. k \in 1 .. Len(t) /\ t[k] = q[k]
      BY <1>2, <1>3
    <3>2. QED BY <3>1 DEF Elements
  <2>2. ASSUME NEW k \in 1 .. Len(r) PROVE r[k] \in Elements(t)
    <3>1. /\ k + Len(q) \in 1 .. Len(t) /\ ~(k + Len(q) <= Len(q))
          /\ (k + Len(q)) - Len(q) = k
      BY <1>2, <1>3
    <3>2. t[k + Len(q)] = r[k]
      BY <1>2, <3>1
    <3>3. QED BY <3>1, <3>2 DEF Elements
  <2>3. QED BY <2>1, <2>2 DEF Elements
<1>8. QED BY <1>1, <1>2, <1>5, <1>6, <1>7

\* A buffer alone, in front or behind.
LEMMA ElementsOfOne ==
  ASSUME NEW q \in Seq(Bufs), NEW b \in Bufs, Once(q), b \notin Elements(q)
  PROVE  /\ << b >> \o q \in Seq(Bufs) /\ Once(<< b >> \o q)
         /\ Elements(<< b >> \o q) = Elements(q) \union {b}
         /\ Append(q, b) \in Seq(Bufs) /\ Once(Append(q, b))
         /\ Elements(Append(q, b)) = Elements(q) \union {b}
<1>1. PICK r : r = << b >>
  OBVIOUS
<1>2. r \in Seq(Bufs) /\ Len(r) = 1 /\ r[1] = b
  BY <1>1
<1>3. Once(r) /\ Elements(r) = {b}
  <2>1. 1 .. 1 = {1}
    OBVIOUS
  <2>2. QED BY <1>2, <2>1 DEF Once, Elements
<1>4. /\ r \o q \in Seq(Bufs) /\ Once(r \o q)
      /\ Elements(r \o q) = Elements(r) \union Elements(q)
  BY <1>2, <1>3, ElementsOfBoth
<1>5. /\ q \o r \in Seq(Bufs) /\ Once(q \o r)
      /\ Elements(q \o r) = Elements(q) \union Elements(r)
  BY <1>2, <1>3, ElementsOfBoth
<1>6. Append(q, b) = q \o << b >>
  BY AppendIsConcat
<1>7. QED BY <1>1, <1>3, <1>4, <1>5, <1>6

\* The first n go, in the opposite order, in front of another list.
LEMMA ElementsOfSplit ==
  ASSUME NEW q \in Seq(Bufs), NEW n \in Nat, n <= Len(q), Once(q)
  PROVE  LET r == SubSeq(q, n + 1, Len(q))
             t == [i \in 1 .. n |-> q[n + 1 - i]]
         IN  /\ r \in Seq(Bufs) /\ t \in Seq(Bufs) /\ Once(r) /\ Once(t)
             /\ Elements(r) \cap Elements(t) = {}
             /\ Elements(r) \union Elements(t) = Elements(q)
             /\ Len(r) = Len(q) - n
<1> DEFINE r == SubSeq(q, n + 1, Len(q))
           t == [i \in 1 .. n |-> q[n + 1 - i]]
<1>1. Len(q) \in Nat /\ \A k \in 1 .. Len(q) : q[k] \in Bufs
  BY LenProperties, ElementOfSeq
<1>2. /\ r \in Seq(Bufs) /\ Len(r) = Len(q) - n
      /\ \A i \in 1 .. Len(r) : r[i] = q[n + i]
  <2>1. \A i \in n + 1 .. Len(q) : q[i] \in Bufs
    BY <1>1
  <2>2. /\ r \in Seq(Bufs)
        /\ Len(r) = IF n + 1 <= Len(q) THEN Len(q) - (n + 1) + 1 ELSE 0
        /\ \A i \in 1 .. Len(q) - (n + 1) + 1 : r[i] = q[(n + 1) + i - 1]
    BY <1>1, <2>1, n + 1 \in Int, Len(q) \in Int, SubSeqProperties
  <2> HIDE DEF r
  <2>3. Len(r) = Len(q) - n
    BY <1>1, <2>2
  <2>4. ASSUME NEW i \in 1 .. Len(r) PROVE r[i] = q[n + i]
    <3>1. i \in 1 .. Len(q) - (n + 1) + 1 /\ (n + 1) + i - 1 = n + i
      BY <1>1, <2>3
    <3>2. QED BY <2>2, <3>1
  <2>5. QED BY <2>2, <2>3, <2>4
<1>3. /\ t \in Seq(Bufs) /\ Len(t) = n
      /\ \A i \in 1 .. n : t[i] = q[n + 1 - i]
  <2>1. \A i \in 1 .. n : n + 1 - i \in 1 .. Len(q)
    BY <1>1
  <2>2. QED BY <1>1, <2>1
<1> HIDE DEF r, t
<1>4. \A i \in 1 .. Len(r) : n + i \in 1 .. Len(q)
  BY <1>1, <1>2
<1>5. \A i \in 1 .. n : n + 1 - i \in 1 .. Len(q)
  BY <1>1
<1>6. Once(r)
  <2>1. ASSUME NEW i \in 1 .. Len(r), NEW j \in 1 .. Len(r), r[i] = r[j] PROVE i = j
    <3>1. n + i = n + j
      BY <1>2, <1>4, <2>1 DEF Once
    <3>2. QED BY <1>1, <1>2, <3>1
  <2>2. QED BY <2>1 DEF Once
<1>7. Once(t)
  <2>1. ASSUME NEW i \in 1 .. n, NEW j \in 1 .. n, t[i] = t[j] PROVE i = j
    <3>1. n + 1 - i = n + 1 - j
      BY <1>3, <1>5, <2>1 DEF Once
    <3>2. QED BY <3>1
  <2>2. QED BY <1>3, <2>1 DEF Once
<1>8. Elements(r) \cap Elements(t) = {}
  <2>1. ASSUME NEW i \in 1 .. Len(r), NEW j \in 1 .. n, r[i] = t[j] PROVE FALSE
    <3>1. q[n + i] = q[n + 1 - j]
      BY <1>2, <1>3, <2>1
    <3>2. n + i = n + 1 - j
      BY <1>4, <1>5, <3>1 DEF Once
    <3>3. QED BY <1>1, <1>2, <3>2
  <2>2. QED BY <1>3, <2>1 DEF Elements
<1>9. Elements(r) \union Elements(t) \subseteq Elements(q)
  <2>1. \A i \in 1 .. Len(r) : r[i] \in Elements(q)
    BY <1>2, <1>4, InElements
  <2>2. \A i \in 1 .. n : t[i] \in Elements(q)
    BY <1>3, <1>5, InElements
  <2>3. QED BY <1>3, <2>1, <2>2 DEF Elements
<1>10. Elements(q) \subseteq Elements(r) \union Elements(t)
  <2>1. ASSUME NEW k \in 1 .. Len(q) PROVE q[k] \in Elements(r) \union Elements(t)
    <3>1. CASE k <= n
      <4>1. n + 1 - k \in 1 .. n /\ n + 1 - (n + 1 - k) = k
        BY <3>1
      <4>2. t[n + 1 - k] = q[k]
        BY <1>3, <4>1
      <4>3. QED BY <1>3, <4>1, <4>2 DEF Elements
    <3>2. CASE ~(k <= n)
      <4>1. k - n \in 1 .. Len(r) /\ n + (k - n) = k
        BY <1>1, <1>2, <3>2
      <4>2. r[k - n] = q[k]
        BY <1>2, <4>1
      <4>3. QED BY <4>1, <4>2 DEF Elements
    <3>3. QED BY <3>1, <3>2
  <2>2. QED BY <2>1 DEF Elements
<1>11. QED BY <1>2, <1>3, <1>6, <1>7, <1>8, <1>9, <1>10 DEF r, t

LEMMA CountElements ==
  ASSUME NEW q \in Seq(Bufs), Once(q)
  PROVE  IsFiniteSet(Elements(q)) /\ Cardinality(Elements(q)) = Len(q) /\ Len(q) <= NBUFS
<1>1. Len(q) \in Nat /\ \A k \in 1 .. Len(q) : q[k] \in Elements(q)
  BY InElements
<1> DEFINE f == [k \in 1 .. Len(q) |-> q[k]]
<1>2. f \in Bijection(1 .. Len(q), Elements(q))
  <2>1. f \in [1 .. Len(q) -> Elements(q)]
    BY <1>1
  <2>2. \A e \in Elements(q) : \E k \in 1 .. Len(q) : f[k] = e
    BY DEF Elements
  <2>3. \A i, j \in 1 .. Len(q) : f[i] = f[j] => i = j
    BY DEF Once
  <2>4. QED BY <2>1, <2>2, <2>3 DEF Bijection, Injection, Surjection, IsInjective
<1>3. ExistsBijection(1 .. Len(q), Elements(q))
  BY <1>2 DEF ExistsBijection
<1>4. IsFiniteSet(1 .. Len(q)) /\ Cardinality(1 .. Len(q)) = Len(q)
  <2>1. PICK m \in Nat : m = Len(q)
    BY <1>1
  <2>2. /\ IsFiniteSet(1 .. m)
        /\ Cardinality(1 .. m) = IF 1 > m THEN 0 ELSE m - 1 + 1
    BY 1 \in Int, m \in Int, FS_Interval
  <2>3. QED BY <2>1, <2>2
<1>5. IsFiniteSet(Elements(q)) /\ Cardinality(Elements(q)) = Len(q)
  BY <1>3, <1>4, FS_Bijection
<1>6. IsFiniteSet(Bufs) /\ Cardinality(Bufs) = NBUFS
  <2>1. 1 \in Int /\ NBUFS \in Int /\ NBUFS \in Nat
    BY MonFacts
  <2>2. QED BY <2>1, FS_Interval DEF Bufs
<1>7. Cardinality(Elements(q)) <= NBUFS
  BY <1>6, InElements, FS_Subset
<1>8. QED BY <1>5, <1>7

----------------------------------------------------------------------------
(* The operations on the pool, the queue and the card.                     *)

LEMMA NetFields ==
  ASSUME NEW s \in Nets
  PROVE  /\ s.free \in Seq(Bufs) /\ s.outq \in Seq(Bufs) /\ s.ring \in 0 .. RING
         /\ s.arp \in [Entries -> ArpRows]
  BY DEF Nets

LEMMA FreeSet ==
  ASSUME NEW s \in Nets, NEW f \in Seq(Bufs)
  PROVE  LET t == [s EXCEPT !.free = f]
         IN  t \in Nets /\ t.free = f /\ t.outq = s.outq /\ t.arp = s.arp
  BY DEF Nets

LEMMA OutqSet ==
  ASSUME NEW s \in Nets, NEW q \in Seq(Bufs)
  PROVE  LET t == [s EXCEPT !.outq = q]
         IN  t \in Nets /\ t.free = s.free /\ t.outq = q /\ t.arp = s.arp
  BY DEF Nets

LEMMA RingSet ==
  ASSUME NEW s \in Nets, NEW n \in 0 .. RING
  PROVE  LET t == [s EXCEPT !.ring = n]
         IN  t \in Nets /\ t.free = s.free /\ t.outq = s.outq /\ t.arp = s.arp
  BY DEF Nets

LEMMA ArpSet ==
  ASSUME NEW s \in Nets, NEW a \in [Entries -> ArpRows]
  PROVE  LET t == [s EXCEPT !.arp = a]
         IN  t \in Nets /\ t.free = s.free /\ t.outq = s.outq /\ t.arp = a
  BY DEF Nets

LEMMA MovesCompose ==
  ASSUME NEW s, NEW X, NEW t, NEW Y, NEW u, NEW Z, Move(s, X, t, Y), Move(t, Y, u, Z)
  PROVE  Move(s, X, u, Z)
  BY DEF Move

\* The table stays as it is.
LEMMA ListsMove ==
  ASSUME NEW s, NEW X, Sound(s, X), NEW t \in Nets, NEW Y, Y \subseteq Bufs,
         t.arp = s.arp, Once(t.free), Once(t.outq),
         Elements(t.free) \cap Elements(t.outq) = {}, Y \cap Lined(t) = {},
         Lined(t) \union Y = Lined(s) \union X
  PROVE  Move(s, X, t, Y)
<1>1. HeldIn(t) = HeldIn(s) /\ Held(t) = Held(s)
  BY DEF HeldIn, Held
<1>2. \A i, j \in HeldIn(t) : t.arp[i].pep = t.arp[j].pep => i = j
  BY <1>1 DEF Sound
<1>3. Lined(s) \cap Held(s) = {} /\ X \cap All(s) = {}
  BY DEF Sound
<1>4. Lined(t) \cap Held(t) = {} /\ Y \cap All(t) = {}
  BY <1>1, <1>3 DEF All
<1>5. All(t) \union Y = All(s) \union X
  BY <1>1 DEF All
<1>6. QED BY <1>2, <1>4, <1>5 DEF Move, Sound

LEMMA FreebufMove ==
  ASSUME NEW s, NEW X, NEW b \in Buffers, Sound(s, X \union Own(b)),
         X \cap Own(b) = {}
  PROVE  /\ Move(s, X \union Own(b), Freebuf(s, b), X)
         /\ Freebuf(s, b).arp = s.arp
<1>1. CASE b = None
  <2>1. X \union Own(b) = X /\ Freebuf(s, b) = s
    BY <1>1, MonFacts DEF Freebuf
  <2>2. QED BY <2>1 DEF Move
<1>2. CASE b # None
  <2>1. b \in Bufs /\ Own(b) = {b}
    BY <1>2, MonFacts DEF Buffers
  <2>2. /\ s \in Nets /\ Once(s.free) /\ Once(s.outq)
        /\ Elements(s.free) \cap Elements(s.outq) = {}
        /\ b \notin Lined(s) /\ X \cap Lined(s) = {} /\ X \subseteq Bufs
    BY <2>1 DEF Sound, All
  <2>3. s.free \in Seq(Bufs)
    BY <2>2, NetFields
  <2>4. b \notin Elements(s.free) /\ b \notin Elements(s.outq)
    BY <2>2 DEF Lined
  <2>5. PICK f : f = << b >> \o s.free
    OBVIOUS
  <2>6. f \in Seq(Bufs) /\ Once(f) /\ Elements(f) = Elements(s.free) \union {b}
    BY <2>1, <2>2, <2>3, <2>4, <2>5, ElementsOfOne
  <2>7. PICK t : t = [s EXCEPT !.free = f]
    OBVIOUS
  <2>8. t \in Nets /\ t.free = f /\ t.outq = s.outq /\ t.arp = s.arp
    BY <2>2, <2>6, <2>7, FreeSet
  <2>9. Elements(t.free) \cap Elements(t.outq) = {}
    BY <2>2, <2>4, <2>6, <2>8
  <2>10. Lined(t) = Lined(s) \union {b}
    BY <2>6, <2>8 DEF Lined
  <2>11. X \cap Lined(t) = {} /\ Lined(t) \union X = Lined(s) \union (X \union Own(b))
    BY <2>1, <2>2, <2>10
  <2>12. Move(s, X \union Own(b), t, X)
    BY <2>2, <2>6, <2>8, <2>9, <2>11, ListsMove
  <2>13. t = Freebuf(s, b)
    BY <1>2, <2>5, <2>7 DEF Freebuf
  <2>14. QED BY <2>8, <2>12, <2>13
<1>3. QED BY <1>1, <1>2

\* The pool gives a buffer.
LEMMA PoppedMove ==
  ASSUME NEW s, NEW X, Sound(s, X), s.free # << >>
  PROVE  /\ Head(s.free) \in Bufs /\ Head(s.free) \notin X
         /\ Move(s, X, Popped(s), X \union {Head(s.free)})
         /\ Popped(s).arp = s.arp
<1>1. /\ s \in Nets /\ Once(s.free) /\ Once(s.outq)
      /\ Elements(s.free) \cap Elements(s.outq) = {}
      /\ X \cap Lined(s) = {} /\ X \subseteq Bufs
  BY DEF Sound, All
<1>2. s.free \in Seq(Bufs)
  BY <1>1, NetFields
<1>3. PICK f, b : f = Tail(s.free) /\ b = Head(s.free)
  OBVIOUS
<1>4. /\ f \in Seq(Bufs) /\ Once(f) /\ b \in Elements(s.free)
      /\ Elements(f) = Elements(s.free) \ {b}
  BY <1>1, <1>2, <1>3, ElementsOfTail
<1>5. b \in Bufs /\ b \notin X
  BY <1>1, <1>2, <1>4, InElements DEF Lined
<1>6. PICK t : t = [s EXCEPT !.free = f]
  OBVIOUS
<1>7. t \in Nets /\ t.free = f /\ t.outq = s.outq /\ t.arp = s.arp
  BY <1>1, <1>4, <1>6, FreeSet
<1>8. Elements(t.free) \cap Elements(t.outq) = {}
  BY <1>1, <1>4, <1>7
<1>9. b \notin Lined(t) /\ Lined(t) \union {b} = Lined(s)
  BY <1>1, <1>4, <1>7 DEF Lined
<1>10. /\ (X \union {b}) \cap Lined(t) = {} /\ X \union {b} \subseteq Bufs
       /\ Lined(t) \union (X \union {b}) = Lined(s) \union X
  BY <1>1, <1>5, <1>9
<1>11. Move(s, X, t, X \union {b})
  BY <1>1, <1>4, <1>7, <1>8, <1>10, ListsMove
<1>12. t = Popped(s)
  BY <1>3, <1>6 DEF Popped
<1>13. QED BY <1>3, <1>5, <1>7, <1>11, <1>12

LEMMA EnqMove ==
  ASSUME NEW s, NEW X, NEW b \in Bufs, b \notin X, Sound(s, X \union {b})
  PROVE  /\ Move(s, X \union {b}, Enq(s, b), X)
         /\ Enq(s, b).arp = s.arp
<1>1. /\ s \in Nets /\ Once(s.free) /\ Once(s.outq)
      /\ Elements(s.free) \cap Elements(s.outq) = {}
      /\ b \notin Lined(s) /\ X \cap Lined(s) = {} /\ X \subseteq Bufs
  BY DEF Sound, All
<1>2. s.outq \in Seq(Bufs)
  BY <1>1, NetFields
<1>3. b \notin Elements(s.free) /\ b \notin Elements(s.outq)
  BY <1>1 DEF Lined
<1>4. PICK q : q = Append(s.outq, b)
  OBVIOUS
<1>5. q \in Seq(Bufs) /\ Once(q) /\ Elements(q) = Elements(s.outq) \union {b}
  BY <1>1, <1>2, <1>3, <1>4, ElementsOfOne
<1>6. PICK t : t = [s EXCEPT !.outq = q]
  OBVIOUS
<1>7. t \in Nets /\ t.free = s.free /\ t.outq = q /\ t.arp = s.arp
  BY <1>1, <1>5, <1>6, OutqSet
<1>8. Elements(t.free) \cap Elements(t.outq) = {}
  BY <1>1, <1>3, <1>5, <1>7
<1>9. Lined(t) = Lined(s) \union {b}
  BY <1>5, <1>7 DEF Lined
<1>10. X \cap Lined(t) = {} /\ Lined(t) \union X = Lined(s) \union (X \union {b})
  BY <1>1, <1>9
<1>11. Move(s, X \union {b}, t, X)
  BY <1>1, <1>5, <1>7, <1>8, <1>10, ListsMove
<1>12. t = Enq(s, b)
  BY <1>4, <1>6 DEF Enq
<1>13. QED BY <1>7, <1>11, <1>12

\* What fits goes to the card, and its buffers to the pool.
LEMMA WstrtMove ==
  ASSUME NEW s, NEW X, Sound(s, X)
  PROVE  /\ Move(s, X, Wstrt(s), X)
         /\ Wstrt(s).arp = s.arp
<1>1. /\ s \in Nets /\ Once(s.free) /\ Once(s.outq)
      /\ Elements(s.free) \cap Elements(s.outq) = {}
      /\ X \cap Lined(s) = {} /\ X \subseteq Bufs
  BY DEF Sound, All
<1>2. s.free \in Seq(Bufs) /\ s.outq \in Seq(Bufs) /\ s.ring \in 0 .. RING
  BY <1>1, NetFields
<1>3. PICK n : n = IF Len(s.outq) <= RING - s.ring THEN Len(s.outq) ELSE RING - s.ring
  OBVIOUS
<1>4. n \in Nat /\ n <= Len(s.outq) /\ s.ring + n \in 0 .. RING
  <2>1. Len(s.outq) \in Nat /\ RING \in Nat /\ s.ring \in Nat /\ s.ring <= RING
    BY <1>2, InElements, MonFacts
  <2>2. PICK o, r, z \in Nat : o = Len(s.outq) /\ r = RING /\ z = s.ring
    BY <2>1
  <2>3. n = IF o <= r - z THEN o ELSE r - z
    BY <1>3, <2>2
  <2>4. z <= r
    BY <2>1, <2>2
  <2>5. n \in Nat /\ n <= o /\ z + n \in 0 .. r
    BY <2>3, <2>4
  <2>6. QED BY <2>2, <2>5
<1>5. PICK q, h : q = SubSeq(s.outq, n + 1, Len(s.outq)) /\ h = [i \in 1 .. n |-> s.outq[n + 1 - i]]
  OBVIOUS
<1>6. /\ q \in Seq(Bufs) /\ h \in Seq(Bufs) /\ Once(q) /\ Once(h)
      /\ Elements(q) \cap Elements(h) = {}
      /\ Elements(q) \union Elements(h) = Elements(s.outq)
  <2>1. LET r == SubSeq(s.outq, n + 1, Len(s.outq))
            t == [i \in 1 .. n |-> s.outq[n + 1 - i]]
        IN  /\ r \in Seq(Bufs) /\ t \in Seq(Bufs) /\ Once(r) /\ Once(t)
            /\ Elements(r) \cap Elements(t) = {}
            /\ Elements(r) \union Elements(t) = Elements(s.outq)
            /\ Len(r) = Len(s.outq) - n
    BY <1>1, <1>2, <1>4, ElementsOfSplit
  <2>2. QED BY <1>5, <2>1
<1>7. Elements(h) \cap Elements(s.free) = {}
  BY <1>1, <1>6
<1>8. PICK f : f = h \o s.free
  OBVIOUS
<1>9. f \in Seq(Bufs) /\ Once(f) /\ Elements(f) = Elements(h) \union Elements(s.free)
  BY <1>1, <1>2, <1>6, <1>7, <1>8, ElementsOfBoth
<1>10. PICK t : t = [s EXCEPT !.outq = q, !.ring = s.ring + n, !.free = f]
  OBVIOUS
<1>11. t \in Nets /\ t.free = f /\ t.outq = q /\ t.arp = s.arp
  <2>1. PICK m : m = s.ring + n
    OBVIOUS
  <2>2. QED BY <1>1, <1>4, <1>6, <1>9, <1>10, <2>1 DEF Nets
<1>12. Elements(t.free) \cap Elements(t.outq) = {}
  BY <1>1, <1>6, <1>9, <1>11
<1>13. Lined(t) = Lined(s)
  BY <1>6, <1>9, <1>11 DEF Lined
<1>14. X \cap Lined(t) = {} /\ Lined(t) \union X = Lined(s) \union X
  BY <1>1, <1>13
<1>15. Move(s, X, t, X)
  BY <1>1, <1>6, <1>9, <1>11, <1>12, <1>14, ListsMove
<1>16. t = Wstrt(s)
  BY <1>3, <1>5, <1>8, <1>10 DEF Wstrt
<1>17. QED BY <1>11, <1>15, <1>16

LEMMA EthwriteMove ==
  ASSUME NEW s, NEW X, NEW b \in Bufs, b \notin X, Sound(s, X \union {b})
  PROVE  /\ Move(s, X \union {b}, Ethwrite(s, b), X)
         /\ Ethwrite(s, b).arp = s.arp
<1>1. PICK t : t = IF Len(s.outq) >= QMAX THEN Freebuf(s, b) ELSE Enq(s, b)
  OBVIOUS
<1>2. Move(s, X \union {b}, t, X) /\ t.arp = s.arp
  <2>1. CASE Len(s.outq) >= QMAX
    <3>1. Own(b) = {b} /\ b \in Buffers /\ X \cap Own(b) = {}
      BY MonFacts DEF Buffers
    <3>2. /\ Move(s, X \union Own(b), Freebuf(s, b), X) /\ Freebuf(s, b).arp = s.arp
      BY <3>1, FreebufMove
    <3>3. QED BY <1>1, <2>1, <3>1, <3>2
  <2>2. CASE ~(Len(s.outq) >= QMAX)
    BY <1>1, <2>2, EnqMove
  <2>3. QED BY <2>1, <2>2
<1>3. Move(t, X, Wstrt(t), X) /\ Wstrt(t).arp = t.arp
  BY <1>2, WstrtMove DEF Move
<1>4. Wstrt(t) = Ethwrite(s, b)
  BY <1>1 DEF Ethwrite
<1>5. QED BY <1>2, <1>3, <1>4, MovesCompose

LEMMA ArpsendMove ==
  ASSUME NEW s, NEW X, Sound(s, X), s.free # << >>
  PROVE  /\ Move(s, X, Arpsend(s), X)
         /\ Arpsend(s).arp = s.arp
<1>1. PICK t, b : t = Popped(s) /\ b = Head(s.free)
  OBVIOUS
<1>2. b \in Bufs /\ b \notin X /\ Move(s, X, t, X \union {b}) /\ t.arp = s.arp
  BY <1>1, PoppedMove
<1>3. Move(t, X \union {b}, Ethwrite(t, b), X) /\ Ethwrite(t, b).arp = t.arp
  BY <1>2, EthwriteMove DEF Move
<1>4. Ethwrite(t, b) = Arpsend(s)
  BY <1>1 DEF Arpsend
<1>5. QED BY <1>2, <1>3, <1>4, MovesCompose

----------------------------------------------------------------------------
(* The operations on the ARP table.  Only a full one loses a packet.       *)

\* The first entry of a full table, and its packet, give way to another.
Evicted(s, t) == /\ \A i \in Entries : s.arp[i].state # "free"
                 /\ 1 \in HeldIn(s) /\ t.arp[1].pra # s.arp[1].pra

Step(s, X, t, Y) ==
  Sound(t, Y) /\ (All(s) \union X \subseteq All(t) \union Y \/ Evicted(s, t))

LEMMA SoundLess ==
  ASSUME NEW s, NEW X, NEW Y, Sound(s, X), Y \subseteq X
  PROVE  Sound(s, Y)
  BY DEF Sound

LEMMA SameTable ==
  ASSUME NEW s, NEW t, t.arp = s.arp
  PROVE  /\ HeldIn(t) = HeldIn(s) /\ Held(t) = Held(s) /\ Slot(t) = Slot(s)
         /\ \A h : /\ Found(t, h) = Found(s, h) /\ Resolved(t, h) = Resolved(s, h)
                   /\ Refused(t, h) = Refused(s, h)
<1>1. HeldIn(t) = HeldIn(s) /\ Slot(t) = Slot(s) /\ \A h : Found(t, h) = Found(s, h)
  BY DEF HeldIn, Slot, Found
<1>2. QED BY <1>1 DEF Held, Resolved, Refused

LEMMA MoveIsStep ==
  ASSUME NEW s, NEW X, NEW t, NEW Y, Move(s, X, t, Y)
  PROVE  Step(s, X, t, Y)
  BY DEF Move, Step

LEMMA StepThenMove ==
  ASSUME NEW s, NEW X, NEW t, NEW Y, NEW u, NEW Z,
         Step(s, X, t, Y), Move(t, Y, u, Z), u.arp = t.arp
  PROVE  Step(s, X, u, Z)
<1>1. Sound(u, Z) /\ All(u) \union Z = All(t) \union Y
  BY DEF Move
<1>2. QED BY <1>1 DEF Step, Evicted

LEMMA MoveThenStep ==
  ASSUME NEW s, NEW X, NEW t, NEW Y, NEW u, NEW Z,
         Move(s, X, t, Y), t.arp = s.arp, Step(t, Y, u, Z)
  PROVE  Step(s, X, u, Z)
<1>1. All(t) \union Y = All(s) \union X
  BY DEF Move
<1>2. HeldIn(t) = HeldIn(s)
  BY SameTable
<1>3. QED BY <1>1, <1>2 DEF Step, Evicted

\* One entry changes.
LEMMA EntrySet ==
  ASSUME NEW s \in Nets, NEW i \in Entries, NEW row \in ArpRows
  PROVE  LET t == [s EXCEPT !.arp[i] = row]
         IN  /\ t \in Nets /\ t.free = s.free /\ t.outq = s.outq
             /\ t.arp[i] = row /\ \A j \in Entries : j # i => t.arp[j] = s.arp[j]
             /\ t.arp = [s.arp EXCEPT ![i] = row]
<1>1. s.arp \in [Entries -> ArpRows]
  BY NetFields
<1>2. PICK a : a = [s.arp EXCEPT ![i] = row]
  OBVIOUS
<1>3. a \in [Entries -> ArpRows] /\ a[i] = row /\ \A j \in Entries : j # i => a[j] = s.arp[j]
  BY <1>1, <1>2
<1>4. PICK t : t = [s EXCEPT !.arp = a]
  OBVIOUS
<1>5. t \in Nets /\ t.free = s.free /\ t.outq = s.outq /\ t.arp = a
  BY <1>3, <1>4, ArpSet
<1>6. t = [s EXCEPT !.arp[i] = row]
  BY <1>2, <1>4
<1>7. QED BY <1>2, <1>3, <1>5, <1>6

\* The packet of an entry passes into the hands of the caller.
LEMMA EntryDrop ==
  ASSUME NEW s, NEW X, Sound(s, X), NEW i \in Entries, NEW row \in ArpRows,
         row.pep = None
  PROVE  LET t == [s EXCEPT !.arp[i] = row]
             P == IF i \in HeldIn(s) THEN {s.arp[i].pep} ELSE {}
         IN  Move(s, X, t, X \union P) /\ X \cap P = {} /\ i \notin HeldIn(t)
             /\ t.arp = [s.arp EXCEPT ![i] = row]
<1>1. /\ s \in Nets /\ Once(s.free) /\ Once(s.outq)
      /\ \A j, k \in HeldIn(s) : s.arp[j].pep = s.arp[k].pep => j = k
      /\ Elements(s.free) \cap Elements(s.outq) = {}
      /\ Lined(s) \cap Held(s) = {}
      /\ X \subseteq Bufs /\ X \cap (Lined(s) \union Held(s)) = {}
  BY DEF Sound, All
<1>2. PICK t : t = [s EXCEPT !.arp[i] = row]
  OBVIOUS
<1>3. PICK P : P = IF i \in HeldIn(s) THEN {s.arp[i].pep} ELSE {}
  OBVIOUS
<1>4. /\ t \in Nets /\ t.free = s.free /\ t.outq = s.outq
      /\ t.arp[i] = row /\ \A j \in Entries : j # i => t.arp[j] = s.arp[j]
      /\ t.arp = [s.arp EXCEPT ![i] = row]
  <2>1. LET u == [s EXCEPT !.arp[i] = row]
        IN  /\ u \in Nets /\ u.free = s.free /\ u.outq = s.outq
            /\ u.arp[i] = row /\ \A j \in Entries : j # i => u.arp[j] = s.arp[j]
            /\ u.arp = [s.arp EXCEPT ![i] = row]
    BY <1>1, EntrySet
  <2>2. QED BY <1>2, <2>1
<1>5. HeldIn(t) = HeldIn(s) \ {i}
  BY <1>4 DEF HeldIn
<1>6. \A j \in HeldIn(s) : j \in Entries /\ s.arp[j].pep \in Held(s)
  BY DEF HeldIn, Held
<1>7. \A j \in HeldIn(t) : j \in HeldIn(s) /\ j # i /\ t.arp[j].pep = s.arp[j].pep
  BY <1>4, <1>5, <1>6
<1>8. Held(t) = Held(s) \ P
  <2>1. Held(t) \subseteq Held(s) \ P
    <3>1. ASSUME NEW j \in HeldIn(t) PROVE t.arp[j].pep \in Held(s) \ P
      <4>1. s.arp[j].pep \in Held(s) /\ t.arp[j].pep = s.arp[j].pep
        BY <1>6, <1>7
      <4>2. i \in HeldIn(s) => s.arp[j].pep # s.arp[i].pep
        BY <1>1, <1>7
      <4>3. QED BY <1>3, <4>1, <4>2
    <3>2. QED BY <3>1 DEF Held
  <2>2. Held(s) \ P \subseteq Held(t)
    <3>1. ASSUME NEW j \in HeldIn(s), s.arp[j].pep \notin P PROVE s.arp[j].pep \in Held(t)
      <4>1. j # i
        BY <1>3, <3>1
      <4>2. j \in HeldIn(t) /\ t.arp[j].pep = s.arp[j].pep
        BY <1>5, <1>7, <4>1
      <4>3. QED BY <4>2 DEF Held
    <3>2. QED BY <3>1 DEF Held
  <2>3. QED BY <2>1, <2>2
<1>9. P \subseteq Held(s) /\ P \subseteq Bufs
  <2>1. ASSUME i \in HeldIn(s) PROVE s.arp[i].pep \in Bufs
    <3>1. s.arp[i].pep # None /\ s.arp[i] \in ArpRows
      BY <1>1, <2>1, NetFields DEF HeldIn
    <3>2. QED BY <3>1 DEF ArpRows, Buffers
  <2>2. QED BY <1>3, <1>6, <2>1
<1>10. Lined(t) = Lined(s)
  BY <1>4 DEF Lined
<1>11. \A j, k \in HeldIn(t) : t.arp[j].pep = t.arp[k].pep => j = k
  BY <1>1, <1>7
<1>12. X \cap P = {}
  BY <1>1, <1>9
<1>13. Lined(t) \cap Held(t) = {} /\ (X \union P) \cap (Lined(t) \union Held(t)) = {}
  BY <1>1, <1>8, <1>9, <1>10
<1>14. Sound(t, X \union P)
  BY <1>1, <1>4, <1>9, <1>11, <1>13 DEF Sound, All
<1>15. All(t) \union (X \union P) = All(s) \union X
  BY <1>8, <1>9, <1>10 DEF All
<1>16. Move(s, X, t, X \union P)
  BY <1>14, <1>15 DEF Move
<1>17. i \notin HeldIn(t)
  BY <1>5
<1>18. QED BY <1>2, <1>3, <1>4, <1>12, <1>16, <1>17

\* An entry that holds no packet takes one.
LEMMA EntryPut ==
  ASSUME NEW s, NEW X, NEW b \in Bufs, b \notin X, Sound(s, X \union {b}),
         NEW i \in Entries, i \notin HeldIn(s),
         NEW row \in ArpRows, row.pep = b, row.state # "free"
  PROVE  LET t == [s EXCEPT !.arp[i] = row]
         IN  Move(s, X \union {b}, t, X) /\ t.arp = [s.arp EXCEPT ![i] = row]
<1>1. /\ s \in Nets /\ Once(s.free) /\ Once(s.outq)
      /\ \A j, k \in HeldIn(s) : s.arp[j].pep = s.arp[k].pep => j = k
      /\ Elements(s.free) \cap Elements(s.outq) = {}
      /\ Lined(s) \cap Held(s) = {}
      /\ X \subseteq Bufs /\ X \cap (Lined(s) \union Held(s)) = {}
      /\ b \notin Lined(s) \union Held(s)
  BY DEF Sound, All
<1>2. PICK t : t = [s EXCEPT !.arp[i] = row]
  OBVIOUS
<1>3. /\ t \in Nets /\ t.free = s.free /\ t.outq = s.outq
      /\ t.arp[i] = row /\ \A j \in Entries : j # i => t.arp[j] = s.arp[j]
      /\ t.arp = [s.arp EXCEPT ![i] = row]
  <2>1. LET u == [s EXCEPT !.arp[i] = row]
        IN  /\ u \in Nets /\ u.free = s.free /\ u.outq = s.outq
            /\ u.arp[i] = row /\ \A j \in Entries : j # i => u.arp[j] = s.arp[j]
            /\ u.arp = [s.arp EXCEPT ![i] = row]
    BY <1>1, EntrySet
  <2>2. QED BY <1>2, <2>1
<1>4. b # None
  BY MonFacts
<1>5. HeldIn(t) = HeldIn(s) \union {i}
  BY <1>3, <1>4 DEF HeldIn
<1>6. \A j \in HeldIn(s) : /\ j # i /\ s.arp[j].pep \in Held(s)
                           /\ t.arp[j].pep = s.arp[j].pep
  BY <1>3 DEF HeldIn, Held
<1>7. Held(t) = Held(s) \union {b}
  <2>1. t.arp[i].pep = b
    BY <1>3
  <2>2. Held(t) \subseteq Held(s) \union {b}
    BY <1>5, <1>6, <2>1 DEF Held
  <2>3. Held(s) \subseteq Held(t)
    BY <1>5, <1>6 DEF Held
  <2>4. b \in Held(t)
    BY <1>5, <2>1 DEF Held
  <2>5. QED BY <2>2, <2>3, <2>4
<1>8. \A j, k \in HeldIn(t) : t.arp[j].pep = t.arp[k].pep => j = k
  <2>1. ASSUME NEW j \in HeldIn(t), NEW k \in HeldIn(t), t.arp[j].pep = t.arp[k].pep
        PROVE  j = k
    <3>1. CASE j \in HeldIn(s) /\ k \in HeldIn(s)
      BY <1>1, <1>6, <2>1, <3>1
    <3>2. CASE j \in HeldIn(s) /\ k = i
      <4>1. t.arp[j].pep \in Held(s) /\ t.arp[k].pep = b
        BY <1>3, <1>6, <3>2
      <4>2. QED BY <1>1, <2>1, <4>1
    <3>3. CASE j = i /\ k \in HeldIn(s)
      <4>1. t.arp[k].pep \in Held(s) /\ t.arp[j].pep = b
        BY <1>3, <1>6, <3>3
      <4>2. QED BY <1>1, <2>1, <4>1
    <3>4. QED BY <1>5, <3>1, <3>2, <3>3
  <2>2. QED BY <2>1
<1>9. Lined(t) = Lined(s)
  BY <1>3 DEF Lined
<1>10. Lined(t) \cap Held(t) = {} /\ X \cap (Lined(t) \union Held(t)) = {}
  BY <1>1, <1>7, <1>9
<1>11. Sound(t, X)
  BY <1>1, <1>3, <1>8, <1>10 DEF Sound, All
<1>12. All(t) \union X = All(s) \union (X \union {b})
  BY <1>7, <1>9 DEF All
<1>13. Move(s, X \union {b}, t, X)
  BY <1>11, <1>12 DEF Move
<1>14. QED BY <1>2, <1>3, <1>13

LEMMA SlotFacts ==
  ASSUME NEW s
  PROVE  /\ Slot(s) \in Entries
         /\ s.arp[Slot(s)].state # "free" =>
              Slot(s) = 1 /\ \A i \in Entries : s.arp[i].state # "free"
<1>1. PICK F : F = {i \in Entries : s.arp[i].state = "free"}
  OBVIOUS
<1>2. CASE F = {}
  <2>1. Slot(s) = 1
    BY <1>1, <1>2 DEF Slot
  <2>2. QED BY <1>1, <1>2, <2>1, MonFacts
<1>3. CASE F # {}
  <2>1. Slot(s) = Least(F)
    BY <1>1, <1>3 DEF Slot
  <2>2. Least(F) \in F
    BY <1>1, <1>3, LeastEntry
  <2>3. QED BY <1>1, <2>1, <2>2
<1>4. QED BY <1>2, <1>3

\* A row at the place of another, when the entry is found or else allocated.
Put(s, i, row) == [s EXCEPT !.arp[i] = row]

LEMMA SameRow ==
  ASSUME NEW s \in Nets, NEW i \in Entries, NEW e \in ArpRows, NEW row \in ArpRows,
         NEW p
  PROVE  Put(Freebuf(Put(s, i, e), p), i, row) = Put(Freebuf(s, p), i, row)
<1>1. s.arp \in [Entries -> ArpRows]
  BY NetFields
<1>2. [[s.arp EXCEPT ![i] = e] EXCEPT ![i] = row] = [s.arp EXCEPT ![i] = row]
  BY <1>1
<1>3. CASE p = None
  <2>1. [[s EXCEPT !.arp[i] = e] EXCEPT !.arp[i] = row] = [s EXCEPT !.arp[i] = row]
    BY <1>2 DEF Nets
  <2>2. QED BY <1>3, <2>1 DEF Freebuf, Put
<1>4. CASE p # None
  <2>1. PICK f : f = << p >> \o s.free
    OBVIOUS
  <2>2. [s EXCEPT !.arp[i] = e].free = s.free
    BY DEF Nets
  <2>3. [[[s EXCEPT !.arp[i] = e] EXCEPT !.free = f] EXCEPT !.arp[i] = row]
          = [[s EXCEPT !.free = f] EXCEPT !.arp[i] = row]
    BY <1>2 DEF Nets
  <2>4. Freebuf([s EXCEPT !.arp[i] = e], p) = [[s EXCEPT !.arp[i] = e] EXCEPT !.free = f]
    BY <1>4, <2>1, <2>2 DEF Freebuf
  <2>5. Freebuf(s, p) = [s EXCEPT !.free = f]
    BY <1>4, <2>1 DEF Freebuf
  <2>6. QED BY <2>3, <2>4, <2>5 DEF Put
<1>5. QED BY <1>3, <1>4

LEMMA HoldStep ==
  ASSUME NEW s, NEW X, NEW b \in Bufs, b \notin X, Sound(s, X \union {b}),
         NEW h \in Hosts
  PROVE  Step(s, X \union {b}, Hold(s, b, h), X)
<1>1. PICK i : i = IF Found(s, h) # {} THEN Least(Found(s, h)) ELSE Slot(s)
  OBVIOUS
<1>2. PICK row, e : /\ row = [state |-> "pending", pra |-> h, pep |-> b]
                    /\ e = [state |-> "pending", pra |-> h, pep |-> None]
  OBVIOUS
<1>3. row \in ArpRows /\ e \in ArpRows
  BY <1>2 DEF ArpRows, Buffers
<1>4. Found(s, h) \subseteq Entries
  BY DEF Found
<1>5. i \in Entries
  BY <1>1, <1>4, LeastEntry, SlotFacts
<1>6. s \in Nets
  BY DEF Sound
<1>7. PICK u, P : /\ u = [s EXCEPT !.arp[i] = e]
                  /\ P = IF i \in HeldIn(s) THEN {s.arp[i].pep} ELSE {}
  OBVIOUS
<1>8. /\ Move(s, X \union {b}, u, (X \union {b}) \union P)
      /\ (X \union {b}) \cap P = {} /\ i \notin HeldIn(u)
      /\ u.arp = [s.arp EXCEPT ![i] = e]
  <2>1. e.pep = None
    BY <1>2
  <2>2. LET t == [s EXCEPT !.arp[i] = e]
            Q == IF i \in HeldIn(s) THEN {s.arp[i].pep} ELSE {}
        IN  /\ Move(s, X \union {b}, t, (X \union {b}) \union Q)
            /\ (X \union {b}) \cap Q = {} /\ i \notin HeldIn(t)
            /\ t.arp = [s.arp EXCEPT ![i] = e]
    BY <1>3, <1>5, <2>1, EntryDrop
  <2>3. QED BY <1>7, <2>2
<1>9. row.pep = b /\ row.state # "free" /\ row.pra = h
  BY <1>2
<1>10. CASE Found(s, h) # {}
  <2>1. i \in Found(s, h)
    BY <1>1, <1>4, <1>10, LeastEntry
  <2>2. PICK p : p = s.arp[i].pep
    OBVIOUS
  <2>3. P = Own(p) /\ p \in Buffers
    <3>1. s.arp[i].state # "free" /\ s.arp[i] \in ArpRows
      BY <1>5, <1>6, <2>1, NetFields DEF Found
    <3>2. i \in HeldIn(s) <=> p # None
      BY <1>5, <2>2, <3>1 DEF HeldIn
    <3>3. QED BY <1>7, <2>2, <3>1, <3>2 DEF Own, ArpRows
  <2>4. PICK v : v = Freebuf(u, p)
    OBVIOUS
  <2>5. Move(u, (X \union {b}) \union P, v, X \union {b}) /\ v.arp = u.arp
    BY <1>8, <2>3, <2>4, FreebufMove DEF Move
  <2>6. i \notin HeldIn(v)
    BY <1>8, <2>5, SameTable
  <2>7. PICK w : w = [v EXCEPT !.arp[i] = row]
    OBVIOUS
  <2>8. Move(v, X \union {b}, w, X)
    <3>1. LET t == [v EXCEPT !.arp[i] = row]
          IN  Move(v, X \union {b}, t, X) /\ t.arp = [v.arp EXCEPT ![i] = row]
      BY <1>3, <1>5, <1>9, <2>5, <2>6, EntryPut DEF Move
    <3>2. QED BY <2>7, <3>1
  <2>9. w = [Freebuf(s, p) EXCEPT !.arp[i] = row]
    <3>1. Put(Freebuf(Put(s, i, e), p), i, row) = Put(Freebuf(s, p), i, row)
      BY <1>3, <1>5, <1>6, SameRow
    <3>2. u = Put(s, i, e) /\ w = Put(Freebuf(u, p), i, row)
      BY <1>7, <2>4, <2>7 DEF Put
    <3>3. w = Put(Freebuf(s, p), i, row)
      BY <3>1, <3>2
    <3>4. QED BY <3>3 DEF Put
  <2>10. w = Hold(s, b, h)
    BY <1>1, <1>2, <1>10, <2>2, <2>9 DEF Hold
  <2>11. Move(s, X \union {b}, w, X)
    BY <1>8, <2>5, <2>8, MovesCompose
  <2>12. QED BY <2>10, <2>11, MoveIsStep
<1>11. CASE Found(s, h) = {}
  <2>1. i = Slot(s)
    BY <1>1, <1>11
  <2>2. Sound(u, X \union {b})
    BY <1>8, SoundLess DEF Move
  <2>3. PICK w : w = [u EXCEPT !.arp[i] = row]
    OBVIOUS
  <2>4. Move(u, X \union {b}, w, X) /\ w.arp = [u.arp EXCEPT ![i] = row]
    <3>1. LET t == [u EXCEPT !.arp[i] = row]
          IN  Move(u, X \union {b}, t, X) /\ t.arp = [u.arp EXCEPT ![i] = row]
      BY <1>3, <1>5, <1>8, <1>9, <2>2, EntryPut
    <3>2. QED BY <2>3, <3>1
  <2>5. w = Hold(s, b, h)
    <3>1. w = [Freebuf(u, None) EXCEPT !.arp[i] = row]
      BY <2>3 DEF Freebuf
    <3>2. w = [Freebuf(s, None) EXCEPT !.arp[i] = row]
      <4>1. Put(Freebuf(Put(s, i, e), None), i, row) = Put(Freebuf(s, None), i, row)
        BY <1>3, <1>5, <1>6, SameRow
      <4>2. u = Put(s, i, e) /\ w = Put(Freebuf(u, None), i, row)
        BY <1>7, <3>1 DEF Put
      <4>3. w = Put(Freebuf(s, None), i, row)
        BY <4>1, <4>2
      <4>4. QED BY <4>3 DEF Put
    <3>3. QED BY <1>1, <1>2, <1>11, <3>2 DEF Hold
  <2>6. CASE i \notin HeldIn(s)
    <3>1. (X \union {b}) \union P = X \union {b}
      BY <1>7, <2>6
    <3>2. Move(s, X \union {b}, w, X)
      BY <1>8, <2>4, <3>1, MovesCompose
    <3>3. QED BY <2>5, <3>2, MoveIsStep
  <2>7. CASE i \in HeldIn(s)
    <3>1. s.arp[i].state # "free"
      BY <2>7 DEF HeldIn
    <3>2. i = 1 /\ \A j \in Entries : s.arp[j].state # "free"
      BY <2>1, <3>1, SlotFacts
    <3>3. s.arp[1].pra # h
      BY <1>5, <1>11, <3>1, <3>2 DEF Found
    <3>4. w.arp[1].pra = h
      <4>1. s.arp \in [Entries -> ArpRows]
        BY <1>6, NetFields
      <4>2. w.arp[i] = row
        BY <1>5, <1>8, <2>4, <4>1
      <4>3. QED BY <1>9, <3>2, <4>2
    <3>5. Evicted(s, w)
      BY <2>7, <3>2, <3>3, <3>4 DEF Evicted
    <3>6. QED BY <2>4, <2>5, <3>5 DEF Step, Move
  <2>8. QED BY <2>6, <2>7
<1>12. QED BY <1>10, <1>11

\* An entry that has answered gives up its packet to be sent.
LEMMA AnsweredMove ==
  ASSUME NEW s, NEW X, Sound(s, X), NEW i \in Entries, s.arp[i].state # "free"
  PROVE  Move(s, X, Answered(s, i), X)
<1>1. s \in Nets /\ s.arp \in [Entries -> ArpRows] /\ s.arp[i] \in ArpRows
  BY NetFields DEF Sound
<1>2. PICK p, row : /\ p = s.arp[i].pep
                    /\ row = [s.arp[i] EXCEPT !.state = "resolved", !.pep = None]
  OBVIOUS
<1>3. row \in ArpRows /\ row.pep = None /\ p \in Buffers
  BY <1>1, <1>2 DEF ArpRows, Buffers
<1>4. PICK u, P : /\ u = [s EXCEPT !.arp[i] = row]
                  /\ P = IF i \in HeldIn(s) THEN {s.arp[i].pep} ELSE {}
  OBVIOUS
<1>5. Move(s, X, u, X \union P) /\ X \cap P = {}
  <2>1. LET t == [s EXCEPT !.arp[i] = row]
            Q == IF i \in HeldIn(s) THEN {s.arp[i].pep} ELSE {}
        IN  Move(s, X, t, X \union Q) /\ X \cap Q = {} /\ i \notin HeldIn(t)
            /\ t.arp = [s.arp EXCEPT ![i] = row]
    BY <1>3, EntryDrop
  <2>2. QED BY <1>4, <2>1
<1>6. CASE p = None
  <2>1. P = {} /\ X \union P = X
    BY <1>2, <1>4, <1>6 DEF HeldIn
  <2>2. row = [s.arp[i] EXCEPT !.state = "resolved"]
    BY <1>1, <1>2, <1>6 DEF ArpRows
  <2>3. u = [s EXCEPT !.arp[i].state = "resolved"]
    BY <1>4, <2>2
  <2>4. u = Answered(s, i)
    BY <1>2, <1>6, <2>3 DEF Answered
  <2>5. QED BY <1>5, <2>1, <2>4
<1>7. CASE p # None
  <2>1. P = {p} /\ p \in Bufs
    <3>1. i \in HeldIn(s)
      BY <1>2, <1>7 DEF HeldIn
    <3>2. QED BY <1>2, <1>3, <1>4, <1>7, <3>1 DEF Buffers
  <2>2. u = [s EXCEPT !.arp[i].state = "resolved", !.arp[i].pep = None]
    <3>1. PICK r : r = [s.arp[i] EXCEPT !.state = "resolved"]
      OBVIOUS
    <3>2. row = [r EXCEPT !.pep = None]
      BY <1>2, <3>1
    <3>3. PICK a : a = [s.arp EXCEPT ![i] = r]
      OBVIOUS
    <3>4. a[i] = r /\ [s.arp EXCEPT ![i] = row] = [a EXCEPT ![i] = row]
      BY <1>1, <3>3
    <3>5. [a EXCEPT ![i] = row] = [a EXCEPT ![i].pep = None]
      BY <3>2, <3>4
    <3>6. [s EXCEPT !.arp = [s.arp EXCEPT ![i] = row]]
            = [[s EXCEPT !.arp = a] EXCEPT !.arp = [a EXCEPT ![i].pep = None]]
      BY <1>1, <3>4, <3>5 DEF Nets
    <3>7. [s EXCEPT !.arp = a].arp = a
      BY <1>1 DEF Nets
    <3>8. QED BY <1>4, <3>1, <3>3, <3>6, <3>7
  <2>3. Ethwrite(u, p) = Answered(s, i)
    BY <1>2, <1>7, <2>2 DEF Answered
  <2>4. Move(u, X \union {p}, Ethwrite(u, p), X)
    BY <1>5, <2>1, EthwriteMove DEF Move
  <2>5. QED BY <1>5, <2>1, <2>3, <2>4, MovesCompose
<1>8. QED BY <1>6, <1>7

LEMMA LearnedStep ==
  ASSUME NEW s, NEW X, Sound(s, X), NEW h \in Hosts
  PROVE  Step(s, X, Learned(s, h), X)
<1>1. s \in Nets /\ s.arp \in [Entries -> ArpRows]
  BY NetFields DEF Sound
<1>2. CASE Found(s, h) = {}
  <2>1. PICK i, row : i = Slot(s) /\ row = [state |-> "resolved", pra |-> h, pep |-> None]
    OBVIOUS
  <2>2. i \in Entries /\ row \in ArpRows /\ row.pep = None /\ row.pra = h
    BY <2>1, SlotFacts DEF ArpRows, Buffers
  <2>3. PICK t, P : /\ t = [s EXCEPT !.arp[i] = row]
                    /\ P = IF i \in HeldIn(s) THEN {s.arp[i].pep} ELSE {}
    OBVIOUS
  <2>4. Move(s, X, t, X \union P) /\ t.arp = [s.arp EXCEPT ![i] = row]
    <3>1. LET u == [s EXCEPT !.arp[i] = row]
              Q == IF i \in HeldIn(s) THEN {s.arp[i].pep} ELSE {}
          IN  Move(s, X, u, X \union Q) /\ X \cap Q = {} /\ i \notin HeldIn(u)
              /\ u.arp = [s.arp EXCEPT ![i] = row]
      BY <2>2, EntryDrop
    <3>2. QED BY <2>3, <3>1
  <2>5. t = Learned(s, h)
    BY <1>2, <2>1, <2>3 DEF Learned
  <2>6. CASE i \notin HeldIn(s)
    <3>1. X \union P = X
      BY <2>3, <2>6
    <3>2. QED BY <2>4, <2>5, <3>1, MoveIsStep
  <2>7. CASE i \in HeldIn(s)
    <3>1. s.arp[i].state # "free"
      BY <2>7 DEF HeldIn
    <3>2. i = 1 /\ \A j \in Entries : s.arp[j].state # "free"
      BY <2>1, <3>1, SlotFacts
    <3>3. s.arp[1].pra # h
      BY <1>2, <2>2, <3>1, <3>2 DEF Found
    <3>4. t.arp[1].pra = h
      BY <1>1, <2>2, <2>4, <3>2
    <3>5. Evicted(s, t)
      BY <2>7, <3>2, <3>3, <3>4 DEF Evicted
    <3>6. Sound(t, X)
      BY <2>4, SoundLess DEF Move
    <3>7. QED BY <2>5, <3>5, <3>6 DEF Step
  <2>8. QED BY <2>6, <2>7
<1>3. CASE Found(s, h) # {}
  <2>1. PICK i : i = Least(Found(s, h))
    OBVIOUS
  <2>2. i \in Entries /\ s.arp[i].state # "free"
    <3>1. Found(s, h) \subseteq Entries
      BY DEF Found
    <3>2. i \in Found(s, h)
      BY <1>3, <2>1, <3>1, LeastEntry
    <3>3. QED BY <3>2 DEF Found
  <2>3. CASE s.arp[i].state = "pending"
    <3>1. Learned(s, h) = Answered(s, i)
      BY <1>3, <2>1, <2>3 DEF Learned
    <3>2. QED BY <2>2, <3>1, AnsweredMove, MoveIsStep
  <2>4. CASE s.arp[i].state # "pending"
    <3>1. Learned(s, h) = s
      BY <1>3, <2>1, <2>4 DEF Learned
    <3>2. QED BY <3>1 DEF Step
  <2>5. QED BY <2>3, <2>4
<1>4. QED BY <1>2, <1>3

----------------------------------------------------------------------------
(* The inductive invariant.                                                *)

InHand(b, l) == Own(b) \union Own(l.rx)

(***************************************************************************)
(* Only boot_xinu, between its steps, and a handler that waits have a      *)
(* buffer in hand, never both: the handler waits while boot_xinu is        *)
(* between two requests.                                                   *)
(***************************************************************************)
Control ==
  /\ pc \in {"monitor", "loop", "netwrite", "arpsend", "enq", "store", "start"}
  /\ buf \in Buffers /\ (buf # None <=> pc \in {"netwrite", "enq", "store"})
  /\ late \in [at : {"no", "ack", "arpsend"}, rx : Buffers]
  /\ late.at = "no" => late.rx = None
  /\ late.at # "no" => pc = "loop"
  /\ server \in Hosts \union {None} /\ (pc # "monitor" => server \in Hosts)
  /\ boots \in 0 .. MaxBoots

MonInv == Control /\ Sound(net, InHand(buf, late))

\* What a step may do to the buffers.
Went(s, X, t, Y) ==
  /\ Sound(t, Y)
  /\ \/ All(s) \union X \subseteq All(t) \union Y
     \/ Evicted(s, t) \/ Refused(s, server)

LEMMA StepWent ==
  ASSUME NEW s, NEW X, NEW t, NEW Y, Step(s, X, t, Y)
  PROVE  Went(s, X, t, Y)
  BY DEF Step, Went

LEMMA MoveWent ==
  ASSUME NEW s, NEW X, NEW t, NEW Y, Move(s, X, t, Y)
  PROVE  Went(s, X, t, Y)
  BY DEF Move, Went

LEMMA MoveThenWent ==
  ASSUME NEW s, NEW X, NEW t, NEW Y, NEW u, NEW Z,
         Move(s, X, t, Y), t.arp = s.arp, Went(t, Y, u, Z)
  PROVE  Went(s, X, u, Z)
<1>1. All(t) \union Y = All(s) \union X
  BY DEF Move
<1>2. HeldIn(t) = HeldIn(s) /\ Refused(t, server) = Refused(s, server)
  BY SameTable
<1>3. QED BY <1>1, <1>2 DEF Went, Evicted

LEMMA Hands ==
  /\ \A l : InHand(None, l) = Own(l.rx)
  /\ \A b, l : l.rx = None => InHand(b, l) = Own(b)
  /\ NotLate.rx = None /\ NotLate.at = "no"
  /\ NotLate \in [at : {"no", "ack", "arpsend"}, rx : Buffers]
  BY DEF InHand, Own, NotLate, Buffers

LEMMA InitInv == MonInit => MonInv
<1> SUFFICES ASSUME MonInit PROVE MonInv
  OBVIOUS
<1>1. Control
  BY MonAssumption DEF MonInit, Control, NotLate, Buffers
<1>2. PICK f, a : f = [i \in Bufs |-> i] /\ a = [i \in Entries |-> Blank]
  OBVIOUS
<1>3. net = [free |-> f, outq |-> << >>, ring |-> 0, arp |-> a]
  BY <1>2 DEF MonInit
<1>4. f \in Seq(Bufs) /\ Len(f) = NBUFS /\ \A i \in Bufs : f[i] = i
  BY <1>2, MonFacts DEF Bufs
<1>5. a \in [Entries -> ArpRows] /\ \A i \in Entries : a[i].state = "free"
  BY <1>2 DEF Blank, ArpRows, Buffers
<1>6. << >> \in Seq(Bufs) /\ Len(<< >>) = 0 /\ 0 \in 0 .. RING
  BY MonFacts
<1>7. net \in Nets
  BY <1>3, <1>4, <1>5, <1>6 DEF Nets
<1>8. net.free = f /\ net.outq = << >> /\ net.arp = a
  BY <1>3
<1>9. HeldIn(net) = {} /\ Held(net) = {}
  <2>1. HeldIn(net) = {}
    BY <1>5, <1>8 DEF HeldIn
  <2>2. QED BY <2>1 DEF Held
<1>10. Once(net.free)
  BY <1>4, <1>8 DEF Once, Bufs
<1>11. Once(net.outq) /\ Elements(net.outq) = {}
  BY <1>6, <1>8 DEF Once, Elements
<1>12. InHand(buf, late) = {}
  BY Hands, MonFacts DEF MonInit
<1>13. Sound(net, InHand(buf, late))
  BY <1>7, <1>9, <1>10, <1>11, <1>12 DEF Sound
<1>14. QED BY <1>1, <1>13 DEF MonInv

\* Where boot_xinu is between its own steps, no handler waits.
LEMMA HandsOfMain ==
  ASSUME MonInv
  PROVE  /\ pc # "loop" \/ late = NotLate => InHand(buf, late) = Own(buf)
         /\ late = NotLate => late.at = "no" /\ late.rx = None
         /\ pc # "loop" => late.rx = None /\ late.at = "no"
         /\ pc \in {"netwrite", "enq", "store"} => buf \in Bufs /\ Own(buf) = {buf}
         /\ pc \notin {"netwrite", "enq", "store"} => buf = None /\ Own(buf) = {}
         /\ Sound(net, InHand(buf, late)) /\ Control
<1>1. late = NotLate => late.at = "no" /\ late.rx = None
  BY DEF NotLate
<1>2. pc # "loop" => late.rx = None /\ late.at = "no"
  BY DEF MonInv, Control
<1>3. pc # "loop" \/ late = NotLate => InHand(buf, late) = Own(buf)
  BY <1>1, <1>2, Hands
<1>4. pc \in {"netwrite", "enq", "store"} => buf \in Bufs /\ Own(buf) = {buf}
  BY MonFacts DEF MonInv, Control, Buffers
<1>5. pc \notin {"netwrite", "enq", "store"} => buf = None /\ Own(buf) = {}
  BY MonFacts DEF MonInv, Control
<1>6. QED BY <1>1, <1>2, <1>3, <1>4, <1>5 DEF MonInv

LEMMA CmdBStep ==
  ASSUME MonInv, CmdB
  PROVE  Control' /\ Sound(net', InHand(buf', late'))
<1>1. /\ pc = "monitor" /\ boots < MaxBoots /\ boots' = boots + 1
      /\ server' \in Hosts /\ pc' = "loop" /\ buf' = buf /\ late' = late
      /\ net' = [net EXCEPT !.outq = << >>, !.ring = 0, !.arp = [i \in Entries |-> Blank]]
  BY DEF CmdB
<1>2. /\ InHand(buf, late) = {} /\ Control /\ Sound(net, InHand(buf, late))
  BY <1>1, HandsOfMain
<1>3. Control'
  BY <1>1, <1>2, MonAssumption DEF Control
<1>4. net \in Nets /\ Once(net.free) /\ Elements(net.free) \subseteq Bufs
  BY <1>2, NetFields, InElements DEF Sound
<1>5. PICK a : a = [i \in Entries |-> Blank]
  OBVIOUS
<1>6. a \in [Entries -> ArpRows] /\ \A i \in Entries : a[i].state = "free"
  BY <1>5 DEF Blank, ArpRows, Buffers
<1>7. << >> \in Seq(Bufs) /\ Len(<< >>) = 0 /\ 0 \in 0 .. RING
  BY MonFacts
<1>8. PICK t : t = [net EXCEPT !.outq = << >>, !.ring = 0, !.arp = a]
  OBVIOUS
<1>9. t = net'
  BY <1>1, <1>5, <1>8
<1>10. t \in Nets /\ t.free = net.free /\ t.outq = << >> /\ t.arp = a
  BY <1>4, <1>6, <1>7, <1>8 DEF Nets
<1>11. HeldIn(t) = {} /\ Held(t) = {}
  <2>1. HeldIn(t) = {}
    BY <1>6, <1>10 DEF HeldIn
  <2>2. QED BY <2>1 DEF Held
<1>12. Once(t.outq) /\ Elements(t.outq) = {}
  BY <1>7, <1>10 DEF Once, Elements
<1>13. Sound(t, {})
  BY <1>4, <1>10, <1>11, <1>12 DEF Sound
<1>14. InHand(buf', late') = {}
  BY <1>1, <1>2
<1>15. QED BY <1>3, <1>9, <1>13, <1>14

LEMMA GiveUpStep ==
  ASSUME MonInv, GiveUp
  PROVE  Control' /\ Went(net, InHand(buf, late), net', InHand(buf', late'))
<1>1. /\ pc = "loop" /\ late = NotLate /\ pc' = "monitor"
      /\ net' = net /\ buf' = buf /\ late' = late /\ server' = server /\ boots' = boots
  BY DEF GiveUp
<1>2. Control'
  BY <1>1, HandsOfMain DEF Control
<1>3. QED BY <1>1, <1>2, HandsOfMain DEF Went

LEMMA RequestStep ==
  ASSUME MonInv, Request
  PROVE  Control' /\ Went(net, InHand(buf, late), net', InHand(buf', late'))
<1>1. /\ pc = "loop" /\ late = NotLate /\ net.free # << >> /\ buf' = Head(net.free)
      /\ net' = Popped(net) /\ pc' \in {"enq", "netwrite"}
      /\ late' = late /\ server' = server /\ boots' = boots
  BY DEF Request
<1>2. InHand(buf, late) = {} /\ Sound(net, {}) /\ late.at = "no" /\ late.rx = None
  BY <1>1, HandsOfMain
<1>3. buf' \in Bufs /\ Move(net, {}, net', {} \union {buf'})
  BY <1>1, <1>2, PoppedMove
<1>4. InHand(buf', late') = {} \union {buf'}
  BY <1>1, <1>2, <1>3, Hands, MonFacts
<1>5. Control'
  BY <1>1, <1>2, <1>3, HandsOfMain, MonFacts DEF Control, Buffers
<1>6. QED BY <1>2, <1>3, <1>4, <1>5, MoveWent

LEMMA ResolvedStep ==
  ASSUME MonInv, NetwriteResolved
  PROVE  Control' /\ Went(net, InHand(buf, late), net', InHand(buf', late'))
<1>1. /\ pc = "netwrite" /\ pc' = "enq"
      /\ net' = net /\ buf' = buf /\ late' = late /\ server' = server /\ boots' = boots
  BY DEF NetwriteResolved
<1>2. Control'
  BY <1>1, HandsOfMain DEF Control
<1>3. QED BY <1>1, <1>2, HandsOfMain DEF Went

LEMMA RefusedStep ==
  ASSUME MonInv, NetwriteRefused
  PROVE  Control' /\ Went(net, InHand(buf, late), net', InHand(buf', late'))
<1>1. /\ pc = "netwrite" /\ Refused(net, server) /\ pc' = "loop" /\ buf' = None
      /\ net' = net /\ late' = late /\ server' = server /\ boots' = boots
  BY DEF NetwriteRefused
<1>2. Control'
  BY <1>1, HandsOfMain DEF Control, Buffers
<1>3. InHand(buf', late') \subseteq InHand(buf, late)
  BY <1>1, Hands DEF InHand
<1>4. Sound(net', InHand(buf', late'))
  BY <1>1, <1>3, HandsOfMain, SoundLess
<1>5. QED BY <1>1, <1>2, <1>4 DEF Went

LEMMA HeldStep ==
  ASSUME MonInv, NetwriteHeld
  PROVE  Control' /\ Went(net, InHand(buf, late), net', InHand(buf', late'))
<1>1. PICK s : s = Hold(net, buf, server)
  OBVIOUS
<1>2. /\ pc = "netwrite" /\ buf' = None
      /\ late' = late /\ server' = server /\ boots' = boots
      /\ \/ s.free = << >> /\ net' = s /\ pc' = "arpsend"
         \/ s.free # << >> /\ net' = Arpsend(s) /\ pc' = "loop"
  BY <1>1 DEF NetwriteHeld
<1>3. /\ InHand(buf, late) = {} \union {buf} /\ buf \in Bufs /\ server \in Hosts
      /\ late.at = "no" /\ late.rx = None
  BY <1>2, HandsOfMain DEF Control
<1>4. InHand(buf', late') = {}
  BY <1>2, <1>3, Hands, MonFacts
<1>5. Control'
  BY <1>2, <1>3, HandsOfMain DEF Control, Buffers
<1>6. Step(net, {} \union {buf}, s, {})
  <2>1. Sound(net, {} \union {buf}) /\ buf \notin {}
    BY <1>3, HandsOfMain
  <2>2. QED BY <1>1, <1>3, <2>1, HoldStep
<1>7. Step(net, {} \union {buf}, net', {})
  <2>1. CASE net' = s
    BY <1>6, <2>1
  <2>2. CASE s.free # << >> /\ net' = Arpsend(s)
    <3>1. Move(s, {}, Arpsend(s), {}) /\ Arpsend(s).arp = s.arp
      BY <1>6, <2>2, ArpsendMove DEF Step
    <3>2. QED BY <1>6, <2>2, <3>1, StepThenMove
  <2>3. QED BY <1>2, <2>1, <2>2
<1>8. QED BY <1>3, <1>4, <1>5, <1>7, StepWent

LEMMA ArpsendLaterStep ==
  ASSUME MonInv, ArpsendLater
  PROVE  Control' /\ Went(net, InHand(buf, late), net', InHand(buf', late'))
<1>1. /\ pc = "arpsend" /\ net.free # << >> /\ net' = Arpsend(net) /\ pc' = "loop"
      /\ buf' = buf /\ late' = late /\ server' = server /\ boots' = boots
  BY DEF ArpsendLater
<1>2. Control'
  BY <1>1, HandsOfMain DEF Control
<1>3. Move(net, InHand(buf, late), net', InHand(buf, late))
  BY <1>1, HandsOfMain, ArpsendMove
<1>4. QED BY <1>1, <1>2, <1>3, MoveWent

LEMMA EnqCheckStep ==
  ASSUME MonInv, EnqCheck
  PROVE  Control' /\ Went(net, InHand(buf, late), net', InHand(buf', late'))
<1>1. /\ pc = "enq" /\ late' = late /\ server' = server /\ boots' = boots
      /\ \/ net' = Freebuf(net, buf) /\ buf' = None /\ pc' = "start"
         \/ pc' = "store" /\ net' = net /\ buf' = buf
  BY DEF EnqCheck
<1>2. /\ InHand(buf, late) = {} \union Own(buf) /\ buf \in Bufs
      /\ late.at = "no" /\ late.rx = None
  BY <1>1, HandsOfMain
<1>3. Control'
  BY <1>1, <1>2, HandsOfMain DEF Control, Buffers
<1>4. CASE net' = Freebuf(net, buf) /\ buf' = None
  <2>1. InHand(buf', late') = {}
    BY <1>1, <1>2, <1>4, Hands, MonFacts
  <2>2. Sound(net, {} \union Own(buf)) /\ buf \in Buffers
    BY <1>2, HandsOfMain DEF Buffers
  <2>3. Move(net, {} \union Own(buf), net', {})
    BY <1>4, <2>2, FreebufMove
  <2>4. QED BY <1>2, <1>3, <2>1, <2>3, MoveWent
<1>5. CASE net' = net /\ buf' = buf
  BY <1>1, <1>3, <1>5, HandsOfMain DEF Went
<1>6. QED BY <1>1, <1>4, <1>5

LEMMA EnqStoreStep ==
  ASSUME MonInv, EnqStore
  PROVE  Control' /\ Went(net, InHand(buf, late), net', InHand(buf', late'))
<1>1. /\ pc = "store" /\ net' = Enq(net, buf) /\ buf' = None /\ pc' = "start"
      /\ late' = late /\ server' = server /\ boots' = boots
  BY DEF EnqStore
<1>2. /\ InHand(buf, late) = {} \union {buf} /\ buf \in Bufs
      /\ late.at = "no" /\ late.rx = None
  BY <1>1, HandsOfMain
<1>3. InHand(buf', late') = {}
  BY <1>1, <1>2, Hands, MonFacts
<1>4. Control'
  BY <1>1, <1>2, HandsOfMain DEF Control, Buffers
<1>5. Move(net, {} \union {buf}, net', {})
  <2>1. Sound(net, {} \union {buf}) /\ buf \notin {}
    BY <1>2, HandsOfMain
  <2>2. QED BY <1>1, <1>2, <2>1, EnqMove
<1>6. QED BY <1>2, <1>3, <1>4, <1>5, MoveWent

LEMMA StartStep ==
  ASSUME MonInv, Start
  PROVE  Control' /\ Went(net, InHand(buf, late), net', InHand(buf', late'))
<1>1. /\ pc = "start" /\ net' = Wstrt(net) /\ pc' = "loop"
      /\ buf' = buf /\ late' = late /\ server' = server /\ boots' = boots
  BY DEF Start
<1>2. Control'
  BY <1>1, HandsOfMain DEF Control
<1>3. Move(net, InHand(buf, late), net', InHand(buf, late))
  BY <1>1, HandsOfMain, WstrtMove
<1>4. QED BY <1>1, <1>2, <1>3, MoveWent

LEMMA TxDoneStep ==
  ASSUME MonInv, TxDone
  PROVE  Control' /\ Went(net, InHand(buf, late), net', InHand(buf', late'))
<1>1. /\ net.ring > 0 /\ net' = Wstrt([net EXCEPT !.ring = net.ring - 1])
      /\ pc' = pc /\ buf' = buf /\ late' = late /\ server' = server /\ boots' = boots
  BY DEF TxDone
<1>2. Control'
  BY <1>1, HandsOfMain DEF Control
<1>3. PICK X, n : X = InHand(buf, late) /\ n = net.ring - 1
  OBVIOUS
<1>4. /\ Sound(net, X) /\ net \in Nets /\ Once(net.free) /\ Once(net.outq)
      /\ Elements(net.free) \cap Elements(net.outq) = {}
      /\ X \cap Lined(net) = {} /\ X \subseteq Bufs
  <2>1. Sound(net, X)
    BY <1>3, HandsOfMain
  <2>2. QED BY <2>1 DEF Sound, All
<1>5. n \in 0 .. RING
  BY <1>1, <1>3, <1>4, NetFields, MonFacts
<1>6. PICK t : t = [net EXCEPT !.ring = n]
  OBVIOUS
<1>7. t \in Nets /\ t.free = net.free /\ t.outq = net.outq /\ t.arp = net.arp
  BY <1>4, <1>5, <1>6, RingSet
<1>8. Lined(t) = Lined(net)
  BY <1>7 DEF Lined
<1>9. Move(net, X, t, X)
  BY <1>4, <1>7, <1>8, ListsMove
<1>10. Move(t, X, Wstrt(t), X)
  BY <1>9, WstrtMove DEF Move
<1>11. Move(net, X, net', X)
  BY <1>1, <1>3, <1>6, <1>9, <1>10, MovesCompose
<1>12. QED BY <1>1, <1>2, <1>3, <1>11, MoveWent

LEMMA ArpInStep ==
  ASSUME MonInv, NEW h \in Hosts, NEW question \in BOOLEAN, ArpIn(h, question)
  PROVE  Control' /\ Went(net, InHand(buf, late), net', InHand(buf', late'))
<1>1. PICK rx, r, s, X : /\ rx = Head(net.free) /\ r = Popped(net)
                         /\ s = Learned(r, h) /\ X = InHand(buf, late)
  OBVIOUS
<1>2. /\ net.free # << >>
      /\ net' = Ethwrite(s, rx) \/ net' = Freebuf(s, rx)
      /\ pc' = pc /\ buf' = buf /\ late' = late /\ server' = server /\ boots' = boots
  BY <1>1 DEF ArpIn
<1>3. Control'
  BY <1>2, HandsOfMain DEF Control
<1>4. Sound(net, X)
  BY <1>1, HandsOfMain
<1>5. rx \in Bufs /\ rx \notin X /\ Move(net, X, r, X \union {rx}) /\ r.arp = net.arp
  BY <1>1, <1>2, <1>4, PoppedMove
<1>6. Step(r, X \union {rx}, s, X \union {rx})
  BY <1>1, <1>5, LearnedStep DEF Move
<1>7. Move(s, X \union {rx}, net', X) /\ net'.arp = s.arp
  <2>1. Sound(s, X \union {rx})
    BY <1>6 DEF Step
  <2>2. CASE net' = Ethwrite(s, rx)
    BY <1>5, <2>1, <2>2, EthwriteMove
  <2>3. CASE net' = Freebuf(s, rx)
    <3>1. Own(rx) = {rx} /\ rx \in Buffers /\ X \cap Own(rx) = {}
      BY <1>5, MonFacts DEF Buffers
    <3>2. Move(s, X \union Own(rx), Freebuf(s, rx), X) /\ Freebuf(s, rx).arp = s.arp
      BY <2>1, <3>1, FreebufMove
    <3>3. QED BY <2>3, <3>1, <3>2
  <2>4. QED BY <1>2, <2>2, <2>3
<1>8. Step(r, X \union {rx}, net', X)
  BY <1>6, <1>7, StepThenMove
<1>9. Step(net, X, net', X)
  BY <1>5, <1>8, MoveThenStep
<1>10. QED BY <1>1, <1>2, <1>3, <1>9, StepWent

\* The handler either waits, with the packet that came, or is through.
Waits == /\ late' \in [at : {"no", "ack", "arpsend"}, rx : Buffers]
         /\ late'.at = "no" => late'.rx = None

LEMMA AskStep ==
  ASSUME NEW s, NEW rx \in Buffers, Sound(s, Own(rx)), Ask(s, rx)
  PROVE  Waits /\ Move(s, Own(rx), net', Own(late'.rx)) /\ net'.arp = s.arp
<1>1. CASE s.free = << >> /\ net' = s /\ late' = [at |-> "arpsend", rx |-> rx]
  <2>1. late'.rx = rx /\ late'.at = "arpsend"
    BY <1>1
  <2>2. Waits
    BY <1>1, <2>1 DEF Waits
  <2>3. QED BY <1>1, <2>1, <2>2 DEF Move
<1>2. CASE s.free # << >> /\ net' = Freebuf(Arpsend(s), rx) /\ late' = NotLate
  <2>1. PICK t : t = Arpsend(s)
    OBVIOUS
  <2>2. Move(s, Own(rx), t, Own(rx)) /\ t.arp = s.arp
    BY <1>2, <2>1, ArpsendMove
  <2>3. Sound(t, {} \union Own(rx)) /\ {} \union Own(rx) = Own(rx)
    BY <2>2 DEF Move
  <2>4. Move(t, Own(rx), Freebuf(t, rx), {}) /\ Freebuf(t, rx).arp = t.arp
    BY <2>3, FreebufMove
  <2>5. Own(late'.rx) = {} /\ Waits
    BY <1>2, Hands, MonFacts DEF Waits
  <2>6. Move(s, Own(rx), net', {}) /\ net'.arp = s.arp
    BY <1>2, <2>1, <2>2, <2>4, MovesCompose
  <2>7. QED BY <2>5, <2>6
<1>3. QED BY <1>1, <1>2 DEF Ask

LEMMA AckStep ==
  ASSUME NEW s, NEW rx \in Buffers, Sound(s, Own(rx)), server \in Hosts, Ack(s, rx)
  PROVE  Waits /\ Went(s, Own(rx), net', Own(late'.rx))
<1>1. CASE s.free = << >> /\ net' = s /\ late' = [at |-> "ack", rx |-> rx]
  <2>1. late'.rx = rx /\ late'.at = "ack"
    BY <1>1
  <2>2. Waits
    BY <1>1, <2>1 DEF Waits
  <2>3. QED BY <1>1, <2>1, <2>2 DEF Went
<1>2. CASE s.free # << >>
  <2>1. PICK b, t : b = Head(s.free) /\ t = Popped(s)
    OBVIOUS
  <2>2. /\ b \in Bufs /\ b \notin Own(rx)
        /\ Move(s, Own(rx), t, Own(rx) \union {b}) /\ t.arp = s.arp
    BY <1>2, <2>1, PoppedMove
  <2>3. Sound(t, Own(rx) \union {b}) /\ Sound(t, Own(rx))
    BY <2>2, SoundLess DEF Move
  <2>4. CASE net' = Freebuf(Ethwrite(t, b), rx) /\ late' = NotLate
    <3>1. PICK u : u = Ethwrite(t, b)
      OBVIOUS
    <3>2. Move(t, Own(rx) \union {b}, u, Own(rx))
      BY <2>2, <2>3, <3>1, EthwriteMove
    <3>3. Sound(u, {} \union Own(rx)) /\ {} \union Own(rx) = Own(rx)
      BY <3>2 DEF Move
    <3>4. Move(u, Own(rx), Freebuf(u, rx), {})
      BY <3>3, FreebufMove
    <3>5. Own(late'.rx) = {} /\ Waits
      BY <2>4, Hands, MonFacts DEF Waits
    <3>6. Move(s, Own(rx), net', {})
      BY <2>2, <2>4, <3>1, <3>2, <3>4, MovesCompose
    <3>7. QED BY <3>5, <3>6, MoveWent
  <2>5. CASE Refused(t, server) /\ net' = Freebuf(t, rx) /\ late' = NotLate
    <3>1. Sound(t, {} \union Own(rx)) /\ {} \union Own(rx) = Own(rx)
      BY <2>3
    <3>2. Move(t, Own(rx), net', {})
      BY <2>5, <3>1, FreebufMove
    <3>3. Refused(s, server)
      BY <2>2, <2>5, SameTable
    <3>4. Own(late'.rx) = {} /\ Waits
      BY <2>5, Hands, MonFacts DEF Waits
    <3>5. QED BY <3>2, <3>3, <3>4 DEF Went, Move
  <2>6. CASE Ask(Hold(t, b, server), rx)
    <3>1. PICK u : u = Hold(t, b, server)
      OBVIOUS
    <3>2. Step(t, Own(rx) \union {b}, u, Own(rx))
      BY <2>2, <2>3, <3>1, HoldStep
    <3>3. Waits /\ Move(u, Own(rx), net', Own(late'.rx)) /\ net'.arp = u.arp
      BY <2>6, <3>1, <3>2, AskStep DEF Step
    <3>4. Step(t, Own(rx) \union {b}, net', Own(late'.rx))
      BY <3>2, <3>3, StepThenMove
    <3>5. Step(s, Own(rx), net', Own(late'.rx))
      BY <2>2, <3>4, MoveThenStep
    <3>6. QED BY <3>3, <3>5, StepWent
  <2>7. \/ net' = Freebuf(Ethwrite(t, b), rx) /\ late' = NotLate
        \/ Refused(t, server) /\ net' = Freebuf(t, rx) /\ late' = NotLate
        \/ Ask(Hold(t, b, server), rx)
    BY <1>2, <2>1 DEF Ack
  <2>8. QED BY <2>4, <2>5, <2>6, <2>7
<1>3. QED BY <1>1, <1>2 DEF Ack

LEMMA AckInStep ==
  ASSUME MonInv, AckIn
  PROVE  Control' /\ Went(net, InHand(buf, late), net', InHand(buf', late'))
<1>1. PICK rx, s : rx = Head(net.free) /\ s = Popped(net)
  OBVIOUS
<1>2. /\ pc = "loop" /\ late = NotLate /\ net.free # << >> /\ Ack(s, rx)
      /\ pc' = pc /\ buf' = buf /\ server' = server /\ boots' = boots
  BY <1>1 DEF AckIn
<1>3. buf = None /\ InHand(buf, late) = {} /\ server \in Hosts /\ Sound(net, {})
  BY <1>2, HandsOfMain DEF Control
<1>4. rx \in Bufs /\ Move(net, {}, s, {} \union {rx}) /\ s.arp = net.arp
  BY <1>1, <1>2, <1>3, PoppedMove
<1>5. rx \in Buffers /\ Own(rx) = {} \union {rx}
  BY <1>4, MonFacts DEF Buffers
<1>6. Waits /\ Went(s, Own(rx), net', Own(late'.rx))
  BY <1>2, <1>3, <1>4, <1>5, AckStep DEF Move
<1>7. Went(net, {}, net', Own(late'.rx))
  BY <1>4, <1>5, <1>6, MoveThenWent
<1>8. InHand(buf', late') = Own(late'.rx)
  BY <1>2, <1>3, Hands
<1>9. Control'
  BY <1>2, <1>6, HandsOfMain DEF Control, Waits
<1>10. QED BY <1>3, <1>7, <1>8, <1>9

LEMMA AckTimerStep ==
  ASSUME MonInv, AckTimer
  PROVE  Control' /\ Went(net, InHand(buf, late), net', InHand(buf', late'))
<1>1. /\ pc = "loop" /\ late = NotLate /\ Ack(net, None)
      /\ pc' = pc /\ buf' = buf /\ server' = server /\ boots' = boots
  BY DEF AckTimer
<1>2. buf = None /\ InHand(buf, late) = {} /\ server \in Hosts /\ Sound(net, {})
  BY <1>1, HandsOfMain DEF Control
<1>3. None \in Buffers /\ Own(None) = {}
  BY MonFacts DEF Buffers
<1>4. Waits /\ Went(net, Own(None), net', Own(late'.rx))
  BY <1>1, <1>2, <1>3, AckStep
<1>5. InHand(buf', late') = Own(late'.rx)
  BY <1>1, <1>2, Hands
<1>6. Control'
  BY <1>1, <1>4, HandsOfMain DEF Control, Waits
<1>7. QED BY <1>2, <1>3, <1>4, <1>5, <1>6

LEMMA AckLaterStep ==
  ASSUME MonInv, AckLater
  PROVE  Control' /\ Went(net, InHand(buf, late), net', InHand(buf', late'))
<1>1. /\ net.free # << >>
      /\ \/ late.at = "ack" /\ Ack(net, late.rx)
         \/ late.at = "arpsend" /\ Ask(net, late.rx)
      /\ pc' = pc /\ buf' = buf /\ server' = server /\ boots' = boots
  BY DEF AckLater
<1>2. /\ pc = "loop" /\ buf = None /\ server \in Hosts /\ late.rx \in Buffers
      /\ InHand(buf, late) = Own(late.rx) /\ Sound(net, Own(late.rx))
  <2>1. late.at # "no" /\ Control /\ Sound(net, InHand(buf, late))
    BY <1>1 DEF MonInv
  <2>2. pc = "loop" /\ buf = None /\ server \in Hosts /\ late.rx \in Buffers
    BY <2>1 DEF Control
  <2>3. QED BY <2>1, <2>2, Hands
<1>3. Waits /\ Went(net, Own(late.rx), net', Own(late'.rx))
  <2>1. CASE Ack(net, late.rx)
    BY <1>2, <2>1, AckStep
  <2>2. CASE Ask(net, late.rx)
    BY <1>2, <2>2, AskStep, MoveWent
  <2>3. QED BY <1>1, <2>1, <2>2
<1>4. InHand(buf', late') = Own(late'.rx)
  BY <1>1, <1>2, Hands
<1>5. Control'
  BY <1>1, <1>2, <1>3 DEF MonInv, Control, Waits
<1>6. QED BY <1>2, <1>3, <1>4, <1>5

LEMMA NextGoes ==
  ASSUME MonInv, [MonNext]_vars
  PROVE  /\ Control' /\ Sound(net', InHand(buf', late'))
         /\ \/ boots' # boots
            \/ Went(net, InHand(buf, late), net', InHand(buf', late'))
<1>1. CASE CmdB
  <2>1. boots' = boots + 1 /\ boots \in Nat
    BY <1>1, MonAssumption DEF CmdB, MonInv, Control
  <2>2. QED BY <1>1, <2>1, CmdBStep
<1>2. CASE \/ GiveUp \/ Request \/ NetwriteResolved \/ NetwriteRefused \/ NetwriteHeld
           \/ ArpsendLater \/ EnqCheck \/ EnqStore \/ Start
  BY <1>2, GiveUpStep, RequestStep, ResolvedStep, RefusedStep, HeldStep,
     ArpsendLaterStep, EnqCheckStep, EnqStoreStep, StartStep DEF Went
<1>3. CASE \/ TxDone \/ AckIn \/ AckTimer \/ AckLater
           \/ \E h \in Hosts, question \in BOOLEAN : ArpIn(h, question)
  BY <1>3, TxDoneStep, AckInStep, AckTimerStep, AckLaterStep, ArpInStep DEF Went
<1>4. CASE UNCHANGED vars
  <2>1. /\ net' = net /\ pc' = pc /\ buf' = buf /\ late' = late /\ server' = server
        /\ boots' = boots
    BY <1>4 DEF vars
  <2>2. Control'
    BY <2>1 DEF MonInv, Control
  <2>3. QED BY <2>1, <2>2 DEF MonInv, Went
<1>5. QED BY <1>1, <1>2, <1>3, <1>4 DEF MonNext, Main, Handlers

LEMMA NextInv == MonInv /\ [MonNext]_vars => MonInv'
<1> SUFFICES ASSUME MonInv, [MonNext]_vars PROVE MonInv'
  OBVIOUS
<1>1. Control' /\ Sound(net', InHand(buf', late'))
  BY NextGoes
<1>2. (Sound(net, InHand(buf, late)))' <=> Sound(net', InHand(buf', late'))
  OBVIOUS
<1>3. QED BY <1>1, <1>2 DEF MonInv

\* What the network layer keeps true: every buffer in one place at most, and
\* only boot_xinu or a handler that waits with one in hand.
THEOREM MonInductive == MonSpec => []MonInv
<1>1. QED BY InitInv, NextInv, PTL DEF MonSpec

THEOREM MonTypes == MonSpec => []MonTypeOK
<1>1. ASSUME MonInv PROVE MonTypeOK
  <2>1. net \in Nets /\ Once(net.outq)
    BY <1>1 DEF MonInv, Sound
  <2>2. Len(net.outq) <= NBUFS
    BY <2>1, NetFields, CountElements
  <2>3. Len(net.outq) \in Nat
    BY <2>1, NetFields, InElements
  <2>4. Len(net.outq) <= QMAX
    BY <2>2, <2>3, MonFacts
  <2>5. net.arp \in [Entries -> [state : {"free", "pending", "resolved"},
                                 pra : Hosts \union {None}, pep : Buffers]]
    BY <2>1, NetFields DEF ArpRows
  <2>6. Control
    BY <1>1 DEF MonInv
  <2>7. QED BY <2>1, <2>4, <2>5, <2>6, NetFields DEF Control, MonTypeOK
<1>2. QED BY <1>1, MonInductive, PTL

LEMMA CountApart ==
  ASSUME NEW S, NEW T, IsFiniteSet(S), IsFiniteSet(T), S \cap T = {}
  PROVE  /\ IsFiniteSet(S \union T)
         /\ Cardinality(S \union T) = Cardinality(S) + Cardinality(T)
<1>1. Cardinality(S) \in Nat /\ Cardinality(T) \in Nat
  BY FS_CardinalityType
<1>2. Cardinality(S \cap T) = 0
  BY FS_EmptySet
<1>3. /\ IsFiniteSet(S \union T)
      /\ Cardinality(S \union T) = Cardinality(S) + Cardinality(T) - Cardinality(S \cap T)
  BY FS_Union
<1>4. QED BY <1>1, <1>2, <1>3

LEMMA CountHeld ==
  ASSUME NEW s, NEW X, Sound(s, X)
  PROVE  IsFiniteSet(Held(s)) /\ Cardinality(Held(s)) = Cardinality(HeldIn(s))
<1>1. \A i, j \in HeldIn(s) : s.arp[i].pep = s.arp[j].pep => i = j
  BY DEF Sound
<1> DEFINE f == [i \in HeldIn(s) |-> s.arp[i].pep]
<1>2. f \in Bijection(HeldIn(s), Held(s))
  <2>1. f \in [HeldIn(s) -> Held(s)]
    BY DEF Held
  <2>2. \A e \in Held(s) : \E i \in HeldIn(s) : f[i] = e
    BY DEF Held
  <2>3. \A i, j \in HeldIn(s) : f[i] = f[j] => i = j
    BY <1>1
  <2>4. QED BY <2>1, <2>2, <2>3 DEF Bijection, Injection, Surjection, IsInjective
<1>3. ExistsBijection(HeldIn(s), Held(s))
  BY <1>2 DEF ExistsBijection
<1>4. IsFiniteSet(HeldIn(s))
  <2>1. IsFiniteSet(Entries)
    <3>1. 1 \in Int /\ TSIZE \in Int
      BY MonAssumption
    <3>2. QED BY <3>1, FS_Interval DEF Entries
  <2>2. HeldIn(s) \subseteq Entries
    BY DEF HeldIn
  <2>3. QED BY <2>1, <2>2, FS_Subset
<1>5. QED BY <1>3, <1>4, FS_Bijection

LEMMA CountOwn ==
  ASSUME NEW b
  PROVE  IsFiniteSet(Own(b)) /\ Cardinality(Own(b)) = One(b)
<1>1. CASE b = None
  BY <1>1, FS_EmptySet, MonFacts DEF One
<1>2. CASE b # None
  <2>1. Own(b) = {b}
    BY <1>2 DEF Own
  <2>2. QED BY <1>2, <2>1, FS_Singleton DEF One
<1>3. QED BY <1>1, <1>2

LEMMA KeptAll ==
  ASSUME NEW s, NEW b, NEW l
  PROVE  Kept(s, b, l) = All(s) \union InHand(b, l)
  BY DEF Kept, All, Lined, Held, InHand, Own

\* No buffer is in two places: freed while held or queued, freed or sent twice.
THEOREM OnePlace == MonSpec => []InOnePlace
<1>1. ASSUME MonInv PROVE InOnePlace
  <2>1. PICK F, Q, H, B, R : /\ F = Elements(net.free) /\ Q = Elements(net.outq)
                             /\ H = Held(net) /\ B = Own(buf) /\ R = Own(late.rx)
    OBVIOUS
  <2>2. /\ net \in Nets /\ Once(net.free) /\ Once(net.outq) /\ F \cap Q = {}
        /\ (F \union Q) \cap H = {} /\ (B \union R) \cap ((F \union Q) \union H) = {}
    BY <1>1, <2>1 DEF MonInv, Sound, InHand, All, Lined
  <2>3. B \cap R = {}
    <3>1. buf = None \/ late.rx = None
      BY <1>1 DEF MonInv, Control
    <3>2. QED BY <2>1, <3>1, MonFacts
  <2>4. /\ IsFiniteSet(F) /\ Cardinality(F) = Len(net.free)
        /\ IsFiniteSet(Q) /\ Cardinality(Q) = Len(net.outq)
    BY <2>1, <2>2, NetFields, CountElements
  <2>5. IsFiniteSet(H) /\ Cardinality(H) = Cardinality(HeldIn(net))
    BY <1>1, <2>1, CountHeld DEF MonInv
  <2>6. /\ IsFiniteSet(B) /\ Cardinality(B) = One(buf)
        /\ IsFiniteSet(R) /\ Cardinality(R) = One(late.rx)
    BY <2>1, CountOwn
  <2>7. /\ IsFiniteSet(F \union Q)
        /\ Cardinality(F \union Q) = Cardinality(F) + Cardinality(Q)
    BY <2>2, <2>4, CountApart
  <2>8. /\ IsFiniteSet((F \union Q) \union H)
        /\ Cardinality((F \union Q) \union H)
             = (Cardinality(F) + Cardinality(Q)) + Cardinality(H)
    BY <2>2, <2>5, <2>7, CountApart
  <2>9. /\ IsFiniteSet(B \union R)
        /\ Cardinality(B \union R) = Cardinality(B) + Cardinality(R)
    BY <2>3, <2>6, CountApart
  <2>10. Cardinality(((F \union Q) \union H) \union (B \union R))
           = ((Cardinality(F) + Cardinality(Q)) + Cardinality(H))
             + (Cardinality(B) + Cardinality(R))
    <3>1. ((F \union Q) \union H) \cap (B \union R) = {}
      BY <2>2
    <3>2. QED BY <2>8, <2>9, <3>1, CountApart
  <2>11. Kept(net, buf, late) = ((F \union Q) \union H) \union (B \union R)
    BY <2>1, KeptAll DEF All, Lined, InHand
  <2>12. /\ Cardinality(F) \in Nat /\ Cardinality(Q) \in Nat /\ Cardinality(H) \in Nat
         /\ Cardinality(B) \in Nat /\ Cardinality(R) \in Nat
    BY <2>4, <2>5, <2>6, FS_CardinalityType
  <2>13. Cardinality(Kept(net, buf, late))
           = ((Len(net.free) + Len(net.outq)) + Cardinality(HeldIn(net)))
             + (One(buf) + One(late.rx))
    BY <2>4, <2>5, <2>6, <2>10, <2>11
  <2>14. /\ Len(net.free) \in Nat /\ Len(net.outq) \in Nat
         /\ Cardinality(HeldIn(net)) \in Nat /\ One(buf) \in Nat /\ One(late.rx) \in Nat
    BY <2>4, <2>5, <2>6, <2>12
  <2>15. PICK f, q, h, b, r \in Nat :
           /\ f = Len(net.free) /\ q = Len(net.outq) /\ h = Cardinality(HeldIn(net))
           /\ b = One(buf) /\ r = One(late.rx)
    BY <2>14
  <2>16. ((f + q) + h) + (b + r) = f + q + h + b + r
    OBVIOUS
  <2>17. QED BY <2>13, <2>15, <2>16 DEF InOnePlace
<1>2. QED BY <1>1, MonInductive, PTL

\* Buffers are lost to a full table, a refused address and "b", to nothing else.
THEOREM TableLoses == MonSpec => OnlyTheTableLoses
<1>1. ASSUME MonInv, [MonNext]_vars
      PROVE  [\/ Kept(net, buf, late) \subseteq Kept(net', buf', late')
              \/ boots' # boots \/ Refused(net, server) \/ Overwritten]_vars
  <2>1. \/ boots' # boots
        \/ Went(net, InHand(buf, late), net', InHand(buf', late'))
    BY <1>1, NextGoes
  <2>2. /\ Kept(net, buf, late) = All(net) \union InHand(buf, late)
        /\ Kept(net', buf', late') = All(net') \union InHand(buf', late')
    BY KeptAll
  <2>3. Evicted(net, net') <=> Overwritten
    BY DEF Evicted, Overwritten
  <2>4. QED BY <2>1, <2>2, <2>3 DEF Went
<1>2. QED BY <1>1, MonInductive, PTL DEF MonSpec, OnlyTheTableLoses
=============================================================================
