--------------------------- MODULE XinuQueue_proof ---------------------------
(***************************************************************************)
(* Lemmas about the list operations of XinuQueue: what each does to the    *)
(* members, the order and the length of a list, for lists of any length.   *)
(***************************************************************************)
EXTENDS XinuQueue, SequenceTheorems, WellFoundedInduction, TLAPS

(***************************************************************************)
(* Every nonempty set of natural numbers has a least element.              *)
(***************************************************************************)
LEMMA LeastNat ==
  ASSUME NEW T, T \subseteq Nat, T # {}
  PROVE  \E m \in T : \A n \in T : m <= n
<1> DEFINE R == {ss \in Nat \X Nat : ss[1] < ss[2]}
<1>1. OpToRel(<, Nat) = R
  BY Zenon DEF OpToRel
<1>2. IsWellFoundedOn(R, Nat)
  BY NatLessThanWellFounded, <1>1
<1>3. \E x \in T : \A y \in T : ~(<<y, x>> \in R)
  <2> HIDE DEF R
  <2> QED BY <1>2, WFMin
<1>4. PICK x \in T : \A y \in T : ~(<<y, x>> \in R)
  BY <1>3
<1>5. ASSUME NEW y \in T PROVE x <= y
  <2>1. CASE y < x
    <3>1. <<y, x>> \in R
      BY <2>1 DEF R
    <3>2. QED BY <3>1, <1>4
  <2>2. QED BY <2>1
<1>6. QED BY <1>5

Records(P) == [pid : P, key : Int]

(***************************************************************************)
(* What Ext!InsertAt and Ext!RemoveAt put at each place.                   *)
(***************************************************************************)
LEMMA InsertAtProps ==
  ASSUME NEW E, NEW s \in Seq(E), NEW i \in 1 .. Len(s) + 1, NEW e \in E
  PROVE  /\ Ext!InsertAt(s, i, e) \in Seq(E)
         /\ Len(Ext!InsertAt(s, i, e)) = Len(s) + 1
         /\ \A j \in 1 .. Len(s) + 1 :
              Ext!InsertAt(s, i, e)[j] =
                IF j < i THEN s[j] ELSE IF j = i THEN e ELSE s[j - 1]
<1> DEFINE a == SubSeq(s, 1, i - 1)
           b == << e >>
           c == SubSeq(s, i, Len(s))
<1>1. Len(s) \in Nat /\ \A j \in 1 .. Len(s) : s[j] \in E
  BY LenProperties, ElementOfSeq
<1>2. /\ a \in Seq(E) /\ Len(a) = i - 1
      /\ \A j \in 1 .. i - 1 : a[j] = s[j]
  <2>1. \A j \in 1 .. i - 1 : s[j] \in E
    BY <1>1
  <2>2. /\ a \in Seq(E)
        /\ Len(a) = IF 1 <= i - 1 THEN (i - 1) - 1 + 1 ELSE 0
        /\ \A j \in 1 .. (i - 1) - 1 + 1 : a[j] = s[1 + j - 1]
    BY <1>1, <2>1, SubSeqProperties, i - 1 \in Int
  <2>3. QED BY <1>1, <2>2
<1>3. /\ c \in Seq(E) /\ Len(c) = Len(s) - i + 1
      /\ \A j \in 1 .. Len(s) - i + 1 : c[j] = s[i + j - 1]
  <2>1. \A j \in i .. Len(s) : s[j] \in E
    BY <1>1
  <2>2. /\ c \in Seq(E)
        /\ Len(c) = IF i <= Len(s) THEN Len(s) - i + 1 ELSE 0
        /\ \A j \in 1 .. Len(s) - i + 1 : c[j] = s[i + j - 1]
    BY <1>1, <2>1, SubSeqProperties
  <2>3. QED BY <1>1, <2>2
<1>4. b \in Seq(E) /\ Len(b) = 1 /\ b[1] = e
  OBVIOUS
<1> HIDE DEF a, b, c
<1>5. /\ a \o b \in Seq(E) /\ Len(a \o b) = i
      /\ \A j \in 1 .. i : (a \o b)[j] = IF j < i THEN s[j] ELSE e
  <2>1. /\ a \o b \in Seq(E)
        /\ Len(a \o b) = Len(a) + Len(b)
        /\ \A j \in 1 .. Len(a) + Len(b) :
             (a \o b)[j] = IF j <= Len(a) THEN a[j] ELSE b[j - Len(a)]
    BY <1>2, <1>4, ConcatProperties
  <2>2. QED BY <1>1, <1>2, <1>4, <2>1
<1> DEFINE ab == a \o b
<1>6. Ext!InsertAt(s, i, e) = ab \o c
  BY DEF Ext!InsertAt, a, b, c
<1>7. ab \in Seq(E) /\ Len(ab) = i
  BY <1>5
<1> HIDE DEF ab
<1>8. /\ ab \o c \in Seq(E)
      /\ Len(ab \o c) = Len(ab) + Len(c)
      /\ \A j \in 1 .. Len(ab) + Len(c) :
           (ab \o c)[j] = IF j <= Len(ab) THEN ab[j] ELSE c[j - Len(ab)]
  BY <1>3, <1>7, ConcatProperties
<1>9. Len(ab \o c) = Len(s) + 1
  BY <1>1, <1>3, <1>7, <1>8
<1>10. ASSUME NEW j \in 1 .. Len(s) + 1
       PROVE  (ab \o c)[j] = IF j < i THEN s[j] ELSE IF j = i THEN e ELSE s[j - 1]
  <2>1. CASE j <= i
    BY <1>1, <1>3, <1>5, <1>7, <1>8, <2>1 DEF ab
  <2>2. CASE j > i
    <3>1. (ab \o c)[j] = c[j - i]
      BY <1>1, <1>3, <1>7, <1>8, <2>2
    <3>2. c[j - i] = s[i + (j - i) - 1]
      BY <1>1, <1>3, <2>2
    <3>3. QED BY <1>1, <2>2, <3>1, <3>2
  <2>3. j <= i \/ j > i
    BY <1>1
  <2>4. QED BY Zenon, <2>1, <2>2, <2>3
<1>11. QED BY <1>6, <1>8, <1>9, <1>10

LEMMA RemoveAtProps ==
  ASSUME NEW E, NEW s \in Seq(E), NEW i \in 1 .. Len(s)
  PROVE  /\ Ext!RemoveAt(s, i) \in Seq(E)
         /\ Len(Ext!RemoveAt(s, i)) = Len(s) - 1
         /\ \A j \in 1 .. Len(s) - 1 :
              Ext!RemoveAt(s, i)[j] = IF j < i THEN s[j] ELSE s[j + 1]
<1> DEFINE a == SubSeq(s, 1, i - 1)
           c == SubSeq(s, i + 1, Len(s))
<1>1. Len(s) \in Nat /\ \A j \in 1 .. Len(s) : s[j] \in E
  BY LenProperties, ElementOfSeq
<1>2. /\ a \in Seq(E) /\ Len(a) = i - 1
      /\ \A j \in 1 .. i - 1 : a[j] = s[j]
  <2>1. \A j \in 1 .. i - 1 : s[j] \in E
    BY <1>1
  <2>2. /\ a \in Seq(E)
        /\ Len(a) = IF 1 <= i - 1 THEN (i - 1) - 1 + 1 ELSE 0
        /\ \A j \in 1 .. (i - 1) - 1 + 1 : a[j] = s[1 + j - 1]
    BY <1>1, <2>1, SubSeqProperties, i - 1 \in Int
  <2>3. QED BY <1>1, <2>2
<1>3. /\ c \in Seq(E) /\ Len(c) = Len(s) - i
      /\ \A j \in 1 .. Len(s) - i : c[j] = s[i + j]
  <2>1. \A j \in i + 1 .. Len(s) : s[j] \in E
    BY <1>1
  <2>2. /\ c \in Seq(E)
        /\ Len(c) = IF i + 1 <= Len(s) THEN Len(s) - (i + 1) + 1 ELSE 0
        /\ \A j \in 1 .. Len(s) - (i + 1) + 1 : c[j] = s[i + 1 + j - 1]
    BY <1>1, <2>1, SubSeqProperties, i + 1 \in Int
  <2>3. QED BY <1>1, <2>2
<1> HIDE DEF a, c
<1>4. /\ a \o c \in Seq(E)
      /\ Len(a \o c) = Len(a) + Len(c)
      /\ \A j \in 1 .. Len(a) + Len(c) :
           (a \o c)[j] = IF j <= Len(a) THEN a[j] ELSE c[j - Len(a)]
  BY <1>2, <1>3, ConcatProperties
<1>5. Ext!RemoveAt(s, i) = a \o c
  BY DEF Ext!RemoveAt, a, c
<1>6. Len(a \o c) = Len(s) - 1
  BY <1>1, <1>2, <1>3, <1>4
<1>7. ASSUME NEW j \in 1 .. Len(s) - 1
      PROVE  (a \o c)[j] = IF j < i THEN s[j] ELSE s[j + 1]
  <2>1. CASE j < i
    BY <1>1, <1>2, <1>3, <1>4, <2>1
  <2>2. CASE j >= i
    <3>1. (a \o c)[j] = c[j - (i - 1)]
      BY <1>1, <1>2, <1>3, <1>4, <2>2
    <3>2. c[j - (i - 1)] = s[i + (j - (i - 1))]
      BY <1>1, <1>3, <2>2
    <3>3. QED BY <1>1, <2>2, <3>1, <3>2
  <2>3. j < i \/ j >= i
    BY <1>1
  <2>4. QED BY Zenon, <2>1, <2>2, <2>3
<1>8. QED BY <1>4, <1>5, <1>6, <1>7

----------------------------------------------------------------------------
(* Lists of entries.                                                       *)

LEMMA EntryType ==
  ASSUME NEW P, NEW p \in P, NEW k \in Int
  PROVE  /\ Entry(p, k) \in Records(P)
         /\ Entry(p, k).pid = p
         /\ Entry(p, k).key = k
  BY DEF Entry, Records

LEMMA ListFacts ==
  ASSUME NEW P, NEW s \in Seq(Records(P))
  PROVE  /\ Len(s) \in Nat
         /\ DOMAIN s = 1 .. Len(s)
         /\ \A i \in 1 .. Len(s) : /\ s[i] \in Records(P)
                                   /\ s[i].pid \in P /\ s[i].key \in Int
         /\ \A i \in 1 .. Len(s) : s[i].pid \in Members(s)
         /\ Members(s) \subseteq P
<1>1. /\ Len(s) \in Nat
      /\ DOMAIN s = 1 .. Len(s)
      /\ \A i \in 1 .. Len(s) : s[i] \in Records(P)
  BY LenProperties, ElementOfSeq
<1>2. \A i \in 1 .. Len(s) : s[i].pid \in P /\ s[i].key \in Int
  BY <1>1 DEF Records
<1>3. QED BY <1>1, <1>2 DEF Members

(***************************************************************************)
(* A new entry, wherever it is put, adds its process to the list.          *)
(***************************************************************************)
LEMMA InsertedEntry ==
  ASSUME NEW P, NEW s \in Seq(Records(P)), NEW i \in 1 .. Len(s) + 1,
         NEW p \in P, NEW k \in Int, NEW r, r = Ext!InsertAt(s, i, Entry(p, k))
  PROVE  /\ r \in Seq(Records(P))
         /\ Len(r) = Len(s) + 1
         /\ Members(r) = Members(s) \cup {p}
         /\ Distinct(s) /\ p \notin Members(s) => Distinct(r)
<1> DEFINE e == Entry(p, k)
<1>1. e \in Records(P) /\ e.pid = p
  BY EntryType
<1> HIDE DEF e
<1>2. /\ r \in Seq(Records(P))
      /\ Len(r) = Len(s) + 1
      /\ \A j \in 1 .. Len(s) + 1 :
           r[j] = IF j < i THEN s[j] ELSE IF j = i THEN e ELSE s[j - 1]
  <2>1. r = Ext!InsertAt(s, i, e)
    BY DEF e
  <2>2. QED BY <1>1, <2>1, InsertAtProps, SMTT(30)
<1>3. Len(s) \in Nat /\ DOMAIN s = 1 .. Len(s) /\ DOMAIN r = 1 .. Len(s) + 1
  BY <1>2, LenProperties
<1>4. Members(r) \subseteq Members(s) \cup {p}
  <2>1. ASSUME NEW j \in 1 .. Len(s) + 1
        PROVE  r[j].pid \in Members(s) \cup {p}
    <3>1. CASE j < i
      BY <1>2, <1>3, <3>1 DEF Members
    <3>2. CASE j = i
      BY <1>1, <1>2, <1>3, <3>2
    <3>3. CASE j > i
      <4>1. r[j] = s[j - 1] /\ j - 1 \in 1 .. Len(s)
        BY <1>2, <1>3, <3>3
      <4>2. QED BY <1>3, <4>1 DEF Members
    <3>4. QED BY <1>3, <3>1, <3>2, <3>3
  <2>2. QED BY <1>3, <2>1 DEF Members
<1>5. Members(s) \cup {p} \subseteq Members(r)
  <2>1. p \in Members(r)
    <3>1. r[i] = e
      BY <1>2, <1>3
    <3>2. QED BY <1>1, <1>3, <3>1 DEF Members
  <2>2. ASSUME NEW j \in 1 .. Len(s)
        PROVE  s[j].pid \in Members(r)
    <3>1. CASE j < i
      <4>1. r[j] = s[j] /\ j \in 1 .. Len(s) + 1
        BY <1>2, <1>3, <3>1
      <4>2. QED BY <1>3, <4>1 DEF Members
    <3>2. CASE j >= i
      <4>1. r[j + 1] = s[j] /\ j + 1 \in 1 .. Len(s) + 1
        BY <1>2, <1>3, <3>2
      <4>2. QED BY <1>3, <4>1 DEF Members
    <3>3. QED BY <1>3, <3>1, <3>2
  <2>3. QED BY <1>3, <2>1, <2>2 DEF Members
<1>6. ASSUME Distinct(s), p \notin Members(s)
      PROVE  Distinct(r)
  <2> DEFINE src(j) == IF j < i THEN j ELSE j - 1
  <2>1. ASSUME NEW j \in 1 .. Len(s) + 1, j # i
        PROVE  /\ src(j) \in 1 .. Len(s) /\ r[j] = s[src(j)]
               /\ r[j].pid \in Members(s)
    <3>1. src(j) \in 1 .. Len(s) /\ r[j] = s[src(j)]
      BY <1>2, <1>3, <2>1
    <3>2. QED BY <1>3, <3>1 DEF Members
  <2>2. r[i].pid = p
    BY <1>1, <1>2, <1>3
  <2>3. ASSUME NEW j \in 1 .. Len(s) + 1, NEW m \in 1 .. Len(s) + 1,
               r[j].pid = r[m].pid
        PROVE  j = m
    <3>1. CASE j = i \/ m = i
      BY <1>6, <2>1, <2>2, <2>3, <3>1
    <3>2. CASE j # i /\ m # i
      <4>1. /\ src(j) \in 1 .. Len(s) /\ r[j] = s[src(j)]
            /\ src(m) \in 1 .. Len(s) /\ r[m] = s[src(m)]
        BY <2>1, <3>2
      <4>2. s[src(j)].pid = s[src(m)].pid
        BY <2>3, <4>1
      <4>3. src(j) = src(m)
        <5> HIDE DEF src
        <5> QED BY <1>3, <1>6, <4>1, <4>2 DEF Distinct
      <4>4. QED BY <1>3, <3>2, <4>3
    <3>3. QED BY <3>1, <3>2
  <2>4. QED BY <1>3, <2>3 DEF Distinct
<1>7. QED BY <1>2, <1>4, <1>5, <1>6

(***************************************************************************)
(* A list without its entry i loses that process and keeps its order.      *)
(***************************************************************************)
LeftOut(s, r, i) ==
  /\ Len(r) = Len(s) - 1
  /\ \A j \in 1 .. Len(s) - 1 : r[j] = IF j < i THEN s[j] ELSE s[j + 1]

LEMMA RemovedEntry ==
  ASSUME NEW P, NEW s \in Seq(Records(P)), NEW i \in 1 .. Len(s),
         NEW r \in Seq(Records(P)), LeftOut(s, r, i)
  PROVE  /\ Distinct(s) => /\ Distinct(r)
                           /\ Members(r) = Members(s) \ {s[i].pid}
         /\ Sorted(s) => Sorted(r)
<1> DEFINE src(j) == IF j < i THEN j ELSE j + 1
<1>1. /\ Len(s) \in Nat /\ DOMAIN s = 1 .. Len(s)
      /\ DOMAIN r = 1 .. Len(s) - 1
  BY LenProperties DEF LeftOut
<1>2. ASSUME NEW j \in 1 .. Len(s) - 1
      PROVE  src(j) \in 1 .. Len(s) /\ src(j) # i /\ r[j] = s[src(j)]
  BY <1>1 DEF LeftOut
<1>3. \A j, m \in 1 .. Len(s) - 1 : j <= m <=> src(j) <= src(m)
  BY <1>1
<1>4. ASSUME NEW m \in 1 .. Len(s), m # i
      PROVE  \E j \in 1 .. Len(s) - 1 : src(j) = m
  <2>1. CASE m < i
    <3>1. m \in 1 .. Len(s) - 1 /\ src(m) = m
      BY <1>1, <2>1
    <3>2. QED BY <3>1
  <2>2. CASE m > i
    <3>1. m - 1 \in 1 .. Len(s) - 1 /\ src(m - 1) = m
      BY <1>1, <2>2
    <3>2. QED BY <3>1
  <2>3. QED BY <1>1, <1>4, <2>1, <2>2
<1> HIDE DEF src
<1>5. ASSUME Distinct(s)
      PROVE  Distinct(r) /\ Members(r) = Members(s) \ {s[i].pid}
  <2>1. ASSUME NEW j \in 1 .. Len(s) - 1, NEW m \in 1 .. Len(s) - 1,
               r[j].pid = r[m].pid
        PROVE  j = m
    <3>1. src(j) = src(m)
      BY <1>1, <1>2, <1>5, <2>1 DEF Distinct
    <3>2. j <= m /\ m <= j
      <4>1. src(j) \in Int
        BY <1>1, <1>2
      <4>2. src(j) <= src(m) /\ src(m) <= src(j)
        BY <3>1, <4>1
      <4>3. QED BY <1>3, <4>2
    <3>3. QED BY <1>1, <3>2
  <2>2. ASSUME NEW j \in 1 .. Len(s) - 1
        PROVE  r[j].pid \in Members(s) \ {s[i].pid}
    <3>1. s[src(j)].pid # s[i].pid
      BY <1>1, <1>2, <1>5 DEF Distinct
    <3>2. QED BY <1>1, <1>2, <3>1 DEF Members
  <2>3. ASSUME NEW m \in 1 .. Len(s), s[m].pid # s[i].pid
        PROVE  s[m].pid \in Members(r)
    <3>1. PICK j \in 1 .. Len(s) - 1 : src(j) = m
      BY <1>4, <2>3
    <3>2. r[j] = s[m]
      BY <1>2, <3>1
    <3>3. QED BY <1>1, <3>2 DEF Members
  <2>4. Distinct(r)
    BY <1>1, <2>1 DEF Distinct
  <2>5. Members(r) \subseteq Members(s) \ {s[i].pid}
    BY <1>1, <2>2 DEF Members
  <2>6. Members(s) \ {s[i].pid} \subseteq Members(r)
    BY <1>1, <2>3 DEF Members
  <2>7. QED BY <2>4, <2>5, <2>6
<1>6. ASSUME Sorted(s)
      PROVE  Sorted(r)
  <2>1. ASSUME NEW j \in 1 .. Len(s) - 1, NEW m \in 1 .. Len(s) - 1, j <= m
        PROVE  r[j].key <= r[m].key
    <3>1. src(j) <= src(m)
      BY <1>3, <2>1
    <3>2. QED BY <1>1, <1>2, <1>6, <3>1 DEF Sorted
  <2>2. QED BY <1>1, <2>1 DEF Sorted
<1>7. QED BY <1>5, <1>6

LEMMA PosOfMember ==
  ASSUME NEW P, NEW s \in Seq(Records(P)), NEW p \in Members(s)
  PROVE  PosOf(s, p) \in 1 .. Len(s) /\ s[PosOf(s, p)].pid = p
<1>1. PICK i \in DOMAIN s : s[i].pid = p
  BY DEF Members
<1>2. PosOf(s, p) \in DOMAIN s /\ s[PosOf(s, p)].pid = p
  BY <1>1 DEF PosOf
<1>3. QED BY <1>2, LenProperties

(***************************************************************************)
(* dequeue(p) of a process on the list.                                    *)
(***************************************************************************)
LEMMA DequeueProps ==
  ASSUME NEW P, NEW s \in Seq(Records(P)), NEW p \in Members(s), Distinct(s)
  PROVE  /\ Dequeue(s, p) \in Seq(Records(P))
         /\ Len(Dequeue(s, p)) = Len(s) - 1
         /\ Distinct(Dequeue(s, p))
         /\ Members(Dequeue(s, p)) = Members(s) \ {p}
         /\ Sorted(s) => Sorted(Dequeue(s, p))
<1> DEFINE i == PosOf(s, p)
           r == Ext!RemoveAt(s, i)
<1>1. i \in 1 .. Len(s) /\ s[i].pid = p
  BY PosOfMember
<1>2. Dequeue(s, p) = r
  BY DEF Dequeue
<1> HIDE DEF i
<1>3. /\ r \in Seq(Records(P)) /\ Len(r) = Len(s) - 1
      /\ \A j \in 1 .. Len(s) - 1 : r[j] = IF j < i THEN s[j] ELSE s[j + 1]
  BY <1>1, RemoveAtProps
<1> HIDE DEF r
<1>31. LeftOut(s, r, i)
  BY <1>3 DEF LeftOut
<1>4. /\ Distinct(r) /\ Members(r) = Members(s) \ {s[i].pid}
      /\ Sorted(s) => Sorted(r)
  BY <1>1, <1>3, <1>31, RemovedEntry
<1>5. QED BY <1>1, <1>2, <1>3, <1>4

(***************************************************************************)
(* getlast and getfirst of a list that is not empty.                       *)
(***************************************************************************)
LEMMA ButLastProps ==
  ASSUME NEW P, NEW s \in Seq(Records(P)), s # EmptyQueue, Distinct(s)
  PROVE  /\ LastPid(s) \in Members(s)
         /\ ButLast(s) \in Seq(Records(P))
         /\ Distinct(ButLast(s))
         /\ Members(ButLast(s)) = Members(s) \ {LastPid(s)}
         /\ Sorted(s) => Sorted(ButLast(s))
<1> DEFINE n == Len(s)
           r == SubSeq(s, 1, n - 1)
<1>1. n \in Nat /\ n # 0 /\ \A j \in 1 .. n : s[j] \in Records(P)
  BY EmptySeq, LenProperties, ElementOfSeq DEF EmptyQueue
<1>2. /\ r \in Seq(Records(P))
      /\ Len(r) = IF 1 <= n - 1 THEN (n - 1) - 1 + 1 ELSE 0
      /\ \A j \in 1 .. (n - 1) - 1 + 1 : r[j] = s[1 + j - 1]
  <2>1. \A j \in 1 .. n - 1 : s[j] \in Records(P)
    BY <1>1
  <2> HIDE DEF n
  <2>2. QED BY <1>1, <2>1, SubSeqProperties, n - 1 \in Int
<1>3. ButLast(s) = r /\ LastPid(s) = s[n].pid
  BY DEF ButLast, LastPid
<1> HIDE DEF r
<1>4. LeftOut(s, r, n)
  <2>1. Len(r) = n - 1
    <3> HIDE DEF n
    <3> QED BY <1>1, <1>2
  <2>2. \A j \in 1 .. n - 1 : r[j] = s[j] /\ j < n
    BY <1>1, <1>2
  <2>3. QED BY <2>1, <2>2 DEF LeftOut
<1>5. n \in 1 .. Len(s)
  BY <1>1
<1> HIDE DEF n
<1>6. /\ Distinct(r) /\ Members(r) = Members(s) \ {s[n].pid}
      /\ Sorted(s) => Sorted(r)
  BY <1>2, <1>4, <1>5, RemovedEntry
<1>7. s[n].pid \in Members(s)
  BY <1>5, ListFacts
<1>8. QED BY <1>2, <1>3, <1>6, <1>7

LEMMA ButFirstProps ==
  ASSUME NEW P, NEW s \in Seq(Records(P)), s # EmptyQueue, Distinct(s)
  PROVE  /\ FirstPid(s) \in Members(s)
         /\ ButFirst(s) \in Seq(Records(P))
         /\ Len(ButFirst(s)) = Len(s) - 1
         /\ Distinct(ButFirst(s))
         /\ Members(ButFirst(s)) = Members(s) \ {FirstPid(s)}
<1> DEFINE r == Tail(s)
<1>1. Len(s) \in Nat /\ Len(s) # 0
  BY EmptySeq, LenProperties DEF EmptyQueue
<1>2. /\ r \in Seq(Records(P)) /\ Len(r) = Len(s) - 1
      /\ \A j \in 1 .. Len(s) - 1 : r[j] = s[j + 1]
      /\ Head(s) = s[1]
  BY <1>1, HeadTailProperties DEF EmptyQueue
<1>3. ButFirst(s) = r /\ FirstPid(s) = s[1].pid
  BY <1>2 DEF ButFirst, FirstPid
<1> HIDE DEF r
<1>4. 1 \in 1 .. Len(s)
  BY <1>1
<1>5. LeftOut(s, r, 1)
  BY <1>1, <1>2 DEF LeftOut
<1>6. Distinct(r) /\ Members(r) = Members(s) \ {s[1].pid}
  BY <1>2, <1>4, <1>5, RemovedEntry
<1>7. s[1].pid \in Members(s)
  BY <1>4, ListFacts
<1>8. QED BY <1>2, <1>3, <1>6, <1>7

(***************************************************************************)
(* enqueue(p, tail) of a process that is not on the list.                  *)
(***************************************************************************)
LEMMA EnqueueProps ==
  ASSUME NEW P, NEW s \in Seq(Records(P)), NEW p \in P
  PROVE  /\ Enqueue(s, p) \in Seq(Records(P))
         /\ Len(Enqueue(s, p)) = Len(s) + 1
         /\ Members(Enqueue(s, p)) = Members(s) \cup {p}
         /\ Distinct(s) /\ p \notin Members(s) => Distinct(Enqueue(s, p))
<1> DEFINE e == Entry(p, 0)
           r == Append(s, e)
<1>1. e \in Records(P) /\ e.pid = p
  BY EntryType
<1>2. Enqueue(s, p) = r
  BY DEF Enqueue
<1> HIDE DEF e
<1>3. /\ r \in Seq(Records(P)) /\ Len(r) = Len(s) + 1
      /\ \A j \in 1 .. Len(s) : r[j] = s[j]
      /\ r[Len(s) + 1] = e
  BY <1>1, AppendProperties
<1> HIDE DEF r
<1>4. /\ Len(s) \in Nat /\ DOMAIN s = 1 .. Len(s)
      /\ DOMAIN r = 1 .. Len(s) + 1
  BY <1>3, LenProperties
<1>5. \A j \in 1 .. Len(s) + 1 : j \in 1 .. Len(s) \/ j = Len(s) + 1
  BY <1>4
<1>6. Members(r) = Members(s) \cup {p}
  <2>1. Members(r) \subseteq Members(s) \cup {p}
    BY <1>1, <1>3, <1>4, <1>5 DEF Members
  <2>2. Members(s) \cup {p} \subseteq Members(r)
    <3>1. 1 .. Len(s) \subseteq 1 .. Len(s) + 1 /\ Len(s) + 1 \in 1 .. Len(s) + 1
      BY <1>4
    <3>2. QED BY <1>1, <1>3, <1>4, <3>1 DEF Members
  <2>3. QED BY <2>1, <2>2
<1>7. ASSUME Distinct(s), p \notin Members(s)
      PROVE  Distinct(r)
  <2>1. \A j \in 1 .. Len(s) : r[j].pid \in Members(s)
    BY <1>3, <1>4 DEF Members
  <2>2. \A j, m \in 1 .. Len(s) : r[j].pid = r[m].pid => j = m
    BY <1>3, <1>4, <1>7 DEF Distinct
  <2>3. QED BY <1>1, <1>3, <1>4, <1>5, <1>7, <2>1, <2>2 DEF Distinct
<1>8. QED BY <1>2, <1>3, <1>6, <1>7

LEMMA EmptyQueueProps ==
  ASSUME NEW P
  PROVE  /\ EmptyQueue \in Seq(Records(P))
         /\ Members(EmptyQueue) = {} /\ Distinct(EmptyQueue)
         /\ Sorted(EmptyQueue) /\ Len(EmptyQueue) = 0
  BY EmptySeq, DOMAIN EmptyQueue = {} DEF EmptyQueue, Members, Distinct, Sorted

LEMMA EmptyQueueLen ==
  ASSUME NEW P, NEW s \in Seq(Records(P))
  PROVE  /\ s = EmptyQueue <=> Len(s) = 0
         /\ s = EmptyQueue <=> Members(s) = {}
<1>1. s = EmptyQueue <=> Len(s) = 0
  BY EmptySeq, LenProperties DEF EmptyQueue
<1>2. Len(s) \in Nat /\ DOMAIN s = 1 .. Len(s)
  BY LenProperties
<1>3. Len(s) # 0 => 1 \in DOMAIN s
  BY <1>2
<1>4. Members(s) # {} <=> DOMAIN s # {}
  BY DEF Members
<1>5. Len(s) = 0 => DOMAIN s = {}
  BY <1>2
<1>6. QED BY <1>1, <1>3, <1>4, <1>5

----------------------------------------------------------------------------
(* insert(p, head, key).                                                   *)

(***************************************************************************)
(* The walk of insert ends: at the first key that is not below k, or past  *)
(* the last entry.                                                         *)
(***************************************************************************)
LEMMA InsertPosProps ==
  ASSUME NEW P, NEW s \in Seq(Records(P)), NEW k \in Int
  PROVE  /\ InsertPos(s, k) \in 1 .. Len(s) + 1
         /\ InsertPos(s, k) <= Len(s) => s[InsertPos(s, k)].key >= k
         /\ \A j \in 1 .. InsertPos(s, k) - 1 : s[j].key < k
<1> DEFINE T == { n \in 1 .. Len(s) + 1 : n <= Len(s) => s[n].key >= k }
<1>1. /\ Len(s) \in Nat
      /\ \A j \in 1 .. Len(s) : s[j].key \in Int
  BY ListFacts
<1>2. Len(s) + 1 \in T /\ T \subseteq Nat
  BY <1>1
<1>3. PICK m \in T : \A n \in T : m <= n
  <2> HIDE DEF T
  <2> QED BY <1>2, LeastNat
<1>4. m \in 1 .. Len(s) + 1 /\ (m <= Len(s) => s[m].key >= k)
  BY <1>3
<1>5. ASSUME NEW j \in 1 .. m - 1
      PROVE  s[j].key < k
  <2>1. j \notin T
    <3> HIDE DEF T
    <3> QED BY <1>1, <1>3, <1>4
  <2>2. j \in 1 .. Len(s)
    BY <1>1, <1>4
  <2>3. QED BY <1>1, <2>1, <2>2
<1>6. QED BY <1>4, <1>5 DEF InsertPos

LEMMA InsertProps ==
  ASSUME NEW P, NEW s \in Seq(Records(P)), NEW p \in P, NEW k \in Int,
         p \notin Members(s), Distinct(s)
  PROVE  /\ Insert(s, p, k) \in Seq(Records(P))
         /\ Distinct(Insert(s, p, k))
         /\ Members(Insert(s, p, k)) = Members(s) \cup {p}
         /\ Sorted(s) => Sorted(Insert(s, p, k))
<1> DEFINE i == InsertPos(s, k)
           e == Entry(p, k)
           r == Ext!InsertAt(s, i, e)
<1>1. /\ i \in 1 .. Len(s) + 1
      /\ i <= Len(s) => s[i].key >= k
      /\ \A j \in 1 .. i - 1 : s[j].key < k
  BY InsertPosProps
<1>2. e \in Records(P) /\ e.key = k
  BY EntryType
<1>3. Insert(s, p, k) = r
  BY DEF Insert
<1> HIDE DEF i
<1>4. /\ r \in Seq(Records(P)) /\ Distinct(r)
      /\ Members(r) = Members(s) \cup {p}
  BY <1>1, InsertedEntry
<1> HIDE DEF e
<1>5. /\ Len(r) = Len(s) + 1
      /\ \A j \in 1 .. Len(s) + 1 :
           r[j] = IF j < i THEN s[j] ELSE IF j = i THEN e ELSE s[j - 1]
  BY <1>1, <1>2, InsertAtProps, SMTT(30)
<1> HIDE DEF r
<1>6. /\ Len(s) \in Nat /\ DOMAIN s = 1 .. Len(s)
      /\ DOMAIN r = 1 .. Len(s) + 1
      /\ \A j \in 1 .. Len(s) : s[j].key \in Int
  BY <1>4, <1>5, LenProperties, ListFacts
<1>7. ASSUME Sorted(s)
      PROVE  Sorted(r)
  <2>1. \A j, m \in 1 .. Len(s) : j <= m => s[j].key <= s[m].key
    BY <1>6, <1>7 DEF Sorted
  <2>2. ASSUME NEW j \in 1 .. Len(s) + 1, j < i
        PROVE  j \in 1 .. Len(s) /\ r[j].key = s[j].key /\ r[j].key < k
    BY <1>1, <1>5, <1>6, <2>2
  <2>3. ASSUME NEW j \in 1 .. Len(s) + 1, j > i
        PROVE  /\ j - 1 \in 1 .. Len(s) /\ r[j].key = s[j - 1].key
               /\ r[j].key >= k
    <3>1. j - 1 \in 1 .. Len(s) /\ r[j].key = s[j - 1].key
      BY <1>1, <1>5, <1>6, <2>3
    <3>2. i \in 1 .. Len(s) /\ i <= j - 1
      BY <1>1, <1>6, <2>3
    <3>3. s[i].key <= s[j - 1].key /\ s[i].key >= k
      BY <1>1, <2>1, <3>1, <3>2
    <3>4. QED BY <1>6, <3>1, <3>2, <3>3
  <2>4. r[i].key = k
    BY <1>1, <1>2, <1>5
  <2>5. ASSUME NEW j \in 1 .. Len(s) + 1, NEW m \in 1 .. Len(s) + 1, j <= m
        PROVE  r[j].key <= r[m].key
    <3>1. CASE j < i /\ m < i
      BY <2>1, <2>2, <2>5, <3>1
    <3>2. CASE j < i /\ m = i
      BY <1>6, <2>2, <2>4, <3>2
    <3>3. CASE j < i /\ m > i
      BY <1>6, <2>2, <2>3, <3>3
    <3>4. CASE j = i /\ m = i
      BY <2>4, <3>4
    <3>5. CASE j = i /\ m > i
      BY <1>6, <2>3, <2>4, <3>5
    <3>6. CASE j > i /\ m > i
      <4>1. j - 1 <= m - 1
        BY <2>5
      <4>2. QED BY <2>1, <2>3, <3>6, <4>1
    <3>7. QED BY <1>1, <2>5, <3>1, <3>2, <3>3, <3>4, <3>5, <3>6
  <2>6. QED BY <1>6, <2>5 DEF Sorted
<1>8. QED BY <1>3, <1>4, <1>7

----------------------------------------------------------------------------
(* The delta list.                                                         *)

\* r is s with other keys.
SamePids(s, r) ==
  Len(r) = Len(s) /\ \A j \in 1 .. Len(s) : r[j].pid = s[j].pid

LEMMA SamePidsProps ==
  ASSUME NEW P, NEW s \in Seq(Records(P)), NEW r \in Seq(Records(P)),
         SamePids(s, r)
  PROVE  /\ Members(r) = Members(s)
         /\ Distinct(s) => Distinct(r)
         /\ r = EmptyQueue <=> s = EmptyQueue
         /\ s # EmptyQueue => FirstPid(r) = FirstPid(s)
<1>1. /\ Len(s) \in Nat /\ DOMAIN s = 1 .. Len(s) /\ DOMAIN r = 1 .. Len(s)
      /\ \A j \in 1 .. Len(s) : r[j].pid = s[j].pid
  BY LenProperties DEF SamePids
<1>2. r = EmptyQueue <=> s = EmptyQueue
  BY EmptyQueueLen DEF SamePids
<1>3. Members(r) = Members(s)
  BY <1>1, Zenon DEF Members
<1>4. Distinct(s) => Distinct(r)
  BY <1>1 DEF Distinct
<1>5. ASSUME s # EmptyQueue
      PROVE  FirstPid(r) = FirstPid(s)
  <2>1. 1 \in 1 .. Len(s)
    BY <1>1, <1>5, EmptyQueueLen
  <2>2. Head(s) = s[1] /\ Head(r) = r[1]
    OBVIOUS
  <2>3. QED BY <1>1, <2>1, <2>2 DEF FirstPid
<1>6. QED BY <1>2, <1>3, <1>4, <1>5

LEMMA RekeyProps ==
  ASSUME NEW P, NEW s \in Seq(Records(P)), NEW i \in 1 .. Len(s), NEW k \in Int
  PROVE  /\ [s EXCEPT ![i].key = k] \in Seq(Records(P))
         /\ SamePids(s, [s EXCEPT ![i].key = k])
<1> DEFINE e == [s[i] EXCEPT !.key = k]
           r == [s EXCEPT ![i] = e]
<1>1. s[i] \in Records(P)
  BY ElementOfSeq
<1>2. e \in Records(P) /\ e.pid = s[i].pid
  BY <1>1 DEF Records
<1>3. [s EXCEPT ![i].key = k] = r
  OBVIOUS
<1> HIDE DEF e
<1>4. /\ r \in Seq(Records(P)) /\ Len(r) = Len(s)
      /\ \A j \in 1 .. Len(s) : r[j] = IF j = i THEN e ELSE s[j]
  BY <1>2, ExceptSeq
<1> HIDE DEF r
<1>5. SamePids(s, r)
  BY <1>2, <1>4 DEF SamePids
<1>6. QED BY <1>3, <1>4, <1>5

(***************************************************************************)
(* The sums of insertd exist: a partial sum for the first n entries can    *)
(* always be carried on to the next one.                                   *)
(***************************************************************************)
PartialSum(s, n, f) ==
  f = [i \in 0 .. n |-> IF i = 0 THEN 0 ELSE f[i - 1] + s[i].key]

LEMMA PartialSumExtends ==
  ASSUME NEW s, NEW n \in Nat, NEW f, PartialSum(s, n, f)
  PROVE  PartialSum(s, n + 1,
           [i \in 0 .. n + 1 |-> IF i = n + 1 THEN f[n] + s[n + 1].key ELSE f[i]])
<1> DEFINE g == [i \in 0 .. n + 1 |->
                   IF i = n + 1 THEN f[n] + s[n + 1].key ELSE f[i]]
           h == [i \in 0 .. n + 1 |-> IF i = 0 THEN 0 ELSE g[i - 1] + s[i].key]
<1>1. ASSUME NEW i \in 0 .. n + 1
      PROVE  g[i] = h[i]
  <2>1. CASE i = n + 1
    BY <2>1
  <2>2. CASE i \in 0 .. n
    <3>1. f[i] = IF i = 0 THEN 0 ELSE f[i - 1] + s[i].key
      BY <2>2 DEF PartialSum
    <3>2. g[i] = f[i]
      BY <2>2
    <3>3. i # 0 => g[i - 1] = f[i - 1]
      BY <2>2
    <3>4. QED BY <3>1, <3>2, <3>3
  <2>3. QED BY <2>1, <2>2
<1>2. g = h
  BY <1>1
<1>3. QED BY <1>2 DEF PartialSum

LEMMA PartialSumExists ==
  ASSUME NEW s, NEW n \in Nat
  PROVE  \E f : PartialSum(s, n, f)
<1> DEFINE T == { m \in Nat : ~ \E f : PartialSum(s, m, f) }
<1>1. SUFFICES ASSUME T # {} PROVE FALSE
  OBVIOUS
<1>2. PICK m \in T : \A j \in T : m <= j
  <2> T \subseteq Nat
    OBVIOUS
  <2> HIDE DEF T
  <2> QED BY <1>1, LeastNat
<1>3. m # 0
  <2>1. PartialSum(s, 0, [i \in 0 .. 0 |-> 0])
    BY 0 .. 0 = {0} DEF PartialSum
  <2>2. QED BY <1>2, <2>1
<1>4. PICK f : PartialSum(s, m - 1, f)
  <2>1. m - 1 \in Nat /\ m - 1 \notin T
    BY <1>2, <1>3
  <2>2. QED BY <2>1
<1>5. \E g : PartialSum(s, (m - 1) + 1, g)
  BY <1>2, <1>3, <1>4, PartialSumExtends, m - 1 \in Nat
<1>6. QED BY <1>2, <1>5, (m - 1) + 1 = m

LEMMA BeforeProps ==
  ASSUME NEW P, NEW s \in Seq(Records(P))
  PROVE  /\ PartialSum(s, Len(s), Before(s))
         /\ \A i \in 0 .. Len(s) : Before(s)[i] \in Int
<1>1. Len(s) \in Nat /\ \A j \in 1 .. Len(s) : s[j].key \in Int
  BY ListFacts
<1>2. PartialSum(s, Len(s), Before(s))
  <2>1. \E f : PartialSum(s, Len(s), f)
    BY <1>1, PartialSumExists
  <2>2. Before(s) = CHOOSE f : PartialSum(s, Len(s), f)
    BY Zenon DEF Before, PartialSum
  <2>3. QED BY <2>1, <2>2
<1> DEFINE B == Before(s)
<1>3. \A i \in 0 .. Len(s) : B[i] = IF i = 0 THEN 0 ELSE B[i - 1] + s[i].key
  <2>1. B = [i \in 0 .. Len(s) |-> IF i = 0 THEN 0 ELSE B[i - 1] + s[i].key]
    BY <1>2 DEF PartialSum
  <2> HIDE DEF B
  <2>2. QED BY <2>1
<1> HIDE DEF B
<1>4. \A i \in 0 .. Len(s) : B[i] \in Int
  <2> DEFINE T == { i \in 0 .. Len(s) : B[i] \notin Int }
  <2>1. SUFFICES ASSUME T # {} PROVE FALSE
    OBVIOUS
  <2>2. PICK m \in T : \A j \in T : m <= j
    <3>1. T \subseteq Nat
      BY <1>1
    <3> HIDE DEF T
    <3>2. QED BY <2>1, <3>1, LeastNat
  <2>3. m \in 0 .. Len(s) /\ B[m] \notin Int
    BY <2>2
  <2>4. m # 0
    BY <1>1, <1>3, <2>3
  <2>5. m - 1 \in 0 .. Len(s) /\ m - 1 \notin T /\ m \in 1 .. Len(s)
    <3>1. m - 1 \in 0 .. Len(s) /\ m \in 1 .. Len(s)
      BY <1>1, <2>3, <2>4
    <3> HIDE DEF T
    <3>2. QED BY <1>1, <2>2, <2>3, <3>1
  <2>6. B[m - 1] \in Int
    BY <2>5
  <2>7. QED BY <1>1, <1>3, <2>3, <2>4, <2>5, <2>6
<1>5. QED BY <1>2, <1>4 DEF B

LEMMA InsertDPosProps ==
  ASSUME NEW P, NEW s \in Seq(Records(P)), NEW k \in Int
  PROVE  /\ InsertDPos(s, k) \in 1 .. Len(s) + 1
         /\ k - Before(s)[InsertDPos(s, k) - 1] \in Int
         /\ InsertDPos(s, k) <= Len(s) =>
              s[InsertDPos(s, k)].key >= k - Before(s)[InsertDPos(s, k) - 1]
         /\ \A j \in 1 .. InsertDPos(s, k) - 1 : s[j].key < k - Before(s)[j - 1]
<1> DEFINE B == Before(s)
           T == { n \in 1 .. Len(s) + 1 :
                    n <= Len(s) => s[n].key >= k - B[n - 1] }
<1>1. /\ Len(s) \in Nat
      /\ \A j \in 1 .. Len(s) : s[j].key \in Int
      /\ \A j \in 0 .. Len(s) : B[j] \in Int
  BY ListFacts, BeforeProps
<1> HIDE DEF B
<1>2. Len(s) + 1 \in T /\ T \subseteq Nat
  BY <1>1
<1>3. PICK m \in T : \A n \in T : m <= n
  <2> HIDE DEF T
  <2> QED BY <1>2, LeastNat
<1>4. /\ m \in 1 .. Len(s) + 1
      /\ m <= Len(s) => s[m].key >= k - B[m - 1]
  BY <1>3
<1>5. ASSUME NEW j \in 1 .. m - 1
      PROVE  s[j].key < k - B[j - 1]
  <2>1. j \notin T
    <3> HIDE DEF T
    <3> QED BY <1>1, <1>3, <1>4
  <2>2. j \in 1 .. Len(s) /\ j - 1 \in 0 .. Len(s)
    BY <1>1, <1>4
  <2>3. s[j].key \in Int /\ B[j - 1] \in Int
    BY <1>1, <2>2
  <2>4. QED BY <1>1, <2>1, <2>2, <2>3
<1>6. /\ InsertDPos(s, k) \in 1 .. Len(s) + 1
      /\ InsertDPos(s, k) <= Len(s) =>
           s[InsertDPos(s, k)].key >= k - B[InsertDPos(s, k) - 1]
      /\ \A j \in 1 .. InsertDPos(s, k) - 1 : s[j].key < k - B[j - 1]
  BY <1>4, <1>5 DEF InsertDPos, B
<1>7. InsertDPos(s, k) - 1 \in 0 .. Len(s)
  BY <1>1, <1>6
<1>8. QED BY <1>1, <1>6, <1>7 DEF B

(***************************************************************************)
(* insertd adds the process, whatever it does to the other keys.           *)
(***************************************************************************)
LEMMA InsertDProps ==
  ASSUME NEW P, NEW s \in Seq(Records(P)), NEW p \in P, NEW k \in Int,
         p \notin Members(s), Distinct(s)
  PROVE  /\ InsertD(s, p, k) \in Seq(Records(P))
         /\ Distinct(InsertD(s, p, k))
         /\ Members(InsertD(s, p, k)) = Members(s) \cup {p}
<1> DEFINE i     == InsertDPos(s, k)
           delta == k - Before(s)[i - 1]
           rest  == IF i <= Len(s)
                    THEN [s EXCEPT ![i].key = @ - delta] ELSE s
           r     == Ext!InsertAt(rest, i, Entry(p, delta))
<1>1. i \in 1 .. Len(s) + 1 /\ delta \in Int
  BY InsertDPosProps
<1>2. InsertD(s, p, k) = r
  BY DEF InsertD
<1> HIDE DEF i, delta
<1>3. /\ rest \in Seq(Records(P)) /\ SamePids(s, rest)
  <2>1. CASE i <= Len(s)
    <3>1. i \in 1 .. Len(s) /\ s[i].key \in Int
      BY <1>1, <2>1, ListFacts
    <3> DEFINE x == s[i].key - delta
    <3>2. x \in Int
      BY <1>1, <3>1
    <3>3. rest = [s EXCEPT ![i].key = x]
      BY <2>1
    <3> HIDE DEF x
    <3>4. QED BY <3>1, <3>2, <3>3, RekeyProps
  <2>2. CASE ~(i <= Len(s))
    BY <2>2 DEF SamePids
  <2>3. QED BY <2>1, <2>2
<1> HIDE DEF rest
<1>4. Members(rest) = Members(s) /\ Distinct(rest) /\ Len(rest) = Len(s)
  BY <1>3, SamePidsProps DEF SamePids
<1>5. /\ r \in Seq(Records(P)) /\ Distinct(r)
      /\ Members(r) = Members(rest) \cup {p}
  BY <1>1, <1>3, <1>4, InsertedEntry
<1>6. QED BY <1>2, <1>4, <1>5
----------------------------------------------------------------------------
(* Times.  The time of a process on a delta list is its key and all keys   *)
(* before it.                                                              *)

TimeIn(s, p) == Before(s)[PosOf(s, p)]

LEMMA BeforeStep ==
  ASSUME NEW P, NEW s \in Seq(Records(P))
  PROVE  /\ Before(s)[0] = 0
         /\ \A i \in 1 .. Len(s) : Before(s)[i] = Before(s)[i - 1] + s[i].key
<1> DEFINE B == Before(s)
<1>1. Len(s) \in Nat
  BY ListFacts
<1>2. B = [i \in 0 .. Len(s) |-> IF i = 0 THEN 0 ELSE B[i - 1] + s[i].key]
  BY BeforeProps DEF PartialSum
<1> HIDE DEF B
<1>3. \A i \in 0 .. Len(s) : B[i] = IF i = 0 THEN 0 ELSE B[i - 1] + s[i].key
  BY <1>2
<1>4. QED BY <1>1, <1>3 DEF B

\* After place a of s and place b of r come n entries with the same keys.
SameKeys(s, a, r, b, n) == \A j \in 1 .. n : r[b + j].key = s[a + j].key

Spaced(s, a, r, b, n, d) == \A j \in 0 .. n : Before(r)[b + j] = Before(s)[a + j] + d

(***************************************************************************)
(* Two lists with the same keys on a stretch: their sums, once d apart,    *)
(* stay d apart.                                                           *)
(***************************************************************************)
LEMMA SumsApart ==
  ASSUME NEW P, NEW s \in Seq(Records(P)), NEW r \in Seq(Records(P)),
         NEW a \in Nat, NEW b \in Nat, NEW n \in Nat, NEW d \in Int,
         a + n <= Len(s), b + n <= Len(r),
         Before(r)[b] = Before(s)[a] + d, SameKeys(s, a, r, b, n)
  PROVE  Spaced(s, a, r, b, n, d)
<1> DEFINE B == Before(s)
           C == Before(r)
           T == { j \in 0 .. n : C[b + j] # B[a + j] + d }
<1>1. /\ Len(s) \in Nat /\ Len(r) \in Nat
      /\ \A j \in 1 .. Len(s) : s[j].key \in Int /\ B[j] = B[j - 1] + s[j].key
      /\ \A j \in 1 .. Len(r) : C[j] = C[j - 1] + r[j].key
      /\ \A j \in 0 .. Len(s) : B[j] \in Int
  BY ListFacts, BeforeProps, BeforeStep
<1>2. C[b] = B[a] + d
  OBVIOUS
<1> HIDE DEF B, C
<1>3. SUFFICES ASSUME T # {} PROVE FALSE
  BY DEF B, C, Spaced
<1>4. PICK m \in T : \A j \in T : m <= j
  <2>1. T \subseteq Nat
    OBVIOUS
  <2> HIDE DEF T
  <2>2. QED BY <1>3, <2>1, LeastNat
<1>5. m \in 0 .. n /\ C[b + m] # B[a + m] + d
  BY <1>4
<1>6. m # 0
  BY <1>2, <1>5
<1>7. C[b + (m - 1)] = B[a + (m - 1)] + d
  <2>1. m - 1 \in 0 .. n /\ ~ (m <= m - 1)
    BY <1>5, <1>6
  <2>2. m - 1 \notin T
    <3> HIDE DEF T
    <3>1. QED BY <1>4, <2>1
  <2>3. QED BY <2>1, <2>2
<1>8. /\ C[b + m] = C[(b + m) - 1] + r[b + m].key
      /\ B[a + m] = B[(a + m) - 1] + s[a + m].key
      /\ r[b + m].key = s[a + m].key
      /\ s[a + m].key \in Int /\ B[(a + m) - 1] \in Int
  <2>1. /\ b + m \in 1 .. Len(r) /\ a + m \in 1 .. Len(s) /\ m \in 1 .. n
        /\ (a + m) - 1 \in 0 .. Len(s)
    <3>1. m \in 0 .. n /\ m # 0 /\ Len(s) \in Nat /\ Len(r) \in Nat
      BY <1>1, <1>5, <1>6
    <3>2. QED BY <3>1
  <2>2. QED BY <1>1, <2>1 DEF SameKeys
<1>9. b + (m - 1) = (b + m) - 1 /\ a + (m - 1) = (a + m) - 1
  BY <1>5
<1>10. QED BY <1>5, <1>7, <1>8, <1>9, SMTT(30)

LEMMA PosOfUnique ==
  ASSUME NEW P, NEW s \in Seq(Records(P)), Distinct(s), NEW i \in 1 .. Len(s)
  PROVE  PosOf(s, s[i].pid) = i
<1>1. DOMAIN s = 1 .. Len(s)
  BY LenProperties
<1>2. QED BY <1>1 DEF PosOf, Distinct

\* No key is negative.
LateOrNow(s) == \A i \in 1 .. Len(s) : s[i].key >= 0

LEMMA TimesPositive ==
  ASSUME NEW P, NEW s \in Seq(Records(P)), LateOrNow(s), Len(s) > 0
  PROVE  \A i \in 1 .. Len(s) : Before(s)[i] >= s[1].key
<1> DEFINE B == Before(s)
           T == { i \in 1 .. Len(s) : ~ (B[i] >= s[1].key) }
<1>1. /\ Len(s) \in Nat /\ B[0] = 0
      /\ \A j \in 1 .. Len(s) : /\ s[j].key \in Int /\ s[j].key >= 0
                                /\ B[j] = B[j - 1] + s[j].key
      /\ \A j \in 0 .. Len(s) : B[j] \in Int
  BY ListFacts, BeforeProps, BeforeStep DEF LateOrNow
<1> HIDE DEF B
<1>2. SUFFICES ASSUME T # {} PROVE FALSE
  BY DEF B
<1>3. PICK m \in T : \A j \in T : m <= j
  <2>1. T \subseteq Nat
    BY <1>1
  <2> HIDE DEF T
  <2>2. QED BY <1>2, <2>1, LeastNat
<1>4. m \in 1 .. Len(s) /\ ~ (B[m] >= s[1].key)
  BY <1>3
<1>5. m # 1
  <2>1. B[1] = B[1 - 1] + s[1].key /\ s[1].key \in Int
    BY <1>1, 1 \in 1 .. Len(s)
  <2>2. QED BY <1>1, <1>4, <2>1
<1>6. m - 1 \in 1 .. Len(s) /\ ~ (m <= m - 1)
  BY <1>1, <1>4, <1>5
<1>7. m - 1 \notin T
  <2> HIDE DEF T
  <2>1. QED BY <1>3, <1>6
<1>8. B[m - 1] >= s[1].key
  BY <1>6, <1>7
<1>9. /\ B[m] = B[m - 1] + s[m].key /\ B[m - 1] \in Int
      /\ s[m].key \in Int /\ s[m].key >= 0 /\ s[1].key \in Int
  BY <1>1, <1>4, <1>6
<1>10. QED BY <1>4, <1>8, <1>9

\* Positions of one process in two lists give its time in one from the other's.
LEMMA TimesApart ==
  ASSUME NEW P, NEW s \in Seq(Records(P)), NEW r \in Seq(Records(P)),
         Distinct(s), Distinct(r), NEW i \in 1 .. Len(s), NEW j \in 1 .. Len(r),
         s[i].pid = r[j].pid, NEW d, Before(r)[j] = Before(s)[i] + d
  PROVE  TimeIn(r, s[i].pid) = TimeIn(s, s[i].pid) + d
<1>1. PosOf(s, s[i].pid) = i /\ PosOf(r, r[j].pid) = j
  BY PosOfUnique
<1>2. QED BY <1>1 DEF TimeIn

LEMMA MemberPlace ==
  ASSUME NEW P, NEW s \in Seq(Records(P)), NEW q \in Members(s)
  PROVE  \E i \in 1 .. Len(s) : s[i].pid = q
  BY LenProperties DEF Members

LEMMA TimeType ==
  ASSUME NEW P, NEW s \in Seq(Records(P)), NEW q \in Members(s)
  PROVE  TimeIn(s, q) \in Int
<1>1. PosOf(s, q) \in 1 .. Len(s) /\ Len(s) \in Nat
  BY PosOfMember, ListFacts
<1>2. QED BY <1>1, BeforeProps DEF TimeIn

(***************************************************************************)
(* insertd gives the new process the time asked for, and nobody else's     *)
(* time changes.                                                           *)
(***************************************************************************)
LEMMA InsertDTimes ==
  ASSUME NEW P, NEW s \in Seq(Records(P)), NEW p \in P, NEW k \in Nat \ {0},
         p \notin Members(s), Distinct(s), LateOrNow(s)
  PROVE  /\ LateOrNow(InsertD(s, p, k))
         /\ TimeIn(InsertD(s, p, k), p) = k
         /\ \A q \in Members(s) : TimeIn(InsertD(s, p, k), q) = TimeIn(s, q)
         /\ (s # EmptyQueue => s[1].key > 0) => InsertD(s, p, k)[1].key > 0
<1> DEFINE i     == InsertDPos(s, k)
           B     == Before(s)
           delta == k - B[i - 1]
           rest  == IF i <= Len(s)
                    THEN [s EXCEPT ![i].key = @ - delta] ELSE s
           r     == InsertD(s, p, k)
           C     == Before(r)
           e     == Entry(p, delta)
<1>1. /\ i \in 1 .. Len(s) + 1 /\ delta \in Int
      /\ i <= Len(s) => s[i].key >= delta
      /\ \A j \in 1 .. i - 1 : s[j].key < k - B[j - 1]
  BY InsertDPosProps, k \in Int
<1>2. r = Ext!InsertAt(rest, i, e)
  BY DEF InsertD
<1>3. /\ r \in Seq(Records(P)) /\ Distinct(r) /\ r \in Seq(Records(P))
  BY InsertDProps
<1>4. /\ Len(s) \in Nat /\ DOMAIN s = 1 .. Len(s)
      /\ B[0] = 0
      /\ \A j \in 1 .. Len(s) : /\ s[j].key \in Int /\ s[j] \in Records(P)
                                /\ B[j] = B[j - 1] + s[j].key /\ s[j].key >= 0
      /\ \A j \in 0 .. Len(s) : B[j] \in Int
  BY ListFacts, BeforeProps, BeforeStep, ElementOfSeq DEF LateOrNow
<1>5. C[0] = 0 /\ \A j \in 1 .. Len(r) : C[j] = C[j - 1] + r[j].key
  BY <1>3, BeforeStep
<1>6. e \in Records(P) /\ e.pid = p /\ e.key = delta
  BY <1>1, EntryType
<1>7. B[i - 1] \in Int /\ k = B[i - 1] + delta /\ i \in Nat
  <2>1. i - 1 \in 0 .. Len(s)
    BY <1>1, <1>4
  <2>2. B[i - 1] \in Int
    BY <1>4, <2>1
  <2>3. QED BY <1>1, <1>4, <2>2
<1> HIDE DEF i, B, e, C
<1> HIDE DEF r
<1>8. delta > 0
  <2>1. CASE i = 1
    BY <1>4, <1>7, <2>1
  <2>2. CASE i # 1
    <3>1. i - 1 \in 1 .. i - 1 /\ i - 1 \in 1 .. Len(s) /\ (i - 1) - 1 \in 0 .. Len(s)
      BY <1>1, <1>4, <2>2
    <3>2. /\ s[i - 1].key < k - B[(i - 1) - 1] /\ B[(i - 1) - 1] \in Int
          /\ B[i - 1] = B[(i - 1) - 1] + s[i - 1].key /\ s[i - 1].key \in Int
      BY <1>1, <1>4, <3>1
    <3>3. QED BY <1>7, <3>2
  <2>3. QED BY <2>1, <2>2
<1>9. /\ rest \in Seq(Records(P)) /\ Len(rest) = Len(s)
      /\ \A j \in 1 .. Len(s) :
           /\ rest[j].pid = s[j].pid
           /\ rest[j].key = IF j = i THEN s[j].key - delta ELSE s[j].key
  <2>1. CASE i <= Len(s)
    <3>1. i \in 1 .. Len(s) /\ s[i] \in Records(P) /\ s[i].key - delta \in Int
      BY <1>1, <1>4, <2>1
    <3> DEFINE x == [s[i] EXCEPT !.key = @ - delta]
    <3>2. x \in Records(P) /\ x.pid = s[i].pid /\ x.key = s[i].key - delta
      BY <3>1 DEF Records
    <3>3. rest = [s EXCEPT ![i] = x]
      BY <2>1
    <3> HIDE DEF x, rest, delta
    <3>4. /\ rest \in Seq(Records(P)) /\ Len(rest) = Len(s)
          /\ \A j \in 1 .. Len(s) : rest[j] = IF j = i THEN x ELSE s[j]
      BY <3>1, <3>2, <3>3, ExceptSeq
    <3>5. QED BY <3>2, <3>4
  <2>2. CASE ~ (i <= Len(s))
    BY <1>1, <1>4, <2>2
  <2>3. QED BY <2>1, <2>2
<1> HIDE DEF rest, delta
<1>10. /\ Len(r) = Len(s) + 1
       /\ \A j \in 1 .. Len(s) + 1 :
            r[j] = IF j < i THEN rest[j] ELSE IF j = i THEN e ELSE rest[j - 1]
  BY <1>1, <1>2, <1>6, <1>9, InsertAtProps, SMTT(30)
<1>11. \A j \in 1 .. i - 1 : r[j].pid = s[j].pid /\ r[j].key = s[j].key
  <2>1. ASSUME NEW j \in 1 .. i - 1
        PROVE  r[j].pid = s[j].pid /\ r[j].key = s[j].key
    <3>1. j \in 1 .. Len(s) + 1 /\ j \in 1 .. Len(s) /\ j < i /\ j # i
      BY <1>1, <1>4
    <3>2. QED BY <1>9, <1>10, <3>1
  <2>2. QED BY <2>1
<1>12. r[i].pid = p /\ r[i].key = delta
  BY <1>1, <1>6, <1>10
<1>13. \A j \in i .. Len(s) :
         /\ r[j + 1].pid = s[j].pid
         /\ r[j + 1].key = IF j = i THEN s[j].key - delta ELSE s[j].key
  <2>1. ASSUME NEW j \in i .. Len(s)
        PROVE  /\ r[j + 1].pid = s[j].pid
               /\ r[j + 1].key = IF j = i THEN s[j].key - delta ELSE s[j].key
    <3>1. /\ j + 1 \in 1 .. Len(s) + 1 /\ j \in 1 .. Len(s)
          /\ ~ (j + 1 < i) /\ j + 1 # i /\ (j + 1) - 1 = j
      BY <1>1, <1>4, <1>7
    <3>2. r[j + 1] = rest[j]
      BY <1>10, <3>1
    <3>3. QED BY <1>9, <3>1, <3>2
  <2>2. QED BY <2>1
<1>14. \A j \in 0 .. i - 1 : C[j] = B[j]
  <2> DEFINE n == i - 1
             z == 0
  <2>1. /\ n \in Nat /\ z \in Nat /\ z \in Int
        /\ z + n <= Len(s) /\ z + n <= Len(r)
    BY <1>1, <1>4, <1>7, <1>10
  <2>2. Before(r)[z] = Before(s)[z] + z
    BY <1>4, <1>5 DEF B, C
  <2>3. SameKeys(s, z, r, z, n)
    BY <1>11 DEF SameKeys
  <2>4. Spaced(s, z, r, z, n, z)
    <3> HIDE DEF n, z
    <3>1. QED BY <1>3, <2>1, <2>2, <2>3, SumsApart
  <2>5. ASSUME NEW j \in 0 .. i - 1 PROVE C[j] = B[j]
    <3>1. z + j = j /\ B[j] \in Int /\ B[j] + z = B[j]
      <4>1. j \in 0 .. Len(s)
        BY <1>1, <1>4
      <4>2. B[j] \in Int
        BY <1>4, <4>1
      <4>3. QED BY <4>2
    <3>2. QED BY <2>4, <3>1 DEF B, C, Spaced
  <2>6. QED BY <2>5
<1>15. C[i] = k
  <2>1. i \in 1 .. Len(r) /\ i - 1 \in 0 .. i - 1
    BY <1>1, <1>4, <1>7, <1>10
  <2>2. QED BY <1>5, <1>7, <1>12, <1>14, <2>1
<1>16. \A j \in i .. Len(s) : C[j + 1] = B[j]
  <2>1. CASE i <= Len(s)
    <3>1. C[i + 1] = B[i]
      <4>1. /\ i + 1 \in 1 .. Len(r) /\ i \in 1 .. Len(s) /\ (i + 1) - 1 = i
            /\ i \in i .. Len(s)
        BY <1>1, <1>4, <1>7, <1>10, <2>1
      <4>2. C[i + 1] = C[i] + r[i + 1].key /\ r[i + 1].key = s[i].key - delta
        BY <1>5, <1>13, <4>1
      <4>3. B[i] = B[i - 1] + s[i].key /\ s[i].key \in Int
        BY <1>4, <4>1
      <4>4. QED BY <1>1, <1>7, <1>15, <4>2, <4>3, SMTT(30)
    <3> DEFINE n == Len(s) - i
               m == i + 1
               z == 0
    <3>2. /\ n \in Nat /\ m \in Nat /\ z \in Int
          /\ i + n <= Len(s) /\ m + n <= Len(r)
      BY <1>4, <1>7, <1>10, <2>1
    <3>3. Before(r)[m] = Before(s)[i] + z
      <4>1. i \in 0 .. Len(s)
        BY <1>1, <1>4, <2>1
      <4>2. B[i] \in Int
        BY <1>4, <4>1
      <4>3. QED BY <3>1, <4>2 DEF B, C
    <3>4. SameKeys(s, i, r, m, n)
      <4>1. ASSUME NEW j \in 1 .. n
            PROVE  r[m + j].key = s[i + j].key
        <5>1. i + j \in i .. Len(s) /\ i + j # i /\ (i + j) + 1 = m + j
          BY <1>4, <1>7
        <5>2. QED BY <1>13, <5>1
      <4>2. QED BY <4>1 DEF SameKeys
    <3>5. Spaced(s, i, r, m, n, z)
      <4> HIDE DEF n, m, z
      <4>1. QED BY <1>3, <1>7, <3>2, <3>3, <3>4, SumsApart
    <3>6. ASSUME NEW j \in i .. Len(s)
          PROVE  C[j + 1] = B[j]
      <4>1. /\ j - i \in 0 .. n /\ m + (j - i) = j + 1 /\ i + (j - i) = j
            /\ j \in 0 .. Len(s)
        BY <1>4, <1>7
      <4>2. B[j] \in Int
        BY <1>4, <4>1
      <4>3. Before(r)[m + (j - i)] = Before(s)[i + (j - i)] + z
        <5> HIDE DEF n, m, z
        <5>1. QED BY <3>5, <4>1 DEF Spaced
      <4>4. QED BY <4>1, <4>2, <4>3 DEF B, C
    <3>7. QED BY <3>6
  <2>2. CASE ~ (i <= Len(s))
    BY <1>4, <1>7, <2>2
  <2>3. QED BY <2>1, <2>2
<1>17. TimeIn(r, p) = k
  <2>1. i \in 1 .. Len(r)
    BY <1>1, <1>4, <1>10
  <2>2. PosOf(r, p) = i
    BY <1>3, <1>12, <2>1, PosOfUnique
  <2>3. QED BY <1>15, <2>2 DEF TimeIn, C
<1>18. ASSUME NEW q \in Members(s)
       PROVE  TimeIn(r, q) = TimeIn(s, q)
  <2>1. PICK j \in 1 .. Len(s) : s[j].pid = q
    BY MemberPlace
  <2>2. PICK m \in 1 .. Len(r) : r[m].pid = s[j].pid /\ C[m] = B[j]
    <3>1. CASE j < i
      <4>1. j \in 1 .. i - 1 /\ j \in 0 .. i - 1 /\ j \in 1 .. Len(r)
        BY <1>4, <1>7, <1>10, <3>1
      <4>2. QED BY <1>11, <1>14, <4>1
    <3>2. CASE ~ (j < i)
      <4>1. j \in i .. Len(s) /\ j + 1 \in 1 .. Len(r)
        BY <1>4, <1>7, <1>10, <3>2
      <4>2. QED BY <1>13, <1>16, <4>1
    <3>3. QED BY <3>1, <3>2
  <2>3. Before(r)[m] = Before(s)[j] + 0
    <3>1. B[j] \in Int
      BY <1>4
    <3>2. QED BY <2>2, <3>1 DEF B, C
  <2>4. TimeIn(r, q) = TimeIn(s, q) + 0
    BY <1>3, <2>1, <2>2, <2>3, TimesApart
  <2>5. QED BY <2>4, TimeType
<1>19. \A m \in 1 .. Len(r) : r[m].key >= 0
  <2>1. ASSUME NEW m \in 1 .. Len(r)
        PROVE  r[m].key >= 0
    <3>1. CASE m < i
      <4>1. m \in 1 .. i - 1 /\ m \in 1 .. Len(s)
        BY <1>1, <1>4, <1>7, <3>1
      <4>2. QED BY <1>4, <1>11, <4>1
    <3>2. CASE m = i
      BY <1>1, <1>8, <1>12, <3>2
    <3>3. CASE m > i
      <4>1. /\ m - 1 \in i .. Len(s) /\ (m - 1) + 1 = m /\ m - 1 \in 1 .. Len(s)
        BY <1>1, <1>4, <1>7, <1>10, <3>3
      <4>2. r[m].key = IF m - 1 = i THEN s[m - 1].key - delta ELSE s[m - 1].key
        BY <1>13, <4>1
      <4>3. s[m - 1].key \in Int /\ s[m - 1].key >= 0
        BY <1>4, <4>1
      <4>4. m - 1 = i => s[m - 1].key >= delta
        BY <1>1, <4>1
      <4>5. QED BY <1>1, <4>2, <4>3, <4>4
    <3>4. QED BY <1>7, <1>10, <3>1, <3>2, <3>3
  <2>2. QED BY <2>1
<1>20. ASSUME s # EmptyQueue => s[1].key > 0
       PROVE  r[1].key > 0
  <2>1. CASE i = 1
    BY <1>8, <1>12, <2>1
  <2>2. CASE i # 1
    <3>1. 1 \in 1 .. i - 1 /\ Len(s) # 0
      BY <1>1, <1>4, <1>7, <2>2
    <3>2. s # EmptyQueue
      BY <3>1, EmptyQueueLen
    <3>3. QED BY <1>11, <1>20, <3>1, <3>2
  <2>3. QED BY <2>1, <2>2
<1>21. QED BY <1>17, <1>18, <1>19, <1>20 DEF LateOrNow, r
=============================================================================
