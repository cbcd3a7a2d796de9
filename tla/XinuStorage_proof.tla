-------------------------- MODULE XinuStorage_proof --------------------------
(***************************************************************************)
(* Memory and the pools of buffers made of it.                             *)
(*                                                                         *)
(* The first part is about the allocator of XinuMemory: it keeps its free  *)
(* list apart, for every heap and every sequence of requests, and neither  *)
(* loses nor duplicates a word as long as stacks have an even number of    *)
(* words.  The second is about the buffer pools of XinuPools, for any      *)
(* number of processes, pools and buffers.                                 *)
(***************************************************************************)
EXTENDS XinuMemory, XinuPools, XinuQueue_proof, FiniteSetTheorems

(***************************************************************************)
(* The neighbours freemem looks for exist.  Both facts follow from the     *)
(* inclusion of finite sets being well founded: among the sets of what is  *)
(* greater (less) than an element of S there is a smallest.                *)
(***************************************************************************)
LEMMA Greatest ==
  ASSUME NEW S, S \subseteq Nat, S # {}, NEW n \in Nat, \A s \in S : s <= n
  PROVE  \E m \in S : \A s \in S : s <= m
<1> DEFINE Up(a) == { x \in S : a < x }
           T == { Up(a) : a \in S }
<1>1. IsFiniteSet(S)
  BY FS_BoundedSetOfNaturals
<1>2. T \subseteq FiniteSubsetsOf(S)
  BY <1>1, FS_Subset DEF FiniteSubsetsOf
<1>3. T # {}
  OBVIOUS
<1>4. PICK X \in T : \A Y \in T : <<Y, X>> \notin StrictSubsetOrdering(S)
  <2> HIDE DEF T
  <2> QED
    BY <1>2, <1>3, FS_StrictSubsetOrderingWellFounded, WFMin, Zenon
<1>5. PICK a \in S : X = Up(a)
  OBVIOUS
<1>6. \A b \in Up(a) : FALSE
  <2> SUFFICES ASSUME NEW b \in Up(a) PROVE FALSE
    OBVIOUS
  <2>1. b \in S /\ a < b /\ a \in Nat /\ b \in Nat
    OBVIOUS
  <2>2. b \notin Up(b) /\ \A x \in Up(b) : x \in S /\ a < x
    BY <2>1
  <2>3. <<Up(b), Up(a)>> \in StrictSubsetOrdering(S)
    BY <2>2 DEF StrictSubsetOrdering
  <2>4. Up(b) \in T
    BY <2>1
  <2> QED
    BY <2>3, <2>4, <1>4, <1>5
<1> QED
  BY <1>6

LEMMA Least ==
  ASSUME NEW S, S \subseteq Nat, S # {}
  PROVE  \E m \in S : \A s \in S : m <= s
<1> DEFINE Down(a) == { x \in S : x < a }
           T == { Down(a) : a \in S }
<1>2. T \subseteq FiniteSubsetsOf(S)
  <2> SUFFICES ASSUME NEW a \in S PROVE Down(a) \in FiniteSubsetsOf(S)
    OBVIOUS
  <2>0. a \in Nat /\ \A x \in Down(a) : x \in Nat /\ x < a
    OBVIOUS
  <2>2. IsFiniteSet(Down(a))
    <3> HIDE DEF Down
    <3>1. Down(a) \in SUBSET Nat /\ \A x \in Down(a) : x <= a
      BY <2>0
    <3> QED
      BY <2>0, <3>1, FS_BoundedSetOfNaturals
  <2> QED
    BY <2>2 DEF FiniteSubsetsOf
<1>3. T # {}
  OBVIOUS
<1>4. PICK X \in T : \A Y \in T : <<Y, X>> \notin StrictSubsetOrdering(S)
  <2> HIDE DEF T
  <2> QED
    BY <1>2, <1>3, FS_StrictSubsetOrderingWellFounded, WFMin, Zenon
<1>5. PICK a \in S : X = Down(a)
  OBVIOUS
<1>6. \A b \in Down(a) : FALSE
  <2> SUFFICES ASSUME NEW b \in Down(a) PROVE FALSE
    OBVIOUS
  <2>1. b \in S /\ b < a /\ a \in Nat /\ b \in Nat
    OBVIOUS
  <2>2. b \notin Down(b) /\ \A x \in Down(b) : x \in S /\ x < a
    BY <2>1
  <2>3. <<Down(b), Down(a)>> \in StrictSubsetOrdering(S)
    BY <2>2 DEF StrictSubsetOrdering
  <2>4. Down(b) \in T
    BY <2>1
  <2> QED
    BY <2>3, <2>4, <1>4, <1>5
<1> QED
  BY <1>6

----------------------------------------------------------------------------
(* Lists of blocks.                                                        *)

Blocks(f) == DOMAIN f \subseteq Nat /\ f \in [DOMAIN f -> Nat \ {0}]

List(f) == Blocks(f) /\ Apart(f)

LEMMA WordsMember ==
  ASSUME NEW f, Blocks(f), NEW w
  PROVE  w \in Words(f) <=>
           /\ w \in Nat
           /\ \E a \in DOMAIN f : a <= w /\ w < a + f[a]
<1>1. \A a \in DOMAIN f : a \in Nat /\ f[a] \in Nat
  BY DEF Blocks
<1>2. w \in Words(f) <=> \E a \in DOMAIN f : w \in Extent(a, f[a])
  BY DEF Words
<1> QED
  BY <1>1, <1>2 DEF Extent

LEMMA WithoutFacts ==
  ASSUME NEW f, Blocks(f), NEW S
  PROVE  /\ Blocks(Without(f, S))
         /\ DOMAIN Without(f, S) = DOMAIN f \ S
         /\ \A a \in DOMAIN f \ S : Without(f, S)[a] = f[a]
         /\ Apart(f) => Apart(Without(f, S))
  BY DEF Without, Blocks, Apart

LEMMA WithFacts ==
  ASSUME NEW f, Blocks(f), NEW a \in Nat, NEW x \in Nat, x > 0
  PROVE  /\ Blocks(With(f, a, x))
         /\ DOMAIN With(f, a, x) = DOMAIN f \cup {a}
         /\ With(f, a, x)[a] = x
         /\ \A b \in DOMAIN f \ {a} : With(f, a, x)[b] = f[b]
<1> DEFINE g == With(f, a, x)
<1>1. /\ DOMAIN g = DOMAIN f \cup {a}
      /\ g[a] = x
      /\ \A b \in DOMAIN f \ {a} : g[b] = f[b]
  BY DEF With
<1>2. \A b \in DOMAIN g : b \in Nat /\ g[b] \in Nat \ {0}
  BY <1>1 DEF Blocks, With
<1>3. g = [b \in DOMAIN g |-> g[b]]
  BY DEF With
<1> QED
  BY <1>1, <1>2, <1>3 DEF Blocks

\* A block that lies between the others may be put on the list.
LEMMA WithApart ==
  ASSUME NEW f, List(f), NEW a \in Nat, NEW x \in Nat, x > 0,
         \A b \in DOMAIN f \ {a} : b + f[b] < a \/ a + x < b
  PROVE  List(With(f, a, x))
<1> DEFINE g == With(f, a, x)
<1>1. /\ Blocks(g) /\ DOMAIN g = DOMAIN f \cup {a}
      /\ g[a] = x /\ \A b \in DOMAIN f \ {a} : g[b] = f[b]
  <2>1. g[a] = x
    BY DEF With
  <2>2. Blocks(g) /\ DOMAIN g = DOMAIN f \cup {a}
    BY WithFacts DEF List
  <2>3. \A b \in DOMAIN f \ {a} : g[b] = f[b]
    BY WithFacts DEF List
  <2> QED
    BY <2>1, <2>2, <2>3
<1>2. \A b \in DOMAIN f : b \in Nat /\ f[b] \in Nat \ {0}
  BY DEF List, Blocks
<1> HIDE DEF g
<1>3. ASSUME NEW b \in DOMAIN g, NEW c \in DOMAIN g, b < c
      PROVE  b + g[b] < c
  <2>1. CASE b = a
    BY <2>1, <1>1, <1>2, <1>3
  <2>2. CASE c = a
    BY <2>2, <1>1, <1>2, <1>3
  <2>3. CASE b # a /\ c # a
    BY <2>3, <1>1, <1>3 DEF List, Apart
  <2> QED
    BY <2>1, <2>2, <2>3
<1> QED
  BY <1>1, <1>3 DEF List, Apart, g

\* The words of a list are those of one block and those of the others.
LEMMA SplitWords ==
  ASSUME NEW f, List(f), NEW a \in DOMAIN f
  PROVE  Words(Without(f, {a})) = Words(f) \ Extent(a, f[a])
<1> DEFINE g == Without(f, {a})
<1>1. /\ Blocks(g) /\ DOMAIN g = DOMAIN f \ {a}
      /\ \A b \in DOMAIN f \ {a} : g[b] = f[b]
  BY WithoutFacts DEF List
<1>2. \A b \in DOMAIN f : b \in Nat /\ f[b] \in Nat \ {0}
  BY DEF List, Blocks
<1>3. \A b \in DOMAIN f \ {a} : b + f[b] < a \/ a + f[a] < b
  BY <1>2 DEF List, Apart
<1>4. \A w : w \in Words(f) <=> w \in Nat /\ \E b \in DOMAIN f : b <= w /\ w < b + f[b]
  BY WordsMember DEF List
<1>5. \A w : w \in Words(g) <=> w \in Nat /\ \E b \in DOMAIN g : b <= w /\ w < b + g[b]
  BY <1>1, WordsMember
<1>6. \A w \in Nat : w \in Extent(a, f[a]) <=> a <= w /\ w < a + f[a]
  BY <1>2 DEF Extent
<1> HIDE DEF g
<1> QED
  <2>1. ASSUME NEW w \in Words(g) PROVE w \in Words(f) \ Extent(a, f[a])
    <3>1. PICK b \in DOMAIN g : w \in Nat /\ b <= w /\ w < b + g[b]
      BY <1>5, <2>1
    <3> QED
      BY <3>1, <1>1, <1>2, <1>3, <1>4, <1>6
  <2>2. ASSUME NEW w \in Words(f), w \notin Extent(a, f[a]) PROVE w \in Words(g)
    <3>1. PICK b \in DOMAIN f : w \in Nat /\ b <= w /\ w < b + f[b]
      BY <1>4, <2>2
    <3> QED
      BY <3>1, <1>1, <1>5, <1>6, <2>2
  <2> QED
    BY <2>1, <2>2 DEF g

\* A new block brings its own words and no others.
LEMMA JoinWords ==
  ASSUME NEW f, Blocks(f), NEW a \in Nat, a \notin DOMAIN f, NEW x \in Nat, x > 0
  PROVE  Words(With(f, a, x)) = Words(f) \cup Extent(a, x)
<1> DEFINE g == With(f, a, x)
<1>1. /\ Blocks(g) /\ DOMAIN g = DOMAIN f \cup {a}
      /\ g[a] = x /\ \A b \in DOMAIN f : g[b] = f[b]
  <2>1. g[a] = x
    BY DEF With
  <2>2. Blocks(g) /\ DOMAIN g = DOMAIN f \cup {a}
    BY WithFacts
  <2>3. \A b \in DOMAIN f \ {a} : g[b] = f[b]
    BY WithFacts
  <2> QED
    BY <2>1, <2>2, <2>3
<1>2. \A w : w \in Words(f) <=> \E b \in DOMAIN f : w \in Extent(b, f[b])
  BY DEF Words
<1>3. \A w : w \in Words(g) <=> \E b \in DOMAIN g : w \in Extent(b, g[b])
  BY DEF Words
<1> HIDE DEF g
<1>4. \A w : w \in Words(g) <=> w \in Words(f) \cup Extent(a, x)
  BY <1>1, <1>2, <1>3
<1> QED
  BY <1>4 DEF g

LEMMA ExtentMember ==
  ASSUME NEW a \in Nat, NEW n \in Nat, NEW w
  PROVE  w \in Extent(a, n) <=> w \in Nat /\ a <= w /\ w < a + n
  BY DEF Extent

\* What is left of a block that is cut at either end.
LEMMA CutBlock ==
  ASSUME NEW f, List(f), NEW a \in DOMAIN f, NEW lo \in Nat, NEW n \in Nat,
         n > 0, a <= lo, lo + n <= a + f[a]
  PROVE  /\ List(With(Without(f, {a}), lo, n))
         /\ Words(With(Without(f, {a}), lo, n))
              = (Words(f) \ Extent(a, f[a])) \cup Extent(lo, n)
<1> DEFINE g == Without(f, {a})
<1>1. /\ Blocks(g) /\ Apart(g)
      /\ DOMAIN g = DOMAIN f \ {a}
      /\ \A b \in DOMAIN f \ {a} : g[b] = f[b]
  BY WithoutFacts DEF List
<1>2. \A b \in DOMAIN f : b \in Nat /\ f[b] \in Nat \ {0}
  BY DEF List, Blocks
<1>3. \A b \in DOMAIN g : b + g[b] < a \/ a + f[a] < b
  BY <1>1, <1>2 DEF List, Apart
<1>4. Words(g) = Words(f) \ Extent(a, f[a])
  BY SplitWords
<1> HIDE DEF g
<1>5. \A b \in DOMAIN g : b \in Nat /\ g[b] \in Nat \ {0}
  BY <1>1 DEF Blocks
<1>6. \A b \in DOMAIN g \ {lo} : b + g[b] < lo \/ lo + n < b
  BY <1>2, <1>3, <1>5
<1>7. lo \notin DOMAIN g
  BY <1>2, <1>3, <1>5
<1>8. List(With(g, lo, n))
  BY <1>1, <1>6, WithApart DEF List
<1>9. Words(With(g, lo, n)) = Words(g) \cup Extent(lo, n)
  BY <1>1, <1>7, JoinWords
<1> QED
  BY <1>4, <1>8, <1>9 DEF g

LEMMA WithTwice ==
  ASSUME NEW f, NEW a \in DOMAIN f, NEW x
  PROVE  With(Without(f, {a}), a, x) = With(f, a, x)
<1>1. DOMAIN Without(f, {a}) \cup {a} = DOMAIN f \cup {a}
  BY DEF Without
<1>2. \A b \in DOMAIN f \ {a} : Without(f, {a})[b] = f[b]
  BY DEF Without
<1> QED
  BY <1>1, <1>2 DEF With

(***************************************************************************)
(* A run of free words lies in one block, as no two blocks touch.          *)
(***************************************************************************)
LEMMA RunInBlock ==
  ASSUME NEW f, List(f), NEW b \in Nat, NEW m \in Nat, m > 0,
         Extent(b, m) \subseteq Words(f)
  PROVE  \E a \in DOMAIN f : a <= b /\ b + m <= a + f[a]
<1>1. \A a \in DOMAIN f : a \in Nat /\ f[a] \in Nat \ {0}
  BY DEF List, Blocks
<1>2. b \in Words(f)
  BY ExtentMember
<1>3. PICK a \in DOMAIN f : a <= b /\ b < a + f[a]
  BY <1>2, WordsMember DEF List
<1>4. SUFFICES ASSUME a + f[a] < b + m PROVE FALSE
  BY <1>1, <1>3
<1> DEFINE w == a + f[a]
<1>5. w \in Nat /\ w \in Extent(b, m)
  BY <1>1, <1>3, <1>4, ExtentMember
<1>6. PICK c \in DOMAIN f : c <= w /\ w < c + f[c]
  BY <1>5, WordsMember DEF List
<1>7. CASE c = a
  BY <1>6, <1>7, <1>1
<1>8. CASE a < c
  BY <1>6, <1>8, <1>1 DEF List, Apart
<1>9. CASE c < a
  BY <1>6, <1>9, <1>1 DEF List, Apart
<1> QED
  BY <1>1, <1>7, <1>8, <1>9

----------------------------------------------------------------------------
(* freemem.                                                                *)

\* The block touches no word of the list.
Between(f, b, m) == \A a \in DOMAIN f : a + f[a] <= b \/ b + m <= a

(***************************************************************************)
(* freemem looks at the nearest blocks only, and that is enough: if they   *)
(* do not overlap, none does.                                              *)
(***************************************************************************)
LEMMA NeighboursSuffice ==
  ASSUME List(free), NEW b \in Nat, NEW m \in Nat, m > 0, ~Overlaps(b, m)
  PROVE  Between(free, b, m)
<1>1. \A a \in DOMAIN free : a \in Nat /\ free[a] \in Nat \ {0}
  BY DEF List, Blocks
<1>2. ASSUME NEW a \in DOMAIN free, a < b PROVE a + free[a] <= b
  <2> DEFINE S == { x \in DOMAIN free : x < b }
  <2>1. S \subseteq Nat /\ S # {} /\ \A x \in S : x <= b
    BY <1>1, <1>2
  <2>2. PICK q \in S : \A x \in S : x <= q
    <3> HIDE DEF S
    <3> QED
      BY <2>1, Greatest
  <2>3. Below(q, b)
    BY <2>2 DEF Below
  <2>4. q + free[q] <= b
    BY <2>3, <1>1 DEF Overlaps
  <2>5. a <= q
    BY <2>2, <1>2
  <2> QED
    BY <2>4, <2>5, <1>1 DEF List, Apart
<1>3. ASSUME NEW a \in DOMAIN free, a >= b PROVE b + m <= a
  <2> DEFINE S == { x \in DOMAIN free : x >= b }
  <2>1. S \subseteq Nat /\ S # {}
    BY <1>1, <1>3
  <2>2. PICK p \in S : \A x \in S : p <= x
    <3> HIDE DEF S
    <3> QED
      BY <2>1, Least
  <2>3. Above(p, b)
    BY <2>2 DEF Above
  <2>4. b + m <= p
    BY <2>3, <1>1 DEF Overlaps
  <2>5. p <= a
    BY <2>2, <1>3
  <2> QED
    BY <2>4, <2>5, <1>1
<1> QED
  BY <1>1, <1>2, <1>3 DEF Between

\* A block that shares a word with a free block is found out.
LEMMA OverlapFound ==
  ASSUME List(free), NEW b \in Nat, NEW m \in Nat, m > 0,
         NEW w \in Extent(b, m), w \in FreeWords
  PROVE  Overlaps(b, m)
<1> SUFFICES ASSUME ~Overlaps(b, m) PROVE FALSE
  OBVIOUS
<1>1. Between(free, b, m)
  BY NeighboursSuffice
<1>2. w \in Nat /\ b <= w /\ w < b + m
  BY ExtentMember
<1>3. PICK a \in DOMAIN free : a <= w /\ w < a + free[a]
  BY WordsMember DEF FreeWords, List
<1>4. a \in Nat /\ free[a] \in Nat
  BY DEF List, Blocks
<1> QED
  BY <1>1, <1>2, <1>3, <1>4 DEF Between

LEMMA NoOverlap ==
  ASSUME List(free), NEW b \in Nat, NEW m \in Nat, m > 0,
         Extent(b, m) \cap FreeWords = {}
  PROVE  ~Overlaps(b, m)
<1>1. \A a \in DOMAIN free : a \in Nat /\ free[a] \in Nat \ {0}
  BY DEF List, Blocks
<1>2. ASSUME NEW q \in DOMAIN free, Below(q, b), q + free[q] > b PROVE FALSE
  <2>1. b \in FreeWords
    BY <1>1, <1>2, WordsMember DEF Below, FreeWords, List
  <2>2. b \in Extent(b, m)
    BY ExtentMember
  <2> QED
    BY <2>1, <2>2
<1>3. ASSUME NEW p \in DOMAIN free, Above(p, b), b + m > p PROVE FALSE
  <2>1. p \in FreeWords
    BY <1>1, WordsMember DEF FreeWords, List
  <2>2. p \in Extent(b, m)
    BY <1>1, <1>3, ExtentMember DEF Above
  <2> QED
    BY <2>1, <2>2
<1> QED
  BY <1>2, <1>3 DEF Overlaps

\* The block joined with the one above it, on the list without that one.
Upper(b, m) == { p \in DOMAIN free : Above(p, b) /\ b + m = p }
Joined(b, m) == m + (IF Upper(b, m) = {} THEN 0 ELSE free[b + m])
Rest(b, m) == Without(free, Upper(b, m))

LEMMA JoinAbove ==
  ASSUME List(free), NEW b \in Nat, NEW m \in Nat, m > 0, Between(free, b, m)
  PROVE  /\ List(Rest(b, m)) /\ Joined(b, m) \in Nat /\ Joined(b, m) >= m
         /\ \A a \in DOMAIN Rest(b, m) :
               /\ a \in DOMAIN free /\ Rest(b, m)[a] = free[a]
               /\ a + free[a] <= b \/ b + Joined(b, m) < a
         /\ \A a \in DOMAIN free : a < b => a \in DOMAIN Rest(b, m)
         /\ Words(Rest(b, m)) \cup Extent(b, Joined(b, m))
              = Words(free) \cup Extent(b, m)
<1>1. \A a \in DOMAIN free : a \in Nat /\ free[a] \in Nat \ {0}
  BY DEF List, Blocks
<1>2. /\ List(Rest(b, m))
      /\ DOMAIN Rest(b, m) = DOMAIN free \ Upper(b, m)
      /\ \A a \in DOMAIN free \ Upper(b, m) : Rest(b, m)[a] = free[a]
  BY WithoutFacts DEF List, Rest
<1>3. CASE b + m \in DOMAIN free
  <2>1. Above(b + m, b)
    BY <1>1, <1>3 DEF Above, Between
  <2>2. Upper(b, m) = {b + m}
    BY <1>3, <2>1 DEF Upper
  <2>3. Joined(b, m) = m + free[b + m]
    BY <2>2 DEF Joined
  <2>4. \A a \in DOMAIN Rest(b, m) : a + free[a] <= b \/ b + Joined(b, m) < a
    BY <1>1, <1>2, <1>3, <2>2, <2>3 DEF List, Apart, Between
  <2>5. Words(Rest(b, m)) = Words(free) \ Extent(b + m, free[b + m])
    BY <1>3, <2>2, SplitWords DEF Rest
  <2>6. Extent(b + m, free[b + m]) \subseteq Words(free)
    BY <1>3 DEF Words
  <2>7. Extent(b, Joined(b, m)) = Extent(b, m) \cup Extent(b + m, free[b + m])
    BY <1>1, <1>3, <2>3 DEF Extent
  <2>8. Words(Rest(b, m)) \cup Extent(b, Joined(b, m)) = Words(free) \cup Extent(b, m)
    BY <2>5, <2>6, <2>7
  <2>9. \A a \in DOMAIN free : a < b => a \in DOMAIN Rest(b, m)
    BY <1>1, <1>2, <2>2
  <2> QED
    BY <1>1, <1>2, <1>3, <2>3, <2>4, <2>8, <2>9
<1>4. CASE b + m \notin DOMAIN free
  <2>1. Upper(b, m) = {}
    BY <1>4 DEF Upper
  <2>2. Joined(b, m) = m
    BY <2>1 DEF Joined
  <2>3. Rest(b, m) = free
    BY <2>1 DEF Rest, Without, List, Blocks
  <2>4. \A a \in DOMAIN free : a + free[a] <= b \/ b + m < a
    BY <1>1, <1>4 DEF Between
  <2> QED
    BY <1>2, <2>1, <2>2, <2>3, <2>4
<1> QED
  BY <1>3, <1>4

LEMMA FreedList ==
  ASSUME List(free), NEW b \in Nat, NEW m \in Nat, m > 0, Between(free, b, m)
  PROVE  /\ List(Freed(b, m))
         /\ Words(Freed(b, m)) = FreeWords \cup Extent(b, m)
<1> DEFINE rest == Rest(b, m)
           joined == Joined(b, m)
           lower == { q \in DOMAIN free : Below(q, b) /\ q + free[q] = b }
<1>1. /\ List(rest) /\ joined \in Nat /\ joined >= m
      /\ \A a \in DOMAIN rest :
            /\ a \in DOMAIN free /\ rest[a] = free[a]
            /\ a + free[a] <= b \/ b + joined < a
      /\ \A a \in DOMAIN free : a < b => a \in DOMAIN rest
      /\ Words(rest) \cup Extent(b, joined) = FreeWords \cup Extent(b, m)
  BY JoinAbove DEF FreeWords
<1>2. Freed(b, m) = IF lower = {} THEN With(rest, b, joined)
                    ELSE [a \in DOMAIN rest |->
                            IF a \in lower THEN free[a] + joined ELSE free[a]]
  BY DEF Freed, Rest, Joined, Upper
<1>3. \A a \in DOMAIN free : a \in Nat /\ free[a] \in Nat \ {0}
  BY DEF List, Blocks
<1> HIDE DEF rest, joined
<1>4. ASSUME NEW q \in DOMAIN free, q + free[q] = b PROVE q \in lower
  <2>1. q < b
    BY <1>3, <1>4
  <2>2. \A a \in DOMAIN free : a < b => a <= q
    BY <1>3, <1>4 DEF List, Apart
  <2> QED
    BY <1>4, <2>1, <2>2 DEF Below
<1>5. CASE lower = {}
  <2>1. \A a \in DOMAIN rest : a + rest[a] < b \/ b + joined < a
    BY <1>1, <1>3, <1>4, <1>5
  <2>2. b \notin DOMAIN rest
    BY <1>1, <1>3, <2>1
  <2>3. List(With(rest, b, joined))
    BY <1>1, <2>1, WithApart
  <2>4. Words(With(rest, b, joined)) = Words(rest) \cup Extent(b, joined)
    BY <1>1, <2>2, JoinWords DEF List
  <2> QED
    BY <1>1, <1>2, <1>5, <2>3, <2>4
<1>6. CASE lower # {}
  <2>1. PICK q \in DOMAIN free : Below(q, b) /\ q + free[q] = b
    BY <1>6
  <2>2. lower = {q}
    BY <2>1, <1>3 DEF Below
  <2>3. q \in DOMAIN rest /\ q \in Nat /\ q < b /\ rest[q] = free[q]
    BY <1>1, <1>3, <2>1
  <2> DEFINE x == free[q] + joined
  <2>4. x \in Nat /\ x > 0 /\ q + x = b + joined
    BY <1>1, <1>3, <2>1
  <2>5. Freed(b, m) = With(rest, q, x)
    <3>1. Freed(b, m) = [a \in DOMAIN rest |->
                            IF a \in lower THEN free[a] + joined ELSE free[a]]
      BY <1>2, <1>6
    <3>2. DOMAIN rest \cup {q} = DOMAIN rest
      BY <2>3
    <3> QED
      BY <3>1, <3>2, <2>2, <1>1 DEF With
  <2> HIDE DEF x
  <2>6. \A a \in DOMAIN rest \ {q} : a + rest[a] < q \/ q + x < a
    BY <1>1, <1>3, <2>1, <2>3, <2>4 DEF List, Apart
  <2>7. List(With(rest, q, x))
    BY <1>1, <2>3, <2>4, <2>6, WithApart
  <2> DEFINE g == Without(rest, {q})
  <2>8. Blocks(g) /\ q \notin DOMAIN g
    <3>1. Blocks(rest)
      BY <1>1 DEF List
    <3>2. Blocks(g) /\ DOMAIN g = DOMAIN rest \ {q}
      BY <3>1, WithoutFacts
    <3> QED
      BY <3>2
  <2>9. Words(With(g, q, x)) = Words(g) \cup Extent(q, x)
    <3> HIDE DEF g
    <3> QED
      BY <2>3, <2>4, <2>8, JoinWords
  <2>10. Words(g) = Words(rest) \ Extent(q, rest[q])
    BY <1>1, <2>3, SplitWords
  <2>11. Extent(q, rest[q]) \subseteq Words(rest)
    BY <2>3 DEF Words
  <2>12. Extent(q, x) = Extent(q, rest[q]) \cup Extent(b, joined)
    BY <1>1, <1>3, <2>1, <2>3, <2>4 DEF Extent
  <2>13. With(g, q, x) = With(rest, q, x)
    BY <2>3, WithTwice
  <2>14. Words(With(rest, q, x)) = Words(rest) \cup Extent(b, joined)
    BY <2>9, <2>10, <2>11, <2>12, <2>13
  <2> QED
    BY <1>1, <2>5, <2>7, <2>14
<1> QED
  BY <1>5, <1>6

----------------------------------------------------------------------------
(* The invariant.                                                          *)

UsedOK == /\ DOMAIN used \subseteq Nat
          /\ used \in [DOMAIN used -> Requests]
          /\ \A a \in DOMAIN used : used[a].size > 0

LastOK == last \in [size : Nat, stack : BOOLEAN, ok : BOOLEAN]

MemInv == List(free) /\ UsedOK /\ LastOK /\ RefusedOnlyWhenFull

LEMMA RoundFacts ==
  ASSUME NEW n \in Nat
  PROVE  /\ RoundMb(n) \in Nat /\ RoundMb(n) >= n /\ RoundMb(n) <= n + 1
         /\ n % 2 = 0 => RoundMb(n) = n
<1>1. n % 2 \in 0 .. 1
  OBVIOUS
<1> QED
  BY <1>1 DEF RoundMb

LEMMA InitMemInv == MemoryInit => MemInv
<1> SUFFICES ASSUME MemoryInit PROVE MemInv
  OBVIOUS
<1>1. List(free)
  BY MemoryAssumption DEF MemoryInit, List, Blocks
<1>2. UsedOK
  BY DEF MemoryInit, UsedOK
<1>3. LastOK /\ RefusedOnlyWhenFull
  BY DEF MemoryInit, LastOK, RefusedOnlyWhenFull
<1> QED
  BY <1>1, <1>2, <1>3 DEF MemInv

LEMMA ServedKeeps ==
  ASSUME MemInv, NEW a \in Nat, NEW n \in Nat, n > 0, NEW k \in BOOLEAN,
         Served(a, [size |-> n, stack |-> k]), List(free')
  PROVE  MemInv'
<1> DEFINE r == [size |-> n, stack |-> k]
<1>1. UsedOK'
  <2>1. used' = With(used, a, r) /\ r \in Requests /\ r.size > 0
    BY DEF Served, Requests
  <2> HIDE DEF r
  <2> QED
    BY <2>1 DEF MemInv, UsedOK, With
<1>2. LastOK' /\ RefusedOnlyWhenFull'
  BY DEF Served, LastOK, RefusedOnlyWhenFull
<1> QED
  BY <1>1, <1>2 DEF MemInv

LEMMA RefusedKeeps ==
  ASSUME MemInv, NEW n \in Nat, n > 0, NEW k \in BOOLEAN,
         Refused([size |-> n, stack |-> k]),
         Fits(Taken([size |-> n, stack |-> k])) = {}
  PROVE  MemInv'
<1> DEFINE r == [size |-> n, stack |-> k]
<1>1. /\ last' = [size |-> n, stack |-> k, ok |-> FALSE]
      /\ free' = free /\ used' = used
  BY DEF Refused
<1>2. Taken(last') = Taken(r) /\ Taken(r) \in Nat /\ Taken(r) > 0
  BY <1>1, RoundFacts DEF Taken
<1>3. \A a \in DOMAIN free : free[a] \in Nat /\ a \in Nat
  BY DEF MemInv, List, Blocks
<1>4. ASSUME NEW b \in FreeWords, Extent(b, Taken(r)) \subseteq FreeWords
      PROVE  FALSE
  <2>1. b \in Nat
    BY <1>4, WordsMember DEF MemInv, List, FreeWords
  <2>2. PICK a \in DOMAIN free : a <= b /\ b + Taken(r) <= a + free[a]
    <3> HIDE DEF r
    <3> QED
      BY <1>2, <1>4, <2>1, RunInBlock DEF MemInv, FreeWords
  <2>3. free[a] >= Taken(r)
    BY <1>2, <1>3, <2>1, <2>2
  <2> QED
    BY <2>3 DEF Fits
<1>5. RefusedOnlyWhenFull'
  BY <1>1, <1>2, <1>4 DEF RefusedOnlyWhenFull, FreeWords, Words
<1>6. LastOK'
  BY <1>1 DEF LastOK
<1> QED
  BY <1>1, <1>5, <1>6 DEF MemInv, UsedOK

\* What getmem and getstk do when they serve request r.
Granted(a, r) ==
  /\ Served(a, r)
  /\ List(free')
  /\ Extent(a, Taken(r)) \subseteq FreeWords
  /\ FreeWords' = FreeWords \ Extent(a, Taken(r))

Deny(r) == Refused(r) /\ Fits(Taken(r)) = {}

LEMMA GetmemEffect ==
  ASSUME MemInv, NEW n \in MemSizes, Getmem(n)
  PROVE  \/ Deny([size |-> n, stack |-> FALSE])
         \/ \E a \in Nat : Granted(a, [size |-> n, stack |-> FALSE])
<1> DEFINE r == [size |-> n, stack |-> FALSE]
           m == RoundMb(n)
<1>1. n \in Nat /\ n > 0 /\ m \in Nat /\ m > 0 /\ Taken(r) = m
  BY MemoryAssumption, RoundFacts DEF Taken
<1>2. CASE Fits(m) = {} /\ Refused(r)
  BY <1>1, <1>2 DEF Deny
<1>3. ASSUME NEW a \in Fits(m),
             free' = IF free[a] = m THEN Without(free, {a})
                     ELSE With(Without(free, {a}), a + m, free[a] - m),
             Served(a, r)
      PROVE  \E x \in Nat : Granted(x, r)
  <2>1. a \in DOMAIN free /\ free[a] >= m /\ a \in Nat /\ free[a] \in Nat
    BY <1>3 DEF Fits, MemInv, List, Blocks
  <2>2. Extent(a, m) \subseteq Extent(a, free[a]) /\ Extent(a, free[a]) \subseteq FreeWords
    BY <1>1, <2>1 DEF Extent, FreeWords, Words
  <2>3. CASE free[a] = m
    <3>1. List(free')
      BY <1>3, <2>3, WithoutFacts DEF MemInv, List
    <3>2. Words(free') = Words(free) \ Extent(a, m)
      BY <1>3, <2>1, <2>3, SplitWords DEF MemInv
    <3> QED
      BY <1>1, <1>3, <2>1, <2>2, <3>1, <3>2 DEF Granted, FreeWords
  <2>4. CASE free[a] # m
    <3>1. /\ a + m \in Nat /\ free[a] - m \in Nat /\ free[a] - m > 0
          /\ a <= a + m /\ (a + m) + (free[a] - m) <= a + free[a]
      BY <1>1, <2>1, <2>4
    <3>2. /\ List(free')
          /\ Words(free') = (Words(free) \ Extent(a, free[a]))
                              \cup Extent(a + m, free[a] - m)
      <4> HIDE DEF m
      <4> QED
        BY <1>3, <2>1, <2>4, <3>1, CutBlock DEF MemInv
    <3>3. Extent(a, free[a]) \ Extent(a + m, free[a] - m) = Extent(a, m)
      BY <1>1, <2>1, <2>4 DEF Extent
    <3>4. Extent(a + m, free[a] - m) \subseteq Extent(a, free[a])
      BY <1>1, <2>1, <2>4 DEF Extent
    <3>5. Words(free') = Words(free) \ Extent(a, m)
      BY <2>2, <3>2, <3>3, <3>4 DEF FreeWords
    <3> QED
      BY <1>1, <1>3, <2>1, <2>2, <3>2, <3>5 DEF Granted, FreeWords
  <2> QED
    BY <2>3, <2>4
<1> QED
  BY <1>2, <1>3 DEF Getmem

LEMMA GetstkEffect ==
  ASSUME MemInv, NEW n \in StkSizes, Getstk(n)
  PROVE  \/ Deny([size |-> n, stack |-> TRUE])
         \/ \E a \in Nat : Granted(a, [size |-> n, stack |-> TRUE])
<1> DEFINE r == [size |-> n, stack |-> TRUE]
<1>1. n \in Nat /\ n > 0 /\ Taken(r) = n
  BY MemoryAssumption DEF Taken
<1>2. CASE Fits(n) = {} /\ Refused(r)
  BY <1>1, <1>2 DEF Deny
<1>3. ASSUME NEW a \in Fits(n),
             free' = IF free[a] = n THEN Without(free, {a})
                     ELSE With(free, a, free[a] - n),
             Served(a + free[a] - n, r)
      PROVE  \E x \in Nat : Granted(x, r)
  <2> DEFINE top == a + free[a] - n
  <2>1. a \in DOMAIN free /\ free[a] >= n /\ a \in Nat /\ free[a] \in Nat
    BY <1>3 DEF Fits, MemInv, List, Blocks
  <2>2. /\ top \in Nat
        /\ Extent(top, n) \subseteq Extent(a, free[a])
        /\ Extent(a, free[a]) \subseteq FreeWords
    BY <1>1, <2>1 DEF Extent, FreeWords, Words
  <2>3. CASE free[a] = n
    <3>1. List(free')
      BY <1>3, <2>3, WithoutFacts DEF MemInv, List
    <3>2. Words(free') = Words(free) \ Extent(a, n)
      BY <1>3, <2>1, <2>3, SplitWords DEF MemInv
    <3>3. top = a
      BY <2>1, <2>3
    <3> QED
      BY <1>1, <1>3, <2>1, <2>2, <3>1, <3>2, <3>3 DEF Granted, FreeWords
  <2>4. CASE free[a] # n
    <3>1. /\ free[a] - n \in Nat /\ free[a] - n > 0
          /\ a <= a /\ a + (free[a] - n) <= a + free[a]
      BY <1>1, <2>1, <2>4
    <3>2. free' = With(Without(free, {a}), a, free[a] - n)
      BY <1>3, <2>1, <2>4, WithTwice
    <3>3. /\ List(free')
          /\ Words(free') = (Words(free) \ Extent(a, free[a]))
                              \cup Extent(a, free[a] - n)
      BY <2>1, <3>1, <3>2, CutBlock DEF MemInv
    <3>4. Extent(a, free[a]) \ Extent(a, free[a] - n) = Extent(top, n)
      BY <1>1, <2>1, <2>4 DEF Extent
    <3>5. Extent(a, free[a] - n) \subseteq Extent(a, free[a])
      BY <1>1, <2>1, <2>4 DEF Extent
    <3>6. Words(free') = Words(free) \ Extent(top, n)
      BY <2>2, <3>3, <3>4, <3>5 DEF FreeWords
    <3> QED
      BY <1>1, <1>3, <2>2, <3>3, <3>6 DEF Granted, FreeWords
  <2> QED
    BY <2>3, <2>4
<1> QED
  BY <1>2, <1>3 DEF Getstk

LEMMA FreememEffect ==
  ASSUME MemInv, NEW b \in Int, NEW m \in Nat, m > 0, Freemem(b, m)
  PROVE  /\ List(free')
         /\ b \in Nat /\ Extent(b, m) \cap FreeWords = {} /\ ~BelowHeap(b)
              => FreeWords' = FreeWords \cup Extent(b, m)
         /\ b \in Nat /\ Extent(b, m) \subseteq FreeWords => free' = free
<1>1. CASE BelowHeap(b) \/ Overlaps(b, m)
  <2>1. free' = free
    BY <1>1 DEF Freemem
  <2>2. b \in Nat /\ Extent(b, m) \cap FreeWords = {} => ~Overlaps(b, m)
    BY NoOverlap DEF MemInv
  <2> QED
    BY <1>1, <2>1, <2>2 DEF MemInv
<1>2. CASE ~(BelowHeap(b) \/ Overlaps(b, m))
  <2>1. b \in Nat
    BY <1>2, MemoryAssumption DEF BelowHeap
  <2>2. Between(free, b, m)
    BY <1>2, <2>1, NeighboursSuffice DEF MemInv
  <2>3. free' = Freed(b, m)
    BY <1>2 DEF Freemem
  <2>4. List(free') /\ Words(free') = FreeWords \cup Extent(b, m)
    BY <2>1, <2>2, <2>3, FreedList DEF MemInv
  <2>5. b \in Extent(b, m)
    BY <2>1, ExtentMember
  <2>6. Extent(b, m) \subseteq FreeWords => Overlaps(b, m)
    BY <2>1, <2>5, OverlapFound DEF MemInv
  <2> QED
    BY <1>2, <2>4, <2>6 DEF FreeWords
<1> QED
  BY <1>1, <1>2

LEMMA ReleaseRounded ==
  ASSUME UsedOK, NEW a \in DOMAIN used
  PROVE  /\ a \in Nat /\ used[a].size \in Nat /\ used[a].size > 0
         /\ RoundMb(used[a].size) \in Nat /\ RoundMb(used[a].size) > 0
         /\ a + used[a].size - RoundMb(used[a].size) \in Int
         /\ Taken(used[a]) \in Nat /\ Taken(used[a]) > 0
<1>1. a \in Nat /\ used[a].size \in Nat /\ used[a].size > 0
  BY DEF UsedOK, Requests
<1>2. /\ RoundMb(used[a].size) \in Nat
      /\ RoundMb(used[a].size) >= used[a].size
  BY <1>1, RoundFacts
<1> QED
  BY <1>1, <1>2 DEF Taken

LEMMA MemoryStep ==
  ASSUME MemInv, [MemoryNext]_memVars
  PROVE  MemInv'
<1>1. ASSUME NEW n \in MemSizes, Getmem(n) PROVE MemInv'
  <2>1. n \in Nat /\ n > 0
    BY MemoryAssumption
  <2>2. CASE Deny([size |-> n, stack |-> FALSE])
    BY <2>1, <2>2, RefusedKeeps DEF Deny
  <2>3. CASE \E a \in Nat : Granted(a, [size |-> n, stack |-> FALSE])
    BY <2>1, <2>3, ServedKeeps DEF Granted
  <2> QED
    BY <1>1, <2>2, <2>3, GetmemEffect
<1>2. ASSUME NEW n \in StkSizes, Getstk(n) PROVE MemInv'
  <2>1. n \in Nat /\ n > 0
    BY MemoryAssumption
  <2>2. CASE Deny([size |-> n, stack |-> TRUE])
    BY <2>1, <2>2, RefusedKeeps DEF Deny
  <2>3. CASE \E a \in Nat : Granted(a, [size |-> n, stack |-> TRUE])
    BY <2>1, <2>3, ServedKeeps DEF Granted
  <2> QED
    BY <1>2, <2>2, <2>3, GetstkEffect
<1>3. ASSUME NEW a \in DOMAIN used, Release(a) PROVE MemInv'
  <2>1. /\ used[a].size \in Nat /\ RoundMb(used[a].size) \in Nat
        /\ RoundMb(used[a].size) > 0 /\ a \in Int
        /\ a + used[a].size - RoundMb(used[a].size) \in Int
    BY ReleaseRounded DEF MemInv
  <2>2. List(free')
    BY <1>3, <2>1, FreememEffect DEF Release
  <2>3. UsedOK'
    BY <1>3 DEF Release, MemInv, UsedOK, Without
  <2>4. LastOK' /\ RefusedOnlyWhenFull'
    BY <1>3 DEF Release, MemInv, LastOK, RefusedOnlyWhenFull
  <2> QED
    BY <2>2, <2>3, <2>4 DEF MemInv
<1>4. ASSUME NEW b \in Heap, NEW n \in MemSizes \cup StkSizes, ReleaseAgain(b, n)
      PROVE  MemInv'
  <2>1. n \in Nat /\ RoundMb(n) \in Nat /\ RoundMb(n) > 0
    BY MemoryAssumption, RoundFacts
  <2>2. b \in Int
    BY WordsMember, MemoryAssumption DEF Heap, Blocks
  <2>3. List(free')
    BY <1>4, <2>1, <2>2, FreememEffect DEF ReleaseAgain
  <2>4. LastOK' /\ RefusedOnlyWhenFull'
    BY <1>4 DEF ReleaseAgain, MemInv, LastOK, RefusedOnlyWhenFull
  <2>5. UsedOK'
    BY <1>4 DEF ReleaseAgain, MemInv, UsedOK
  <2> QED
    BY <2>3, <2>4, <2>5 DEF MemInv
<1>5. CASE UNCHANGED memVars
  BY <1>5 DEF memVars, MemInv, List, Blocks, UsedOK, LastOK, RefusedOnlyWhenFull,
     FreeWords
<1> QED
  BY <1>1, <1>2, <1>3, <1>4, <1>5 DEF MemoryNext

\* The invariant the theorems below rest on: getmem.c, getstk.c and freemem.c
\* keep the list in order, the types, and what the last answer says of the list.
THEOREM MemoryInductive == MemorySpec => []MemInv
  BY InitMemInv, MemoryStep, PTL DEF MemorySpec

(***************************************************************************)
(* The variables of the allocator (getmem.c, getstk.c, freemem.c) keep     *)
(* their types.                                                            *)
(***************************************************************************)
THEOREM MemoryTypes == MemorySpec => []MemoryTypeOK
<1>1. MemInv => MemoryTypeOK
  BY DEF MemInv, MemoryTypeOK, List, Blocks, UsedOK
<1> QED
  BY <1>1, MemoryInductive, PTL

(***************************************************************************)
(* No two free blocks overlap or touch, whatever sizes are asked for and   *)
(* although freemem.c compares with the nearest blocks only.               *)
(***************************************************************************)
THEOREM FreeListSound == MemorySpec => []FreeListApart
<1>1. MemInv => FreeListApart
  BY DEF MemInv, FreeListApart, List
<1> QED
  BY <1>1, MemoryInductive, PTL

(***************************************************************************)
(* getmem.c and getstk.c refuse a request only when no run of free words   *)
(* would hold it.                                                          *)
(***************************************************************************)
THEOREM NeverRefusedInVain == MemorySpec => []RefusedOnlyWhenFull
<1>1. MemInv => RefusedOnlyWhenFull
  BY DEF MemInv
<1> QED
  BY <1>1, MemoryInductive, PTL

----------------------------------------------------------------------------
(* No word is lost or owned twice.                                         *)

EvenStacks == \A n \in StkSizes : n % 2 = 0

Extents == [a \in DOMAIN used |-> Taken(used[a])]

StacksEven == \A a \in DOMAIN used : used[a].stack => used[a].size % 2 = 0

HeapInv == HeapPartition /\ StacksEven

LEMMA UsedMember ==
  ASSUME UsedOK, NEW w
  PROVE  w \in UsedWords <=>
           \E a \in DOMAIN used : w \in Extent(a, Taken(used[a]))
  BY DEF UsedWords, Words

LEMMA InitHeapInv == MemoryInit => HeapInv
<1> SUFFICES ASSUME MemoryInit PROVE HeapInv
  OBVIOUS
<1>1. free = InitFree /\ DOMAIN used = {}
  BY DEF MemoryInit
<1>2. UsedWords = {}
  BY <1>1 DEF UsedWords, Words
<1> QED
  BY <1>1, <1>2 DEF HeapInv, HeapPartition, StacksEven, FreeWords, Heap

LEMMA GrantKeepsPartition ==
  ASSUME MemInv, MemInv', HeapInv, NEW a \in Nat, NEW n \in Nat, n > 0,
         NEW k \in BOOLEAN, k => n % 2 = 0,
         Granted(a, [size |-> n, stack |-> k])
  PROVE  HeapInv'
<1> DEFINE r == [size |-> n, stack |-> k]
<1>1. used' = With(used, a, r)
  BY DEF Granted, Served
<1>2. Taken(r) \in Nat /\ Taken(r) > 0
  BY RoundFacts DEF Taken
<1>3. \A b \in DOMAIN used : /\ b \in Nat /\ Taken(used[b]) \in Nat
                            /\ Taken(used[b]) > 0
  BY ReleaseRounded DEF MemInv
<1>4. \A b \in DOMAIN used : Extent(b, Taken(used[b])) \cap Extent(a, Taken(r)) = {}
  BY UsedMember DEF MemInv, HeapInv, HeapPartition, Granted
<1>5. a \in Extent(a, Taken(r))
  BY <1>2, ExtentMember
<1>6. a \notin DOMAIN used
  BY <1>2, <1>3, <1>4, <1>5, ExtentMember
<1>7. /\ DOMAIN used' = DOMAIN used \cup {a} /\ used'[a] = r
      /\ \A b \in DOMAIN used : used'[b] = used[b]
  BY <1>1, <1>6 DEF With
<1> HIDE DEF r
<1>8. UsedWords' = UsedWords \cup Extent(a, Taken(r))
  <2>1. \A w : w \in UsedWords' <=>
                 \E b \in DOMAIN used' : w \in Extent(b, Taken(used'[b]))
    BY UsedMember DEF UsedWords, Words
  <2>2. \A w : w \in UsedWords' <=> w \in UsedWords \cup Extent(a, Taken(r))
    BY <1>7, <2>1, UsedMember DEF MemInv
  <2> QED
    BY <2>2
<1>9. \A b \in DOMAIN used : \/ b + Taken(used[b]) <= a
                            \/ a + Taken(r) <= b
  <2> SUFFICES ASSUME NEW b \in DOMAIN used,
                      a < b + Taken(used[b]), b < a + Taken(r)
               PROVE  FALSE
    BY <1>2, <1>3
  <2>1. CASE a <= b
    <3>1. b \in Extent(a, Taken(r)) /\ b \in Extent(b, Taken(used[b]))
      BY <1>2, <1>3, <2>1, ExtentMember
    <3> QED
      BY <3>1, <1>4
  <2>2. CASE b < a
    <3>1. a \in Extent(b, Taken(used[b]))
      BY <1>2, <1>3, <2>2, ExtentMember
    <3> QED
      BY <3>1, <1>4, <1>5
  <2> QED
    BY <1>3, <2>1, <2>2
<1>10. \A b, c \in DOMAIN used' : b < c => b + Taken(used'[b]) <= c
  BY <1>2, <1>3, <1>7, <1>9 DEF HeapInv, HeapPartition
<1>11. StacksEven'
  BY <1>7 DEF HeapInv, StacksEven, r
<1>12. /\ FreeWords' = FreeWords \ Extent(a, Taken(r))
       /\ Extent(a, Taken(r)) \subseteq FreeWords
  BY DEF Granted, r
<1> QED
  BY <1>8, <1>10, <1>11, <1>12 DEF HeapInv, HeapPartition

LEMMA ReleaseKeepsPartition ==
  ASSUME MemInv, HeapInv, NEW a \in DOMAIN used, Release(a)
  PROVE  HeapInv'
<1> DEFINE n == used[a].size
           E == Extent(a, Taken(used[a]))
<1>1. \A b \in DOMAIN used : /\ b \in Nat /\ Taken(used[b]) \in Nat
                            /\ Taken(used[b]) > 0 /\ used[b].size \in Nat
  BY ReleaseRounded DEF MemInv
<1>2. Freemem(a, Taken(used[a]))
  <2>1. CASE used[a].stack
    <3>1. n % 2 = 0 /\ n \in Nat /\ a \in Nat
      BY <1>1, <2>1 DEF HeapInv, StacksEven
    <3>2. RoundMb(n) = n /\ a + n - RoundMb(n) = a
      BY <3>1, RoundFacts
    <3>3. Freemem(a + n - RoundMb(n), RoundMb(n))
      BY <2>1 DEF Release
    <3> QED
      BY <2>1, <3>2, <3>3 DEF Taken
  <2>2. CASE ~used[a].stack
    BY <2>2 DEF Release, Taken
  <2> QED
    BY <2>1, <2>2
<1>3. E \subseteq UsedWords
  BY UsedMember DEF MemInv
<1>4. E \cap FreeWords = {}
  BY <1>3 DEF HeapInv, HeapPartition
<1>5. ~BelowHeap(a)
  <2>1. a \in E
    BY <1>1, ExtentMember
  <2>2. a \in Heap
    BY <1>3, <2>1 DEF HeapInv, HeapPartition
  <2>3. PICK h \in DOMAIN InitFree : h <= a
    BY <2>2, WordsMember, MemoryAssumption DEF Heap, Blocks
  <2>4. h \in Nat /\ a \in Nat
    BY <1>1, MemoryAssumption
  <2> QED
    BY <2>3, <2>4 DEF BelowHeap
<1>6. FreeWords' = FreeWords \cup E
  BY <1>1, <1>2, <1>4, <1>5, FreememEffect
<1>7. /\ DOMAIN used' = DOMAIN used \ {a}
      /\ \A b \in DOMAIN used' : used'[b] = used[b]
  BY DEF Release, Without
<1>8. \A b \in DOMAIN used \ {a} : Extent(b, Taken(used[b])) \cap E = {}
  <2> SUFFICES ASSUME NEW b \in DOMAIN used \ {a}, NEW w \in E,
                      w \in Extent(b, Taken(used[b]))
               PROVE  FALSE
    OBVIOUS
  <2>1. /\ w \in Nat /\ a <= w /\ w < a + Taken(used[a])
        /\ b <= w /\ w < b + Taken(used[b])
    BY <1>1, ExtentMember
  <2> QED
    BY <1>1, <2>1 DEF HeapInv, HeapPartition
<1>9. UsedWords' = UsedWords \ E
  <2>1. \A w : w \in UsedWords' <=>
                 \E b \in DOMAIN used' : w \in Extent(b, Taken(used'[b]))
    BY DEF UsedWords, Words
  <2> HIDE DEF E
  <2>2. \A w : w \in UsedWords <=>
                 \/ w \in E
                 \/ \E b \in DOMAIN used \ {a} : w \in Extent(b, Taken(used[b]))
    BY UsedMember DEF MemInv, E
  <2>3. \A w : w \in UsedWords' <=> w \in UsedWords \ E
    BY <1>7, <1>8, <2>1, <2>2
  <2> QED
    BY <2>3
<1>10. /\ StacksEven'
       /\ \A b, c \in DOMAIN used' : b < c => b + Taken(used'[b]) <= c
  BY <1>7 DEF HeapInv, HeapPartition, StacksEven
<1> HIDE DEF E
<1> QED
  BY <1>3, <1>6, <1>9, <1>10 DEF HeapInv, HeapPartition

LEMMA HeapStep ==
  ASSUME EvenStacks, MemInv, MemInv', HeapInv, [MemoryNext]_memVars
  PROVE  HeapInv'
<1>1. ASSUME NEW n \in MemSizes, Getmem(n) PROVE HeapInv'
  <2>1. n \in Nat /\ n > 0
    BY MemoryAssumption
  <2>2. CASE Deny([size |-> n, stack |-> FALSE])
    BY <2>2 DEF Deny, Refused, HeapInv, HeapPartition, StacksEven, FreeWords, UsedWords
  <2>3. CASE \E a \in Nat : Granted(a, [size |-> n, stack |-> FALSE])
    BY <2>1, <2>3, GrantKeepsPartition
  <2> QED
    BY <1>1, <2>2, <2>3, GetmemEffect
<1>2. ASSUME NEW n \in StkSizes, Getstk(n) PROVE HeapInv'
  <2>1. n \in Nat /\ n > 0 /\ n % 2 = 0
    BY MemoryAssumption DEF EvenStacks
  <2>2. CASE Deny([size |-> n, stack |-> TRUE])
    BY <2>2 DEF Deny, Refused, HeapInv, HeapPartition, StacksEven, FreeWords, UsedWords
  <2>3. CASE \E a \in Nat : Granted(a, [size |-> n, stack |-> TRUE])
    BY <2>1, <2>3, GrantKeepsPartition
  <2> QED
    BY <1>2, <2>2, <2>3, GetstkEffect
<1>3. ASSUME NEW a \in DOMAIN used, Release(a) PROVE HeapInv'
  BY <1>3, ReleaseKeepsPartition
<1>4. ASSUME NEW b \in Heap, NEW n \in MemSizes \cup StkSizes, ReleaseAgain(b, n)
      PROVE  HeapInv'
  <2>1. n \in Nat /\ RoundMb(n) \in Nat /\ RoundMb(n) > 0
    BY MemoryAssumption, RoundFacts
  <2>2. b \in Nat
    BY WordsMember, MemoryAssumption DEF Heap, Blocks
  <2>3. free' = free /\ used' = used
    BY <1>4, <2>1, <2>2, FreememEffect DEF ReleaseAgain
  <2> QED
    BY <2>3 DEF HeapInv, HeapPartition, StacksEven, FreeWords, UsedWords
<1>5. CASE UNCHANGED memVars
  BY <1>5 DEF memVars, HeapInv, HeapPartition, StacksEven, FreeWords, UsedWords
<1> QED
  BY <1>1, <1>2, <1>3, <1>4, <1>5 DEF MemoryNext

(***************************************************************************)
(* With stacks of an even number of words, every word of the heap is       *)
(* either free or in exactly one block that getmem.c or getstk.c handed    *)
(* out, and freemem.c loses none.                                          *)
(***************************************************************************)
THEOREM HeapConserved ==
  ASSUME EvenStacks
  PROVE  MemorySpec => []HeapPartition
<1>1. MemoryInit => HeapInv
  BY InitHeapInv
<1>2. MemInv /\ MemInv' /\ HeapInv /\ [MemoryNext]_memVars => HeapInv'
  BY HeapStep
<1>3. HeapInv => HeapPartition
  BY DEF HeapInv
<1> QED
  BY <1>1, <1>2, <1>3, MemoryInductive, PTL DEF MemorySpec

-----------------------------------------------------------------------------
(* The buffer pools.                                                       *)

(***************************************************************************)
(* How many processes are at one of the labels L in pool i, and what one   *)
(* process contributes.                                                    *)
(***************************************************************************)
TakeLabels == {"count", "compare", "store", "take"}

IsAt(c, L, i)  == c.at \in L /\ c.pool = i
Count(f, L, i) == Cardinality({ p \in Procs : IsAt(f[p], L, i) })
One(c, L, i)   == IF IsAt(c, L, i) THEN 1 ELSE 0

\* In g process p is at c, and everybody else is where it is in f.
Moves(f, g, p, c) == \A q \in Procs : g[q] = IF q = p THEN c ELSE f[q]

LEMMA CountMove ==
  ASSUME NEW f, NEW g, NEW p \in Procs, NEW c, NEW L, NEW i, Moves(f, g, p, c)
  PROVE  /\ Count(f, L, i) \in Nat
         /\ Count(g, L, i) = Count(f, L, i) - One(f[p], L, i) + One(c, L, i)
<1> DEFINE S == { q \in Procs : IsAt(f[q], L, i) }
           R == { q \in Procs : IsAt(g[q], L, i) }
<1>1. /\ g[p] = c
      /\ \A q \in Procs \ {p} : g[q] = f[q]
  BY DEF Moves
<1>8. Count(f, L, i) = Cardinality(S) /\ Count(g, L, i) = Cardinality(R)
  BY DEF Count
<1>2. IsFiniteSet(S) /\ IsFiniteSet(R)
  BY FS_Subset, PoolAssumption
<1>3. Cardinality(S) \in Nat /\ Cardinality(R) \in Nat
  BY <1>2, FS_CardinalityType
<1>4. CASE IsAt(f[p], L, i) /\ IsAt(c, L, i)
  <2>1. S = R
    BY <1>1, <1>4
  <2> HIDE DEF S, R
  <2> QED BY <2>1, <1>3, <1>4, <1>8 DEF One
<1>5. CASE IsAt(f[p], L, i) /\ ~IsAt(c, L, i)
  <2>1. R = S \ {p} /\ p \in S
    BY <1>1, <1>5
  <2>2. Cardinality(R) = Cardinality(S) - 1
    BY <2>1, <1>2, FS_RemoveElement
  <2> HIDE DEF S, R
  <2> QED BY <2>2, <1>3, <1>5, <1>8 DEF One
<1>6. CASE ~IsAt(f[p], L, i) /\ IsAt(c, L, i)
  <2>1. R = S \cup {p} /\ p \notin S
    BY <1>1, <1>6
  <2>2. Cardinality(R) = Cardinality(S) + 1
    BY <2>1, <1>2, FS_AddElement
  <2> HIDE DEF S, R
  <2> QED BY <2>2, <1>3, <1>6, <1>8 DEF One
<1>7. CASE ~IsAt(f[p], L, i) /\ ~IsAt(c, L, i)
  <2>1. S = R
    BY <1>1, <1>7
  <2> HIDE DEF S, R
  <2> QED BY <2>1, <1>3, <1>7, <1>8 DEF One
<1> QED
  BY <1>4, <1>5, <1>6, <1>7

(***************************************************************************)
(* What a process may be in the middle of, and what its variables then are.*)
(***************************************************************************)
InPool == {"wait", "count", "compare", "store", "take", "label", "signal"}

PlacedAt(c, n, m) ==
  /\ c.at \in InPool => c.pool \in Pools /\ c.pool < n
  /\ c.at = "label" => c.n \in Bufs
  /\ c.at \in {"poolinit", "mkpool"} => c.n \in Nat /\ c.n > 0
  /\ c.at = "mkpool" => m

Placed == \A p \in Procs : PlacedAt(pc[p], nbpools, marked)

Initialised == ~marked => nbpools = 0

\* The queue of a semaphore holds the processes that wait for it, once each.
Queued ==
  \A i \in Pools :
     /\ Distinct(squeue[i])
     /\ \A p \in Procs : p \in Members(squeue[i]) <=> IsAt(pc[p], {"wait"}, i)

\* A pool that has not been made has lost nothing.
Unmade == \A i \in Pools : i >= nbpools => stray[i] = 0

Shape == PoolTypeOK /\ Placed /\ Initialised /\ Unmade

\* BuffersCounted for one pool, in terms of Count.
CountedIn(i) ==
  /\ Len(bpnext[i]) = (IF semcnt[i] > 0 THEN semcnt[i] ELSE 0)
                        + Count(pc, TakeLabels, i) + Count(pc, {"signal"}, i)
                        + stray[i]
  /\ Len(squeue[i]) = IF semcnt[i] < 0 THEN -semcnt[i] ELSE 0

Counted == \A i \in Pools : i < nbpools /\ bpsem[i] => CountedIn(i)

LEMMA CountedIsBuffersCounted == Counted <=> BuffersCounted
  BY DEF Counted, CountedIn, BuffersCounted, Count, Taking, Signalling,
         TakeLabels, IsAt

PInv == Shape /\ Queued /\ Counted

\* Where a process can be: the values of pc[p].
Conts == [at : Labels, pool : Pools \cup {0}, n : Int]

----------------------------------------------------------------------------
(* The initial state.                                                      *)

LEMMA InitPInv == PoolInit => PInv
<1> SUFFICES ASSUME PoolInit PROVE PInv
  OBVIOUS
<1> USE DEF PoolInit
<1>1. /\ EmptyQueue \in Seq(Records(Procs))
      /\ Members(EmptyQueue) = {} /\ Distinct(EmptyQueue)
  BY EmptyQueueProps
<1>2. << >> \in Seq(Bufs)
  OBVIOUS
<1>3. PoolTypeOK
  <2>1. pc \in [Procs -> Conts]
    BY DEF Conts, User, At, Labels
  <2>2. squeue \in [Pools -> Seq(Records(Procs))]
    BY <1>1
  <2>3. /\ nbpools \in 0 .. NBPOOLS /\ made \in 0 .. MaxBufs
        /\ hdr \in [Bufs -> Pools \cup {LINK}]
    BY PoolAssumption
  <2>4. /\ bptotal \in [Pools -> Nat] /\ bpmaxused \in [Pools -> Int]
        /\ bpnext \in [Pools -> Seq(Bufs)] /\ bpsem \in [Pools -> BOOLEAN]
        /\ semcnt \in [Pools -> Int] /\ stray \in [Pools -> Nat]
    BY <1>2
  <2> QED BY <2>1, <2>2, <2>3, <2>4 DEF PoolTypeOK, Records, Conts
<1>4. Shape
  BY <1>3 DEF Shape, Placed, PlacedAt, InPool, Initialised, Unmade, User, At
<1>5. Queued
  BY <1>1 DEF Queued, IsAt, User, At
<1>6. Counted
  BY DEF Counted, Pools
<1> QED
  BY <1>4, <1>5, <1>6 DEF PInv

----------------------------------------------------------------------------
(* Steps that only move a process, or move it and change what they say.    *)

LEMMA PlacedStep ==
  ASSUME Shape, NEW p \in Procs, NEW c \in Conts, pc' = [pc EXCEPT ![p] = c],
         nbpools' \in Nat, nbpools <= nbpools', marked => marked',
         PlacedAt(c, nbpools', marked')
  PROVE  pc' \in [Procs -> Conts] /\ Placed'
<1>1. pc \in [Procs -> Conts] /\ nbpools \in Nat /\ Pools \subseteq Nat
  BY PoolAssumption DEF Shape, PoolTypeOK, Conts, Pools
<1>2. ASSUME NEW q \in Procs
      PROVE  PlacedAt(pc'[q], nbpools', marked')
  <2>1. CASE q = p
    BY <1>1, <2>1
  <2>2. CASE q # p
    <3>1. pc'[q] = pc[q] /\ PlacedAt(pc[q], nbpools, marked)
      BY <1>1, <2>2 DEF Shape, Placed
    <3>2. PlacedAt(pc[q], nbpools', marked')
      <4>1. pc[q].at \in InPool => pc[q].pool \in Nat
        BY <1>1, <3>1 DEF PlacedAt
      <4> QED BY <1>1, <3>1, <4>1 DEF PlacedAt
    <3> QED BY <3>1, <3>2
  <2> QED BY <2>1, <2>2
<1> QED
  BY <1>1, <1>2 DEF Placed

LEMMA ShapeMove ==
  ASSUME Shape, NEW p \in Procs, NEW c \in Conts, pc' = [pc EXCEPT ![p] = c],
         PlacedAt(c, nbpools, marked),
         UNCHANGED <<bptotal, bpnext, bpsem, semVars, mkVars, stray>>,
         hdr' \in [Bufs -> Pools \cup {LINK}], held' \subseteq Bufs,
         bpmaxused' \in [Pools -> Int], kills' = kills
  PROVE  Shape'
<1> USE DEF mkVars, semVars
<1>1. pc' \in [Procs -> Conts] /\ Placed'
  <2>1. nbpools' \in Nat /\ nbpools <= nbpools'
    BY PoolAssumption DEF Shape, PoolTypeOK
  <2> QED BY <2>1, PlacedStep
<1>2. PoolTypeOK'
  BY <1>1 DEF Shape, PoolTypeOK, Conts
<1> QED
  BY <1>1, <1>2 DEF Shape, Initialised, Unmade

\* The process p counts as much at c as where it was.
SameWeight(p, c) ==
  \A i \in Pools : /\ IsAt(c, {"wait"}, i) <=> IsAt(pc[p], {"wait"}, i)
                   /\ One(c, TakeLabels, i) = One(pc[p], TakeLabels, i)
                   /\ One(c, {"signal"}, i) = One(pc[p], {"signal"}, i)

LEMMA OneType == \A c, L, i : One(c, L, i) \in {0, 1}
  BY DEF One

LEMMA SameCounts ==
  ASSUME PInv, NEW p \in Procs, NEW c, pc' = [pc EXCEPT ![p] = c],
         SameWeight(p, c), NEW i \in Pools
  PROVE  /\ Count(pc', TakeLabels, i) = Count(pc, TakeLabels, i)
         /\ Count(pc', {"signal"}, i) = Count(pc, {"signal"}, i)
         /\ \A q \in Procs :
               IsAt(pc'[q], {"wait"}, i) <=> IsAt(pc[q], {"wait"}, i)
<1>1. Moves(pc, pc', p, c)
  BY DEF PInv, Shape, PoolTypeOK, Moves
<1>2. ASSUME NEW L, One(c, L, i) = One(pc[p], L, i)
      PROVE  Count(pc', L, i) = Count(pc, L, i)
  <2>1. /\ Count(pc, L, i) \in Nat
        /\ Count(pc', L, i) = Count(pc, L, i) - One(pc[p], L, i) + One(c, L, i)
    BY <1>1, CountMove
  <2>2. One(c, L, i) \in {0, 1}
    BY OneType
  <2> QED BY <1>2, <2>1, <2>2
<1> QED
  BY <1>1, <1>2 DEF SameWeight, Moves

LEMMA MoveKeeps ==
  ASSUME PInv, NEW p \in Procs, NEW c, pc' = [pc EXCEPT ![p] = c],
         SameWeight(p, c), UNCHANGED <<bpnext, bpsem, nbpools, semVars, stray>>
  PROVE  Queued' /\ Counted'
<1>1. \A i \in Pools :
         /\ Count(pc', TakeLabels, i) = Count(pc, TakeLabels, i)
         /\ Count(pc', {"signal"}, i) = Count(pc, {"signal"}, i)
         /\ \A q \in Procs :
               IsAt(pc'[q], {"wait"}, i) <=> IsAt(pc[q], {"wait"}, i)
  BY SameCounts
<1>2. Queued'
  BY <1>1 DEF PInv, Queued, semVars
<1>3. Counted'
  BY <1>1 DEF PInv, Counted, CountedIn, semVars
<1> QED BY <1>2, <1>3

LEMMA ExceptType ==
  ASSUME NEW S, NEW T, NEW f \in [S -> T], NEW k, NEW v \in T
  PROVE  [f EXCEPT ![k] = v] \in [S -> T]
  OBVIOUS

LEMMA AtConts ==
  ASSUME NEW l \in Labels, NEW i \in Pools \cup {0}, NEW n \in Int
  PROVE  /\ At(l, i, n) \in Conts
         /\ At(l, i, n).at = l /\ At(l, i, n).pool = i /\ At(l, i, n).n = n
  BY DEF At, Conts

LEMMA PcFacts ==
  ASSUME Shape, NEW p \in Procs
  PROVE  /\ pc[p] \in Conts /\ pc[p].at \in Labels
         /\ pc[p].pool \in Pools \cup {0} /\ pc[p].n \in Int
         /\ PlacedAt(pc[p], nbpools, marked)
         /\ InUser(p) => pc[p].at = "user"
  BY DEF Shape, PoolTypeOK, Conts, Placed, InUser, User, At

\* From outside the pools to outside the pools.
LEMMA OutsideWeight ==
  ASSUME NEW p, NEW c, pc[p].at \notin InPool, c.at \notin InPool
  PROVE  SameWeight(p, c)
  BY DEF SameWeight, One, IsAt, InPool, TakeLabels

\* From one label of getbuf to another one, in the same pool.
LEMMA TakingWeight ==
  ASSUME NEW p, NEW c, pc[p].at \in TakeLabels, c.at \in TakeLabels,
         c.pool = pc[p].pool
  PROVE  SameWeight(p, c)
  BY DEF SameWeight, One, IsAt, InPool, TakeLabels

LEMMA MkpoolStep ==
  ASSUME PInv, NEW p \in Procs, NEW n \in PoolSizes, Mkpool(p, n)
  PROVE  PInv'
<1> DEFINE c == At(IF marked THEN "mkpool" ELSE "poolinit", 0, n)
<1>1. n \in Nat /\ n > 0
  BY PoolAssumption
<1>2. /\ c \in Conts /\ c.n = n
      /\ c.at = IF marked THEN "mkpool" ELSE "poolinit"
  BY <1>1, AtConts DEF Labels
<1>3. pc' = [pc EXCEPT ![p] = c]
  BY DEF Mkpool, Go
<1>4. PlacedAt(c, nbpools, marked) /\ c.at \notin InPool
  BY <1>1, <1>2 DEF PlacedAt, InPool
<1> HIDE DEF c
<1>5. Shape'
  BY <1>2, <1>3, <1>4, ShapeMove DEF PInv, Mkpool, poolVars, Shape, PoolTypeOK
<1>6. Queued' /\ Counted'
  <2>1. pc[p].at \notin InPool
    BY PcFacts DEF PInv, Mkpool, InPool
  <2>2. SameWeight(p, c)
    BY <2>1, <1>4, OutsideWeight
  <2> QED BY <2>2, <1>3, MoveKeeps DEF Mkpool, poolVars, mkVars
<1> QED
  BY <1>5, <1>6 DEF PInv

LEMMA PoolinitStep ==
  ASSUME PInv, NEW p \in Procs, Poolinit(p)
  PROVE  PInv'
<1> DEFINE c == At("mkpool", 0, pc[p].n)
<1>1. /\ PlacedAt(pc[p], nbpools, marked) /\ pc[p].at = "poolinit"
      /\ pc[p].n \in Nat /\ pc[p].n > 0
  BY PcFacts DEF PInv, Poolinit, PlacedAt
<1>2. c \in Conts /\ c.at = "mkpool" /\ c.n = pc[p].n
  BY <1>1, AtConts DEF Labels
<1>3. pc' = [pc EXCEPT ![p] = c] /\ marked' = TRUE
  BY DEF Poolinit, Go
<1>4. PlacedAt(c, nbpools', marked') /\ c.at \notin InPool
  BY <1>1, <1>2, <1>3 DEF PlacedAt, InPool
<1> HIDE DEF c
<1>5. nbpools' = nbpools
  BY DEF Poolinit, PInv, Shape, Initialised, PoolTypeOK
<1>6. Shape'
  <2>1. pc' \in [Procs -> Conts] /\ Placed'
    <3>1. nbpools' \in Nat /\ nbpools <= nbpools'
      BY <1>5, PoolAssumption DEF PInv, Shape, PoolTypeOK
    <3> QED BY <3>1, <1>2, <1>3, <1>4, PlacedStep DEF PInv
  <2>2. PoolTypeOK'
    BY <2>1, <1>3, <1>5
       DEF PInv, Shape, PoolTypeOK, Poolinit, poolVars, semVars, Conts
  <2> QED BY <2>1, <2>2, <1>3, <1>5 DEF PInv, Shape, Initialised, Unmade, Poolinit
<1>7. Queued' /\ Counted'
  <2>1. SameWeight(p, c)
    BY <1>1, <1>4, OutsideWeight DEF InPool
  <2> QED BY <2>1, <1>3, <1>5, MoveKeeps DEF Poolinit, poolVars
<1> QED
  BY <1>6, <1>7 DEF PInv

\* Nobody is in a pool that has not been made.
LEMMA NobodyIn ==
  ASSUME PInv, NEW i \in Pools, i >= nbpools
  PROVE  /\ Count(pc, TakeLabels, i) = 0 /\ Count(pc, {"signal"}, i) = 0
         /\ Len(squeue[i]) = 0 /\ stray[i] = 0
<1>1. nbpools \in Nat /\ i \in Nat
  BY PoolAssumption DEF PInv, Shape, PoolTypeOK, Pools
<1>2. ASSUME NEW p \in Procs, pc[p].at \in InPool PROVE pc[p].pool # i
  BY <1>1, <1>2 DEF PInv, Shape, Placed, PlacedAt, Pools
<1>3. ASSUME NEW L, L \subseteq InPool PROVE Count(pc, L, i) = 0
  <2>1. { p \in Procs : IsAt(pc[p], L, i) } = {}
    BY <1>2, <1>3 DEF IsAt
  <2> QED BY <2>1, FS_EmptySet DEF Count
<1>4. TakeLabels \subseteq InPool /\ {"signal"} \subseteq InPool
  BY DEF TakeLabels, InPool
<1>5. Len(squeue[i]) = 0
  <2>1. squeue[i] \in Seq(Records(Procs))
    BY DEF PInv, Shape, PoolTypeOK, Records
  <2>2. Members(squeue[i]) = {}
    <3>1. Members(squeue[i]) \subseteq Procs
      BY <2>1, ListFacts
    <3>2. ASSUME NEW p \in Procs PROVE p \notin Members(squeue[i])
      BY <1>2 DEF PInv, Queued, IsAt, InPool
    <3> QED BY <3>1, <3>2
  <2> QED BY <2>1, <2>2, EmptyQueueLen
<1> QED
  BY <1>3, <1>4, <1>5 DEF PInv, Shape, Unmade

LEMMA MkpoolEndStep ==
  ASSUME PInv, NEW p \in Procs, MkpoolEnd(p)
  PROVE  PInv'
<1> DEFINE n == pc[p].n
<1>1. /\ pc[p].at = "mkpool" /\ n \in Nat /\ n > 0 /\ marked
  BY PcFacts DEF PInv, MkpoolEnd, PlacedAt
<1> HIDE DEF n
<1>2. User \in Conts /\ User.at = "user"
  BY AtConts DEF User, Labels
<1>3. pc' = [pc EXCEPT ![p] = User]
  BY DEF MkpoolEnd, Go
<1>4. ASSUME NEW k, NEW m PROVE PlacedAt(User, k, m)
  BY <1>2 DEF PlacedAt, InPool
<1>5. SameWeight(p, User)
  BY <1>1, <1>2, OutsideWeight DEF InPool
<1>6. nbpools \in Nat /\ made \in Nat /\ NBPOOLS \in Nat /\ MaxBufs \in Nat
      /\ nbpools <= NBPOOLS /\ made <= MaxBufs
  BY PoolAssumption DEF PInv, Shape, PoolTypeOK
<1>7. CASE NoRoom(n)
  <2>1. UNCHANGED <<poolVars, semVars, mkVars, stray, hdr, held, kills>>
    BY <1>7 DEF MkpoolEnd, semVars, mkVars, n
  <2>2. Shape'
    BY <2>1, <1>2, <1>3, <1>4, ShapeMove
       DEF PInv, poolVars, Shape, PoolTypeOK
  <2>3. Queued' /\ Counted'
    BY <2>1, <1>3, <1>5, MoveKeeps DEF poolVars, mkVars
  <2> QED BY <2>2, <2>3 DEF PInv
<1>8. CASE ~NoRoom(n)
  <2>1. /\ nbpools' = nbpools + 1 /\ nbpools' <= NBPOOLS
        /\ made' = made + n /\ made' <= MaxBufs
        /\ bptotal'   = [bptotal EXCEPT ![nbpools] = n]
        /\ bpmaxused' = [bpmaxused EXCEPT ![nbpools] = 0]
        /\ bpnext'    = [bpnext EXCEPT ![nbpools] = Linked(n)]
        /\ semcnt'    = [semcnt EXCEPT ![nbpools] = n]
        /\ UNCHANGED <<squeue, marked, hdr, held, stray, kills>>
    BY <1>8, <1>6, <1>1 DEF MkpoolEnd, NoRoom, n
  <2>2. PICK given \in BOOLEAN : bpsem' = [bpsem EXCEPT ![nbpools] = given]
    BY <1>8 DEF MkpoolEnd, n
  <2>3. Linked(n) \in Seq(Bufs) /\ Len(Linked(n)) = n
    <3>1. Linked(n) \in [1 .. n -> Bufs]
      BY <2>1, <1>1, <1>6 DEF Linked, Bufs
    <3> QED BY <3>1, <1>1
  <2>4. nbpools \in Pools
    BY <1>6, <2>1 DEF Pools
  <2>5. pc' \in [Procs -> Conts] /\ Placed'
    <3>1. nbpools' \in Nat /\ nbpools <= nbpools' /\ marked' = marked
      BY <2>1, <1>6
    <3>2. PlacedAt(User, nbpools', marked')
      BY <1>4
    <3> QED BY <3>1, <3>2, <1>2, <1>3, PlacedStep DEF PInv
  <2>6. PoolTypeOK'
    <3>1. bpnext' \in [Pools -> Seq(Bufs)] /\ bpsem' \in [Pools -> BOOLEAN]
      BY <2>1, <2>2, <2>3 DEF PInv, Shape, PoolTypeOK
    <3>2. /\ bptotal' \in [Pools -> Nat] /\ bpmaxused' \in [Pools -> Int]
          /\ semcnt' \in [Pools -> Int]
      <4>1. /\ bptotal \in [Pools -> Nat] /\ bpmaxused \in [Pools -> Int]
            /\ semcnt \in [Pools -> Int]
        BY DEF PInv, Shape, PoolTypeOK
      <4>2. bptotal' \in [Pools -> Nat]
        BY <2>1, <1>1, <4>1
      <4>3. bpmaxused' \in [Pools -> Int]
        BY <2>1, <4>1, 0 \in Int, ExceptType
      <4>4. semcnt' \in [Pools -> Int]
        BY <2>1, <1>1, <4>1, n \in Int, ExceptType
      <4> QED BY <4>2, <4>3, <4>4
    <3>3. nbpools' \in 0 .. NBPOOLS /\ made' \in 0 .. MaxBufs
      BY <2>1, <1>1, <1>6
    <3> QED BY <3>1, <3>2, <3>3, <2>1, <2>5 DEF PInv, Shape, PoolTypeOK, Conts
  <2>7. Shape'
    BY <2>1, <2>5, <2>6, <1>1, <1>6
       DEF PInv, Shape, Initialised, Unmade, Pools
  <2>8. \A i \in Pools :
           /\ Count(pc', TakeLabels, i) = Count(pc, TakeLabels, i)
           /\ Count(pc', {"signal"}, i) = Count(pc, {"signal"}, i)
           /\ \A q \in Procs :
                 IsAt(pc'[q], {"wait"}, i) <=> IsAt(pc[q], {"wait"}, i)
    BY <1>3, <1>5, SameCounts
  <2>9. Queued'
    BY <2>1, <2>8 DEF PInv, Queued
  <2>10. Counted'
    <3> SUFFICES ASSUME NEW i \in Pools, i < nbpools', bpsem'[i]
                 PROVE  CountedIn(i)'
      BY DEF Counted
    <3>1. CASE i = nbpools
      <4>1. bpnext'[i] = Linked(n) /\ semcnt'[i] = n
        BY <3>1, <2>1 DEF PInv, Shape, PoolTypeOK
      <4>2. /\ Count(pc, TakeLabels, i) = 0 /\ Count(pc, {"signal"}, i) = 0
            /\ Len(squeue[i]) = 0 /\ stray[i] = 0
        BY <3>1, <1>6, NobodyIn
      <4> QED BY <4>1, <4>2, <2>3, <2>1, <2>8, <1>1 DEF CountedIn
    <3>2. CASE i # nbpools
      <4>1. /\ bpnext'[i] = bpnext[i] /\ semcnt'[i] = semcnt[i]
            /\ bpsem'[i] = bpsem[i] /\ squeue' = squeue /\ stray' = stray
        BY <3>2, <2>1, <2>2 DEF PInv, Shape, PoolTypeOK
      <4>2. i < nbpools
        BY <3>2, <2>1, <1>6 DEF Pools
      <4>3. CountedIn(i)
        BY <4>1, <4>2 DEF PInv, Counted
      <4> QED BY <4>1, <4>3, <2>8 DEF CountedIn
    <3> QED BY <3>1, <3>2
  <2> QED BY <2>7, <2>9, <2>10 DEF PInv
<1> QED
  BY <1>7, <1>8

----------------------------------------------------------------------------
(* getbuf and nbgetbuf.                                                    *)

\* How the numbers of takers and signallers change when p moves to c.
LEMMA CountsAfter ==
  ASSUME PInv, NEW p \in Procs, NEW c, pc' = [pc EXCEPT ![p] = c],
         NEW L, NEW i
  PROVE  /\ Count(pc, L, i) \in Nat
         /\ Count(pc', L, i) = Count(pc, L, i) - One(pc[p], L, i) + One(c, L, i)
<1>1. Moves(pc, pc', p, c)
  BY DEF PInv, Shape, PoolTypeOK, Moves
<1> QED BY <1>1, CountMove

LEMMA GetbufStep ==
  ASSUME PInv, NEW p \in Procs, NEW i \in Pools, Getbuf(p, i)
  PROVE  PInv'
<1> DEFINE l == IF semcnt'[i] < 0 THEN "wait" ELSE "count"
           c == At(l, i, 0)
<1>1. /\ pc' = [pc EXCEPT ![p] = c] /\ pc[p].at = "user"
      /\ i < nbpools
      /\ semcnt' = IF bpsem[i] THEN [semcnt EXCEPT ![i] = semcnt[i] - 1] ELSE semcnt
      /\ squeue' = IF semcnt'[i] < 0
                   THEN [squeue EXCEPT ![i] = Enqueue(squeue[i], p)] ELSE squeue
      /\ UNCHANGED <<poolVars, mkVars, hdr, held, stray, kills>>
  BY PcFacts DEF PInv, Getbuf, Go, IsPool
<1>2. l \in {"wait", "count"}
  OBVIOUS
<1>3. c \in Conts /\ c.at = l /\ c.pool = i
  BY AtConts DEF Labels
<1>4. PlacedAt(c, nbpools, marked)
  BY <1>1, <1>2, <1>3 DEF PlacedAt
<1>5. squeue \in [Pools -> Seq(Records(Procs))] /\ semcnt \in [Pools -> Int]
  BY DEF PInv, Shape, PoolTypeOK, Records
<1>6. /\ Enqueue(squeue[i], p) \in Seq(Records(Procs))
      /\ Len(squeue[i]) \in Nat
      /\ Len(Enqueue(squeue[i], p)) = Len(squeue[i]) + 1
      /\ Members(Enqueue(squeue[i], p)) = Members(squeue[i]) \cup {p}
      /\ p \notin Members(squeue[i])
      /\ Distinct(Enqueue(squeue[i], p))
  <2>1. p \notin Members(squeue[i]) /\ Distinct(squeue[i])
    BY <1>1 DEF PInv, Queued, IsAt
  <2> QED BY <2>1, <1>5, EnqueueProps, ListFacts
<1> HIDE DEF c
<1>7. pc' \in [Procs -> Conts] /\ Placed'
  <2>1. nbpools' \in Nat /\ nbpools <= nbpools' /\ marked' = marked /\ nbpools' = nbpools
    BY <1>1, PoolAssumption DEF PInv, Shape, PoolTypeOK, mkVars
  <2> QED BY <2>1, <1>1, <1>3, <1>4, PlacedStep DEF PInv
<1>8. semcnt' \in [Pools -> Int]
  BY <1>1, <1>5
<1>9. squeue' \in [Pools -> Seq(Records(Procs))]
  BY <1>1, <1>5, <1>6
<1>10. Shape'
  BY <1>1, <1>7, <1>8, <1>9
     DEF PInv, Shape, PoolTypeOK, Initialised, Unmade, poolVars, mkVars, Conts,
         Records
<1>11. pc'[p] = c /\ \A q \in Procs \ {p} : pc'[q] = pc[q]
  BY <1>1 DEF PInv, Shape, PoolTypeOK
<1>12. Queued'
  <2> SUFFICES ASSUME NEW j \in Pools
               PROVE  /\ Distinct(squeue'[j])
                      /\ \A q \in Procs : q \in Members(squeue'[j]) <=>
                                             IsAt(pc'[q], {"wait"}, j)
    BY DEF Queued
  <2>1. /\ Distinct(squeue[j])
        /\ \A q \in Procs : q \in Members(squeue[j]) <=>
                               IsAt(pc[q], {"wait"}, j)
    BY DEF PInv, Queued
  <2>2. ~IsAt(pc[p], {"wait"}, j)
    BY <1>1 DEF IsAt
  <2>3. IsAt(pc'[p], {"wait"}, j) <=> j = i /\ semcnt'[i] < 0
    BY <1>11, <1>3 DEF IsAt
  <2>4. CASE j = i /\ semcnt'[i] < 0
    <3>1. squeue'[j] = Enqueue(squeue[i], p)
      BY <2>4, <1>1, <1>5
    <3> QED BY <3>1, <2>1, <2>2, <2>3, <2>4, <1>6, <1>11
  <2>5. CASE ~(j = i /\ semcnt'[i] < 0)
    <3>1. squeue'[j] = squeue[j]
      BY <2>5, <1>1, <1>5
    <3> QED BY <3>1, <2>1, <2>2, <2>3, <2>5, <1>11
  <2> QED BY <2>4, <2>5
<1>13. Counted'
  <2> SUFFICES ASSUME NEW j \in Pools, j < nbpools', bpsem'[j]
               PROVE  CountedIn(j)'
    BY DEF Counted
  <2>1. CountedIn(j) /\ UNCHANGED <<bpnext, stray, bpsem>>
    BY <1>1 DEF PInv, Counted, poolVars, mkVars
  <2>2. /\ Count(pc, TakeLabels, j) \in Nat
        /\ Count(pc', TakeLabels, j) = Count(pc, TakeLabels, j)
              - One(pc[p], TakeLabels, j) + One(c, TakeLabels, j)
        /\ Count(pc, {"signal"}, j) \in Nat
        /\ Count(pc', {"signal"}, j) = Count(pc, {"signal"}, j)
              - One(pc[p], {"signal"}, j) + One(c, {"signal"}, j)
    <3>1. pc' = [pc EXCEPT ![p] = c]
      BY <1>1
    <3>2. \A L : /\ Count(pc, L, j) \in Nat
                 /\ Count(pc', L, j) = Count(pc, L, j) - One(pc[p], L, j) + One(c, L, j)
      BY <3>1, CountsAfter
    <3> QED BY <3>2
  <2>3. One(pc[p], TakeLabels, j) = 0 /\ One(pc[p], {"signal"}, j) = 0
    BY <1>1 DEF One, IsAt, TakeLabels
  <2>4. /\ One(c, {"signal"}, j) = 0
        /\ One(c, TakeLabels, j) = IF j = i /\ ~(semcnt'[i] < 0) THEN 1 ELSE 0
    BY <1>3 DEF One, IsAt, TakeLabels
  <2>5. /\ semcnt[j] \in Int
        /\ semcnt'[j] = IF j = i THEN semcnt[j] - 1 ELSE semcnt[j]
    BY <1>1, <1>5, <2>1
  <2>6. Len(squeue'[j]) = IF j = i /\ semcnt'[i] < 0 THEN Len(squeue[j]) + 1
                          ELSE Len(squeue[j])
    BY <1>1, <1>5, <1>6
  <2>7. Len(squeue[j]) \in Nat /\ stray[j] \in Nat
    BY <1>5, ListFacts DEF PInv, Shape, PoolTypeOK
  <2>8. CASE j = i /\ semcnt'[i] < 0
    BY <2>1, <2>2, <2>3, <2>4, <2>5, <2>6, <2>7, <2>8 DEF CountedIn
  <2>9. CASE j = i /\ ~(semcnt'[i] < 0)
    <3>1. semcnt[j] > 0 /\ semcnt'[j] = semcnt[j] - 1
      BY <2>5, <2>9
    <3>2. /\ Count(pc', TakeLabels, j) = Count(pc, TakeLabels, j) + 1
          /\ Count(pc', {"signal"}, j) = Count(pc, {"signal"}, j)
      BY <2>2, <2>3, <2>4, <2>9
    <3>3. /\ Len(bpnext[j]) = semcnt[j] + Count(pc, TakeLabels, j)
                                + Count(pc, {"signal"}, j) + stray[j]
          /\ Len(squeue[j]) = 0
      BY <2>1, <2>5, <3>1 DEF CountedIn
    <3>4. Len(squeue'[j]) = 0 /\ bpnext' = bpnext /\ stray' = stray
      BY <2>1, <2>6, <2>9, <3>3
    <3> QED BY <3>1, <3>2, <3>3, <3>4, <2>2, <2>5, <2>7, SMTT(30) DEF CountedIn
  <2>10. CASE j # i
    BY <2>1, <2>2, <2>3, <2>4, <2>5, <2>6, <2>7, <2>10, <1>1 DEF CountedIn
  <2> QED BY <2>8, <2>9, <2>10
<1> QED
  BY <1>10, <1>12, <1>13 DEF PInv

LEMMA GetbufCountStep ==
  ASSUME PInv, NEW p \in Procs, GetbufCount(p)
  PROVE  PInv'
<1> DEFINE i == pc[p].pool
           n == bptotal[i] - Scount(i)
           c == At("compare", i, n)
<1>1. pc' = [pc EXCEPT ![p] = c] /\ pc[p].at = "count"
  BY DEF GetbufCount, Go
<1>2. i \in Pools /\ i < nbpools
  BY <1>1, PcFacts DEF PInv, PlacedAt, InPool
<1>3. n \in Int
  <2>1. bptotal[i] \in Int /\ Scount(i) \in Int
    BY <1>2 DEF PInv, Shape, PoolTypeOK, Scount
  <2> QED BY <2>1
<1> HIDE DEF n
<1>4. c \in Conts /\ c.at = "compare" /\ c.pool = i
  BY <1>2, <1>3, AtConts DEF Labels
<1> HIDE DEF c
<1>5. PlacedAt(c, nbpools, marked)
  BY <1>2, <1>4 DEF PlacedAt
<1>6. SameWeight(p, c)
  BY <1>1, <1>4, TakingWeight DEF TakeLabels
<1>7. Shape'
  BY <1>1, <1>4, <1>5, ShapeMove
     DEF PInv, GetbufCount, poolVars, Shape, PoolTypeOK
<1>8. Queued' /\ Counted'
  BY <1>1, <1>6, MoveKeeps DEF GetbufCount, poolVars, mkVars
<1> QED
  BY <1>7, <1>8 DEF PInv

LEMMA GetbufCompareStep ==
  ASSUME PInv, NEW p \in Procs, GetbufCompare(p)
  PROVE  PInv'
<1> DEFINE i == pc[p].pool
           l == IF pc[p].n > bpmaxused[i] THEN "store" ELSE "take"
           c == At(l, i, pc[p].n)
<1>1. pc' = [pc EXCEPT ![p] = c] /\ pc[p].at = "compare"
  BY DEF GetbufCompare, Go
<1>2. i \in Pools /\ i < nbpools /\ pc[p].n \in Int
  BY <1>1, PcFacts DEF PInv, PlacedAt, InPool
<1>3. l \in {"store", "take"}
  OBVIOUS
<1> HIDE DEF l
<1>4. c \in Conts /\ c.at = l /\ c.pool = i
  BY <1>2, <1>3, AtConts DEF Labels
<1> HIDE DEF c
<1>5. PlacedAt(c, nbpools, marked)
  BY <1>2, <1>3, <1>4 DEF PlacedAt
<1>6. SameWeight(p, c)
  BY <1>1, <1>3, <1>4, TakingWeight DEF TakeLabels
<1>7. Shape'
  BY <1>1, <1>4, <1>5, ShapeMove
     DEF PInv, GetbufCompare, poolVars, Shape, PoolTypeOK
<1>8. Queued' /\ Counted'
  BY <1>1, <1>6, MoveKeeps DEF GetbufCompare, poolVars, mkVars
<1> QED
  BY <1>7, <1>8 DEF PInv

LEMMA GetbufStoreStep ==
  ASSUME PInv, NEW p \in Procs, GetbufStore(p)
  PROVE  PInv'
<1> DEFINE i == pc[p].pool
           c == At("take", i, 0)
<1>1. /\ pc' = [pc EXCEPT ![p] = c] /\ pc[p].at = "store"
      /\ bpmaxused' = [bpmaxused EXCEPT ![i] = pc[p].n]
  BY DEF GetbufStore, Go
<1>2. i \in Pools /\ i < nbpools /\ pc[p].n \in Int
  BY <1>1, PcFacts DEF PInv, PlacedAt, InPool
<1>3. bpmaxused' \in [Pools -> Int]
  BY <1>1, <1>2, ExceptType DEF PInv, Shape, PoolTypeOK
<1>4. c \in Conts /\ c.at = "take" /\ c.pool = i
  BY <1>2, AtConts DEF Labels
<1> HIDE DEF c
<1>5. PlacedAt(c, nbpools, marked)
  BY <1>2, <1>4 DEF PlacedAt
<1>6. SameWeight(p, c)
  BY <1>1, <1>4, TakingWeight DEF TakeLabels
<1>7. Shape'
  BY <1>1, <1>3, <1>4, <1>5, ShapeMove
     DEF PInv, GetbufStore, Shape, PoolTypeOK
<1>8. Queued' /\ Counted'
  BY <1>1, <1>6, MoveKeeps DEF GetbufStore, mkVars
<1> QED
  BY <1>7, <1>8 DEF PInv

LEMMA GetbufLabelStep ==
  ASSUME PInv, NEW p \in Procs, GetbufLabel(p)
  PROVE  PInv'
<1>1. /\ pc' = [pc EXCEPT ![p] = User] /\ pc[p].at = "label"
      /\ hdr' = [hdr EXCEPT ![pc[p].n] = pc[p].pool]
      /\ held' = held \cup {pc[p].n}
      /\ UNCHANGED <<poolVars, semVars, mkVars, stray, kills>>
  BY DEF GetbufLabel, Go
<1>2. pc[p].pool \in Pools /\ pc[p].n \in Bufs
  BY <1>1, PcFacts DEF PInv, PlacedAt, InPool
<1>3. User \in Conts /\ User.at = "user"
  BY AtConts DEF User, Labels
<1>4. PlacedAt(User, nbpools, marked)
  BY <1>3 DEF PlacedAt, InPool
<1>5. SameWeight(p, User)
  BY <1>1, <1>3 DEF SameWeight, One, IsAt, TakeLabels
<1>6. hdr' \in [Bufs -> Pools \cup {LINK}] /\ held' \subseteq Bufs
  <2>1. hdr \in [Bufs -> Pools \cup {LINK}] /\ held \subseteq Bufs
    BY DEF PInv, Shape, PoolTypeOK
  <2> QED BY <2>1, <1>1, <1>2
<1>7. Shape'
  BY <1>1, <1>3, <1>4, <1>6, ShapeMove DEF PInv, poolVars, Shape, PoolTypeOK
<1>8. Queued' /\ Counted'
  BY <1>1, <1>5, MoveKeeps DEF poolVars, mkVars
<1> QED
  BY <1>7, <1>8 DEF PInv

\* What Unlinks(p, i) takes off the list of pool i.
LEMMA UnlinksProps ==
  ASSUME PInv, NEW p \in Procs, NEW i \in Pools, i < nbpools, Unlinks(p, i)
  PROVE  \E c \in Conts :
            /\ c = At("label", i, Head(bpnext[i]))
            /\ c.at = "label" /\ c.pool = i /\ c.n = Head(bpnext[i])
            /\ PlacedAt(c, nbpools, marked)
            /\ pc' = [pc EXCEPT ![p] = c]
            /\ bpnext[i] # << >>
            /\ bpnext' \in [Pools -> Seq(Bufs)]
            /\ \A j \in Pools : /\ Len(bpnext[j]) \in Nat
                                /\ Len(bpnext'[j]) = IF j = i THEN Len(bpnext[j]) - 1
                                                      ELSE Len(bpnext[j])
<1> DEFINE s == bpnext[i]
           c == At("label", i, Head(s))
<1>1. /\ s # << >> /\ bpnext' = [bpnext EXCEPT ![i] = Tail(s)]
      /\ pc' = [pc EXCEPT ![p] = c]
  BY DEF Unlinks, Go
<1>2. bpnext \in [Pools -> Seq(Bufs)]
  BY DEF PInv, Shape, PoolTypeOK
<1>3. s \in Seq(Bufs)
  BY <1>2
<1>4. /\ Head(s) \in Bufs /\ Tail(s) \in Seq(Bufs)
      /\ Len(s) \in Nat /\ Len(Tail(s)) = Len(s) - 1
  BY <1>1, <1>3, HeadTailProperties, LenProperties
<1>5. /\ c \in Conts /\ c.at = "label" /\ c.pool = i /\ c.n = Head(s)
  BY <1>4, AtConts DEF Labels, Bufs
<1>6. PlacedAt(c, nbpools, marked)
  <2> HIDE DEF c, s
  <2> QED BY <1>4, <1>5 DEF PlacedAt
<1>7. bpnext' \in [Pools -> Seq(Bufs)]
  <2> HIDE DEF s
  <2> QED BY <1>1, <1>2, <1>4, ExceptType
<1>8. ASSUME NEW j \in Pools
      PROVE  /\ Len(bpnext[j]) \in Nat
             /\ Len(bpnext'[j]) = IF j = i THEN Len(bpnext[j]) - 1
                                   ELSE Len(bpnext[j])
  <2>1. bpnext[j] \in Seq(Bufs)
    BY <1>2
  <2>2. Len(bpnext[j]) \in Nat
    BY <2>1, LenProperties
  <2>3. CASE j = i
    BY <2>2, <2>3, <1>1, <1>2, <1>4
  <2>4. CASE j # i
    BY <2>2, <2>4, <1>1, <1>2
  <2> QED BY <2>3, <2>4
<1> HIDE DEF c
<1> QED
  BY <1>1, <1>5, <1>6, <1>7, <1>8 DEF c

(***************************************************************************)
(* What is common to the steps below: p goes to c, in pools that stay the  *)
(* same ones.                                                              *)
(***************************************************************************)
LEMMA GoesTo ==
  ASSUME PInv, NEW p \in Procs, NEW c \in Conts, pc' = [pc EXCEPT ![p] = c],
         UNCHANGED mkVars, PlacedAt(c, nbpools, marked)
  PROVE  /\ pc' \in [Procs -> Conts] /\ Placed'
         /\ Moves(pc, pc', p, c)
         /\ nbpools' = nbpools /\ marked' = marked /\ made' = made
<1>1. nbpools' = nbpools /\ marked' = marked /\ made' = made
  BY DEF mkVars
<1>2. nbpools' \in Nat /\ nbpools <= nbpools'
  BY <1>1, PoolAssumption DEF PInv, Shape, PoolTypeOK
<1>3. PlacedAt(c, nbpools', marked') /\ (marked => marked')
  BY <1>1
<1>4. Shape
  BY DEF PInv
<1>5. pc' \in [Procs -> Conts] /\ Placed'
  BY <1>2, <1>3, <1>4, PlacedStep
<1>6. Moves(pc, pc', p, c)
  BY <1>4 DEF Shape, PoolTypeOK, Moves
<1> QED BY <1>1, <1>5, <1>6

LEMMA QueuedMove ==
  ASSUME PInv, NEW p \in Procs, NEW c, Moves(pc, pc', p, c),
         pc[p].at # "wait", c.at # "wait", squeue' = squeue
  PROVE  Queued'
<1>1. ASSUME NEW j \in Pools, NEW q \in Procs
      PROVE  IsAt(pc'[q], {"wait"}, j) <=> IsAt(pc[q], {"wait"}, j)
  BY DEF Moves, IsAt
<1> QED BY <1>1 DEF PInv, Queued

Pos(n) == IF n > 0 THEN n ELSE 0
Neg(n) == IF n < 0 THEN -n ELSE 0

\* What the list of pool j gains is what its semaphore and the processes on
\* their way to and from it gain.
Balanced(p, c, j) ==
  /\ semcnt'[j] \in Int /\ stray'[j] \in Nat
  /\ Len(bpnext'[j]) = Len(bpnext[j])
       + (Pos(semcnt'[j]) - Pos(semcnt[j])) + (stray'[j] - stray[j])
       + (One(c, TakeLabels, j) - One(pc[p], TakeLabels, j))
       + (One(c, {"signal"}, j) - One(pc[p], {"signal"}, j))
  /\ Len(squeue'[j]) = Neg(semcnt'[j])

LEMMA CountedMove ==
  ASSUME PInv, NEW p \in Procs, NEW c, Moves(pc, pc', p, c), NEW j \in Pools,
         CountedIn(j), Balanced(p, c, j)
  PROVE  CountedIn(j)'
<1>1. /\ Count(pc, TakeLabels, j) \in Nat
      /\ Count(pc', TakeLabels, j) = Count(pc, TakeLabels, j)
            - One(pc[p], TakeLabels, j) + One(c, TakeLabels, j)
  BY CountMove
<1>2. /\ Count(pc, {"signal"}, j) \in Nat
      /\ Count(pc', {"signal"}, j) = Count(pc, {"signal"}, j)
            - One(pc[p], {"signal"}, j) + One(c, {"signal"}, j)
  BY CountMove
<1>3. /\ One(c, TakeLabels, j) \in Int /\ One(pc[p], TakeLabels, j) \in Int
      /\ One(c, {"signal"}, j) \in Int /\ One(pc[p], {"signal"}, j) \in Int
  BY DEF One
<1>4. /\ semcnt[j] \in Int /\ stray[j] \in Nat
      /\ semcnt'[j] \in Int /\ stray'[j] \in Nat
  BY DEF PInv, Shape, PoolTypeOK, Balanced
<1>5. /\ Len(bpnext[j]) = Pos(semcnt[j]) + Count(pc, TakeLabels, j)
                            + Count(pc, {"signal"}, j) + stray[j]
  BY DEF CountedIn, Pos
<1>6. Pos(semcnt[j]) \in Int /\ Pos(semcnt'[j]) \in Int
  BY <1>4 DEF Pos
<1>7. Len(bpnext'[j]) = Len(bpnext[j])
       + (Pos(semcnt'[j]) - Pos(semcnt[j])) + (stray'[j] - stray[j])
       + (One(c, TakeLabels, j) - One(pc[p], TakeLabels, j))
       + (One(c, {"signal"}, j) - One(pc[p], {"signal"}, j))
  BY DEF Balanced
<1>8. Len(bpnext'[j]) = Pos(semcnt'[j]) + Count(pc', TakeLabels, j)
                          + Count(pc', {"signal"}, j) + stray'[j]
  <2> DEFINE a == Pos(semcnt[j])
             e == Pos(semcnt'[j])
             b == Count(pc, TakeLabels, j)
             d == Count(pc, {"signal"}, j)
             x == One(c, TakeLabels, j)
             y == One(pc[p], TakeLabels, j)
             u == One(c, {"signal"}, j)
             v == One(pc[p], {"signal"}, j)
             g == stray[j]
             h == stray'[j]
             len == Len(bpnext[j])
             new == Len(bpnext'[j])
             s == Count(pc', TakeLabels, j)
             t == Count(pc', {"signal"}, j)
  <2>1. /\ a \in Int /\ b \in Int /\ d \in Int /\ e \in Int /\ g \in Int
        /\ h \in Int /\ u \in Int /\ v \in Int /\ x \in Int /\ y \in Int
    BY <1>1, <1>2, <1>3, <1>4, <1>6
  <2>2. s = b - y + x
    BY <1>1
  <2>3. t = d - v + u
    BY <1>2
  <2>4. len = a + b + d + g
    BY <1>5
  <2>5. new = len + (e - a) + (h - g) + (x - y) + (u - v)
    BY <1>7
  <2> HIDE DEF a, b, d, e, g, h, len, new, s, t, u, v, x, y
  <2>6. new = e + s + t + h
    BY <2>1, <2>2, <2>3, <2>4, <2>5
  <2> QED BY <2>6 DEF new, e, s, t, h
<1>9. Len(squeue'[j]) = IF semcnt'[j] < 0 THEN -semcnt'[j] ELSE 0
  BY DEF Balanced, Neg
<1> QED BY <1>8, <1>9 DEF CountedIn, Pos

\* The queue of pool j, and the count, before a step.
LEMMA PoolFacts ==
  ASSUME PInv, NEW j \in Pools
  PROVE  /\ semcnt[j] \in Int /\ stray[j] \in Nat
         /\ squeue[j] \in Seq(Records(Procs)) /\ Len(squeue[j]) \in Nat
         /\ bpnext[j] \in Seq(Bufs) /\ Len(bpnext[j]) \in Nat
         /\ j < nbpools /\ bpsem[j] =>
               CountedIn(j) /\ Len(squeue[j]) = Neg(semcnt[j])
<1>1. /\ semcnt[j] \in Int /\ stray[j] \in Nat
      /\ squeue[j] \in Seq(Records(Procs)) /\ bpnext[j] \in Seq(Bufs)
  BY DEF PInv, Shape, PoolTypeOK, Records
<1>2. Len(squeue[j]) \in Nat /\ Len(bpnext[j]) \in Nat
  BY <1>1, LenProperties
<1>3. j < nbpools /\ bpsem[j] => CountedIn(j) /\ Len(squeue[j]) = Neg(semcnt[j])
  BY DEF PInv, Counted, CountedIn, Neg
<1> QED BY <1>1, <1>2, <1>3

LEMMA GetbufTakeStep ==
  ASSUME PInv, NEW p \in Procs, GetbufTake(p)
  PROVE  PInv'
<1> DEFINE i == pc[p].pool
<1>1. /\ pc[p].at = "take" /\ Unlinks(p, i) /\ UNCHANGED mkVars
      /\ UNCHANGED <<bptotal, bpmaxused, bpsem, semcnt, squeue, hdr, held,
                     stray, kills>>
  BY DEF GetbufTake, semVars
<1>2. i \in Pools /\ i < nbpools
  BY <1>1, PcFacts DEF PInv, PlacedAt, InPool
<1>3. PICK c \in Conts :
         /\ c.at = "label" /\ c.pool = i /\ PlacedAt(c, nbpools, marked)
         /\ pc' = [pc EXCEPT ![p] = c]
         /\ bpnext' \in [Pools -> Seq(Bufs)]
         /\ \A j \in Pools : /\ Len(bpnext[j]) \in Nat
                             /\ Len(bpnext'[j]) = IF j = i THEN Len(bpnext[j]) - 1
                                                   ELSE Len(bpnext[j])
  BY <1>1, <1>2, UnlinksProps
<1> HIDE DEF i
<1>4. pc' = [pc EXCEPT ![p] = c] /\ c.at = "label" /\ PlacedAt(c, nbpools, marked)
  BY <1>3
<1>5. /\ pc' \in [Procs -> Conts] /\ Placed' /\ Moves(pc, pc', p, c)
      /\ nbpools' = nbpools /\ marked' = marked /\ made' = made
  BY <1>1, <1>4, GoesTo
<1>6. Shape'
  BY <1>1, <1>3, <1>5 DEF PInv, Shape, PoolTypeOK, Initialised, Unmade, Conts
<1>7. Queued'
  BY <1>1, <1>4, <1>5, QueuedMove
<1>8. Counted'
  <2> SUFFICES ASSUME NEW j \in Pools, j < nbpools', bpsem'[j]
               PROVE  CountedIn(j)'
    BY DEF Counted
  <2>1. CountedIn(j) /\ Len(squeue[j]) = Neg(semcnt[j])
        /\ semcnt[j] \in Int /\ stray[j] \in Nat
    BY <1>1, <1>5, PoolFacts
  <2>2. One(c, TakeLabels, j) = 0 /\ One(c, {"signal"}, j) = 0
    BY <1>4 DEF One, IsAt, TakeLabels
  <2>3. /\ One(pc[p], TakeLabels, j) = IF j = i THEN 1 ELSE 0
        /\ One(pc[p], {"signal"}, j) = 0
    BY <1>1 DEF One, IsAt, TakeLabels, i
  <2>4. /\ Len(bpnext[j]) \in Nat
        /\ Len(bpnext'[j]) = IF j = i THEN Len(bpnext[j]) - 1 ELSE Len(bpnext[j])
    BY <1>3
  <2>5. semcnt'[j] = semcnt[j] /\ stray'[j] = stray[j] /\ squeue'[j] = squeue[j]
    BY <1>1
  <2>6. Pos(semcnt[j]) \in Int
    BY <2>1 DEF Pos
  <2>7. Balanced(p, c, j)
    BY <2>1, <2>2, <2>3, <2>4, <2>5, <2>6 DEF Balanced
  <2> QED BY <2>1, <2>7, <1>5, CountedMove
<1> QED
  BY <1>6, <1>7, <1>8 DEF PInv

LEMMA NbgetbufStep ==
  ASSUME PInv, NEW p \in Procs, NEW i \in Pools, Nbgetbuf(p, i)
  PROVE  PInv'
<1> DEFINE inuse == bptotal[i] - (Scount(i) - 1)
           most  == IF inuse > bpmaxused[i] THEN inuse ELSE bpmaxused[i]
<1>1. /\ Unlinks(p, i) /\ UNCHANGED mkVars
      /\ semcnt' = [semcnt EXCEPT ![i] = semcnt[i] - 1]
      /\ bpmaxused' = [bpmaxused EXCEPT ![i] = most]
      /\ UNCHANGED <<bptotal, bpsem, squeue, hdr, held, stray, kills>>
  BY DEF Nbgetbuf
<1> HIDE DEF most, inuse
<1>2. InUser(p) /\ i < nbpools /\ Scount(i) > 0
  BY DEF Nbgetbuf, IsPool
<1>3. pc[p].at = "user"
  BY <1>2, PcFacts DEF PInv
<1>4. bpsem[i] /\ semcnt[i] > 0
  BY <1>2 DEF Scount
<1>5. PICK c \in Conts :
         /\ c.at = "label" /\ c.pool = i /\ PlacedAt(c, nbpools, marked)
         /\ pc' = [pc EXCEPT ![p] = c]
         /\ bpnext' \in [Pools -> Seq(Bufs)]
         /\ \A j \in Pools : /\ Len(bpnext[j]) \in Nat
                             /\ Len(bpnext'[j]) = IF j = i THEN Len(bpnext[j]) - 1
                                                   ELSE Len(bpnext[j])
  BY <1>1, <1>2, UnlinksProps
<1>6. pc' = [pc EXCEPT ![p] = c] /\ c.at = "label" /\ PlacedAt(c, nbpools, marked)
  BY <1>5
<1>7. most \in Int
  <2>1. bptotal[i] \in Int /\ Scount(i) \in Int /\ bpmaxused[i] \in Int
    BY DEF PInv, Shape, PoolTypeOK, Scount
  <2> QED BY <2>1 DEF most, inuse
<1>8. bpmaxused' \in [Pools -> Int] /\ semcnt' \in [Pools -> Int]
  <2>1. bpmaxused \in [Pools -> Int] /\ semcnt \in [Pools -> Int]
    BY DEF PInv, Shape, PoolTypeOK
  <2>2. semcnt[i] - 1 \in Int
    BY <2>1
  <2> QED BY <2>1, <2>2, <1>1, <1>7, ExceptType
<1>9. /\ pc' \in [Procs -> Conts] /\ Placed' /\ Moves(pc, pc', p, c)
      /\ nbpools' = nbpools /\ marked' = marked /\ made' = made
  BY <1>1, <1>6, GoesTo
<1>10. Shape'
  BY <1>1, <1>5, <1>8, <1>9
     DEF PInv, Shape, PoolTypeOK, Initialised, Unmade, Conts
<1>11. Queued'
  BY <1>1, <1>3, <1>6, <1>9, QueuedMove
<1>12. Counted'
  <2> SUFFICES ASSUME NEW j \in Pools, j < nbpools', bpsem'[j]
               PROVE  CountedIn(j)'
    BY DEF Counted
  <2>1. CountedIn(j) /\ Len(squeue[j]) = Neg(semcnt[j])
        /\ semcnt[j] \in Int /\ stray[j] \in Nat
    BY <1>1, <1>9, PoolFacts
  <2>2. /\ One(c, TakeLabels, j) = 0 /\ One(c, {"signal"}, j) = 0
        /\ One(pc[p], TakeLabels, j) = 0 /\ One(pc[p], {"signal"}, j) = 0
    BY <1>3, <1>6 DEF One, IsAt, TakeLabels
  <2>3. /\ Len(bpnext[j]) \in Nat
        /\ Len(bpnext'[j]) = IF j = i THEN Len(bpnext[j]) - 1 ELSE Len(bpnext[j])
    BY <1>5
  <2>4. stray'[j] = stray[j] /\ squeue'[j] = squeue[j]
    BY <1>1
  <2>5. semcnt'[j] = IF j = i THEN semcnt[j] - 1 ELSE semcnt[j]
    BY <1>1 DEF PInv, Shape, PoolTypeOK
  <2>6. Balanced(p, c, j)
    <3>1. CASE j = i
      BY <3>1, <2>1, <2>2, <2>3, <2>4, <2>5, <1>4 DEF Balanced, Pos, Neg
    <3>2. CASE j # i
      BY <3>2, <2>1, <2>2, <2>3, <2>4, <2>5 DEF Balanced, Pos, Neg
    <3> QED BY <3>1, <3>2
  <2> QED BY <2>1, <2>6, <1>9, CountedMove
<1> QED
  BY <1>10, <1>11, <1>12 DEF PInv

----------------------------------------------------------------------------
(* freebuf.                                                                *)

LEMMA FreebufStep ==
  ASSUME PInv, NEW p \in Procs, NEW b \in Bufs, Freebuf(p, b)
  PROVE  PInv'
<1> DEFINE i == hdr[b]
           c == At("signal", i, 0)
<1>1. /\ UNCHANGED mkVars
      /\ bpnext' = [bpnext EXCEPT ![i] = <<b>> \o bpnext[i]]
      /\ hdr' = [hdr EXCEPT ![b] = LINK] /\ held' = held \ {b}
      /\ pc' = [pc EXCEPT ![p] = c]
      /\ UNCHANGED <<bptotal, bpmaxused, bpsem, semcnt, squeue, stray, kills>>
  BY DEF Freebuf, Go, semVars
<1>2. pc[p].at = "user" /\ i >= 0 /\ i < nbpools
  BY PcFacts DEF PInv, Freebuf, IsPool
<1>3. /\ nbpools \in Nat /\ bpnext \in [Pools -> Seq(Bufs)]
      /\ hdr \in [Bufs -> Pools \cup {LINK}] /\ held \subseteq Bufs
  BY PoolAssumption DEF PInv, Shape, PoolTypeOK
<1>4. i \in Pools
  BY <1>2, <1>3 DEF LINK
<1> HIDE DEF i
<1>5. c \in Conts /\ c.at = "signal" /\ c.pool = i
  BY <1>4, AtConts DEF Labels
<1> HIDE DEF c
<1>6. PlacedAt(c, nbpools, marked)
  BY <1>2, <1>4, <1>5 DEF PlacedAt
<1>7. /\ <<b>> \o bpnext[i] \in Seq(Bufs)
      /\ Len(<<b>> \o bpnext[i]) = Len(bpnext[i]) + 1
  <2>1. bpnext[i] \in Seq(Bufs)
    BY <1>3, <1>4
  <2>2. <<b>> \in Seq(Bufs) /\ Len(<<b>>) = 1
    OBVIOUS
  <2> QED BY <2>1, <2>2, ConcatProperties, LenProperties
<1>8. bpnext' \in [Pools -> Seq(Bufs)]
  BY <1>1, <1>3, <1>7, ExceptType
<1>9. hdr' \in [Bufs -> Pools \cup {LINK}] /\ held' \subseteq Bufs
  BY <1>1, <1>3
<1>10. /\ pc' \in [Procs -> Conts] /\ Placed' /\ Moves(pc, pc', p, c)
       /\ nbpools' = nbpools /\ marked' = marked /\ made' = made
  BY <1>1, <1>5, <1>6, GoesTo
<1>11. Shape'
  BY <1>1, <1>8, <1>9, <1>10
     DEF PInv, Shape, PoolTypeOK, Initialised, Unmade, Conts
<1>12. Queued'
  BY <1>1, <1>2, <1>5, <1>10, QueuedMove
<1>13. Counted'
  <2> SUFFICES ASSUME NEW j \in Pools, j < nbpools', bpsem'[j]
               PROVE  CountedIn(j)'
    BY DEF Counted
  <2>1. CountedIn(j) /\ Len(squeue[j]) = Neg(semcnt[j])
        /\ semcnt[j] \in Int /\ stray[j] \in Nat /\ Len(bpnext[j]) \in Nat
    BY <1>1, <1>10, PoolFacts
  <2>2. /\ One(pc[p], TakeLabels, j) = 0 /\ One(pc[p], {"signal"}, j) = 0
        /\ One(c, TakeLabels, j) = 0
        /\ One(c, {"signal"}, j) = IF j = i THEN 1 ELSE 0
    BY <1>2, <1>5 DEF One, IsAt, TakeLabels
  <2>3. Len(bpnext'[j]) = IF j = i THEN Len(bpnext[j]) + 1 ELSE Len(bpnext[j])
    BY <1>1, <1>3, <1>7
  <2>4. semcnt'[j] = semcnt[j] /\ stray'[j] = stray[j] /\ squeue'[j] = squeue[j]
    BY <1>1
  <2>5. Pos(semcnt[j]) \in Int
    BY <2>1 DEF Pos
  <2>6. Balanced(p, c, j)
    BY <2>1, <2>2, <2>3, <2>4, <2>5 DEF Balanced
  <2> QED BY <2>1, <2>6, <1>10, CountedMove
<1> QED
  BY <1>11, <1>12, <1>13 DEF PInv

\* Back to the caller's own code.
LEMMA UserCont ==
  /\ User \in Conts /\ User.at = "user"
  /\ PlacedAt(User, nbpools, marked)
  /\ \A j : One(User, TakeLabels, j) = 0 /\ One(User, {"signal"}, j) = 0
<1>1. User \in Conts /\ User.at = "user"
  BY AtConts DEF User, Labels
<1>2. PlacedAt(User, nbpools, marked)
  BY <1>1 DEF PlacedAt, InPool
<1>3. \A j : One(User, TakeLabels, j) = 0 /\ One(User, {"signal"}, j) = 0
  BY <1>1 DEF One, IsAt, TakeLabels
<1> QED BY <1>1, <1>2, <1>3

\* signal of a semaphore that nobody waits for, or of none.
LEMMA FreebufSignalQuiet ==
  ASSUME PInv, NEW p \in Procs, FreebufSignal(p),
         ~(bpsem[pc[p].pool] /\ semcnt[pc[p].pool] < 0)
  PROVE  PInv'
<1> DEFINE i == pc[p].pool
<1>1. /\ UNCHANGED mkVars /\ pc[p].at = "signal"
      /\ pc' = [pc EXCEPT ![p] = User]
      /\ semcnt' = IF bpsem[i] THEN [semcnt EXCEPT ![i] = semcnt[i] + 1]
                   ELSE semcnt
      /\ UNCHANGED <<squeue, bptotal, bpmaxused, bpnext, bpsem, hdr, held,
                     stray, kills>>
  BY DEF FreebufSignal, Go, poolVars
<1>2. i \in Pools /\ i < nbpools
  BY <1>1, PcFacts DEF PInv, PlacedAt, InPool
<1>3. ~(bpsem[i] /\ semcnt[i] < 0) /\ semcnt \in [Pools -> Int]
  BY DEF PInv, Shape, PoolTypeOK
<1>4. \A j : /\ One(pc[p], TakeLabels, j) = 0
             /\ One(pc[p], {"signal"}, j) = IF j = i THEN 1 ELSE 0
  BY <1>1 DEF One, IsAt, TakeLabels
<1> HIDE DEF i
<1>5. semcnt' \in [Pools -> Int]
  BY <1>1, <1>2, <1>3
<1>6. /\ pc' \in [Procs -> Conts] /\ Placed' /\ Moves(pc, pc', p, User)
      /\ nbpools' = nbpools /\ marked' = marked /\ made' = made
  BY <1>1, UserCont, GoesTo
<1>7. Shape'
  BY <1>1, <1>5, <1>6
     DEF PInv, Shape, PoolTypeOK, Initialised, Unmade, Conts
<1>8. Queued'
  BY <1>1, <1>6, UserCont, QueuedMove
<1>9. Counted'
  <2> SUFFICES ASSUME NEW j \in Pools, j < nbpools', bpsem'[j]
               PROVE  CountedIn(j)'
    BY DEF Counted
  <2>1. CountedIn(j) /\ Len(squeue[j]) = Neg(semcnt[j])
        /\ semcnt[j] \in Int /\ stray[j] \in Nat /\ Len(bpnext[j]) \in Nat
    BY <1>1, <1>6, PoolFacts
  <2>2. One(User, TakeLabels, j) = 0 /\ One(User, {"signal"}, j) = 0
    BY UserCont
  <2>3. /\ One(pc[p], TakeLabels, j) = 0
        /\ One(pc[p], {"signal"}, j) = IF j = i THEN 1 ELSE 0
    BY <1>4
  <2>4. /\ stray'[j] = stray[j] /\ squeue'[j] = squeue[j]
        /\ bpnext'[j] = bpnext[j] /\ bpsem[j]
    BY <1>1
  <2>5. semcnt'[j] = IF j = i THEN semcnt[j] + 1 ELSE semcnt[j]
    BY <1>1, <1>3, <2>4
  <2>6. Balanced(p, User, j)
    <3>1. CASE j = i
      <4>1. ~(semcnt[j] < 0)
        BY <3>1, <1>3, <2>4
      <4>2. One(pc[p], {"signal"}, j) = 1 /\ semcnt'[j] = semcnt[j] + 1
        BY <3>1, <2>3, <2>5
      <4>3. Pos(semcnt'[j]) - Pos(semcnt[j]) = 1 /\ Neg(semcnt'[j]) = Neg(semcnt[j])
        BY <4>1, <4>2, <2>1 DEF Pos, Neg
      <4>4. semcnt'[j] \in Int
        BY <4>2, <2>1
      <4> QED BY <4>2, <4>3, <4>4, <2>1, <2>2, <2>3, <2>4 DEF Balanced
    <3>2. CASE j # i
      <4>1. One(pc[p], {"signal"}, j) = 0 /\ semcnt'[j] = semcnt[j]
        BY <3>2, <2>3, <2>5
      <4> QED BY <4>1, <2>1, <2>2, <2>3, <2>4 DEF Balanced, Pos, Neg
    <3> QED BY <3>1, <3>2
  <2> QED BY <2>1, <2>6, <1>6, CountedMove
<1> QED
  BY <1>7, <1>8, <1>9 DEF PInv

(***************************************************************************)
(* signal of a semaphore that somebody waits for: p goes back to its       *)
(* caller and the first of the queue goes on in getbuf.                    *)
(***************************************************************************)
LEMMA FreebufSignalWakes ==
  ASSUME PInv, NEW p \in Procs, FreebufSignal(p),
         bpsem[pc[p].pool], semcnt[pc[p].pool] < 0
  PROVE  PInv'
<1> DEFINE i == pc[p].pool
           w == FirstPid(squeue[i])
           d == At("count", i, 0)
           mid == [pc EXCEPT ![p] = User]
<1>1. /\ UNCHANGED mkVars /\ pc[p].at = "signal"
      /\ semcnt' = [semcnt EXCEPT ![i] = semcnt[i] + 1]
      /\ squeue' = [squeue EXCEPT ![i] = ButFirst(squeue[i])]
      /\ UNCHANGED <<bptotal, bpmaxused, bpnext, bpsem, hdr, held, stray, kills>>
  BY DEF FreebufSignal, poolVars
<1>2. pc' = [mid EXCEPT ![w] = d]
  BY DEF FreebufSignal
<1>3. i \in Pools /\ i < nbpools
  BY <1>1, PcFacts DEF PInv, PlacedAt, InPool
<1>4. bpsem[i] /\ semcnt[i] < 0
  OBVIOUS
<1>5. /\ semcnt \in [Pools -> Int] /\ squeue \in [Pools -> Seq(Records(Procs))]
      /\ pc \in [Procs -> Conts]
  BY DEF PInv, Shape, PoolTypeOK, Records, Conts
<1>6. squeue[i] # EmptyQueue
  <2>1. Len(squeue[i]) = Neg(semcnt[i]) /\ semcnt[i] \in Int
    BY <1>3, <1>4, PoolFacts
  <2>2. Len(squeue[i]) # 0
    BY <2>1, <1>4 DEF Neg
  <2> QED BY <2>2, <1>3, <1>5, EmptyQueueLen
<1>7. /\ w \in Members(squeue[i]) /\ ButFirst(squeue[i]) \in Seq(Records(Procs))
      /\ Len(ButFirst(squeue[i])) = Len(squeue[i]) - 1
      /\ Distinct(ButFirst(squeue[i]))
      /\ Members(ButFirst(squeue[i])) = Members(squeue[i]) \ {w}
  <2>1. Distinct(squeue[i]) /\ squeue[i] \in Seq(Records(Procs))
    BY <1>3, <1>5 DEF PInv, Queued
  <2> QED BY <2>1, <1>6, ButFirstProps
<1>8. w \in Procs /\ IsAt(pc[w], {"wait"}, i)
  <2>1. w \in Procs
    BY <1>3, <1>5, <1>7, ListFacts
  <2> QED BY <2>1, <1>3, <1>7 DEF PInv, Queued
<1> HIDE DEF i, w
<1>9. w # p
  BY <1>1, <1>8 DEF IsAt
<1>10. d \in Conts /\ d.at = "count" /\ d.pool = i
  BY <1>3, AtConts DEF Labels
<1> HIDE DEF d
<1>11. mid \in [Procs -> Conts] /\ Moves(pc, mid, p, User) /\ mid[w] = pc[w]
  BY <1>5, <1>8, <1>9, UserCont DEF Moves
<1> HIDE DEF mid
<1>12. pc' \in [Procs -> Conts] /\ Moves(mid, pc', w, d)
  BY <1>2, <1>8, <1>10, <1>11 DEF Moves
<1>13. nbpools' = nbpools /\ marked' = marked /\ made' = made
  BY <1>1 DEF mkVars
<1>14. Placed'
  <2> SUFFICES ASSUME NEW q \in Procs PROVE PlacedAt(pc'[q], nbpools, marked)
    BY <1>13 DEF Placed
  <2>1. CASE q = w
    <3>1. PlacedAt(d, nbpools, marked)
      BY <1>3, <1>10 DEF PlacedAt
    <3> QED BY <2>1, <3>1, <1>12 DEF Moves
  <2>2. CASE q = p
    <3>1. pc'[q] = User
      BY <2>2, <1>9, <1>11, <1>12 DEF Moves
    <3> QED BY <3>1, UserCont
  <2>3. CASE q # w /\ q # p
    <3>1. pc'[q] = pc[q]
      BY <2>3, <1>11, <1>12 DEF Moves
    <3> QED BY <3>1 DEF PInv, Shape, Placed
  <2> QED BY <2>1, <2>2, <2>3
<1>15. semcnt' \in [Pools -> Int] /\ squeue' \in [Pools -> Seq(Records(Procs))]
  <2>1. semcnt[i] + 1 \in Int
    BY <1>3, <1>5
  <2> QED BY <2>1, <1>1, <1>5, <1>7, ExceptType DEF i
<1>16. Shape'
  BY <1>1, <1>12, <1>13, <1>14, <1>15
     DEF PInv, Shape, PoolTypeOK, Initialised, Unmade, Conts, Records
<1>17. Queued'
  <2> SUFFICES ASSUME NEW j \in Pools
               PROVE  /\ Distinct(squeue'[j])
                      /\ \A q \in Procs : q \in Members(squeue'[j]) <=>
                                             IsAt(pc'[q], {"wait"}, j)
    BY DEF Queued
  <2>1. /\ Distinct(squeue[j])
        /\ \A q \in Procs : q \in Members(squeue[j]) <=>
                               IsAt(pc[q], {"wait"}, j)
    BY DEF PInv, Queued
  <2>2. /\ ~IsAt(pc'[w], {"wait"}, j) /\ ~IsAt(pc'[p], {"wait"}, j)
        /\ ~IsAt(pc[p], {"wait"}, j)
    <3>1. pc'[w] = d /\ pc'[p] = User
      BY <1>8, <1>9, <1>11, <1>12 DEF Moves
    <3> QED BY <3>1, <1>1, <1>10, UserCont DEF IsAt
  <2>3. \A q \in Procs \ {p, w} : pc'[q] = pc[q]
    BY <1>11, <1>12 DEF Moves
  <2>4. CASE j = i
    <3>1. squeue'[j] = ButFirst(squeue[i])
      BY <2>4, <1>1, <1>5 DEF i
    <3> QED BY <3>1, <2>1, <2>2, <2>3, <2>4, <1>7
  <2>5. CASE j # i
    <3>1. squeue'[j] = squeue[j]
      BY <2>5, <1>1, <1>5 DEF i
    <3>2. ~IsAt(pc[w], {"wait"}, j)
      BY <2>5, <1>8 DEF IsAt
    <3> QED BY <3>1, <3>2, <2>1, <2>2, <2>3
  <2> QED BY <2>4, <2>5
<1>18. Counted'
  <2> SUFFICES ASSUME NEW j \in Pools, j < nbpools', bpsem'[j]
               PROVE  CountedIn(j)'
    BY DEF Counted
  <2>1. CountedIn(j) /\ Len(squeue[j]) = Neg(semcnt[j])
        /\ semcnt[j] \in Int /\ stray[j] \in Nat /\ Len(bpnext[j]) \in Nat
    BY <1>1, <1>13, PoolFacts
  <2>2. /\ Count(pc, TakeLabels, j) \in Nat /\ Count(pc, {"signal"}, j) \in Nat
        /\ Count(mid, TakeLabels, j) = Count(pc, TakeLabels, j)
              - One(pc[p], TakeLabels, j) + One(User, TakeLabels, j)
        /\ Count(mid, {"signal"}, j) = Count(pc, {"signal"}, j)
              - One(pc[p], {"signal"}, j) + One(User, {"signal"}, j)
    BY <1>11, CountMove
  <2>3. /\ Count(pc', TakeLabels, j) = Count(mid, TakeLabels, j)
              - One(mid[w], TakeLabels, j) + One(d, TakeLabels, j)
        /\ Count(pc', {"signal"}, j) = Count(mid, {"signal"}, j)
              - One(mid[w], {"signal"}, j) + One(d, {"signal"}, j)
    BY <1>8, <1>12, CountMove
  <2>4. /\ One(pc[p], TakeLabels, j) = 0
        /\ One(pc[p], {"signal"}, j) = IF j = i THEN 1 ELSE 0
    BY <1>1 DEF One, IsAt, TakeLabels, i
  <2>5. One(mid[w], TakeLabels, j) = 0 /\ One(mid[w], {"signal"}, j) = 0
    BY <1>8, <1>11 DEF One, IsAt, TakeLabels
  <2>6. /\ One(d, {"signal"}, j) = 0
        /\ One(d, TakeLabels, j) = IF j = i THEN 1 ELSE 0
    BY <1>10 DEF One, IsAt, TakeLabels
  <2>7. One(User, TakeLabels, j) = 0 /\ One(User, {"signal"}, j) = 0
    BY UserCont
  <2>8. stray'[j] = stray[j] /\ bpnext'[j] = bpnext[j]
    BY <1>1
  <2>9. CASE j = i
    <3>1. semcnt[j] < 0 /\ semcnt'[j] = semcnt[j] + 1
      BY <2>9, <1>1, <1>4, <1>5 DEF i
    <3>2. squeue'[j] = ButFirst(squeue[j])
      BY <2>9, <1>1, <1>5 DEF i
    <3>3. Len(squeue'[j]) = Len(squeue[j]) - 1
      BY <3>2, <2>9, <1>7 DEF i
    <3>4. /\ Count(pc', TakeLabels, j) = Count(pc, TakeLabels, j) + 1
          /\ Count(pc', {"signal"}, j) = Count(pc, {"signal"}, j) - 1
      BY <2>2, <2>3, <2>4, <2>5, <2>6, <2>7, <2>9
    <3>5. /\ Len(bpnext[j]) = Count(pc, TakeLabels, j)
                                + Count(pc, {"signal"}, j) + stray[j]
          /\ Len(squeue[j]) = -semcnt[j]
      BY <2>1, <2>2, <3>1 DEF CountedIn
    <3>6. /\ Len(bpnext'[j]) = Count(pc', TakeLabels, j)
                                 + Count(pc', {"signal"}, j) + stray'[j]
          /\ Count(pc', TakeLabels, j) \in Int /\ Count(pc', {"signal"}, j) \in Int
      BY <3>4, <3>5, <2>1, <2>2, <2>8
    <3>7. ~(semcnt'[j] > 0) /\ Len(squeue'[j]) = IF semcnt'[j] < 0 THEN -semcnt'[j] ELSE 0
      BY <3>1, <3>3, <3>5, <2>1
    <3> QED BY <3>6, <3>7, <2>1, <2>8 DEF CountedIn
  <2>10. CASE j # i
    <3>1. semcnt'[j] = semcnt[j] /\ squeue'[j] = squeue[j]
      BY <2>10, <1>1, <1>5 DEF i
    <3>2. /\ Count(pc', TakeLabels, j) = Count(pc, TakeLabels, j)
          /\ Count(pc', {"signal"}, j) = Count(pc, {"signal"}, j)
      BY <2>2, <2>3, <2>4, <2>5, <2>6, <2>7, <2>10
    <3> QED BY <3>1, <3>2, <2>1, <2>8 DEF CountedIn
  <2> QED BY <2>9, <2>10
<1> QED
  BY <1>16, <1>17, <1>18 DEF PInv

----------------------------------------------------------------------------
(* kill.                                                                   *)

\* The part of kill that does not depend on where p was.
LEMMA KillMove ==
  ASSUME PInv, NEW p \in Procs, Kill(p)
  PROVE  /\ pc' \in [Procs -> Conts] /\ Placed' /\ Moves(pc, pc', p, User)
         /\ nbpools' = nbpools /\ marked' = marked /\ made' = made
         /\ UNCHANGED <<bptotal, bpmaxused, bpnext, bpsem, hdr, held>>
         /\ kills' \in Nat
<1>1. /\ UNCHANGED mkVars /\ pc' = [pc EXCEPT ![p] = User] /\ kills' = kills + 1
      /\ UNCHANGED <<bptotal, bpmaxused, bpnext, bpsem, hdr, held>>
  BY DEF Kill, Go, poolVars
<1>2. kills' \in Nat
  BY <1>1 DEF PInv, Shape, PoolTypeOK
<1>3. /\ pc' \in [Procs -> Conts] /\ Placed' /\ Moves(pc, pc', p, User)
      /\ nbpools' = nbpools /\ marked' = marked /\ made' = made
  BY <1>1, UserCont, GoesTo
<1> QED BY <1>1, <1>2, <1>3

\* kill of a process that waits for a buffer.
LEMMA KillWaiting ==
  ASSUME PInv, NEW p \in Procs, Kill(p), pc[p].at = "wait"
  PROVE  PInv'
<1> DEFINE i == pc[p].pool
<1>1. /\ semcnt' = [semcnt EXCEPT ![i] = semcnt[i] + 1]
      /\ squeue' = [squeue EXCEPT ![i] = Dequeue(squeue[i], p)]
      /\ stray' = stray
  BY DEF Kill, UnWait, Taking, Signalling
<1>2. i \in Pools /\ i < nbpools
  BY PcFacts DEF PInv, PlacedAt, InPool
<1>3. IsAt(pc[p], {"wait"}, i)
  BY DEF IsAt
<1>4. \A j : One(pc[p], TakeLabels, j) = 0 /\ One(pc[p], {"signal"}, j) = 0
  BY DEF One, IsAt, TakeLabels
<1> HIDE DEF i
<1>5. /\ semcnt \in [Pools -> Int] /\ squeue \in [Pools -> Seq(Records(Procs))]
  BY DEF PInv, Shape, PoolTypeOK, Records
<1>6. /\ p \in Members(squeue[i])
      /\ Dequeue(squeue[i], p) \in Seq(Records(Procs))
      /\ Len(Dequeue(squeue[i], p)) = Len(squeue[i]) - 1
      /\ Distinct(Dequeue(squeue[i], p))
      /\ Members(Dequeue(squeue[i], p)) = Members(squeue[i]) \ {p}
  <2>1. /\ Distinct(squeue[i]) /\ squeue[i] \in Seq(Records(Procs))
        /\ p \in Members(squeue[i])
    BY <1>2, <1>3, <1>5 DEF PInv, Queued
  <2> QED BY <2>1, DequeueProps
<1>7. /\ pc' \in [Procs -> Conts] /\ Placed' /\ Moves(pc, pc', p, User)
      /\ nbpools' = nbpools /\ marked' = marked /\ made' = made
      /\ UNCHANGED <<bptotal, bpmaxused, bpnext, bpsem, hdr, held>>
      /\ kills' \in Nat
  BY KillMove
<1>8. semcnt' \in [Pools -> Int] /\ squeue' \in [Pools -> Seq(Records(Procs))]
  <2>1. semcnt[i] + 1 \in Int
    BY <1>2, <1>5
  <2> QED BY <2>1, <1>1, <1>5, <1>6, ExceptType
<1>9. Shape'
  BY <1>1, <1>7, <1>8
     DEF PInv, Shape, PoolTypeOK, Initialised, Unmade, Conts, Records
<1>10. Queued'
  <2> SUFFICES ASSUME NEW j \in Pools
               PROVE  /\ Distinct(squeue'[j])
                      /\ \A q \in Procs : q \in Members(squeue'[j]) <=>
                                             IsAt(pc'[q], {"wait"}, j)
    BY DEF Queued
  <2>1. /\ Distinct(squeue[j])
        /\ \A q \in Procs : q \in Members(squeue[j]) <=>
                               IsAt(pc[q], {"wait"}, j)
    BY DEF PInv, Queued
  <2>2. ~IsAt(pc'[p], {"wait"}, j)
    BY <1>7, UserCont DEF IsAt, Moves
  <2>3. \A q \in Procs \ {p} : pc'[q] = pc[q]
    BY <1>7 DEF Moves
  <2>4. CASE j = i
    <3>1. squeue'[j] = Dequeue(squeue[i], p)
      BY <2>4, <1>1, <1>5
    <3> QED BY <3>1, <2>1, <2>2, <2>3, <2>4, <1>6
  <2>5. CASE j # i
    <3>1. squeue'[j] = squeue[j]
      BY <2>5, <1>1, <1>5
    <3>2. ~IsAt(pc[p], {"wait"}, j)
      BY <2>5, <1>3 DEF IsAt
    <3> QED BY <3>1, <3>2, <2>1, <2>2, <2>3
  <2> QED BY <2>4, <2>5
<1>11. Counted'
  <2> SUFFICES ASSUME NEW j \in Pools, j < nbpools', bpsem'[j]
               PROVE  CountedIn(j)'
    BY DEF Counted
  <2>1. CountedIn(j) /\ Len(squeue[j]) = Neg(semcnt[j])
        /\ semcnt[j] \in Int /\ stray[j] \in Nat /\ Len(bpnext[j]) \in Nat
        /\ Len(squeue[j]) \in Nat
    BY <1>7, PoolFacts
  <2>2. /\ One(User, TakeLabels, j) = 0 /\ One(User, {"signal"}, j) = 0
        /\ One(pc[p], TakeLabels, j) = 0 /\ One(pc[p], {"signal"}, j) = 0
    BY <1>4, UserCont
  <2>3. stray'[j] = stray[j] /\ bpnext'[j] = bpnext[j]
    BY <1>1, <1>7
  <2>4. Balanced(p, User, j)
    <3>1. CASE j = i
      <4>1. semcnt'[j] = semcnt[j] + 1 /\ squeue'[j] = Dequeue(squeue[j], p)
        BY <3>1, <1>1, <1>2, <1>5
      <4>2. Len(squeue'[j]) = Len(squeue[j]) - 1
        BY <4>1, <3>1, <1>6
      <4>3. Len(squeue[j]) # 0
        BY <3>1, <1>2, <1>5, <1>6, EmptyQueueLen
      <4>4. semcnt[j] < 0 /\ Len(squeue[j]) = -semcnt[j]
        BY <4>3, <2>1 DEF Neg
      <4>5. Pos(semcnt'[j]) = 0 /\ Pos(semcnt[j]) = 0
        BY <4>1, <4>4, <2>1 DEF Pos
      <4>6. Len(squeue'[j]) = Neg(semcnt'[j]) /\ semcnt'[j] \in Int
        BY <4>1, <4>2, <4>4, <2>1 DEF Neg
      <4> QED BY <4>5, <4>6, <2>1, <2>2, <2>3 DEF Balanced
    <3>2. CASE j # i
      <4>1. semcnt'[j] = semcnt[j] /\ squeue'[j] = squeue[j]
        BY <3>2, <1>1, <1>5
      <4> QED BY <4>1, <2>1, <2>2, <2>3 DEF Balanced, Pos, Neg
    <3> QED BY <3>1, <3>2
  <2> QED BY <2>1, <2>4, <1>7, CountedMove
<1> QED
  BY <1>9, <1>10, <1>11 DEF PInv

\* kill of a process anywhere else.
LEMMA KillElsewhere ==
  ASSUME PInv, NEW p \in Procs, Kill(p), pc[p].at # "wait"
  PROVE  PInv'
<1> DEFINE i == pc[p].pool
           lost == pc[p].at \in TakeLabels \cup {"signal"}
<1>1. semcnt' = semcnt /\ squeue' = squeue
  BY DEF Kill, UnWait, semVars
<1>2. stray' = IF lost THEN [stray EXCEPT ![i] = stray[i] + 1] ELSE stray
  BY DEF Kill, Taking, Signalling, TakeLabels
<1>3. lost => i \in Pools /\ i < nbpools
  BY PcFacts DEF PInv, PlacedAt, InPool, TakeLabels
<1>4. \A j : One(pc[p], TakeLabels, j) + One(pc[p], {"signal"}, j)
               = IF lost /\ j = i THEN 1 ELSE 0
  BY DEF One, IsAt, TakeLabels
<1>5. \A j : One(pc[p], TakeLabels, j) \in Int /\ One(pc[p], {"signal"}, j) \in Int
  BY DEF One
<1> HIDE DEF i, lost
<1>6. stray \in [Pools -> Nat] /\ nbpools \in Nat
  BY PoolAssumption DEF PInv, Shape, PoolTypeOK
<1>7. /\ stray' \in [Pools -> Nat]
      /\ \A j \in Pools : stray'[j] = IF lost /\ j = i THEN stray[j] + 1 ELSE stray[j]
  BY <1>2, <1>3, <1>6
<1>8. /\ pc' \in [Procs -> Conts] /\ Placed' /\ Moves(pc, pc', p, User)
      /\ nbpools' = nbpools /\ marked' = marked /\ made' = made
      /\ UNCHANGED <<bptotal, bpmaxused, bpnext, bpsem, hdr, held>>
      /\ kills' \in Nat
  BY KillMove
<1>9. Unmade'
  BY <1>3, <1>6, <1>7, <1>8 DEF PInv, Shape, Unmade, Pools
<1>10. Shape'
  BY <1>1, <1>7, <1>8, <1>9 DEF PInv, Shape, PoolTypeOK, Initialised, Conts
<1>11. Queued'
  BY <1>1, <1>8, UserCont, QueuedMove
<1>12. Counted'
  <2> SUFFICES ASSUME NEW j \in Pools, j < nbpools', bpsem'[j]
               PROVE  CountedIn(j)'
    BY DEF Counted
  <2>1. CountedIn(j) /\ Len(squeue[j]) = Neg(semcnt[j])
        /\ semcnt[j] \in Int /\ stray[j] \in Nat /\ Len(bpnext[j]) \in Nat
    BY <1>8, PoolFacts
  <2>2. /\ One(User, TakeLabels, j) = 0 /\ One(User, {"signal"}, j) = 0
    BY UserCont
  <2>3. /\ stray'[j] = stray[j] + One(pc[p], TakeLabels, j)
                         + One(pc[p], {"signal"}, j)
        /\ stray'[j] \in Nat
    BY <1>4, <1>5, <1>7, <2>1
  <2>4. semcnt'[j] = semcnt[j] /\ squeue'[j] = squeue[j] /\ bpnext'[j] = bpnext[j]
    BY <1>1, <1>8
  <2>5. Pos(semcnt[j]) \in Int
    BY <2>1 DEF Pos
  <2>6. Balanced(p, User, j)
    <3>1. /\ One(pc[p], TakeLabels, j) \in Int /\ One(pc[p], {"signal"}, j) \in Int
          /\ stray[j] \in Int
      BY <1>5, <2>1
    <3>2. /\ Pos(semcnt'[j]) - Pos(semcnt[j]) = 0
          /\ stray'[j] - stray[j] = One(pc[p], TakeLabels, j)
                                     + One(pc[p], {"signal"}, j)
      BY <3>1, <2>3, <2>4, <2>5
    <3>3. Len(bpnext'[j]) = Len(bpnext[j])
            + (Pos(semcnt'[j]) - Pos(semcnt[j])) + (stray'[j] - stray[j])
            + (One(User, TakeLabels, j) - One(pc[p], TakeLabels, j))
            + (One(User, {"signal"}, j) - One(pc[p], {"signal"}, j))
      BY <3>1, <3>2, <2>1, <2>2, <2>4
    <3>4. semcnt'[j] \in Int /\ Len(squeue'[j]) = Neg(semcnt'[j])
      BY <2>1, <2>4
    <3> QED BY <3>3, <3>4, <2>3 DEF Balanced
  <2> QED BY <2>1, <2>6, <1>8, CountedMove
<1> QED
  BY <1>10, <1>11, <1>12 DEF PInv

----------------------------------------------------------------------------
(* The theorems.                                                           *)

LEMMA PoolStep == PInv /\ [PoolNext]_vars => PInv'
<1> SUFFICES ASSUME PInv, [PoolNext]_vars PROVE PInv'
  OBVIOUS
<1>1. CASE UNCHANGED vars
  <2>1. Shape' /\ Queued'
    BY <1>1 DEF vars, poolVars, semVars, mkVars, PInv, Shape, PoolTypeOK, Placed,
                Initialised, Unmade, Queued
  <2>2. Counted'
    BY <1>1 DEF vars, poolVars, semVars, mkVars, PInv, Counted, CountedIn
  <2> QED BY <2>1, <2>2 DEF PInv
<1>2. CASE PoolNext
  <2> PICK p \in Procs :
        \/ \E n \in PoolSizes : Mkpool(p, n)
        \/ Poolinit(p) \/ MkpoolEnd(p)
        \/ \E i \in Pools : Getbuf(p, i)
        \/ GetbufCount(p) \/ GetbufCompare(p) \/ GetbufStore(p)
        \/ GetbufTake(p) \/ GetbufLabel(p)
        \/ \E i \in Pools : Nbgetbuf(p, i)
        \/ \E b \in Bufs : Freebuf(p, b)
        \/ FreebufSignal(p) \/ Kill(p)
    BY <1>2 DEF PoolNext
  <2>1. CASE \E n \in PoolSizes : Mkpool(p, n)
    BY <2>1, MkpoolStep
  <2>2. CASE Poolinit(p)
    BY <2>2, PoolinitStep
  <2>3. CASE MkpoolEnd(p)
    BY <2>3, MkpoolEndStep
  <2>4. CASE \E i \in Pools : Getbuf(p, i)
    BY <2>4, GetbufStep
  <2>5. CASE GetbufCount(p)
    BY <2>5, GetbufCountStep
  <2>6. CASE GetbufCompare(p)
    BY <2>6, GetbufCompareStep
  <2>7. CASE GetbufStore(p)
    BY <2>7, GetbufStoreStep
  <2>8. CASE GetbufTake(p)
    BY <2>8, GetbufTakeStep
  <2>9. CASE GetbufLabel(p)
    BY <2>9, GetbufLabelStep
  <2>10. CASE \E i \in Pools : Nbgetbuf(p, i)
    BY <2>10, NbgetbufStep
  <2>11. CASE \E b \in Bufs : Freebuf(p, b)
    BY <2>11, FreebufStep
  <2>12. CASE FreebufSignal(p)
    BY <2>12, FreebufSignalQuiet, FreebufSignalWakes
  <2>13. CASE Kill(p)
    BY <2>13, KillWaiting, KillElsewhere
  <2> QED BY <2>1, <2>2, <2>3, <2>4, <2>5, <2>6, <2>7, <2>8, <2>9, <2>10,
             <2>11, <2>12, <2>13
<1> QED BY <1>1, <1>2

(***************************************************************************)
(* The invariant the other theorems rest on: in any run of the pools the   *)
(* types hold, a process in the middle of a call is in a pool that exists, *)
(* the queue of a semaphore holds exactly those that wait, and every       *)
(* buffer of a list is counted.                                            *)
(***************************************************************************)
THEOREM PoolInductive == PoolSpec => []PInv
<1>1. PoolInit => PInv
  BY InitPInv
<1>2. PInv /\ [PoolNext]_vars => PInv'
  BY PoolStep
<1> QED BY <1>1, <1>2, PTL DEF PoolSpec

\* The types of the pool table, and of the local variables of its callers.
THEOREM PoolTypes == PoolSpec => []PoolTypeOK
<1>1. PInv => PoolTypeOK
  BY DEF PInv, Shape
<1> QED BY <1>1, PoolInductive, PTL

(***************************************************************************)
(* getbuf.c:29 takes the first buffer without looking whether there is     *)
(* one: the semaphore, the takers and the signallers always account for    *)
(* the whole list of a pool, whoever is interrupted or killed where.       *)
(***************************************************************************)
THEOREM BuffersAreCounted == PoolSpec => []BuffersCounted
<1>1. PInv => BuffersCounted
  BY CountedIsBuffersCounted DEF PInv
<1> QED BY <1>1, PoolInductive, PTL

\* poolinit.c:26: no initialisation loses a pool that has been made.
THEOREM PoolsNeverLost == PoolSpec => PoolsSurvive
<1>1. PInv /\ [PoolNext]_vars => [nbpools' >= nbpools]_vars
  <2> SUFFICES ASSUME PInv, PoolNext PROVE nbpools' >= nbpools
    BY DEF vars, poolVars, semVars, mkVars
  <2>1. nbpools \in Nat
    BY PoolAssumption DEF PInv, Shape, PoolTypeOK
  <2> PICK p \in Procs :
        \/ Poolinit(p)
        \/ MkpoolEnd(p)
        \/ UNCHANGED nbpools
    BY DEF PoolNext, Mkpool, Getbuf, GetbufCount, GetbufCompare, GetbufStore,
           GetbufTake, GetbufLabel, Nbgetbuf, Freebuf, FreebufSignal, Kill, mkVars
  <2>2. CASE Poolinit(p)
    BY <2>1, <2>2 DEF Poolinit, PInv, Shape, Initialised
  <2>3. CASE MkpoolEnd(p)
    BY <2>1, <2>3 DEF MkpoolEnd
  <2>4. CASE UNCHANGED nbpools
    BY <2>1, <2>4
  <2> QED BY <2>2, <2>3, <2>4
<1> QED BY <1>1, PoolInductive, PTL DEF PoolSpec, PoolsSurvive

----------------------------------------------------------------------------
(* Where each buffer is.                                                   *)

(***************************************************************************)
(* BufferInOnePlace is not inductive: mkpool is safe only because whatever *)
(* it links lies above all that was made before, and a pool yet to be made *)
(* has an empty list.  Lists, hands and holders are told apart one pair at *)
(* a time.                                                                 *)
(***************************************************************************)
InHandOf(q, b) == pc[q].at = "label" /\ pc[q].n = b

ListsApart ==
  \A i, j \in Pools : \A k \in 1 .. Len(bpnext[i]), l \in 1 .. Len(bpnext[j]) :
     bpnext[i][k] = bpnext[j][l] => i = j /\ k = l

ListedAlone ==
  \A i \in Pools : \A k \in 1 .. Len(bpnext[i]) :
     /\ bpnext[i][k] <= made /\ bpnext[i][k] \notin held
     /\ \A q \in Procs : ~InHandOf(q, bpnext[i][k])

HandsApart ==
  \A q \in Procs : pc[q].at = "label" =>
     /\ pc[q].n <= made /\ pc[q].n \notin held
     /\ \A r \in Procs : InHandOf(r, pc[q].n) => r = q

HeldLabelled ==
  \A b \in held : b <= made /\ hdr[b] \in Pools /\ hdr[b] < nbpools

EmptyAbove == \A i \in Pools : i >= nbpools => bpnext[i] = << >>

PlaceInv == ListsApart /\ ListedAlone /\ HandsApart /\ HeldLabelled /\ EmptyAbove

LEMMA PlaceImplies == PlaceInv => BufferInOnePlace
<1> SUFFICES ASSUME PlaceInv PROVE BufferInOnePlace
  OBVIOUS
<1>1. \A i \in Pools : ListOf(i) \cap (held \cup InHand) = {}
  BY DEF PlaceInv, ListedAlone, InHandOf, ListOf, InHand
<1>2. held \cap InHand = {}
  BY DEF PlaceInv, HandsApart, InHand
<1>3. \A p, q \in Procs :
        pc[p].at = "label" /\ pc[q].at = "label" /\ pc[p].n = pc[q].n => p = q
  BY DEF PlaceInv, HandsApart, InHandOf
<1>4. QED BY <1>1, <1>2, <1>3 DEF PlaceInv, ListsApart, HeldLabelled, BufferInOnePlace

LEMMA InitPlace == PoolInit => PlaceInv
  BY DEF PoolInit, PlaceInv, ListsApart, ListedAlone, HandsApart, HeldLabelled,
         EmptyAbove, InHandOf, User, At

\* Whoever has a buffer in hand after a step had it before.
NoNewHands ==
  \A q \in Procs : pc'[q].at = "label" => pc[q].at = "label" /\ pc'[q].n = pc[q].n

LEMMA PlaceStays ==
  ASSUME PlaceInv, NoNewHands, UNCHANGED <<bpnext, held, hdr, made, nbpools>>
  PROVE  PlaceInv'
<1>1. ListedAlone'
  BY DEF PlaceInv, ListedAlone, NoNewHands, InHandOf
<1>2. HandsApart'
  BY DEF PlaceInv, HandsApart, NoNewHands, InHandOf
<1>3. QED BY <1>1, <1>2 DEF PlaceInv, ListsApart, HeldLabelled, EmptyAbove

\* One process goes somewhere else than to the label.
LEMMA NoHand ==
  ASSUME PInv, NEW p \in Procs, NEW c, pc' = [pc EXCEPT ![p] = c], c.at # "label"
  PROVE  NoNewHands
<1>1. \A q \in Procs : pc'[q] = IF q = p THEN c ELSE pc[q]
  BY DEF PInv, Shape, PoolTypeOK
<1>2. QED BY <1>1 DEF NoNewHands

LEMMA AtIs == \A l, i, n : At(l, i, n).at = l
  BY DEF At

LEMMA QuietPlace ==
  ASSUME PInv, PlaceInv, NEW p \in Procs,
         \/ \E n \in PoolSizes : Mkpool(p, n)
         \/ Poolinit(p) \/ \E i \in Pools : Getbuf(p, i)
         \/ GetbufCount(p) \/ GetbufCompare(p) \/ GetbufStore(p) \/ Kill(p)
  PROVE  PlaceInv'
<1>1. PICK c : Go(p, c) /\ c.at # "label"
  BY AtIs DEF Mkpool, Poolinit, Getbuf, GetbufCount, GetbufCompare, GetbufStore,
              Kill, User
<1>2. nbpools' = nbpools
  BY DEF Mkpool, Poolinit, Getbuf, GetbufCount, GetbufCompare, GetbufStore, Kill,
         mkVars, PInv, Shape, Initialised
<1>3. UNCHANGED <<bpnext, held, hdr, made>>
  BY DEF Mkpool, Poolinit, Getbuf, GetbufCount, GetbufCompare, GetbufStore, Kill,
         mkVars, poolVars
<1>4. NoNewHands
  BY <1>1, NoHand DEF Go
<1>5. QED BY <1>2, <1>3, <1>4, PlaceStays

LEMMA SignalPlace ==
  ASSUME PInv, PlaceInv, NEW p \in Procs, FreebufSignal(p)
  PROVE  PlaceInv'
<1>1. UNCHANGED <<bpnext, held, hdr, made, nbpools>>
  BY DEF FreebufSignal, poolVars, mkVars
<1>2. pc \in [Procs -> Conts]
  BY DEF PInv, Shape, PoolTypeOK, Conts
<1>3. PICK w, d : /\ d.at # "label"
                  /\ \/ pc' = [pc EXCEPT ![p] = User]
                     \/ pc' = [pc EXCEPT ![p] = User, ![w] = d]
  BY AtIs DEF FreebufSignal, Go
<1>4. User.at # "label"
  BY AtIs DEF User
<1>5. NoNewHands
  <2>1. \A q \in Procs : pc'[q] = pc[q] \/ pc'[q] = User \/ pc'[q] = d
    BY <1>2, <1>3
  <2>2. QED BY <1>3, <1>4, <2>1 DEF NoNewHands
<1>6. QED BY <1>1, <1>5, PlaceStays

\* mkpool links what nobody has seen yet.
LEMMA MkpoolPlace ==
  ASSUME PInv, PlaceInv, NEW p \in Procs, MkpoolEnd(p)
  PROVE  PlaceInv'
<1>1. PICK n : n = pc[p].n
  OBVIOUS
<1>2. n \in Nat /\ n > 0 /\ made \in Nat /\ nbpools \in Nat
  <2>1. pc[p].at = "mkpool" /\ PlacedAt(pc[p], nbpools, marked)
    BY PcFacts DEF PInv, MkpoolEnd
  <2>2. n \in Nat /\ n > 0
    BY <1>1, <2>1 DEF PlacedAt
  <2>3. made \in Nat /\ nbpools \in Nat
    BY PoolAssumption DEF PInv, Shape, PoolTypeOK
  <2>4. QED BY <2>2, <2>3
<1>3. User.at # "label" /\ pc' = [pc EXCEPT ![p] = User] /\ UNCHANGED <<hdr, held>>
  BY AtIs DEF MkpoolEnd, Go, User
<1>4. NoNewHands
  BY <1>3, NoHand
<1>5. CASE NoRoom(n)
  <2>1. UNCHANGED <<bpnext, made, nbpools>>
    BY <1>1, <1>5 DEF MkpoolEnd, poolVars
  <2>2. QED BY <1>3, <1>4, <2>1, PlaceStays
<1>6. CASE ~NoRoom(n)
  <2>1. /\ nbpools' = nbpools + 1 /\ made' = made + n
        /\ bpnext' = [bpnext EXCEPT ![nbpools] = Linked(n)]
    BY <1>1, <1>6 DEF MkpoolEnd
  <2>2. nbpools \in Pools
    BY <1>2, <1>6, PoolAssumption DEF NoRoom, Pools
  <2>3. Len(Linked(n)) = n /\ \A k \in 1 .. n : Linked(n)[k] = made + k
    BY <1>2 DEF Linked
  <2>4. bpnext \in [Pools -> Seq(Bufs)] /\ Pools \subseteq Nat /\ Bufs \subseteq Nat
    BY PoolAssumption DEF PInv, Shape, PoolTypeOK, Pools, Bufs
  <2>5. \A i \in Pools : bpnext'[i] = IF i = nbpools THEN Linked(n) ELSE bpnext[i]
    BY <2>1, <2>2, <2>4
  <2>6. \A i \in Pools : \A k \in 1 .. Len(bpnext[i]) :
          bpnext[i][k] \in Nat /\ bpnext[i][k] <= made
    <3>1. ASSUME NEW i \in Pools, NEW k \in 1 .. Len(bpnext[i])
          PROVE  bpnext[i][k] \in Nat /\ bpnext[i][k] <= made
      <4>1. bpnext[i] \in Seq(Bufs)
        BY <2>4
      <4>2. bpnext[i][k] \in Bufs
        BY <4>1
      <4>3. QED BY <2>4, <4>2 DEF PlaceInv, ListedAlone
    <3>2. QED BY <3>1
  <2>7. ListsApart'
    <3> SUFFICES ASSUME NEW i \in Pools, NEW j \in Pools,
                        NEW k \in 1 .. Len(bpnext'[i]), NEW l \in 1 .. Len(bpnext'[j]),
                        bpnext'[i][k] = bpnext'[j][l]
                 PROVE  i = j /\ k = l
      BY DEF ListsApart
    <3>1. /\ i = nbpools => k \in 1 .. n /\ bpnext'[i][k] = made + k
          /\ i # nbpools => k \in 1 .. Len(bpnext[i]) /\ bpnext'[i][k] = bpnext[i][k]
      BY <2>3, <2>5
    <3>2. /\ j = nbpools => l \in 1 .. n /\ bpnext'[j][l] = made + l
          /\ j # nbpools => l \in 1 .. Len(bpnext[j]) /\ bpnext'[j][l] = bpnext[j][l]
      BY <2>3, <2>5
    <3>3. CASE i = nbpools /\ j = nbpools
      BY <1>2, <3>1, <3>2, <3>3
    <3>4. CASE i = nbpools /\ j # nbpools
      <4>1. bpnext[j][l] \in Nat /\ bpnext[j][l] <= made
        BY <2>6, <3>2, <3>4
      <4>2. QED BY <1>2, <3>1, <3>2, <3>4, <4>1
    <3>5. CASE i # nbpools /\ j = nbpools
      <4>1. bpnext[i][k] \in Nat /\ bpnext[i][k] <= made
        BY <2>6, <3>1, <3>5
      <4>2. QED BY <1>2, <3>1, <3>2, <3>5, <4>1
    <3>6. CASE i # nbpools /\ j # nbpools
      BY <3>1, <3>2, <3>6 DEF PlaceInv, ListsApart
    <3>7. QED BY <3>3, <3>4, <3>5, <3>6
  <2>8. held \subseteq Bufs /\ \A b \in held : b <= made
    BY DEF PInv, Shape, PoolTypeOK, PlaceInv, HeldLabelled
  <2>9. \A q \in Procs : pc[q].at = "label" => pc[q].n \in Nat /\ pc[q].n <= made
    BY <2>4, PcFacts DEF PInv, PlacedAt, PlaceInv, HandsApart
  <2>10. ListedAlone'
    <3> SUFFICES ASSUME NEW i \in Pools, NEW k \in 1 .. Len(bpnext'[i])
                 PROVE  /\ bpnext'[i][k] <= made' /\ bpnext'[i][k] \notin held'
                        /\ \A q \in Procs : ~(pc'[q].at = "label" /\ pc'[q].n = bpnext'[i][k])
      BY DEF ListedAlone, InHandOf
    <3>1. CASE i = nbpools
      <4>1. bpnext'[i][k] = made + k /\ k \in 1 .. n
        BY <2>3, <2>5, <3>1
      <4>2. QED BY <1>2, <1>3, <1>4, <2>1, <2>4, <2>8, <2>9, <4>1
              DEF NoNewHands, InHandOf
    <3>2. CASE i # nbpools
      <4>1. k \in 1 .. Len(bpnext[i]) /\ bpnext'[i][k] = bpnext[i][k]
        BY <2>5, <3>2
      <4>2. /\ bpnext[i][k] <= made /\ bpnext[i][k] \notin held
            /\ \A q \in Procs : ~InHandOf(q, bpnext[i][k])
        BY <4>1 DEF PlaceInv, ListedAlone
      <4>3. QED BY <1>2, <1>3, <1>4, <2>1, <2>6, <4>1, <4>2 DEF NoNewHands, InHandOf
    <3>3. QED BY <3>1, <3>2
  <2>11. HandsApart'
    BY <1>2, <1>3, <1>4, <2>1, <2>9 DEF PlaceInv, HandsApart, NoNewHands, InHandOf
  <2>12. HeldLabelled'
    <3> SUFFICES ASSUME NEW b \in held
                 PROVE  b <= made' /\ hdr[b] \in Pools /\ hdr[b] < nbpools'
      BY <1>3 DEF HeldLabelled
    <3>1. b \in Nat /\ b <= made /\ hdr[b] \in Pools /\ hdr[b] < nbpools
      BY <2>4, <2>8 DEF PlaceInv, HeldLabelled
    <3>2. hdr[b] \in Nat
      BY <2>4, <3>1
    <3>3. QED BY <1>2, <2>1, <3>1, <3>2
  <2>13. EmptyAbove'
    BY <1>2, <2>1, <2>4, <2>5 DEF PlaceInv, EmptyAbove
  <2>14. QED BY <2>7, <2>10, <2>11, <2>12, <2>13 DEF PlaceInv
<1>7. QED BY <1>5, <1>6

\* getbuf and nbgetbuf: the first buffer of the list goes into p's hand.
LEMMA UnlinksPlace ==
  ASSUME PInv, PlaceInv, NEW p \in Procs, NEW i \in Pools, Unlinks(p, i),
         pc[p].at # "label", UNCHANGED <<held, hdr, made, nbpools>>
  PROVE  PlaceInv'
<1>1. PICK s : s = bpnext[i]
  OBVIOUS
<1>2. /\ bpnext \in [Pools -> Seq(Bufs)] /\ pc \in [Procs -> Conts]
      /\ s \in Seq(Bufs) /\ s # << >>
  BY <1>1 DEF PInv, Shape, PoolTypeOK, Conts, Unlinks
<1>3. /\ Len(s) \in Nat /\ Len(s) >= 1 /\ Len(Tail(s)) = Len(s) - 1
      /\ Head(s) = s[1] /\ \A k \in 1 .. Len(s) - 1 : Tail(s)[k] = s[k + 1]
  BY <1>2, HeadTailProperties, LenProperties, EmptySeq
<1>4. PICK b : b = s[1]
  OBVIOUS
<1>5. /\ pc' = [pc EXCEPT ![p] = At("label", i, b)]
      /\ bpnext' = [bpnext EXCEPT ![i] = Tail(s)]
  BY <1>1, <1>3, <1>4 DEF Unlinks, Go
<1>6. \A q \in Procs : /\ q # p => pc'[q] = pc[q]
                       /\ pc'[p].at = "label" /\ pc'[p].n = b
  BY <1>2, <1>5 DEF At
<1>7. b \notin held /\ b <= made /\ \A q \in Procs : ~InHandOf(q, b)
  BY <1>1, <1>3, <1>4 DEF PlaceInv, ListedAlone
\* An entry of a list was in it before, behind b if the list is that of i.
<1>8. ASSUME NEW j \in Pools, NEW k \in 1 .. Len(bpnext'[j])
      PROVE  \E l \in 1 .. Len(bpnext[j]) :
               /\ bpnext'[j][k] = bpnext[j][l]
               /\ l = IF j = i THEN k + 1 ELSE k
  <2>1. CASE j = i
    <3>1. bpnext'[j] = Tail(s) /\ k \in 1 .. Len(s) - 1 /\ bpnext[j] = s
      BY <1>1, <1>2, <1>3, <1>5, <2>1
    <3>2. k + 1 \in 1 .. Len(s) /\ Tail(s)[k] = s[k + 1]
      BY <1>3, <3>1
    <3>3. QED BY <2>1, <3>1, <3>2
  <2>2. CASE j # i
    BY <1>2, <1>5, <2>2
  <2>3. QED BY <2>1, <2>2
<1>9. ListsApart'
  <2> SUFFICES ASSUME NEW j \in Pools, NEW h \in Pools,
                      NEW k \in 1 .. Len(bpnext'[j]), NEW l \in 1 .. Len(bpnext'[h]),
                      bpnext'[j][k] = bpnext'[h][l]
               PROVE  j = h /\ k = l
    BY DEF ListsApart
  <2>1. PICK m \in 1 .. Len(bpnext[j]) :
           bpnext'[j][k] = bpnext[j][m] /\ m = IF j = i THEN k + 1 ELSE k
    BY <1>8
  <2>2. PICK n \in 1 .. Len(bpnext[h]) :
           bpnext'[h][l] = bpnext[h][n] /\ n = IF h = i THEN l + 1 ELSE l
    BY <1>8
  <2>3. j = h /\ m = n
    <3>1. bpnext[j][m] = bpnext[h][n]
      BY <2>1, <2>2
    <3>2. QED BY <3>1 DEF PlaceInv, ListsApart
  <2>4. k \in Int /\ l \in Int
    OBVIOUS
  <2>5. QED BY <2>1, <2>2, <2>3, <2>4
<1>10. ListedAlone'
  <2> SUFFICES ASSUME NEW j \in Pools, NEW k \in 1 .. Len(bpnext'[j])
               PROVE  /\ bpnext'[j][k] <= made /\ bpnext'[j][k] \notin held
                      /\ \A q \in Procs :
                           ~(pc'[q].at = "label" /\ pc'[q].n = bpnext'[j][k])
    BY DEF ListedAlone, InHandOf
  <2>1. PICK m \in 1 .. Len(bpnext[j]) :
           bpnext'[j][k] = bpnext[j][m] /\ m = IF j = i THEN k + 1 ELSE k
    BY <1>8
  <2>2. bpnext[j][m] # b
    <3>1. 1 \in 1 .. Len(bpnext[i]) /\ b = bpnext[i][1]
      BY <1>1, <1>3, <1>4
    <3>2. k \in Int /\ k >= 1
      OBVIOUS
    <3>3. j = i => m # 1
      BY <2>1, <3>2
    <3>4. QED BY <3>1, <3>3 DEF PlaceInv, ListsApart
  <2>3. /\ bpnext[j][m] <= made /\ bpnext[j][m] \notin held
        /\ \A q \in Procs : ~InHandOf(q, bpnext[j][m])
    BY DEF PlaceInv, ListedAlone
  <2>4. QED BY <1>6, <2>1, <2>2, <2>3 DEF InHandOf
<1>11. HandsApart'
  BY <1>6, <1>7 DEF PlaceInv, HandsApart, InHandOf
<1>12. HeldLabelled'
  BY DEF PlaceInv, HeldLabelled
<1>13. EmptyAbove'
  <2>1. i < nbpools
    BY <1>1, <1>2 DEF PlaceInv, EmptyAbove, PInv, Shape, PoolTypeOK, Pools
  <2>2. nbpools \in Int /\ i \in Int
    BY PoolAssumption DEF PInv, Shape, PoolTypeOK, Pools
  <2>3. \A j \in Pools \ {i} : bpnext'[j] = bpnext[j]
    BY <1>2, <1>5
  <2>4. QED BY <2>1, <2>2, <2>3 DEF PlaceInv, EmptyAbove
<1>14. QED BY <1>9, <1>10, <1>11, <1>12, <1>13 DEF PlaceInv

\* getbuf: from the hand to the caller, with the pool's number in it.
LEMMA LabelPlace ==
  ASSUME PInv, PlaceInv, NEW p \in Procs, GetbufLabel(p)
  PROVE  PlaceInv'
<1>1. PICK b : b = pc[p].n
  OBVIOUS
<1>2. pc[p].at = "label" /\ InHandOf(p, b) /\ User.at # "label"
  BY <1>1, AtIs DEF GetbufLabel, InHandOf, User
<1>3. /\ held' = held \cup {b} /\ hdr' = [hdr EXCEPT ![b] = pc[p].pool]
      /\ UNCHANGED <<bpnext, made, nbpools>>
  BY <1>1 DEF GetbufLabel, poolVars, mkVars
<1>4. b \in Bufs /\ pc[p].pool \in Pools /\ pc[p].pool < nbpools
  BY <1>1, <1>2, PcFacts DEF PInv, PlacedAt, InPool
<1>5. \A q \in Procs : pc'[q] = IF q = p THEN User ELSE pc[q]
  BY DEF GetbufLabel, Go, PInv, Shape, PoolTypeOK
<1>6. /\ b <= made /\ b \notin held
      /\ \A q \in Procs : InHandOf(q, b) => q = p
  BY <1>1, <1>2 DEF PlaceInv, HandsApart
<1>7. hdr \in [Bufs -> Pools \cup {LINK}] /\ held \subseteq Bufs
  BY DEF PInv, Shape, PoolTypeOK
<1>8. ListedAlone'
  BY <1>2, <1>3, <1>5 DEF PlaceInv, ListedAlone, InHandOf
<1>9. HandsApart'
  BY <1>2, <1>3, <1>5, <1>6 DEF PlaceInv, HandsApart, InHandOf
<1>10. HeldLabelled'
  BY <1>3, <1>4, <1>6, <1>7 DEF PlaceInv, HeldLabelled
<1>11. QED BY <1>3, <1>8, <1>9, <1>10 DEF PlaceInv, ListsApart, EmptyAbove

\* freebuf: from the caller to the front of the list of its pool.
LEMMA FreebufPlace ==
  ASSUME PInv, PlaceInv, NEW p \in Procs, NEW b \in Bufs, Freebuf(p, b)
  PROVE  PlaceInv'
<1>1. PICK i \in Pools : i = hdr[b] /\ i < nbpools
  BY DEF Freebuf, PlaceInv, HeldLabelled
<1>2. PICK s : s = bpnext[i]
  OBVIOUS
<1>3. /\ b \in held /\ held' = held \ {b} /\ hdr' = [hdr EXCEPT ![b] = LINK]
      /\ bpnext' = [bpnext EXCEPT ![i] = <<b>> \o s]
      /\ UNCHANGED <<made, nbpools>> /\ Go(p, At("signal", i, 0))
  BY <1>1, <1>2 DEF Freebuf, mkVars
<1>4. /\ bpnext \in [Pools -> Seq(Bufs)] /\ s \in Seq(Bufs) /\ Len(s) \in Nat
      /\ hdr \in [Bufs -> Pools \cup {LINK}] /\ held \subseteq Bufs
  BY <1>2 DEF PInv, Shape, PoolTypeOK
<1>5. NoNewHands
  BY <1>3, AtIs, NoHand DEF Go
<1>6. /\ Len(<<b>> \o s) = Len(s) + 1 /\ (<<b>> \o s)[1] = b
      /\ \A k \in 2 .. Len(s) + 1 : (<<b>> \o s)[k] = s[k - 1]
  BY <1>4, ConcatProperties, LenProperties
<1>7. /\ b <= made /\ \A q \in Procs : ~InHandOf(q, b)
      /\ \A j \in Pools : \A k \in 1 .. Len(bpnext[j]) : bpnext[j][k] # b
  BY <1>3 DEF PlaceInv, HeldLabelled, ListedAlone, HandsApart, InHandOf
\* An entry of a list is b, at the front of that of i, or was in it before.
<1>8. ASSUME NEW j \in Pools, NEW k \in 1 .. Len(bpnext'[j])
      PROVE  \/ j = i /\ k = 1 /\ bpnext'[j][k] = b
             \/ \E l \in 1 .. Len(bpnext[j]) :
                   /\ bpnext'[j][k] = bpnext[j][l]
                   /\ l = IF j = i THEN k - 1 ELSE k
  <2>1. CASE j = i
    <3>1. bpnext'[j] = <<b>> \o s /\ k \in 1 .. Len(s) + 1 /\ bpnext[j] = s
      BY <1>2, <1>3, <1>4, <1>6, <2>1
    <3>2. CASE k = 1
      BY <1>6, <2>1, <3>1, <3>2
    <3>3. CASE k # 1
      <4>1. k - 1 \in 1 .. Len(s) /\ k \in 2 .. Len(s) + 1
        BY <1>4, <3>1, <3>3
      <4>2. QED BY <1>6, <2>1, <3>1, <4>1
    <3>4. QED BY <3>2, <3>3
  <2>2. CASE j # i
    BY <1>3, <1>4, <2>2
  <2>3. QED BY <2>1, <2>2
<1>9. ListsApart'
  <2> SUFFICES ASSUME NEW j \in Pools, NEW h \in Pools,
                      NEW k \in 1 .. Len(bpnext'[j]), NEW l \in 1 .. Len(bpnext'[h]),
                      bpnext'[j][k] = bpnext'[h][l]
               PROVE  j = h /\ k = l
    BY DEF ListsApart
  <2>1. k \in Int /\ l \in Int
    OBVIOUS
  <2>2. CASE bpnext'[j][k] = b
    <3>1. j = i /\ k = 1
      BY <1>7, <1>8, <2>2
    <3>2. bpnext'[h][l] = b
      BY <2>2
    <3>3. h = i /\ l = 1
      BY <1>7, <1>8, <3>2
    <3>4. QED BY <3>1, <3>3
  <2>3. CASE bpnext'[j][k] # b
    <3>1. PICK m \in 1 .. Len(bpnext[j]) :
             bpnext'[j][k] = bpnext[j][m] /\ m = IF j = i THEN k - 1 ELSE k
      BY <1>8, <2>3
    <3>2. PICK n \in 1 .. Len(bpnext[h]) :
             bpnext'[h][l] = bpnext[h][n] /\ n = IF h = i THEN l - 1 ELSE l
      BY <1>8, <2>3
    <3>3. j = h /\ m = n
      <4>1. bpnext[j][m] = bpnext[h][n]
        BY <3>1, <3>2
      <4>2. QED BY <4>1 DEF PlaceInv, ListsApart
    <3>4. QED BY <2>1, <3>1, <3>2, <3>3
  <2>4. QED BY <2>2, <2>3
<1>10. ListedAlone'
  <2> SUFFICES ASSUME NEW j \in Pools, NEW k \in 1 .. Len(bpnext'[j])
               PROVE  /\ bpnext'[j][k] <= made /\ bpnext'[j][k] \notin held'
                      /\ \A q \in Procs :
                           ~(pc'[q].at = "label" /\ pc'[q].n = bpnext'[j][k])
    BY <1>3 DEF ListedAlone, InHandOf
  <2>1. CASE bpnext'[j][k] = b
    <3>1. b <= made /\ b \notin held' /\ \A q \in Procs : ~InHandOf(q, b)
      BY <1>3, <1>7
    <3>2. \A q \in Procs : ~(pc'[q].at = "label" /\ pc'[q].n = b)
      BY <1>5, <3>1 DEF NoNewHands, InHandOf
    <3>3. QED BY <2>1, <3>1, <3>2
  <2>2. CASE bpnext'[j][k] # b
    <3>1. PICK m \in 1 .. Len(bpnext[j]) : bpnext'[j][k] = bpnext[j][m]
      BY <1>8, <2>2
    <3>2. /\ bpnext[j][m] <= made /\ bpnext[j][m] \notin held
          /\ \A q \in Procs : ~InHandOf(q, bpnext[j][m])
      BY DEF PlaceInv, ListedAlone
    <3>3. QED BY <1>3, <1>5, <3>1, <3>2 DEF NoNewHands, InHandOf
  <2>3. QED BY <2>1, <2>2
<1>11. HandsApart'
  BY <1>3, <1>5 DEF PlaceInv, HandsApart, NoNewHands, InHandOf
<1>12. HeldLabelled'
  BY <1>3, <1>4 DEF PlaceInv, HeldLabelled
<1>13. EmptyAbove'
  <2>1. nbpools \in Int /\ \A j \in Pools : j \in Int
    BY PoolAssumption DEF PInv, Shape, PoolTypeOK, Pools
  <2>2. \A j \in Pools \ {i} : bpnext'[j] = bpnext[j]
    BY <1>3, <1>4
  <2>3. QED BY <1>1, <1>3, <2>1, <2>2 DEF PlaceInv, EmptyAbove
<1>14. QED BY <1>9, <1>10, <1>11, <1>12, <1>13 DEF PlaceInv

LEMMA PlaceStep ==
  ASSUME PInv, PlaceInv, [PoolNext]_vars
  PROVE  PlaceInv'
<1>1. CASE UNCHANGED vars
  <2>1. UNCHANGED <<bpnext, held, hdr, made, nbpools, pc>>
    BY <1>1 DEF vars, poolVars, mkVars
  <2>2. QED BY <2>1, PlaceStays DEF NoNewHands
<1>2. ASSUME NEW p \in Procs, GetbufTake(p) PROVE PlaceInv'
  <2>1. /\ pc[p].at = "take" /\ Unlinks(p, pc[p].pool)
        /\ UNCHANGED <<held, hdr, made, nbpools>>
    BY <1>2 DEF GetbufTake, mkVars
  <2>2. pc[p].pool \in Pools
    BY <2>1, PcFacts DEF PInv, PlacedAt, InPool
  <2>3. QED BY <2>1, <2>2, UnlinksPlace
<1>3. ASSUME NEW p \in Procs, NEW i \in Pools, Nbgetbuf(p, i) PROVE PlaceInv'
  <2>1. Unlinks(p, i) /\ UNCHANGED <<held, hdr, made, nbpools>>
    BY <1>3 DEF Nbgetbuf, mkVars
  <2>2. pc[p].at # "label"
    BY <1>3, PcFacts DEF Nbgetbuf, PInv
  <2>3. QED BY <2>1, <2>2, UnlinksPlace
<1>4. CASE PoolNext
  <2>1. PICK p \in Procs :
        \/ \/ \E n \in PoolSizes : Mkpool(p, n)
           \/ Poolinit(p) \/ \E i \in Pools : Getbuf(p, i)
           \/ GetbufCount(p) \/ GetbufCompare(p) \/ GetbufStore(p) \/ Kill(p)
        \/ MkpoolEnd(p) \/ GetbufTake(p) \/ GetbufLabel(p)
        \/ \E i \in Pools : Nbgetbuf(p, i)
        \/ \E b \in Bufs : Freebuf(p, b)
        \/ FreebufSignal(p)
    BY <1>4, Zenon DEF PoolNext
  <2>2. QED BY <1>2, <1>3, <2>1, QuietPlace, MkpoolPlace, LabelPlace, FreebufPlace,
            SignalPlace
<1>5. QED BY <1>1, <1>4

(***************************************************************************)
(* mkpool.c, getbuf.c and freebuf.c: a buffer is once in the list of one   *)
(* pool, or in one hand, or held, for any number of pools, buffers and     *)
(* processes, and wherever one of them is interrupted or killed; and one   *)
(* that is held goes back to the pool it came from.                        *)
(***************************************************************************)
THEOREM BuffersApart == PoolSpec => []BufferInOnePlace
<1>1. QED BY InitPlace, PlaceStep, PlaceImplies, PoolInductive, PTL DEF PoolSpec

\* Who is about to unlink a buffer of a pool with a semaphore finds one.
BufferThere ==
  \A p \in Procs : pc[p].at = "take" /\ bpsem[pc[p].pool] => bpnext[pc[p].pool] # << >>

(***************************************************************************)
(* getbuf.c:29-30 follows bpnext without comparing it with NULL, after the *)
(* processor was given away in between: with a semaphore the link is never *)
(* null.  (mkpool.c does not look whether screate gave it one.)            *)
(***************************************************************************)
THEOREM NeverNull == PoolSpec => []BufferThere
<1>1. PInv => BufferThere
  <2> SUFFICES ASSUME PInv, NEW p \in Procs, pc[p].at = "take", bpsem[pc[p].pool]
               PROVE  bpnext[pc[p].pool] # << >>
    BY DEF BufferThere
  <2>1. PICK i \in Pools : i = pc[p].pool /\ i < nbpools
    BY PcFacts DEF PInv, PlacedAt, InPool
  <2>2. CountedIn(i) /\ stray[i] \in Nat /\ semcnt[i] \in Int
    BY <2>1, PoolFacts
  <2>3. Moves(pc, pc, p, pc[p])
    BY DEF Moves
  <2>4. Count(pc, {"signal"}, i) \in Nat
    BY <2>3, CountMove
  <2>5. Count(pc, TakeLabels, i) >= 1
    <3>1. PICK T : T = { q \in Procs : IsAt(pc[q], TakeLabels, i) }
      OBVIOUS
    <3>2. p \in T /\ IsFiniteSet(T) /\ Count(pc, TakeLabels, i) = Cardinality(T)
      BY <2>1, <3>1, FS_Subset, PoolAssumption DEF IsAt, TakeLabels, Count
    <3>3. Cardinality(T) \in Nat /\ Cardinality(T) # 0
      BY <3>2, FS_CardinalityType, FS_EmptySet
    <3>4. QED BY <3>2, <3>3
  <2>6. Count(pc, TakeLabels, i) \in Nat
    BY <2>3, CountMove
  <2>7. Len(bpnext[i]) # 0
    BY <2>2, <2>4, <2>5, <2>6 DEF CountedIn
  <2>8. QED BY <2>1, <2>7
<1>2. QED BY <1>1, PoolInductive, PTL
==============================================================================
