------------------------------ MODULE XinuMemory ------------------------------
(***************************************************************************)
(* Heap and stack storage (OS_Projects/Locks/sys: getmem.c, getstk.c,      *)
(* freemem.c, initialize.c, and freestk in h/mem.h).  The unit is a WORD   *)
(* of four bytes.  The free list is in address order and is modelled as a  *)
(* function from the address of each free block to its length; heap        *)
(* storage is taken from the low end of the lowest block that is large     *)
(* enough, a stack from the high end of the highest.                       *)
(*                                                                         *)
(* Each call works with interrupts disabled from its search to its end, so *)
(* that it is one action.                                                  *)
(***************************************************************************)
EXTENDS Integers

CONSTANTS InitFree,    \* the free blocks after sysinit: address |-> length
          MemSizes,    \* sizes asked of getmem
          StkSizes     \* sizes asked of getstk

\* The blocks of list f lie apart, in this order.
Apart(f) == \A a, b \in DOMAIN f : a < b => a + f[a] < b

ASSUME MemoryAssumption ==
  /\ DOMAIN InitFree \subseteq Nat
  /\ InitFree \in [DOMAIN InitFree -> Nat \ {0}]
  /\ Apart(InitFree)
  /\ MemSizes \subseteq Nat \ {0}
  /\ StkSizes \subseteq Nat \ {0}

VARIABLES free,    \* memlist: the length of each free block
          used,    \* used[a]: what the caller knows of the block at a
          last     \* the last request and whether it was served

memVars == <<free, used, last>>

\* A request is kept by its caller: its size, and whether it is a stack.
Requests == [size : Nat, stack : BOOLEAN]

\* roundmb: up to the size of a struct mblock, which is two words.
RoundMb(n) == n + (n % 2)

\* The words a request takes.
Taken(r) == IF r.stack THEN r.size ELSE RoundMb(r.size)

Extent(a, n) == a .. (a + n - 1)

\* The words of the blocks of f.
Words(f) == UNION { Extent(a, f[a]) : a \in DOMAIN f }

FreeWords == Words(free)

UsedWords == Words([a \in DOMAIN used |-> Taken(used[a])])

Heap == Words(InitFree)

MemoryInit ==
  /\ free = InitFree
  /\ used = [a \in {} |-> [size |-> 1, stack |-> FALSE]]
  /\ last = [size |-> 0, stack |-> FALSE, ok |-> TRUE]

(***************************************************************************)
(* What is left of a free block must hold its header of two words: getmem  *)
(* and getstk do not ask, and the header of a single word would share its  *)
(* second one with the owner of the next block.  What happens then depends *)
(* on what that owner writes; such requests are left out.                  *)
(***************************************************************************)
RoomForHeader(rest) == rest # 1

Fits(n) == { a \in DOMAIN free : free[a] >= n }

Without(f, S) == [a \in DOMAIN f \ S |-> f[a]]

With(f, a, x) == [b \in DOMAIN f \cup {a} |-> IF b = a THEN x ELSE f[b]]

Served(a, r) ==
  /\ used' = With(used, a, r)
  /\ last' = [size |-> r.size, stack |-> r.stack, ok |-> TRUE]

Refused(r) ==
  /\ last' = [size |-> r.size, stack |-> r.stack, ok |-> FALSE]
  /\ UNCHANGED <<free, used>>

\* Faulty variant: a block of exactly the size asked for is passed over.
Getmem_NotExact(n) ==
  LET m    == RoundMb(n)
      r    == [size |-> n, stack |-> FALSE]
      fits == Fits(m + 1)
  IN  \/ \E a \in fits :
           /\ \A b \in fits : a <= b
           /\ RoomForHeader(free[a] - m)
           /\ free' = With(Without(free, {a}), a + m, free[a] - m)
           /\ Served(a, r)
      \/ /\ fits = {}
         /\ Refused(r)

\* getmem(n): first fit.
Getmem(n) ==
  LET m    == RoundMb(n)
      r    == [size |-> n, stack |-> FALSE]
      fits == Fits(m)
  IN  \/ \E a \in fits :
           /\ \A b \in fits : a <= b
           /\ RoomForHeader(free[a] - m)
           /\ free' = IF free[a] = m THEN Without(free, {a})
                      ELSE With(Without(free, {a}), a + m, free[a] - m)
           /\ Served(a, r)
      \/ /\ fits = {}
         /\ Refused(r)

\* Faulty variant: a block that is used up stays on the list.
Getstk_KeepsEmpty(n) ==
  LET r    == [size |-> n, stack |-> TRUE]
      fits == Fits(n)
  IN  \/ \E a \in fits :
           /\ \A b \in fits : b <= a
           /\ RoomForHeader(free[a] - n)
           /\ free' = With(free, a, free[a] - n)
           /\ Served(a + free[a] - n, r)
      \/ /\ fits = {}
         /\ Refused(r)

\* getstk(n): last fit, from the top of the block.
Getstk(n) ==
  LET r    == [size |-> n, stack |-> TRUE]
      fits == Fits(n)
  IN  \/ \E a \in fits :
           /\ \A b \in fits : b <= a
           /\ RoomForHeader(free[a] - n)
           /\ free' = IF free[a] = n THEN Without(free, {a})
                      ELSE With(free, a, free[a] - n)
           /\ Served(a + free[a] - n, r)
      \/ /\ fits = {}
         /\ Refused(r)

(***************************************************************************)
(* freemem(b, m), m rounded already: its neighbours on the list, the test  *)
(* that refuses a block that is not all in use, and the list that results, *)
(* joined with the neighbours it touches.                                  *)
(***************************************************************************)
Below(q, b) == /\ q \in DOMAIN free
               /\ q < b
               /\ \A a \in DOMAIN free : a < b => a <= q

Above(p, b) == /\ p \in DOMAIN free
               /\ p >= b
               /\ \A a \in DOMAIN free : a >= b => p <= a

Overlaps(b, m) == \/ \E q \in DOMAIN free : Below(q, b) /\ q + free[q] > b
                  \/ \E p \in DOMAIN free : Above(p, b) /\ b + m > p

\* Faulty variant: the block is not joined with the one above it.
Freed_NotJoined(b, m) ==
  LET lower == { q \in DOMAIN free : Below(q, b) /\ q + free[q] = b }
  IN  IF lower = {} THEN With(free, b, m)
      ELSE [a \in DOMAIN free |->
              IF a \in lower THEN free[a] + m ELSE free[a]]

Freed(b, m) ==
  LET upper  == { p \in DOMAIN free : Above(p, b) /\ b + m = p }
      lower  == { q \in DOMAIN free : Below(q, b) /\ q + free[q] = b }
      joined == m + (IF upper = {} THEN 0 ELSE free[b + m])
      rest   == Without(free, upper)
  IN  IF lower = {} THEN With(rest, b, joined)
      ELSE [a \in DOMAIN rest |->
              IF a \in lower THEN free[a] + joined ELSE free[a]]

\* Faulty variant: only the block above is looked at.
Freemem_LooksUp(b, m) ==
  free' = IF \E p \in DOMAIN free : Above(p, b) /\ b + m > p THEN free
          ELSE Freed(b, m)

\* block < &end
BelowHeap(b) == \A a \in DOMAIN InitFree : b < a

Freemem(b, m) ==
  free' = IF BelowHeap(b) \/ Overlaps(b, m) THEN free ELSE Freed(b, m)

\* The owner gives a block back: freemem(a, n), or freestk with its own
\* idea of where the stack begins.
Release(a) ==
  LET n == used[a].size
  IN  /\ IF used[a].stack
         THEN Freemem(a + n - RoundMb(n), RoundMb(n))
         ELSE Freemem(a, RoundMb(n))
      /\ used' = Without(used, {a})
      /\ last' = [last EXCEPT !.ok = TRUE]

\* A block that has been given back is given back again, as by a process
\* that is killed twice (kill.c:42).
ReleaseAgain(b, n) ==
  /\ Extent(b, RoundMb(n)) \subseteq FreeWords
  /\ Freemem(b, RoundMb(n))
  /\ last' = [last EXCEPT !.ok = TRUE]
  /\ UNCHANGED used

MemoryNext ==
  \/ \E n \in MemSizes : Getmem(n)
  \/ \E n \in StkSizes : Getstk(n)
  \/ \E a \in DOMAIN used : Release(a)
  \/ \E b \in Heap, n \in MemSizes \cup StkSizes : ReleaseAgain(b, n)

MemorySpec == MemoryInit /\ [][MemoryNext]_memVars

----------------------------------------------------------------------------
MemoryTypeOK ==
  /\ DOMAIN free \subseteq Nat
  /\ free \in [DOMAIN free -> Nat \ {0}]
  /\ DOMAIN used \subseteq Nat
  /\ used \in [DOMAIN used -> Requests]

(***************************************************************************)
(* The search of freemem and the merging it does rely on the blocks before *)
(* and after: no two free blocks overlap or touch, after any sequence of   *)
(* calls.                                                                  *)
(***************************************************************************)
FreeListApart == Apart(free)

(***************************************************************************)
(* Every word of the heap is in one block, free or used: getmem and getstk *)
(* never hand out a word twice, and what is given back is not lost.  Holds *)
(* when stacks have an even number of words (mem.h:26, freestk rounds up). *)
(***************************************************************************)
HeapPartition ==
  /\ FreeWords \cup UsedWords = Heap
  /\ FreeWords \cap UsedWords = {}
  /\ \A a, b \in DOMAIN used : a < b => a + Taken(used[a]) <= b

(***************************************************************************)
(* A request is refused only if there is no run of free words that would   *)
(* hold it: freemem has joined whatever can be joined.                     *)
(***************************************************************************)
RefusedOnlyWhenFull ==
  ~last.ok => \A b \in FreeWords :
                 ~(Extent(b, Taken(last)) \subseteq FreeWords)
==============================================================================
