------------------------------ MODULE XinuQueue ------------------------------
(***************************************************************************)
(* The process queues of the Xinu kernel (OS_Projects/Locks/sys: queue.c,  *)
(* insert.c, insertd.c, getitem.c, newqueue.c and h/q.h).                  *)
(*                                                                         *)
(* The kernel threads every list through one table q[]: entry p < NPROC is *)
(* process p, and each list owns a head (key MININT) and a tail (key       *)
(* MAXINT).  Here a list is the sequence of its entries from head to tail, *)
(* an entry being a process and the q[].qkey it was queued with.  The head *)
(* and the tail are the two ends of the sequence.  A process off every     *)
(* list keeps a stale key in q[]; nobody reads it, so it has none here.    *)
(***************************************************************************)
EXTENDS Integers, Sequences

\* A community module: its operators are used under the name Ext.
Ext == INSTANCE SequencesExt

Entry(p, k) == [pid |-> p, key |-> k]

EmptyQueue == << >>

Members(list) == { list[i].pid : i \in DOMAIN list }

\* No process is linked twice into the list.
Distinct(list) ==
  \A i, j \in DOMAIN list : list[i].pid = list[j].pid => i = j

\* Keys never decrease from head to tail.
Sorted(list) ==
  \A i, j \in DOMAIN list : i <= j => list[i].key <= list[j].key

PosOf(list, p) == CHOOSE i \in DOMAIN list : list[i].pid = p

KeyOf(list, p) == list[PosOf(list, p)].key

(***************************************************************************)
(* insert(proc, head, key): walk from the head past every key below the    *)
(* new one, so that among equal keys the newcomer is nearest the head.     *)
(***************************************************************************)
InsertPos(list, k) ==
  CHOOSE i \in 1 .. Len(list) + 1 :
     /\ i <= Len(list) => list[i].key >= k
     /\ \A j \in 1 .. i - 1 : list[j].key < k

\* Faulty variant: the walk goes past equal keys too.
Insert_PastEqual(list, p, k) ==
  LET i == CHOOSE n \in 1 .. Len(list) + 1 :
              /\ n <= Len(list) => list[n].key > k
              /\ \A j \in 1 .. n - 1 : list[j].key <= k
  IN  Ext!InsertAt(list, i, Entry(p, k))

Insert(list, p, k) == Ext!InsertAt(list, InsertPos(list, k), Entry(p, k))

(***************************************************************************)
(* insertd(pid, head, key): insert in a delta list.  Each key walked past  *)
(* is subtracted from the new one, and what is left of the new key is      *)
(* subtracted from the entry that follows.  Before[i] is the time of the   *)
(* first i entries together.                                               *)
(***************************************************************************)
Before(list) ==
  LET sum[i \in 0 .. Len(list)] ==
        IF i = 0 THEN 0 ELSE sum[i - 1] + list[i].key
  IN  sum

InsertDPos(list, k) ==
  CHOOSE i \in 1 .. Len(list) + 1 :
     /\ i <= Len(list) => list[i].key >= k - Before(list)[i - 1]
     /\ \A j \in 1 .. i - 1 : list[j].key < k - Before(list)[j - 1]

\* Faulty variant: the entry that follows keeps its key.
InsertD_NoAdjust(list, p, k) ==
  LET i == InsertDPos(list, k)
  IN  Ext!InsertAt(list, i, Entry(p, k - Before(list)[i - 1]))

InsertD(list, p, k) ==
  LET i     == InsertDPos(list, k)
      delta == k - Before(list)[i - 1]
      rest  == IF i <= Len(list)
               THEN [list EXCEPT ![i].key = @ - delta] ELSE list
  IN  Ext!InsertAt(rest, i, Entry(p, delta))

\* enqueue(item, tail) sets no key: an unordered list's keys mean nothing.
Enqueue(list, p) == Append(list, Entry(p, 0))

\* dequeue(item): unlink wherever it is.
Dequeue(list, p) == Ext!RemoveAt(list, PosOf(list, p))

\* lastkey(tail): the largest key, or the head's own MININT.
LastKey(list) == IF list = EmptyQueue THEN -1 ELSE list[Len(list)].key

\* getlast(tail) removes LastPid(list) and leaves ButLast(list).
LastPid(list) == list[Len(list)].pid
ButLast(list) == SubSeq(list, 1, Len(list) - 1)

\* firstid(head), and what getfirst(head) leaves.
FirstPid(list) == Head(list).pid
ButFirst(list) == Tail(list)
==============================================================================
