------------------------------ MODULE XinuTimers ------------------------------
(***************************************************************************)
(* What the clock promises a process that calls sleep or recvtim, with no  *)
(* delta list and no cached head: every process that waits on the clock    *)
(* has its own countdown, one clock tick shortens them all, a process is   *)
(* woken when its countdown is over, and no tick passes while one is due.  *)
(* XinuKernel implements this specification (MCKernel).                    *)
(***************************************************************************)
EXTENDS Integers

CONSTANTS Procs,      \* the processes
          Times       \* the waiting times asked for, in ticks, none of them 0

VARIABLES mode,       \* mode[p]: "asleep", "timing" (recvtim), "awake", "dead"
          left,       \* left[p]: ticks left, for a process on the clock
          has         \* has[p]: p holds a message

timerVars == <<mode, left, has>>

OnClock(p) == mode[p] \in {"asleep", "timing"}

TimerInit ==
  /\ mode \in [Procs -> {"awake", "dead"}]
  /\ left = [p \in Procs |-> 0]
  /\ has = [p \in Procs |-> FALSE]

\* sleep1000(n) or recvtim(n), n > 0, with no message to take.
Start(p, m, n) ==
  /\ mode[p] = "awake"
  /\ m = "timing" => ~has[p]
  /\ mode' = [mode EXCEPT ![p] = m]
  /\ left' = [left EXCEPT ![p] = n]
  /\ UNCHANGED has

\* One tick for everybody, and none is lost.
TimerTick ==
  /\ \A p \in Procs : OnClock(p) => left[p] > 0
  /\ left' = [p \in Procs |-> IF OnClock(p) THEN left[p] - 1 ELSE 0]
  /\ UNCHANGED <<mode, has>>

\* A countdown that is over.
Fire(p) ==
  /\ OnClock(p)
  /\ left[p] = 0
  /\ mode' = [mode EXCEPT ![p] = "awake"]
  /\ UNCHANGED <<left, has>>

\* The message a timed receive waits for; a sleeper takes no notice of it.
Message(p) ==
  /\ mode[p] # "dead"
  /\ has' = [has EXCEPT ![p] = TRUE]
  /\ IF mode[p] = "timing"
     THEN /\ mode' = [mode EXCEPT ![p] = "awake"]
          /\ left' = [left EXCEPT ![p] = 0]
     ELSE UNCHANGED <<mode, left>>

\* A process is killed, or a slot is used again.
Die(p) ==
  /\ mode' = [mode EXCEPT ![p] = "dead"]
  /\ left' = [left EXCEPT ![p] = 0]
  /\ UNCHANGED has

Born(p) ==
  /\ mode[p] = "dead"
  /\ mode' = [mode EXCEPT ![p] = "awake"]
  /\ has' = [has EXCEPT ![p] = FALSE]
  /\ UNCHANGED left

\* A message is taken by a process that runs.
Take(p) ==
  /\ mode[p] = "awake"
  /\ has' = [has EXCEPT ![p] = FALSE]
  /\ UNCHANGED <<mode, left>>

TimerNext ==
  \/ TimerTick
  \/ \E p \in Procs :
       \/ Fire(p) \/ Message(p) \/ Die(p) \/ Born(p) \/ Take(p)
       \/ \E m \in {"asleep", "timing"}, n \in Times : Start(p, m, n)

TimerSpec == TimerInit /\ [][TimerNext]_timerVars
==============================================================================
