------------------------------- MODULE XinuMsg -------------------------------
(***************************************************************************)
(* Messages (OS_Projects/Locks/sys: send.c, receive.c, recvclr.c,          *)
(* recvtim.c, setnok.c).  Every process has room for one message; sending  *)
(* to a process that still holds one fails.                                *)
(***************************************************************************)
EXTENDS XinuClock

CONSTANTS Msgs,        \* what user processes send
          RecvTicks,   \* waiting times of recvtim, in ticks
          Noks         \* next-of-kin pids asked of setnok

ASSUME MsgAssumption == /\ Msgs \subseteq Nat
                        /\ RecvTicks \subseteq Nat
                        /\ Noks \subseteq Int

BADPID == -1

VARIABLES pmsg,      \* pmsg[p]: the message of p, a word
          phasmsg,   \* phasmsg[p]: pmsg[p] is valid
          pnxtkin    \* pnxtkin[p]: who is told when p dies

msgVars == <<pmsg, phasmsg, pnxtkin>>

MsgInit ==
  /\ pmsg    = [p \in Pids |-> 0]
  /\ phasmsg = [p \in Pids |-> FALSE]
  /\ pnxtkin = [p \in Pids |-> BADPID]

CanSend(p) == p \in UserPids /\ sched.pstate[p] # "PRFREE" /\ ~phasmsg[p]

(***************************************************************************)
(* send(pid, msg), after its checks: store the message and, if the         *)
(* receiver waits for one, take it off the clock and start it.             *)
(***************************************************************************)
Deliver(p, m) ==
  /\ pmsg'    = [pmsg EXCEPT ![p] = m]
  /\ phasmsg' = [phasmsg EXCEPT ![p] = TRUE]
  /\ sched'   = IF sched.pstate[p] \in {"PRRECV", "PRTRECV"}
                THEN ReadyResched(sched, p) ELSE sched
  /\ IF sched.pstate[p] = "PRTRECV" THEN Unsleep(p) ELSE UNCHANGED clkVars

Send(p, m) ==
  /\ Calls
  /\ CanSend(p)
  /\ Deliver(p, m)
  /\ UNCHANGED <<numproc, nextproc, pbase, stkfree, cont, pnxtkin>>

\* Take the message of the current process.
TakeMsg == phasmsg' = [phasmsg EXCEPT ![current] = FALSE]

(***************************************************************************)
(* receive().  With no message the process waits, and takes the message    *)
(* when it runs again, without looking at phasmsg a second time.           *)
(***************************************************************************)
Receive ==
  /\ Calls
  /\ IF phasmsg[current]
     THEN TakeMsg /\ UNCHANGED <<sched, cont>>
     ELSE /\ Goto(K("receive"))
          /\ sched' = Block(sched, "PRRECV")
          /\ UNCHANGED phasmsg
  /\ UNCHANGED <<numproc, nextproc, pbase, stkfree, clkVars, pmsg, pnxtkin>>

ReceiveEnd ==
  /\ In("receive")
  /\ TakeMsg
  /\ ToUser
  /\ UNCHANGED <<sched, numproc, nextproc, pbase, stkfree, clkVars, pmsg,
                 pnxtkin>>

\* recvclr()
Recvclr ==
  /\ Calls
  /\ TakeMsg
  /\ UNCHANGED <<procVars, clkVars, pmsg, pnxtkin>>

(***************************************************************************)
(* recvtim(maxwait): as receive, but on the clock as well.  A process that *)
(* runs again without a message has timed out.                             *)
(***************************************************************************)
Recvtim(w) ==
  /\ Calls
  /\ IF phasmsg[current]
     THEN TakeMsg /\ UNCHANGED <<sched, cont, clkVars>>
     ELSE /\ EnterClockq(current, w)
          /\ Goto(K("recvtim"))
          /\ sched' = Block(sched, "PRTRECV")
          /\ UNCHANGED phasmsg
  /\ UNCHANGED <<numproc, nextproc, pbase, stkfree, pmsg, pnxtkin>>

RecvtimEnd ==
  /\ In("recvtim")
  /\ TakeMsg
  /\ ToUser
  /\ UNCHANGED <<sched, numproc, nextproc, pbase, stkfree, clkVars, pmsg,
                 pnxtkin>>

\* setnok(nok, pid), which does not ask whether the slot is in use.
Setnok(nok, p) ==
  /\ Calls
  /\ pnxtkin' = [pnxtkin EXCEPT ![p] = nok]
  /\ UNCHANGED <<procVars, clkVars, pmsg, phasmsg>>

MsgNext ==
  \/ \E p \in UserPids, m \in Msgs : Send(p, m)
  \/ Receive \/ ReceiveEnd
  \/ Recvclr
  \/ \E w \in RecvTicks : Recvtim(w)
  \/ RecvtimEnd
  \/ \E p \in UserPids, nok \in Noks : Setnok(nok, p)

----------------------------------------------------------------------------
(* Invariants.                                                             *)

MsgTypeOK ==
  /\ pmsg \in [Pids -> Int]
  /\ phasmsg \in [Pids -> BOOLEAN]
  /\ pnxtkin \in [Pids -> Int]

(***************************************************************************)
(* send.c starts a receiver and receive.c does not look again: nobody      *)
(* waits for a message it already has, and a process that comes back from  *)
(* the wait inside receive() has one, whoever suspended it, resumed it or  *)
(* changed its priority on the way.                                        *)
(***************************************************************************)
NoLostMessage ==
  \A p \in Pids :
     /\ sched.pstate[p] \in {"PRRECV", "PRTRECV"} => ~phasmsg[p]
     /\ cont[p].op = "receive" /\ sched.pstate[p] # "PRRECV" => phasmsg[p]
==============================================================================
