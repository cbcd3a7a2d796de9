------------------------------- MODULE XinuTty -------------------------------
(***************************************************************************)
(* A terminal on a serial line (OS_Projects/Locks/tty, OS_Projects/Locks/  *)
(* com).  Processes write and read; the UART interrupts, and the handler   *)
(* runs in the process it has interrupted.  What is typed is echoed by     *)
(* that process through the same ring and the same semaphore as any other  *)
(* output, so that it may have to wait there in the middle of the handler. *)
(*                                                                         *)
(* A step goes from one point where the processor may change hands to the  *)
(* next.  Priorities are left out: at such a point any process that is     *)
(* ready may go on, but the null process only when no other one is.        *)
(***************************************************************************)
EXTENDS XinuCom, FiniteSets

CONSTANTS Procs,        \* the processes, without the null process
          NULLPROC,     \* the process that runs when no other one is ready
          NOBODY,       \* no process is inside the driver
          IBLEN,        \* size of the input buffer
          Keys,         \* what may be typed
          ReadLens,     \* numbers of characters asked of ttyread
          MaxKeys,      \* bounds, for model checking, on the keys typed
          MaxPuts       \* and on the characters that processes write

ASSUME TtyAssumption == /\ IsFiniteSet(Procs)
                        /\ NULLPROC \notin Procs
                        /\ NOBODY \notin Procs \cup {NULLPROC}
                        /\ IBLEN \in Nat \ {0}
                        /\ ReadLens \subseteq Nat
                        /\ MaxKeys \in Nat /\ MaxPuts \in Nat

Actors == Procs \cup {NULLPROC}

VARIABLES com,        \* the ring and the UART
          osema,      \* com_osema: room in the ring
          isema,      \* tty_isema: "1/0 semaphore for tty input"
          tty,        \* tty_in, tty_istart, tty_icount, TIF_EOF, and the
                      \* static lastc of ttyiin: whether it was "\r"
          user,       \* user[p]: where p is in ttyread or ttycntl
          call,       \* call[p]: its ttyputc, or the handler that runs in it
          running,    \* the process inside the driver with interrupts
                      \* disabled, or NOBODY
          keys, puts  \* how many keys were typed, characters written

lineVars  == <<com, osema>>
inputVars == <<tty, isema>>
bounds    == <<keys, puts>>
vars      == <<com, osema, isema, tty, user, call, running, keys, puts>>

----------------------------------------------------------------------------
(***************************************************************************)
(* The characters of the buffer, told apart as far as the driver does: end *)
(* of line, end of file, the three kinds of delword, and what the buffer   *)
(* holds before anything is typed.  Output is "x" or "nl".                 *)
(***************************************************************************)
Chars == {"nul", "nl", "eof", "word", "space", "slash"}

ASSUME KeyAssumption ==
  Keys \subseteq Chars \cup {"cr", "erase", "werase", "reprint"}

Kind(ch) == CASE ch = "space" -> 0 [] ch = "slash" -> 2 [] OTHER -> 1

\* echo: control characters are shown as two.
Echo(ch) == CASE ch = "nl" -> <<"nl">>
              [] ch \in {"nul", "eof", "reprint"} -> <<"x", "x">>
              [] OTHER -> <<"x">>

\* RUBOUT, for each character that stands on the screen.
Rubout(ch) ==
  IF ch \in {"nul", "eof"} THEN <<"x", "x", "x", "x", "x", "x">>
                           ELSE <<"x", "x", "x">>

InSlots == 0 .. IBLEN - 1

InWrap(n) == IF n >= IBLEN THEN n - IBLEN ELSE n

\* n slots before pos.
Back(pos, n) == IF pos >= n THEN pos - n ELSE pos - n + IBLEN

LastPos(t) == InWrap(t.start + t.count - 1)

\* Faulty variant: a line that has been ended can be erased.
CanErase_AnyLine(t) == t.count > 0

CanErase(t) == t.count > 0 /\ t.in[LastPos(t)] # "nl"

\* delchar: what becomes of the buffer, and what it shows.
Erased(t)    == IF CanErase(t) THEN [t EXCEPT !.count = @ - 1] ELSE t
RubsOut(t)   == IF CanErase(t) THEN Rubout(t.in[LastPos(t)]) ELSE <<>>

\* iputchar: what becomes of the buffer, and what it shows.
HasRoom(t)   == t.count < IBLEN
Kept(t, ch)  == IF HasRoom(t)
                THEN [t EXCEPT !.in[InWrap(t.start + t.count)] = ch,
                               !.count = @ + 1]
                ELSE t
Shows(t, ch) == IF HasRoom(t) THEN Echo(ch) ELSE <<"x">>

----------------------------------------------------------------------------
(***************************************************************************)
(* A call: the characters that it still has to put, where it is with the   *)
(* first of them, and what follows the last one.                           *)
(*   "wait"  before the first wait of computc                              *)
(*   "put"   after it: it has, or waits for, one slot                      *)
(*   "nl"    after the second wait, with the position found before it      *)
(*   "next"  all characters are put                                        *)
(***************************************************************************)
Then(k, pos, n) == [k |-> k, pos |-> pos, n |-> n]
Return          == Then("return", 0, 0)

Idle == [at |-> "idle", todo |-> <<>>, pos |-> 0, then |-> Return]

Call(todo, then) ==
  IF todo = <<>> /\ then = Return
  THEN Idle
  ELSE [at   |-> IF todo = <<>> THEN "next" ELSE "wait",
        todo |-> todo, pos |-> 0, then |-> then]

In(label, n) == [at |-> label, len |-> n]
AtUser       == In("user", 0)

TtyInit ==
  /\ com     = ComIdle
  /\ osema   = Semaphore(COMBUFSZ)
  /\ isema   = Semaphore(0)
  /\ tty     = [in |-> [s \in InSlots |-> "nul"], start |-> 0, count |-> 0,
                eof |-> FALSE, cr |-> FALSE]
  /\ user    = [p \in Procs |-> AtUser]
  /\ call    = [p \in Actors |-> Idle]
  /\ running = NOBODY
  /\ keys    = 0
  /\ puts    = 0

----------------------------------------------------------------------------
(* Who may run.                                                            *)

Blocked(p) == p \in WaitingFor(osema) \cup WaitingFor(isema)

\* The null process waits: there is nobody left for resched to turn to.
Down == NULLPROC \in WaitingFor(osema)

InCall(p) == call[p] # Idle

\* Ready for certain; a process at "user" may also be asleep.
Ready(p) == ~Blocked(p) /\ (InCall(p) \/ user[p] # AtUser)

MayRun(p) == /\ ~Down
             /\ ~Blocked(p)
             /\ \/ running = p
                \/ running = NOBODY /\ (p = NULLPROC => \A q \in Procs : ~Ready(q))

\* p runs outside the driver, with interrupts enabled.
Outside(p) == /\ running = NOBODY
              /\ MayRun(p)
              /\ ~InCall(p)
              /\ p \in Procs => user[p].at \in {"user", "eof", "rwait"}

(***************************************************************************)
(* p goes on with its call c, the semaphore being s.  If there is another  *)
(* character to put, it waits for room at once, unless it has lost the     *)
(* processor to somebody it has woken.                                     *)
(***************************************************************************)
GoesOn(p, c, s, woken) ==
  LET waits == c.at = "wait" /\ ~woken
  IN  /\ call'    = [call EXCEPT ![p] = IF waits THEN [c EXCEPT !.at = "put"] ELSE c]
      /\ osema'   = IF waits THEN Waited(s, p) ELSE s
      /\ running' = IF c = Idle \/ woken \/ (waits /\ s.cnt <= 0)
                    THEN NOBODY ELSE p

----------------------------------------------------------------------------
(* computc.                                                                *)

\* ttyputc(c), called by process p.
Ttyputc(p, c) ==
  /\ p \in Procs
  /\ Outside(p)
  /\ user[p] = AtUser
  /\ puts < MaxPuts
  /\ puts' = puts + 1
  /\ GoesOn(p, Call(<<c>>, Return), osema, FALSE)
  /\ UNCHANGED <<com, inputVars, user, keys>>

PutWait(p) ==
  /\ MayRun(p)
  /\ call[p].at = "wait"
  /\ GoesOn(p, call[p], osema, FALSE)
  /\ UNCHANGED <<com, inputVars, user, bounds>>

\* Faulty variant: "\r\n" is put with the room of one character.
PutNewline_OneSlot(p) ==
  /\ MayRun(p)
  /\ call[p].at = "put"
  /\ Head(call[p].todo) = "nl"
  /\ GoesOn(p, [call[p] EXCEPT !.at = "nl", !.pos = ComPos(com)], osema, FALSE)
  /\ UNCHANGED <<com, inputVars, user, bounds>>

\* pos is computed, and then the second slot is waited for.
PutNewline(p) ==
  /\ MayRun(p)
  /\ call[p].at = "put"
  /\ Head(call[p].todo) = "nl"
  /\ GoesOn(p, [call[p] EXCEPT !.at = "nl", !.pos = ComPos(com)],
            Waited(osema, p), osema.cnt <= 0)
  /\ UNCHANGED <<com, inputVars, user, bounds>>

\* The character is in the ring c; the transmitter is started, and then the
\* caller goes on to its next character.
PutEnds(p, c) ==
  /\ com'   = Started(c)
  /\ GoesOn(p, Call(Tail(call[p].todo), call[p].then),
            IF c.thre THEN Signalled(osema) ELSE osema,
            c.thre /\ osema.cnt < 0)
  /\ UNCHANGED <<inputVars, user, bounds>>

PutChar(p) ==
  /\ MayRun(p)
  /\ call[p].at = "put"
  /\ Head(call[p].todo) # "nl"
  /\ PutEnds(p, Stored(com, ComPos(com)))

PutPair(p) ==
  /\ MayRun(p)
  /\ call[p].at = "nl"
  /\ PutEnds(p, StoredPair(com, call[p].pos))

----------------------------------------------------------------------------
(***************************************************************************)
(* The UART, and comintr for "transmitter holding register empty".  The    *)
(* process that is interrupted has nothing to do here but to call signal.  *)
(***************************************************************************)
TxDone ==
  /\ ~Down
  /\ ~com.thre
  /\ com' = [com EXCEPT !.thre = TRUE]
  /\ UNCHANGED <<osema, inputVars, user, call, running, bounds>>

TxInterrupt ==
  /\ \E p \in Actors : Outside(p)
  /\ com.ier /\ com.thre
  /\ com.count > 0
  /\ com'   = Wstrt(com)
  /\ osema' = Signalled(osema)
  /\ UNCHANGED <<inputVars, user, call, running, bounds>>

----------------------------------------------------------------------------
(***************************************************************************)
(* comintr for "received a char", comiin and ttyiin, up to the first       *)
(* character of the echo.  "\n" after "\r" is nothing, and "\r" is "\n".   *)
(***************************************************************************)
\* delword: the first character goes, and the loop continues from its place.
EraseWord(t) ==
  IF t.count = 0
  THEN [tty |-> t, call |-> Idle]
  ELSE [tty  |-> Erased(t),
        call |-> Call(RubsOut(t),
                      Then("word", LastPos(t), Kind(t.in[LastPos(t)])))]

(***************************************************************************)
(* reprint goes back from one slot past the end to a "\n", or over as many *)
(* characters as there are, and then shows as many.  The slot IBLEN is the *)
(* padding after tty_in, which holds 0.                                    *)
(***************************************************************************)
Reprint(t) ==
  LET end     == IF t.start + t.count > IBLEN THEN t.start + t.count - IBLEN
                                              ELSE t.start + t.count
      At(pos) == IF pos = IBLEN THEN "nul" ELSE t.in[pos]
      n       == Cardinality({ k \in 1 .. t.count :
                                \A j \in 0 .. k - 1 : At(Back(end, j)) # "nl" })
      pos     == Back(end, n)
      first   == IF At(pos) = "nl" THEN InWrap(pos + 1) ELSE pos
  IN  [tty |-> t, call |-> Call(Echo("reprint") \o Echo("nl"),
                                Then("reprint", first, n))]

\* iputchar, and whether the end of the line is to be signalled.
TypeIn(t, ch) ==
  [tty  |-> [Kept(t, ch) EXCEPT !.eof = @ \/ ch = "eof"],
   call |-> Call(Shows(t, ch),
                 IF ch \in {"nl", "eof"} THEN Then("eol", 0, 0) ELSE Return)]

Ttyiin(t, ch) == CASE ch = "erase"   -> [tty  |-> Erased(t),
                                         call |-> Call(RubsOut(t), Return)]
                   [] ch = "werase"  -> EraseWord(t)
                   [] ch = "reprint" -> Reprint(t)
                   [] OTHER          -> TypeIn(t, ch)

RxInterrupt(p, key) ==
  LET in == Ttyiin([tty EXCEPT !.cr = key = "cr"],
                   IF key = "cr" THEN "nl" ELSE key)
  IN  /\ Outside(p)
      /\ keys < MaxKeys
      /\ keys' = keys + 1
      /\ IF key = "nl" /\ tty.cr
         THEN UNCHANGED <<tty, osema, call, running>>
         ELSE /\ tty' = in.tty
              /\ GoesOn(p, in.call, osema, FALSE)
      /\ UNCHANGED <<com, isema, user, puts>>

\* The last lines of ttyiin: one reader is let through.
LineEnd(p) ==
  /\ MayRun(p)
  /\ call[p].at = "next"
  /\ call[p].then.k = "eol"
  /\ isema' = IF isema.cnt <= 0 THEN Signalled(isema) ELSE isema
  /\ GoesOn(p, Idle, osema, FALSE)
  /\ UNCHANGED <<com, tty, user, bounds>>

\* The loop of delword, after delchar: pos is a local variable.
WordNext(p) ==
  LET then == call[p].then
      pos  == Back(then.pos, 1)
      more == /\ tty.in[pos] # "nl"
              /\ tty.count > 0
              /\ Kind(tty.in[pos]) = then.n
  IN  /\ MayRun(p)
      /\ call[p].at = "next"
      /\ then.k = "word"
      /\ tty' = IF more THEN Erased(tty) ELSE tty
      /\ GoesOn(p, IF more THEN Call(RubsOut(tty), [then EXCEPT !.pos = pos])
                           ELSE Idle, osema, FALSE)
      /\ UNCHANGED <<com, isema, user, bounds>>

\* The last loop of reprint.
ReprintNext(p) ==
  LET then == call[p].then
  IN  /\ MayRun(p)
      /\ call[p].at = "next"
      /\ then.k = "reprint"
      /\ GoesOn(p, IF then.n = 0 THEN Idle
                   ELSE Call(Echo(tty.in[then.pos]),
                             Then("reprint", InWrap(then.pos + 1), then.n - 1)),
                osema, FALSE)
      /\ UNCHANGED <<com, inputVars, user, bounds>>

----------------------------------------------------------------------------
(***************************************************************************)
(* ttyread(len), of which ttygetc is the case len = 1.  The end of file is *)
(* looked for, and taken, with interrupts enabled.                         *)
(***************************************************************************)
Moves(p, l) == user' = [user EXCEPT ![p] = l]

Ttyread(p, n) ==
  /\ Outside(p)
  /\ user[p] = AtUser
  /\ Moves(p, IF tty.eof /\ tty.count = 0 THEN In("eof", 0) ELSE In("rwait", n))
  /\ UNCHANGED <<lineVars, inputVars, call, running, bounds>>

ReadEof(p) ==
  /\ Outside(p)
  /\ user[p].at = "eof"
  /\ tty' = [tty EXCEPT !.eof = FALSE]
  /\ Moves(p, AtUser)
  /\ UNCHANGED <<lineVars, isema, call, running, bounds>>

\* wait(isema), and where the process is once it has been let through.
InputWaits(p, l) ==
  /\ Outside(p)
  /\ isema'   = Waited(isema, p)
  /\ running' = IF isema.cnt <= 0 THEN NOBODY ELSE p
  /\ Moves(p, l)
  /\ UNCHANGED <<lineVars, tty, call, bounds>>

ReadWait(p) ==
  /\ user[p].at = "rwait"
  /\ InputWaits(p, In("take", user[p].len))

\* n characters less, from the start of the buffer.
Taken(t, n) == [t EXCEPT !.start = InWrap(@ + n), !.count = @ - n]

\* As many as there are and as were asked for.
Obtained(t, n) == IF n < t.count THEN n ELSE t.count

ReadTake(p) ==
  /\ MayRun(p)
  /\ user[p].at = "take"
  /\ tty'     = Taken(tty, Obtained(tty, user[p].len))
  /\ running' = NOBODY
  /\ Moves(p, AtUser)
  /\ UNCHANGED <<lineVars, isema, call, bounds>>

\* ttycntl(TTC_NEXTC): the character is looked at, and the semaphore given back.
Peek(p) ==
  /\ user[p] = AtUser
  /\ InputWaits(p, In("peek", 0))

PeekSignal(p) ==
  /\ MayRun(p)
  /\ user[p].at = "peek"
  /\ isema'   = Signalled(isema)
  /\ running' = NOBODY
  /\ Moves(p, AtUser)
  /\ UNCHANGED <<lineVars, tty, call, bounds>>

----------------------------------------------------------------------------
\* What p does inside the driver.
Step(p) == \/ PutWait(p)  \/ PutNewline(p) \/ PutChar(p) \/ PutPair(p)
           \/ LineEnd(p)  \/ WordNext(p)   \/ ReprintNext(p)

\* What a process does in a call of its own that it has begun.
Resumes(p) == ReadEof(p) \/ ReadWait(p) \/ ReadTake(p) \/ PeekSignal(p)

Begins(p) == \/ \E c \in {"x", "nl"} : Ttyputc(p, c)
             \/ \E n \in ReadLens : Ttyread(p, n)
             \/ Peek(p)

TtyNext ==
  \/ \E p \in Procs : Begins(p) \/ Resumes(p)
  \/ \E p \in Actors : Step(p) \/ \E key \in Keys : RxInterrupt(p, key)
  \/ TxDone
  \/ TxInterrupt

TtySpec == TtyInit /\ [][TtyNext]_vars

(***************************************************************************)
(* Fairness: the UART sends what it has been given, and interrupts again   *)
(* and again until it is served; a process inside the driver is not kept   *)
(* from the processor for ever (resched goes round processes of one        *)
(* priority, and interrupts are disabled in the middle of a step).         *)
(***************************************************************************)
TtyFair == /\ WF_vars(TxDone)
           /\ SF_vars(TxInterrupt)
           /\ \A p \in Actors : SF_vars(Step(p))
           /\ \A p \in Procs : WF_vars(Resumes(p))

TtyFairSpec == TtySpec /\ TtyFair

----------------------------------------------------------------------------
TtyTypeOK ==
  /\ com \in [buf : [ComSlots -> BOOLEAN], start : ComSlots,
              count : 0 .. COMBUFSZ, ier : BOOLEAN, thre : BOOLEAN]
  /\ osema \in [cnt : Int, q : Seq(Actors)]
  /\ isema \in [cnt : Int, q : Seq(Procs)]
  /\ tty \in [in : [InSlots -> Chars], start : InSlots, count : 0 .. IBLEN,
              eof : BOOLEAN, cr : BOOLEAN]
  /\ user \in [Procs -> [at : {"user", "eof", "rwait", "take", "peek"}, len : Nat]]
  /\ call \in [Actors -> [at   : {"idle", "wait", "put", "nl", "next"},
                          todo : Seq({"x", "nl"}),
                          pos  : 0 .. 2 * COMBUFSZ - 1,
                          then : [k   : {"return", "eol", "word", "reprint"},
                                  pos : InSlots, n : Nat]]]
  /\ running \in Actors \cup {NOBODY}
  /\ keys \in 0 .. MaxKeys /\ puts \in 0 .. MaxPuts

\* The calls that have asked for one slot, and for a second one.
Asked      == { p \in Actors : call[p].at \in {"put", "nl"} }
AskedTwice == { p \in Actors : call[p].at = "nl" }

(***************************************************************************)
(* computc stores its characters without looking at com_count.  The        *)
(* semaphore, what is in the ring, and what has been asked for by calls    *)
(* that have not stored it yet, always make up the size of the ring; and   *)
(* exactly those that were asked for and are not there yet are waited for. *)
(***************************************************************************)
SpaceCounted ==
  /\ com.count + osema.cnt + Cardinality(Asked) + Cardinality(AskedTwice) = COMBUFSZ
  /\ Len(osema.q) = IF osema.cnt < 0 THEN -osema.cnt ELSE 0

\* What has been typed and not read, out of the ring.
Buffered == [k \in 1 .. tty.count |-> tty.in[InWrap(tty.start + k - 1)]]

Line == INSTANCE XinuLine WITH Room <- IBLEN, line <- Buffered

(***************************************************************************)
(* Interrupts, among them those that come while another echo waits, never  *)
(* change a line that has been ended, or what has been typed before; what  *)
(* is read is what was typed first.                                        *)
(***************************************************************************)
LineKept == Line!LineSpec

(***************************************************************************)
(* Whoever waits for room in the ring is let through in the end, unless    *)
(* the null process has come to wait itself.  The ring must be larger than *)
(* the number of those that may want a second slot.                        *)
(***************************************************************************)
WritersGoOn ==
  \A p \in Procs :
     p \in WaitingFor(osema) ~> (p \notin WaitingFor(osema) \/ Down)
==============================================================================
