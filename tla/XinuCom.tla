------------------------------- MODULE XinuCom -------------------------------
(***************************************************************************)
(* The serial line (OS_Projects/Locks/com) as values: the ring of          *)
(* characters to be sent with the transmitter of the UART, and the         *)
(* semaphore that counts the room in it.  What a slot holds is abstracted  *)
(* to whether it holds a character that has not been sent.                 *)
(***************************************************************************)
EXTENDS Integers, Sequences

CONSTANT COMBUFSZ     \* size of the ring

\* "\r\n" takes two slots.
ASSUME ComAssumption == COMBUFSZ \in Nat \ {0, 1}

ComSlots == 0 .. COMBUFSZ - 1

\* Faulty variant: the end of the ring is noticed one slot too late.
ComWrap_TooLate(n) == IF n > COMBUFSZ THEN n - COMBUFSZ ELSE n

ComWrap(n) == IF n >= COMBUFSZ THEN n - COMBUFSZ ELSE n

(***************************************************************************)
(* ier: the interrupt "transmitter holding register empty" is enabled;     *)
(* thre: the register is empty.                                            *)
(***************************************************************************)
ComIdle == [buf   |-> [s \in ComSlots |-> FALSE],
            start |-> 0,
            count |-> 0,
            ier   |-> FALSE,
            thre  |-> TRUE]

\* Where computc puts the next character, before it wraps.
ComPos(c) == c.start + c.count

\* One character to slot pos; and "\r\n" from slot pos on.
Stored(c, pos) == [c EXCEPT !.buf[ComWrap(pos)] = TRUE, !.count = @ + 1]

StoredPair(c, pos) ==
  [c EXCEPT !.buf   = [@ EXCEPT ![ComWrap(pos)] = TRUE,
                                ![ComWrap(ComWrap(pos) + 1)] = TRUE],
            !.count = @ + 2]

\* Faulty variant: the interrupt is disabled when one character is left.
Wstrt_StopsEarly(c) ==
  [c EXCEPT !.buf[c.start] = FALSE,
            !.start = ComWrap(@ + 1),
            !.count = @ - 1,
            !.ier   = @ /\ c.count > 2,
            !.thre  = FALSE]

\* comwstrt: one character to the UART; its caller then signals the semaphore.
Wstrt(c) ==
  [c EXCEPT !.buf[c.start] = FALSE,
            !.start = ComWrap(@ + 1),
            !.count = @ - 1,
            !.ier   = @ /\ c.count # 1,
            !.thre  = FALSE]

\* The end of computc: enable the interrupt, and start an idle transmitter.
Started(c) ==
  IF c.thre THEN Wstrt([c EXCEPT !.ier = TRUE]) ELSE [c EXCEPT !.ier = TRUE]

----------------------------------------------------------------------------
(* A semaphore as a value: its count and its queue (wait.c, signal.c).     *)

Semaphore(n) == [cnt |-> n, q |-> <<>>]

Waited(s, p) == [cnt |-> s.cnt - 1,
                 q   |-> IF s.cnt <= 0 THEN Append(s.q, p) ELSE s.q]

Signalled(s) == [cnt |-> s.cnt + 1,
                 q   |-> IF s.cnt < 0 THEN Tail(s.q) ELSE s.q]

WaitingFor(s) == { s.q[k] : k \in 1 .. Len(s.q) }
==============================================================================
