-------------------------------- MODULE MCTty --------------------------------
(***************************************************************************)
(* The terminal for TLC, and a statement that the code does not keep.      *)
(***************************************************************************)
EXTENDS XinuTty, TLC

CONSTANTS p1, p2

TwoProcs == {p1, p2}

Interchangeable == Permutations(Procs)

(***************************************************************************)
(* comoutput.c:12, "write one character": what has been stored stays in    *)
(* the ring until it is sent.  For "\r\n" computc finds its position and   *)
(* then waits for a second slot; meanwhile another process stores there.   *)
(***************************************************************************)
OutputKept ==
  \A k \in 0 .. com.count - 1 : com.buf[ComWrap(com.start + k)]
==============================================================================
