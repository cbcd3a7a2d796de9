------------------------------ MODULE XinuLine -------------------------------
(***************************************************************************)
(* What a terminal promises of its input: what is typed and not erased is  *)
(* read once and in order, and a line that has been ended stays as it is.  *)
(***************************************************************************)
EXTENDS Naturals, Sequences

CONSTANTS Chars,     \* the characters that may be typed, "nl" among them
          Room       \* how many the terminal keeps

VARIABLE line        \* typed, and neither erased nor read

LineInit == line = <<>>

Type(c) == /\ Len(line) < Room
           /\ line' = Append(line, c)

\* The last character of a line that has not been ended is taken back.
Erase == /\ line # <<>>
         /\ line[Len(line)] # "nl"
         /\ line' = SubSeq(line, 1, Len(line) - 1)

Read(n) == line' = SubSeq(line, n + 1, Len(line))

LineNext == \/ \E c \in Chars : Type(c)
            \/ Erase
            \/ \E n \in 1 .. Len(line) : Read(n)

LineSpec == LineInit /\ [][LineNext]_line
==============================================================================
