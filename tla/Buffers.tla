------------------------------ MODULE Buffers -------------------------------
(***************************************************************************)
(* What read() gives fillBuffer (pop3/pop3.c), and what its callers make   *)
(* of the count.                                                           *)
(***************************************************************************)
EXTENDS Naturals, Sequences

(* read(): at most room elements of a stream; over is what an empty one    *)
(* gives.  A full buffer reads zero bytes, as the end of the stream does.  *)
ReadBeyond(stream, room, over) ==            \* Mutant: one more than there is room for
  LET n == IF Len(stream) <= room THEN Len(stream) ELSE room + 1
  IN  [got   |-> SubSeq(stream, 1, n),
       left  |-> SubSeq(stream, n + 1, Len(stream)),
       count |-> IF n > 0 THEN "data" ELSE over]
Read(stream, room, over) ==
  LET n == IF Len(stream) <= room THEN Len(stream) ELSE room
  IN  [got   |-> SubSeq(stream, 1, n),
       left  |-> SubSeq(stream, n + 1, Len(stream)),
       count |-> IF n > 0 THEN "data" ELSE IF room = 0 THEN "eof" ELSE over]

CheckEOFErrors(count) == count = "error"     \* Mutant: count == 0 is forgotten
CheckEOF(count) == count \in {"eof", "error"}
=============================================================================
