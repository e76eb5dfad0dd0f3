----------------------------- MODULE ByteQueue -----------------------------
(***************************************************************************)
(* What IOBuf promises to the code that fills and empties it: a queue of   *)
(* bytes.  Bytes are put at the end and taken from the front, and nothing  *)
(* else ever changes them: not the growth of the buffer, nor the moves of  *)
(* what it holds.                                                          *)
(*                                                                         *)
(* Once the queue is spoilt nothing is promised any more: IOBuf spoils it  *)
(* if it copies overlapping memory with a memcpy that does not expect it.  *)
(***************************************************************************)
EXTENDS Naturals, Sequences

VARIABLES
  queue,      \* the bytes, in order
  intact      \* has the promise been kept so far?

vars == <<queue, intact>>

Init == queue = <<>> /\ intact = TRUE

Put ==
  /\ Len(queue') >= Len(queue)
  /\ SubSeq(queue', 1, Len(queue)) = queue
  /\ UNCHANGED intact

Take ==
  /\ \E n \in 1 .. Len(queue) : queue' = SubSeq(queue, n + 1, Len(queue))
  /\ UNCHANGED intact

Spoil == intact' = FALSE

Next == Put \/ Take \/ Spoil

Spec == Init /\ [][Next]_vars

=============================================================================
