---------------------------- MODULE MCLoopHandle ----------------------------
(* LoopHandle with two application threads.                                *)
EXTENDS LoopHandle

CONSTANTS u1, u2
=============================================================================
