---------------------------- MODULE MCIOScheduler ----------------------------
(* IOScheduler with two application threads, two tasks and two calls of    *)
(* stop().                                                                 *)
EXTENDS IOScheduler

CONSTANTS u1, u2, t1, t2, s1, s2
=============================================================================
