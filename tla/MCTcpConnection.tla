--------------------------- MODULE MCTcpConnection ---------------------------
(* TcpConnection with two application threads.                             *)
EXTENDS TcpConnection

CONSTANTS u1, u2
=============================================================================
