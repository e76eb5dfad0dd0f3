------------------------------- MODULE MCIOBuf -------------------------------
(* IOBuf on small buffers: blocks of two cells, two values of a cell. *)
EXTENDS IOBuf

=============================================================================
