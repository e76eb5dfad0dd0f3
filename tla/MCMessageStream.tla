--------------------------- MODULE MCMessageStream ---------------------------
(* MessageStream with small blocks. *)
EXTENDS MessageStream

\* The bytes of the messages, and the one that fills new cells.
MCZero == <<0, 0>>
MCByte == (0 .. MaxMessages) \X (0 .. 8)

=============================================================================
