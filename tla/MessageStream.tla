---------------------------- MODULE MessageStream ----------------------------
(***************************************************************************)
(* How a stream of bytes becomes messages again: the receiving side of a   *)
(* connection (on_alloc, on_read of src/TcpConnection.cpp), the buffer it  *)
(* reads into (IOBuf), and on_recv and parse of src/RpcChannel.cpp, which  *)
(* cut the buffer's contents into messages.                                *)
(*                                                                         *)
(* The peer sends whole messages; the network and the buffer cut their     *)
(* bytes anywhere.  A byte is the pair of the message it belongs to and    *)
(* its place in it.  Of a message only the length matters, which its       *)
(* header gives: the bytes of a header are those with places 1 to          *)
(* HeaderLen.  All happens in the loop's thread.  Of libuv the module      *)
(* keeps the loop that reads from a socket until it is empty.              *)
(*                                                                         *)
(* The variable buf of IOBuf is the connection's recv_buf_ here; the       *)
(* functions of IOBuf are used in the steps below, its behaviours are not. *)
(***************************************************************************)
EXTENDS IOBuf

CONSTANTS
  HeaderLen,      \* sizeof(HeaderPacket)
  Lengths,        \* the lengths of messages: header, meta data and body
  MaxMessages,    \* bound: messages on a connection
  MaxConns        \* bound: how often the connection is established

\* pack_len is a uint16_t: longer messages do not occur.  A cell of the buffer
\* holds a byte of any of them.
ASSUME StreamAssumption ==
  /\ HeaderLen \in Nat \ {0}
  /\ Lengths \subseteq HeaderLen + 1 .. 65535
  /\ MaxMessages \in Nat \ {0} /\ MaxConns \in Nat
  /\ \A m \in 1 .. MaxMessages, n \in Lengths : \A i \in 1 .. n : <<m, i>> \in Byte

VARIABLES
  conn,           \* "up" (connected_), "closing" (on_close is to come), "down"
  at,             \* the loop's thread: "poll", "again" (libuv's read loop), "parse"
  full,           \* did the last read fill the space it was given?
  wire,           \* the bytes sent and not yet received
  sent,           \* the lengths of the messages sent on this connection
  processed,      \* how many of them have been processed
  conns,          \* counter for the bound
  why,            \* history: what the last stop of the connection was for
  stale           \* history: bytes of an earlier connection came first

peerVars == <<wire, sent>>
streamVars ==
  <<conn, buf, at, full, peerVars, processed, conns, why, garbled, stale>>

readable == readable_bytes(buf)

\* Are the bytes in the buffer those the peer has sent on this connection?
InStep == ~garbled /\ ~stale

StreamInit ==
  /\ conn = "up" /\ conns = 1
  /\ buf = NewBuffer(initialSize)
  /\ at = "poll" /\ full = FALSE
  /\ wire = <<>> /\ sent = <<>> /\ processed = 0
  /\ why = "none" /\ garbled = FALSE /\ stale = FALSE

-----------------------------------------------------------------------------
(* The peer, and the ways to stop.                                         *)

Message(m, n) == [i \in 1 .. n |-> <<m, i>>]

\* Bound: of a connection that is out of step only the first message is sent.
Limit == IF InStep THEN MaxMessages ELSE 1

\* send_packet: header, meta data and body in one buffer.
send_packet ==
  /\ conn = "up"
  /\ Len(sent) < Limit
  /\ \E n \in Lengths :
       /\ sent' = Append(sent, n)
       /\ wire' = wire \o Message(Len(sent) + 1, n)
  /\ UNCHANGED <<conn, buf, at, full, processed, conns, why, garbled, stale>>

\* TcpConnection::on_stop; what has not been received is lost.
on_stop(reason) ==
  /\ conn' = "closing"
  /\ why' = reason
  /\ wire' = <<>>
  /\ UNCHANGED <<sent, conns, stale>>

\* stop(), called by the application, or the end of the stream.
Stop ==
  /\ conn = "up"
  /\ at = "poll"
  /\ on_stop("asked")
  /\ UNCHANGED <<buf, at, full, processed, garbled>>

\* on_close keeps recv_buf_.
on_close ==
  /\ conn = "closing"
  /\ at = "poll"
  /\ conn' = "down"
  /\ UNCHANGED <<buf, at, full, peerVars, processed, conns, why, garbled, stale>>

\* The client starts the same connection again.
on_connect ==
  /\ conn = "down"
  /\ conns < MaxConns
  /\ conn' = "up"
  /\ conns' = conns + 1
  /\ sent' = <<>> /\ processed' = 0
  /\ why' = "none"
  /\ stale' = (readable > 0)
  /\ UNCHANGED <<buf, at, full, wire, garbled>>

-----------------------------------------------------------------------------
(* One turn of libuv's read loop: on_alloc, the read, on_read.             *)

reserve_nothing == buf     \* mutant
reserve == ensure_writable(buf, initialSize)

\* on_alloc, which ignores what ensure_writable returns.  (Bound: nothing more
\* is read into a buffer that a copy has garbled.)
on_alloc ==
  /\ conn = "up"
  /\ ~garbled
  /\ at = "again" \/ (at = "poll" /\ wire # <<>>)
  /\ garbled' \in Garbles(buf, initialSize, garbled)

space == writable_bytes(reserve)

\* Some bytes have arrived: has_written, then on_recv.
on_read ==
  /\ on_alloc
  /\ \E n \in 1 .. Len(wire) :
       /\ n <= space
       /\ buf' = put(reserve, SubSeq(wire, 1, n))
       /\ wire' = SubSeq(wire, n + 1, Len(wire))
       /\ full' = (n = space)
  /\ at' = "parse"
  /\ UNCHANGED <<conn, sent, processed, conns, why, stale>>

\* nread <= 0 is taken for an error: libuv has found no space (UV_ENOBUFS), or
\* it has asked again after a read that filled the space, and nothing more had
\* arrived (nread = 0).
on_read_failed ==
  /\ on_alloc
  /\ IF space = 0 THEN on_stop("space") ELSE at = "again" /\ on_stop("idle")
  /\ buf' = reserve
  /\ at' = "poll"
  /\ UNCHANGED <<full, processed>>

-----------------------------------------------------------------------------
(* on_recv: the loop over parse.                                           *)

\* The length that the header in front gives.
pack_len == sent[Head(Readable(buf))[1]]

\* Mutants: the last byte of a message is not waited for, or one too many is.
CompleteEarly == readable >= pack_len - 1
CompleteLate == readable > pack_len
Complete == readable >= pack_len

\* What parse may return.  In front of bytes that are not the peer's messages
\* any header may be found.
parse ==
  IF readable < HeaderLen THEN {0}
  ELSE IF ~InStep THEN -1 .. readable
  ELSE IF Head(Readable(buf))[2] # 1 THEN {-1}
  ELSE IF Complete THEN {pack_len}
  ELSE {0}

\* A message is processed; the application may stop the connection, which does
\* not end the loop.
on_recv_message ==
  /\ at = "parse"
  /\ \E ret \in parse :
       ret > 0 /\ buf' = has_readed(buf, ret)
  /\ processed' = processed + 1
  /\ \/ UNCHANGED <<conn, why, peerVars, conns, stale>>
     \/ conn = "up" /\ on_stop("asked")
  /\ UNCHANGED <<at, full, garbled>>

\* The loop ends, with an error in the header or to receive more; libuv goes
\* on reading if the space had been filled.
on_recv_ends ==
  /\ at = "parse"
  /\ \/ 0 \in parse /\ UNCHANGED <<conn, why, peerVars, conns, stale>>
     \/ /\ -1 \in parse
        /\ IF conn = "up" THEN on_stop("header")
                          ELSE UNCHANGED <<conn, why, peerVars, conns, stale>>
  /\ at' = IF conn' = "up" /\ full THEN "again" ELSE "poll"
  /\ UNCHANGED <<buf, full, processed, garbled>>

-----------------------------------------------------------------------------

LoopStep == on_read \/ on_recv_message \/ on_recv_ends

StreamNext ==
  \/ LoopStep \/ on_read_failed
  \/ send_packet \/ Stop \/ on_close \/ on_connect

StreamSpec == StreamInit /\ [][StreamNext]_streamVars

\* The network delivers what was sent, and the loop's thread runs.
FairSpec == StreamSpec /\ WF_streamVars(LoopStep)

-----------------------------------------------------------------------------
(* Properties.                                                             *)

\* The bytes in the buffer and on their way, in the order on_recv meets them.
Unread == Readable(buf) \o wire

\* The byte that the peer sends after b.
Following(b) == IF b[2] < sent[b[1]] THEN <<b[1], b[2] + 1>> ELSE <<b[1] + 1, 1>>

\* However the stream is cut and the buffer moved, what is in the buffer and on
\* its way is exactly what the peer has sent and on_recv has not processed: it
\* begins with the first message not processed, no byte is missing, doubled or
\* misplaced, and while the connection lasts it ends with the last byte sent
\* (on_read, on_recv, parse, IOBuf).
InSync ==
  InStep =>
    /\ \A k \in DOMAIN Unread : Unread[k][1] \in DOMAIN sent
    /\ Unread # <<>> => Unread[1] = <<processed + 1, 1>>
    /\ \A k \in 1 .. Len(Unread) - 1 : Unread[k + 1] = Following(Unread[k])
    /\ conn = "up" =>
         IF Unread = <<>> THEN processed = Len(sent)
                          ELSE Following(Unread[Len(Unread)]) = <<Len(sent) + 1, 1>>

\* A peer that sends proper messages is never disconnected for a wrong header,
\* nor for lack of space unless it sends a message that leaves no room for
\* another block of the buffer (on_alloc, ensure_writable, on_recv).
NoFalseStop ==
  InStep =>
    /\ why # "header"
    /\ why = "space" =>
         \E m \in DOMAIN sent : sent[m] > MaxSize - initialSize + 1

\* on_recv: "0 == ret, exit loop to continue recv data".  A connection is not
\* stopped because it has received all there was.
ContinuesToReceive == why # "idle"

\* A message that has been sent is processed, unless the connection is stopped
\* (on_read, on_recv).
MessageIsProcessed ==
  \A m \in 1 .. MaxMessages :
    (conn = "up" /\ Len(sent) >= m) ~> (processed >= m \/ conn # "up" \/ ~InStep)

=============================================================================
