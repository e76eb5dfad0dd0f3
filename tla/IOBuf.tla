-------------------------------- MODULE IOBuf --------------------------------
(***************************************************************************)
(* The buffer of src/IOBuf.cpp: a vector of bytes with a read index and a  *)
(* write index.  The bytes between them are readable, those behind the     *)
(* write index writable; what is before the read index is free as well,    *)
(* but only after the readable bytes have been moved to the front.         *)
(*                                                                         *)
(* The functions of the class are operators on a buffer b, a record of its *)
(* members.  An operator gives the buffer afterwards; whether the function *)
(* succeeds is an operator of its own, named after it.  Lengths are        *)
(* counted in cells of any size, initialSize being that of a new buffer.   *)
(***************************************************************************)
EXTENDS Integers, Sequences

CONSTANTS
  Byte,           \* the values of a cell
  Zero,           \* the value of a cell that resize adds
  initialSize,    \* IOBuf::initialSize
  InitSizes,      \* the sizes buffers are created with
  MaxRequest      \* bound: the most bytes written or asked for at once

ASSUME BufferAssumption ==
  /\ Zero \in Byte
  /\ initialSize \in Nat \ {0}
  /\ InitSizes \subseteq Nat \ {0}
  /\ MaxRequest \in Nat

VARIABLES
  buf,            \* a buffer
  garbled         \* history: may a copy have destroyed bytes of it?

vars == <<buf, garbled>>

MaxSize == 4 * initialSize     \* _Max_Size

Buffer == [buff_ : Seq(Byte), read_index_ : Nat, write_index_ : Nat]

\* IOBuf(init).
NewBuffer(init) ==
  [buff_ |-> [i \in 1 .. init |-> Zero], read_index_ |-> 0, write_index_ |-> 0]

readable_bytes(b) == b.write_index_ - b.read_index_
writable_bytes(b) == Len(b.buff_) - b.write_index_

\* The bytes the user of the buffer has not read yet.
Readable(b) == SubSeq(b.buff_, b.read_index_ + 1, b.write_index_)

-----------------------------------------------------------------------------
(* Reading.                                                                *)

has_readed_ok(b, n) == n <= readable_bytes(b)

has_readed(b, n) == [b EXCEPT !.read_index_ = @ + n]

has_readall(b) == [b EXCEPT !.read_index_ = b.write_index_]

-----------------------------------------------------------------------------
(* Making room.                                                            *)

\* Mutant: the indices move without the bytes.
move_indices(b) ==
  [b EXCEPT !.read_index_ = 0, !.write_index_ = readable_bytes(b)]

\* The readable bytes go to the front; the cells behind them stay as they are.
move_readable_data(b) ==
  IF b.read_index_ = 0
    THEN b
    ELSE [buff_ |-> [i \in 1 .. Len(b.buff_) |->
                       IF i <= readable_bytes(b) THEN b.buff_[b.read_index_ + i]
                                                 ELSE b.buff_[i]],
          read_index_ |-> 0,
          write_index_ |-> readable_bytes(b)]

\* buff_.resize(size), of a buffer that grows.
resize(b, size) ==
  [b EXCEPT !.buff_ = @ \o [i \in 1 .. size - Len(b.buff_) |-> Zero]]

\* make_space computes n - writable - read_index_ + size, which is this.
NewSize(b, n) == n + readable_bytes(b)

RoundDown(n) == initialSize * (n \div initialSize)     \* mutant

\* The next multiple of initialSize.
RoundUp(n) == initialSize * ((n + initialSize - 1) \div initialSize)

make_space_ok(b, n) == NewSize(b, n) <= MaxSize

make_space(b, n) ==
  IF make_space_ok(b, n)
    THEN move_readable_data(resize(b, RoundUp(NewSize(b, n))))
    ELSE b

\* Is the space at both ends too small for n bytes?
NoSpace(b, n) == n > writable_bytes(b) + b.read_index_

ensure_writable_ok(b, n) == NoSpace(b, n) => make_space_ok(b, n)

ensure_writable(b, n) ==
  IF NoSpace(b, n) THEN make_space(b, n)
  ELSE IF n > writable_bytes(b) THEN move_readable_data(b)
  ELSE b

\* move_readable_data uses memcpy, whatever the regions: a memcpy that copies
\* backwards destroys bytes when they overlap.
Overlaps(b, n) ==
  /\ ensure_writable_ok(b, n)
  /\ n > writable_bytes(b)
  /\ b.read_index_ > 0
  /\ readable_bytes(b) > b.read_index_

\* What may become of garbled when ensure_writable(n) is called.
Garbles(b, n, g) == IF Overlaps(b, n) THEN {g, TRUE} ELSE {g}

-----------------------------------------------------------------------------
(* Writing.                                                                *)

\* The user of the buffer stores bytes at begin_write().
store(b, d) ==
  [b EXCEPT !.buff_ = [i \in 1 .. Len(@) |->
     IF i - b.write_index_ \in 1 .. Len(d) THEN d[i - b.write_index_] ELSE @[i]]]

has_written_any(b, n) == n <= Len(b.buff_)     \* mutant
has_written_ok(b, n) == n <= writable_bytes(b)

has_written(b, n) == [b EXCEPT !.write_index_ = @ + n]

\* The bytes d are stored, and has_written(Len(d)) called.
put(b, d) == has_written(store(b, d), Len(d))

write_ok(b, n) == n > 0 /\ ensure_writable_ok(b, n)

write(b, d) == put(ensure_writable(b, Len(d)), d)

-----------------------------------------------------------------------------
(* A buffer and its user.                                                  *)

Init ==
  /\ \E n \in InitSizes : buf = NewBuffer(n)
  /\ garbled = FALSE

Data == UNION {[1 .. n -> Byte] : n \in 1 .. MaxRequest}

Ensure(n) ==
  /\ buf' = ensure_writable(buf, n)
  /\ garbled' \in Garbles(buf, n, garbled)

Write(d) ==
  /\ write_ok(buf, Len(d))
  /\ buf' = write(buf, d)
  /\ garbled' \in Garbles(buf, Len(d), garbled)

\* Bytes stored at begin_write(), as many as has_written accepts.
Fill(d) ==
  /\ has_written_ok(buf, Len(d))
  /\ buf' = put(buf, d)
  /\ UNCHANGED garbled

\* read(n), or has_readed(n) after the bytes at begin_read() have been used.
Read(n) ==
  /\ has_readed_ok(buf, n)
  /\ buf' = has_readed(buf, n)
  /\ UNCHANGED garbled

ReadAll ==
  /\ buf' = has_readall(buf)
  /\ UNCHANGED garbled

Next ==
  \/ \E n \in 0 .. MaxRequest : Ensure(n) \/ Read(n)
  \/ \E d \in Data : Write(d) \/ Fill(d)
  \/ ReadAll

Spec == Init /\ [][Next]_vars

-----------------------------------------------------------------------------
(* Properties.                                                             *)

\* The indices stay in order and inside the vector, which grows to MaxSize at
\* most (has_readed, has_written, make_space, move_readable_data).
TypeOK ==
  /\ buf \in Buffer
  /\ buf.read_index_ <= buf.write_index_
  /\ buf.write_index_ <= Len(buf.buff_)
  /\ Len(buf.buff_) <= MaxSize \/ Len(buf.buff_) \in InitSizes
  /\ garbled \in BOOLEAN

\* ensure_writable succeeds whenever the bytes to read and the n new ones fit
\* into MaxSize, and when it succeeds n bytes can be written (note.txt, item 4;
\* write relies on it).
RoomIsMade ==
  \A n \in 0 .. MaxRequest :
    /\ n + readable_bytes(buf) <= MaxSize => ensure_writable_ok(buf, n)
    /\ ensure_writable_ok(buf, n) => writable_bytes(ensure_writable(buf, n)) >= n

\* The buffer is a queue of bytes, whatever moves and grows, until overlapping
\* memory is copied (move_readable_data).
Queue == INSTANCE ByteQueue WITH queue <- Readable(buf), intact <- ~garbled
IsQueue == Queue!Spec

=============================================================================
