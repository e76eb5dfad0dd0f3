------------------------- MODULE MessageStream_proofs -------------------------
(***************************************************************************)
(* Theorems about IOBuf, for every size of a block and every set of bytes, *)
(* and about MessageStream, for every length of messages and every way to  *)
(* cut them.  Both are here because MessageStream uses the functions of    *)
(* IOBuf, and its proofs the lemmas about them.                            *)
(*                                                                         *)
(* The lemmas of the first part say of each function of the class what it  *)
(* does to the readable bytes, the indices and the room of a buffer whose  *)
(* indices are in order (Good); the theorems on IOBuf follow action by     *)
(* action.  The second part describes the bytes of a stream by their       *)
(* places (Blocks) and follows them through the steps of a connection.     *)
(***************************************************************************)
EXTENDS MessageStream, SequenceTheorems, TLAPS

\* A buffer whose indices are in order and inside its vector.
Good(b) ==
  /\ b \in Buffer
  /\ b.read_index_ <= b.write_index_
  /\ b.write_index_ <= Len(b.buff_)

-----------------------------------------------------------------------------
(* Sequences and numbers.                                                  *)

\* A function on 1 .. n is a sequence of length n.
LEMMA FunctionIsSeq ==
  ASSUME NEW S, NEW n \in Nat, NEW f \in [1 .. n -> S]
  PROVE  f \in Seq(S) /\ Len(f) = n
  BY SeqDef

\* A slice of a sequence.
LEMMA Slice ==
  ASSUME NEW S, NEW s \in Seq(S), NEW lo \in Nat, NEW hi \in Nat,
         lo <= hi, hi <= Len(s)
  PROVE  /\ SubSeq(s, lo + 1, hi) \in Seq(S)
         /\ Len(SubSeq(s, lo + 1, hi)) = hi - lo
         /\ \A i \in 1 .. hi - lo : SubSeq(s, lo + 1, hi)[i] = s[lo + i]
<1> DEFINE m == lo + 1
<1>1. m \in Int /\ hi \in Int /\ Len(s) \in Nat
  BY LenProperties
<1>2. \A i \in m .. hi : s[i] \in S
  BY <1>1, ElementOfSeq
<1>3. /\ hi - m + 1 = hi - lo
      /\ (IF m <= hi THEN hi - m + 1 ELSE 0) = hi - lo
      /\ \A i \in 1 .. hi - lo : m + i - 1 = lo + i
  OBVIOUS
<1> HIDE DEF m
<1>4. /\ SubSeq(s, m, hi) \in Seq(S)
      /\ Len(SubSeq(s, m, hi)) = IF m <= hi THEN hi - m + 1 ELSE 0
      /\ \A i \in 1 .. hi - m + 1 : SubSeq(s, m, hi)[i] = s[m + i - 1]
  BY <1>1, <1>2, SubSeqProperties
<1>5. /\ SubSeq(s, m, hi) \in Seq(S)
      /\ Len(SubSeq(s, m, hi)) = hi - lo
      /\ \A i \in 1 .. hi - lo : SubSeq(s, m, hi)[i] = s[lo + i]
  BY <1>3, <1>4
<1> QED BY <1>5 DEF m

\* The readable bytes, one by one.
LEMMA ReadableBytes ==
  ASSUME NEW b, Good(b)
  PROVE  /\ readable_bytes(b) \in Nat
         /\ Readable(b) \in Seq(Byte)
         /\ Len(Readable(b)) = readable_bytes(b)
         /\ \A i \in 1 .. readable_bytes(b) :
              Readable(b)[i] = b.buff_[b.read_index_ + i]
<1>1. /\ b.buff_ \in Seq(Byte)
      /\ b.read_index_ \in Nat /\ b.write_index_ \in Nat
      /\ b.read_index_ <= b.write_index_
      /\ b.write_index_ <= Len(b.buff_)
  BY DEF Good, Buffer
<1>2. readable_bytes(b) \in Nat
  BY <1>1 DEF readable_bytes
<1> QED BY <1>1, <1>2, Slice DEF readable_bytes, Readable

\* Two buffers with the same bytes to read.
LEMMA SameReadable ==
  ASSUME NEW b, NEW c, Good(b), Good(c),
         readable_bytes(c) = readable_bytes(b),
         \A i \in 1 .. readable_bytes(b) :
           c.buff_[c.read_index_ + i] = b.buff_[b.read_index_ + i]
  PROVE  Readable(c) = Readable(b)
<1>1. /\ Readable(b) \in Seq(Byte) /\ Readable(c) \in Seq(Byte)
      /\ Len(Readable(c)) = Len(Readable(b))
      /\ \A i \in 1 .. Len(Readable(c)) : Readable(c)[i] = Readable(b)[i]
  BY ReadableBytes
<1> QED BY <1>1, SeqEqual

\* make_space rounds up to no less than it needs and no more than MaxSize.
LEMMA RoundUpBounds ==
  ASSUME NEW n \in Nat, n <= MaxSize
  PROVE  RoundUp(n) \in Nat /\ n <= RoundUp(n) /\ RoundUp(n) <= MaxSize
<1> DEFINE k == initialSize
           q == (n + k - 1) \div k
<1>1. k \in Nat /\ k > 0
  BY BufferAssumption DEF BufferAssumption
<1>2. n + k - 1 \in Nat
  BY <1>1
<1> HIDE DEF k
<1>3. q \in Nat /\ k * q <= n + k - 1 /\ n + k - 1 < k * q + k
  BY <1>1, <1>2, Z3
<1>4. n <= 4 * k
  BY DEF MaxSize, k
<1> HIDE DEF q
<1>5. k * q \in Nat
  BY <1>1, <1>3, Z3
<1>6. n <= k * q
  BY <1>1, <1>3, <1>5
<1>7. q <= 4
  <2>1. SUFFICES ASSUME q >= 5 PROVE FALSE
    BY <1>3
  <2>2. k * q >= k * 5
    BY <1>1, <1>3, <2>1, Z3
  <2> QED BY <1>1, <1>3, <1>4, <1>5, <2>2
<1>8. k * q <= k * 4
  BY <1>1, <1>3, <1>7, Z3
<1>9. k * q <= 4 * k
  BY <1>1, <1>8
<1> QED BY <1>5, <1>6, <1>9 DEF RoundUp, MaxSize, k, q

-----------------------------------------------------------------------------
(* The functions of the class IOBuf.                                       *)

\* has_readed and has_readall: the rest stays, in its order.
LEMMA ReadRest ==
  ASSUME NEW b, Good(b), NEW n \in 0 .. readable_bytes(b)
  PROVE  /\ Good(has_readed(b, n))
         /\ has_readed(b, n).buff_ = b.buff_
         /\ Readable(has_readed(b, n))
              = SubSeq(Readable(b), n + 1, Len(Readable(b)))
<1> DEFINE c == has_readed(b, n)
<1>1. /\ b.buff_ \in Seq(Byte) /\ Len(b.buff_) \in Nat
      /\ b.read_index_ \in Nat /\ b.write_index_ \in Nat
      /\ b.read_index_ <= b.write_index_
      /\ b.write_index_ <= Len(b.buff_)
  BY LenProperties DEF Good, Buffer
<1>2. /\ c.buff_ = b.buff_
      /\ c.read_index_ = b.read_index_ + n
      /\ c.write_index_ = b.write_index_
      /\ c \in Buffer
  <2>1. c = [b EXCEPT !.read_index_ = b.read_index_ + n]
    BY DEF has_readed
  <2>2. n \in Nat /\ b \in Buffer
    BY <1>1 DEF readable_bytes, Good
  <2> HIDE DEF c
  <2> QED BY <1>1, <2>1, <2>2 DEF Buffer
<1>3. Good(c)
  BY <1>1, <1>2 DEF Good, readable_bytes
<1>4. readable_bytes(c) = readable_bytes(b) - n /\ readable_bytes(b) \in Nat
  BY <1>1, <1>2 DEF readable_bytes
<1> DEFINE r == Readable(b)
           t == SubSeq(r, n + 1, Len(r))
<1>5. /\ r \in Seq(Byte) /\ Len(r) = readable_bytes(b)
      /\ \A i \in 1 .. readable_bytes(b) : r[i] = b.buff_[b.read_index_ + i]
  BY ReadableBytes
<1> HIDE DEF r
<1>6. /\ t \in Seq(Byte) /\ Len(t) = Len(r) - n
      /\ \A i \in 1 .. Len(r) - n : t[i] = r[n + i]
  BY <1>4, <1>5, Slice
<1>7. /\ Readable(c) \in Seq(Byte) /\ Len(Readable(c)) = Len(r) - n
      /\ \A i \in 1 .. Len(r) - n : Readable(c)[i] = c.buff_[c.read_index_ + i]
  BY <1>3, <1>4, <1>5, ReadableBytes
<1> HIDE DEF c, t
<1>8. \A i \in 1 .. Len(t) : Readable(c)[i] = t[i]
  <2>1. SUFFICES ASSUME NEW i \in 1 .. Len(r) - n
                 PROVE  Readable(c)[i] = t[i]
    BY <1>6
  <2>2. n + i \in 1 .. readable_bytes(b)
    BY <1>4, <1>5
  <2>3. t[i] = b.buff_[b.read_index_ + (n + i)]
    BY <1>5, <1>6, <2>2
  <2>4. Readable(c)[i] = b.buff_[(b.read_index_ + n) + i]
    BY <1>2, <1>7
  <2>5. b.read_index_ + (n + i) = (b.read_index_ + n) + i
    BY <1>1, <1>5, <1>4
  <2> QED BY <2>3, <2>4, <2>5
<1>9. Readable(c) = t
  BY <1>6, <1>7, <1>8, SeqEqual
<1> QED BY <1>2, <1>3, <1>9 DEF c, t, r

\* move_readable_data: the readable bytes are the same, at the front.
LEMMA MoveKeeps ==
  ASSUME NEW b, Good(b)
  PROVE  /\ Good(move_readable_data(b))
         /\ Len(move_readable_data(b).buff_) = Len(b.buff_)
         /\ move_readable_data(b).read_index_ = 0
         /\ move_readable_data(b).write_index_ = readable_bytes(b)
         /\ Readable(move_readable_data(b)) = Readable(b)
<1> DEFINE c == move_readable_data(b)
<1>1. /\ b.buff_ \in Seq(Byte) /\ Len(b.buff_) \in Nat
      /\ b.buff_ \in [1 .. Len(b.buff_) -> Byte]
      /\ b.read_index_ \in Nat /\ b.write_index_ \in Nat
      /\ b.read_index_ <= b.write_index_
      /\ b.write_index_ <= Len(b.buff_)
  BY LenProperties DEF Good, Buffer
<1>2. readable_bytes(b) \in Nat /\ readable_bytes(b) = b.write_index_ - b.read_index_
  BY <1>1 DEF readable_bytes
<1>3. CASE b.read_index_ = 0
  BY <1>1, <1>2, <1>3 DEF move_readable_data
<1>4. CASE b.read_index_ # 0
  <2> DEFINE f == [i \in 1 .. Len(b.buff_) |->
                     IF i <= readable_bytes(b) THEN b.buff_[b.read_index_ + i]
                                               ELSE b.buff_[i]]
  <2>1. c = [buff_ |-> f, read_index_ |-> 0, write_index_ |-> readable_bytes(b)]
    BY <1>4 DEF move_readable_data
  <2>2. \A i \in 1 .. readable_bytes(b) : b.read_index_ + i \in 1 .. Len(b.buff_)
    BY <1>1, <1>2
  <2>3. f \in [1 .. Len(b.buff_) -> Byte]
    BY <1>1, <1>2, <2>2
  <2>4. f \in Seq(Byte) /\ Len(f) = Len(b.buff_)
    BY <1>1, <2>3, FunctionIsSeq
  <2>5. \A i \in 1 .. readable_bytes(b) : f[0 + i] = b.buff_[b.read_index_ + i]
    BY <1>1, <1>2
  <2> HIDE DEF f, c
  <2>6. /\ c.buff_ = f /\ c.read_index_ = 0
        /\ c.write_index_ = readable_bytes(b)
        /\ c \in Buffer
    BY <2>1, <2>4, <1>2 DEF Buffer
  <2>7. Good(c)
    BY <1>1, <1>2, <2>4, <2>6 DEF Good
  <2>8. readable_bytes(c) = readable_bytes(b)
    BY <1>2, <2>6 DEF readable_bytes
  <2>9. Readable(c) = Readable(b)
    BY <2>5, <2>6, <2>7, <2>8, SameReadable
  <2> QED BY <2>4, <2>6, <2>7, <2>9 DEF c
<1> QED BY <1>3, <1>4

\* resize adds cells at the end.
LEMMA ResizeKeeps ==
  ASSUME NEW b, Good(b), NEW size \in Nat, size >= Len(b.buff_)
  PROVE  /\ Good(resize(b, size))
         /\ Len(resize(b, size).buff_) = size
         /\ readable_bytes(resize(b, size)) = readable_bytes(b)
         /\ Readable(resize(b, size)) = Readable(b)
<1> DEFINE c == resize(b, size)
           z == [i \in 1 .. size - Len(b.buff_) |-> Zero]
<1>1. /\ b.buff_ \in Seq(Byte) /\ Len(b.buff_) \in Nat
      /\ b.read_index_ \in Nat /\ b.write_index_ \in Nat
      /\ b.read_index_ <= b.write_index_
      /\ b.write_index_ <= Len(b.buff_)
  BY LenProperties DEF Good, Buffer
<1>2. z \in Seq(Byte) /\ Len(z) = size - Len(b.buff_)
  <2>1. size - Len(b.buff_) \in Nat
    BY <1>1
  <2>2. z \in [1 .. size - Len(b.buff_) -> Byte]
    BY BufferAssumption DEF BufferAssumption
  <2> HIDE DEF z
  <2> QED BY <2>1, <2>2, FunctionIsSeq
<1> HIDE DEF z
<1> DEFINE f == b.buff_ \o z
<1>3. /\ f \in Seq(Byte) /\ Len(f) = Len(b.buff_) + Len(z)
      /\ \A i \in 1 .. Len(b.buff_) + Len(z) :
           f[i] = IF i <= Len(b.buff_) THEN b.buff_[i] ELSE z[i - Len(b.buff_)]
  BY <1>1, <1>2, ConcatProperties
<1> HIDE DEF f
<1>4. c = [b EXCEPT !.buff_ = f]
  BY DEF resize, z, f
<1> HIDE DEF c
<1>5. /\ c.buff_ = f /\ c.read_index_ = b.read_index_
      /\ c.write_index_ = b.write_index_ /\ c \in Buffer
  BY <1>1, <1>3, <1>4 DEF Good, Buffer
<1>6. Len(f) = size
  BY <1>1, <1>2, <1>3
<1>7. Good(c)
  BY <1>1, <1>5, <1>6 DEF Good
<1>8. readable_bytes(c) = readable_bytes(b)
  BY <1>5 DEF readable_bytes
<1>9. \A i \in 1 .. readable_bytes(b) :
         c.buff_[c.read_index_ + i] = b.buff_[b.read_index_ + i]
  <2>1. SUFFICES ASSUME NEW i \in 1 .. readable_bytes(b)
                 PROVE  f[b.read_index_ + i] = b.buff_[b.read_index_ + i]
    BY <1>5
  <2>2. /\ b.read_index_ + i \in 1 .. Len(b.buff_) + Len(z)
        /\ b.read_index_ + i <= Len(b.buff_)
    BY <1>1, <1>2 DEF readable_bytes
  <2> QED BY <1>3, <2>2
<1>10. Readable(c) = Readable(b)
  BY <1>7, <1>8, <1>9, SameReadable
<1> QED BY <1>5, <1>6, <1>7, <1>8, <1>10 DEF c

\* ensure_writable: the readable bytes are the same, the vector grows to MaxSize
\* at most, and if the function succeeds there is room.
LEMMA EnsureKeeps ==
  ASSUME NEW b, Good(b), NEW n \in Nat
  PROVE  /\ Good(ensure_writable(b, n))
         /\ Readable(ensure_writable(b, n)) = Readable(b)
         /\ \/ Len(ensure_writable(b, n).buff_) = Len(b.buff_)
            \/ Len(ensure_writable(b, n).buff_) <= MaxSize
         /\ ensure_writable_ok(b, n) =>
              writable_bytes(ensure_writable(b, n)) >= n
<1> DEFINE e == ensure_writable(b, n)
<1>1. /\ Len(b.buff_) \in Nat
      /\ b.read_index_ \in Nat /\ b.write_index_ \in Nat
      /\ b.read_index_ <= b.write_index_
      /\ b.write_index_ <= Len(b.buff_)
  BY LenProperties DEF Good, Buffer
<1>2. CASE NoSpace(b, n)
  <2>1. CASE ~make_space_ok(b, n)
    <3>1. e = b /\ ~ensure_writable_ok(b, n)
      BY <1>2, <2>1 DEF ensure_writable, ensure_writable_ok, make_space
    <3> QED BY <3>1
  <2>2. CASE make_space_ok(b, n)
    <3> DEFINE size == RoundUp(NewSize(b, n))
               c == resize(b, size)
    <3>1. NewSize(b, n) \in Nat /\ NewSize(b, n) <= MaxSize
      BY <1>1, <2>2 DEF NewSize, readable_bytes, make_space_ok
    <3>2. NewSize(b, n) > Len(b.buff_)
      BY <1>1, <1>2 DEF NewSize, NoSpace, readable_bytes, writable_bytes
    <3>3. size \in Nat /\ NewSize(b, n) <= size /\ size <= MaxSize
      BY <3>1, RoundUpBounds
    <3> HIDE DEF size
    <3>4. size >= Len(b.buff_)
      BY <1>1, <3>1, <3>2, <3>3
    <3>5. /\ Good(c) /\ Len(c.buff_) = size
          /\ readable_bytes(c) = readable_bytes(b)
          /\ Readable(c) = Readable(b)
      BY <3>3, <3>4, ResizeKeeps
    <3>6. e = move_readable_data(c)
      BY <1>2, <2>2 DEF ensure_writable, make_space, size
    <3> HIDE DEF c, e
    <3>7. /\ Good(e) /\ Len(e.buff_) = size
          /\ e.write_index_ = readable_bytes(b)
          /\ Readable(e) = Readable(b)
      BY <3>5, <3>6, MoveKeeps
    <3>8. writable_bytes(e) >= n
      BY <1>1, <3>1, <3>3, <3>7 DEF writable_bytes, readable_bytes, NewSize
    <3> QED BY <3>3, <3>7, <3>8 DEF e
  <2> QED BY <2>1, <2>2
<1>3. CASE ~NoSpace(b, n) /\ n > writable_bytes(b)
  <2>1. e = move_readable_data(b)
    BY <1>3 DEF ensure_writable
  <2> HIDE DEF e
  <2>2. /\ Good(e) /\ Len(e.buff_) = Len(b.buff_)
        /\ e.write_index_ = readable_bytes(b)
        /\ Readable(e) = Readable(b)
    BY <2>1, MoveKeeps
  <2>3. writable_bytes(e) >= n
    BY <1>1, <1>3, <2>2 DEF writable_bytes, readable_bytes, NoSpace
  <2> QED BY <2>2, <2>3 DEF e
<1>4. CASE ~NoSpace(b, n) /\ ~(n > writable_bytes(b))
  <2>1. e = b
    BY <1>4 DEF ensure_writable
  <2>2. writable_bytes(b) >= n
    BY <1>1, <1>4 DEF writable_bytes
  <2> QED BY <2>1, <2>2
<1> QED BY <1>2, <1>3, <1>4

\* Bytes stored at begin_write() and announced by has_written come after those
\* that were there.
LEMMA PutAppends ==
  ASSUME NEW b, Good(b), NEW d \in Seq(Byte), Len(d) <= writable_bytes(b)
  PROVE  /\ Good(put(b, d))
         /\ Len(put(b, d).buff_) = Len(b.buff_)
         /\ Len(Readable(put(b, d))) = Len(Readable(b)) + Len(d)
         /\ \A i \in 1 .. Len(Readable(b)) : Readable(put(b, d))[i] = Readable(b)[i]
         /\ \A i \in 1 .. Len(d) :
              Readable(put(b, d))[Len(Readable(b)) + i] = d[i]
<1> DEFINE c == put(b, d)
           w == b.write_index_
           f == [i \in 1 .. Len(b.buff_) |->
                   IF i - w \in 1 .. Len(d) THEN d[i - w] ELSE b.buff_[i]]
<1>1. /\ b \in Buffer
      /\ b.buff_ \in Seq(Byte) /\ Len(b.buff_) \in Nat
      /\ b.buff_ \in [1 .. Len(b.buff_) -> Byte]
      /\ b.read_index_ \in Nat /\ w \in Nat
      /\ b.read_index_ <= w
      /\ w <= Len(b.buff_)
  BY LenProperties DEF Good, Buffer
<1>2. Len(d) \in Nat /\ w + Len(d) <= Len(b.buff_)
  BY <1>1, LenProperties DEF writable_bytes
<1>3. \A i \in 1 .. Len(d) : d[i] \in Byte
  BY ElementOfSeq
<1>4. f \in [1 .. Len(b.buff_) -> Byte]
  BY <1>1, <1>2, <1>3
<1>5. /\ \A i \in 1 .. w : f[i] = b.buff_[i]
      /\ \A i \in 1 .. Len(d) : f[w + i] = d[i]
  <2>1. \A i \in 1 .. w : f[i] = b.buff_[i]
    BY <1>1, <1>2
  <2>2. ASSUME NEW i \in 1 .. Len(d) PROVE f[w + i] = d[i]
    <3>1. w + i \in 1 .. Len(b.buff_) /\ (w + i) - w = i
      BY <1>1, <1>2
    <3> QED BY <3>1
  <2> QED BY <2>1, <2>2
<1>6. c = [[b EXCEPT !.buff_ = f] EXCEPT !.write_index_ = w + Len(d)]
  BY <1>1 DEF put, has_written, store, Buffer
<1> HIDE DEF f, c, w
<1>7. f \in Seq(Byte) /\ Len(f) = Len(b.buff_)
  BY <1>1, <1>4, FunctionIsSeq
<1>8. /\ c.buff_ = f /\ c.read_index_ = b.read_index_
      /\ c.write_index_ = w + Len(d) /\ c \in Buffer
  <2>1. w + Len(d) \in Nat
    BY <1>1, <1>2
  <2> DEFINE v == w + Len(d)
             c1 == [b EXCEPT !.buff_ = f]
  <2> HIDE DEF v
  <2>2. /\ c1.buff_ = f /\ c1.read_index_ = b.read_index_
        /\ c1 \in Buffer
    BY <1>1, <1>7 DEF Buffer
  <2>3. c = [c1 EXCEPT !.write_index_ = v]
    BY <1>6 DEF v
  <2> HIDE DEF c1
  <2>4. /\ c.buff_ = f /\ c.read_index_ = b.read_index_
        /\ c.write_index_ = v /\ c \in Buffer
    BY <2>1, <2>2, <2>3 DEF Buffer, v
  <2> QED BY <2>4 DEF v
<1>9. Good(c) /\ Len(c.buff_) = Len(b.buff_)
  BY <1>1, <1>2, <1>7, <1>8 DEF Good
<1>10. /\ readable_bytes(c) = readable_bytes(b) + Len(d)
       /\ readable_bytes(b) \in Nat
  BY <1>1, <1>2, <1>8 DEF readable_bytes, w
<1>11. /\ Len(Readable(b)) = readable_bytes(b)
       /\ \A i \in 1 .. readable_bytes(b) :
            Readable(b)[i] = b.buff_[b.read_index_ + i]
       /\ Len(Readable(c)) = readable_bytes(c)
       /\ \A i \in 1 .. readable_bytes(c) :
            Readable(c)[i] = c.buff_[c.read_index_ + i]
  BY <1>9, ReadableBytes
<1>12. \A i \in 1 .. readable_bytes(b) : Readable(c)[i] = Readable(b)[i]
  <2>1. SUFFICES ASSUME NEW i \in 1 .. readable_bytes(b)
                 PROVE  Readable(c)[i] = Readable(b)[i]
    OBVIOUS
  <2>2. i \in 1 .. readable_bytes(c) /\ b.read_index_ + i \in 1 .. w
    BY <1>1, <1>2, <1>10 DEF readable_bytes, w
  <2>3. f[b.read_index_ + i] = b.buff_[b.read_index_ + i]
    BY <1>5, <2>2
  <2> QED BY <1>8, <1>11, <2>2, <2>3
<1>13. \A i \in 1 .. Len(d) : Readable(c)[readable_bytes(b) + i] = d[i]
  <2>1. SUFFICES ASSUME NEW i \in 1 .. Len(d)
                 PROVE  Readable(c)[readable_bytes(b) + i] = d[i]
    OBVIOUS
  <2>2. /\ readable_bytes(b) + i \in 1 .. readable_bytes(c)
        /\ b.read_index_ + (readable_bytes(b) + i) = w + i
    BY <1>1, <1>2, <1>10 DEF readable_bytes, w
  <2>3. f[w + i] = d[i]
    BY <1>5
  <2> QED BY <1>8, <1>11, <2>2, <2>3
<1> QED BY <1>9, <1>10, <1>11, <1>12, <1>13 DEF c

-----------------------------------------------------------------------------
(* Type correctness.                                                       *)

\* TypeOK in terms of Good.
LEMMA TypeIsGood ==
  TypeOK <=> /\ Good(buf)
             /\ Len(buf.buff_) <= MaxSize \/ Len(buf.buff_) \in InitSizes
             /\ garbled \in BOOLEAN
  BY DEF TypeOK, Good

\* The bytes that are written are a sequence.
LEMMA DataIsSeq ==
  ASSUME NEW d \in Data
  PROVE  d \in Seq(Byte) /\ Len(d) \in 1 .. MaxRequest
<1>1. PICK n \in 1 .. MaxRequest : d \in [1 .. n -> Byte]
  BY DEF Data
<1>2. n \in Nat
  BY <1>1, BufferAssumption DEF BufferAssumption
<1> QED BY <1>1, <1>2, FunctionIsSeq

LEMMA TypeInit == Init => TypeOK
<1> SUFFICES ASSUME Init PROVE TypeOK
  OBVIOUS
<1>1. PICK n \in InitSizes : buf = NewBuffer(n)
  BY DEF Init
<1> DEFINE f == [i \in 1 .. n |-> Zero]
<1>2. n \in Nat
  BY <1>1, BufferAssumption DEF BufferAssumption
<1>3. f \in [1 .. n -> Byte]
  BY BufferAssumption DEF BufferAssumption
<1>4. buf = [buff_ |-> f, read_index_ |-> 0, write_index_ |-> 0]
  BY <1>1 DEF NewBuffer
<1> HIDE DEF f
<1>5. f \in Seq(Byte) /\ Len(f) = n
  BY <1>2, <1>3, FunctionIsSeq
<1>6. /\ buf \in Buffer /\ buf.read_index_ = 0 /\ buf.write_index_ = 0
      /\ Len(buf.buff_) = n
  BY <1>4, <1>5 DEF Buffer
<1>7. garbled \in BOOLEAN
  BY DEF Init
<1>8. /\ buf.read_index_ <= buf.write_index_
      /\ buf.write_index_ <= Len(buf.buff_)
      /\ Len(buf.buff_) \in InitSizes
  BY <1>2, <1>6
<1> QED BY <1>6, <1>7, <1>8 DEF TypeOK

LEMMA TypeNext == TypeOK /\ [Next]_vars => TypeOK'
<1> SUFFICES ASSUME TypeOK, [Next]_vars PROVE TypeOK'
  OBVIOUS
<1> DEFINE Sized(b) == Len(b.buff_) <= MaxSize \/ Len(b.buff_) \in InitSizes
<1>1. Good(buf) /\ Sized(buf) /\ garbled \in BOOLEAN
  BY TypeIsGood
<1>2. SUFFICES Good(buf') /\ Sized(buf') /\ garbled' \in BOOLEAN
  BY DEF TypeOK, Good
<1>3. ASSUME NEW n \in 0 .. MaxRequest, Ensure(n)
      PROVE  Good(buf') /\ Sized(buf') /\ garbled' \in BOOLEAN
  <2>1. n \in Nat
    BY BufferAssumption DEF BufferAssumption
  <2> QED BY <1>1, <1>3, <2>1, EnsureKeeps DEF Ensure, Garbles
<1>4. ASSUME NEW n \in 0 .. MaxRequest, Read(n)
      PROVE  Good(buf') /\ Sized(buf') /\ garbled' \in BOOLEAN
  <2>1. n \in 0 .. readable_bytes(buf)
    BY <1>1, <1>4, BufferAssumption, ReadableBytes
    DEF BufferAssumption, Read, has_readed_ok
  <2> QED BY <1>1, <1>4, <2>1, ReadRest DEF Read
<1>5. ASSUME NEW d \in Data, Write(d)
      PROVE  Good(buf') /\ Sized(buf') /\ garbled' \in BOOLEAN
  <2> DEFINE e == ensure_writable(buf, Len(d))
  <2>1. d \in Seq(Byte) /\ Len(d) \in Nat
    BY DataIsSeq, LenProperties
  <2>2. Good(e) /\ Sized(e) /\ Len(d) <= writable_bytes(e)
    <3>1. ensure_writable_ok(buf, Len(d))
      BY <1>5 DEF Write, write_ok
    <3>2. writable_bytes(e) >= Len(d) /\ Good(e) /\ Sized(e)
      BY <1>1, <2>1, <3>1, EnsureKeeps
    <3>3. writable_bytes(e) \in Int
      BY <3>2, LenProperties DEF Good, Buffer, writable_bytes
    <3> QED BY <2>1, <3>2, <3>3
  <2>3. buf' = put(e, d) /\ garbled' \in {garbled, TRUE}
    BY <1>5 DEF Write, write, Garbles
  <2> HIDE DEF e
  <2> QED BY <1>1, <2>1, <2>2, <2>3, PutAppends
<1>6. ASSUME NEW d \in Data, Fill(d)
      PROVE  Good(buf') /\ Sized(buf') /\ garbled' \in BOOLEAN
  BY <1>1, <1>6, DataIsSeq, PutAppends DEF Fill, has_written_ok
<1>7. CASE ReadAll
  <2>1. buf' = [buf EXCEPT !.read_index_ = buf.write_index_]
    BY <1>7 DEF ReadAll, has_readall
  <2>2. Good(buf') /\ buf'.buff_ = buf.buff_
    BY <1>1, <2>1, LenProperties DEF Good, Buffer
  <2> QED BY <1>1, <1>7, <2>2 DEF ReadAll
<1>8. CASE UNCHANGED vars
  BY <1>1, <1>8 DEF vars
<1> QED BY <1>3, <1>4, <1>5, <1>6, <1>7, <1>8 DEF Next

\* The indices of a buffer stay in order and inside its vector, which never
\* grows beyond MaxSize (IOBufImp, all functions).
THEOREM TypeCorrect == Spec => []TypeOK
<1> QED BY TypeInit, TypeNext, PTL DEF Spec

-----------------------------------------------------------------------------
(* Room.                                                                   *)

LEMMA TypeGivesRoom == TypeOK => RoomIsMade
<1> SUFFICES ASSUME TypeOK, NEW n \in 0 .. MaxRequest
             PROVE  /\ n + readable_bytes(buf) <= MaxSize =>
                         ensure_writable_ok(buf, n)
                    /\ ensure_writable_ok(buf, n) =>
                         writable_bytes(ensure_writable(buf, n)) >= n
  BY DEF RoomIsMade
<1>1. Good(buf) /\ n \in Nat
  BY TypeIsGood, BufferAssumption DEF BufferAssumption
<1>2. n + readable_bytes(buf) <= MaxSize => ensure_writable_ok(buf, n)
  BY DEF ensure_writable_ok, make_space_ok, NewSize
<1> QED BY <1>1, <1>2, EnsureKeeps

\* ensure_writable succeeds whenever the bytes fit into MaxSize, and then there
\* is room for them (ensure_writable, make_space).
THEOREM RoomIsAlwaysMade == Spec => []RoomIsMade
<1> QED BY TypeCorrect, TypeGivesRoom, PTL

-----------------------------------------------------------------------------
(* Refinement.                                                             *)

\* Bytes that come after those that were there make a step of the queue.
LEMMA PutIsPut ==
  ASSUME NEW b, Good(b), NEW d \in Seq(Byte), Len(d) <= writable_bytes(b)
  PROVE  /\ Len(Readable(put(b, d))) >= Len(Readable(b))
         /\ SubSeq(Readable(put(b, d)), 1, Len(Readable(b))) = Readable(b)
<1> DEFINE q == Readable(b)
           r == Readable(put(b, d))
           k == Len(q)
           t == SubSeq(r, 0 + 1, k)
<1>1. /\ q \in Seq(Byte) /\ r \in Seq(Byte)
      /\ k \in Nat /\ Len(d) \in Nat
  BY PutAppends, ReadableBytes, LenProperties
<1>2. /\ Len(r) = k + Len(d)
      /\ \A i \in 1 .. k : r[i] = q[i]
  BY PutAppends
<1> HIDE DEF q, r
<1>3. k <= Len(r)
  BY <1>1, <1>2
<1>4. /\ t \in Seq(Byte) /\ Len(t) = k - 0
      /\ \A i \in 1 .. k - 0 : t[i] = r[0 + i]
  BY <1>1, <1>3, Slice
<1> HIDE DEF t
<1>5. Len(t) = k /\ \A i \in 1 .. k : t[i] = q[i]
  BY <1>1, <1>2, <1>4
<1>6. t = q
  BY <1>1, <1>4, <1>5, SeqEqual
<1> QED BY <1>1, <1>2, <1>3, <1>6 DEF q, r, t

LEMMA QueueInit == Init => Queue!Init
<1> SUFFICES ASSUME Init PROVE Queue!Init
  OBVIOUS
<1>1. PICK n \in InitSizes : buf = NewBuffer(n)
  BY DEF Init
<1>2. buf.read_index_ = 0 /\ buf.write_index_ = 0
  BY <1>1 DEF NewBuffer
<1>3. Good(buf) /\ readable_bytes(buf) = 0
  BY <1>2, TypeInit, TypeIsGood DEF readable_bytes
<1>4. Readable(buf) \in Seq(Byte) /\ Len(Readable(buf)) = 0
  BY <1>3, ReadableBytes
<1>5. Readable(buf) = <<>>
  BY <1>4, EmptySeq
<1> QED BY <1>5 DEF Init, Queue!Init

LEMMA QueueNext == TypeOK /\ [Next]_vars => [Queue!Next]_(Queue!vars)
<1> SUFFICES ASSUME TypeOK, [Next]_vars
             PROVE  Queue!Next \/ UNCHANGED Queue!vars
  OBVIOUS
<1> USE DEF Queue!Next, Queue!Put, Queue!Take, Queue!Spoil, Queue!vars
<1> DEFINE q == Readable(buf)
           q1 == Readable(buf')
<1>1. /\ Good(buf) /\ garbled \in BOOLEAN /\ q \in Seq(Byte)
      /\ Len(q) = readable_bytes(buf) /\ readable_bytes(buf) \in Nat
  BY TypeIsGood, ReadableBytes
<1>2. ASSUME NEW n \in 0 .. MaxRequest, Ensure(n)
      PROVE  Queue!Next \/ UNCHANGED Queue!vars
  <2>1. n \in Nat
    BY BufferAssumption DEF BufferAssumption
  <2>2. q1 = q
    BY <1>1, <1>2, <2>1, EnsureKeeps DEF Ensure
  <2>3. garbled' = garbled \/ garbled' = TRUE
    BY <1>2 DEF Ensure, Garbles
  <2> QED BY <2>2, <2>3
<1>3. ASSUME NEW n \in 0 .. readable_bytes(buf),
             buf' = has_readed(buf, n), garbled' = garbled
      PROVE  Queue!Next \/ UNCHANGED Queue!vars
  <2>1. q1 = SubSeq(q, n + 1, Len(q))
    BY <1>1, <1>3, ReadRest
  <2>2. CASE n = 0
    <3>1. SubSeq(q, n + 1, Len(q)) = q
      BY <1>1, <2>2, SubSeqFull
    <3> QED BY <1>3, <2>1, <3>1
  <2>3. CASE n # 0
    <3>1. n \in 1 .. Len(q)
      BY <1>1, <2>3
    <3> QED BY <1>3, <2>1, <3>1
  <2> QED BY <2>2, <2>3
<1>4. ASSUME NEW n \in 0 .. MaxRequest, Read(n)
      PROVE  Queue!Next \/ UNCHANGED Queue!vars
  <2>1. n \in 0 .. readable_bytes(buf)
    BY <1>1, <1>4, BufferAssumption DEF BufferAssumption, Read, has_readed_ok
  <2> QED BY <1>3, <1>4, <2>1 DEF Read
<1>5. ASSUME NEW d \in Data, Write(d)
      PROVE  Queue!Next \/ UNCHANGED Queue!vars
  <2> DEFINE e == ensure_writable(buf, Len(d))
  <2>1. d \in Seq(Byte) /\ Len(d) \in Nat
    BY DataIsSeq, LenProperties
  <2>2. /\ Good(e) /\ Readable(e) = q
        /\ writable_bytes(e) >= Len(d)
    BY <1>1, <1>5, <2>1, EnsureKeeps DEF Write, write_ok
  <2>3. Len(d) <= writable_bytes(e)
    BY <2>1, <2>2, LenProperties DEF Good, Buffer, writable_bytes
  <2>4. buf' = put(e, d) /\ (garbled' = garbled \/ garbled' = TRUE)
    BY <1>5 DEF Write, write, Garbles
  <2> HIDE DEF e
  <2>5. Len(q1) >= Len(q) /\ SubSeq(q1, 1, Len(q)) = q
    BY <2>1, <2>2, <2>3, <2>4, PutIsPut
  <2> QED BY <2>4, <2>5
<1>6. ASSUME NEW d \in Data, Fill(d)
      PROVE  Queue!Next \/ UNCHANGED Queue!vars
  <2>1. Len(q1) >= Len(q) /\ SubSeq(q1, 1, Len(q)) = q
    BY <1>1, <1>6, DataIsSeq, PutIsPut DEF Fill, has_written_ok
  <2> QED BY <1>6, <2>1 DEF Fill
<1>7. CASE ReadAll
  <2>1. buf.read_index_ + readable_bytes(buf) = buf.write_index_
    BY <1>1 DEF readable_bytes, Good, Buffer
  <2>2. buf' = has_readed(buf, readable_bytes(buf)) /\ garbled' = garbled
    BY <1>7, <2>1 DEF ReadAll, has_readall, has_readed
  <2>3. readable_bytes(buf) \in 0 .. readable_bytes(buf)
    BY <1>1
  <2> QED BY <1>3, <2>2, <2>3
<1>8. CASE UNCHANGED vars
  BY <1>8 DEF vars
<1> QED BY <1>2, <1>4, <1>5, <1>6, <1>7, <1>8 DEF Next

\* The buffer is a queue of bytes: what is put in comes out, once and in order,
\* whatever is moved and grown, until overlapping memory is copied (IOBufImp,
\* all functions).
THEOREM ImplementsByteQueue == Spec => IsQueue
<1>1. Init /\ [][Next]_vars /\ []TypeOK => Queue!Spec
  BY QueueInit, QueueNext, PTL DEF Queue!Spec
<1> QED BY <1>1, TypeCorrect, PTL DEF Spec, IsQueue

-----------------------------------------------------------------------------
(* The bytes of a stream by their places.                                  *)

\* Around each of the first L bytes of h are the other bytes of its message, one
\* of M messages with the lengths s, and behind them begins the next message.
Blocks(h, L, s, M) ==
  \A k, j \in 1 .. L :
    LET m == h[k][1]
        i == h[k][2] + (j - k)
    IN /\ m \in 1 .. M /\ h[k][2] \in 1 .. s[m]
       /\ i \in 1 .. s[m] => h[j] = <<m, i>>
       /\ i = s[m] + 1 => h[j] = <<m + 1, 1>>

\* The sequence h of bytes begins with the message after the first p.
InOrder(h, s, p) ==
  /\ Blocks(h, Len(h), s, Len(s))
  /\ Len(h) > 0 => h[1] = <<p + 1, 1>>

\* h ends with the last message.
AtEnd(h, s, p) ==
  IF Len(h) = 0 THEN p = Len(s) ELSE h[Len(h)] = <<Len(s), s[Len(s)]>>

\* The first byte of h is that of the message q.
Begins(h, L, q) == L > 0 => h[1] = <<q, 1>>

\* The last byte of h is that of the message M.
Ends(h, L, s, M) == h[L] = <<M, s[M]>>

\* The message q has n bytes.
Has(s, q, n) == s[q] = n

\* s gives the lengths of M messages.
Sizes(s, M) == \A m \in 1 .. M : s[m] \in Nat

\* g begins with the first L values of h.
Extends(g, h, L) == \A i \in 1 .. L : g[i] = h[i]

\* Then come the n bytes of the message m.
Adds(g, L, n, m) == \A i \in 1 .. n : g[L + i] = <<m, i>>

\* What Blocks says of two bytes.
LEMMA TwoBytes ==
  ASSUME NEW h, NEW L, NEW s, NEW M, Blocks(h, L, s, M),
         NEW k \in 1 .. L, NEW j \in 1 .. L
  PROVE  /\ h[k][1] \in 1 .. M /\ h[k][2] \in 1 .. s[h[k][1]]
         /\ h[k][2] + (j - k) \in 1 .. s[h[k][1]] =>
              h[j] = <<h[k][1], h[k][2] + (j - k)>>
         /\ h[k][2] + (j - k) = s[h[k][1]] + 1 => h[j] = <<h[k][1] + 1, 1>>
  BY DEF Blocks

\* The first byte belongs to a message that exists, and the message is in front.
LEMMA FrontOfStream ==
  ASSUME NEW h, NEW L \in Nat, NEW s, NEW M \in Nat,
         Blocks(h, L, s, M), Sizes(s, M),
         NEW q, h[1] = <<q, 1>>, NEW i \in 1 .. L
  PROVE  /\ q \in 1 .. M
         /\ i <= s[q] => h[i] = <<q, i>>
         /\ i = s[q] + 1 => h[i] = <<q + 1, 1>>
<1>1. 1 \in 1 .. L /\ h[1][1] = q /\ h[1][2] = 1
  OBVIOUS
<1>2. /\ h[1][1] \in 1 .. M
      /\ h[1][2] + (i - 1) \in 1 .. s[h[1][1]] =>
           h[i] = <<h[1][1], h[1][2] + (i - 1)>>
      /\ h[1][2] + (i - 1) = s[h[1][1]] + 1 => h[i] = <<h[1][1] + 1, 1>>
  BY <1>1, TwoBytes
<1>3. /\ q \in 1 .. M
      /\ 1 + (i - 1) \in 1 .. s[q] => h[i] = <<q, 1 + (i - 1)>>
      /\ 1 + (i - 1) = s[q] + 1 => h[i] = <<q + 1, 1>>
  BY <1>1, <1>2
<1>4. 1 + (i - 1) = i /\ s[q] \in Nat
  BY <1>3 DEF Sizes
<1>5. i <= s[q] => i \in 1 .. s[q]
  BY <1>4
<1> QED BY <1>3, <1>4, <1>5

\* g is what follows the first n values of h.
Behind(g, K, h, n) == \A i \in 1 .. K : g[i] = h[n + i]

\* A part of a stream is in blocks.
LEMMA PartHasBlocks ==
  ASSUME NEW h, NEW L \in Nat, NEW s, NEW M \in Nat,
         Blocks(h, L, s, M), Sizes(s, M),
         NEW g, NEW K \in Nat, NEW n \in Nat, n + K <= L,
         Behind(g, K, h, n)
  PROVE  Blocks(g, K, s, M)
<1>1. ASSUME NEW k \in 1 .. K, NEW j \in 1 .. K
      PROVE  /\ g[k][1] \in 1 .. M /\ g[k][2] \in 1 .. s[g[k][1]]
             /\ g[k][2] + (j - k) \in 1 .. s[g[k][1]] =>
                  g[j] = <<g[k][1], g[k][2] + (j - k)>>
             /\ g[k][2] + (j - k) = s[g[k][1]] + 1 => g[j] = <<g[k][1] + 1, 1>>
  <2> DEFINE x == n + k
             y == n + j
  <2>1. x \in 1 .. L /\ y \in 1 .. L /\ y - x = j - k
    OBVIOUS
  <2>2. g[k] = h[x] /\ g[j] = h[y]
    BY DEF Behind
  <2> HIDE DEF x, y
  <2>3. /\ h[x][1] \in 1 .. M /\ h[x][2] \in 1 .. s[h[x][1]]
        /\ h[x][2] + (y - x) \in 1 .. s[h[x][1]] =>
             h[y] = <<h[x][1], h[x][2] + (y - x)>>
        /\ h[x][2] + (y - x) = s[h[x][1]] + 1 => h[y] = <<h[x][1] + 1, 1>>
    BY <2>1, TwoBytes
  <2> QED BY <2>1, <2>2, <2>3
<1> QED BY <1>1 DEF Blocks

\* A stream that is cut off behind is in order.
LEMMA PrefixInOrder ==
  ASSUME NEW S, NEW h \in Seq(S), NEW g \in Seq(S), NEW s \in Seq(Nat), NEW p,
         InOrder(h, s, p), Len(g) <= Len(h),
         \A i \in 1 .. Len(g) : g[i] = h[i]
  PROVE  InOrder(g, s, p)
<1> DEFINE L == Len(h)
           K == Len(g)
           M == Len(s)
<1>1. L \in Nat /\ K \in Nat /\ M \in Nat /\ Sizes(s, M)
  BY LenProperties, ElementOfSeq DEF Sizes
<1>2. /\ Blocks(h, L, s, M) /\ K <= L
      /\ L > 0 => h[1] = <<p + 1, 1>>
      /\ \A i \in 1 .. K : g[i] = h[i]
  BY DEF InOrder
<1> HIDE DEF L, K, M
<1>3. 0 + K <= L /\ Behind(g, K, h, 0)
  BY <1>1, <1>2 DEF Behind
<1>4. Blocks(g, K, s, M)
  BY <1>1, <1>2, <1>3, PartHasBlocks
<1>5. K > 0 => g[1] = <<p + 1, 1>>
  BY <1>1, <1>2
<1> QED BY <1>4, <1>5 DEF InOrder, K, M

\* When the message in front is taken away the next one is in front, and the
\* last one at the end.
LEMMA RestHasFront ==
  ASSUME NEW h, NEW g, NEW s,
         NEW L \in Nat, NEW K \in Nat, NEW M \in Nat, NEW n \in Nat, NEW q,
         Blocks(h, L, s, M), Sizes(s, M), Begins(h, L, q), L > 0,
         Has(s, q, n), n <= L, K = L - n, Behind(g, K, h, n)
  PROVE  /\ Begins(g, K, q + 1)
         /\ Ends(h, L, s, M) => IF K = 0 THEN q = M ELSE Ends(g, K, s, M)
<1> USE DEF Begins, Ends, Has
<1>1. ASSUME NEW i \in 1 .. L
      PROVE  /\ q \in 1 .. M
             /\ i <= s[q] => h[i] = <<q, i>>
             /\ i = s[q] + 1 => h[i] = <<q + 1, 1>>
  BY FrontOfStream
<1>2. CASE K = 0
  <2>1. L \in 1 .. L /\ L <= s[q]
    BY <1>2
  <2>2. h[L] = <<q, L>>
    BY <1>1, <2>1
  <2> QED BY <1>2, <2>2
<1>3. CASE K # 0
  <2>1. n + 1 \in 1 .. L /\ 1 \in 1 .. K /\ K \in 1 .. K /\ n + K = L
    BY <1>3
  <2>2. h[n + 1] = <<q + 1, 1>>
    BY <1>1, <2>1
  <2>3. g[1] = h[n + 1] /\ g[K] = h[L]
    BY <2>1 DEF Behind
  <2> QED BY <1>3, <2>2, <2>3
<1> QED BY <1>2, <1>3

\* When the message in front is taken away the rest is in order, and ends as
\* before.
LEMMA RestInOrder ==
  ASSUME NEW S, NEW h \in Seq(S), NEW g \in Seq(S), NEW s \in Seq(Nat),
         NEW p \in Nat, NEW n \in Nat,
         InOrder(h, s, p), Len(h) > 0, s[p + 1] = n, n <= Len(h),
         Len(g) = Len(h) - n, Behind(g, Len(g), h, n)
  PROVE  /\ InOrder(g, s, p + 1)
         /\ AtEnd(h, s, p) => AtEnd(g, s, p + 1)
<1> DEFINE L == Len(h)
           K == Len(g)
           M == Len(s)
           q == p + 1
<1>1. L \in Nat /\ K \in Nat /\ M \in Nat /\ Sizes(s, M)
  BY LenProperties, ElementOfSeq DEF Sizes
<1>2. /\ Blocks(h, L, s, M) /\ Begins(h, L, q) /\ L > 0
      /\ n <= L /\ K = L - n /\ Has(s, q, n) /\ Behind(g, K, h, n)
  BY DEF InOrder, Begins, Has
<1>3. AtEnd(h, s, p) => Ends(h, L, s, M)
  BY DEF AtEnd, Ends
<1> HIDE DEF L, K, M, q
<1>4. /\ Begins(g, K, q + 1)
      /\ Ends(h, L, s, M) => IF K = 0 THEN q = M ELSE Ends(g, K, s, M)
  BY <1>1, <1>2, RestHasFront
<1>5. Blocks(g, K, s, M)
  <2>1. n + K <= L
    BY <1>1, <1>2
  <2> QED BY <1>1, <1>2, <2>1, PartHasBlocks
<1>6. InOrder(g, s, q)
  BY <1>4, <1>5 DEF InOrder, Begins, K, M
<1>7. AtEnd(h, s, p) => AtEnd(g, s, q)
  BY <1>3, <1>4 DEF AtEnd, Ends, K, M
<1> QED BY <1>6, <1>7 DEF q

\* A message of n bytes that comes after all others makes a block of its own.
LEMMA SentHasBlocks ==
  ASSUME NEW h, NEW L \in Nat, NEW s, NEW M \in Nat,
         Blocks(h, L, s, M), Sizes(s, M),
         L > 0 => h[L] = <<M, s[M]>>,
         NEW n \in Nat, NEW t, t[M + 1] = n, Extends(t, s, M),
         NEW g, Extends(g, h, L), Adds(g, L, n, M + 1)
  PROVE  Blocks(g, L + n, t, M + 1)
<1> DEFINE Goal(k, j) ==
             /\ g[k][1] \in 1 .. M + 1 /\ g[k][2] \in 1 .. t[g[k][1]]
             /\ g[k][2] + (j - k) \in 1 .. t[g[k][1]] =>
                  g[j] = <<g[k][1], g[k][2] + (j - k)>>
             /\ g[k][2] + (j - k) = t[g[k][1]] + 1 => g[j] = <<g[k][1] + 1, 1>>
<1>1. SUFFICES ASSUME NEW k \in 1 .. L + n, NEW j \in 1 .. L + n
               PROVE  Goal(k, j)
  BY DEF Blocks
<1> USE DEF Extends, Adds
<1>2. CASE k \in 1 .. L
  <2> DEFINE m == h[k][1]
             a == h[k][2]
             c == s[m]
  <2>1. ASSUME NEW l \in 1 .. L
        PROVE  /\ m \in 1 .. M /\ a \in 1 .. c
               /\ a + (l - k) \in 1 .. c => h[l] = <<m, a + (l - k)>>
               /\ a + (l - k) = c + 1 => h[l] = <<m + 1, 1>>
    BY <1>2, TwoBytes
  <2>2. m \in 1 .. M /\ a \in 1 .. c
    BY <1>2, <2>1
  <2>3. m \in 1 .. M + 1 /\ t[m] = c /\ c \in Nat /\ a \in Nat
    <3>1. t[m] = s[m] /\ s[m] \in Nat
      BY <2>2 DEF Sizes
    <3> QED BY <2>2, <3>1
  <2>4. g[k] = h[k] /\ g[k][1] = m /\ g[k][2] = a
    BY <1>2
  <2> HIDE DEF m, a, c
  <2>5. SUFFICES /\ a + (j - k) \in 1 .. c => g[j] = <<m, a + (j - k)>>
                 /\ a + (j - k) = c + 1 => g[j] = <<m + 1, 1>>
    BY <2>2, <2>3, <2>4
  <2>6. CASE j \in 1 .. L
    <3>1. g[j] = h[j]
      BY <2>6
    <3> QED BY <2>1, <2>6, <3>1
  <2>7. CASE j \notin 1 .. L
    <3> DEFINE b == a + (L - k)
    <3>1. L \in 1 .. L /\ j - L \in 1 .. n /\ L + (j - L) = j
      BY <1>2, <2>7
    <3>2. b \in Nat /\ b >= 1 /\ a + (j - k) = b + (j - L)
      BY <1>2, <2>2, <2>3, <3>1
    <3>3. h[L] = <<M, s[M]>>
      BY <3>1
    <3>4. b \in 1 .. c => h[L] = <<m, b>>
      BY <2>1, <3>1
    <3> HIDE DEF b
    <3>5. b <= c => m = M /\ b = c
      <4>1. SUFFICES ASSUME b <= c PROVE m = M /\ b = c
        OBVIOUS
      <4>2. b \in 1 .. c
        BY <2>3, <3>2, <4>1
      <4>3. <<m, b>> = <<M, s[M]>>
        BY <3>3, <3>4, <4>2
      <4> QED BY <4>3 DEF c
    <3>6. ~(a + (j - k) \in 1 .. c)
      BY <2>3, <3>1, <3>2, <3>5
    <3>7. ASSUME a + (j - k) = c + 1 PROVE g[j] = <<m + 1, 1>>
      <4>1. b <= c
        BY <2>3, <3>1, <3>2, <3>7
      <4>2. m = M /\ j - L = 1
        BY <2>3, <3>1, <3>2, <3>5, <3>7, <4>1
      <4>3. 1 \in 1 .. n /\ j = L + 1
        BY <3>1, <4>2
      <4>4. g[j] = <<M + 1, 1>>
        BY <4>3
      <4> QED BY <4>2, <4>4
    <3> QED BY <3>6, <3>7
  <2> QED BY <2>6, <2>7
<1>3. CASE k \notin 1 .. L
  <2>1. k - L \in 1 .. n /\ L + (k - L) = k
    BY <1>3
  <2>2. g[k] = <<M + 1, k - L>>
    BY <2>1
  <2>3. g[k][1] = M + 1 /\ g[k][2] = k - L /\ (k - L) + (j - k) = j - L
    BY <2>1, <2>2
  <2>4. j - L \in 1 .. n => g[j] = <<M + 1, j - L>>
    <3>1. SUFFICES ASSUME j - L \in 1 .. n PROVE g[j] = <<M + 1, j - L>>
      OBVIOUS
    <3>2. L + (j - L) = j
      OBVIOUS
    <3> QED BY <3>1, <3>2
  <2>5. j - L # n + 1 /\ M + 1 \in 1 .. M + 1
    OBVIOUS
  <2> QED BY <2>1, <2>3, <2>4, <2>5
<1> QED BY <1>2, <1>3

\* A stream stays in order when a message is sent, and ends with it.
LEMMA SendInOrder ==
  ASSUME NEW S, NEW h \in Seq(S), NEW g \in Seq(S), NEW s \in Seq(Nat),
         NEW p \in Nat, NEW n \in Nat \ {0},
         InOrder(h, s, p), AtEnd(h, s, p),
         Len(g) = Len(h) + n,
         \A i \in 1 .. Len(h) : g[i] = h[i],
         \A i \in 1 .. n : g[Len(h) + i] = <<Len(s) + 1, i>>
  PROVE  InOrder(g, Append(s, n), p) /\ AtEnd(g, Append(s, n), p)
<1> DEFINE t == Append(s, n)
           L == Len(h)
           M == Len(s)
<1>1. L \in Nat /\ M \in Nat /\ Sizes(s, M)
  BY LenProperties, ElementOfSeq DEF Sizes
<1>2. /\ t \in Seq(Nat) /\ Len(t) = M + 1 /\ t[M + 1] = n
      /\ Extends(t, s, M)
  BY AppendProperties DEF Extends
<1>3. /\ Blocks(h, L, s, M)
      /\ L > 0 => h[1] = <<p + 1, 1>>
      /\ IF L = 0 THEN p = M ELSE h[L] = <<M, s[M]>>
      /\ Len(g) = L + n
      /\ Extends(g, h, L) /\ Adds(g, L, n, M + 1)
  BY DEF InOrder, AtEnd, Extends, Adds
<1> HIDE DEF t, L, M
<1>4. Blocks(g, L + n, t, M + 1)
  <2>1. n \in Nat /\ (L > 0 => h[L] = <<M, s[M]>>)
    BY <1>1, <1>3
  <2> QED BY <1>1, <1>2, <1>3, <2>1, SentHasBlocks
<1>5. L + n > 0 => g[1] = <<p + 1, 1>>
  <2>1. CASE L = 0
    <3>1. p = M /\ 1 \in 1 .. n /\ L + 1 = 1
      BY <1>3, <2>1
    <3>2. g[L + 1] = <<M + 1, 1>>
      BY <1>3, <3>1 DEF Adds
    <3> QED BY <3>1, <3>2
  <2>2. CASE L # 0
    <3>1. 1 \in 1 .. L /\ L > 0
      BY <1>1, <2>2
    <3>2. g[1] = h[1] /\ h[1] = <<p + 1, 1>>
      BY <1>3, <3>1 DEF Extends
    <3> QED BY <3>2
  <2> QED BY <2>1, <2>2
<1>6. L + n # 0 /\ g[L + n] = <<M + 1, t[M + 1]>>
  <2>1. n \in 1 .. n /\ L + n # 0
    BY <1>1
  <2> QED BY <1>2, <1>3, <2>1 DEF Adds
<1> QED BY <1>2, <1>3, <1>4, <1>5, <1>6 DEF InOrder, AtEnd, t

-----------------------------------------------------------------------------
(* What the steps of a connection do to the bytes that have not been read,  *)
(* those of the buffer (r) before those on their way (w).                   *)

\* n bytes of w have come behind r, which gives q, and v is left of w.
Moved(r, w, n, q, v) ==
  /\ n \in 1 .. Len(w) /\ Len(q) = Len(r) + n
  /\ Extends(q, r, Len(r)) /\ Behind(w, n, q, Len(r))
  /\ v = SubSeq(w, n + 1, Len(w))

\* Bytes that are read go from the one to the other.
LEMMA ReadMoves ==
  ASSUME NEW S, NEW r \in Seq(S), NEW w \in Seq(S), NEW n, NEW q \in Seq(S),
         NEW v \in Seq(S), Moved(r, w, n, q, v)
  PROVE  q \o v = r \o w
<1> DEFINE k == Len(r)
           m == Len(w)
<1> USE DEF Moved
<1>1. k \in Nat /\ m \in Nat /\ n \in Nat /\ n <= m
  BY LenProperties
<1>2. v \in Seq(S) /\ Len(v) = m - n /\ \A i \in 1 .. m - n : v[i] = w[n + i]
  BY <1>1, Slice
<1>3. /\ r \o w \in Seq(S) /\ Len(r \o w) = k + m
      /\ \A i \in 1 .. k + m : (r \o w)[i] = IF i <= k THEN r[i] ELSE w[i - k]
  BY ConcatProperties
<1>4. /\ q \o v \in Seq(S) /\ Len(q \o v) = Len(q) + Len(v)
      /\ \A i \in 1 .. Len(q) + Len(v) :
           (q \o v)[i] = IF i <= Len(q) THEN q[i] ELSE v[i - Len(q)]
  BY <1>2, ConcatProperties
<1>5. /\ Len(q) = k + n /\ \A i \in 1 .. k : q[i] = r[i]
      /\ \A i \in 1 .. n : q[k + i] = w[i]
  BY DEF Extends, Behind
<1> HIDE DEF k, m
<1>6. /\ Len(q \o v) = k + m
      /\ \A i \in 1 .. k + m :
           (q \o v)[i] = IF i <= k + n THEN q[i] ELSE v[i - (k + n)]
  <2>1. (k + n) + (m - n) = k + m
    BY <1>1
  <2>2. /\ Len(q \o v) = (k + n) + (m - n)
        /\ \A i \in 1 .. (k + n) + (m - n) :
             (q \o v)[i] = IF i <= k + n THEN q[i] ELSE v[i - (k + n)]
    BY <1>2, <1>4, <1>5, Zenon
  <2> QED BY <2>1, <2>2, Zenon
<1>7. ASSUME NEW i \in 1 .. Len(q \o v)
      PROVE  (q \o v)[i] = (r \o w)[i]
  <2>1. i \in Nat /\ i >= 1 /\ i <= k + m /\ i \in 1 .. k + m
    BY <1>1, <1>6
  <2>2. /\ (q \o v)[i] = IF i <= k + n THEN q[i] ELSE v[i - (k + n)]
        /\ (r \o w)[i] = IF i <= k THEN r[i] ELSE w[i - k]
    BY <1>3, <1>6, <2>1, Zenon
  <2>3. CASE i <= k
    <3>1. i \in 1 .. k /\ i <= k + n
      BY <1>1, <2>1, <2>3
    <3> QED BY <1>5, <2>2, <2>3, <3>1, Zenon
  <2>4. CASE k < i /\ i <= k + n
    <3>1. i - k \in 1 .. n /\ k + (i - k) = i
      BY <1>1, <2>1, <2>4
    <3>2. q[k + (i - k)] = w[i - k]
      BY <1>5, <3>1
    <3>3. i <= k + n /\ ~(i <= k)
      BY <1>1, <2>1, <2>4
    <3> QED BY <2>2, <3>1, <3>2, <3>3, Zenon
  <2>5. CASE k + n < i
    <3>1. i - (k + n) \in 1 .. m - n /\ n + (i - (k + n)) = i - k
      BY <1>1, <2>1, <2>5
    <3>2. v[i - (k + n)] = w[n + (i - (k + n))]
      BY <1>2, <3>1
    <3>3. ~(i <= k + n) /\ ~(i <= k)
      BY <1>1, <2>1, <2>5
    <3> QED BY <2>2, <3>1, <3>2, <3>3, Zenon
  <2>6. i <= k \/ (k < i /\ i <= k + n) \/ k + n < i
    BY <1>1, <2>1
  <2> QED BY <2>3, <2>4, <2>5, <2>6
<1>8. q \o v = r \o w
  BY <1>3, <1>4, <1>6, <1>7, SeqEqual
<1> QED BY <1>8

\* n bytes have been read from r, and q is left.
Taken(r, n, q) == n \in 0 .. Len(r) /\ q = SubSeq(r, n + 1, Len(r))

\* A message that is processed goes from the front.
LEMMA ProcessMoves ==
  ASSUME NEW S, NEW r \in Seq(S), NEW w \in Seq(S), NEW n, NEW q, Taken(r, n, q)
  PROVE  /\ q \in Seq(S) /\ q \o w \in Seq(S)
         /\ Len(q \o w) = Len(r \o w) - n
         /\ Behind(q \o w, Len(q \o w), r \o w, n)
<1> DEFINE k == Len(r)
           m == Len(w)
<1> USE DEF Taken
<1>1. k \in Nat /\ m \in Nat /\ n \in Nat /\ n <= k
  BY LenProperties
<1>2. q \in Seq(S) /\ Len(q) = k - n /\ \A i \in 1 .. k - n : q[i] = r[n + i]
  BY <1>1, Slice
<1>3. /\ r \o w \in Seq(S) /\ Len(r \o w) = k + m
      /\ \A i \in 1 .. k + m : (r \o w)[i] = IF i <= k THEN r[i] ELSE w[i - k]
  BY ConcatProperties
<1>4. /\ q \o w \in Seq(S) /\ Len(q \o w) = Len(q) + m
      /\ \A i \in 1 .. Len(q) + m :
           (q \o w)[i] = IF i <= Len(q) THEN q[i] ELSE w[i - Len(q)]
  BY <1>2, ConcatProperties
<1> HIDE DEF k, m
<1>5. ASSUME NEW i \in 1 .. Len(q \o w)
      PROVE  (q \o w)[i] = (r \o w)[n + i]
  <2>1. /\ i \in Nat /\ i >= 1 /\ i <= (k - n) + m
        /\ n + i \in 1 .. k + m
    BY <1>1, <1>2, <1>4
  <2>2. /\ (q \o w)[i] = IF i <= k - n THEN q[i] ELSE w[i - (k - n)]
        /\ (r \o w)[n + i] = IF n + i <= k THEN r[n + i] ELSE w[(n + i) - k]
    BY <1>1, <1>2, <1>3, <1>4, <2>1
  <2>3. CASE i <= k - n
    <3>1. i \in 1 .. k - n /\ n + i <= k
      BY <1>1, <2>1, <2>3
    <3> QED BY <1>2, <2>2, <2>3, <3>1, Zenon
  <2>4. CASE i > k - n
    <3>1. i - (k - n) = (n + i) - k /\ ~(n + i <= k) /\ ~(i <= k - n)
      BY <1>1, <2>1, <2>4
    <3> QED BY <2>2, <3>1
  <2> QED BY <1>1, <2>1, <2>3, <2>4
<1> QED BY <1>1, <1>2, <1>3, <1>4, <1>5 DEF Behind

\* What is on its way may be lost.
LEMMA LossInOrder ==
  ASSUME NEW S, NEW r \in Seq(S), NEW w \in Seq(S), NEW s \in Seq(Nat), NEW p,
         InOrder(r \o w, s, p)
  PROVE  InOrder(r \o <<>>, s, p)
<1> DEFINE h == r \o w
           g == r \o <<>>
<1>1. g = r
  BY ConcatEmptySeq
<1>2. /\ h \in Seq(S) /\ Len(g) <= Len(h)
      /\ \A i \in 1 .. Len(g) : g[i] = h[i]
  BY <1>1, ConcatProperties, LenProperties
<1> HIDE DEF h, g
<1>3. g \in Seq(S) /\ InOrder(h, s, p)
  BY <1>1 DEF h
<1>4. InOrder(g, s, p)
  BY <1>2, <1>3, PrefixInOrder
<1> QED BY <1>4 DEF g

\* Lengths of messages are natural numbers, and greater than a header's.
LEMMA LengthsAreNat ==
  /\ \A n \in Lengths : n \in Nat \ {0} /\ n > HeaderLen
  /\ Lengths \subseteq Nat /\ HeaderLen \in Nat \ {0}
  BY StreamAssumption DEF StreamAssumption

\* A message that is sent follows the others.
LEMMA SendMoves ==
  ASSUME NEW r \in Seq(Byte), NEW w \in Seq(Byte), NEW s \in Seq(Lengths),
         Len(s) < MaxMessages, NEW n \in Lengths, NEW p \in Nat
  PROVE  /\ w \o Message(Len(s) + 1, n) \in Seq(Byte)
         /\ InOrder(r \o w, s, p) /\ AtEnd(r \o w, s, p) =>
              /\ InOrder(r \o (w \o Message(Len(s) + 1, n)), Append(s, n), p)
              /\ AtEnd(r \o (w \o Message(Len(s) + 1, n)), Append(s, n), p)
<1> DEFINE m == Len(s) + 1
           d == Message(m, n)
           h == r \o w
           g == r \o (w \o d)
<1>1. n \in Nat \ {0} /\ s \in Seq(Nat) /\ m \in 1 .. MaxMessages
  <2>1. s \in Seq(Nat) /\ n \in Nat \ {0}
    BY LengthsAreNat, SeqMonotonic
  <2>2. Len(s) \in Nat /\ MaxMessages \in Nat
    BY LenProperties, StreamAssumption DEF StreamAssumption
  <2> QED BY <2>1, <2>2
<1>2. /\ d \in Seq(Byte) /\ Len(d) = n
      /\ \A i \in 1 .. n : d[i] = <<m, i>>
  <2>1. \A i \in 1 .. n : <<m, i>> \in Byte
    BY <1>1, StreamAssumption DEF StreamAssumption
  <2> HIDE DEF m
  <2>2. d \in [1 .. n -> Byte] /\ \A i \in 1 .. n : d[i] = <<m, i>>
    BY <2>1 DEF Message
  <2> HIDE DEF d
  <2> QED BY <1>1, <2>2, FunctionIsSeq
<1> HIDE DEF d
<1>3. w \o d \in Seq(Byte)
  BY <1>2, ConcatProperties
<1>4. g = h \o d
  <2>1. d \in Seq(Byte) /\ r \in Seq(Byte) /\ w \in Seq(Byte)
    BY <1>2
  <2>2. (r \o w) \o d = r \o (w \o d)
    BY <2>1, ConcatAssociative, SMT
  <2> QED BY <2>2
<1>5. h \in Seq(Byte)
  BY ConcatProperties
<1> HIDE DEF h
<1>6. /\ g \in Seq(Byte) /\ Len(g) = Len(h) + Len(d)
      /\ \A i \in 1 .. Len(h) + Len(d) :
           g[i] = IF i <= Len(h) THEN h[i] ELSE d[i - Len(h)]
  <2>1. /\ h \o d \in Seq(Byte) /\ Len(h \o d) = Len(h) + Len(d)
        /\ \A i \in 1 .. Len(h) + Len(d) :
             (h \o d)[i] = IF i <= Len(h) THEN h[i] ELSE d[i - Len(h)]
    BY <1>2, <1>5, ConcatProperties, Zenon
  <2> QED BY <1>4, <2>1, Zenon
<1>7. Len(h) \in Nat
  BY <1>5, LenProperties
<1> HIDE DEF g
<1>8. /\ Len(g) = Len(h) + n
      /\ \A i \in 1 .. Len(h) : g[i] = h[i]
      /\ \A i \in 1 .. n : g[Len(h) + i] = <<m, i>>
  <2> DEFINE k == Len(h)
  <2>0. /\ Len(g) = k + n
        /\ \A i \in 1 .. k + n : g[i] = IF i <= k THEN h[i] ELSE d[i - k]
    BY <1>2, <1>6, Zenon
  <2> HIDE DEF k
  <2>1. ASSUME NEW i \in 1 .. k PROVE g[i] = h[i]
    <3>1. i \in 1 .. k + n /\ i <= k
      BY <1>1, <1>7 DEF k
    <3> QED BY <2>0, <3>1, Zenon
  <2>2. ASSUME NEW i \in 1 .. n PROVE g[k + i] = <<m, i>>
    <3>1. k + i \in 1 .. k + n /\ ~(k + i <= k) /\ (k + i) - k = i
      BY <1>1, <1>7 DEF k
    <3>2. g[k + i] = d[(k + i) - k]
      BY <2>0, <3>1, Zenon
    <3> QED BY <1>2, <3>1, <3>2, Zenon
  <2> QED BY <2>0, <2>1, <2>2 DEF k
<1>9. InOrder(h, s, p) /\ AtEnd(h, s, p) =>
        InOrder(g, Append(s, n), p) /\ AtEnd(g, Append(s, n), p)
  <2> HIDE DEF m
  <2>1. m = Len(s) + 1
    BY DEF m
  <2> QED BY <1>1, <1>5, <1>6, <1>8, <2>1, SendInOrder
<1> QED BY <1>3, <1>9 DEF g, h, d, m

-----------------------------------------------------------------------------
(* The invariant of a connection.                                          *)

\* The buffer is in order and has not grown beyond MaxSize; what has not been
\* received when the connection ends is lost.
StreamType ==
  /\ conn \in {"up", "closing", "down"}
  /\ Good(buf) /\ Len(buf.buff_) <= MaxSize
  /\ garbled \in BOOLEAN /\ stale \in BOOLEAN
  /\ wire \in Seq(Byte) /\ sent \in Seq(Lengths) /\ processed \in Nat
  /\ conn # "up" => wire = <<>>

\* The bytes r of the buffer and w on their way begin with the message after the
\* first p, and while the connection lasts they end with the last one.
Ordered(r, w, s, p, c) ==
  /\ InOrder(r \o w, s, p)
  /\ c = "up" => AtEnd(r \o w, s, p)

OrderInv == InStep => Ordered(Readable(buf), wire, sent, processed, conn)

\* Of the message after the first p there are k bytes only.
Waits(k, s, p) == k = 0 \/ (p + 1 \in 1 .. Len(s) /\ k < s[p + 1])

\* on_recv does not leave a whole message in the buffer.
IdleInv == InStep /\ at # "parse" => Waits(readable, sent, processed)

StreamInv == StreamType /\ OrderInv /\ IdleInv /\ NoFalseStop

\* Where nothing was sent nothing is out of order.
LEMMA NothingInOrder == ASSUME NEW c PROVE Ordered(<<>>, <<>>, <<>>, 0, c)
<1>1. <<>> \o <<>> = <<>> /\ Len(<<>>) = 0
  OBVIOUS
<1> QED BY <1>1 DEF Ordered, InOrder, AtEnd, Blocks

\* The header in front is that of the first message not processed.
LEMMA FrontMessage ==
  ASSUME StreamType, OrderInv, InStep, readable > 0
  PROVE  /\ processed + 1 \in 1 .. Len(sent)
         /\ sent[processed + 1] \in Lengths
         /\ Head(Readable(buf)) = <<processed + 1, 1>>
         /\ pack_len = sent[processed + 1]
<1> DEFINE r == Readable(buf)
           h == r \o wire
           L == Len(h)
           M == Len(sent)
           q == processed + 1
<1>1. /\ r \in Seq(Byte) /\ Len(r) = readable /\ readable \in Nat
      /\ wire \in Seq(Byte) /\ sent \in Seq(Lengths) /\ processed \in Nat
  BY ReadableBytes DEF StreamType, readable
<1>2. /\ h \in Seq(Byte) /\ L = Len(r) + Len(wire)
      /\ \A i \in 1 .. Len(r) + Len(wire) :
           h[i] = IF i <= Len(r) THEN r[i] ELSE wire[i - Len(r)]
  BY <1>1, ConcatProperties
<1>3. L \in Nat /\ L > 0 /\ 1 \in 1 .. L /\ h[1] = r[1]
  <2>1. Len(wire) \in Nat
    BY <1>1, LenProperties
  <2> QED BY <1>1, <1>2, <2>1
<1>4. InOrder(h, sent, processed)
  BY DEF OrderInv, Ordered
<1> HIDE DEF h
<1>5. Blocks(h, L, sent, M) /\ h[1] = <<q, 1>>
  BY <1>3, <1>4 DEF InOrder
<1>6. M \in Nat /\ Sizes(sent, M)
  <2>1. sent \in Seq(Nat)
    BY <1>1, LengthsAreNat, SeqMonotonic
  <2> QED BY <2>1, LenProperties, ElementOfSeq DEF Sizes
<1> HIDE DEF L, M, q
<1>7. q \in 1 .. M
  BY <1>3, <1>5, <1>6, FrontOfStream
<1>8. sent[q] \in Lengths
  BY <1>1, <1>7, ElementOfSeq DEF M
<1>9. Head(r) = <<q, 1>>
  <2>1. Head(r) = r[1]
    BY <1>1, ReadableBytes, readable > 0
  <2> QED BY <1>3, <1>5, <2>1
<1>10. pack_len = sent[q]
  BY <1>9 DEF pack_len
<1> QED BY <1>7, <1>8, <1>9, <1>10 DEF q, M

LEMMA StreamStarts == StreamInit => StreamInv
<1> SUFFICES ASSUME StreamInit PROVE StreamInv
  OBVIOUS
<1>1. Good(buf) /\ Len(buf.buff_) = initialSize /\ readable = 0
  <2> DEFINE z == [i \in 1 .. initialSize |-> Zero]
  <2>1. initialSize \in Nat /\ Zero \in Byte
    BY BufferAssumption DEF BufferAssumption
  <2>2. z \in [1 .. initialSize -> Byte]
    BY <2>1
  <2> HIDE DEF z
  <2>3. z \in Seq(Byte) /\ Len(z) = initialSize
    BY <2>1, <2>2, FunctionIsSeq
  <2>4. buf = [buff_ |-> z, read_index_ |-> 0, write_index_ |-> 0]
    BY DEF StreamInit, NewBuffer, z
  <2> QED BY <2>1, <2>3, <2>4 DEF Good, Buffer, readable, readable_bytes
<1>2. Readable(buf) = <<>>
  BY <1>1, ReadableBytes, EmptySeq DEF readable
<1>3. initialSize <= MaxSize
  BY BufferAssumption DEF BufferAssumption, MaxSize
<1>4. StreamType
  BY <1>1, <1>3, EmptySeq DEF StreamType, StreamInit
<1>5. Ordered(<<>>, <<>>, <<>>, 0, conn)
  BY NothingInOrder
<1>6. OrderInv
  BY <1>2, <1>5 DEF OrderInv, StreamInit
<1>7. IdleInv /\ NoFalseStop
  BY <1>1 DEF IdleInv, Waits, NoFalseStop, StreamInit
<1> QED BY <1>4, <1>6, <1>7 DEF StreamInv

LEMMA SendKeeps == StreamInv /\ send_packet => StreamInv'
<1> SUFFICES ASSUME StreamInv, send_packet PROVE StreamInv'
  OBVIOUS
<1> DEFINE r == Readable(buf)
           M == Len(sent)
<1>1. PICK n \in Lengths : /\ sent' = Append(sent, n)
                           /\ wire' = wire \o Message(M + 1, n)
  BY DEF send_packet
<1>2. /\ conn = "up" /\ Len(sent) < Limit /\ InStep' = InStep
      /\ UNCHANGED <<conn, buf, at, processed, why, garbled, stale>>
  BY DEF send_packet, InStep
<1>3. M \in Nat /\ M < MaxMessages
  <2>1. MaxMessages \in Nat \ {0} /\ M \in Nat
    BY LenProperties, StreamAssumption DEF StreamAssumption, StreamInv, StreamType
  <2> QED BY <1>2, <2>1 DEF Limit
<1>4. /\ r \in Seq(Byte) /\ wire \in Seq(Byte) /\ sent \in Seq(Lengths)
      /\ processed \in Nat
  BY ReadableBytes DEF StreamInv, StreamType
<1>5. /\ wire' \in Seq(Byte)
      /\ InOrder(r \o wire, sent, processed) /\ AtEnd(r \o wire, sent, processed) =>
           /\ InOrder(r \o wire', sent', processed)
           /\ AtEnd(r \o wire', sent', processed)
  BY <1>1, <1>3, <1>4, SendMoves
<1>6. /\ sent' \in Seq(Lengths) /\ Len(sent') = M + 1
      /\ \A m \in 1 .. M : sent'[m] = sent[m]
  BY <1>1, <1>4, AppendProperties
<1>7. StreamType'
  BY <1>2, <1>5, <1>6 DEF StreamInv, StreamType
<1>8. OrderInv'
  <2>1. r' = r
    BY <1>2
  <2> QED BY <1>2, <1>5, <2>1 DEF StreamInv, OrderInv, Ordered
<1>9. IdleInv'
  <2>1. readable' = readable /\ at' = at
    BY <1>2 DEF readable
  <2>2. Waits(readable, sent, processed) => Waits(readable, sent', processed)
    <3>1. CASE readable = 0
      BY <3>1 DEF Waits
    <3>2. CASE processed + 1 \in 1 .. M /\ readable < sent[processed + 1]
      BY <1>3, <1>6, <3>2 DEF Waits
    <3> QED BY <3>1, <3>2 DEF Waits
  <2> QED BY <1>2, <2>1, <2>2 DEF StreamInv, IdleInv
<1>10. NoFalseStop'
  <2>1. DOMAIN sent = 1 .. M /\ DOMAIN sent' = 1 .. M + 1
    BY <1>4, <1>6, LenProperties
  <2>2. \A m \in DOMAIN sent : m \in DOMAIN sent' /\ sent'[m] = sent[m]
    BY <1>3, <1>6, <2>1
  <2> QED BY <1>2, <2>2 DEF StreamInv, NoFalseStop
<1> QED BY <1>7, <1>8, <1>9, <1>10 DEF StreamInv

\* When the connection stops, what has not been received is lost.
LEMMA StopKeeps ==
  ASSUME StreamInv, NEW reason, on_stop(reason), UNCHANGED <<buf, processed, garbled>>
  PROVE  /\ StreamType' /\ OrderInv' /\ InStep' = InStep /\ readable' = readable
         /\ sent' = sent
<1>1. /\ conn' = "closing" /\ wire' = <<>>
      /\ UNCHANGED <<buf, sent, processed, garbled, stale>>
  BY DEF on_stop
<1>2. InStep' = InStep /\ readable' = readable /\ Readable(buf)' = Readable(buf)
  BY <1>1 DEF InStep, readable
<1>3. StreamType'
  BY <1>1, EmptySeq DEF StreamInv, StreamType
<1>4. OrderInv'
  <2>1. /\ Readable(buf) \in Seq(Byte) /\ wire \in Seq(Byte)
        /\ sent \in Seq(Nat)
    BY ReadableBytes, LengthsAreNat, SeqMonotonic DEF StreamInv, StreamType
  <2>2. InOrder(Readable(buf) \o wire, sent, processed) =>
          InOrder(Readable(buf) \o <<>>, sent, processed)
    BY <2>1, LossInOrder
  <2> QED BY <1>1, <1>2, <2>2 DEF StreamInv, OrderInv, Ordered
<1> QED BY <1>1, <1>2, <1>3, <1>4

LEMMA AskedKeeps == StreamInv /\ Stop => StreamInv'
<1> SUFFICES ASSUME StreamInv, Stop PROVE StreamInv'
  OBVIOUS
<1>1. on_stop("asked") /\ UNCHANGED <<buf, at, processed, garbled>>
  BY DEF Stop
<1>2. /\ StreamType' /\ OrderInv' /\ InStep' = InStep /\ readable' = readable
      /\ sent' = sent
  BY <1>1, StopKeeps
<1>3. why' = "asked"
  BY <1>1 DEF on_stop
<1>4. IdleInv' /\ NoFalseStop'
  BY <1>1, <1>2, <1>3 DEF StreamInv, IdleInv, NoFalseStop
<1> QED BY <1>2, <1>4 DEF StreamInv

LEMMA CloseKeeps == StreamInv /\ on_close => StreamInv'
<1> SUFFICES ASSUME StreamInv, on_close PROVE StreamInv'
  OBVIOUS
<1>1. /\ conn = "closing" /\ conn' = "down"
      /\ UNCHANGED <<buf, at, wire, sent, processed, why, garbled, stale>>
  BY DEF on_close, peerVars
<1>2. InStep' = InStep /\ readable' = readable /\ Readable(buf)' = Readable(buf)
  BY <1>1 DEF InStep, readable
<1>3. StreamType'
  BY <1>1 DEF StreamInv, StreamType
<1>4. OrderInv'
  BY <1>1, <1>2 DEF StreamInv, OrderInv, Ordered
<1>5. IdleInv' /\ NoFalseStop'
  BY <1>1, <1>2 DEF StreamInv, IdleInv, NoFalseStop
<1> QED BY <1>3, <1>4, <1>5 DEF StreamInv

\* A connection that finds an empty buffer starts in step.
LEMMA ConnectKeeps == StreamInv /\ on_connect => StreamInv'
<1> SUFFICES ASSUME StreamInv, on_connect PROVE StreamInv'
  OBVIOUS
<1>1. /\ conn = "down" /\ conn' = "up" /\ sent' = <<>> /\ processed' = 0
      /\ why' = "none" /\ stale' = (readable > 0)
      /\ UNCHANGED <<buf, at, wire, garbled>>
  BY DEF on_connect
<1>2. /\ Readable(buf) \in Seq(Byte) /\ Len(Readable(buf)) = readable
      /\ readable \in Nat
  BY ReadableBytes DEF StreamInv, StreamType, readable
<1>3. /\ readable' = readable /\ Readable(buf)' = Readable(buf) /\ wire' = <<>>
      /\ InStep' => readable = 0
  <2>1. readable' = readable /\ Readable(buf)' = Readable(buf) /\ wire' = <<>>
    BY <1>1 DEF readable, StreamInv, StreamType
  <2>2. InStep' => ~(readable > 0)
    BY <1>1, Zenon DEF InStep
  <2> QED BY <1>2, <2>1, <2>2
<1>4. StreamType'
  BY <1>1, EmptySeq DEF StreamInv, StreamType
<1>5. OrderInv'
  <2>1. InStep' => Readable(buf) = <<>>
    BY <1>2, <1>3, EmptySeq
  <2> QED BY <1>1, <1>3, <2>1, NothingInOrder DEF OrderInv
<1>6. IdleInv' /\ NoFalseStop'
  BY <1>1, <1>3 DEF IdleInv, Waits, NoFalseStop
<1> QED BY <1>4, <1>5, <1>6 DEF StreamInv

\* What on_alloc makes of the buffer.
LEMMA ReserveKeeps ==
  ASSUME StreamInv, on_alloc
  PROVE  /\ Good(reserve) /\ Len(reserve.buff_) <= MaxSize
         /\ Readable(reserve) = Readable(buf)
         /\ readable_bytes(reserve) = readable
         /\ garbled' \in BOOLEAN /\ conn = "up" /\ at # "parse" /\ ~garbled
         /\ space = 0 => readable > MaxSize - initialSize
<1> DEFINE k == initialSize
<1>1. Good(buf) /\ Len(buf.buff_) <= MaxSize /\ garbled \in BOOLEAN
  BY DEF StreamInv, StreamType
<1>2. k \in Nat \ {0}
  BY BufferAssumption DEF BufferAssumption
<1>3. /\ Good(reserve) /\ Readable(reserve) = Readable(buf)
      /\ \/ Len(reserve.buff_) = Len(buf.buff_)
         \/ Len(reserve.buff_) <= MaxSize
      /\ ensure_writable_ok(buf, k) => writable_bytes(reserve) >= k
  BY <1>1, <1>2, EnsureKeeps DEF reserve
<1>4. readable_bytes(reserve) = readable /\ readable \in Nat
  BY <1>1, <1>3, ReadableBytes DEF readable
<1>5. /\ conn = "up" /\ ~garbled /\ at # "parse"
      /\ garbled' \in Garbles(buf, k, garbled)
  BY DEF on_alloc
<1>6. garbled' \in BOOLEAN
  BY <1>1, <1>5 DEF Garbles
<1>7. space = 0 => readable > MaxSize - k
  <2>1. SUFFICES ASSUME space = 0 PROVE readable > MaxSize - k
    OBVIOUS
  <2>2. ~ensure_writable_ok(buf, k)
    BY <1>2, <1>3, <2>1 DEF space
  <2>3. ~(NewSize(buf, k) <= MaxSize)
    BY <2>2 DEF ensure_writable_ok, make_space_ok
  <2>4. NewSize(buf, k) = k + readable
    BY DEF NewSize, readable
  <2>5. MaxSize \in Nat
    BY <1>2 DEF MaxSize
  <2> QED BY <1>2, <1>4, <2>3, <2>4, <2>5
<1> QED BY <1>1, <1>3, <1>4, <1>5, <1>6, <1>7

LEMMA ReadKeeps == StreamInv /\ on_read => StreamInv'
<1> SUFFICES ASSUME StreamInv, on_read PROVE StreamInv'
  OBVIOUS
<1> DEFINE r == Readable(buf)
           b == reserve
<1>1. PICK n \in 1 .. Len(wire) :
        /\ n <= space
        /\ buf' = put(b, SubSeq(wire, 1, n))
        /\ wire' = SubSeq(wire, n + 1, Len(wire))
  BY DEF on_read
<1>2. /\ at' = "parse"
      /\ UNCHANGED <<conn, sent, processed, why, stale>>
  BY DEF on_read
<1>3. /\ Good(b) /\ Len(b.buff_) <= MaxSize /\ Readable(b) = r
      /\ garbled' \in BOOLEAN /\ conn = "up" /\ ~garbled
  BY ReserveKeeps DEF on_read
<1>4. r \in Seq(Byte) /\ wire \in Seq(Byte) /\ Len(wire) \in Nat
  BY ReadableBytes, LenProperties DEF StreamInv, StreamType
<1>5. PICK d : d = SubSeq(wire, 1, n)
  OBVIOUS
<1>6. /\ d \in Seq(Byte) /\ Len(d) = n
      /\ \A i \in 1 .. n : d[i] = wire[i]
  <2>1. 0 \in Nat /\ n \in Nat /\ 0 <= n /\ n <= Len(wire) /\ 0 + 1 = 1 /\ n - 0 = n
    BY <1>4
  <2>2. /\ SubSeq(wire, 0 + 1, n) \in Seq(Byte)
        /\ Len(SubSeq(wire, 0 + 1, n)) = n - 0
        /\ \A i \in 1 .. n - 0 : SubSeq(wire, 0 + 1, n)[i] = wire[0 + i]
    BY <1>4, <2>1, Slice
  <2>3. \A i \in 1 .. n : 0 + i = i
    OBVIOUS
  <2> QED BY <1>5, <2>1, <2>2, <2>3
<1>7. PICK q : q = Readable(put(b, d))
  OBVIOUS
<1> HIDE DEF b, r
<1>8. /\ Good(put(b, d)) /\ Len(put(b, d).buff_) = Len(b.buff_)
      /\ Len(q) = Len(r) + n
      /\ \A i \in 1 .. Len(r) : q[i] = r[i]
      /\ \A i \in 1 .. n : q[Len(r) + i] = d[i]
  <2>1. Len(d) <= writable_bytes(b)
    BY <1>1, <1>6 DEF space, b
  <2> QED BY <1>3, <1>6, <1>7, <2>1, PutAppends
<1>9. q \in Seq(Byte) /\ \A i \in 1 .. n : q[Len(r) + i] = wire[i]
  BY <1>6, <1>7, <1>8, ReadableBytes
<1>10. wire' \in Seq(Byte) /\ q \o wire' = r \o wire
  <2>1. Extends(q, r, Len(r)) /\ Behind(wire, n, q, Len(r))
    BY <1>8, <1>9 DEF Extends, Behind
  <2>2. wire' \in Seq(Byte)
    <3>1. n \in Nat /\ n <= Len(wire)
      BY <1>4
    <3> QED BY <1>1, <1>4, <3>1, Slice
  <2>3. Moved(r, wire, n, q, wire')
    BY <1>1, <1>8, <2>1 DEF Moved
  <2> QED BY <1>4, <1>9, <2>2, <2>3, ReadMoves
<1>11. buf' = put(b, d) /\ Readable(buf)' = q
  BY <1>1, <1>5, <1>7
<1>12. StreamType'
  BY <1>2, <1>3, <1>8, <1>10, <1>11 DEF StreamInv, StreamType
<1>13. InStep' => InStep
  BY <1>2, <1>3 DEF InStep
<1>14. OrderInv'
  BY <1>2, <1>10, <1>11, <1>13 DEF StreamInv, OrderInv, Ordered, r
<1>15. IdleInv' /\ NoFalseStop'
  BY <1>2, <1>13 DEF StreamInv, IdleInv, NoFalseStop
<1> QED BY <1>12, <1>14, <1>15 DEF StreamInv

LEMMA FailKeeps == StreamInv /\ on_read_failed => StreamInv'
<1> SUFFICES ASSUME StreamInv, on_read_failed PROVE StreamInv'
  OBVIOUS
<1>1. /\ buf' = reserve /\ at' = "poll" /\ processed' = processed
      /\ IF space = 0 THEN on_stop("space") ELSE on_stop("idle")
  BY DEF on_read_failed
<1>2. /\ conn' = "closing" /\ wire' = <<>> /\ sent' = sent /\ stale' = stale
      /\ IF space = 0 THEN why' = "space" ELSE why' = "idle"
  BY <1>1 DEF on_stop
<1>3. /\ Good(reserve) /\ Len(reserve.buff_) <= MaxSize
      /\ Readable(reserve) = Readable(buf) /\ readable_bytes(reserve) = readable
      /\ garbled' \in BOOLEAN /\ at # "parse" /\ ~garbled
      /\ space = 0 => readable > MaxSize - initialSize
  BY ReserveKeeps DEF on_read_failed
<1>4. Readable(buf)' = Readable(buf) /\ readable' = readable /\ (InStep' => InStep)
  <2>1. Readable(buf)' = Readable(buf') /\ readable' = readable_bytes(buf')
    BY DEF readable
  <2> QED BY <1>1, <1>2, <1>3, <2>1 DEF InStep
<1>5. StreamType'
  BY <1>1, <1>2, <1>3, EmptySeq DEF StreamInv, StreamType
<1>6. OrderInv'
  <2>1. /\ Readable(buf) \in Seq(Byte) /\ wire \in Seq(Byte)
        /\ sent \in Seq(Nat)
    BY ReadableBytes, LengthsAreNat, SeqMonotonic DEF StreamInv, StreamType
  <2>2. InOrder(Readable(buf) \o wire, sent, processed) =>
          InOrder(Readable(buf) \o <<>>, sent, processed)
    BY <2>1, LossInOrder
  <2> QED BY <1>1, <1>2, <1>4, <2>2 DEF StreamInv, OrderInv, Ordered
<1>7. InStep => Waits(readable, sent, processed)
  BY <1>3 DEF StreamInv, IdleInv
<1>8. IdleInv'
  BY <1>1, <1>2, <1>4, <1>7 DEF IdleInv
<1>9. ASSUME InStep, space = 0
      PROVE  \E m \in DOMAIN sent : sent[m] > MaxSize - initialSize + 1
  <2>1. initialSize \in Nat /\ MaxSize \in Nat /\ MaxSize - initialSize >= 0
    BY BufferAssumption DEF BufferAssumption, MaxSize
  <2>2. readable \in Nat /\ sent \in Seq(Lengths) /\ processed \in Nat
    BY ReadableBytes DEF StreamInv, StreamType, readable
  <2>3. processed + 1 \in 1 .. Len(sent) /\ readable < sent[processed + 1]
    BY <1>3, <1>7, <1>9, <2>1, <2>2 DEF Waits
  <2>4. processed + 1 \in DOMAIN sent /\ sent[processed + 1] \in Nat
    BY <2>2, <2>3, LenProperties, ElementOfSeq, LengthsAreNat
  <2>5. sent[processed + 1] > MaxSize - initialSize + 1
    BY <1>3, <1>9, <2>1, <2>2, <2>3, <2>4
  <2> QED BY <2>4, <2>5
<1>10. NoFalseStop'
  BY <1>2, <1>4, <1>9 DEF NoFalseStop
<1> QED BY <1>5, <1>6, <1>8, <1>10 DEF StreamInv

\* A message that is processed leaves the next one in front.
LEMMA MessageKeeps == StreamInv /\ on_recv_message => StreamInv'
<1> SUFFICES ASSUME StreamInv, on_recv_message PROVE StreamInv'
  OBVIOUS
<1> DEFINE r == Readable(buf)
           h == r \o wire
           p == processed
<1>1. PICK ret \in parse : ret > 0 /\ buf' = has_readed(buf, ret)
  BY DEF on_recv_message
<1>2. /\ at = "parse" /\ at' = at /\ garbled' = garbled /\ processed' = p + 1
      /\ \/ UNCHANGED <<conn, why, peerVars, conns, stale>>
         \/ conn = "up" /\ on_stop("asked")
  BY DEF on_recv_message
<1>3. /\ sent' = sent /\ stale' = stale /\ InStep' = InStep
      /\ \/ conn' = conn /\ why' = why /\ wire' = wire
         \/ conn' = "closing" /\ why' = "asked" /\ wire' = <<>>
  BY <1>2 DEF on_stop, peerVars, InStep
<1>4. /\ r \in Seq(Byte) /\ Len(r) = readable /\ readable \in Nat
      /\ wire \in Seq(Byte) /\ sent \in Seq(Lengths) /\ sent \in Seq(Nat)
      /\ p \in Nat /\ Good(buf)
  BY ReadableBytes, LengthsAreNat, SeqMonotonic DEF StreamInv, StreamType, readable
<1>5. InStep =>
        /\ readable > 0 /\ p + 1 \in 1 .. Len(sent) /\ sent[p + 1] \in Lengths
        /\ ret = sent[p + 1] /\ ret <= readable
  <2>1. SUFFICES ASSUME InStep
                 PROVE  /\ readable > 0 /\ p + 1 \in 1 .. Len(sent)
                        /\ sent[p + 1] \in Lengths
                        /\ ret = sent[p + 1] /\ ret <= readable
    OBVIOUS
  <2>2. readable > 0 /\ ret = pack_len /\ Complete
    BY <1>1, <1>4, <2>1, LengthsAreNat DEF parse
  <2>3. p + 1 \in 1 .. Len(sent) /\ sent[p + 1] \in Lengths /\ pack_len = sent[p + 1]
    BY <2>1, <2>2, FrontMessage DEF StreamInv
  <2>4. pack_len \in Nat
    BY <2>3, LengthsAreNat
  <2> QED BY <1>4, <2>2, <2>3, <2>4 DEF Complete
<1>6. ret \in Nat /\ ret \in 0 .. readable /\ ret \in 0 .. readable_bytes(buf)
  <2>1. CASE InStep
    BY <1>1, <1>4, <1>5, <2>1, LengthsAreNat DEF readable
  <2>2. CASE ~InStep
    BY <1>1, <1>4, <2>2 DEF parse, readable
  <2> QED BY <2>1, <2>2
<1>7. PICK q : q = Readable(has_readed(buf, ret))
  OBVIOUS
<1>8. /\ Good(has_readed(buf, ret)) /\ has_readed(buf, ret).buff_ = buf.buff_
      /\ q = SubSeq(r, ret + 1, Len(r))
  BY <1>4, <1>6, <1>7, ReadRest
<1>9. /\ q \in Seq(Byte) /\ q \o wire \in Seq(Byte) /\ h \in Seq(Byte)
      /\ Len(q \o wire) = Len(h) - ret
      /\ Behind(q \o wire, Len(q \o wire), h, ret)
      /\ Len(h) = Len(r) + Len(wire)
  <2>1. ret \in 0 .. Len(r)
    BY <1>4, <1>6
  <2>2. h \in Seq(Byte) /\ Len(h) = Len(r) + Len(wire)
    BY <1>4, ConcatProperties
  <2>3. /\ q \in Seq(Byte) /\ q \o wire \in Seq(Byte)
        /\ Len(q \o wire) = Len(h) - ret
        /\ Behind(q \o wire, Len(q \o wire), h, ret)
    <3>1. Taken(r, ret, q)
      BY <1>8, <2>1 DEF Taken
    <3> QED BY <1>4, <3>1, ProcessMoves
  <2> QED BY <2>2, <2>3
<1>10. Readable(buf)' = q /\ buf' = has_readed(buf, ret)
  BY <1>1, <1>7
<1>11. StreamType'
  <2>1. wire' \in Seq(Byte) /\ conn' \in {"up", "closing", "down"}
    BY <1>3, <1>4, EmptySeq DEF StreamInv, StreamType
  <2>2. conn' # "up" => wire' = <<>>
    BY <1>3 DEF StreamInv, StreamType
  <2>3. Good(buf') /\ Len(buf'.buff_) <= MaxSize
    BY <1>8, <1>10 DEF StreamInv, StreamType
  <2>4. processed' \in Nat
    BY <1>2, <1>4
  <2> QED BY <1>2, <1>3, <2>1, <2>2, <2>3, <2>4 DEF StreamInv, StreamType
<1>12. OrderInv'
  <2>1. SUFFICES ASSUME InStep PROVE Ordered(q, wire', sent, p + 1, conn')
    BY <1>2, <1>3, <1>10 DEF OrderInv
  <2>2. InOrder(h, sent, p) /\ (conn = "up" => AtEnd(h, sent, p))
    BY <2>1 DEF StreamInv, OrderInv, Ordered
  <2>3. Len(h) > 0 /\ ret <= Len(h)
    <3>1. Len(wire) \in Nat
      BY <1>4, LenProperties
    <3> QED BY <1>4, <1>5, <1>6, <1>9, <2>1, <3>1
  <2>4. PICK g : g = q \o wire
    OBVIOUS
  <2>5. sent[p + 1] = ret
    BY <1>5, <2>1
  <2>6. /\ g \in Seq(Byte) /\ Len(g) = Len(h) - ret
        /\ Behind(g, Len(g), h, ret)
    BY <1>9, <2>4
  <2> HIDE DEF h
  <2>7. InOrder(g, sent, p + 1) /\ (AtEnd(h, sent, p) => AtEnd(g, sent, p + 1))
    BY <1>4, <1>6, <1>9, <2>2, <2>3, <2>5, <2>6, RestInOrder
  <2>8. CASE wire' = wire /\ conn' = conn
    BY <2>2, <2>4, <2>7, <2>8 DEF Ordered
  <2>9. CASE wire' = <<>> /\ conn' = "closing"
    <3>1. InOrder(q \o <<>>, sent, p + 1)
      BY <1>4, <1>9, <2>4, <2>7, LossInOrder
    <3> QED BY <2>9, <3>1 DEF Ordered
  <2> QED BY <1>3, <2>8, <2>9
<1>13. IdleInv' /\ NoFalseStop'
  BY <1>2, <1>3 DEF StreamInv, IdleInv, NoFalseStop
<1> QED BY <1>11, <1>12, <1>13 DEF StreamInv

\* When on_recv ends, no whole message is left, and the header was right.
LEMMA EndKeeps == StreamInv /\ on_recv_ends => StreamInv'
<1> SUFFICES ASSUME StreamInv, on_recv_ends PROVE StreamInv'
  OBVIOUS
<1>1. /\ UNCHANGED <<buf, processed, garbled>>
      /\ \/ 0 \in parse /\ UNCHANGED <<conn, why, peerVars, conns, stale>>
         \/ /\ -1 \in parse
            /\ IF conn = "up" THEN on_stop("header")
                              ELSE UNCHANGED <<conn, why, peerVars, conns, stale>>
  BY DEF on_recv_ends
<1>2. readable \in Nat /\ sent \in Seq(Lengths) /\ processed \in Nat
  BY ReadableBytes DEF StreamInv, StreamType, readable
<1>3. ASSUME InStep PROVE parse \subseteq {0, pack_len} /\ -1 \notin parse
  <2>1. CASE readable < HeaderLen
    BY <1>3, <2>1 DEF parse
  <2>2. CASE ~(readable < HeaderLen)
    <3>1. readable > 0
      BY <1>2, <2>2, LengthsAreNat
    <3>2. /\ sent[processed + 1] \in Lengths
          /\ Head(Readable(buf)) = <<processed + 1, 1>>
          /\ pack_len = sent[processed + 1]
      BY <1>3, <3>1, FrontMessage DEF StreamInv
    <3>3. pack_len \in Nat
      BY <3>2, LengthsAreNat
    <3>4. Head(Readable(buf))[2] = 1
      BY <3>2
    <3> QED BY <1>3, <2>2, <3>3, <3>4 DEF parse
  <2> QED BY <2>1, <2>2
<1>4. ASSUME InStep, 0 \in parse PROVE Waits(readable, sent, processed)
  <2>1. CASE readable = 0
    BY <2>1 DEF Waits
  <2>2. CASE readable > 0
    <3>1. /\ processed + 1 \in 1 .. Len(sent) /\ sent[processed + 1] \in Lengths
          /\ Head(Readable(buf)) = <<processed + 1, 1>>
          /\ pack_len = sent[processed + 1]
      BY <1>4, <2>2, FrontMessage DEF StreamInv
    <3>2. pack_len \in Nat \ {0} /\ pack_len > HeaderLen
      BY <3>1, LengthsAreNat
    <3>3. readable < pack_len
      <4>1. CASE readable < HeaderLen
        BY <1>2, <3>2, <4>1, LengthsAreNat
      <4>2. CASE ~(readable < HeaderLen)
        <5>1. ~Complete
          BY <1>4, <3>1, <3>2, <4>2 DEF parse
        <5> QED BY <1>2, <3>2, <5>1 DEF Complete
      <4> QED BY <4>1, <4>2
    <3> QED BY <3>1, <3>3 DEF Waits
  <2> QED BY <1>2, <2>1, <2>2
<1>5. CASE UNCHANGED <<conn, why, peerVars, conns, stale>>
  <2>1. UNCHANGED <<conn, why, wire, sent, stale>>
    BY <1>5 DEF peerVars
  <2>2. /\ InStep' = InStep /\ readable' = readable
        /\ Readable(buf)' = Readable(buf)
    BY <1>1, <2>1 DEF InStep, readable
  <2>3. StreamType' /\ OrderInv'
    BY <1>1, <2>1, <2>2 DEF StreamInv, StreamType, OrderInv
  <2>4. InStep => 0 \in parse
    BY <1>1, <1>3
  <2>5. IdleInv' /\ NoFalseStop'
    BY <1>1, <1>4, <2>1, <2>2, <2>4 DEF StreamInv, IdleInv, NoFalseStop
  <2> QED BY <2>3, <2>5 DEF StreamInv
<1>6. CASE on_stop("header") /\ -1 \in parse
  <2>1. StreamType' /\ OrderInv' /\ InStep' = InStep
    BY <1>1, <1>6, StopKeeps
  <2>2. ~InStep
    BY <1>3, <1>6
  <2> QED BY <2>1, <2>2 DEF StreamInv, IdleInv, NoFalseStop
<1> QED BY <1>1, <1>5, <1>6

LEMMA StreamKeeps == StreamInv /\ [StreamNext]_streamVars => StreamInv'
<1> SUFFICES ASSUME StreamInv, [StreamNext]_streamVars PROVE StreamInv'
  OBVIOUS
<1>1. CASE on_read
  BY <1>1, ReadKeeps
<1>2. CASE on_recv_message
  BY <1>2, MessageKeeps
<1>3. CASE on_recv_ends
  BY <1>3, EndKeeps
<1>4. CASE on_read_failed
  BY <1>4, FailKeeps
<1>5. CASE send_packet
  BY <1>5, SendKeeps
<1>6. CASE Stop
  BY <1>6, AskedKeeps
<1>7. CASE on_close
  BY <1>7, CloseKeeps
<1>8. CASE on_connect
  BY <1>8, ConnectKeeps
<1>9. CASE UNCHANGED streamVars
  <2>1. UNCHANGED <<conn, buf, at, wire, sent, processed, why, garbled, stale>>
    BY <1>9 DEF streamVars, peerVars
  <2>2. /\ InStep' = InStep /\ readable' = readable
        /\ Readable(buf)' = Readable(buf)
    BY <2>1 DEF InStep, readable
  <2> QED BY <2>1, <2>2
       DEF StreamInv, StreamType, OrderInv, IdleInv, NoFalseStop
<1> QED BY <1>1, <1>2, <1>3, <1>4, <1>5, <1>6, <1>7, <1>8, <1>9
     DEF StreamNext, LoopStep

-----------------------------------------------------------------------------
(* The theorems on a connection.                                           *)

\* In blocks, each byte is followed by the next of its message or by the first
\* of the next message.
LEMMA BytesFollow ==
  ASSUME NEW h, NEW L \in Nat, NEW s, NEW M \in Nat,
         Blocks(h, L, s, M), Sizes(s, M),
         NEW k \in 1 .. L, NEW j \in 1 .. L, j = k + 1
  PROVE  h[j] = IF h[k][2] < s[h[k][1]] THEN <<h[k][1], h[k][2] + 1>>
                                        ELSE <<h[k][1] + 1, 1>>
<1> DEFINE m == h[k][1]
           a == h[k][2]
           c == s[m]
<1>1. /\ m \in 1 .. M /\ a \in 1 .. c
      /\ a + (j - k) \in 1 .. c => h[j] = <<m, a + (j - k)>>
      /\ a + (j - k) = c + 1 => h[j] = <<m + 1, 1>>
  BY TwoBytes
<1>2. j - k = 1 /\ c \in Nat /\ a \in Nat
  BY <1>1 DEF Sizes
<1> HIDE DEF m, a, c
<1>3. h[j] = IF a < c THEN <<m, a + 1>> ELSE <<m + 1, 1>>
  <2>1. CASE a < c
    <3>1. a + (j - k) \in 1 .. c /\ a + (j - k) = a + 1
      BY <1>1, <1>2, <2>1
    <3> QED BY <1>1, <2>1, <3>1
  <2>2. CASE ~(a < c)
    <3>1. a + (j - k) = c + 1
      BY <1>1, <1>2, <2>2
    <3> QED BY <1>1, <2>2, <3>1
  <2> QED BY <2>1, <2>2
<1> QED BY <1>3 DEF m, a, c

LEMMA OrderIsSync == StreamInv => InSync
<1> SUFFICES ASSUME StreamInv, InStep
             PROVE  /\ \A k \in DOMAIN Unread : Unread[k][1] \in DOMAIN sent
                    /\ Unread # <<>> => Unread[1] = <<processed + 1, 1>>
                    /\ \A k \in 1 .. Len(Unread) - 1 :
                         Unread[k + 1] = Following(Unread[k])
                    /\ conn = "up" =>
                         IF Unread = <<>>
                           THEN processed = Len(sent)
                           ELSE Following(Unread[Len(Unread)])
                                  = <<Len(sent) + 1, 1>>
  BY DEF InSync
<1> DEFINE h == Unread
           L == Len(h)
           M == Len(sent)
<1>1. /\ Readable(buf) \in Seq(Byte) /\ wire \in Seq(Byte)
      /\ sent \in Seq(Lengths) /\ sent \in Seq(Nat)
  BY ReadableBytes, LengthsAreNat, SeqMonotonic DEF StreamInv, StreamType
<1>2. h \in Seq(Byte)
  BY <1>1, ConcatProperties DEF Unread
<1>3. /\ L \in Nat /\ M \in Nat /\ Sizes(sent, M)
      /\ DOMAIN h = 1 .. L /\ DOMAIN sent = 1 .. M
      /\ h = <<>> <=> L = 0
  BY <1>1, <1>2, LenProperties, ElementOfSeq, EmptySeq DEF Sizes
<1>4. /\ Blocks(h, L, sent, M)
      /\ L > 0 => h[1] = <<processed + 1, 1>>
      /\ conn = "up" => IF L = 0 THEN processed = M ELSE h[L] = <<M, sent[M]>>
  BY DEF StreamInv, OrderInv, Ordered, InOrder, AtEnd, Unread
<1> HIDE DEF h, L, M
<1>5. ASSUME NEW k \in 1 .. L PROVE h[k][1] \in 1 .. M
  BY <1>4, TwoBytes
<1>6. h # <<>> => h[1] = <<processed + 1, 1>>
  BY <1>3, <1>4
<1>7. ASSUME NEW k \in 1 .. L - 1 PROVE h[k + 1] = Following(h[k])
  <2>1. k \in 1 .. L /\ k + 1 \in 1 .. L
    BY <1>3
  <2> QED BY <1>3, <1>4, <2>1, BytesFollow DEF Following
<1>8. ASSUME conn = "up", h # <<>> PROVE Following(h[L]) = <<M + 1, 1>>
  <2>1. h[L] = <<M, sent[M]>> /\ L \in 1 .. L
    BY <1>3, <1>4, <1>8
  <2>2. M \in 1 .. M
    BY <1>5, <2>1
  <2>3. sent[M] \in Nat
    BY <1>3, <2>2 DEF Sizes
  <2> QED BY <2>1, <2>3 DEF Following
<1>9. conn = "up" =>
        IF h = <<>> THEN processed = M ELSE Following(h[L]) = <<M + 1, 1>>
  BY <1>3, <1>4, <1>8
<1> QED BY <1>3, <1>5, <1>6, <1>7, <1>9 DEF h, L, M

\* The lasting truth of the invariant.
LEMMA StreamInvariant == StreamSpec => []StreamInv
  BY StreamStarts, StreamKeeps, PTL DEF StreamSpec

\* However the network and the buffer cut and move the bytes (on_alloc, on_read,
\* make_space, has_readed), those in the buffer and on their way are the messages
\* the peer has sent and on_recv has not processed, whole and in order.
THEOREM StreamInOrder == StreamSpec => []InSync
  BY StreamInvariant, OrderIsSync, PTL

\* A peer is not disconnected for a wrong header (parse), nor for lack of space
\* (on_alloc) unless a message of its leaves no room for a block of the buffer.
THEOREM NoPeerIsStoppedFalsely == StreamSpec => []NoFalseStop
<1>1. StreamInv => NoFalseStop
  BY DEF StreamInv
<1> QED BY <1>1, StreamInvariant, PTL

\* on_recv never leaves a whole message in the buffer: when the loop's thread is
\* not in it, nothing is readable, or less than the next message.
THEOREM NoMessageIsLeft == StreamSpec => []IdleInv
<1>1. StreamInv => IdleInv
  BY DEF StreamInv
<1> QED BY <1>1, StreamInvariant, PTL

=============================================================================
