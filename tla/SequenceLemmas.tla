--------------------------- MODULE SequenceLemmas ---------------------------
(***************************************************************************)
(* What the proofs about the components need to know of queues and stacks: *)
(* whether a task is in one, at one place at most, and whether the numbers *)
(* in two of them increase.                                                *)
(***************************************************************************)
EXTENDS Naturals, Sequences, SequenceTheorems, TLAPS

\* The task t is an element of the sequence s; of one place of s at most.
In(s, t) == \E i \in DOMAIN s : s[i] = t
Once(s, t) == \A i, j \in DOMAIN s : s[i] = t /\ s[j] = t => i = j

LEMMA EmptyHas == ASSUME NEW t PROVE ~In(<<>>, t) /\ Once(<<>>, t)
  BY DEF In, Once

LEMMA SingletonHas ==
  ASSUME NEW x, NEW t
  PROVE  (In(<<x>>, t) <=> x = t) /\ Once(<<x>>, t)
  BY DEF In, Once

\* Sequences of one and two elements.
LEMMA ShortSequences ==
  ASSUME NEW a, NEW b
  PROVE  /\ Tail(<<a>>) = <<>> /\ Tail(<<a, b>>) = <<b>>
         /\ Head(<<a>>) = a /\ Head(<<a, b>>) = a
         /\ <<>> \o <<a>> = <<a>> /\ <<a>> \o <<>> = <<a>>
         /\ <<a>> \o <<b>> = <<a, b>>
<1>1. Tail(<<a>>) = <<>> /\ Tail(<<a, b>>) = <<b>>
  OBVIOUS
<1>2. Head(<<a>>) = a /\ Head(<<a, b>>) = a
  OBVIOUS
<1>3. <<>> \o <<a>> = <<a>> /\ <<a>> \o <<>> = <<a>>
  OBVIOUS
<1>4. <<a>> \o <<b>> = <<a, b>>
  <2> DEFINE S == {a, b}
             x == <<a>>
             y == <<b>>
             z == <<a, b>>
  <2>1. /\ x \in Seq(S) /\ y \in Seq(S) /\ z \in Seq(S)
        /\ Len(x) = 1 /\ x[1] = a /\ Len(y) = 1 /\ y[1] = b
        /\ Len(z) = 2 /\ z[1] = a /\ z[2] = b
    OBVIOUS
  <2> HIDE DEF S, x, y, z
  <2>2. /\ x \o y \in Seq(S) /\ Len(x \o y) = Len(x) + Len(y)
        /\ \A i \in 1 .. Len(x) + Len(y) :
             (x \o y)[i] = IF i <= Len(x) THEN x[i] ELSE y[i - Len(x)]
    BY <2>1, ConcatProperties
  <2>3. 1 \in 1 .. Len(x) + Len(y) /\ 2 \in 1 .. Len(x) + Len(y)
        /\ 2 - Len(x) = 1 /\ ~(2 <= Len(x))
    BY <2>1
  <2>4. (x \o y)[1] = a /\ (x \o y)[2] = b
    BY <2>1, <2>2, <2>3
  <2>5. Len(x \o y) = 2 /\ \A i \in 1 .. 2 : (x \o y)[i] = z[i]
    BY <2>1, <2>2, <2>4
  <2>6. x \o y = z
    BY <2>1, <2>2, <2>5, SeqEqual
  <2> QED BY <2>6 DEF x, y, z
<1> QED BY <1>1, <1>2, <1>3, <1>4

\* Append keeps what a sequence has and adds the new element.
LEMMA AppendHas ==
  ASSUME NEW S, NEW s \in Seq(S), NEW x \in S, NEW t
  PROVE  /\ In(Append(s, x), t) <=> In(s, t) \/ x = t
         /\ Once(s, t) /\ (x = t => ~In(s, t)) => Once(Append(s, x), t)
<1> DEFINE r == Append(s, x)
           n == Len(s)
<1>1. /\ DOMAIN s = 1 .. n /\ DOMAIN r = 1 .. n + 1 /\ n \in Nat
      /\ \A i \in 1 .. n : r[i] = s[i]
      /\ r[n + 1] = x
  BY AppendProperties, LenProperties
<1>2. \A i \in DOMAIN r : i \in DOMAIN s \/ i = n + 1
  BY <1>1
<1>3. \A i \in DOMAIN s : i \in DOMAIN r
  BY <1>1
<1>4. n + 1 \in DOMAIN r
  BY <1>1
<1> HIDE DEF r, n
<1>5. In(r, t) <=> In(s, t) \/ x = t
  BY <1>1, <1>2, <1>3, <1>4 DEF In
<1>6. Once(s, t) /\ (x = t => ~In(s, t)) => Once(r, t)
  BY <1>1, <1>2 DEF In, Once
<1> QED BY <1>5, <1>6 DEF r

\* A sequence has what its head and its tail have.
LEMMA TailHas ==
  ASSUME NEW S, NEW s \in Seq(S), s # <<>>, NEW t
  PROVE  /\ Tail(s) \in Seq(S) /\ Head(s) \in S
         /\ In(s, t) <=> Head(s) = t \/ In(Tail(s), t)
         /\ Once(s, t) => Once(Tail(s), t) /\ (Head(s) = t => ~In(Tail(s), t))
<1> DEFINE r == Tail(s)
           n == Len(s)
<1>1. /\ DOMAIN s = 1 .. n /\ DOMAIN r = 1 .. n - 1 /\ n \in Nat \ {0}
      /\ \A i \in 1 .. n - 1 : r[i] = s[i + 1]
      /\ Head(s) = s[1]
      /\ Tail(s) \in Seq(S) /\ Head(s) \in S
  BY HeadTailProperties, LenProperties, EmptySeq
<1>2. /\ \A i \in DOMAIN r : i + 1 \in DOMAIN s /\ i + 1 # 1
      /\ \A i, j \in DOMAIN r : i + 1 = j + 1 => i = j
      /\ 1 \in DOMAIN s
  BY <1>1
<1>3. \A i \in DOMAIN s : i = 1 \/ (i - 1 \in DOMAIN r /\ s[i] = r[i - 1])
  BY <1>1
<1>4. \A i \in DOMAIN r : r[i] = s[i + 1]
  BY <1>1
<1> HIDE DEF r, n
<1>5. In(s, t) <=> s[1] = t \/ In(r, t)
  BY <1>2, <1>3, <1>4 DEF In
<1>6. Once(s, t) => Once(r, t) /\ (s[1] = t => ~In(r, t))
  BY <1>2, <1>4 DEF In, Once
<1> QED BY <1>1, <1>5, <1>6 DEF r

\* What is put in front of a sequence.
LEMMA PushHas ==
  ASSUME NEW S, NEW s \in Seq(S), NEW x \in S, NEW t
  PROVE  /\ <<x>> \o s \in Seq(S) /\ <<x>> \o s # <<>>
         /\ Head(<<x>> \o s) = x /\ Tail(<<x>> \o s) = s
         /\ In(<<x>> \o s, t) <=> x = t \/ In(s, t)
         /\ Once(s, t) /\ (x = t => ~In(s, t)) => Once(<<x>> \o s, t)
<1> DEFINE r == <<x>> \o s
           n == Len(s)
<1>1. /\ DOMAIN s = 1 .. n /\ DOMAIN r = 1 .. n + 1 /\ n \in Nat
      /\ \A i \in 1 .. n + 1 : r[i] = IF i = 1 THEN x ELSE s[i - 1]
      /\ r \in Seq(S) /\ r # <<>>
  OBVIOUS
<1>2. Head(r) = x /\ Tail(r) = s
  OBVIOUS
<1>3. /\ \A i \in DOMAIN r : i # 1 => i - 1 \in DOMAIN s /\ r[i] = s[i - 1]
      /\ \A i, j \in DOMAIN r : i # 1 /\ j # 1 /\ i - 1 = j - 1 => i = j
      /\ 1 \in DOMAIN r /\ r[1] = x
  BY <1>1
<1>4. \A i \in DOMAIN s : i + 1 \in DOMAIN r /\ r[i + 1] = s[i]
  BY <1>1
<1> HIDE DEF r, n
<1>5. In(r, t) <=> x = t \/ In(s, t)
  BY <1>3, <1>4 DEF In
<1>6. Once(s, t) /\ (x = t => ~In(s, t)) => Once(r, t)
  BY <1>3 DEF In, Once
<1> QED BY <1>1, <1>2, <1>5, <1>6 DEF r

\* A concatenation has what one of its parts has.
LEMMA ConcatHas ==
  ASSUME NEW S, NEW r \in Seq(S), NEW s \in Seq(S), NEW t
  PROVE  /\ r \o s \in Seq(S)
         /\ In(r \o s, t) <=> In(r, t) \/ In(s, t)
         /\ ~In(r, t) /\ Once(s, t) => Once(r \o s, t)
<1> DEFINE c == r \o s
           m == Len(r)
           n == Len(s)
<1>1. /\ DOMAIN s = 1 .. n /\ DOMAIN r = 1 .. m /\ DOMAIN c = 1 .. m + n
      /\ n \in Nat /\ m \in Nat
      /\ \A i \in 1 .. m + n : c[i] = IF i <= m THEN r[i] ELSE s[i - m]
      /\ c \in Seq(S)
  BY ConcatProperties, LenProperties
<1>2. /\ \A i \in DOMAIN c : \/ i \in DOMAIN r /\ c[i] = r[i]
                             \/ i - m \in DOMAIN s /\ c[i] = s[i - m]
      /\ \A i, j \in DOMAIN c : i - m = j - m => i = j
  BY <1>1
<1>3. /\ \A i \in DOMAIN r : i \in DOMAIN c /\ c[i] = r[i]
      /\ \A i \in DOMAIN s : i + m \in DOMAIN c /\ c[i + m] = s[i]
  BY <1>1
<1> HIDE DEF c, m, n
<1>4. In(c, t) <=> In(r, t) \/ In(s, t)
  BY <1>2, <1>3 DEF In
<1>5. ~In(r, t) /\ Once(s, t) => Once(c, t)
  BY <1>2 DEF In, Once
<1> QED BY <1>1, <1>4, <1>5 DEF c

\* Nothing is twice in a concatenation of parts that share nothing.
LEMMA ConcatOnce ==
  ASSUME NEW S, NEW r \in Seq(S), NEW s \in Seq(S), NEW t,
         Once(r, t), Once(s, t), ~(In(r, t) /\ In(s, t))
  PROVE  Once(r \o s, t)
<1> DEFINE c == r \o s
           m == Len(r)
           n == Len(s)
<1>1. /\ DOMAIN s = 1 .. n /\ DOMAIN r = 1 .. m /\ DOMAIN c = 1 .. m + n
      /\ n \in Nat /\ m \in Nat
      /\ \A i \in 1 .. m + n : c[i] = IF i <= m THEN r[i] ELSE s[i - m]
  BY ConcatProperties
<1>2. /\ \A i \in DOMAIN c : \/ i \in DOMAIN r /\ c[i] = r[i]
                             \/ i - m \in DOMAIN s /\ c[i] = s[i - m]
      /\ \A i, j \in DOMAIN c : i - m = j - m => i = j
  BY <1>1
<1> HIDE DEF c, m, n
<1>3. Once(c, t)
  BY <1>2 DEF In, Once
<1> QED BY <1>3 DEF c

\* Wherever t is in the sequence s, u is before it.
Before(s, t, u) == \A i \in DOMAIN s : s[i] = t => \E j \in DOMAIN s : j < i /\ s[j] = u

LEMMA AppendBefore ==
  ASSUME NEW S, NEW s \in Seq(S), NEW x \in S, NEW t, NEW u,
         Before(s, t, u), x = t => In(s, u)
  PROVE  Before(Append(s, x), t, u)
<1> DEFINE r == Append(s, x)
           n == Len(s)
<1>1. /\ DOMAIN s = 1 .. n /\ DOMAIN r = 1 .. n + 1 /\ n \in Nat
      /\ \A i \in 1 .. n : r[i] = s[i]
      /\ r[n + 1] = x
  BY AppendProperties
<1>2. /\ \A i \in DOMAIN r : i \in DOMAIN s \/ i = n + 1
      /\ \A i \in DOMAIN s : i \in DOMAIN r /\ r[i] = s[i] /\ i < n + 1
  BY <1>1
<1>3. r[n + 1] = x
  BY <1>1
<1> HIDE DEF r
<1>4. ASSUME NEW i \in DOMAIN r, r[i] = t
      PROVE  \E j \in DOMAIN r : j < i /\ r[j] = u
  <2>1. CASE i \in DOMAIN s
    BY <1>2, <1>4, <2>1 DEF Before
  <2>2. CASE i = n + 1
    BY <1>2, <1>3, <1>4, <2>2 DEF In
  <2> QED BY <1>2, <2>1, <2>2
<1>5. Before(r, t, u)
  BY <1>4 DEF Before
<1> QED BY <1>5 DEF r

LEMMA TailBefore ==
  ASSUME NEW S, NEW s \in Seq(S), s # <<>>, NEW t, NEW u, Before(s, t, u)
  PROVE  Head(s) # t /\ (Head(s) # u => Before(Tail(s), t, u))
<1> DEFINE r == Tail(s)
           n == Len(s)
<1>1. /\ DOMAIN s = 1 .. n /\ DOMAIN r = 1 .. n - 1 /\ n \in Nat \ {0}
      /\ \A i \in 1 .. n - 1 : r[i] = s[i + 1]
      /\ Head(s) = s[1]
  BY HeadTailProperties, EmptySeq
<1>2. /\ \A i \in DOMAIN r : i + 1 \in DOMAIN s /\ r[i] = s[i + 1] /\ i \in Nat
      /\ \A i \in DOMAIN s : i = 1 \/ (i - 1 \in DOMAIN r /\ s[i] = r[i - 1])
      /\ \A i \in DOMAIN s : ~(i < 1) /\ i \in Nat
      /\ 1 \in DOMAIN s
  BY <1>1
<1> HIDE DEF r, n
<1>3. Head(s) # t
  BY <1>1, <1>2 DEF Before
<1>4. ASSUME NEW i \in DOMAIN r, r[i] = t, Head(s) # u
      PROVE  \E j \in DOMAIN r : j < i /\ r[j] = u
  <2>1. PICK k \in DOMAIN s : k < i + 1 /\ s[k] = u
    BY <1>2, <1>4 DEF Before
  <2>2. k # 1
    BY <1>1, <1>4, <2>1
  <2>3. k - 1 \in DOMAIN r /\ r[k - 1] = u /\ k - 1 < i
    BY <1>2, <2>1, <2>2
  <2> QED BY <2>3
<1>5. Head(s) # u => Before(r, t, u)
  BY <1>4 DEF Before
<1> QED BY <1>3, <1>5 DEF r

-----------------------------------------------------------------------------
(* How a task moves: from a thread's call to the queue of the scheduler,   *)
(* from there to the stack of the loop's thread, and away.                 *)

\* With the calls c, the queue q and the stack s the task t is under way; and in
\* one place at most.
UnderWay(c, q, s, t) ==
  \/ \E th \in DOMAIN c : c[th] = t
  \/ In(q, t)
  \/ In(s, t)

InOnePlace(c, q, s, t) ==
  /\ Once(q, t) /\ Once(s, t)
  /\ ~(In(q, t) /\ In(s, t))
  /\ \A th \in DOMAIN c : c[th] = t =>
       /\ ~In(q, t) /\ ~In(s, t)
       /\ \A other \in DOMAIN c : c[other] = t => other = th

\* A thread without a call begins to call x.
LEMMA CallMoves ==
  ASSUME NEW T, NEW V, NEW c \in [T -> V], NEW q, NEW s, NEW x, NEW t,
         NEW th \in T, c[th] # t
  PROVE  LET d == [c EXCEPT ![th] = x]
         IN /\ UnderWay(d, q, s, t) <=> UnderWay(c, q, s, t) \/ t = x
            /\ InOnePlace(c, q, s, t) /\ (t = x => ~UnderWay(c, q, s, t))
                 => InOnePlace(d, q, s, t)
  BY DEF UnderWay, InOnePlace

\* It posts the call, and is without one again.
LEMMA PostMoves ==
  ASSUME NEW T, NEW V, NEW c \in [T -> V], NEW S, NEW q \in Seq(S), NEW s,
         NEW t, NEW none, none # t, NEW th \in T, c[th] \in S
  PROVE  LET d == [c EXCEPT ![th] = none]
             r == Append(q, c[th])
         IN /\ UnderWay(d, r, s, t) <=> UnderWay(c, q, s, t)
            /\ InOnePlace(c, q, s, t) => InOnePlace(d, r, s, t)
<1> DEFINE r == Append(q, c[th])
<1>1. /\ In(r, t) <=> In(q, t) \/ c[th] = t
      /\ Once(q, t) /\ (c[th] = t => ~In(q, t)) => Once(r, t)
  BY AppendHas
<1> HIDE DEF r
<1>2. LET d == [c EXCEPT ![th] = none]
      IN /\ UnderWay(d, r, s, t) <=> UnderWay(c, q, s, t)
         /\ InOnePlace(c, q, s, t) => InOnePlace(d, r, s, t)
  BY <1>1 DEF UnderWay, InOnePlace
<1> QED BY <1>2 DEF r

\* The loop's thread calls x inside the call at the top of the stack.
LEMMA InlineMoves ==
  ASSUME NEW c, NEW q, NEW S, NEW s \in Seq(S), NEW x \in S, NEW t
  PROVE  /\ UnderWay(c, q, <<x>> \o s, t) <=> UnderWay(c, q, s, t) \/ t = x
         /\ InOnePlace(c, q, s, t) /\ (t = x => ~UnderWay(c, q, s, t))
              => InOnePlace(c, q, <<x>> \o s, t)
<1> DEFINE r == <<x>> \o s
<1>1. /\ In(r, t) <=> x = t \/ In(s, t)
      /\ Once(s, t) /\ (x = t => ~In(s, t)) => Once(r, t)
  BY PushHas
<1> HIDE DEF r
<1>2. /\ UnderWay(c, q, r, t) <=> UnderWay(c, q, s, t) \/ t = x
      /\ InOnePlace(c, q, s, t) /\ (t = x => ~UnderWay(c, q, s, t))
           => InOnePlace(c, q, r, t)
  BY <1>1 DEF UnderWay, InOnePlace
<1> QED BY <1>2 DEF r

\* The idle loop runs the first task of the queue.
LEMMA RunMoves ==
  ASSUME NEW c, NEW S, NEW q \in Seq(S), q # <<>>, NEW t
  PROVE  /\ UnderWay(c, Tail(q), <<Head(q)>>, t) <=> UnderWay(c, q, <<>>, t)
         /\ InOnePlace(c, q, <<>>, t) => InOnePlace(c, Tail(q), <<Head(q)>>, t)
<1> DEFINE r == Tail(q)
           s == <<Head(q)>>
<1>1. /\ In(q, t) <=> Head(q) = t \/ In(r, t)
      /\ Once(q, t) => Once(r, t) /\ (Head(q) = t => ~In(r, t))
      /\ In(s, t) <=> Head(q) = t
      /\ Once(s, t) /\ ~In(<<>>, t)
  BY TailHas, SingletonHas, EmptyHas
<1> HIDE DEF r, s
<1>2. /\ UnderWay(c, r, s, t) <=> UnderWay(c, q, <<>>, t)
      /\ InOnePlace(c, q, <<>>, t) => InOnePlace(c, r, s, t)
  BY <1>1 DEF UnderWay, InOnePlace
<1> QED BY <1>2 DEF r, s

\* The code fs, without the task t, replaces the call at the top of the stack.
LEMMA ContinueMoves ==
  ASSUME NEW c, NEW q, NEW S, NEW s \in Seq(S), s # <<>>, NEW fs \in Seq(S),
         NEW t, ~In(fs, t)
  PROVE  LET r == fs \o Tail(s)
         IN /\ In(r, t) <=> In(Tail(s), t)
            /\ In(s, t) <=> Head(s) = t \/ In(r, t)
            /\ UnderWay(c, q, r, t) => UnderWay(c, q, s, t)
            /\ InOnePlace(c, q, s, t) =>
                 InOnePlace(c, q, r, t) /\ (Head(s) = t => ~UnderWay(c, q, r, t))
<1> DEFINE r == fs \o Tail(s)
<1>1. /\ Tail(s) \in Seq(S)
      /\ In(s, t) <=> Head(s) = t \/ In(Tail(s), t)
      /\ Once(s, t) =>
           Once(Tail(s), t) /\ (Head(s) = t => ~In(Tail(s), t))
  BY TailHas
<1>2. /\ In(r, t) <=> In(Tail(s), t)
      /\ Once(Tail(s), t) => Once(r, t)
  BY <1>1, ConcatHas
<1> HIDE DEF r
<1>3. /\ In(r, t) <=> In(Tail(s), t)
      /\ In(s, t) <=> Head(s) = t \/ In(r, t)
      /\ UnderWay(c, q, r, t) => UnderWay(c, q, s, t)
      /\ InOnePlace(c, q, s, t) =>
           InOnePlace(c, q, r, t) /\ (Head(s) = t => ~UnderWay(c, q, r, t))
  BY <1>1, <1>2 DEF UnderWay, InOnePlace
<1> QED BY <1>3 DEF r

-----------------------------------------------------------------------------
(* Numbers that increase.                                                  *)

\* The numbers in b increase; so do those in q, none of which is below one in b;
\* and all are n at most.
Ordered(b, q, n) ==
  /\ \A i, j \in 1 .. Len(b) : i < j => b[i] < b[j]
  /\ \A i, j \in 1 .. Len(q) : i < j => q[i] < q[j]
  /\ \A i \in 1 .. Len(b), j \in 1 .. Len(q) : b[i] <= q[j]
  /\ \A i \in 1 .. Len(b) : b[i] <= n
  /\ \A i \in 1 .. Len(q) : q[i] <= n

\* A new number goes to the end of q, the first number of q goes, and that which
\* is first then, if it is new to b, goes to the end of b as well.
LEMMA QueueKeepsOrder ==
  ASSUME NEW b \in Seq(Nat), NEW q \in Seq(Nat), NEW n \in Nat, Ordered(b, q, n)
  PROVE  Ordered(b, Append(q, n + 1), n + 1)
<1>1. /\ Len(Append(q, n + 1)) = Len(q) + 1
      /\ \A i \in 1 .. Len(q) : Append(q, n + 1)[i] = q[i]
      /\ Append(q, n + 1)[Len(q) + 1] = n + 1
      /\ Len(q) \in Nat /\ Len(b) \in Nat
  OBVIOUS
<1>2. /\ \A i \in 1 .. Len(q) : q[i] \in Nat
      /\ \A i \in 1 .. Len(b) : b[i] \in Nat
  OBVIOUS
<1> DEFINE r == Append(q, n + 1)
<1>3. \A i \in 1 .. Len(r) : i \in 1 .. Len(q) \/ i = Len(q) + 1
  BY <1>1
<1> HIDE DEF r
<1>4. ASSUME NEW i \in 1 .. Len(r), NEW j \in 1 .. Len(r), i < j
      PROVE  r[i] < r[j]
  <2>1. i \in 1 .. Len(q) /\ r[i] = q[i] /\ q[i] \in Nat
    BY <1>1, <1>2, <1>3, <1>4 DEF r
  <2>2. CASE j \in 1 .. Len(q)
    BY <1>1, <1>4, <2>1, <2>2 DEF Ordered, r
  <2>3. CASE j = Len(q) + 1
    <3>1. q[i] <= n /\ r[j] = n + 1
      BY <1>1, <2>1, <2>3 DEF Ordered, r
    <3> QED BY <2>1, <3>1
  <2> QED BY <1>3, <1>4, <2>2, <2>3
<1>5. ASSUME NEW i \in 1 .. Len(b), NEW j \in 1 .. Len(r)
      PROVE  b[i] <= r[j]
  <2>1. CASE j \in 1 .. Len(q)
    BY <1>1, <2>1 DEF Ordered, r
  <2>2. CASE j = Len(q) + 1
    <3>1. b[i] <= n /\ r[j] = n + 1 /\ b[i] \in Nat
      BY <1>1, <1>2, <2>2 DEF Ordered, r
    <3> QED BY <3>1
  <2> QED BY <1>3, <1>5, <2>1, <2>2
<1>6. ASSUME NEW i \in 1 .. Len(b) PROVE b[i] <= n + 1
  <2>1. b[i] <= n /\ b[i] \in Nat
    BY <1>2 DEF Ordered
  <2> QED BY <2>1
<1>7. ASSUME NEW i \in 1 .. Len(r) PROVE r[i] <= n + 1
  <2>1. CASE i \in 1 .. Len(q)
    <3>1. r[i] = q[i] /\ q[i] <= n /\ q[i] \in Nat
      BY <1>1, <1>2, <2>1 DEF Ordered, r
    <3> QED BY <3>1
  <2>2. CASE i = Len(q) + 1
    BY <1>1, <2>2 DEF r
  <2> QED BY <1>3, <1>7, <2>1, <2>2
<1>8. \A i, j \in 1 .. Len(b) : i < j => b[i] < b[j]
  BY DEF Ordered
<1>9. Ordered(b, r, n + 1)
  BY <1>4, <1>5, <1>6, <1>7, <1>8 DEF Ordered
<1> QED BY <1>9 DEF r

LEMMA PopKeepsOrder ==
  ASSUME NEW b \in Seq(Nat), NEW q \in Seq(Nat), NEW n \in Nat, q # <<>>,
         Ordered(b, q, n)
  PROVE  /\ Ordered(b, Tail(q), n)
         /\ \A i \in 1 .. Len(b), j \in 1 .. Len(Tail(q)) : b[i] < Tail(q)[j]
<1> DEFINE t == Tail(q)
<1>1. /\ Len(q) \in Nat \ {0} /\ Len(t) = Len(q) - 1
      /\ \A i \in 1 .. Len(t) : t[i] = q[i + 1]
      /\ \A i \in 1 .. Len(b) : b[i] \in Nat
      /\ \A i \in 1 .. Len(q) : q[i] \in Nat
  BY HeadTailProperties, EmptySeq
<1>2. /\ \A i \in 1 .. Len(t) : i + 1 \in 1 .. Len(q) /\ 1 < i + 1
      /\ 1 \in 1 .. Len(q)
  BY <1>1
<1> HIDE DEF t
<1>3. ASSUME NEW i \in 1 .. Len(t), NEW j \in 1 .. Len(t), i < j
      PROVE  t[i] < t[j]
  <2>1. i + 1 \in 1 .. Len(q) /\ j + 1 \in 1 .. Len(q) /\ i + 1 < j + 1
    BY <1>2, <1>3
  <2> QED BY <1>1, <2>1 DEF Ordered
<1>4. ASSUME NEW i \in 1 .. Len(b), NEW j \in 1 .. Len(t)
      PROVE  b[i] < t[j]
  <2>1. b[i] <= q[1] /\ q[1] < q[j + 1] /\ q[j + 1] \in Nat /\ q[1] \in Nat
    BY <1>1, <1>2 DEF Ordered
  <2> QED BY <1>1, <2>1
<1>5. \A i \in 1 .. Len(b), j \in 1 .. Len(t) : b[i] <= t[j]
  <2>1. \A j \in 1 .. Len(t) : t[j] \in Nat
    BY <1>1, <1>2
  <2> QED BY <1>1, <1>4, <2>1
<1>6. \A i \in 1 .. Len(t) : t[i] <= n
  BY <1>1, <1>2 DEF Ordered
<1>7. Ordered(b, t, n)
  BY <1>3, <1>5, <1>6 DEF Ordered
<1> QED BY <1>4, <1>7 DEF t

LEMMA WriteKeepsOrder ==
  ASSUME NEW b \in Seq(Nat), NEW q \in Seq(Nat), NEW n \in Nat, q # <<>>,
         Ordered(b, q, n), \A i \in 1 .. Len(b) : b[i] < q[1]
  PROVE  Ordered(Append(b, Head(q)), q, n)
<1> DEFINE a == Append(b, q[1])
<1>1. /\ Len(a) = Len(b) + 1 /\ a[Len(b) + 1] = q[1] /\ Len(b) \in Nat
      /\ \A i \in 1 .. Len(b) : a[i] = b[i]
      /\ Head(q) = q[1] /\ Len(q) \in Nat \ {0}
      /\ \A i \in 1 .. Len(q) : q[i] \in Nat
  BY EmptySeq
<1>2. /\ \A i \in 1 .. Len(a) : i \in 1 .. Len(b) \/ i = Len(b) + 1
      /\ 1 \in 1 .. Len(q)
      /\ \A j \in 1 .. Len(q) : j = 1 \/ 1 < j
  BY <1>1
<1> HIDE DEF a
<1>3. ASSUME NEW i \in 1 .. Len(a), NEW j \in 1 .. Len(a), i < j
      PROVE  a[i] < a[j]
  <2>1. i \in 1 .. Len(b)
    BY <1>1, <1>2, <1>3
  <2> QED BY <1>1, <1>2, <1>3, <2>1 DEF Ordered
<1>4. ASSUME NEW i \in 1 .. Len(a), NEW j \in 1 .. Len(q)
      PROVE  a[i] <= q[j]
  <2>1. q[1] <= q[j]
    <3>1. q[1] \in Nat /\ q[j] \in Nat /\ (j = 1 \/ q[1] < q[j])
      BY <1>1, <1>2 DEF Ordered
    <3> QED BY <3>1
  <2> QED BY <1>1, <1>2, <2>1 DEF Ordered
<1>5. \A i \in 1 .. Len(a) : a[i] <= n
  BY <1>1, <1>2 DEF Ordered
<1>6. Ordered(a, q, n)
  BY <1>3, <1>4, <1>5 DEF Ordered
<1> QED BY <1>1, <1>6 DEF a

LEMMA ForgetKeepsOrder ==
  ASSUME NEW b, NEW q, NEW n, Ordered(b, q, n)
  PROVE  Ordered(b, <<>>, n)
  BY DEF Ordered

=============================================================================
