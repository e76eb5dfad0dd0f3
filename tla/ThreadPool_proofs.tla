-------------------------- MODULE ThreadPool_proofs --------------------------
(***************************************************************************)
(* Theorems about ThreadPool, for every set of workers, every limit of the *)
(* queue, and every number of tasks and restarts.                          *)
(***************************************************************************)
EXTENDS ThreadPool, FiniteSetTheorems, SequenceLemmas

-----------------------------------------------------------------------------
(* Type correctness.                                                       *)

\* A worker that is not among the threads of the pool does not run: those of
\* the last start() have all been joined (stopped, start).
StrangersAreIdle == \A w \in Workers \ threads_ : pc[w] = "none"

\* The owner joins all the workers or is not in stop().
JoinsAll == stopping => threads_ = Workers

TypeInv == TypeOK /\ StrangersAreIdle /\ JoinsAll

\* A notification wakes one waiter or none.
LEMMA NotifyOne ==
  ASSUME pc \in [Workers -> {"none", "pop", "wait", "call", "run", "done"}], notify_one
  PROVE  \/ Waiters = {} /\ pc' = pc
         \/ \E w \in Workers : pc[w] = "wait" /\ pc' = [pc EXCEPT ![w] = "pop"]
  BY DEF notify_one, Waiters

LEMMA TypeInit == Init => TypeInv
<1> SUFFICES ASSUME Init PROVE TypeInv
  OBVIOUS
<1>1. starts \in 0 .. MaxStarts /\ appended \in 0 .. MaxAppends
  BY PoolAssumption DEF Init, PoolAssumption
<1>2. max_count_ > 0 => Len(queue_) <= max_count_
  BY DEF Init
<1>3. pc \in [Workers -> {"none", "pop", "wait", "call", "run", "done"}]
  BY DEF Init
<1>4. queue_ \in Seq(Nat) /\ begun \in Seq(Nat) /\ task \in [Workers -> Nat]
  BY DEF Init
<1>5. \A w \in Workers : pc[w] = "none"
  BY DEF Init
<1> QED
  BY <1>1, <1>2, <1>3, <1>4, <1>5
  DEF Init, TypeInv, TypeOK, StrangersAreIdle, JoinsAll

LEMMA TypeNext == TypeInv /\ [Next]_vars => TypeInv'
<1> SUFFICES ASSUME TypeInv, [Next]_vars PROVE TypeInv'
  OBVIOUS
<1> USE DEF queueVars, poolVars
<1> DEFINE States == {"none", "pop", "wait", "call", "run", "done"}
<1>1. CASE start
  <2>1. starts' \in 0 .. MaxStarts
    BY <1>1, PoolAssumption DEF start, TypeInv, TypeOK, PoolAssumption
  <2>2. max_count_' \in Limits /\ queue_' = <<>> /\ exit_' = FALSE
    BY <1>1 DEF start
  <2>3. max_count_' > 0 => Len(queue_') <= max_count_'
    BY <2>2, PoolAssumption DEF PoolAssumption
  <2>4. PICK w \in Workers : threads_' = {w} /\ pc' = [pc EXCEPT ![w] = "pop"]
    BY <1>1 DEF start
  <2>5. /\ StrangersAreIdle'
        /\ pc' \in [Workers -> States]
        /\ threads_' \subseteq Workers /\ threads_' # {}
    BY <1>1, <2>4 DEF start, TypeInv, TypeOK, StrangersAreIdle
  <2>6. queue_' \in Seq(Nat)
    BY <2>2
  <2> QED
    BY <1>1, <2>1, <2>2, <2>3, <2>5, <2>6
    DEF start, Owner, TypeInv, TypeOK, JoinsAll
<1>2. CASE add_thread
  <2>1. PICK w \in Workers \ threads_ :
               threads_' = threads_ \cup {w} /\ pc' = [pc EXCEPT ![w] = "pop"]
    BY <1>2 DEF add_thread
  <2>2. /\ StrangersAreIdle'
        /\ pc' \in [Workers -> States]
        /\ threads_' \subseteq Workers /\ threads_' # {}
    BY <2>1 DEF TypeInv, TypeOK, StrangersAreIdle
  <2> QED
    BY <1>2, <2>2 DEF add_thread, Owner, TypeInv, TypeOK, JoinsAll
<1>3. CASE stop
  <2>1. pc' = [w \in Workers |-> IF pc[w] = "wait" THEN "pop" ELSE pc[w]]
    BY <1>3 DEF stop, notify_exit, notify_all
  <2>2. Workers # {}
    BY PoolAssumption DEF PoolAssumption
  <2> QED
    BY <1>3, <2>1, <2>2
    DEF stop, notify_exit, TypeInv, TypeOK, StrangersAreIdle, JoinsAll
<1>4. CASE stopped
  <2>1. \A w \in Workers : pc[w] = "none" \/ pc[w] = "done"
    BY <1>4 DEF stopped, Joined, TypeInv, StrangersAreIdle
  <2>2. pc' \in [Workers -> States] /\ \A w \in Workers : pc'[w] = "none"
    BY <1>4, <2>1 DEF stopped
  <2> QED
    BY <1>4, <2>2 DEF stopped, TypeInv, TypeOK, StrangersAreIdle, JoinsAll
<1>5. CASE append
  <2>1. appended' \in 0 .. MaxAppends /\ appended' \in Nat
    BY <1>5, PoolAssumption DEF append, TypeInv, TypeOK, PoolAssumption
  <2>2. queue_' \in Seq(Nat) /\ Len(queue_') = Len(queue_) + 1
    BY <1>5, <2>1 DEF append, TypeInv, TypeOK
  <2>3. max_count_ \in Nat
    BY PoolAssumption DEF TypeInv, TypeOK, PoolAssumption
  <2>4. max_count_' > 0 => Len(queue_') <= max_count_'
    BY <1>5, <2>2, <2>3 DEF append, Full, TypeInv, TypeOK
  <2>5. /\ pc' \in [Workers -> States]
        /\ \A w \in Workers : pc[w] = "none" => pc'[w] = "none"
    BY <1>5, NotifyOne DEF append, notify_push, TypeInv, TypeOK
  <2> QED
    BY <1>5, <2>1, <2>2, <2>4, <2>5
    DEF append, TypeInv, TypeOK, StrangersAreIdle, JoinsAll
<1>6. ASSUME NEW w \in Workers, pop(w)
      PROVE  TypeInv'
  <2>1. /\ pc[w] # "none"
        /\ \E s \in {"wait", "done", "call"} : pc' = [pc EXCEPT ![w] = s]
    BY <1>6 DEF pop
  <2>2. /\ pc' \in [Workers -> States]
        /\ \A v \in Workers : pc[v] = "none" => pc'[v] = "none"
    BY <2>1 DEF TypeInv, TypeOK
  <2>3. /\ queue_' \in Seq(Nat) /\ task' \in [Workers -> Nat]
        /\ Len(queue_') <= Len(queue_)
    <3>1. CASE queue_' = queue_ /\ task' = task
      BY <3>1 DEF TypeInv, TypeOK
    <3>2. CASE queue_ # <<>> /\ queue_' = Tail(queue_)
               /\ task' = [task EXCEPT ![w] = Head(queue_)]
      BY <3>2, HeadTailProperties DEF TypeInv, TypeOK
    <3> QED BY <1>6, <3>1, <3>2 DEF pop, take, must_wait
  <2>4. max_count_ \in Nat
    BY PoolAssumption DEF TypeInv, TypeOK, PoolAssumption
  <2>5. max_count_' > 0 => Len(queue_') <= max_count_'
    BY <1>6, <2>3, <2>4 DEF pop, TypeInv, TypeOK
  <2> QED
    BY <1>6, <2>2, <2>3, <2>5
    DEF pop, TypeInv, TypeOK, StrangersAreIdle, JoinsAll
<1>7. ASSUME NEW w \in Workers, call(w) \/ Spurious(w) \/ TaskReturns(w)
      PROVE  TypeInv'
  <2>1. /\ pc[w] # "none"
        /\ \E s \in {"run", "pop"} : pc' = [pc EXCEPT ![w] = s]
    BY <1>7 DEF call, Spurious, TaskReturns
  <2>2. /\ pc' \in [Workers -> States]
        /\ \A v \in Workers : pc[v] = "none" => pc'[v] = "none"
    BY <2>1 DEF TypeInv, TypeOK
  <2>3. begun' \in Seq(Nat) /\ task' \in [Workers -> Nat]
    <3>1. task[w] \in Nat /\ begun \in Seq(Nat) /\ task \in [Workers -> Nat]
      BY DEF TypeInv, TypeOK
    <3>2. CASE begun' = begun /\ task' = task
      BY <3>1, <3>2
    <3>3. CASE begun' = Append(begun, task[w]) /\ task' = [task EXCEPT ![w] = 0]
      BY <3>1, <3>3, AppendProperties
    <3> QED BY <1>7, <3>2, <3>3 DEF call, Spurious, TaskReturns
  <2>4. UNCHANGED <<queueVars, poolVars, appended>>
    BY <1>7 DEF call, Spurious, TaskReturns
  <2> QED
    BY <2>2, <2>3, <2>4 DEF TypeInv, TypeOK, StrangersAreIdle, JoinsAll
<1>8. CASE UNCHANGED vars
  BY <1>8 DEF vars, TypeInv, TypeOK, StrangersAreIdle, JoinsAll
<1> QED
  BY <1>1, <1>2, <1>3, <1>4, <1>5, <1>6, <1>7, <1>8 DEF Next

LEMMA TypeInvariant == Spec => []TypeInv
  BY TypeInit, TypeNext, PTL DEF Spec

\* Every reachable state is well typed: the queue keeps the limit of its pool,
\* and start() finds no worker of the last run (start, stop, push, pop).
THEOREM TypeCorrect == Spec => []TypeOK
  BY TypeInvariant, PTL DEF TypeInv


-----------------------------------------------------------------------------
(* No wake-up is lost.                                                     *)

\* Once exit_ is set nobody waits, until start() clears it (notify_exit, pop).
ExitWakes == exit_ => Waiters = {}

LEMMA AwakeIsFinite == IsFiniteSet(Awake) /\ Cardinality(Awake) \in Nat
<1>1. Awake \subseteq Workers
  BY DEF Awake
<1> QED BY <1>1, PoolAssumption, FS_Subset, FS_CardinalityType DEF PoolAssumption

\* One worker more is awake, or one less.
LEMMA OneMoreAwake ==
  ASSUME NEW w \in Workers, pc[w] # "pop", Awake' = Awake \cup {w}
  PROVE  Cardinality(Awake') = Cardinality(Awake) + 1
<1>1. w \notin Awake
  BY DEF Awake
<1> QED BY <1>1, AwakeIsFinite, FS_AddElement

LEMMA OneLessAwake ==
  ASSUME NEW w \in Workers, pc[w] = "pop", Awake' = Awake \ {w}
  PROVE  Cardinality(Awake') = Cardinality(Awake) - 1
<1>1. w \in Awake
  BY DEF Awake
<1> QED BY <1>1, AwakeIsFinite, FS_RemoveElement

WokenInv == WorkIsWoken /\ ExitWakes

LEMMA WokenInit == Init => WokenInv
  BY DEF Init, WokenInv, WorkIsWoken, ExitWakes, Waiters

LEMMA WokenNext == TypeInv /\ WokenInv /\ [Next]_vars => WokenInv'
<1> SUFFICES ASSUME TypeInv, WokenInv, [Next]_vars PROVE WokenInv'
  OBVIOUS
<1> USE DEF queueVars, poolVars
<1> DEFINE a == Cardinality(Awake)
           n == Len(queue_)
<1>1. a \in Nat /\ n \in Nat /\ queue_ \in Seq(Nat)
      /\ pc \in [Workers -> {"none", "pop", "wait", "call", "run", "done"}]
  BY AwakeIsFinite DEF TypeInv, TypeOK
<1>2. Waiters # {} => a >= n
  BY DEF WokenInv, WorkIsWoken
\* An action that wakes a worker, or lets it sleep no longer, keeps the count.
<1>3. ASSUME NEW w \in Workers, pc[w] # "pop", pc' = [pc EXCEPT ![w] = "pop"]
      PROVE  Cardinality(Awake') = a + 1 /\ Waiters' \subseteq Waiters
  <2>1. Awake' = Awake \cup {w} /\ Waiters' \subseteq Waiters
    BY <1>1, <1>3 DEF Awake, Waiters
  <2> QED BY <1>3, <2>1, OneMoreAwake
<1>4. CASE start
  <2>1. PICK w \in Workers : pc' = [pc EXCEPT ![w] = "pop"]
    BY <1>4 DEF start
  <2>2. pc[w] = "none"
    BY <1>4 DEF start, TypeInv, TypeOK
  <2>3. Len(queue_') = 0 /\ ~exit_'
    BY <1>4 DEF start
  <2>4. Cardinality(Awake') = a + 1
    BY <1>3, <2>1, <2>2
  <2> QED BY <1>1, <2>3, <2>4 DEF WokenInv, WorkIsWoken, ExitWakes
<1>5. CASE add_thread
  <2>1. PICK w \in Workers \ threads_ : pc' = [pc EXCEPT ![w] = "pop"]
    BY <1>5 DEF add_thread
  <2>2. pc[w] = "none"
    BY <2>1 DEF TypeInv, StrangersAreIdle
  <2>3. UNCHANGED <<queue_, exit_>>
    BY <1>5 DEF add_thread
  <2>4. Cardinality(Awake') = a + 1 /\ Waiters' \subseteq Waiters
    BY <1>3, <2>1, <2>2
  <2> QED
    BY <1>1, <1>2, <2>3, <2>4 DEF WokenInv, WorkIsWoken, ExitWakes
<1>6. CASE stop
  <2>1. Waiters' = {}
    BY <1>6 DEF stop, notify_exit, notify_all, Waiters
  <2> QED BY <2>1 DEF WokenInv, WorkIsWoken, ExitWakes
<1>7. CASE stopped
  <2>1. /\ Awake' = Awake /\ Waiters' = Waiters
        /\ UNCHANGED <<queue_, exit_>>
    BY <1>7 DEF stopped, Awake, Waiters
  <2> QED BY <2>1 DEF WokenInv, WorkIsWoken, ExitWakes
<1>8. CASE append
  <2>1. Len(queue_') = n + 1 /\ exit_' = exit_
    BY <1>1, <1>8 DEF append, TypeInv, TypeOK
  <2>2. CASE Waiters = {} /\ pc' = pc
    <3>1. Waiters' = {}
      BY <2>2 DEF Waiters
    <3> QED BY <3>1 DEF WokenInv, WorkIsWoken, ExitWakes
  <2>3. ASSUME NEW w \in Workers, pc[w] = "wait", pc' = [pc EXCEPT ![w] = "pop"]
        PROVE  WokenInv'
    <3>1. Waiters # {}
      BY <2>3 DEF Waiters
    <3>2. Cardinality(Awake') = a + 1 /\ Waiters' \subseteq Waiters
      BY <1>3, <2>3
    <3> QED
      BY <1>1, <1>2, <2>1, <3>1, <3>2 DEF WokenInv, WorkIsWoken, ExitWakes
  <2> QED BY <1>1, <1>8, <2>2, <2>3, NotifyOne DEF append, notify_push
<1>9. ASSUME NEW w \in Workers, pop(w)
      PROVE  WokenInv'
  <2>1. exit_' = exit_ /\ pc[w] = "pop"
    BY <1>9 DEF pop
  <2>2. CASE must_wait /\ pc' = [pc EXCEPT ![w] = "wait"] /\ queue_' = queue_
    <3>1. Len(queue_') = 0 /\ ~exit_'
      BY <2>1, <2>2 DEF must_wait
    <3>2. Cardinality(Awake)' \in Nat
      <4>1. Awake' \subseteq Workers
        BY DEF Awake
      <4> QED
        BY <4>1, PoolAssumption, FS_Subset, FS_CardinalityType
        DEF PoolAssumption
    <3> QED BY <3>1, <3>2 DEF WokenInv, WorkIsWoken, ExitWakes
  <2>3. CASE exit_ /\ pc' = [pc EXCEPT ![w] = "done"]
    <3>1. Waiters' = {}
      BY <1>1, <2>1, <2>3 DEF WokenInv, ExitWakes, Waiters
    <3> QED BY <3>1 DEF WokenInv, WorkIsWoken, ExitWakes
  <2>4. CASE ~exit_ /\ ~must_wait /\ take /\ pc' = [pc EXCEPT ![w] = "call"]
    <3>1. Len(queue_') = n - 1
      BY <1>1, <2>4, HeadTailProperties DEF must_wait, take
    <3>2. Awake' = Awake \ {w} /\ Waiters' = Waiters
      BY <1>1, <2>1, <2>4 DEF Awake, Waiters
    <3>3. Cardinality(Awake') = a - 1
      BY <2>1, <3>2, OneLessAwake
    <3> QED
      BY <1>1, <1>2, <2>1, <2>4, <3>1, <3>2, <3>3
      DEF WokenInv, WorkIsWoken, ExitWakes
  <2> QED BY <1>9, <2>2, <2>3, <2>4 DEF pop
<1>10. ASSUME NEW w \in Workers, Spurious(w) \/ TaskReturns(w)
       PROVE  WokenInv'
  <2>1. /\ pc[w] # "pop" /\ pc' = [pc EXCEPT ![w] = "pop"]
        /\ UNCHANGED <<queue_, exit_>>
    BY <1>10 DEF Spurious, TaskReturns
  <2>2. Cardinality(Awake') = a + 1 /\ Waiters' \subseteq Waiters
    BY <1>3, <2>1
  <2> QED
    BY <1>1, <1>2, <2>1, <2>2 DEF WokenInv, WorkIsWoken, ExitWakes
<1>11. ASSUME NEW w \in Workers, call(w)
       PROVE  WokenInv'
  <2>1. Awake' = Awake /\ Waiters' = Waiters /\ UNCHANGED <<queue_, exit_>>
    BY <1>1, <1>11 DEF call, Awake, Waiters
  <2> QED BY <2>1 DEF WokenInv, WorkIsWoken, ExitWakes
<1>12. CASE UNCHANGED vars
  BY <1>12 DEF vars, WokenInv, WorkIsWoken, ExitWakes, Waiters, Awake
<1> QED
  BY <1>4, <1>5, <1>6, <1>7, <1>8, <1>9, <1>10, <1>11, <1>12 DEF Next

\* No wake-up is lost: while a worker sleeps there is one awake for every queued
\* task, however pushes, pops, stops and spurious wake-ups interleave.
THEOREM NoWakeupIsLost == Spec => []WorkIsWoken
  BY TypeInvariant, WokenInit, WokenNext, PTL DEF Spec, WokenInv

-----------------------------------------------------------------------------
(* Tasks begin in the order in which they were accepted, but for those that *)
(* the other workers hold.                                                 *)

\* The i-th task has overtaken those that began after it; it may come to have
\* overtaken those that are popped and not begun.
Holders(x) == {w \in Workers : task[w] # 0 /\ task[w] < x}
Passed(i) == Overtaken(i) \cup {task[w] : w \in Holders(begun[i])}

QueueOrder ==
  /\ \A k \in DOMAIN queue_ : 0 < queue_[k] /\ queue_[k] <= appended
  /\ \A k, l \in DOMAIN queue_ : k < l => queue_[k] < queue_[l]

\* What a worker holds was queued before whatever is queued still.
HeldOrder ==
  /\ \A w \in Workers : pc[w] = "call" => task[w] # 0
  /\ \A w \in Workers : task[w] # 0 =>
       /\ task[w] <= appended
       /\ \A k \in DOMAIN queue_ : task[w] < queue_[k]
       /\ \A i \in DOMAIN begun : begun[i] # task[w]
       /\ \A v \in Workers : task[v] = task[w] => v = w

BegunOrder ==
  /\ \A i \in DOMAIN begun : begun[i] <= appended
  /\ \A i, j \in DOMAIN begun : i # j => begun[i] # begun[j]
  /\ \A i \in DOMAIN begun, k \in DOMAIN queue_ : begun[i] < queue_[k]

\* There are fewer tasks to be overtaken than workers: the one that begins does
\* not overtake its own.
FewPassed ==
  \A i \in DOMAIN begun :
    IsFiniteSet(Passed(i)) /\ Cardinality(Passed(i)) < Cardinality(Workers)

OrderInv == QueueOrder /\ HeldOrder /\ BegunOrder /\ FewPassed

\* Less is passed, by the same or another task: still fewer than workers.
LEMMA LessIsPassed ==
  ASSUME NEW S, IsFiniteSet(S), Cardinality(S) < Cardinality(Workers),
         NEW T, T \subseteq S
  PROVE  IsFiniteSet(T) /\ Cardinality(T) < Cardinality(Workers)
<1>1. IsFiniteSet(T) /\ Cardinality(T) <= Cardinality(S)
  BY FS_Subset
<1>2. /\ Cardinality(T) \in Nat /\ Cardinality(S) \in Nat
      /\ Cardinality(Workers) \in Nat
  BY <1>1, PoolAssumption, FS_CardinalityType DEF PoolAssumption
<1> QED BY <1>1, <1>2

\* The workers but one hold fewer tasks than there are workers.
LEMMA HeldByOthers ==
  ASSUME NEW w \in Workers, NEW H \in SUBSET (Workers \ {w})
  PROVE  LET T == {task[v] : v \in H}
         IN IsFiniteSet(T) /\ Cardinality(T) < Cardinality(Workers)
<1> DEFINE T == {task[v] : v \in H}
           f == [v \in H |-> task[v]]
<1>1. /\ IsFiniteSet(Workers \ {w})
      /\ Cardinality(Workers \ {w}) = Cardinality(Workers) - 1
      /\ Cardinality(Workers) \in Nat
  BY PoolAssumption, FS_RemoveElement, FS_CardinalityType DEF PoolAssumption
<1>2. IsFiniteSet(H) /\ Cardinality(H) <= Cardinality(Workers) - 1
  BY <1>1, FS_Subset
<1>3. f \in Surjection(H, T)
  BY DEF Surjection
<1>4. IsFiniteSet(T) /\ Cardinality(T) <= Cardinality(H)
  BY <1>2, <1>3, FS_Surjection
<1>5. Cardinality(T) \in Nat /\ Cardinality(H) \in Nat
  BY <1>2, <1>4, FS_CardinalityType
<1> QED BY <1>1, <1>2, <1>4, <1>5

LEMMA OrderInit == Init => OrderInv
  BY DEF Init, OrderInv, QueueOrder, HeldOrder, BegunOrder, FewPassed

LEMMA AppendOrder == TypeOK /\ OrderInv /\ append => OrderInv'
<1> SUFFICES ASSUME TypeOK, OrderInv, append PROVE OrderInv'
  OBVIOUS
<1>1. /\ queue_ \in Seq(Nat) /\ appended \in Nat /\ appended' = appended + 1
      /\ queue_' = Append(queue_, appended + 1)
      /\ begun' = begun /\ task' = task
      /\ begun \in Seq(Nat) /\ task \in [Workers -> Nat]
      /\ \A w \in Workers : pc'[w] = "call" => pc[w] = "call"
  BY NotifyOne DEF append, notify_push, poolVars, TypeOK
<1> DEFINE n == Len(queue_)
<1>2. /\ n \in Nat /\ DOMAIN queue_ = 1 .. n /\ DOMAIN queue_' = 1 .. n + 1
      /\ queue_'[n + 1] = appended + 1
      /\ \A k \in 1 .. n : queue_'[k] = queue_[k] /\ queue_[k] \in Nat
      /\ \A k \in 1 .. n + 1 : k \in 1 .. n \/ k = n + 1
      /\ \A i \in DOMAIN begun : begun[i] \in Nat
      /\ \A w \in Workers : task[w] \in Nat
  BY <1>1, AppendProperties, LenProperties, ElementOfSeq
<1>3. QueueOrder'
  <2>1. ASSUME NEW k \in DOMAIN queue_'
        PROVE  0 < queue_'[k] /\ queue_'[k] <= appended'
    BY <1>1, <1>2 DEF OrderInv, QueueOrder
  <2>2. ASSUME NEW k \in DOMAIN queue_', NEW l \in DOMAIN queue_', k < l
        PROVE  queue_'[k] < queue_'[l]
    <3>1. k \in 1 .. n
      BY <1>2, <2>2
    <3> QED BY <1>1, <1>2, <2>2, <3>1 DEF OrderInv, QueueOrder
  <2> QED BY <2>1, <2>2 DEF QueueOrder
<1>4. HeldOrder'
  BY <1>1, <1>2 DEF OrderInv, HeldOrder
<1>5. BegunOrder'
  BY <1>1, <1>2 DEF OrderInv, BegunOrder
<1>6. FewPassed'
  BY <1>1 DEF OrderInv, FewPassed, Passed, Holders, Overtaken
<1> QED BY <1>3, <1>4, <1>5, <1>6 DEF OrderInv

LEMMA PopOrder ==
  ASSUME TypeOK, OrderInv, NEW w \in Workers, pop(w)
  PROVE  OrderInv'
<1>1. /\ queue_ \in Seq(Nat) /\ begun \in Seq(Nat) /\ task \in [Workers -> Nat]
      /\ begun' = begun /\ appended' = appended
      /\ pc \in [Workers -> {"none", "pop", "wait", "call", "run", "done"}]
  BY DEF pop, TypeOK
<1>2. CASE queue_' = queue_ /\ task' = task
           /\ \E s \in {"wait", "done"} : pc' = [pc EXCEPT ![w] = s]
  <2>1. \A v \in Workers : pc'[v] = "call" => pc[v] = "call"
    BY <1>1, <1>2
  <2>2. QueueOrder' /\ BegunOrder'
    BY <1>1, <1>2 DEF OrderInv, QueueOrder, BegunOrder
  <2>4. FewPassed'
    <3>1. \A i : Passed(i)' = Passed(i)
      BY <1>1, <1>2 DEF Passed, Holders, Overtaken
    <3>2. FewPassed
      BY DEF OrderInv
    <3> HIDE DEF Passed
    <3> QED BY <1>1, <3>1, <3>2 DEF FewPassed
  <2>3. HeldOrder'
    BY <1>1, <1>2, <2>1 DEF OrderInv, HeldOrder
  <2> QED BY <2>2, <2>3, <2>4 DEF OrderInv
<1>3. CASE /\ queue_ # <<>> /\ queue_' = Tail(queue_)
           /\ task' = [task EXCEPT ![w] = Head(queue_)]
           /\ pc' = [pc EXCEPT ![w] = "call"]
  <2> DEFINE n == Len(queue_)
             x == Head(queue_)
  <2>1. /\ n \in Nat \ {0} /\ DOMAIN queue_ = 1 .. n /\ x = queue_[1]
        /\ DOMAIN queue_' = 1 .. n - 1
        /\ \A k \in 1 .. n - 1 : queue_'[k] = queue_[k + 1] /\ k + 1 \in 1 .. n /\ 1 < k + 1
        /\ 1 \in 1 .. n
    BY <1>1, <1>3, HeadTailProperties, LenProperties, EmptySeq
  <2>4. /\ task'[w] = x /\ pc'[w] = "call"
        /\ \A v \in Workers \ {w} : task'[v] = task[v] /\ pc'[v] = pc[v]
    BY <1>1, <1>3
  <2>9. /\ \A k \in DOMAIN queue_ : queue_[k] \in Nat
        /\ \A i \in DOMAIN begun : begun[i] \in Nat
        /\ appended \in Nat
    BY <1>1, ElementOfSeq, LenProperties DEF TypeOK
  <2> HIDE DEF x, n
  <2>2. /\ x \in Nat /\ 0 < x /\ x <= appended
        /\ \A k \in DOMAIN queue_' : x < queue_'[k]
    BY <2>1, <2>9 DEF OrderInv, QueueOrder
  <2>3. /\ \A i \in DOMAIN begun : begun[i] \in Nat /\ begun[i] < x
        /\ \A v \in Workers : task[v] \in Nat /\ (task[v] # 0 => task[v] < x)
    <3>1. 1 \in DOMAIN queue_ /\ x = queue_[1]
      BY <2>1
    <3>2. \A i \in DOMAIN begun : begun[i] \in Nat /\ begun[i] < x
      BY <2>9, <3>1 DEF OrderInv, BegunOrder
    <3>3. \A v \in Workers : task[v] \in Nat /\ (task[v] # 0 => task[v] < x)
      BY <1>1, <3>1 DEF OrderInv, HeldOrder
    <3> QED BY <3>2, <3>3
  <2>5. QueueOrder'
    <3>1. \A k \in DOMAIN queue_' : 0 < queue_'[k] /\ queue_'[k] <= appended'
      BY <1>1, <2>1 DEF OrderInv, QueueOrder
    <3>2. ASSUME NEW k \in DOMAIN queue_', NEW l \in DOMAIN queue_', k < l
          PROVE  queue_'[k] < queue_'[l]
      <4>1. k + 1 < l + 1
        BY <2>1, <3>2
      <4> QED BY <2>1, <4>1 DEF OrderInv, QueueOrder
    <3> QED BY <3>1, <3>2 DEF QueueOrder
  <2>6. HeldOrder'
    <3>1. \A v \in Workers : pc'[v] = "call" => task'[v] # 0
      BY <2>2, <2>4 DEF OrderInv, HeldOrder
    <3>2. ASSUME NEW v \in Workers, task'[v] # 0
          PROVE  /\ task'[v] <= appended'
                 /\ \A k \in DOMAIN queue_' : task'[v] < queue_'[k]
                 /\ \A i \in DOMAIN begun' : begun'[i] # task'[v]
                 /\ \A u \in Workers : task'[u] = task'[v] => u = v
      <4>1. CASE v = w
        <5>1. \A i \in DOMAIN begun' : begun'[i] # x
          BY <1>1, <2>2, <2>3
        <5>2. \A u \in Workers : u # w => task'[u] # x
          BY <2>2, <2>3, <2>4
        <5> QED BY <1>1, <2>2, <2>4, <4>1, <5>1, <5>2
      <4>2. CASE v # w
        <5>1. task'[v] = task[v] /\ task[v] < x /\ task[v] # 0
          BY <2>3, <2>4, <3>2, <4>2
        <5>2. \A k \in DOMAIN queue_' : task[v] < queue_'[k]
          BY <2>1, <5>1 DEF OrderInv, HeldOrder
        <5>3. ASSUME NEW u \in Workers, task'[u] = task'[v]
              PROVE  u = v
          <6>1. u # w
            BY <2>2, <2>3, <2>4, <5>1, <5>3
          <6> QED BY <2>4, <5>1, <5>3, <6>1 DEF OrderInv, HeldOrder
        <5> QED BY <1>1, <5>1, <5>2, <5>3 DEF OrderInv, HeldOrder
      <4> QED BY <4>1, <4>2
    <3> QED BY <3>1, <3>2 DEF HeldOrder
  <2>7. BegunOrder'
    BY <1>1, <2>1 DEF OrderInv, BegunOrder
  \* The task popped is not before any that has begun.
  <2>8. FewPassed'
    <3> SUFFICES ASSUME NEW i \in DOMAIN begun'
                 PROVE  /\ IsFiniteSet(Passed(i)')
                        /\ Cardinality(Passed(i)') < Cardinality(Workers)
      BY DEF FewPassed
    <3>1. \A v \in Holders(begun[i])' : v # w /\ v \in Holders(begun[i]) /\ task'[v] = task[v]
      BY <1>1, <2>2, <2>3, <2>4 DEF Holders
    <3>2. Passed(i)' \subseteq Passed(i)
      BY <1>1, <3>1 DEF Passed, Overtaken
    <3>3. IsFiniteSet(Passed(i)) /\ Cardinality(Passed(i)) < Cardinality(Workers)
      BY <1>1 DEF OrderInv, FewPassed
    <3> QED BY <3>2, <3>3, LessIsPassed
  <2> QED BY <2>5, <2>6, <2>7, <2>8 DEF OrderInv
<1> QED BY <1>2, <1>3 DEF pop, take, must_wait

LEMMA CallOrder ==
  ASSUME TypeOK, OrderInv, NEW w \in Workers, call(w)
  PROVE  OrderInv'
<1> DEFINE n == Len(begun)
           x == task[w]
<1>1. /\ begun \in Seq(Nat) /\ task \in [Workers -> Nat]
      /\ pc \in [Workers -> {"none", "pop", "wait", "call", "run", "done"}]
      /\ queue_' = queue_ /\ appended' = appended
      /\ begun' = Append(begun, x)
      /\ task' = [task EXCEPT ![w] = 0] /\ pc' = [pc EXCEPT ![w] = "run"]
      /\ pc[w] = "call"
  BY DEF call, queueVars, TypeOK
<1>2. /\ x \in Nat /\ x # 0 /\ x <= appended
      /\ \A k \in DOMAIN queue_ : x < queue_[k]
      /\ \A i \in DOMAIN begun : begun[i] # x
  BY <1>1 DEF OrderInv, HeldOrder
<1>3. /\ n \in Nat /\ DOMAIN begun = 1 .. n /\ DOMAIN begun' = 1 .. n + 1
      /\ begun'[n + 1] = x
      /\ \A i \in 1 .. n : begun'[i] = begun[i]
      /\ \A i \in 1 .. n + 1 : i \in 1 .. n \/ i = n + 1
  BY <1>1, AppendProperties, LenProperties
<1>4. /\ task'[w] = 0
      /\ \A v \in Workers \ {w} : task'[v] = task[v] /\ pc'[v] = pc[v]
      /\ pc'[w] # "call"
  BY <1>1
<1>5. QueueOrder'
  BY <1>1 DEF OrderInv, QueueOrder
<1>6. HeldOrder'
  <2>1. ASSUME NEW v \in Workers, task'[v] # 0
        PROVE  /\ v # w /\ task'[v] = task[v] /\ task[v] # x
               /\ \A u \in Workers : task'[u] = task'[v] => u = v
    <3>1. v # w /\ task'[v] = task[v] /\ task[v] # x
      BY <1>4, <2>1 DEF OrderInv, HeldOrder
    <3>2. ASSUME NEW u \in Workers, task'[u] = task'[v]
          PROVE  u = v
      <4>1. u # w
        BY <1>4, <2>1, <3>2
      <4> QED BY <1>4, <2>1, <3>1, <3>2, <4>1 DEF OrderInv, HeldOrder
    <3> QED BY <3>1, <3>2
  <2> HIDE DEF x
  <2> QED BY <1>1, <1>3, <1>4, <2>1 DEF OrderInv, HeldOrder
<1>7. BegunOrder'
  <2> HIDE DEF x
  <2> QED BY <1>1, <1>2, <1>3 DEF OrderInv, BegunOrder
<1>8. FewPassed'
  <2> SUFFICES ASSUME NEW i \in DOMAIN begun'
               PROVE  /\ IsFiniteSet(Passed(i)')
                      /\ Cardinality(Passed(i)') < Cardinality(Workers)
    BY DEF FewPassed
  <2>1. CASE i \in 1 .. n
    <3>1. \A v \in Holders(begun[i])' : v \in Holders(begun[i]) /\ task'[v] = task[v]
      BY <1>4, <1>3, <2>1 DEF Holders
    <3>2. {task'[v] : v \in Holders(begun[i])'} \subseteq Passed(i)
      BY <3>1 DEF Passed
    <3>3. ASSUME NEW j \in DOMAIN begun', i < j, begun'[j] < begun'[i]
          PROVE  begun'[j] \in Passed(i)
      <4>1. CASE j \in 1 .. n
        BY <1>3, <2>1, <3>3, <4>1 DEF Passed, Overtaken
      <4>2. CASE j = n + 1
        BY <1>2, <1>3, <2>1, <3>3, <4>2 DEF Passed, Holders
      <4> QED BY <1>3, <4>1, <4>2
    <3>4. Passed(i)' \subseteq Passed(i)
      <4>1. Overtaken(i)' = {begun'[j] : j \in {k \in DOMAIN begun' : i < k /\ begun'[k] < begun'[i]}}
        BY DEF Overtaken
      <4>2. Overtaken(i)' \subseteq Passed(i)
        BY <3>3, <4>1
      <4>3. Passed(i)' = Overtaken(i)' \cup {task'[v] : v \in Holders(begun[i])'}
        BY DEF Passed
      <4> QED BY <3>2, <4>2, <4>3
    <3>5. IsFiniteSet(Passed(i)) /\ Cardinality(Passed(i)) < Cardinality(Workers)
      BY <1>3, <2>1 DEF OrderInv, FewPassed
    <3> QED BY <3>4, <3>5, LessIsPassed
  <2>2. CASE i = n + 1
    <3> DEFINE H == {v \in Workers \ {w} : task'[v] # 0 /\ task'[v] < x}
    <3>1. Overtaken(i)' = {}
      BY <1>3, <2>2 DEF Overtaken
    <3>2. Holders(begun[i])' = H
      BY <1>3, <1>4, <2>2 DEF Holders
    <3>3. Passed(i)' = {task'[v] : v \in H}
      BY <3>1, <3>2 DEF Passed
    <3>4. {task'[v] : v \in H} = {task[v] : v \in H}
      BY <1>4
    <3>5. H \in SUBSET (Workers \ {w})
      OBVIOUS
    <3> HIDE DEF H
    <3> QED BY <3>3, <3>4, <3>5, HeldByOthers
  <2> QED BY <1>3, <2>1, <2>2
<1> QED BY <1>5, <1>6, <1>7, <1>8 DEF OrderInv

LEMMA OrderNext == TypeInv /\ OrderInv /\ [Next]_vars => OrderInv'
<1> SUFFICES ASSUME TypeInv, OrderInv, [Next]_vars PROVE OrderInv'
  OBVIOUS
<1> USE DEF TypeInv
\* The steps that neither queue, pop nor call a task.
<1>1. ASSUME UNCHANGED <<begun, task, appended>>, queue_' = queue_ \/ queue_' = <<>>,
             \A w \in Workers : pc'[w] = "call" => pc[w] = "call"
      PROVE  OrderInv'
  BY <1>1
  DEF OrderInv, QueueOrder, HeldOrder, BegunOrder, FewPassed, Passed, Holders,
      Overtaken
<1>2. CASE start
  BY <1>1, <1>2 DEF start, TypeOK
<1>3. CASE add_thread
  BY <1>1, <1>3 DEF add_thread, queueVars, TypeOK
<1>4. CASE stop
  BY <1>1, <1>4 DEF stop, notify_exit, notify_all, TypeOK
<1>5. CASE stopped
  BY <1>1, <1>5 DEF stopped, queueVars, TypeOK
<1>6. ASSUME NEW w \in Workers, Spurious(w) \/ TaskReturns(w)
      PROVE  OrderInv'
  BY <1>1, <1>6 DEF Spurious, TaskReturns, queueVars, TypeOK
<1>7. CASE UNCHANGED vars
  BY <1>1, <1>7 DEF vars, queueVars
<1> QED
  BY <1>2, <1>3, <1>4, <1>5, <1>6, <1>7, AppendOrder, PopOrder, CallOrder DEF Next

\* Whatever stop() and init() discard, and whichever worker takes its time
\* between pop() and the call: no task begins twice or before one that is queued
\* still, and it overtakes fewer tasks than there are workers.
THEOREM TasksBeginInOrder == Spec => []BegunInOrder
<1>1. TypeOK /\ OrderInv => BegunInOrder
  <2> SUFFICES ASSUME TypeOK, OrderInv, NEW i \in DOMAIN begun
               PROVE  Cardinality(Overtaken(i)) < Cardinality(Workers)
    BY DEF OrderInv, BegunOrder, BegunInOrder
  <2>1. Overtaken(i) \subseteq Passed(i)
    BY DEF Passed
  <2> QED BY <2>1, LessIsPassed DEF OrderInv, FewPassed
<1>2. Spec => [](TypeInv /\ OrderInv)
  BY TypeInit, TypeNext, OrderInit, OrderNext, PTL DEF Spec
<1> QED BY <1>1, <1>2, PTL DEF TypeInv

=============================================================================
