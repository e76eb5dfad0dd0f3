------------------------- MODULE IOScheduler_proofs -------------------------
(***************************************************************************)
(* Theorems about IOScheduler, for every set of threads and tasks and      *)
(* every number of runs.                                                   *)
(***************************************************************************)
EXTENDS IOScheduler, SequenceTheorems, TLAPS

-----------------------------------------------------------------------------
(* Type correctness.                                                       *)

LEMMA TypeInit == Init => TypeOK
<1> SUFFICES ASSUME Init PROVE TypeOK
  OBVIOUS
<1>1. queue_task_ \in Seq(Items) /\ temp \in Seq(Items) /\ ran \in Seq(Items)
  BY DEF Init
<1>2. runs \in 0 .. MaxRuns
  BY SchedulerAssumption DEF Init, SchedulerAssumption
<1>3. \A th \in AllThreads : pc[th] = "push" <=> arg[th] \in Items
  BY SchedulerAssumption DEF Init, SchedulerAssumption
<1>4. /\ pc \in [AllThreads -> {"idle", "push", "send"}]
      /\ arg \in [AllThreads -> Items \cup {NoItem}]
  BY DEF Init
<1> QED BY <1>1, <1>2, <1>3, <1>4 DEF Init, TypeOK

\* post() up to its test of init_ leaves each thread's progress and item in
\* their types.
LEMMA BeginPostType ==
  ASSUME NEW th \in AllThreads, NEW i \in Items, TypeOK, BeginPost(th, i)
  PROVE  /\ pc' \in [AllThreads -> {"idle", "push", "send"}]
         /\ arg' \in [AllThreads -> Items \cup {NoItem}]
         /\ \A t \in AllThreads : pc'[t] = "push" <=> arg'[t] \in Items
  BY DEF TypeOK, BeginPost

LEMMA TypeNext == TypeOK /\ [Next]_vars => TypeOK'
<1> SUFFICES ASSUME TypeOK, [Next]_vars PROVE TypeOK'
  OBVIOUS
<1> USE DEF idVars, batchVars, callVars, histVars
<1>1. CASE InitLoop
  <2>1. runs' \in 0 .. MaxRuns
    BY <1>1, SchedulerAssumption DEF InitLoop, TypeOK, SchedulerAssumption
  <2> QED BY <1>1, <2>1 DEF InitLoop, TypeOK
<1>2. CASE RunEnter
  BY <1>2 DEF RunEnter, TypeOK
<1>3. CASE LoopStep
  <2>1. CASE Wake
    BY <2>1 DEF Wake, TypeOK
  <2>2. CASE on_async
    BY <2>2 DEF on_async, TypeOK
  <2>3. CASE RunItem
    <3>1. /\ temp' \in Seq(Items)
          /\ ran' \in Seq(Items)
      BY <2>3 DEF RunItem, TypeOK
    <3>2. /\ init_' \in BOOLEAN
          /\ handle_' \in {"none", "active", "closing", "closed"}
          /\ at' \in {"batch", "task"}
      BY <2>3 DEF RunItem, on_stop, TypeOK
    <3> QED BY <2>3, <3>1, <3>2 DEF RunItem, TypeOK
  <2>4. CASE TaskReturns
    BY <2>4 DEF TaskReturns, TypeOK
  <2>5. CASE BatchDone
    BY <2>5 DEF BatchDone, TypeOK
  <2>6. CASE on_close
    BY <2>6 DEF on_close, TypeOK
  <2>7. CASE RunExit
    BY <2>7 DEF RunExit, TypeOK
  <2> QED BY <1>3, <2>1, <2>2, <2>3, <2>4, <2>5, <2>6, <2>7 DEF LoopStep
<1>4. ASSUME NEW th \in AllThreads, Push(th)
      PROVE  TypeOK'
  <2>1. arg[th] \in Items
    BY <1>4 DEF Push, TypeOK
  <2>2. queue_task_' \in Seq(Items)
    BY <1>4, <2>1 DEF Push, TypeOK
  <2> QED BY <1>4, <2>2, SchedulerAssumption DEF Push, TypeOK, SchedulerAssumption
<1>5. ASSUME NEW th \in AllThreads, Send(th)
      PROVE  TypeOK'
  BY <1>5 DEF Send, TypeOK
<1>6. ASSUME NEW th \in AllThreads, NEW t \in Tasks, Post(th, t)
      PROVE  TypeOK'
  BY <1>6, BeginPostType DEF Post, TypeOK, Items
<1>7. ASSUME NEW th \in AllThreads, NEW s \in StopTasks, Stop(th, s)
      PROVE  TypeOK'
  <2>1. CASE in_loop_thread(th) /\ on_stop /\ UNCHANGED callVars
    BY <1>7, <2>1 DEF Stop, on_stop, TypeOK
  <2>2. CASE BeginPost(th, s) /\ UNCHANGED <<init_, handle_>>
    BY <1>7, <2>2, BeginPostType DEF Stop, TypeOK, Items
  <2> QED BY <1>7, <2>1, <2>2 DEF Stop
<1>8. CASE UNCHANGED vars
  BY <1>8 DEF vars, TypeOK
<1> QED BY <1>1, <1>2, <1>3, <1>4, <1>5, <1>6, <1>7, <1>8 DEF Next, CallStep

\* Every reachable state is well typed, whatever the threads do.
THEOREM TypeCorrect == Spec => []TypeOK
  BY TypeInit, TypeNext, PTL DEF Spec

-----------------------------------------------------------------------------
(* Implementation of SerialExecutor.                                       *)

\* on_async's vector is empty unless a batch is being executed.
BatchInv == at \notin {"batch", "task"} => temp = <<>>

LEMMA BatchInit == Init => BatchInv
  BY DEF Init, BatchInv

LEMMA BatchNext == BatchInv /\ [Next]_vars => BatchInv'
  BY DEF BatchInv, Next, LoopStep, CallStep, InitLoop, RunEnter, RunExit, Wake,
     on_async, RunItem, TaskReturns, BatchDone, on_close, Push, Send, Post,
     Stop, vars, idVars, batchVars, callVars, histVars

\* The three ways the tasks move between the caller, queue_task_, temp and the
\* executed ones, seen as one sequence.
LEMMA PushAppends ==
  ASSUME NEW r \in Seq(Items), NEW t \in Seq(Items), NEW q \in Seq(Items),
         NEW i \in Items
  PROVE  r \o t \o Append(q, i) = Append(r \o t \o q, i)
  OBVIOUS

LEMMA SwapKeeps ==
  ASSUME NEW r \in Seq(Items), NEW q \in Seq(Items)
  PROVE  r \o q \o <<>> = r \o <<>> \o q
  OBVIOUS

LEMMA RunKeeps ==
  ASSUME NEW r \in Seq(Items), NEW t \in Seq(Items), NEW q \in Seq(Items),
         t # <<>>
  PROVE  /\ Append(r, Head(t)) \o Tail(t) \o q = r \o t \o q
         /\ Len(Append(r, Head(t))) = Len(r) + 1
         /\ Len(r) < Len(r \o t \o q)
<1>1. Append(r, Head(t)) \o Tail(t) = r \o t
  <2>1. Head(t) = t[1] /\ Head(t) \in Items
    OBVIOUS
  <2>2. /\ Tail(t) \in Seq(Items)
        /\ Len(Tail(t)) = Len(t) - 1
        /\ \A i \in 1 .. Len(Tail(t)) : Tail(t)[i] = t[i + 1]
    BY HeadTailProperties
  <2>3. /\ Append(r, Head(t)) \in Seq(Items)
        /\ Len(Append(r, Head(t))) = Len(r) + 1
        /\ \A i \in 1 .. Len(r) + 1 :
             Append(r, Head(t))[i] = IF i <= Len(r) THEN r[i] ELSE t[1]
    BY <2>1
  <2>4. Len(t) \in Nat \ {0} /\ Len(r) \in Nat
    BY EmptySeq
  <2> DEFINE u == Append(r, Head(t)) \o Tail(t)
             v == r \o t
  <2>5. /\ u \in Seq(Items)
        /\ Len(u) = Len(r) + Len(t)
        /\ \A i \in 1 .. Len(u) :
             u[i] = IF i <= Len(r) + 1 THEN Append(r, Head(t))[i]
                                       ELSE Tail(t)[i - Len(r) - 1]
    BY <2>2, <2>3, <2>4, ConcatProperties
  <2>6. /\ v \in Seq(Items)
        /\ Len(v) = Len(r) + Len(t)
        /\ \A i \in 1 .. Len(v) :
             v[i] = IF i <= Len(r) THEN r[i] ELSE t[i - Len(r)]
    BY ConcatProperties
  <2>7. ASSUME NEW i \in 1 .. Len(u) PROVE u[i] = v[i]
    <3>1. CASE i <= Len(r)
      BY <2>3, <2>4, <2>5, <2>6, <3>1
    <3>2. CASE i = Len(r) + 1
      BY <2>3, <2>4, <2>5, <2>6, <3>2
    <3>3. CASE i > Len(r) + 1
      <4>1. u[i] = Tail(t)[i - Len(r) - 1]
        BY <2>4, <2>5, <3>3
      <4>2. i - Len(r) - 1 \in 1 .. Len(Tail(t))
        BY <2>2, <2>4, <2>5, <3>3
      <4>3. Tail(t)[i - Len(r) - 1] = t[(i - Len(r) - 1) + 1]
        BY <2>2, <4>2
      <4> QED BY <2>4, <2>5, <2>6, <3>3, <4>1, <4>3
    <3> QED BY <2>4, <2>5, <3>1, <3>2, <3>3
  <2> HIDE DEF u, v
  <2>8. u = v
    BY <2>5, <2>6, <2>7, SeqEqual
  <2> QED BY <2>8 DEF u, v
<1>2. Len(Append(r, Head(t))) = Len(r) + 1
  OBVIOUS
<1>3. Len(t) \in Nat \ {0} /\ Len(r) \in Nat /\ Len(q) \in Nat
  BY EmptySeq
<1>4. Len(r \o t \o q) = Len(r) + Len(t) + Len(q)
  BY ConcatProperties
<1> QED BY <1>1, <1>2, <1>3, <1>4

LEMMA ExecutorInit == Init => Executor!Init
  BY DEF Init, Executor!Init

LEMMA ExecutorNext ==
  TypeOK /\ BatchInv /\ [Next]_vars => [Executor!Next]_(Executor!vars)
<1> SUFFICES ASSUME TypeOK, BatchInv, [Next]_vars
             PROVE  [Executor!Next]_(Executor!vars)
  OBVIOUS
<1> DEFINE Same == UNCHANGED <<ran, temp, queue_task_>>
<1> USE DEF idVars, batchVars, callVars, histVars
<1>1. Same => UNCHANGED Executor!vars
  BY DEF Executor!vars
<1>2. CASE on_async
  <2>1. temp = <<>> /\ ran' = ran /\ temp' = queue_task_ /\ queue_task_' = <<>>
    BY <1>2 DEF on_async, BatchInv
  <2>2. ran \o queue_task_ \o <<>> = ran \o <<>> \o queue_task_
    BY SwapKeeps DEF TypeOK
  <2>3. UNCHANGED Executor!vars
    BY <2>1, <2>2 DEF Executor!vars
  <2> QED BY <2>3
<1>3. CASE RunItem
  BY <1>3, RunKeeps DEF RunItem, TypeOK, Executor!Next, Executor!Execute
<1>4. ASSUME NEW th \in AllThreads, Push(th)
      PROVE  Executor!Next
  <2>1. arg[th] \in Items
    BY <1>4 DEF Push, TypeOK
  <2>2. Executor!Submit(arg[th])
    BY <1>4, <2>1, PushAppends DEF Push, TypeOK, Executor!Submit
  <2> QED BY <2>1, <2>2 DEF Executor!Next
<1>5. CASE InitLoop \/ RunEnter \/ RunExit \/ Wake \/ TaskReturns
           \/ BatchDone \/ on_close \/ UNCHANGED vars
  <2>1. Same
    BY <1>5 DEF InitLoop, RunEnter, RunExit, Wake, TaskReturns, BatchDone,
       on_close, vars
  <2> QED BY <1>1, <2>1
<1>6. ASSUME NEW th \in AllThreads, NEW i \in Items,
             Send(th) \/ Post(th, i) \/ Stop(th, i)
      PROVE  Same
  BY <1>6 DEF Send, Post, Stop
<1>7. ASSUME NEW th \in AllThreads, Send(th)
      PROVE  Same
  BY <1>7 DEF Send
<1> QED
  BY <1>1, <1>2, <1>3, <1>4, <1>5, <1>6, <1>7
  DEF Next, LoopStep, CallStep, Items

\* Whatever the interleaving of post() and on_async, and across stop() and
\* restart, the items run in the order of their pushes, each once.
THEOREM ImplementsSerialExecutor == Spec => ExecutesInOrder
<1>1. Spec => [](TypeOK /\ BatchInv)
  BY TypeInit, TypeNext, BatchInit, BatchNext, PTL DEF Spec
<1> QED
  BY <1>1, ExecutorInit, ExecutorNext, PTL
  DEF Spec, ExecutesInOrder, Executor!Spec

-----------------------------------------------------------------------------
(* Orderly use: nothing is posted after stop(), and stop() is called once, *)
(* when no call is in progress.  Then on_stop is the last item pushed, and *)
(* is followed through queue_task_ and temp until it is executed.          *)

OnlyTasks(seq) == \A k \in 1 .. Len(seq) : seq[k] \notin StopTasks

StopIsLast(seq) ==
  /\ seq # <<>>
  /\ seq[Len(seq)] \in StopTasks
  /\ \A k \in 1 .. Len(seq) - 1 : seq[k] \notin StopTasks

NobodyPushes == \A th \in AllThreads : pc[th] # "push"

Announced ==
  /\ init_
  /\ OnlyTasks(queue_task_)
  /\ OnlyTasks(temp)
  /\ \E th \in AllThreads :
       /\ pc[th] = "push"
       /\ arg[th] \in StopTasks
       /\ \A other \in AllThreads \ {th} : pc[other] = "idle"

Queued == init_ /\ StopIsLast(queue_task_) /\ OnlyTasks(temp) /\ NobodyPushes

SwappedOut == init_ /\ queue_task_ = <<>> /\ StopIsLast(temp) /\ NobodyPushes

Done == ~init_ /\ queue_task_ = <<>> /\ temp = <<>> /\ NobodyPushes

NotStopped ==
  /\ OnlyTasks(queue_task_)
  /\ OnlyTasks(temp)
  /\ \A th \in AllThreads : arg[th] \notin StopTasks

OrderlyInv ==
  /\ init_ => handle_ = "active" /\ at # "stopped"
  /\ ~stopping => NotStopped
  /\ ~stopping /\ ~init_ => queue_task_ = <<>> /\ temp = <<>> /\ NobodyPushes
  /\ stopping => Announced \/ Queued \/ SwappedOut \/ Done

LEMMA AppendLast ==
  ASSUME NEW q \in Seq(Items), NEW i \in Items, OnlyTasks(q)
  PROVE  /\ i \notin StopTasks => OnlyTasks(Append(q, i))
         /\ i \in StopTasks => StopIsLast(Append(q, i))
  BY DEF OnlyTasks, StopIsLast

LEMMA EmptyByLen ==
  ASSUME NEW t \in Seq(Items)
  PROVE  Len(t) = 0 <=> t = <<>>
  OBVIOUS

LEMMA TailLast ==
  ASSUME NEW t \in Seq(Items), t # <<>>
  PROVE  /\ OnlyTasks(t) => Head(t) \notin StopTasks /\ OnlyTasks(Tail(t))
         /\ StopIsLast(t) /\ Head(t) \notin StopTasks => StopIsLast(Tail(t))
         /\ StopIsLast(t) /\ Head(t) \in StopTasks => Tail(t) = <<>>
<1>1. /\ Head(t) = t[1]
      /\ Tail(t) \in Seq(Items)
      /\ Len(Tail(t)) = Len(t) - 1
      /\ \A i \in 1 .. Len(Tail(t)) : Tail(t)[i] = t[i + 1]
      /\ Len(t) \in Nat \ {0}
  BY HeadTailProperties, EmptySeq
<1>2. OnlyTasks(t) => Head(t) \notin StopTasks /\ OnlyTasks(Tail(t))
  BY <1>1 DEF OnlyTasks
<1>3. ASSUME StopIsLast(t), Head(t) \notin StopTasks
      PROVE  StopIsLast(Tail(t))
  <2>1. Len(t) # 1
    BY <1>1, <1>3 DEF StopIsLast
  <2>2. Tail(t) # <<>>
    BY <1>1, <2>1, EmptyByLen
  <2> DEFINE m == Len(Tail(t))
  <2>3. m \in 1 .. m /\ m + 1 = Len(t)
    BY <1>1, <2>1
  <2>4. Tail(t)[m] = t[m + 1]
    BY <1>1, <2>3
  <2>5. Tail(t)[m] = t[Len(t)]
    BY <2>3, <2>4
  <2>6. ASSUME NEW k \in 1 .. m - 1
        PROVE  Tail(t)[k] \notin StopTasks
    <3>1. Tail(t)[k] = t[k + 1] /\ k + 1 \in 1 .. Len(t) - 1
      BY <1>1
    <3> QED BY <1>3, <3>1 DEF StopIsLast
  <2>7. t[Len(t)] \in StopTasks
    BY <1>3 DEF StopIsLast
  <2> QED BY <2>2, <2>5, <2>6, <2>7 DEF StopIsLast
<1>4. ASSUME StopIsLast(t), Head(t) \in StopTasks
      PROVE  Tail(t) = <<>>
  <2>1. Len(t) = 1
    BY <1>1, <1>4 DEF StopIsLast
  <2>2. Len(Tail(t)) = 0
    BY <1>1, <2>1
  <2> QED BY <1>1, <2>2, EmptyByLen
<1> QED BY <1>2, <1>3, <1>4

LEMMA OrderlyInit == Init => OrderlyInv
  BY SchedulerAssumption
  DEF Init, OrderlyInv, NotStopped, OnlyTasks, NobodyPushes,
      SchedulerAssumption, Items

LEMMA OrderlyNext ==
  TypeOK /\ BatchInv /\ OrderlyInv /\ [Next]_vars /\ ~late' => OrderlyInv'
<1> SUFFICES ASSUME ~late', TypeOK, BatchInv, OrderlyInv, [Next]_vars
             PROVE  OrderlyInv'
  OBVIOUS
<1> USE DEF idVars, batchVars, callVars, histVars
<1> DEFINE Phases == Announced \/ Queued \/ SwappedOut \/ Done
           Same == UNCHANGED <<init_, queue_task_, temp, pc, arg, stopping>>
<1>1. ASSUME Same, init_ => handle_' = "active" /\ at' # "stopped"
      PROVE  OrderlyInv'
  BY <1>1 DEF OrderlyInv, Announced, Queued, SwappedOut, Done, NotStopped,
     OnlyTasks, StopIsLast, NobodyPushes
<1>2. CASE InitLoop
  <2>1. queue_task_ = <<>> /\ temp = <<>> /\ NobodyPushes
    BY <1>2 DEF InitLoop, OrderlyInv, Announced, Queued, SwappedOut, Done
  <2>2. \A th \in AllThreads : arg[th] \notin StopTasks
    BY <2>1 DEF NobodyPushes, TypeOK, Items
  <2> QED
    BY <1>2, <2>1, <2>2
    DEF InitLoop, OrderlyInv, NotStopped, OnlyTasks
<1>3. CASE RunEnter \/ Wake \/ TaskReturns \/ BatchDone \/ UNCHANGED vars
  <2>1. Same /\ handle_' = handle_ /\ (at' = at \/ at' # "stopped")
    BY <1>3 DEF RunEnter, Wake, TaskReturns, BatchDone, vars
  <2> QED BY <1>1, <2>1 DEF OrderlyInv
<1>4. CASE on_close
  <2>1. ~init_ /\ Same
    BY <1>4 DEF on_close, OrderlyInv
  <2> QED BY <1>1, <2>1
<1>5. CASE RunExit
  <2>1. ~init_ /\ Same
    BY <1>5 DEF RunExit, OrderlyInv, TypeOK
  <2> QED BY <1>1, <2>1
<1>6. CASE on_async
  <2>1. /\ temp' = queue_task_ /\ queue_task_' = <<>> /\ temp = <<>>
        /\ at' # "stopped"
        /\ UNCHANGED <<init_, handle_, stopping, pc, arg>>
    BY <1>6 DEF on_async, BatchInv
  <2>2. NotStopped => NotStopped'
    BY <2>1 DEF NotStopped, OnlyTasks
  <2>3. Phases => Phases'
    BY <2>1 DEF Announced, Queued, SwappedOut, Done, OnlyTasks, StopIsLast,
       NobodyPushes
  <2> QED BY <2>1, <2>2, <2>3 DEF OrderlyInv, NobodyPushes
<1>7. CASE RunItem
  <2>1. /\ temp # <<>> /\ temp \in Seq(Items)
        /\ temp' = Tail(temp)
        /\ UNCHANGED <<queue_task_, pc, arg, stopping>>
        /\ Head(temp) \notin StopTasks =>
             UNCHANGED <<init_, handle_>> /\ at' = "task"
        /\ Head(temp) \in StopTasks => init_' = FALSE
    BY <1>7 DEF RunItem, on_stop, TypeOK
  <2>2. CASE Head(temp) \notin StopTasks
    <3>1. NotStopped => NotStopped'
      BY <2>1, <2>2, TailLast DEF NotStopped, OnlyTasks
    <3>2. Phases => Phases'
      <4>1. Announced => Announced'
        BY <2>1, <2>2, TailLast DEF Announced, OnlyTasks
      <4>2. Queued => Queued'
        BY <2>1, <2>2, TailLast DEF Queued, OnlyTasks, StopIsLast, NobodyPushes
      <4>3. SwappedOut => SwappedOut'
        BY <2>1, <2>2, TailLast DEF SwappedOut, StopIsLast, NobodyPushes
      <4> QED BY <2>1, <4>1, <4>2, <4>3 DEF Done
    <3> QED BY <2>1, <2>2, <3>1, <3>2 DEF OrderlyInv
  <2>3. CASE Head(temp) \in StopTasks
    <3>1. stopping /\ SwappedOut
      BY <2>1, <2>3, TailLast
      DEF OrderlyInv, NotStopped, Announced, Queued, Done
    <3>2. Done'
      BY <2>1, <2>3, <3>1, TailLast DEF SwappedOut, Done, NobodyPushes
    <3> QED BY <2>1, <3>1, <3>2 DEF OrderlyInv, Done
  <2> QED BY <2>2, <2>3
<1>8. ASSUME NEW th \in AllThreads, Push(th)
      PROVE  OrderlyInv'
  <2>1. /\ arg[th] \in Items
        /\ queue_task_ \in Seq(Items)
        /\ queue_task_' = Append(queue_task_, arg[th])
        /\ pc' = [pc EXCEPT ![th] = "send"]
        /\ arg' = [arg EXCEPT ![th] = NoItem]
        /\ UNCHANGED <<init_, temp, handle_, at, stopping>>
        /\ pc[th] = "push"
    BY <1>8 DEF Push, TypeOK
  <2>2. CASE ~stopping
    <3>1. NotStopped'
      BY <2>1, <2>2, AppendLast, SchedulerAssumption
      DEF OrderlyInv, NotStopped, SchedulerAssumption, OnlyTasks, TypeOK, Items
    <3> QED BY <2>1, <2>2, <3>1 DEF OrderlyInv, NobodyPushes
  <2>3. CASE stopping
    <3>1. Announced
      BY <2>1, <2>3 DEF OrderlyInv, Queued, SwappedOut, Done, NobodyPushes
    <3>2. arg[th] \in StopTasks /\ \A other \in AllThreads \ {th} : pc[other] = "idle"
      BY <2>1, <3>1 DEF Announced
    <3>3. StopIsLast(queue_task_')
      BY <2>1, <3>1, <3>2, AppendLast DEF Announced
    <3>4. NobodyPushes'
      BY <2>1, <3>2 DEF NobodyPushes, TypeOK
    <3>5. Queued'
      BY <2>1, <3>1, <3>3, <3>4 DEF Announced, Queued, OnlyTasks, StopIsLast
    <3> QED BY <2>1, <2>3, <3>1, <3>5 DEF OrderlyInv, Announced
  <2> QED BY <2>2, <2>3
<1>9. ASSUME NEW th \in AllThreads, Send(th)
      PROVE  OrderlyInv'
  <2>1. /\ pc' = [pc EXCEPT ![th] = "idle"]
        /\ pc[th] = "send"
        /\ UNCHANGED <<init_, queue_task_, temp, handle_, at, arg, stopping>>
    BY <1>9 DEF Send
  <2>2. NobodyPushes => NobodyPushes'
    BY <2>1 DEF NobodyPushes, TypeOK
  <2>3. ~Announced
    BY <2>1 DEF Announced
  <2> QED
    BY <2>1, <2>2, <2>3
    DEF OrderlyInv, Queued, SwappedOut, Done, NotStopped, OnlyTasks, StopIsLast
<1>10. ASSUME NEW th \in AllThreads, NEW t \in Tasks, Post(th, t)
       PROVE  OrderlyInv'
  <2>1. /\ ~stopping /\ init_
        /\ arg' = [arg EXCEPT ![th] = t]
        /\ t \notin StopTasks
        /\ UNCHANGED <<init_, queue_task_, temp, handle_, at, stopping>>
    BY <1>10, SchedulerAssumption
    DEF Post, BeginPost, SchedulerAssumption
  <2>2. NotStopped'
    BY <2>1 DEF OrderlyInv, NotStopped, OnlyTasks, TypeOK
  <2> QED BY <2>1, <2>2 DEF OrderlyInv
<1>11. ASSUME NEW th \in AllThreads, NEW s \in StopTasks, Stop(th, s)
       PROVE  OrderlyInv'
  <2>1. /\ th # Loop /\ ~stopping /\ init_ /\ stopping'
        /\ \A other \in AllThreads : pc[other] = "idle"
    BY <1>11 DEF Stop, StopIsLate
  <2>2. ~in_loop_thread(th)
    BY <2>1, SchedulerAssumption DEF in_loop_thread, TypeOK, SchedulerAssumption
  <2>3. /\ pc' = [pc EXCEPT ![th] = "push"]
        /\ arg' = [arg EXCEPT ![th] = s]
        /\ UNCHANGED <<init_, queue_task_, temp, handle_, at>>
    BY <1>11, <2>2 DEF Stop, BeginPost
  <2>4. Announced'
    BY <2>1, <2>3 DEF OrderlyInv, NotStopped, OnlyTasks, Announced, TypeOK
  <2> QED BY <2>1, <2>3, <2>4 DEF OrderlyInv
<1> QED
  BY <1>2, <1>3, <1>4, <1>5, <1>6, <1>7, <1>8, <1>9, <1>10, <1>11
  DEF Next, LoopStep, CallStep

\* A late call is never forgotten.
LEMMA LateStays == TypeOK /\ [Next]_vars /\ late => late'
<1> USE DEF idVars, batchVars, callVars, histVars
<1> QED
  BY DEF Next, LoopStep, CallStep, InitLoop, RunEnter, RunExit, Wake, on_async,
     RunItem, TaskReturns, BatchDone, on_close, Push, Send, Post, Stop, vars,
     TypeOK

\* The invariant of orderly use, as long as the use has been orderly.
UseInv == TypeOK /\ BatchInv /\ (~late => OrderlyInv)

LEMMA UseInit == Init => UseInv
  BY TypeInit, BatchInit, OrderlyInit DEF UseInv

LEMMA UseNext == UseInv /\ [Next]_vars => UseInv'
  BY TypeNext, BatchNext, OrderlyNext, LateStays DEF UseInv

\* When the application has posted nothing after stop() and called stop()
\* once, with no call in progress, a run() that has returned has executed
\* every task that was posted (post, stop, on_stop, on_async).
THEOREM OrderlyStrandsNothing == Spec => []NothingStranded
<1>1. UseInv => NothingStranded
  BY DEF UseInv, OrderlyInv, NothingStranded, Announced, Queued, SwappedOut, Done
<1> QED BY <1>1, UseInit, UseNext, PTL DEF Spec

-----------------------------------------------------------------------------
(* No lost wake-up.  init() does not clear queue_task_, so the invariant   *)
(* needs queue_task_ to be empty when init() is called: either nothing was *)
(* stranded (orderly use) or nothing has run yet.                          *)

FirstRunInv == runs = 0 => ~init_ /\ queue_task_ = <<>> /\ NobodyPushes

LEMMA FirstRunInit == Init => FirstRunInv
  BY DEF Init, FirstRunInv, NobodyPushes

LEMMA FirstRunNext == TypeOK /\ FirstRunInv /\ [Next]_vars => FirstRunInv'
<1> SUFFICES ASSUME TypeOK, FirstRunInv, [Next]_vars, runs' = 0
             PROVE  ~init_' /\ queue_task_' = <<>> /\ NobodyPushes'
  BY DEF FirstRunInv
<1> USE DEF idVars, batchVars, callVars, histVars
<1>1. ~InitLoop
  BY DEF InitLoop, TypeOK
<1>2. runs = 0 /\ ~init_ /\ queue_task_ = <<>> /\ NobodyPushes
  BY <1>1
  DEF FirstRunInv, Next, LoopStep, CallStep, RunEnter, RunExit, Wake, on_async,
      RunItem, TaskReturns, BatchDone, on_close, Push, Send, Post, Stop, vars
<1>3. ASSUME NEW th \in AllThreads, Send(th)
      PROVE  ~init_' /\ queue_task_' = <<>> /\ NobodyPushes'
  BY <1>2, <1>3 DEF Send, NobodyPushes, TypeOK
<1> QED
  BY <1>1, <1>2, <1>3
  DEF NobodyPushes, Next, LoopStep, CallStep, RunEnter, RunExit, Wake, on_async,
      RunItem, on_stop, TaskReturns, BatchDone, on_close, Push, Post, Stop,
      BeginPost, vars

LEMMA WakeupInit == Init => NoLostWakeup
  BY DEF Init, NoLostWakeup

\* What init() finds in queue_task_ does not matter if it is empty.
LEMMA WakeupNext ==
  ASSUME TypeOK, NoLostWakeup, [Next]_vars,
         InitLoop /\ (~late \/ runs = 0) => queue_task_ = <<>>
  PROVE  NoLostWakeup'
<1> USE LateStays DEF idVars, batchVars, callVars, histVars
<1>1. CASE InitLoop
  BY <1>1 DEF InitLoop, NoLostWakeup, TypeOK
<1>2. CASE on_async \/ Wake
  BY <1>2 DEF on_async, Wake, NoLostWakeup
<1>3. CASE RunItem
  BY <1>3 DEF RunItem, on_stop, NoLostWakeup
<1>4. CASE RunEnter \/ RunExit \/ TaskReturns \/ BatchDone \/ on_close
           \/ UNCHANGED vars
  BY <1>4 DEF RunEnter, RunExit, TaskReturns, BatchDone, on_close, vars,
     NoLostWakeup
<1>5. ASSUME NEW th \in AllThreads, Push(th)
      PROVE  NoLostWakeup'
  BY <1>5 DEF Push, NoLostWakeup, TypeOK
<1>6. ASSUME NEW th \in AllThreads, Send(th)
      PROVE  NoLostWakeup'
  BY <1>6 DEF Send, NoLostWakeup
<1>7. ASSUME NEW th \in AllThreads, NEW t \in Tasks, Post(th, t)
      PROVE  NoLostWakeup'
  BY <1>7 DEF Post, BeginPost, CanCall, NoLostWakeup, TypeOK
<1>8. ASSUME NEW th \in AllThreads, NEW s \in StopTasks, Stop(th, s)
      PROVE  NoLostWakeup'
  BY <1>8 DEF Stop, on_stop, BeginPost, CanCall, NoLostWakeup, TypeOK
<1> QED
  BY <1>1, <1>2, <1>3, <1>4, <1>5, <1>6, <1>7, <1>8
  DEF Next, LoopStep, CallStep

\* A task waiting in queue_task_ always has a wake-up on its way (post,
\* on_async), in every run of an orderly use and in the first run of any use.
THEOREM NoWakeupIsLost == Spec => []NoLostWakeup
<1> DEFINE Inv == UseInv /\ FirstRunInv /\ NoLostWakeup
<1>1. Init => Inv
  BY UseInit, FirstRunInit, WakeupInit
<1>2. Inv /\ [Next]_vars => Inv'
  <2> SUFFICES ASSUME Inv, [Next]_vars PROVE Inv'
    OBVIOUS
  <2>1. ASSUME InitLoop, ~late \/ runs = 0
        PROVE  queue_task_ = <<>>
    <3>1. CASE ~late
      BY <2>1, <3>1
      DEF InitLoop, UseInv, OrderlyInv, Announced, Queued, SwappedOut, Done
    <3>2. CASE runs = 0
      BY <3>2 DEF FirstRunInv
    <3> QED BY <2>1, <3>1, <3>2
  <2>2. TypeOK
    BY DEF UseInv
  <2> QED
    BY <2>1, <2>2, UseNext, FirstRunNext, WakeupNext
<1>3. Inv => NoLostWakeup
  OBVIOUS
<1> QED BY <1>1, <1>2, <1>3, PTL DEF Spec

=============================================================================
