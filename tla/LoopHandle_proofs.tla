-------------------------- MODULE LoopHandle_proofs --------------------------
(***************************************************************************)
(* Theorems about the handle of a timer, a signal or a server, for any     *)
(* number of threads and any bounds: only a hasty start() initialises a    *)
(* handle that is in use, no callback of a stop() is called twice, and the *)
(* application is told of the handle's life in the order HandleEvents      *)
(* gives.                                                                  *)
(*                                                                         *)
(* A posted start or stop is in one of three places: in a thread's call,   *)
(* in the scheduler's queue, or on the stack of the loop's thread.  The    *)
(* invariant says which of them can be under way at once.                  *)
(***************************************************************************)
EXTENDS LoopHandle, SequenceLemmas

\* The task t is under way; in one place at most.
Out(t) == UnderWay(call, tasks, stack, t)
Single(t) == InOnePlace(call, tasks, stack, t)

OnClose == Frame("on_close")

\* The handle is being closed: on_close is still to come.
Closing == handle_ = "closing" \/ In(stack, OnClose)

\* What the application was told last is the state of the handle.
EventTells ==
  /\ handle_ \in {"open", "closing"} => event \in {"open", "traffic"}
  /\ handle_ = "none" => event = "none"
  /\ handle_ = "closed" => event = "close" \/ In(stack, OnClose)
  /\ In(stack, OnClose) =>
       stack = <<OnClose>> /\ handle_ = "closed" /\ event \in {"open", "traffic"}

\* As long as nobody was hasty, a start that is under way is the only one, and
\* nothing has been opened since it was called.
Idle == event \in {"none", "close"}
StartsAlone == Out(Start) /\ ~hasty => Idle /\ Single(Start)

\* A numbered stop is under way in one place, and its callback is neither
\* called nor stored.
StopsOnce ==
  \A k \in 1 .. MaxStops :
    /\ Single(StopWith(k))
    /\ Out(StopWith(k)) => k <= stops /\ told[k] = 0 /\ (Closing => close_cb_ # k)
    /\ told[k] # 0 => k <= stops

\* The callback of the close that is under way has not been called.
CloseUntold ==
  /\ close_cb_ <= stops
  /\ Closing /\ close_cb_ # 0 => told[close_cb_] = 0

HandleInv ==
  /\ TypeOK
  /\ misused => hasty
  /\ EventTells /\ StartsAlone /\ StopsOnce /\ CloseUntold

-----------------------------------------------------------------------------
(* How each step moves a task.                                             *)

Frames == Tasks \cup {User, OnClose}

LEMMA TasksAreFrames ==
  /\ Start \in Tasks /\ User \in Frames /\ OnClose \in Frames
  /\ Tasks \subseteq Frames
  /\ \A k \in 0 .. MaxStops : StopWith(k) \in Tasks
  /\ NoCall \notin Tasks /\ User \notin Tasks /\ OnClose \notin Tasks
  /\ User # OnClose
  /\ \A k : Start # StopWith(k) /\ \A j : j # k => StopWith(j) # StopWith(k)
  BY DEF Frames, Tasks, Start, StopWith, NoCall, User, OnClose, Frame

LEMMA TaskCalled ==
  ASSUME TypeOK, NEW th \in Threads, NEW x \in Tasks, Call(th, x), NEW t \in Tasks
  PROVE  /\ Out(t)' <=> Out(t) \/ t = x
         /\ Single(t) /\ (t = x => ~Out(t)) => Single(t)'
<1>1. /\ call \in [Threads -> Tasks \cup {NoCall}] /\ call[th] # t
      /\ call' = [call EXCEPT ![th] = x]
      /\ tasks' = tasks /\ stack' = stack
  BY TasksAreFrames DEF TypeOK, Call
<1> QED BY <1>1, CallMoves DEF Out, Single

LEMMA TaskPosted ==
  ASSUME TypeOK, NEW th \in Threads, Post(th), NEW t \in Tasks
  PROVE  /\ Out(t)' <=> Out(t)
         /\ Single(t) => Single(t)'
<1>1. /\ call \in [Threads -> Tasks \cup {NoCall}] /\ tasks \in Seq(Tasks)
      /\ call[th] \in Tasks /\ t # NoCall
      /\ call' = [call EXCEPT ![th] = NoCall]
      /\ tasks' = Append(tasks, call[th]) /\ stack' = stack
  BY TasksAreFrames DEF TypeOK, Post
<1> QED BY <1>1, PostMoves DEF Out, Single

LEMMA TaskInlined ==
  ASSUME TypeOK, NEW x \in Tasks, CallInline(x), NEW t \in Tasks
  PROVE  /\ Out(t)' <=> Out(t) \/ t = x
         /\ Single(t) /\ (t = x => ~Out(t)) => Single(t)'
<1>1. /\ stack \in Seq(Frames) /\ x \in Frames
      /\ stack' = <<x>> \o stack /\ tasks' = tasks /\ call' = call
  BY TasksAreFrames DEF TypeOK, CallInline, Frames, OnClose
<1> QED BY <1>1, InlineMoves DEF Out, Single

LEMMA TaskRun ==
  ASSUME TypeOK, RunTask, NEW t \in Tasks
  PROVE  /\ Out(t)' <=> Out(t)
         /\ Single(t) => Single(t)'
<1>1. /\ tasks \in Seq(Tasks) /\ tasks # <<>> /\ stack = <<>>
      /\ stack' = <<Head(tasks)>> /\ tasks' = Tail(tasks) /\ call' = call
  BY DEF TypeOK, RunTask
<1> QED BY <1>1, RunMoves DEF Out, Single

\* The code fs replaces the call at the top of the stack.
LEMMA TaskContinued ==
  ASSUME TypeOK, stack # <<>>, NEW fs \in Seq(Frames), Continue(fs),
         tasks' = tasks, call' = call, NEW t, ~In(fs, t)
  PROVE  /\ In(stack', t) <=> In(Tail(stack), t)
         /\ In(stack, t) <=> Head(stack) = t \/ In(stack', t)
         /\ Out(t)' => Out(t)
         /\ Single(t) => Single(t)' /\ (Head(stack) = t => ~Out(t)')
<1>1. stack \in Seq(Frames) /\ stack' = fs \o Tail(stack)
  BY DEF TypeOK, Frames, OnClose, Continue
<1> QED BY <1>1, ContinueMoves DEF Out, Single

-----------------------------------------------------------------------------
\* A start() that is in progress is a start under way.
LEMMA OutstandingIsOut ==
  ASSUME TypeOK
  PROVE  Outstanding("on_start") <=> Out(Start)
<1> DEFINE c == tasks \o stack
<1>1. /\ tasks \in Seq(Frames) /\ stack \in Seq(Frames)
      /\ call \in [Threads -> Tasks \cup {NoCall}]
  BY TasksAreFrames DEF TypeOK, Frames, OnClose
<1>2. \A x \in Frames \cup {NoCall} : x.op = "on_start" <=> x = Start
  BY DEF Frames, Tasks, NoCall, User, OnClose, Frame, Start, StopWith
<1>3. \A t : In(c, t) <=> In(tasks, t) \/ In(stack, t)
  BY <1>1, ConcatHas
<1>4. /\ c \in Seq(Frames)
      /\ \A i \in DOMAIN c : c[i] \in Frames
  BY <1>1, ConcatHas, ElementOfSeq, LenProperties
<1> HIDE DEF c
<1>5. ASSUME NEW op
      PROVE  (\E t \in ToSet(c) : t.op = op) <=> \E x \in Frames : In(c, x) /\ x.op = op
  BY <1>4 DEF ToSet, In
<1>6. \A op : Outstanding(op) <=>
        \/ \E x \in Frames : (In(tasks, x) \/ In(stack, x)) /\ x.op = op
        \/ \E th \in Threads : call[th].op = op
  BY <1>3, <1>5 DEF Outstanding, c
<1>7. Start \in Frames
  BY TasksAreFrames
<1> QED BY <1>1, <1>2, <1>6, <1>7, TasksAreFrames DEF Out, UnderWay

\* What is not under way is in no two places.
LEMMA NotOutIsSingle == ASSUME NEW t, ~Out(t) PROVE Single(t)
  BY DEF Out, Single, UnderWay, InOnePlace, In, Once

-----------------------------------------------------------------------------
(* The invariant.                                                          *)

LEMMA HandleInit == Init => HandleInv
<1> SUFFICES ASSUME Init PROVE HandleInv
  OBVIOUS
<1>1. TypeOK
  <2>1. /\ tasks \in Seq(Tasks)
        /\ stack \in Seq(Tasks \cup {User, Frame("on_close")})
    BY DEF Init
  <2>2. /\ call \in [Threads -> Tasks \cup {NoCall}]
        /\ told \in [1 .. MaxStops -> 0 .. 1]
    BY DEF Init
  <2>3. /\ starts \in 0 .. MaxStarts /\ stops \in 0 .. MaxStops
        /\ close_cb_ \in 0 .. MaxStops
    BY HandleAssumption DEF Init
  <2> QED BY <2>1, <2>2, <2>3 DEF Init, TypeOK
<1>2. ASSUME NEW t \in Tasks PROVE ~Out(t) /\ Single(t)
  BY TasksAreFrames, EmptyHas DEF Init, Out, Single, UnderWay, InOnePlace
<1>3. ~In(stack, OnClose) /\ ~Closing
  BY EmptyHas DEF Init, Closing
<1>4. Start \in Tasks /\ \A k \in 1 .. MaxStops : StopWith(k) \in Tasks
  BY TasksAreFrames
<1>5. EventTells
  BY <1>3 DEF Init, EventTells
<1>6. StartsAlone /\ StopsOnce
  BY <1>2, <1>4 DEF Init, StartsAlone, StopsOnce
<1>7. CloseUntold
  BY HandleAssumption DEF Init, CloseUntold
<1> QED BY <1>1, <1>5, <1>6, <1>7 DEF Init, HandleInv

\* A call of start() or stop() that is permitted puts its task under way.
LEMMA PermittedKeeps ==
  ASSUME HandleInv, NEW x \in Tasks, Permitted(x), Count(x),
         UNCHANGED <<handle_, close_cb_, eventVars, useVars>>,
         TypeOK', EventTells', Closing' <=> Closing,
         \A t \in Tasks : /\ Out(t)' <=> Out(t) \/ t = x
                          /\ Single(t) /\ (t = x => ~Out(t)) => Single(t)'
  PROVE  HandleInv'
<1> USE DEF HandleInv
<1>1. /\ Start \in Tasks /\ \A k : Start # StopWith(k)
      /\ \A k \in 0 .. MaxStops : StopWith(k) \in Tasks
      /\ \A k, j \in 0 .. MaxStops : j # k => StopWith(j) # StopWith(k)
  BY TasksAreFrames
<1>2. /\ stops \in Nat /\ MaxStops \in Nat /\ close_cb_ \in 0 .. MaxStops
      /\ told \in [1 .. MaxStops -> 0 .. 1]
      /\ handle_ \in {"none", "open", "closing", "closed"}
  BY HandleAssumption DEF TypeOK
<1>3. CASE x = Start
  <2>1. stops' = stops /\ hasty' = (hasty \/ IsHasty(Start))
    BY <1>1, <1>2, <1>3 DEF Count
  <2>2. ~hasty' => ~hasty /\ Idle /\ ~Out(Start)
    BY <2>1, OutstandingIsOut DEF IsHasty, Idle
  <2>3. StartsAlone'
    BY <1>1, <1>3, <2>2, NotOutIsSingle DEF StartsAlone, Idle, eventVars
  <2>4. StopsOnce' /\ CloseUntold'
    BY <1>1, <1>3, <2>1 DEF StopsOnce, CloseUntold, useVars
  <2> QED BY <2>1, <2>3, <2>4 DEF useVars
<1>4. CASE x = StopWith(stops + 1)
  <2>1. stops' = stops + 1 /\ stops + 1 \in 1 .. MaxStops /\ hasty' = hasty
    <3>1. hasty \in BOOLEAN /\ ~IsHasty(x)
      BY <1>1, <1>4 DEF TypeOK, IsHasty
    <3>2. x # Start
      BY <1>1, <1>4
    <3> QED BY <1>2, <1>4, <3>1, <3>2 DEF Permitted, Count
  <2>2. StartsAlone'
    BY <1>1, <1>4, <2>1 DEF StartsAlone, Idle, eventVars
  <2>3. ASSUME NEW k \in 1 .. MaxStops
        PROVE  /\ Single(StopWith(k))'
               /\ Out(StopWith(k))' =>
                    k <= stops' /\ told[k] = 0 /\ (Closing => close_cb_ # k)
               /\ told[k] # 0 => k <= stops'
    <3>1. CASE k = stops + 1
      <4>1. ~Out(StopWith(k)) /\ Single(StopWith(k)) /\ told[k] = 0
        BY <1>2, <3>1 DEF StopsOnce
      <4>2. close_cb_ # k
        BY <1>2, <3>1 DEF CloseUntold
      <4> QED BY <1>1, <1>2, <1>4, <2>1, <3>1, <4>1, <4>2
    <3>2. CASE k # stops + 1
      <4>1. StopWith(k) # x /\ StopWith(k) \in Tasks
        BY <1>1, <1>4, <2>1, <3>2
      <4> QED BY <1>2, <2>1, <4>1 DEF StopsOnce
    <3> QED BY <3>1, <3>2
  <2>4. StopsOnce'
    BY <2>3 DEF StopsOnce, useVars
  <2>5. CloseUntold'
    BY <1>2, <2>1 DEF CloseUntold, useVars
  <2> QED BY <2>1, <2>2, <2>4, <2>5 DEF useVars
<1> QED BY <1>3, <1>4 DEF Permitted

LEMMA CallKeeps ==
  ASSUME HandleInv, NEW th \in Threads, NEW x \in Tasks, Call(th, x)
  PROVE  HandleInv'
<1>1. TypeOK'
  <2>1. starts' \in 0 .. MaxStarts /\ stops' \in 0 .. MaxStops
    BY TasksAreFrames, HandleAssumption
    DEF HandleInv, TypeOK, Call, Count, Permitted
  <2> QED BY <2>1 DEF HandleInv, TypeOK, Call, Count, eventVars, useVars, IsHasty
<1>2. EventTells' /\ (Closing' <=> Closing)
  BY DEF HandleInv, EventTells, Closing, Call, eventVars
<1> QED BY <1>1, <1>2, TaskCalled, PermittedKeeps DEF HandleInv, Call

LEMMA InlineKeeps ==
  ASSUME HandleInv, NEW x \in Tasks, CallInline(x)
  PROVE  HandleInv'
<1>1. /\ stack \in Seq(Frames) /\ x \in Frames
      /\ stack' = <<x>> \o stack /\ stack # <<>> /\ Head(stack) # OnClose
      /\ x # OnClose
  BY TasksAreFrames DEF HandleInv, TypeOK, CallInline, Running, Frames, OnClose, Frame
<1>2. ~In(stack, OnClose)
  BY <1>1 DEF HandleInv, EventTells
<1>3. ~In(stack', OnClose) /\ stack' \in Seq(Frames)
  BY <1>1, <1>2, PushHas
<1>4. TypeOK'
  <2>1. starts' \in 0 .. MaxStarts /\ stops' \in 0 .. MaxStops
    BY TasksAreFrames, HandleAssumption
    DEF HandleInv, TypeOK, CallInline, Count, Permitted
  <2> QED BY <1>3, <2>1 DEF HandleInv, TypeOK, CallInline, Count, IsHasty, eventVars,
     useVars, Frames, OnClose
<1>5. EventTells' /\ (Closing' <=> Closing)
  BY <1>2, <1>3 DEF HandleInv, EventTells, Closing, CallInline, eventVars
<1> QED BY <1>4, <1>5, TaskInlined, PermittedKeeps DEF HandleInv, CallInline

\* A step that leaves the handle alone and puts no task under way.
LEMMA QuietKeeps ==
  ASSUME HandleInv,
         UNCHANGED <<handle_, close_cb_, stops, useVars, hasty>>,
         TypeOK', EventTells', Closing' => Closing, Idle => Idle',
         \A t \in Tasks : (Out(t)' => Out(t)) /\ (Single(t) => Single(t)')
  PROVE  HandleInv'
<1> USE DEF HandleInv
<1>1. /\ Start \in Tasks
      /\ \A k \in 0 .. MaxStops : StopWith(k) \in Tasks
      /\ \A k \in 1 .. MaxStops : k \in 0 .. MaxStops
  BY TasksAreFrames
<1>2. StartsAlone'
  BY <1>1 DEF StartsAlone
<1>3. StopsOnce'
  BY <1>1 DEF StopsOnce, useVars
<1>4. CloseUntold'
  BY DEF CloseUntold, useVars
<1> QED BY <1>2, <1>3, <1>4 DEF useVars

LEMMA PostKeeps ==
  ASSUME HandleInv, NEW th \in Threads, Post(th)
  PROVE  HandleInv'
<1>1. TypeOK'
  <2>1. call[th] \in Tasks
    BY DEF HandleInv, TypeOK, Post
  <2>2. tasks' \in Seq(Tasks)
    BY <2>1 DEF HandleInv, TypeOK, Post
  <2> QED BY <2>2 DEF HandleInv, TypeOK, Post, eventVars, useVars
<1>2. EventTells' /\ (Closing' <=> Closing)
  BY DEF HandleInv, EventTells, Closing, Post, eventVars
<1> QED BY <1>1, <1>2, TaskPosted, QuietKeeps DEF HandleInv, Post, eventVars, Idle

LEMMA RunKeeps ==
  ASSUME HandleInv, RunTask
  PROVE  HandleInv'
<1>1. /\ tasks \in Seq(Tasks) /\ tasks # <<>> /\ stack = <<>>
      /\ stack' = <<Head(tasks)>> /\ tasks' = Tail(tasks)
      /\ Head(tasks) \in Tasks /\ tasks' \in Seq(Tasks)
  BY TailHas DEF HandleInv, TypeOK, RunTask
<1>2. ~In(stack, OnClose) /\ ~In(stack', OnClose)
  BY <1>1, EmptyHas, SingletonHas, TasksAreFrames
<1>3. TypeOK'
  <2>1. stack' \in Seq(Tasks \cup {User, Frame("on_close")})
    BY <1>1
  <2> QED BY <1>1, <2>1 DEF HandleInv, TypeOK, RunTask, eventVars, useVars
<1>4. EventTells' /\ (Closing' <=> Closing)
  BY <1>2 DEF HandleInv, EventTells, Closing, RunTask, eventVars
<1> QED BY <1>3, <1>4, TaskRun, QuietKeeps DEF HandleInv, RunTask, eventVars, Idle

\* What the code fs leaves of the stack, and that nothing new is under way.
LEMMA ContinueFacts ==
  ASSUME HandleInv, stack # <<>>, Head(stack) # OnClose,
         NEW fs \in Seq(Frames), Continue(fs), ~In(fs, OnClose)
  PROVE  /\ stack' \in Seq(Tasks \cup {User, Frame("on_close")})
         /\ ~In(stack, OnClose) /\ ~In(stack', OnClose)
<1>1. stack \in Seq(Frames)
  BY DEF HandleInv, TypeOK, Frames, OnClose
<1>2. ~In(stack, OnClose)
  BY DEF HandleInv, EventTells
<1>3. /\ Tail(stack) \in Seq(Frames) /\ ~In(Tail(stack), OnClose)
      /\ stack' = fs \o Tail(stack)
  BY <1>1, <1>2, TailHas DEF Continue
<1>4. stack' \in Seq(Frames) /\ ~In(stack', OnClose)
  BY <1>3, ConcatHas
<1> QED BY <1>2, <1>4 DEF Frames, OnClose

LEMMA UserReturnsKeeps ==
  ASSUME HandleInv, UserReturns
  PROVE  HandleInv'
<1> DEFINE fs == <<>>
<1>1. /\ stack # <<>> /\ Head(stack).op = "user" /\ stack' = Tail(stack)
      /\ stack \in Seq(Frames)
  BY DEF UserReturns, Running, HandleInv, TypeOK, Frames, OnClose
<1>2. fs \in Seq(Frames) /\ Continue(fs) /\ \A t : ~In(fs, t)
  BY <1>1, EmptyHas, TailHas DEF Continue
<1>3. Head(stack) # OnClose
  BY <1>1 DEF OnClose, Frame
<1> HIDE DEF fs
<1>4. /\ stack' \in Seq(Tasks \cup {User, Frame("on_close")})
      /\ ~In(stack, OnClose) /\ ~In(stack', OnClose)
  BY <1>1, <1>2, <1>3, ContinueFacts
<1>5. TypeOK' /\ EventTells' /\ (Closing' <=> Closing)
  BY <1>4 DEF HandleInv, TypeOK, UserReturns, eventVars, apiVars, useVars,
     EventTells, Closing
<1>6. \A t \in Tasks : (Out(t)' => Out(t)) /\ (Single(t) => Single(t)')
  BY <1>1, <1>2, TaskContinued DEF HandleInv, UserReturns, apiVars
<1> QED BY <1>5, <1>6, QuietKeeps DEF UserReturns, apiVars, eventVars, Idle

LEMMA EventKeeps ==
  ASSUME HandleInv, on_event
  PROVE  HandleInv'
<1>1. /\ stack = <<>> /\ stack' = <<User>> /\ tasks' = tasks /\ call' = call
      /\ handle_ = "open" /\ event' = "traffic"
  BY DEF on_event, apiVars
<1>2. ~In(stack', OnClose) /\ ~In(stack, OnClose)
  BY <1>1, EmptyHas, SingletonHas, TasksAreFrames
<1>3. stack' \in Seq(Tasks \cup {User, Frame("on_close")})
  BY <1>1
<1>4. TypeOK' /\ EventTells' /\ (Closing' <=> Closing)
  BY <1>1, <1>2, <1>3
  DEF HandleInv, TypeOK, on_event, apiVars, useVars, EventTells, Closing
<1>5. ASSUME NEW t \in Tasks
      PROVE  (Out(t)' => Out(t)) /\ (Single(t) => Single(t)')
  <2>1. ~In(stack', t) /\ Once(stack', t)
    BY <1>1, SingletonHas, TasksAreFrames
  <2> QED BY <1>1, <2>1 DEF Out, Single, UnderWay, InOnePlace
<1>6. ~Idle
  BY <1>1 DEF HandleInv, EventTells, Idle
<1> QED BY <1>4, <1>5, <1>6, QuietKeeps DEF on_event, apiVars

LEMMA FinishCloseKeeps ==
  ASSUME HandleInv, FinishClose
  PROVE  HandleInv'
<1>1. /\ stack = <<>> /\ stack' = <<OnClose>> /\ tasks' = tasks /\ call' = call
      /\ handle_ = "closing" /\ handle_' = "closed"
  BY DEF FinishClose, apiVars, OnClose
<1>2. In(stack', OnClose) /\ Closing
  BY <1>1, SingletonHas DEF Closing
<1>3. stack' \in Seq(Tasks \cup {User, Frame("on_close")})
  BY <1>1 DEF OnClose
<1>4. TypeOK'
  BY <1>1, <1>3 DEF HandleInv, TypeOK, FinishClose, apiVars, eventVars, useVars
<1>5. EventTells'
  BY <1>1, <1>2 DEF HandleInv, FinishClose, eventVars, EventTells
<1>6. ASSUME NEW t \in Tasks
      PROVE  (Out(t)' => Out(t)) /\ (Single(t) => Single(t)')
  <2>1. ~In(stack', t) /\ Once(stack', t)
    BY <1>1, SingletonHas, TasksAreFrames
  <2> QED BY <1>1, <2>1 DEF Out, Single, UnderWay, InOnePlace
<1>7. StartsAlone'
  BY <1>6, TasksAreFrames DEF HandleInv, StartsAlone, Idle, FinishClose, eventVars
<1>8. StopsOnce' /\ CloseUntold'
  BY <1>2, <1>6, TasksAreFrames
  DEF HandleInv, StopsOnce, CloseUntold, FinishClose, apiVars, useVars
<1> QED
  BY <1>4, <1>5, <1>7, <1>8 DEF HandleInv, FinishClose, useVars

\* What on_start leaves to be run: the report of a server, and after a failure
\* an on_stop without a callback.
LEMMA StartLeaves ==
  ASSUME Open
  PROVE  \E fs \in Seq(Frames) :
           /\ Continue(fs)
           /\ ~In(fs, OnClose) /\ ~In(fs, Start)
           /\ \A k \in 1 .. MaxStops : ~In(fs, StopWith(k))
<1> DEFINE report == IF kind = "server" THEN <<User>> ELSE <<>>
           zero == <<StopWith(0)>>
<1>1. 0 \in 0 .. MaxStops /\ \A k \in 1 .. MaxStops : k \in 0 .. MaxStops /\ k # 0
  BY HandleAssumption
<1>2. /\ report \in Seq(Frames) /\ zero \in Seq(Frames)
      /\ \A t : In(report, t) => t = User
      /\ \A t : In(zero, t) => t = StopWith(0)
  BY <1>1, EmptyHas, SingletonHas, TasksAreFrames
<1>3. report \o zero \in Seq(Frames)
  BY <1>2, ConcatHas
<1>4. \A t : In(report \o zero, t) => t = User \/ t = StopWith(0)
  BY <1>2, ConcatHas
<1>5. Continue(report) \/ Continue(report \o zero)
  BY DEF Open
<1>6. /\ User # OnClose /\ User # Start /\ \A k \in 0 .. MaxStops : User # StopWith(k)
      /\ OnClose # StopWith(0) /\ Start # StopWith(0)
      /\ \A k \in 1 .. MaxStops : StopWith(k) # StopWith(0)
  BY <1>1, TasksAreFrames
<1> HIDE DEF report, zero
<1> QED BY <1>1, <1>2, <1>3, <1>4, <1>5, <1>6

LEMMA StartKeeps ==
  ASSUME HandleInv, on_start
  PROVE  HandleInv'
<1>1. /\ stack # <<>> /\ Head(stack).op = "on_start" /\ stack \in Seq(Frames)
      /\ tasks' = tasks /\ call' = call
  BY DEF on_start, apiVars, Running, HandleInv, TypeOK, Frames, OnClose
<1>2. Head(stack) = Start
  <2>1. Head(stack) \in Frames
    BY <1>1, TailHas
  <2> QED
    BY <1>1, <2>1 DEF Frames, Tasks, Start, StopWith, User, OnClose, Frame
<1>3. Head(stack) # OnClose /\ Out(Start)
  BY <1>1, <1>2, TailHas, TasksAreFrames DEF Out, UnderWay
<1>4. CASE ~StartDue
  <2> DEFINE fs == <<>>
  <2>1. fs \in Seq(Frames) /\ Continue(fs) /\ \A t : ~In(fs, t)
    BY <1>4, EmptyHas DEF on_start
  <2> HIDE DEF fs
  <2>2. /\ stack' \in Seq(Tasks \cup {User, Frame("on_close")})
        /\ ~In(stack, OnClose) /\ ~In(stack', OnClose)
    BY <1>1, <1>3, <2>1, ContinueFacts
  <2>3. TypeOK' /\ EventTells' /\ (Closing' <=> Closing)
    BY <1>4, <2>2
    DEF HandleInv, TypeOK, on_start, eventVars, apiVars, EventTells, Closing,
        Open, Misuse
  <2>4. \A t \in Tasks : (Out(t)' => Out(t)) /\ (Single(t) => Single(t)')
    BY <1>1, <2>1, TaskContinued DEF HandleInv
  <2> QED BY <1>4, <2>3, <2>4, QuietKeeps
    DEF on_start, apiVars, useVars, eventVars, Idle
<1>5. CASE StartDue /\ handle_ # "closing" /\ Open
  <2>1. PICK fs \in Seq(Frames) :
          /\ Continue(fs)
          /\ ~In(fs, OnClose) /\ ~In(fs, Start)
          /\ \A k \in 1 .. MaxStops : ~In(fs, StopWith(k))
    BY <1>5, StartLeaves
  <2>2. /\ stack' \in Seq(Tasks \cup {User, Frame("on_close")})
        /\ ~In(stack', OnClose)
    BY <1>1, <1>3, <2>1, ContinueFacts
  <2>3. /\ active_' = TRUE /\ handle_' = "open" /\ event' = "open"
        /\ turns' = turns + 1
        /\ misused' = misused
        /\ UNCHANGED <<kind, close_cb_, tasks, call, starts, stops, told, hasty>>
    BY <1>5 DEF on_start, apiVars, Open
  <2>4. ~Closing'
    BY <2>2, <2>3 DEF Closing
  <2>5. TypeOK'
    <3>1. turns' \in Nat /\ event' \in {"none", "open", "traffic", "close"}
      BY <2>3 DEF HandleInv, TypeOK
    <3>2. active_' = (handle_' = "open") /\ active_' \in BOOLEAN /\ misused' \in BOOLEAN
      BY <2>3, <2>4 DEF HandleInv, TypeOK
    <3> QED BY <2>2, <2>3, <3>1, <3>2 DEF HandleInv, TypeOK
  <2>6. EventTells'
    BY <2>2, <2>3 DEF EventTells
  <2>7. /\ Out(Start)' => Out(Start)
        /\ Single(Start) => Single(Start)' /\ ~Out(Start)'
    BY <1>1, <1>2, <2>1, TaskContinued DEF HandleInv
  <2>8. ASSUME NEW k \in 1 .. MaxStops
        PROVE  /\ Out(StopWith(k))' => Out(StopWith(k))
               /\ Single(StopWith(k)) => Single(StopWith(k))'
    BY <1>1, <2>1, TaskContinued DEF HandleInv
  \* As long as nobody was hasty this was the only start.
  <2>10. StartsAlone'
    BY <1>3, <2>3, <2>7 DEF HandleInv, StartsAlone
  <2>11. StopsOnce' /\ CloseUntold'
    BY <2>3, <2>4, <2>8 DEF HandleInv, StopsOnce, CloseUntold
  <2> QED BY <2>3, <2>5, <2>6, <2>10, <2>11 DEF HandleInv
<1>6. CASE StartDue /\ handle_ = "closing" /\ Misuse
  <2>1. misused' = TRUE
        /\ UNCHANGED <<kind, active_, handle_, close_cb_, apiVars, stack, eventVars,
                       told, hasty>>
    BY <1>6 DEF on_start, Misuse
  \* The handle has been opened since this start was called.
  <2>2. hasty
    BY <1>3, <1>6 DEF HandleInv, StartsAlone, EventTells, Idle
  <2> QED
    BY <2>1, <2>2
    DEF HandleInv, TypeOK, EventTells, StartsAlone, StopsOnce, CloseUntold, Closing,
        Idle, Out, Single, apiVars, eventVars
<1> QED BY <1>4, <1>5, <1>6 DEF on_start

LEMMA StopKeeps ==
  ASSUME HandleInv, on_stop
  PROVE  HandleInv'
<1>1. /\ stack # <<>> /\ Head(stack).op = "on_stop" /\ stack \in Seq(Frames)
      /\ tasks' = tasks /\ call' = call
  BY DEF on_stop, apiVars, Running, HandleInv, TypeOK, Frames, OnClose
<1>2. PICK k \in 0 .. MaxStops : Head(stack) = StopWith(k)
  <2>1. Head(stack) \in Frames
    BY <1>1, TailHas
  <2> QED
    BY <1>1, <2>1 DEF Frames, Tasks, Start, StopWith, User, OnClose, Frame
<1>3. Head(stack) # OnClose /\ Head(stack).cb = k /\ Out(StopWith(k))
  BY <1>1, <1>2, TailHas, TasksAreFrames DEF Out, UnderWay, StopWith
<1> DEFINE fs == <<>>
<1>4. fs \in Seq(Frames) /\ Continue(fs) /\ \A t : ~In(fs, t)
  <2>1. Continue(fs)
    <3>1. CASE StopDue
      <4>1. handle_ = "open"
        BY <3>1 DEF HandleInv, TypeOK, StopDue
      <4> QED BY <3>1, <4>1 DEF on_stop, Close
    <3>2. CASE ~StopDue
      BY <3>2 DEF on_stop
    <3> QED BY <3>1, <3>2
  <2> QED BY <2>1, EmptyHas
<1> HIDE DEF fs
<1>5. /\ stack' \in Seq(Tasks \cup {User, Frame("on_close")})
      /\ ~In(stack, OnClose) /\ ~In(stack', OnClose)
  BY <1>1, <1>3, <1>4, ContinueFacts
<1>6. ASSUME NEW t
      PROVE  /\ Out(t)' => Out(t)
             /\ Single(t) => Single(t)' /\ (Head(stack) = t => ~Out(t)')
  BY <1>1, <1>4, TaskContinued DEF HandleInv
<1>7. CASE ~StopDue
  <2>1. TypeOK' /\ EventTells' /\ (Closing' <=> Closing)
    BY <1>5, <1>7
    DEF HandleInv, TypeOK, on_stop, eventVars, apiVars, useVars, EventTells, Closing
  <2> QED
    BY <1>6, <1>7, <2>1, QuietKeeps DEF on_stop, apiVars, eventVars, Idle
<1>8. CASE StopDue
  <2>1. /\ handle_ = "open" /\ handle_' = "closing" /\ active_' = FALSE
        /\ close_cb_' = k
        /\ UNCHANGED <<kind, tasks, call, starts, stops, event, turns, told, misused,
                       hasty>>
    BY <1>3, <1>8
    DEF on_stop, HandleInv, TypeOK, StopDue, Close, apiVars, eventVars, useVars
  <2>2. TypeOK'
    BY <1>2, <1>5, <2>1 DEF HandleInv, TypeOK
  <2>3. EventTells'
    BY <1>5, <2>1 DEF HandleInv, EventTells
  <2>5. StartsAlone'
    BY <1>6, <2>1 DEF HandleInv, StartsAlone, Idle
  <2>6. k <= stops /\ (k # 0 => told[k] = 0 /\ ~Out(StopWith(k))')
    <3>1. CASE k = 0
      BY <3>1 DEF HandleInv, TypeOK
    <3>2. CASE k # 0
      <4>1. k \in 1 .. MaxStops
        BY <3>2
      <4> QED BY <1>2, <1>3, <1>6, <4>1 DEF HandleInv, StopsOnce
    <3> QED BY <3>1, <3>2
  <2>7. StopsOnce' /\ CloseUntold'
    BY <1>6, <2>1, <2>6 DEF HandleInv, StopsOnce, CloseUntold
  <2> QED BY <2>1, <2>2, <2>3, <2>5, <2>7 DEF HandleInv
<1> QED BY <1>7, <1>8

LEMMA CloseKeeps ==
  ASSUME HandleInv, on_close
  PROVE  HandleInv'
<1>1. /\ stack # <<>> /\ Head(stack).op = "on_close" /\ stack \in Seq(Frames)
      /\ tasks' = tasks /\ call' = call
  BY DEF on_close, apiVars, Running, HandleInv, TypeOK, Frames, OnClose
<1>2. Head(stack) = OnClose /\ In(stack, OnClose)
  <2>1. Head(stack) \in Frames
    BY <1>1, TailHas
  <2>2. Head(stack) = OnClose
    BY <1>1, <2>1 DEF Frames, Tasks, Start, StopWith, User, OnClose, Frame
  <2> QED BY <1>1, <2>2, TailHas
<1>3. /\ stack = <<OnClose>> /\ handle_ = "closed" /\ Closing
      /\ event \in {"open", "traffic"}
  BY <1>2 DEF HandleInv, EventTells, Closing
<1>4. stack' = <<User>>
  BY <1>3 DEF on_close, Continue
<1>5. /\ ~In(stack', OnClose)
      /\ stack' \in Seq(Tasks \cup {User, Frame("on_close")})
  BY <1>4, SingletonHas, TasksAreFrames
<1>6. ~Closing' /\ EventTells'
  BY <1>3, <1>5 DEF on_close, Closing, EventTells
<1>7. ASSUME NEW t \in Tasks
      PROVE  (Out(t)' => Out(t)) /\ (Single(t) => Single(t)')
  <2>1. ~In(stack', t) /\ Once(stack', t)
    BY <1>4, SingletonHas, TasksAreFrames
  <2> QED BY <1>1, <2>1 DEF Out, Single, UnderWay, InOnePlace
<1>8. /\ Start \in Tasks
      /\ \A k \in 0 .. MaxStops : StopWith(k) \in Tasks
      /\ \A k \in 1 .. MaxStops : k \in 0 .. MaxStops
  BY TasksAreFrames
<1>9. /\ close_cb_ # 0 => close_cb_ \in 1 .. MaxStops
      /\ close_cb_ # 0 => told' = [told EXCEPT ![close_cb_] = 1]
      /\ close_cb_ = 0 => told' = told
      /\ close_cb_ <= stops
      /\ told \in [1 .. MaxStops -> 0 .. 1]
      /\ close_cb_' = close_cb_ /\ stops' = stops
  <2>1. /\ close_cb_ \in 0 .. MaxStops /\ close_cb_ <= stops
        /\ told \in [1 .. MaxStops -> 0 .. 1]
        /\ close_cb_ # 0 => told[close_cb_] = 0
    BY <1>3 DEF HandleInv, TypeOK, CloseUntold
  <2>2. /\ told' = IF close_cb_ = 0 THEN told ELSE [told EXCEPT ![close_cb_] = @ + 1]
        /\ close_cb_' = close_cb_ /\ stops' = stops
    BY DEF on_close, apiVars
  <2>3. close_cb_ # 0 => close_cb_ \in 1 .. MaxStops
    BY <2>1
  <2>4. CASE close_cb_ = 0
    BY <2>1, <2>2, <2>4
  <2>5. CASE close_cb_ # 0
    <3>1. told' = [told EXCEPT ![close_cb_] = 1]
      <4>1. told[close_cb_] + 1 = 1
        BY <2>1, <2>5
      <4> QED BY <2>2, <2>5, <4>1
    <3> QED BY <2>1, <2>2, <2>3, <2>5, <3>1
  <2> QED BY <2>4, <2>5
<1>10. TypeOK'
  <2>1. told' \in [1 .. MaxStops -> 0 .. 1]
    BY <1>9
  <2> QED BY <1>5, <2>1 DEF HandleInv, TypeOK, on_close, apiVars
<1>11. StartsAlone'
  BY <1>7, <1>8 DEF HandleInv, StartsAlone, Idle, on_close
<1>12. ASSUME NEW k \in 1 .. MaxStops
       PROVE  /\ Single(StopWith(k))'
              /\ Out(StopWith(k))' => k <= stops' /\ told'[k] = 0
              /\ told'[k] # 0 => k <= stops'
  <2>1. CASE k = close_cb_
    <3>1. ~Out(StopWith(k))
      BY <1>3, <2>1 DEF HandleInv, StopsOnce
    <3> QED BY <1>7, <1>8, <1>9, <2>1, <3>1 DEF HandleInv, StopsOnce
  <2>2. CASE k # close_cb_
    <3>1. told'[k] = told[k]
      BY <1>9, <2>2
    <3> QED BY <1>7, <1>8, <1>9, <3>1 DEF HandleInv, StopsOnce
  <2> QED BY <2>1, <2>2
<1>13. StopsOnce' /\ CloseUntold'
  BY <1>6, <1>9, <1>12 DEF StopsOnce, CloseUntold
<1> QED
  BY <1>6, <1>10, <1>11, <1>13 DEF HandleInv, on_close

LEMMA HandleNext == HandleInv /\ [Next]_vars => HandleInv'
<1> SUFFICES ASSUME HandleInv, [Next]_vars PROVE HandleInv'
  OBVIOUS
<1>1. CASE UNCHANGED vars
  BY <1>1, QuietKeeps
  DEF vars, apiVars, eventVars, useVars, HandleInv, TypeOK, EventTells, Closing,
      Idle, Out, Single
<1>2. CASE Next
  BY <1>2, RunKeeps, StartKeeps, StopKeeps, CloseKeeps, UserReturnsKeeps, EventKeeps,
     FinishCloseKeeps, InlineKeeps, CallKeeps, PostKeeps
  DEF Next, Handler
<1> QED BY <1>1, <1>2

LEMMA HandleInvariant == Spec => []HandleInv
  BY HandleInit, HandleNext, PTL DEF Spec

\* Whatever threads and callbacks start and stop the object, on_start never
\* initialises an open handle, it initialises a closing one only for an
\* application that calls start() before it is told of the close or twice at a
\* time, and no callback given to stop() is called twice.
THEOREM HandleIsNeverReinitialised == Spec => []NeverReinitialised
<1>1. HandleInv => NeverReinitialised
  BY DEF HandleInv, NeverReinitialised
<1> QED BY <1>1, HandleInvariant, PTL

-----------------------------------------------------------------------------
(* Every step is a step of HandleEvents, or a stutter.                     *)

LEMMA StepTells ==
  HandleInv /\ [Next]_vars => [Events!Next]_<<event, turns>>
<1> SUFFICES ASSUME HandleInv, [Next]_vars,
                    ~(event' = event /\ turns' = turns)
             PROVE  Events!Next
  OBVIOUS
<1> USE DEF eventVars
<1>1. CASE on_start
  <2>1. /\ StartDue /\ handle_ # "closing" /\ event' = "open" /\ turns' = turns + 1
    BY <1>1 DEF on_start, Open, Misuse
  <2>2. stack # <<>> /\ Head(stack).op = "on_start"
    BY <1>1 DEF on_start, Running
  <2>3. ~In(stack, OnClose)
    BY <2>2 DEF HandleInv, EventTells, OnClose, Frame
  <2>4. handle_ \in {"none", "closed"}
    BY <2>1 DEF HandleInv, TypeOK, StartDue
  <2>5. event \in {"none", "close"}
    BY <2>3, <2>4 DEF HandleInv, EventTells
  <2> QED BY <2>1, <2>5 DEF Events!Next, Events!Open
<1>2. CASE on_close
  <2>1. /\ event' = "close" /\ turns' = turns + 1
    BY <1>2 DEF on_close
  <2>2. stack # <<>> /\ stack \in Seq(Frames) /\ Head(stack).op = "on_close"
    BY <1>2 DEF on_close, Running, HandleInv, TypeOK, Frames, OnClose
  <2>3. Head(stack) = OnClose
    <3>1. Head(stack) \in Frames
      BY <2>2, TailHas
    <3> QED
      BY <2>2, <3>1 DEF Frames, Tasks, Start, StopWith, User, OnClose, Frame
  <2>4. In(stack, OnClose)
    BY <2>2, <2>3, TailHas
  <2>5. event \in {"open", "traffic"}
    BY <2>4 DEF HandleInv, EventTells
  <2> QED BY <2>1, <2>5 DEF Events!Next, Events!Close
<1>3. CASE on_event
  BY <1>3 DEF on_event, HandleInv, EventTells, Events!Next, Events!Traffic
<1>4. on_start \/ on_close \/ on_event
  BY DEF Next, vars, Handler, RunTask, on_stop, UserReturns, FinishClose, CallInline,
         Call, Post
<1> QED BY <1>1, <1>2, <1>3, <1>4

\* What the application is told is a behaviour of HandleEvents: opened, events
\* only while it is open, closed once, and only then opened again.
THEOREM HandleTellsInOrder == Spec => CallbacksInOrder
<1>1. Init => Events!Init
  BY DEF Init, Events!Init
<1> QED
  BY <1>1, HandleInvariant, StepTells, PTL DEF Spec, CallbacksInOrder, Events!Spec

=============================================================================
