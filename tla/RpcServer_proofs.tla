--------------------------- MODULE RpcServer_proofs ---------------------------
(***************************************************************************)
(* Theorems about the server of remote procedures, for any clients and     *)
(* bounds: what it keeps of its channels agrees with their connections, no *)
(* handle is closed twice and no request answered twice, and its end       *)
(* leaves no handle open.                                                  *)
(***************************************************************************)
EXTENDS RpcServer, SequenceLemmas

-----------------------------------------------------------------------------
(* The invariant.                                                          *)

Typed ==
  /\ handle \in [Handles -> {"none", "open", "closing", "closed"}]
  /\ closing \in Seq(Handles) /\ round \in Seq(Handles)
  /\ at \in {"poll", "closing", "out"}
  /\ channels_ \subseteq Channels
  /\ services_ \subseteq Channels /\ requests_ \subseteq Channels
  /\ tasks \in Seq(Tasks) /\ Len(tasks) <= MaxTasks
  /\ owner \in {"run", "close_all", "stop_loop", "join"}
  /\ todo \subseteq Channels /\ telling \subseteq Channels
  /\ notes \in 0 .. MaxNotes
  /\ used \subseteq Requests /\ called \subseteq used
  /\ answered \in [Requests -> 0 .. 1] /\ noted \subseteq Channels
  /\ dropped \subseteq Tasks
  /\ disturbed \in BOOLEAN

\* A closing handle is in one place of libuv's lists, and between two rounds the
\* list of the round is empty.
ClosingState ==
  /\ \A h \in Handles :
       /\ Once(closing, h) /\ Once(round, h) /\ ~(In(closing, h) /\ In(round, h))
       /\ handle[h] = "closing" <=> In(closing, h) \/ In(round, h)
  /\ at # "closing" => round = <<>>

\* A request is new, or with a service, or its answer is posted, or it is answered, or
\* its answer got lost.
AnswerState ==
  \A r \in Requests :
    /\ Once(tasks, Task("answer", r))
    /\ In(tasks, Task("answer", r)) => answered[r] = 0
    /\ In(tasks, Task("answer", r)) \/ answered[r] > 0 => r \in used \ called
    /\ Task("answer", r) \in dropped =>
         answered[r] = 0 /\ r \in used \ called /\ ~In(tasks, Task("answer", r))

\* The channels of the server are those whose connection is open or closing.
ChannelState ==
  /\ channels_ = {c \in Channels : handle[c] \in {"open", "closing"}}
  /\ services_ = channels_
  /\ requests_ \subseteq channels_

ServerInv == Typed /\ ClosingState /\ AnswerState /\ ChannelState

-----------------------------------------------------------------------------
(* What a step does to the tasks and to the closing handles.               *)

LEMMA TasksDiffer ==
  /\ \A h \in Handles : Task("on_stop", h) \in Tasks
  /\ \A r \in Requests : Task("answer", r) \in Tasks
  /\ \A c \in Channels : Task("note", c) \in Tasks
  /\ \A t \in Tasks : \/ t.op = "on_stop" /\ t.of \in Handles /\ t = Task("on_stop", t.of)
                      \/ t.op = "answer" /\ t.of \in Requests /\ t = Task("answer", t.of)
                      \/ t.op = "note" /\ t.of \in Channels /\ t = Task("note", t.of)
  /\ \A x, y : /\ Task("on_stop", x) # Task("answer", y)
               /\ Task("on_stop", x) # Task("note", y)
               /\ Task("answer", x) # Task("note", y)
               /\ Task("answer", x) = Task("answer", y) => x = y
               /\ Task("on_stop", x) = Task("on_stop", y) => x = y
<1>1. /\ \A h \in Handles : Task("on_stop", h) \in Tasks
      /\ \A r \in Requests : Task("answer", r) \in Tasks
      /\ \A c \in Channels : Task("note", c) \in Tasks
  BY DEF Tasks
<1>2. \A op, x : Task(op, x).op = op /\ Task(op, x).of = x
  BY DEF Task
<1>3. ASSUME NEW t \in Tasks
      PROVE  \/ t.op = "on_stop" /\ t.of \in Handles /\ t = Task("on_stop", t.of)
             \/ t.op = "answer" /\ t.of \in Requests /\ t = Task("answer", t.of)
             \/ t.op = "note" /\ t.of \in Channels /\ t = Task("note", t.of)
  BY <1>2 DEF Tasks
<1>4. ASSUME NEW x, NEW y
      PROVE  /\ Task("on_stop", x) # Task("answer", y)
             /\ Task("on_stop", x) # Task("note", y)
             /\ Task("answer", x) # Task("note", y)
             /\ Task("answer", x) = Task("answer", y) => x = y
             /\ Task("on_stop", x) = Task("on_stop", y) => x = y
  <2>1. \A op1, op2 : Task(op1, x) = Task(op2, y) => op1 = op2 /\ x = y
    BY <1>2
  <2> QED BY <2>1
<1> QED BY <1>1, <1>3, <1>4

LEMMA Posted ==
  ASSUME tasks \in Seq(Tasks), Len(tasks) <= MaxTasks, CanPost, NEW t \in Tasks,
         PostTo(t) \/ UNCHANGED tasks
  PROVE  /\ tasks' \in Seq(Tasks) /\ Len(tasks') <= MaxTasks
         /\ \A x : In(tasks, x) => In(tasks', x)
         /\ \A x : In(tasks', x) => In(tasks, x) \/ x = t
         /\ \A x : Once(tasks, x) /\ (x = t => ~In(tasks, x)) => Once(tasks', x)
<1>1. CASE tasks' = Append(tasks, t)
  <2>1. tasks' \in Seq(Tasks) /\ Len(tasks') <= MaxTasks
    BY <1>1, ServerAssumption DEF CanPost
  <2> QED BY <1>1, <2>1, AppendHas
<1>2. CASE tasks' = tasks
  BY <1>2
<1> QED BY <1>1, <1>2 DEF PostTo

LEMMA Appended ==
  ASSUME tasks \in Seq(Tasks), NEW t \in Tasks, tasks' \in {tasks, Append(tasks, t)},
         NEW x
  PROVE  /\ In(tasks, x) => In(tasks', x)
         /\ In(tasks', x) => In(tasks, x) \/ x = t
         /\ tasks' = Append(tasks, t) => In(tasks', t)
<1>1. CASE tasks' = Append(tasks, t)
  BY <1>1, AppendHas
<1>2. CASE tasks' = tasks
  <2>1. Append(tasks, t) # tasks
    OBVIOUS
  <2> QED BY <1>2, <2>1
<1> QED BY <1>1, <1>2

LEMMA Taken ==
  ASSUME Typed, tasks # <<>>, tasks' = Tail(tasks)
  PROVE  /\ tasks' \in Seq(Tasks) /\ Len(tasks') <= MaxTasks
         /\ Head(tasks) \in Tasks
         /\ \A x : In(tasks, x) <=> Head(tasks) = x \/ In(tasks', x)
         /\ \A x : Once(tasks, x) =>
                     Once(tasks', x) /\ (Head(tasks) = x => ~In(tasks', x))
<1>1. tasks \in Seq(Tasks) /\ Len(tasks) <= MaxTasks
  BY DEF Typed
<1>2. tasks' \in Seq(Tasks) /\ Len(tasks') <= MaxTasks
  BY <1>1, HeadTailProperties, ServerAssumption
<1> QED BY <1>1, <1>2, TailHas

LEMMA Stopped ==
  ASSUME Typed, ClosingState, NEW h \in Handles, on_stop(h), UNCHANGED <<at, round>>
  PROVE  /\ handle' \in [Handles -> {"none", "open", "closing", "closed"}]
         /\ closing' \in Seq(Handles)
         /\ ClosingState'
         /\ \A g \in Handles :
              /\ handle'[g] \in {"open", "closing"} <=> handle[g] \in {"open", "closing"}
              /\ handle'[g] = "open" <=> g # h /\ handle[g] = "open"
              /\ handle'[g] = handle[g] \/ (g = h /\ handle'[g] = "closing")
<1>1. /\ handle \in [Handles -> {"none", "open", "closing", "closed"}]
      /\ closing \in Seq(Handles) /\ round \in Seq(Handles)
  BY DEF Typed
<1>2. CASE handle[h] = "open"
  <2>1. handle' = [handle EXCEPT ![h] = "closing"] /\ closing' = <<h>> \o closing
    BY <1>2 DEF on_stop
  <2>2. /\ closing' \in Seq(Handles)
        /\ \A g : In(closing', g) <=> h = g \/ In(closing, g)
        /\ \A g : Once(closing, g) /\ (h = g => ~In(closing, g)) => Once(closing', g)
    BY <1>1, <2>1, PushHas
  <2>3. ~In(closing, h) /\ ~In(round, h)
    BY <1>2 DEF ClosingState
  <2>4. ASSUME NEW g \in Handles
        PROVE  /\ Once(closing, g)' /\ Once(round, g)'
               /\ ~(In(closing, g)' /\ In(round, g)')
               /\ handle'[g] = "closing" <=> In(closing, g)' \/ In(round, g)'
    BY <1>1, <2>1, <2>2, <2>3 DEF ClosingState
  <2>5. ClosingState'
    BY <2>4 DEF ClosingState
  <2> QED BY <1>1, <1>2, <2>1, <2>2, <2>5
<1>3. CASE handle[h] # "open"
  BY <1>1, <1>3 DEF on_stop, ClosingState
<1> QED BY <1>2, <1>3

LEMMA Closed ==
  ASSUME Typed, ClosingState, round # <<>>, round' = Tail(round),
         handle' = [handle EXCEPT ![Head(round)] = "closed"],
         UNCHANGED closing, at = "closing", at' = at
  PROVE  /\ handle' \in [Handles -> {"none", "open", "closing", "closed"}]
         /\ round' \in Seq(Handles) /\ Head(round) \in Handles
         /\ handle[Head(round)] = "closing"
         /\ ClosingState'
<1> DEFINE h == Head(round)
<1>1. /\ handle \in [Handles -> {"none", "open", "closing", "closed"}]
      /\ closing \in Seq(Handles) /\ round \in Seq(Handles)
  BY DEF Typed
<1>2. /\ round' \in Seq(Handles) /\ h \in Handles
      /\ \A g : In(round, g) <=> h = g \/ In(round', g)
      /\ \A g : Once(round, g) => Once(round', g) /\ (h = g => ~In(round', g))
  BY <1>1, TailHas
<1>3. handle' = [handle EXCEPT ![h] = "closed"]
  OBVIOUS
<1> HIDE DEF h
<1>4. handle[h] = "closing" /\ ~In(round', h) /\ ~In(closing, h)
  BY <1>2 DEF ClosingState
<1>5. ASSUME NEW g \in Handles
      PROVE  /\ Once(closing, g)' /\ Once(round, g)'
             /\ ~(In(closing, g)' /\ In(round, g)')
             /\ handle'[g] = "closing" <=> In(closing, g)' \/ In(round, g)'
  BY <1>1, <1>2, <1>3, <1>4 DEF ClosingState
<1>6. ClosingState'
  BY <1>5 DEF ClosingState
<1> QED BY <1>1, <1>2, <1>3, <1>4, <1>6 DEF h

-----------------------------------------------------------------------------
(* The steps of the loop's thread.                                         *)

LEMMA AcceptKeeps ==
  ASSUME ServerInv, NEW c \in Channels, on_accept(c)
  PROVE  ServerInv'
<1> USE DEF ServerInv
<1>1. c \in Handles
  BY DEF Handles
<1>2. Typed'
  BY <1>1 DEF Typed, on_accept, ownerVars, noteVars, serviceVars, sentVars
<1>3. ClosingState'
  BY <1>1 DEF Typed, ClosingState, on_accept
<1>4. AnswerState'
  BY DEF AnswerState, on_accept, serviceVars, sentVars
<1>5. ChannelState'
  BY <1>1 DEF Typed, ChannelState, on_accept, Handles
<1> QED BY <1>2, <1>3, <1>4, <1>5

LEMMA RequestKeeps ==
  ASSUME ServerInv, NEW c \in Channels,
         register(c) \/ \E i \in Ids : answer_at_once(c, i) \/ call_method(c, i)
  PROVE  ServerInv'
<1> USE DEF ServerInv
<1>1. CASE register(c)
  <2>1. Typed' /\ ClosingState' /\ AnswerState'
    BY <1>1 DEF Typed, ClosingState, AnswerState, register, loopVars, ownerVars,
                noteVars, serviceVars, sentVars
  <2>2. ChannelState'
    BY <1>1 DEF ChannelState, register, loopVars
  <2> QED BY <2>1, <2>2
<1>2. ASSUME NEW i \in Ids, answer_at_once(c, i) \/ call_method(c, i)
      PROVE  ServerInv'
  <2> DEFINE r == <<c, i>>
  <2>1. /\ r \in Requests /\ r \notin used /\ used' = used \cup {r}
        /\ UNCHANGED <<loopVars, channelVars, tasks, ownerVars, noteVars, noted, disturbed>>
        /\ \/ /\ answered' = [answered EXCEPT ![r] = @ + 1]
              /\ called' = called /\ dropped' = dropped
           \/ /\ dropped' = dropped \cup {Task("answer", r)}
              /\ called' = called /\ answered' = answered
           \/ /\ called' = called \cup {r}
              /\ answered' = answered /\ dropped' = dropped
    BY <1>2 DEF Requests, answer_at_once, call_method, Receive, Lose, sentVars
  <2> HIDE DEF r
  <2>2. /\ answered \in [Requests -> 0 .. 1] /\ used \subseteq Requests
        /\ called \subseteq used
    BY DEF Typed
  <2>3. /\ answered[r] = 0 /\ ~In(tasks, Task("answer", r)) /\ r \notin called
        /\ Task("answer", r) \notin dropped
    <3>1. answered[r] \in 0 .. 1
      BY <2>1, <2>2
    <3> QED BY <2>1, <2>2, <3>1 DEF AnswerState
  <2>4. /\ answered' \in [Requests -> 0 .. 1] /\ used' \subseteq Requests
        /\ called' \subseteq used' /\ dropped' \subseteq Tasks
    BY <2>1, <2>2, <2>3, TasksDiffer DEF Typed
  <2>5. Typed' /\ ClosingState' /\ ChannelState'
    BY <2>1, <2>4 DEF Typed, ClosingState, ChannelState, loopVars, channelVars, ownerVars,
                      noteVars, sentVars
  <2>6. ASSUME NEW q \in Requests
        PROVE  /\ Once(tasks', Task("answer", q))
               /\ In(tasks', Task("answer", q)) => answered'[q] = 0
               /\ In(tasks', Task("answer", q)) \/ answered'[q] > 0 =>
                    q \in used' \ called'
               /\ Task("answer", q) \in dropped' =>
                    /\ answered'[q] = 0 /\ q \in used' \ called'
                    /\ ~In(tasks', Task("answer", q))
    <3>1. CASE q = r
      BY <2>1, <2>2, <2>3, <3>1 DEF AnswerState
    <3>2. CASE q # r
      <4>1. answered'[q] = answered[q]
        BY <2>1, <2>2, <3>2
      <4>2. Task("answer", q) \in dropped' => Task("answer", q) \in dropped
        BY <2>1, <3>2, TasksDiffer
      <4> QED BY <2>1, <3>2, <4>1, <4>2 DEF AnswerState
    <3> QED BY <3>1, <3>2
  <2>7. AnswerState'
    BY <2>6 DEF AnswerState
  <2> QED BY <2>5, <2>7
<1> QED BY <1>1, <1>2

LEMMA ReadEndKeeps ==
  ASSUME ServerInv, NEW c \in Channels, on_read_end(c)
  PROVE  ServerInv'
<1> USE DEF ServerInv
<1>1. c \in Handles /\ Channels \subseteq Handles
  BY DEF Handles
<1>2. /\ on_stop(c) /\ UNCHANGED <<at, round>>
      /\ UNCHANGED <<channelVars, tasks, ownerVars, noteVars, serviceVars,
                     sentVars, disturbed>>
  BY DEF on_read_end
<1>3. Typed'
  BY <1>1, <1>2, Stopped DEF Typed, channelVars, ownerVars, noteVars, serviceVars, sentVars
<1>4. ClosingState'
  BY <1>1, <1>2, Stopped
<1>5. AnswerState'
  BY <1>2 DEF AnswerState, serviceVars, sentVars
<1>6. ChannelState'
  <2>1. \A g \in Channels :
          handle'[g] \in {"open", "closing"} <=> handle[g] \in {"open", "closing"}
    BY <1>1, <1>2, Stopped
  <2> QED BY <1>2, <2>1 DEF ChannelState, channelVars
<1> QED BY <1>3, <1>4, <1>5, <1>6

LEMMA RunKeeps ==
  ASSUME ServerInv, RunTask
  PROVE  ServerInv'
<1> USE DEF ServerInv
<1> DEFINE t == Head(tasks)
<1>1. /\ tasks # <<>> /\ tasks' = Tail(tasks)
      /\ UNCHANGED <<at, round>>
      /\ UNCHANGED <<channelVars, ownerVars, noteVars, serviceVars, disturbed>>
  BY DEF RunTask
<1>2. /\ tasks' \in Seq(Tasks) /\ Len(tasks') <= MaxTasks /\ t \in Tasks
      /\ \A x : In(tasks, x) <=> t = x \/ In(tasks', x)
      /\ \A x : Once(tasks, x) => Once(tasks', x) /\ (t = x => ~In(tasks', x))
  BY <1>1, Taken
<1>3. \/ /\ t.op = "on_stop" /\ on_stop(t.of) /\ UNCHANGED sentVars
      \/ /\ t.op = "answer" /\ Answer(t.of)
         /\ UNCHANGED <<handle, closing, noted>>
      \/ /\ t.op = "note" /\ Note(t.of)
         /\ UNCHANGED <<handle, closing, answered>>
  BY DEF RunTask
<1> HIDE DEF t
<1>4. answered \in [Requests -> 0 .. 1] /\ noted \subseteq Channels /\ dropped \subseteq Tasks
  BY DEF Typed
<1>5. CASE t.op = "on_stop"
  <2>1. /\ t.of \in Handles /\ on_stop(t.of) /\ UNCHANGED sentVars
        /\ Channels \subseteq Handles
    BY <1>2, <1>3, <1>5, TasksDiffer DEF Handles
  <2>2. Typed'
    BY <1>1, <1>2, <2>1, Stopped
    DEF Typed, channelVars, ownerVars, noteVars, serviceVars, sentVars
  <2>3. ClosingState'
    BY <1>1, <2>1, Stopped
  <2>4. AnswerState'
    BY <1>1, <1>2, <2>1 DEF AnswerState, serviceVars, sentVars
  <2>5. ChannelState'
    <3>1. \A g \in Channels :
            handle'[g] \in {"open", "closing"} <=> handle[g] \in {"open", "closing"}
      BY <1>1, <2>1, Stopped
    <3> QED BY <1>1, <3>1 DEF ChannelState, channelVars
  <2> QED BY <2>2, <2>3, <2>4, <2>5
<1>6. CASE t.op = "answer"
  <2> DEFINE r == t.of
  <2>1. /\ r \in Requests /\ t = Task("answer", r)
        /\ UNCHANGED <<handle, closing, noted>>
        /\ \/ /\ answered' \in {answered, [answered EXCEPT ![r] = @ + 1]}
              /\ dropped' = dropped
           \/ answered' = answered /\ dropped' = dropped \cup {t}
    BY <1>2, <1>3, <1>6, TasksDiffer DEF Answer, Lose
  <2> HIDE DEF r
  <2>2. /\ In(tasks, Task("answer", r)) /\ ~In(tasks', Task("answer", r))
        /\ answered[r] = 0 /\ r \in used \ called /\ t \notin dropped
    BY <1>2, <2>1 DEF AnswerState
  <2>3. /\ answered' \in [Requests -> 0 .. 1] /\ dropped' \subseteq Tasks
        /\ \A q \in Requests \ {r} :
             /\ answered'[q] = answered[q]
             /\ Task("answer", q) \in dropped' => Task("answer", q) \in dropped
        /\ t \in dropped' => answered'[r] = 0
    BY <1>2, <1>4, <2>1, <2>2, TasksDiffer
  <2>4. Typed' /\ ClosingState' /\ ChannelState'
    BY <1>1, <1>2, <2>1, <2>3
    DEF Typed, ClosingState, ChannelState, channelVars, ownerVars, noteVars, serviceVars,
        sentVars
  <2>5. AnswerState'
    BY <1>1, <1>2, <2>1, <2>2, <2>3 DEF AnswerState, serviceVars
  <2> QED BY <2>4, <2>5
<1>7. CASE t.op = "note"
  <2>1. /\ noted' \subseteq Channels /\ UNCHANGED <<handle, closing, answered>>
        /\ dropped' \in {dropped, dropped \cup {t}} /\ \A r : t # Task("answer", r)
    BY <1>2, <1>3, <1>4, <1>7, TasksDiffer DEF Note, Lose
  <2>2. Typed' /\ ClosingState' /\ ChannelState'
    BY <1>1, <1>2, <2>1
    DEF Typed, ClosingState, ChannelState, channelVars, ownerVars, noteVars, serviceVars,
        sentVars
  <2>3. AnswerState'
    <3>1. \A r : Task("answer", r) \in dropped' => Task("answer", r) \in dropped
      BY <2>1
    <3> QED BY <1>1, <1>2, <2>1, <3>1 DEF AnswerState, serviceVars
  <2> QED BY <2>2, <2>3
<1> QED BY <1>3, <1>5, <1>6, <1>7

LEMMA RoundKeeps ==
  ASSUME ServerInv, BeginClosing \/ on_close \/ EndClosing
  PROVE  ServerInv'
<1> USE DEF ServerInv
<1>1. AnswerState'
  BY DEF AnswerState, BeginClosing, on_close, EndClosing, serviceVars, sentVars
<1>2. CASE BeginClosing
  <2>1. Typed' /\ ChannelState'
    BY <1>2 DEF Typed, ChannelState, BeginClosing, channelVars, ownerVars, noteVars,
                serviceVars, sentVars
  <2>2. ClosingState'
    BY <1>2, EmptyHas DEF ClosingState, BeginClosing
  <2> QED BY <1>1, <2>1, <2>2
<1>3. CASE EndClosing
  BY <1>1, <1>3 DEF Typed, ClosingState, ChannelState, EndClosing, channelVars, ownerVars,
                    noteVars, serviceVars, sentVars
<1>4. CASE on_close
  <2> DEFINE h == Head(round)
  <2>1. /\ handle' \in [Handles -> {"none", "open", "closing", "closed"}]
        /\ round' \in Seq(Handles) /\ h \in Handles /\ handle[h] = "closing"
        /\ ClosingState'
    BY <1>4, Closed DEF on_close
  <2>2. /\ handle' = [handle EXCEPT ![h] = "closed"]
        /\ IF h \in Channels
             THEN /\ requests_' = requests_ \ {h} /\ services_' = services_ \ {h}
                  /\ channels_' = channels_ \ {h} /\ disturbed' \in BOOLEAN
             ELSE UNCHANGED <<channelVars, disturbed>>
        /\ UNCHANGED <<closing, at, tasks, ownerVars, noteVars, serviceVars,
                       sentVars>>
    BY <1>4 DEF on_close, erase, ChannelsChange, Typed
  <2> HIDE DEF h
  <2>3. Typed'
    BY <2>1, <2>2 DEF Typed, channelVars, ownerVars, noteVars, serviceVars, sentVars
  <2>4. ChannelState'
    <3>1. Channels \subseteq Handles
      BY DEF Handles
    <3>2. handle \in [Handles -> {"none", "open", "closing", "closed"}]
      BY DEF Typed
    <3>3. \A c \in Channels :
            handle'[c] \in {"open", "closing"} <=> c # h /\ handle[c] \in {"open", "closing"}
      BY <2>1, <2>2, <3>1, <3>2
    <3> QED BY <2>1, <2>2, <3>3 DEF ChannelState, channelVars
  <2> QED BY <1>1, <2>1, <2>3, <2>4
<1> QED BY <1>2, <1>3, <1>4

-----------------------------------------------------------------------------
(* The steps of the owner and of the services.                             *)

LEMMA OwnerKeeps ==
  ASSUME ServerInv, stop \/ OwnerStep
  PROVE  ServerInv'
<1> USE DEF ServerInv
<1>1. /\ UNCHANGED <<loopVars, channelVars, noteVars, serviceVars, sentVars, disturbed>>
      /\ owner' \in {"run", "close_all", "stop_loop", "join"}
      /\ todo' \subseteq Channels
      /\ \/ UNCHANGED tasks
         \/ /\ CanPost
            /\ \E h \in Handles : PostTo(Task("on_stop", h)) \/ UNCHANGED tasks
  BY DEF Typed, Handles, stop, OwnerStep, close_next, stop_server, stop_loop, StopHandle
<1>2. PICK h \in Handles :
        UNCHANGED tasks \/ (CanPost /\ (PostTo(Task("on_stop", h)) \/ UNCHANGED tasks))
  BY <1>1 DEF Handles
<1>3. /\ tasks' \in Seq(Tasks) /\ Len(tasks') <= MaxTasks
      /\ \A r : /\ In(tasks', Task("answer", r)) => In(tasks, Task("answer", r))
                /\ Once(tasks, Task("answer", r)) => Once(tasks', Task("answer", r))
  <2>1. CASE UNCHANGED tasks
    BY <2>1 DEF Typed
  <2>2. CASE CanPost /\ (PostTo(Task("on_stop", h)) \/ UNCHANGED tasks)
    BY <2>2, Posted, TasksDiffer DEF Typed
  <2> QED BY <1>2, <2>1, <2>2
<1>4. Typed' /\ ClosingState' /\ ChannelState'
  BY <1>1, <1>3 DEF Typed, ClosingState, ChannelState, loopVars, channelVars, noteVars,
                    serviceVars, sentVars
<1>5. AnswerState'
  BY <1>1, <1>3 DEF AnswerState, serviceVars, sentVars
<1> QED BY <1>4, <1>5

LEMMA DoneKeeps ==
  ASSUME ServerInv, NEW r \in Requests, done(r)
  PROVE  ServerInv'
<1> USE DEF ServerInv
<1> DEFINE t == Task("answer", r)
<1>1. /\ UNCHANGED <<loopVars, channelVars, ownerVars, noteVars, used, answered, noted,
                     disturbed>>
      /\ CanPost /\ r \in called /\ called' = called \ {r}
      /\ \/ (PostTo(t) \/ UNCHANGED tasks) /\ dropped' = dropped
         \/ UNCHANGED tasks /\ dropped' = dropped \cup {t}
  BY DEF done, SendTo, Lose
<1>2. t \in Tasks /\ \A q : t = Task("answer", q) <=> q = r
  BY TasksDiffer
<1> HIDE DEF t
<1>3. /\ tasks' \in Seq(Tasks) /\ Len(tasks') <= MaxTasks
      /\ \A x : In(tasks', x) => In(tasks, x) \/ x = t
      /\ \A x : Once(tasks, x) /\ (x = t => ~In(tasks, x)) => Once(tasks', x)
      /\ dropped' \subseteq Tasks
      /\ \A q : Task("answer", q) \in dropped' => q = r \/ Task("answer", q) \in dropped
  BY <1>1, <1>2, Posted DEF Typed
<1>4. /\ answered[r] = 0 /\ r \in used /\ ~In(tasks, t) /\ t \notin dropped
  <2>1. r \in used /\ answered[r] \in 0 .. 1
    BY <1>1 DEF Typed
  <2> QED BY <1>1, <1>2, <2>1 DEF AnswerState
<1>5. Typed' /\ ClosingState' /\ ChannelState'
  BY <1>1, <1>3 DEF Typed, ClosingState, ChannelState, loopVars, channelVars, ownerVars,
                    noteVars, sentVars
<1>6. ASSUME NEW q \in Requests
      PROVE  /\ Once(tasks', Task("answer", q))
             /\ In(tasks', Task("answer", q)) => answered'[q] = 0
             /\ In(tasks', Task("answer", q)) \/ answered'[q] > 0 => q \in used' \ called'
             /\ Task("answer", q) \in dropped' =>
                  /\ answered'[q] = 0 /\ q \in used' \ called'
                  /\ ~In(tasks', Task("answer", q))
  <2>1. CASE q = r
    BY <1>1, <1>2, <1>3, <1>4, <2>1 DEF AnswerState
  <2>2. CASE q # r
    BY <1>1, <1>2, <1>3, <2>2 DEF AnswerState
  <2> QED BY <2>1, <2>2
<1>7. AnswerState'
  BY <1>6 DEF AnswerState
<1> QED BY <1>5, <1>7

LEMMA NotifyKeeps ==
  ASSUME ServerInv, notify_all \/ notify_next \/ notify_in_loop
  PROVE  ServerInv'
<1> USE DEF ServerInv
<1>1. /\ UNCHANGED <<loopVars, channelVars, ownerVars, serviceVars, answered, disturbed>>
      /\ telling' \subseteq Channels /\ notes' \in 0 .. MaxNotes /\ noted' \subseteq Channels
      /\ \/ UNCHANGED tasks
         \/ /\ CanPost
            /\ \E c \in Channels : PostTo(Task("note", c)) \/ UNCHANGED tasks
      /\ \A t \in dropped' : t \in dropped \/ \E c \in Channels : t = Task("note", c)
  BY ServerAssumption DEF Typed, notify_all, notify_next, notify_in_loop, SendTo, Lose, sentVars
<1>2. /\ tasks' \in Seq(Tasks) /\ Len(tasks') <= MaxTasks
      /\ \A r : /\ In(tasks', Task("answer", r)) => In(tasks, Task("answer", r))
                /\ Once(tasks, Task("answer", r)) => Once(tasks', Task("answer", r))
  <2>1. CASE UNCHANGED tasks
    BY <2>1 DEF Typed
  <2>2. ASSUME NEW c \in Channels, CanPost, PostTo(Task("note", c)) \/ UNCHANGED tasks
        PROVE  /\ tasks' \in Seq(Tasks) /\ Len(tasks') <= MaxTasks
               /\ \A r : /\ In(tasks', Task("answer", r)) => In(tasks, Task("answer", r))
                         /\ Once(tasks, Task("answer", r)) =>
                              Once(tasks', Task("answer", r))
    <3> DEFINE t == Task("note", c)
    <3>1. t \in Tasks /\ \A r : t # Task("answer", r)
      BY TasksDiffer
    <3>2. CanPost /\ (PostTo(t) \/ UNCHANGED tasks)
      BY <2>2
    <3>3. tasks \in Seq(Tasks) /\ Len(tasks) <= MaxTasks
      BY DEF Typed
    <3> HIDE DEF t
    <3>4. /\ tasks' \in Seq(Tasks) /\ Len(tasks') <= MaxTasks
          /\ \A x : In(tasks', x) => In(tasks, x) \/ x = t
          /\ \A x : Once(tasks, x) /\ (x = t => ~In(tasks, x)) => Once(tasks', x)
      BY <3>1, <3>2, <3>3, Posted
    <3> QED BY <3>1, <3>4
  <2> QED BY <1>1, <2>1, <2>2
<1>3. /\ dropped' \subseteq Tasks
      /\ \A r : Task("answer", r) \in dropped' => Task("answer", r) \in dropped
  <2>1. dropped' \subseteq Tasks
    <3>1. dropped \subseteq Tasks /\ \A c \in Channels : Task("note", c) \in Tasks
      BY TasksDiffer DEF Typed
    <3> QED BY <1>1, <3>1
  <2>2. \A r : Task("answer", r) \in dropped' => Task("answer", r) \in dropped
    <3>1. \A x, c : Task("answer", x) # Task("note", c)
      BY TasksDiffer
    <3> QED BY <1>1, <3>1
  <2> QED BY <2>1, <2>2
<1>4. Typed' /\ ClosingState' /\ ChannelState'
  BY <1>1, <1>2, <1>3 DEF Typed, ClosingState, ChannelState, loopVars, channelVars, ownerVars,
                    serviceVars
<1>5. AnswerState'
  BY <1>1, <1>2, <1>3 DEF AnswerState, serviceVars
<1> QED BY <1>4, <1>5

LEMMA ServerInit == Init => ServerInv
<1> SUFFICES ASSUME Init PROVE ServerInv
  OBVIOUS
<1>1. /\ handle \in [Handles -> {"none", "open", "closing", "closed"}]
      /\ \A h \in Handles : handle[h] \in {"none", "open"}
      /\ \A c \in Channels : handle[c] = "none"
  BY DEF Init, Handles
<1>2. /\ closing \in Seq(Handles) /\ round \in Seq(Handles) /\ tasks \in Seq(Tasks)
      /\ Len(tasks) = 0 /\ answered \in [Requests -> 0 .. 1]
      /\ \A r \in Requests : answered[r] = 0
  BY DEF Init
<1>3. Typed
  <2>1. Len(tasks) <= MaxTasks /\ notes \in 0 .. MaxNotes
    BY <1>2, ServerAssumption DEF Init
  <2> QED BY <1>1, <1>2, <2>1 DEF Init, Typed
<1>4. ClosingState /\ AnswerState
  BY <1>1, <1>2, EmptyHas DEF Init, ClosingState, AnswerState
<1>5. ChannelState
  BY <1>1 DEF Init, ChannelState
<1> QED BY <1>3, <1>4, <1>5 DEF ServerInv

LEMMA ServerNext == ServerInv /\ [Next]_vars => ServerInv'
<1> SUFFICES ASSUME ServerInv, [Next]_vars PROVE ServerInv'
  OBVIOUS
<1>1. CASE UNCHANGED vars
  <2>1. Typed' /\ ClosingState' /\ ChannelState'
    BY <1>1 DEF vars, loopVars, channelVars, ownerVars, noteVars, serviceVars, sentVars,
                ServerInv, Typed, ClosingState, ChannelState
  <2>2. AnswerState'
    BY <1>1 DEF vars, serviceVars, sentVars, ServerInv, AnswerState
  <2> QED BY <2>1, <2>2 DEF ServerInv
<1> QED
  BY <1>1, AcceptKeeps, RequestKeeps, ReadEndKeeps, RunKeeps, RoundKeeps, OwnerKeeps,
     DoneKeeps, NotifyKeeps
  DEF Next, LoopStep

LEMMA ServerInvariant == Spec => []ServerInv
  BY ServerInit, ServerNext, PTL DEF Spec

\* What the server keeps of its channels agrees with their connections; every handle
\* is closed once and every request answered once at most (TypeOK).
THEOREM ChannelsLiveAsLongAsConnections == Spec => []ChannelsAreLive
<1>1. ServerInv => ChannelsAreLive
  <2> SUFFICES ASSUME ServerInv PROVE ChannelsAreLive
    OBVIOUS
  <2> USE DEF ServerInv
  <2> DEFINE waiting == closing \o round
  <2>1. closing \in Seq(Handles) /\ round \in Seq(Handles)
    BY DEF Typed
  <2>2. /\ waiting \in Seq(Handles)
        /\ \A h : In(waiting, h) <=> In(closing, h) \/ In(round, h)
    BY <2>1, ConcatHas
  <2>3. \A h \in Handles : Once(waiting, h)
    BY <2>1, ConcatOnce DEF ClosingState
  <2> HIDE DEF waiting
  <2>4. \A i \in DOMAIN waiting : waiting[i] \in Handles
    BY <2>2
  <2>5. IsInjective(waiting)
    BY <2>3, <2>4 DEF Once, IsInjective
  <2>6. ToSet(waiting) = {h \in Handles : handle[h] = "closing"}
    BY <2>2, <2>4 DEF ToSet, In, ClosingState
  <2>7. TypeOK
    BY <2>5, <2>6 DEF Typed, AnswerState, TypeOK, waiting
  <2> QED BY <2>7 DEF ChannelState, ChannelsAreLive
<1> QED BY <1>1, ServerInvariant, PTL

-----------------------------------------------------------------------------
(* The end of the server.                                                  *)

\* The stop of the handle h is posted.
Stopping(h) == In(tasks, Task("on_stop", h))

\* Once the owner has begun to stop the server, every handle still open is to be
\* stopped, the scheduler's behind all others, so that it is the last to be closed.
StopState ==
  /\ todo # {} => owner = "close_all"
  /\ owner # "run" => \A c \in Channels : handle[c] = "open" => c \in todo \/ Stopping(c)
  /\ owner \in {"stop_loop", "join"} /\ handle[Listener] = "open" => Stopping(Listener)
  /\ owner # "join" => handle[Async] = "open" /\ ~Stopping(Async)
  /\ \A h \in Handles \ {Async} : handle[h] = "open" =>
       Before(tasks, Task("on_stop", Async), Task("on_stop", h))
  /\ handle[Async] # "open" =>
       /\ \A h \in Handles : handle[h] # "open"
       /\ handle[Async] = "closed" \/ In(round, Async) => closing = <<>>
  /\ at = "out" => handle[Async] = "closed"

StopInv == ~disturbed => StopState

LEMMA HandlesDiffer ==
  /\ Async \in Handles /\ Listener \in Handles /\ Channels \subseteq Handles
  /\ Async \notin Channels /\ Listener \notin Channels /\ Listener # Async
  /\ \A h \in Handles : h \in Channels \/ h = Listener \/ h = Async
  BY ServerAssumption DEF Handles

LEMMA PostedBefore ==
  ASSUME tasks \in Seq(Tasks), NEW t \in Tasks, tasks' \in {tasks, Append(tasks, t)},
         NEW x, NEW u, Before(tasks, x, u), t = x => In(tasks, u)
  PROVE  Before(tasks', x, u)
  BY AppendBefore

\* Another handler is posted, or none.
LEMMA QuietStop ==
  ASSUME ServerInv, StopState, UNCHANGED <<handle, closing, round, at, ownerVars>>,
         NEW t \in Tasks, t # Task("on_stop", Async), tasks' \in {tasks, Append(tasks, t)}
  PROVE  StopState'
<1>1. tasks \in Seq(Tasks)
  BY DEF ServerInv, Typed
<1>2. \A x : In(tasks', x) => In(tasks, x) \/ x = t
  BY <1>1, Appended
<1>3. \A x : In(tasks, x) => In(tasks', x)
  BY <1>1, Appended
<1>4. \A u : Before(tasks, Task("on_stop", Async), u) =>
               Before(tasks', Task("on_stop", Async), u)
  BY <1>1, PostedBefore
<1>5. /\ ~Stopping(Async) => ~Stopping(Async)'
      /\ \A h \in Handles : Stopping(h) => Stopping(h)'
  BY <1>2, <1>3 DEF Stopping
<1> QED BY <1>4, <1>5, HandlesDiffer DEF StopState, ownerVars

LEMMA AcceptStop ==
  ASSUME ServerInv, StopState, NEW c \in Channels, on_accept(c), ~disturbed'
  PROVE  StopState'
<1>1. /\ owner = "run" /\ at = "poll" /\ handle' = [handle EXCEPT ![c] = "open"]
      /\ UNCHANGED <<tasks, closing, round, at, owner, todo>>
  BY DEF on_accept, ownerVars
<1>2. handle \in [Handles -> {"none", "open", "closing", "closed"}]
  BY DEF ServerInv, Typed
<1>3. handle'[Async] = "open" /\ ~Stopping(Async)'
  BY <1>1, <1>2, HandlesDiffer DEF StopState, Stopping
<1>4. \A u : Before(tasks', Task("on_stop", Async), u)
  BY <1>3 DEF Stopping, Before, In
<1> QED BY <1>1, <1>3, <1>4 DEF StopState

LEMMA ReadEndStop ==
  ASSUME ServerInv, StopState, NEW c \in Channels, on_read_end(c)
  PROVE  StopState'
<1>1. /\ handle[c] = "open" /\ on_stop(c) /\ at = "poll"
      /\ UNCHANGED <<at, round, tasks, owner, todo>>
  BY DEF on_read_end, ownerVars
<1>2. \A g \in Handles : /\ handle'[g] = "open" <=> g # c /\ handle[g] = "open"
                         /\ handle'[g] = handle[g] \/ (g = c /\ handle'[g] = "closing")
  BY <1>1, HandlesDiffer, Stopped DEF ServerInv
<1>3. handle[Async] = "open" /\ handle'[Async] = "open"
  BY <1>1, <1>2, HandlesDiffer DEF StopState
<1>4. \A h \in Handles : Stopping(h)' <=> Stopping(h)
  BY <1>1 DEF Stopping
<1> QED BY <1>1, <1>2, <1>3, <1>4, HandlesDiffer DEF StopState

LEMMA RunStop ==
  ASSUME ServerInv, StopState, RunTask
  PROVE  StopState'
<1> DEFINE t == Head(tasks)
<1>1. /\ tasks # <<>> /\ tasks' = Tail(tasks) /\ at = "poll"
      /\ UNCHANGED <<at, round, owner, todo>>
  BY DEF RunTask, ownerVars
<1>2. /\ tasks \in Seq(Tasks) /\ t \in Tasks /\ round = <<>> /\ ~In(round, Async)
      /\ \A x : In(tasks, x) <=> t = x \/ In(tasks', x)
  BY <1>1, Taken, EmptyHas DEF ServerInv, Typed, ClosingState
<1>3. \A u : Before(tasks, Task("on_stop", Async), u) =>
               /\ t # Task("on_stop", Async)
               /\ t # u => Before(tasks', Task("on_stop", Async), u)
  BY <1>1, <1>2, TailBefore
<1>4. \/ t.op = "on_stop" /\ on_stop(t.of)
      \/ t.op # "on_stop" /\ UNCHANGED <<handle, closing>>
  BY DEF RunTask
<1> HIDE DEF t
<1>5. \A h \in Handles : Stopping(h) => t = Task("on_stop", h) \/ Stopping(h)'
  BY <1>2 DEF Stopping
<1>6. ~Stopping(Async) => ~Stopping(Async)' /\ t # Task("on_stop", Async)
  BY <1>2 DEF Stopping
<1>7. CASE t.op = "on_stop"
  <2> DEFINE h == t.of
  <2>1. h \in Handles /\ t = Task("on_stop", h) /\ on_stop(h)
    BY <1>2, <1>4, <1>7, TasksDiffer
  <2> HIDE DEF h
  <2>2. \A g \in Handles : /\ handle'[g] = "open" <=> g # h /\ handle[g] = "open"
                           /\ handle'[g] = handle[g] \/ (g = h /\ handle'[g] = "closing")
    BY <1>1, <2>1, Stopped DEF ServerInv
  <2>3. \A g \in Handles : Task("on_stop", g) = t => g = h
    BY <2>1, TasksDiffer
  <2>4. handle'[Async] # "open" =>
          /\ \A g \in Handles : handle'[g] # "open"
          /\ handle'[Async] = "closed" \/ In(round', Async) => closing' = <<>>
    <3>1. CASE handle[Async] # "open"
      <4>1. handle[h] # "open"
        BY <2>1, <3>1 DEF StopState
      <4>2. UNCHANGED <<handle, closing>>
        BY <2>1, <4>1 DEF on_stop
      <4> QED BY <1>1, <3>1, <4>2 DEF StopState
    <3>2. CASE handle[Async] = "open"
      <4> SUFFICES ASSUME handle'[Async] # "open"
                   PROVE  /\ \A g \in Handles : handle'[g] # "open"
                          /\ handle'[Async] = "closed" \/ In(round', Async) => closing' = <<>>
        OBVIOUS
      <4>1. h = Async /\ handle'[Async] = "closing"
        BY <2>2, <3>2, HandlesDiffer
      <4>2. \A g \in Handles \ {Async} : handle[g] # "open"
        BY <1>3, <2>1, <4>1 DEF StopState
      <4> QED BY <1>1, <1>2, <2>2, <4>1, <4>2
    <3> QED BY <3>1, <3>2
  <2>5. owner # "join" => handle'[Async] = "open" /\ ~Stopping(Async)'
    BY <1>6, <2>1, <2>2, HandlesDiffer DEF StopState
  <2>6. /\ owner # "run" => \A c \in Channels : handle'[c] = "open" => c \in todo \/ Stopping(c)'
        /\ owner \in {"stop_loop", "join"} /\ handle'[Listener] = "open" =>
             Stopping(Listener)'
    BY <1>5, <2>2, <2>3, HandlesDiffer DEF StopState
  <2>7. \A g \in Handles \ {Async} : handle'[g] = "open" =>
          Before(tasks', Task("on_stop", Async), Task("on_stop", g))
    BY <1>3, <2>2, <2>3 DEF StopState
  <2> QED BY <1>1, <2>4, <2>5, <2>6, <2>7 DEF StopState
<1>8. CASE t.op # "on_stop"
  <2>1. UNCHANGED <<handle, closing>> /\ \A h \in Handles : t # Task("on_stop", h)
    BY <1>4, <1>8 DEF Task
  <2>2. \A h \in Handles \ {Async} : handle[h] = "open" =>
          Before(tasks', Task("on_stop", Async), Task("on_stop", h))
    BY <1>3, <2>1 DEF StopState
  <2>3. \A h \in Handles : Stopping(h) => Stopping(h)'
    BY <1>5, <2>1
  <2> QED BY <1>1, <1>6, <2>1, <2>2, <2>3, HandlesDiffer DEF StopState
<1> QED BY <1>7, <1>8

LEMMA RoundStop ==
  ASSUME ServerInv, StopState, BeginClosing \/ on_close \/ EndClosing
  PROVE  StopState'
<1>1. tasks' = tasks /\ owner' = owner /\ todo' = todo
  BY DEF BeginClosing, on_close, EndClosing, ownerVars
<1>2. /\ \A h \in Handles : Stopping(h)' <=> Stopping(h)
      /\ \A h : Before(tasks', Task("on_stop", Async), h) <=>
                Before(tasks, Task("on_stop", Async), h)
  BY <1>1 DEF Stopping
<1>3. CASE BeginClosing \/ EndClosing
  <2>1. /\ handle' = handle
        /\ closing' = <<>> \/ (closing' = closing /\ round' = round)
        /\ at' = "out" => handle[Async] = "closed"
    BY <1>3 DEF BeginClosing, EndClosing
  <2> QED BY <1>1, <1>2, <2>1, HandlesDiffer DEF StopState
<1>4. CASE on_close
  <2> DEFINE h == Head(round)
  <2>1. /\ h \in Handles /\ handle[h] = "closing" /\ round \in Seq(Handles)
        /\ round # <<>> /\ round' = Tail(round)
        /\ handle' = [handle EXCEPT ![h] = "closed"] /\ closing' = closing
        /\ at = "closing" /\ at' = at
    BY <1>4, Closed DEF on_close, ServerInv, Typed
  <2>2. In(round, Async) <=> h = Async \/ In(round', Async)
    BY <2>1, TailHas
  <2> HIDE DEF h
  <2>3. handle \in [Handles -> {"none", "open", "closing", "closed"}]
    BY DEF ServerInv, Typed
  <2>4. /\ \A g \in Handles : /\ handle'[g] = "open" <=> handle[g] = "open"
                              /\ handle'[g] = "closed" => g = h \/ handle[g] = "closed"
    BY <2>1, <2>3
  <2>5. handle'[Async] # "open" =>
          /\ \A g \in Handles : handle'[g] # "open"
          /\ handle'[Async] = "closed" \/ In(round', Async) => closing' = <<>>
    BY <2>1, <2>2, <2>4, HandlesDiffer DEF StopState
  <2> QED BY <1>1, <1>2, <2>1, <2>4, <2>5, HandlesDiffer DEF StopState
<1> QED BY <1>3, <1>4

LEMMA OwnerStop ==
  ASSUME ServerInv, StopState, stop \/ OwnerStep
  PROVE  StopState'
<1>1. UNCHANGED <<handle, closing, at, round>>
  BY DEF stop, OwnerStep, close_next, stop_server, stop_loop, StopHandle, loopVars
<1>2. tasks \in Seq(Tasks)
  BY DEF ServerInv, Typed
<1>3. CASE stop
  <2>1. tasks' = tasks /\ owner = "run" /\ owner' = "close_all" /\ todo' = channels_
    BY <1>3 DEF stop
  <2>2. \A c \in Channels : handle[c] = "open" => c \in todo'
    BY <2>1 DEF ServerInv, ChannelState
  <2>3. \A h \in Handles : Stopping(h)' <=> Stopping(h)
    BY <2>1 DEF Stopping
  <2> QED BY <1>1, <2>1, <2>2, <2>3, HandlesDiffer DEF StopState
<1>4. ASSUME NEW h \in Handles, owner # "join",
             UNCHANGED tasks \/ PostTo(Task("on_stop", h)),
             handle[h] = "open" => PostTo(Task("on_stop", h))
      PROVE  /\ \A g \in Handles : Stopping(g) => Stopping(g)'
             /\ handle[h] = "open" => Stopping(h)'
             /\ h # Async => ~Stopping(Async)'
             /\ \A g \in Handles \ {Async} :
                  handle[g] = "open" /\ (h = Async => Stopping(g)) =>
                    Before(tasks', Task("on_stop", Async), Task("on_stop", g))
  <2> DEFINE t == Task("on_stop", h)
  <2>1. handle[Async] = "open" /\ ~Stopping(Async)
    BY <1>4 DEF StopState
  <2>2. t \in Tasks /\ \A g \in Handles : t = Task("on_stop", g) <=> g = h
    BY TasksDiffer
  <2>3. /\ tasks' \in {tasks, Append(tasks, t)}
        /\ handle[h] = "open" => tasks' = Append(tasks, t)
    BY <1>4, <2>1 DEF PostTo
  <2> HIDE DEF t
  <2>4. \A x : /\ In(tasks, x) => In(tasks', x)
               /\ In(tasks', x) => In(tasks, x) \/ x = t
               /\ tasks' = Append(tasks, t) => In(tasks', t)
    BY <1>2, <2>2, <2>3, Appended
  <2>5. ASSUME NEW g \in Handles \ {Async}, handle[g] = "open", h = Async => Stopping(g)
        PROVE  Before(tasks', Task("on_stop", Async), Task("on_stop", g))
    <3>1. Before(tasks, Task("on_stop", Async), Task("on_stop", g))
      BY <2>5 DEF StopState
    <3>2. t = Task("on_stop", Async) => In(tasks, Task("on_stop", g))
      BY <2>2, <2>5, HandlesDiffer DEF Stopping
    <3> QED BY <1>2, <2>2, <2>3, <3>1, <3>2, PostedBefore
  <2> QED BY <2>1, <2>2, <2>3, <2>4, <2>5, HandlesDiffer DEF Stopping
<1>5. CASE close_next
  <2>1. PICK c \in todo :
          /\ todo' = todo \ {c}
          /\ IF handle[c] = "open" THEN PostTo(Task("on_stop", c)) ELSE UNCHANGED tasks
    BY <1>5 DEF close_next
  <2>2. owner = "close_all" /\ owner' = owner /\ c \in Channels /\ c \in Handles /\ c # Async
    BY <1>5, HandlesDiffer DEF close_next, ServerInv, Typed
  <2>3. /\ \A g \in Handles : Stopping(g) => Stopping(g)'
        /\ handle[c] = "open" => Stopping(c)'
        /\ ~Stopping(Async)'
        /\ \A g \in Handles \ {Async} : handle[g] = "open" =>
             Before(tasks', Task("on_stop", Async), Task("on_stop", g))
    BY <1>4, <2>1, <2>2
  <2> QED BY <1>1, <2>1, <2>2, <2>3, HandlesDiffer DEF StopState
<1>6. CASE stop_server
  <2>1. /\ owner = "close_all" /\ owner' = "stop_loop" /\ todo = {} /\ todo' = todo
        /\ PostTo(Task("on_stop", Listener)) /\ Listener \in Handles /\ Listener # Async
    BY <1>6, HandlesDiffer DEF stop_server, StopHandle
  <2>2. /\ \A g \in Handles : Stopping(g) => Stopping(g)'
        /\ handle[Listener] = "open" => Stopping(Listener)'
        /\ ~Stopping(Async)'
        /\ \A g \in Handles \ {Async} : handle[g] = "open" =>
             Before(tasks', Task("on_stop", Async), Task("on_stop", g))
    BY <1>4, <2>1
  <2> QED BY <1>1, <2>1, <2>2, HandlesDiffer DEF StopState
<1>7. CASE stop_loop
  <2>1. /\ owner = "stop_loop" /\ owner' = "join" /\ todo = {} /\ todo' = todo
        /\ PostTo(Task("on_stop", Async)) /\ Async \in Handles
    BY <1>7, HandlesDiffer DEF stop_loop, StopHandle
  <2>2. \A g \in Handles \ {Async} : handle[g] = "open" => Stopping(g)
    BY <2>1, HandlesDiffer DEF StopState
  <2>3. /\ \A g \in Handles : Stopping(g) => Stopping(g)'
        /\ \A g \in Handles \ {Async} : handle[g] = "open" =>
             Before(tasks', Task("on_stop", Async), Task("on_stop", g))
    BY <1>4, <2>1, <2>2
  <2> QED BY <1>1, <2>1, <2>3, HandlesDiffer DEF StopState
<1> QED BY <1>3, <1>5, <1>6, <1>7 DEF OwnerStep

LEMMA OtherStop ==
  ASSUME ServerInv, StopState,
         \/ \E c \in Channels :
              register(c) \/ \E i \in Ids : answer_at_once(c, i) \/ call_method(c, i)
         \/ notify_all \/ notify_next \/ notify_in_loop
         \/ \E r \in Requests : done(r)
         \/ UNCHANGED vars
  PROVE  StopState'
<1>1. UNCHANGED <<handle, closing, round, at, ownerVars>>
  BY DEF register, answer_at_once, call_method, notify_all, notify_next, notify_in_loop,
         done, vars, loopVars
<1>2. \/ UNCHANGED tasks
      \/ \E c \in Channels : PostTo(Task("note", c))
      \/ \E r \in Requests : PostTo(Task("answer", r))
  BY DEF register, answer_at_once, call_method, notify_all, notify_next, notify_in_loop,
         done, SendTo, vars, ServerInv, Typed
<1>3. CASE UNCHANGED tasks
  <2>1. \A h \in Handles : Stopping(h)' <=> Stopping(h)
    BY <1>3 DEF Stopping
  <2> QED BY <1>1, <1>3, <2>1, HandlesDiffer DEF StopState, ownerVars
<1>4. ASSUME NEW t \in Tasks, t # Task("on_stop", Async), PostTo(t)
      PROVE  StopState'
  <2>1. tasks' \in {tasks, Append(tasks, t)}
    BY <1>4 DEF PostTo
  <2> QED BY <1>1, <1>4, <2>1, QuietStop
<1>5. /\ \A c \in Channels :
           Task("note", c) \in Tasks /\ Task("note", c) # Task("on_stop", Async)
      /\ \A r \in Requests :
           Task("answer", r) \in Tasks /\ Task("answer", r) # Task("on_stop", Async)
  BY TasksDiffer
<1> QED BY <1>2, <1>3, <1>4, <1>5

LEMMA StopNext == ServerInv /\ StopInv /\ [Next]_vars => StopInv'
<1> SUFFICES ASSUME ServerInv, StopInv, [Next]_vars, ~disturbed' PROVE StopState'
  BY DEF StopInv
<1>1. StopState
  <2>1. disturbed => disturbed'
    BY DEF Next, vars, LoopStep, RunTask, on_close, EndClosing, BeginClosing, on_accept,
           on_read_end, register, answer_at_once, call_method, stop, OwnerStep, close_next,
           stop_server, stop_loop, StopHandle, notify_all, notify_next, notify_in_loop,
           done, ChannelsChange
  <2> QED BY <2>1 DEF StopInv
<1> QED
  BY <1>1, AcceptStop, ReadEndStop, RunStop, RoundStop, OwnerStop, OtherStop
  DEF Next, LoopStep

\* stop() of the server and then of the scheduler leaves no handle open when run()
\* returns, unless a client connected after stop() had begun.
THEOREM ServerEndsClean == Spec => []ShutdownIsClean
<1>1. Init => StopInv
  <2> SUFFICES ASSUME Init PROVE StopState
    BY DEF StopInv
  <2>1. /\ tasks = <<>> /\ todo = {} /\ owner = "run" /\ at = "poll"
        /\ handle[Async] = "open" /\ ~Stopping(Async)
    BY HandlesDiffer, EmptyHas DEF Init, Stopping
  <2>2. \A u : Before(tasks, Task("on_stop", Async), u)
    BY <2>1 DEF Stopping, Before, In
  <2> QED BY <2>1, <2>2 DEF StopState
<1>2. ServerInv /\ StopInv => ShutdownIsClean
  <2> SUFFICES ASSUME ServerInv, StopState, at = "out", NEW h \in Handles
               PROVE  handle[h] \in {"none", "closed"}
    BY DEF StopInv, ShutdownIsClean
  <2>1. closing = <<>> /\ round = <<>> /\ handle[h] # "open"
    BY DEF StopState, ServerInv, ClosingState
  <2>2. handle[h] # "closing"
    BY <2>1, EmptyHas DEF ServerInv, ClosingState
  <2> QED BY <2>1, <2>2 DEF ServerInv, Typed
<1> QED BY <1>1, <1>2, ServerInvariant, StopNext, PTL DEF Spec

=============================================================================
