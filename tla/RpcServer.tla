------------------------------ MODULE RpcServer ------------------------------
(***************************************************************************)
(* A server of remote procedures: src/RpcServer.cpp, the server side of    *)
(* src/RpcChannel.cpp, and their end as test/rpc_server.cpp brings it      *)
(* about: server.stop(), ctx.stop(), and the loop's thread is joined.      *)
(*                                                                         *)
(* Three kinds of threads take part: the loop's, which accepts channels,   *)
(* processes requests and closes; the owner's, which stops the server; and *)
(* those of the services, which call done() and notify().  A channel and   *)
(* its connection are one value.  TcpConnection, TcpServer and IOScheduler *)
(* are reduced to their handles, the queue of posted handlers and libuv's  *)
(* list of closing handles, which is served in rounds, last come first.    *)
(***************************************************************************)
EXTENDS Naturals, Sequences, FiniteSets, SequencesExt

CONSTANTS
  Channels,     \* the connections clients may make, each accepted once
  Ids,          \* the request ids of a client, each used once
  Listener,     \* the server's listening handle
  Async,        \* the scheduler's async handle
  MaxNotes,     \* bound: calls of notify_all()
  MaxTasks,     \* bound: handlers posted at the same time
  MaxLost       \* bound: answers and notifications that get lost

ASSUME ServerAssumption ==
  /\ Listener # Async
  /\ {Listener, Async} \cap Channels = {}
  /\ MaxNotes \in Nat /\ MaxTasks \in Nat /\ MaxLost \in Nat

Handles == Channels \cup {Listener, Async}

VARIABLES
  handle,       \* every handle: "none", "open" (connected_, started_, init_),
                \* "closing", "closed"
  channels_,    \* the channels of the server
  services_,    \* the channels that have been given the services
  requests_,    \* the channels with a registration for notifications
  tasks,        \* the handlers posted to the scheduler
  closing,      \* libuv's closing handles, last come first
  at,           \* the loop's thread: "poll", "closing", "out"
  round,        \* the closing handles of this round
  owner,        \* the owner's thread: "run", "close_all", "stop_loop", "join"
  todo,         \* the channels close_all() has not visited
  telling,      \* the channels notify_all(), in another thread, has not visited
  notes,        \* calls of notify_all() so far
  used,         \* the requests received
  called,       \* the requests of which a service has yet to call done()
  dropped,      \* history: the answers and notifications that got lost
  answered,     \* history: how often each request was answered
  noted,        \* history: the channels to which a notification was sent
  disturbed     \* history: a channel came after stop() had begun, or channels_ was
                \* changed while another thread was in it

loopVars == <<handle, closing, at, round>>
channelVars == <<channels_, services_, requests_>>
ownerVars == <<owner, todo>>
noteVars == <<telling, notes>>
serviceVars == <<used, called>>
sentVars == <<answered, noted, dropped>>
vars == <<loopVars, channelVars, tasks, ownerVars, noteVars, serviceVars,
          sentVars, disturbed>>

Requests == Channels \X Ids
Task(op, x) == [op |-> op, of |-> x]
Tasks == {Task("on_stop", h) : h \in Handles}
         \cup {Task("answer", r) : r \in Requests}
         \cup {Task("note", c) : c \in Channels}

Init ==
  /\ handle = [h \in Handles |-> IF h \in Channels THEN "none" ELSE "open"]
  /\ channels_ = {}
  /\ services_ = {} /\ requests_ = {}
  /\ tasks = <<>> /\ closing = <<>> /\ round = <<>>
  /\ at = "poll"
  /\ owner = "run" /\ todo = {}
  /\ telling = {} /\ notes = 0
  /\ used = {} /\ called = {}
  /\ answered = [r \in Requests |-> 0]
  /\ noted = {} /\ dropped = {}
  /\ disturbed = FALSE

\* channels_ changes: it must not be in use by close_all() or notify_all().
ChannelsChange == disturbed' = (disturbed \/ todo # {} \/ telling # {})

\* A call that another thread posts, as long as the scheduler is initialised.
PostTo(t) ==
  IF handle[Async] = "open" THEN tasks' = Append(tasks, t) ELSE UNCHANGED tasks
CanPost == Len(tasks) < MaxTasks

\* What t stands for is lost: it does not serialise (send_packet), or the send queue of
\* the connection is full (TcpConnection::on_send).  Nobody is told but the log.
Lose(t) ==
  /\ Cardinality(dropped) < MaxLost
  /\ dropped' = dropped \cup {t}

\* send_resp from another thread: a packet that does not serialise is lost; send()
\* fails on a closed connection and is posted on an open one.
SendTo(c, t) ==
  \/ /\ IF handle[c] = "open" THEN PostTo(t) ELSE UNCHANGED tasks
     /\ UNCHANGED dropped
  \/ Lose(t) /\ UNCHANGED tasks

-----------------------------------------------------------------------------
(* The loop's thread: connections and requests.                            *)

\* TcpServer::on_accept with RpcServer's on_alloc, on_accept and
\* on_channel_connect.
on_accept(c) ==
  /\ at = "poll"
  /\ handle[Listener] = "open"
  /\ handle[c] = "none"
  /\ channels_' = channels_ \cup {c}
  /\ disturbed' = (disturbed \/ owner # "run" \/ telling # {})
  /\ handle' = [handle EXCEPT ![c] = "open"]
  /\ services_' = services_ \cup {c}
  /\ UNCHANGED <<closing, at, round, requests_, tasks, ownerVars, noteVars,
                 serviceVars, sentVars>>

Receive(c, i) ==
  /\ at = "poll"
  /\ handle[c] = "open"
  /\ <<c, i>> \notin used
  /\ used' = used \cup {<<c, i>>}

\* process_request for "notify": the registration is not answered; a second
\* one of the same channel is not entered.
register(c) ==
  /\ at = "poll"
  /\ handle[c] = "open"
  /\ requests_' = requests_ \cup {c}
  /\ UNCHANGED <<loopVars, channels_, services_, tasks, ownerVars, noteVars,
                 serviceVars, sentVars, disturbed>>

\* process_request when service, method or message are wrong, or when the
\* service calls done() before it returns, as MsgService does: send_resp, which
\* in the loop's thread is executed at once, if the packet serialises and the queue
\* has room.
answer_at_once(c, i) ==
  /\ Receive(c, i)
  /\ \/ /\ answered' = [answered EXCEPT ![<<c, i>>] = @ + 1]
        /\ UNCHANGED dropped
     \/ /\ Lose(Task("answer", <<c, i>>))
        /\ UNCHANGED answered
  /\ UNCHANGED <<loopVars, channelVars, tasks, ownerVars, noteVars, called,
                 noted, disturbed>>

\* process_request otherwise: the service keeps the controller and calls its
\* done() later, from a thread of its own.
call_method(c, i) ==
  /\ Receive(c, i)
  /\ called' = called \cup {<<c, i>>}
  /\ UNCHANGED <<loopVars, channelVars, tasks, ownerVars, noteVars, sentVars, disturbed>>

\* on_stop of a connection, a server or the scheduler: uv_close, once.
on_stop(h) ==
  IF handle[h] = "open"
    THEN /\ handle' = [handle EXCEPT ![h] = "closing"]
         /\ closing' = <<h>> \o closing
    ELSE UNCHANGED <<handle, closing>>

\* The end of the stream, or an error (TcpConnection::on_read).
on_read_end(c) ==
  /\ at = "poll"
  /\ handle[c] = "open"
  /\ on_stop(c)
  /\ UNCHANGED <<at, round, channelVars, tasks, ownerVars, noteVars,
                 serviceVars, sentVars, disturbed>>

\* on_send of a connection: an open one queues what it is given or, if its queue is
\* full, discards it; a closed one does nothing.
Answer(r) ==
  \/ /\ answered' = IF handle[r[1]] = "open" THEN [answered EXCEPT ![r] = @ + 1]
                                             ELSE answered
     /\ UNCHANGED dropped
  \/ /\ handle[r[1]] = "open" /\ Lose(Task("answer", r))
     /\ UNCHANGED answered

Note(c) ==
  \/ /\ noted' = IF handle[c] = "open" THEN noted \cup {c} ELSE noted
     /\ UNCHANGED dropped
  \/ /\ handle[c] = "open" /\ Lose(Task("note", c))
     /\ UNCHANGED noted

\* The scheduler executes the next handler.
RunTask ==
  /\ at = "poll"
  /\ tasks # <<>>
  /\ tasks' = Tail(tasks)
  /\ LET t == Head(tasks)
     IN \/ /\ t.op = "on_stop"
           /\ on_stop(t.of)
           /\ UNCHANGED sentVars
        \/ /\ t.op = "answer"
           /\ Answer(t.of)
           /\ UNCHANGED <<handle, closing, noted>>
        \/ /\ t.op = "note"
           /\ Note(t.of)
           /\ UNCHANGED <<handle, closing, answered>>
  /\ UNCHANGED <<at, round, channelVars, ownerVars, noteVars, serviceVars,
                 disturbed>>

-----------------------------------------------------------------------------
(* The loop's thread: closing handles.                                     *)

\* uv_run takes the list of closing handles; those closed by the callbacks
\* have to wait for the next round.
BeginClosing ==
  /\ at = "poll"
  /\ closing # <<>>
  /\ at' = "closing"
  /\ round' = closing
  /\ closing' = <<>>
  /\ UNCHANGED <<handle, channelVars, tasks, ownerVars, noteVars, serviceVars,
                 sentVars, disturbed>>

erase_nothing(h) == UNCHANGED channels_     \* mutant
erase(h) == channels_' = channels_ \ {h}

\* The close callback of the next handle.  A channel forgets registrations and
\* services, and on_channel_close erases it.
on_close ==
  /\ at = "closing"
  /\ round # <<>>
  /\ round' = Tail(round)
  /\ LET h == Head(round)
     IN /\ handle' = [handle EXCEPT ![h] = "closed"]
        /\ IF h \in Channels
             THEN /\ requests_' = requests_ \ {h}
                  /\ services_' = services_ \ {h}
                  /\ erase(h)
                  /\ ChannelsChange
             ELSE UNCHANGED <<channelVars, disturbed>>
  /\ UNCHANGED <<closing, at, tasks, ownerVars, noteVars, serviceVars,
                 sentVars>>

\* uv_run returns if the scheduler's on_close has called uv_stop.
EndClosing ==
  /\ at = "closing"
  /\ round = <<>>
  /\ at' = IF handle[Async] = "closed" THEN "out" ELSE "poll"
  /\ UNCHANGED <<handle, closing, round, channelVars, tasks, ownerVars,
                 noteVars, serviceVars, sentVars, disturbed>>

-----------------------------------------------------------------------------
(* The owner: server.stop(), ctx.stop().                                   *)

\* RpcServer::stop: close_all() begins to go through channels_.
stop ==
  /\ owner = "run"
  /\ owner' = "close_all"
  /\ todo' = channels_
  /\ UNCHANGED <<loopVars, channelVars, tasks, noteVars, serviceVars, sentVars, disturbed>>

\* Mutant: close_all() stops one channel only.
close_first ==
  /\ owner = "close_all"
  /\ CanPost
  /\ todo # {}
  /\ todo' = {}
  /\ \E c \in todo :
       IF handle[c] = "open" THEN PostTo(Task("on_stop", c)) ELSE UNCHANGED tasks
  /\ UNCHANGED <<owner, loopVars, channelVars, noteVars, serviceVars, sentVars, disturbed>>

\* close_all(): stop() of the next channel, posted if it is connected.
close_next ==
  /\ owner = "close_all"
  /\ CanPost
  /\ \E c \in todo :
       /\ todo' = todo \ {c}
       /\ IF handle[c] = "open" THEN PostTo(Task("on_stop", c))
                                ELSE UNCHANGED tasks
  /\ UNCHANGED <<owner, loopVars, channelVars, noteVars, serviceVars, sentVars, disturbed>>

\* The owner goes on to stop the handle h.
StopHandle(h, from, to) ==
  /\ owner = from
  /\ todo = {}
  /\ CanPost
  /\ owner' = to
  /\ PostTo(Task("on_stop", h))
  /\ UNCHANGED <<todo, loopVars, channelVars, noteVars, serviceVars, sentVars, disturbed>>

\* Mutant: the server is stopped once more, not the loop.
stop_server_again == StopHandle(Listener, "stop_loop", "join")
stop_server == StopHandle(Listener, "close_all", "stop_loop")
stop_loop == StopHandle(Async, "stop_loop", "join")

-----------------------------------------------------------------------------
(* The threads of the services.                                            *)

\* Mutant: done() does not answer when another request is being served.
done_alone(r) ==
  /\ CanPost
  /\ r \in called
  /\ called' = called \ {r}
  /\ IF called = {r} THEN SendTo(r[1], Task("answer", r))
                     ELSE UNCHANGED <<tasks, dropped>>
  /\ UNCHANGED <<loopVars, channelVars, ownerVars, noteVars, used, answered,
                 noted, disturbed>>

\* RpcChannel::done: send_resp.
done(r) ==
  /\ CanPost
  /\ r \in called
  /\ called' = called \ {r}
  /\ SendTo(r[1], Task("answer", r))
  /\ UNCHANGED <<loopVars, channelVars, ownerVars, noteVars, used, answered,
                 noted, disturbed>>

\* RpcServer::notify_all, called by a thread other than the loop's.
notify_all ==
  /\ telling = {}
  /\ notes < MaxNotes
  /\ telling' = channels_
  /\ notes' = notes + 1
  /\ UNCHANGED <<loopVars, channelVars, tasks, ownerVars, serviceVars, sentVars, disturbed>>

NotifyDue(c) == handle[c] = "open" /\ c \in services_ /\ c \in requests_

\* Mutant: notify_all stops at the first channel that is not registered.
notify_until ==
  /\ CanPost
  /\ \E c \in telling :
       IF NotifyDue(c)
         THEN telling' = telling \ {c} /\ SendTo(c, Task("note", c))
         ELSE telling' = {} /\ UNCHANGED <<tasks, dropped>>
  /\ UNCHANGED <<loopVars, channelVars, ownerVars, notes, serviceVars, answered,
                 noted, disturbed>>

\* RpcChannel::notify of the next channel; send() tests connected_ again, so a
\* close between the tests and the send is as good as one before the tests.
notify_next ==
  /\ CanPost
  /\ \E c \in telling :
       /\ telling' = telling \ {c}
       /\ IF NotifyDue(c) THEN SendTo(c, Task("note", c))
                          ELSE UNCHANGED <<tasks, dropped>>
  /\ UNCHANGED <<loopVars, channelVars, ownerVars, notes, serviceVars, answered,
                 noted, disturbed>>

\* notify_all, called by the loop's thread, sends at once; any of the notifications
\* may be lost.
notify_in_loop ==
  /\ at = "poll"
  /\ notes < MaxNotes
  /\ notes' = notes + 1
  /\ \E lost \in SUBSET {c \in channels_ : NotifyDue(c)} :
       /\ noted' = noted \cup ({c \in channels_ : NotifyDue(c)} \ lost)
       /\ dropped' = dropped \cup {Task("note", c) : c \in lost}
       /\ lost # {} => Cardinality(dropped') <= MaxLost
  /\ UNCHANGED <<loopVars, channelVars, tasks, ownerVars, telling, serviceVars,
                 answered, disturbed>>

-----------------------------------------------------------------------------

LoopStep == RunTask \/ on_close \/ EndClosing
OwnerStep == close_next \/ stop_server \/ stop_loop

Next ==
  \/ LoopStep \/ BeginClosing
  \/ \E c \in Channels :
       \/ on_accept(c) \/ on_read_end(c) \/ register(c)
       \/ \E i \in Ids : answer_at_once(c, i) \/ call_method(c, i)
  \/ stop \/ OwnerStep
  \/ notify_all \/ notify_next \/ notify_in_loop
  \/ \E r \in Requests : done(r)

Spec == Init /\ [][Next]_vars

\* Every thread finishes what it has begun; a service calls done() some day.
\* Nothing obliges clients to connect or to ask, or the owner to stop.
FairSpec ==
  /\ Spec
  /\ WF_vars(LoopStep)
  /\ WF_vars(BeginClosing)
  /\ WF_vars(OwnerStep)
  /\ WF_vars(notify_next)
  /\ \A r \in Requests : WF_vars(done(r))

-----------------------------------------------------------------------------
(* Properties.                                                             *)

\* Every variable holds a value of its type; a closing handle is in libuv's
\* lists exactly once (on_stop: uv_is_closing before uv_close); an answer that got lost
\* is not sent.
TypeOK ==
  /\ handle \in [Handles -> {"none", "open", "closing", "closed"}]
  /\ closing \in Seq(Handles) /\ round \in Seq(Handles)
  /\ LET waiting == closing \o round
     IN /\ IsInjective(waiting)
        /\ ToSet(waiting) = {h \in Handles : handle[h] = "closing"}
  /\ at \in {"poll", "closing", "out"}
  /\ channels_ \subseteq Channels
  /\ services_ \subseteq Channels /\ requests_ \subseteq Channels
  /\ tasks \in Seq(Tasks) /\ Len(tasks) <= MaxTasks
  /\ owner \in {"run", "close_all", "stop_loop", "join"}
  /\ todo \subseteq Channels /\ telling \subseteq Channels
  /\ notes \in 0 .. MaxNotes
  /\ used \subseteq Requests /\ called \subseteq used
  /\ answered \in [Requests -> 0 .. 1] /\ noted \subseteq Channels
  /\ dropped \subseteq Tasks
  /\ \A r \in Requests : Task("answer", r) \in dropped =>
       answered[r] = 0 /\ r \in used \ called
  /\ disturbed \in BOOLEAN

\* channels_ holds the channels whose connection is open or closing, these
\* have the services, and only these keep a registration (on_alloc,
\* on_channel_connect, RpcChannel::on_close, on_channel_close); TypeOK says so of
\* the handles.
ChannelsAreLive ==
  /\ TypeOK
  /\ channels_ = {c \in Channels : handle[c] \in {"open", "closing"}}
  /\ services_ = channels_
  /\ requests_ \subseteq channels_

\* stop() of the server, then of the scheduler, leaves no handle open when run()
\* returns, so that uv_loop_close succeeds (run: "return UV_EBUSY if exists
\* active handle") - unless a client connected after stop() had begun.
\* What follows a race is undefined.
ShutdownIsClean ==
  (at = "out" /\ ~disturbed) =>
    \A h \in Handles : handle[h] \in {"none", "closed"}

\* The owner's stop() makes run() return, whatever clients and services do.
StopEndsRun == (owner # "run") ~> (at = "out")

\* A request that a service has taken is answered, unless its connection or the
\* scheduler is stopped first or the answer is lost: it does not serialise, or the
\* send queue is full (process_request, done, send_resp, TcpConnection::on_send).
CallIsAnswered ==
  \A r \in Requests :
    (r \in called) ~>
      \/ answered[r] > 0 \/ Task("answer", r) \in dropped
      \/ handle[r[1]] # "open" \/ handle[Async] # "open"

\* A registered channel that notify_all comes to is sent the notification,
\* unless its connection or the scheduler is stopped first or the notification is
\* lost (RpcChannel::notify, send_resp, TcpConnection::on_send).
NotificationIsSent ==
  \A c \in Channels :
    (c \in telling /\ c \in requests_) ~>
      \/ c \in noted \/ Task("note", c) \in dropped
      \/ handle[c] # "open" \/ handle[Async] # "open"

=============================================================================
