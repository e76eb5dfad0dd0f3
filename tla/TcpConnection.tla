---------------------------- MODULE TcpConnection ----------------------------
(***************************************************************************)
(* One connection of src/TcpConnection.cpp, used by several threads.       *)
(*                                                                         *)
(* start(), stop() and send() test connected_ in the calling thread and    *)
(* dispatch on_start, on_stop, on_send: another thread posts them to the   *)
(* scheduler's queue, a callback of the connection, which runs in the      *)
(* loop's thread, calls them at once.  All the rest happens in the loop's  *)
(* thread; stack is the code that thread has still to run, innermost call  *)
(* first: handlers, continuations of handlers, and "user" for a callback   *)
(* of the application that has not returned.                               *)
(*                                                                         *)
(* Of libuv the module keeps what TcpConnection uses: the handle's state,  *)
(* connect_req_, the writes in flight, and that closing a handle cancels   *)
(* both before the close callback.                                         *)
(***************************************************************************)
EXTENDS Integers, Sequences, SequencesExt

CONSTANTS
  Threads,        \* application threads
  MaxSendBuf,     \* _Max_Send_Buf
  FaultSets,      \* the faults that may happen together, see AllFaults
  MaxStarts,      \* bound: calls of start()
  MaxSends,       \* bound: calls of send()
  MaxTasks,       \* bound: tasks posted at the same time
  MaxDepth        \* bound: nesting of calls in the loop's thread

\* connect_error: a connect or an accept fails; stop_connecting: stop() is
\* called before the connect callback; write_error: uv_write fails later.
AllFaults == {"connect_error", "stop_connecting", "write_error"}

ASSUME ConnectionAssumption ==
  /\ MaxSendBuf \in Nat \ {0}
  /\ FaultSets \subseteq SUBSET AllFaults
  /\ MaxStarts \in Nat /\ MaxSends \in Nat /\ MaxTasks \in Nat /\ MaxDepth \in Nat

VARIABLES
  connected_,     \* the atomic flag
  handle_,        \* the uv_tcp_t: "none", "open", "closing", "closed"
  data,           \* has handle_.data been set?
  reading,        \* between uv_read_start and uv_read_stop
  connecting,     \* connect_req_ is in flight
  writes,         \* how many times write_req_ is in flight
  send_buf_,      \* the buffers not yet written, by number of acceptance
  tasks,          \* the tasks posted to the scheduler
  stack,          \* the code the loop's thread has still to run
  call,           \* each thread's call that passed its test of connected_
  starts, sends,  \* calls so far
  accepted,       \* history: how many buffers on_send has queued
  wire,           \* history: the buffers given to uv_write, in order
  event, turns,   \* history: the callbacks, see HandleEvents
  crashed,        \* history: the code has used an uninitialised pointer
  faults          \* the faults that may happen in this behaviour

uvVars == <<handle_, data, reading, connecting>>
sendVars == <<send_buf_, writes, accepted, wire>>
apiVars == <<call, starts, sends>>
eventVars == <<event, turns>>
vars == <<connected_, uvVars, sendVars, tasks, stack, apiVars, eventVars, crashed, faults>>

Handlers == {"on_start", "on_stop", "on_send"}
Frames == Handlers \cup {"on_connect", "on_connect_failed", "on_write",
  "on_write_failed", "written", "close_cb", "on_close", "user"}

Init ==
  /\ connected_ = FALSE
  /\ handle_ = "none"
  /\ data = FALSE
  /\ reading = FALSE
  /\ connecting = FALSE
  /\ writes = 0
  /\ send_buf_ = <<>>
  /\ tasks = <<>>
  /\ stack = <<>>
  /\ call = [th \in Threads |-> "none"]
  /\ starts = 0
  /\ sends = 0
  /\ accepted = 0
  /\ wire = <<>>
  /\ event = "none" /\ turns = 0
  /\ crashed = FALSE
  /\ faults \in FaultSets

-----------------------------------------------------------------------------
(* start(), stop(), send(): the test of connected_ in the calling thread.  *)

Outstanding(h) == h \in ToSet(tasks \o stack) \/ \E th \in Threads : call[th] = h

\* The application starts a connection at the beginning and again after its
\* close callback, with no other start() or stop() in progress.
MayStart ==
  /\ starts < MaxStarts
  /\ event \in {"none", "close"}
  /\ handle_ \in {"none", "closed"}
  /\ ~Outstanding("on_start")
  /\ ~Outstanding("on_stop")

Permitted(h) ==
  \/ h = "on_start" /\ ~connected_ /\ MayStart
  \/ h = "on_stop" /\ connected_ /\ ("stop_connecting" \in faults \/ ~connecting)
  \/ h = "on_send" /\ connected_ /\ sends < MaxSends

Count(h) ==
  /\ starts' = starts + (IF h = "on_start" THEN 1 ELSE 0)
  /\ sends' = sends + (IF h = "on_send" THEN 1 ELSE 0)

Call(th, h) ==
  /\ ~crashed
  /\ call[th] = "none"
  /\ Permitted(h)
  /\ Count(h)
  /\ call' = [call EXCEPT ![th] = h]
  /\ UNCHANGED <<connected_, uvVars, sendVars, tasks, stack, eventVars, crashed, faults>>

Post(th) ==
  /\ ~crashed
  /\ call[th] # "none"
  /\ Len(tasks) < MaxTasks
  /\ tasks' = Append(tasks, call[th])
  /\ call' = [call EXCEPT ![th] = "none"]
  /\ UNCHANGED <<connected_, uvVars, sendVars, stack, starts, sends, eventVars,
                 crashed, faults>>

Running(f) == ~crashed /\ stack # <<>> /\ Head(stack) = f

\* The same calls made by a callback of the application: dispatch() calls
\* the handler at once.
CallInline(h) ==
  /\ Running("user")
  /\ Len(stack) < MaxDepth
  /\ Permitted(h)
  /\ Count(h)
  /\ stack' = <<h>> \o stack
  /\ UNCHANGED <<connected_, uvVars, sendVars, tasks, call, eventVars, crashed, faults>>

UserReturns ==
  /\ Running("user")
  /\ stack' = Tail(stack)
  /\ UNCHANGED <<connected_, uvVars, sendVars, tasks, apiVars, eventVars, crashed, faults>>

\* The scheduler executes the next task.
RunTask ==
  /\ ~crashed
  /\ stack = <<>>
  /\ tasks # <<>>
  /\ stack' = <<Head(tasks)>>
  /\ tasks' = Tail(tasks)
  /\ UNCHANGED <<connected_, uvVars, sendVars, apiVars, eventVars, crashed, faults>>

-----------------------------------------------------------------------------
(* The handlers.                                                           *)

\* The code fs replaces the call at the top of the stack.
Continue(fs) == stack' = fs \o Tail(stack)

\* uv_tcp_init and uv_tcp_connect, which can fail at once.
on_start ==
  /\ Running("on_start")
  /\ IF connected_
       THEN Continue(<<>>) /\ UNCHANGED <<connected_, uvVars, eventVars>>
       ELSE /\ connected_' = TRUE
            /\ handle_' = "open"
            /\ reading' = FALSE
            /\ \/ connecting' = TRUE /\ Continue(<<>>)
               \/ /\ "connect_error" \in faults
                  /\ connecting' = FALSE
                  /\ Continue(<<"on_connect_failed">>)
            /\ event' = "begun" /\ turns' = turns + 1
            /\ UNCHANGED data
  /\ UNCHANGED <<sendVars, tasks, apiVars, crashed, faults>>

CloseNothing == UNCHANGED handle_     \* mutant
Close == handle_' = "closing"

StopAgain == TRUE     \* mutant
StopDue == connected_

\* uv_close the handle; if it is closing already, on_close is called at once.
on_stop ==
  /\ Running("on_stop")
  /\ IF StopDue
       THEN /\ connected_' = FALSE
            /\ reading' = FALSE
            /\ IF handle_ = "open"
                 THEN Close /\ Continue(<<>>)
                 ELSE UNCHANGED handle_ /\ Continue(<<"on_close">>)
       ELSE Continue(<<>>) /\ UNCHANGED <<connected_, handle_, reading>>
  /\ UNCHANGED <<data, connecting, sendVars, tasks, apiVars, eventVars, crashed, faults>>

\* The buffer at the front of the queue; mutant: of the queue before the pop.
FrontBufBeforePop == Head(IF send_buf_ = <<>> THEN send_buf_' ELSE send_buf_)
FrontBuf == Head(send_buf_')

\* uv_write(&write_req_, front of the queue) fails on a closing handle, which
\* is only logged.
send_buf ==
  IF handle_ = "open"
    THEN writes' = writes + 1 /\ wire' = Append(wire, FrontBuf)
    ELSE UNCHANGED <<writes, wire>>

FullLate == Len(send_buf_) > MaxSendBuf     \* mutant
Full == Len(send_buf_) >= MaxSendBuf

SendingNever == FALSE     \* mutant
Sending == send_buf_ # <<>>

\* A full queue is reported by send_cb_ and the buffer discarded, before the
\* connect callback perhaps.
Refuse ==
  /\ event' = IF event \in {"begun", "early"} THEN "early" ELSE "traffic"
  /\ Continue(<<"user">>)
  /\ UNCHANGED sendVars

\* Else the buffer is queued, and written when nothing else is being written.
Queue ==
  /\ accepted' = accepted + 1
  /\ send_buf_' = Append(send_buf_, accepted')
  /\ IF Sending THEN UNCHANGED <<writes, wire>> ELSE send_buf
  /\ Continue(<<>>)
  /\ UNCHANGED event

on_send ==
  /\ Running("on_send")
  /\ \/ ~connected_ /\ Continue(<<>>) /\ UNCHANGED <<sendVars, event>>
     \/ connected_ /\ Full /\ Refuse
     \/ connected_ /\ ~Full /\ Queue
  /\ UNCHANGED <<connected_, uvVars, tasks, apiVars, turns, crashed, faults>>

KeepData == UNCHANGED data     \* mutant
SetData == data' = TRUE

\* on_connect(status), called by libuv, on_start or accept_connect: status is
\* 0, or an error, after which the connection is stopped.
on_connect ==
  /\ \/ /\ Running("on_connect")
        /\ SetData
        /\ reading' = TRUE
        /\ Continue(<<"user">>)
     \/ /\ Running("on_connect_failed")
        /\ Continue(<<"user", "on_stop">>)
        /\ UNCHANGED <<data, reading>>
  /\ connected_' = TRUE
  /\ event' = "open" /\ turns' = turns + 1
  /\ UNCHANGED <<handle_, connecting, sendVars, tasks, apiVars, crashed, faults>>

\* on_write(status) up to send_cb_, which is given the front of the queue; then
\* the buffer is popped, or the connection stopped.  Nothing is done about a
\* write the close cancelled.
on_write ==
  /\ Running("on_write") \/ Running("on_write_failed")
  /\ IF connected_
       THEN /\ crashed' = (send_buf_ = <<>>)
            /\ Continue(<<"user", IF Running("on_write") THEN "written" ELSE "on_stop">>)
            /\ event' = "traffic"
       ELSE Continue(<<>>) /\ UNCHANGED <<event, crashed>>
  /\ UNCHANGED <<connected_, uvVars, sendVars, tasks, apiVars, turns, faults>>

Pop == send_buf_' = Tail(send_buf_)

SendNoMore == UNCHANGED <<writes, wire>>     \* mutant
SendNext == IF Len(send_buf_) > 1 THEN send_buf ELSE UNCHANGED <<writes, wire>>

\* on_write(0) after send_cb_: pop, which is undefined on an empty queue, and
\* send the next buffer.
written ==
  /\ Running("written")
  /\ crashed' = (send_buf_ = <<>>)
  /\ IF send_buf_ = <<>>
       THEN UNCHANGED <<send_buf_, wire, writes>>
       ELSE Pop /\ SendNext
  /\ Continue(<<>>)
  /\ UNCHANGED <<connected_, uvVars, accepted, tasks, apiVars, eventVars, faults>>

\* The close callback given to uv_close takes the connection from h->data.
close_cb ==
  /\ Running("close_cb")
  /\ crashed' = ~data
  /\ Continue(<<"on_close">>)
  /\ UNCHANGED <<connected_, uvVars, sendVars, tasks, apiVars, eventVars, faults>>

clear_nothing == UNCHANGED send_buf_     \* mutant
clear_buf == send_buf_' = <<>>

on_close ==
  /\ Running("on_close")
  /\ clear_buf
  /\ event' = "close" /\ turns' = turns + 1
  /\ Continue(<<"user">>)
  /\ UNCHANGED <<connected_, uvVars, writes, accepted, wire, tasks, apiVars,
                 crashed, faults>>

-----------------------------------------------------------------------------
(* libuv, in the loop's thread between two callbacks.                      *)

Polling == ~crashed /\ stack = <<>>

\* The peer accepts the connection, or the connect fails.
ConnectDone ==
  /\ Polling
  /\ connecting
  /\ handle_ = "open"
  /\ connecting' = FALSE
  /\ \/ stack' = <<"on_connect">>
     \/ "connect_error" \in faults /\ stack' = <<"on_connect_failed">>
  /\ UNCHANGED <<connected_, handle_, data, reading, sendVars, tasks, apiVars,
                 eventVars, crashed, faults>>

\* A server accepts the connection (TcpServer::on_accept: uv_tcp_init,
\* uv_accept, accept_connect).
Accept ==
  /\ Polling
  /\ handle_ = "none"
  /\ starts = 0
  /\ starts' = 1
  /\ handle_' = "open"
  /\ \/ stack' = <<"on_connect">>
     \/ "connect_error" \in faults /\ stack' = <<"on_connect_failed">>
  /\ UNCHANGED <<connected_, data, reading, connecting, sendVars, tasks, call,
                 sends, eventVars, crashed, faults>>

WriteDone ==
  /\ Polling
  /\ writes > 0
  /\ handle_ = "open"
  /\ ~connecting
  /\ writes' = writes - 1
  /\ \/ stack' = <<"on_write">>
     \/ "write_error" \in faults /\ stack' = <<"on_write_failed">>
  /\ UNCHANGED <<connected_, uvVars, send_buf_, accepted, wire, tasks, apiVars,
                 eventVars, crashed, faults>>

\* on_read with data calls recv_cb_; at the end of the stream, or with an
\* error, it stops the connection.
on_read ==
  /\ Polling
  /\ reading
  /\ handle_ = "open"
  /\ connected_
  /\ \/ stack' = <<"user">> /\ event' = "traffic"
     \/ stack' = <<"on_stop">> /\ UNCHANGED event
  /\ UNCHANGED <<connected_, uvVars, sendVars, tasks, apiVars, turns, crashed, faults>>

\* The end of a close: the connect request and the writes in flight are
\* cancelled, then the close callback is called.
FinishClose ==
  /\ Polling
  /\ handle_ = "closing"
  /\ handle_' = "closed"
  /\ stack' = (IF connecting THEN <<"on_connect_failed">> ELSE <<>>)
              \o [w \in 1 .. writes |-> "on_write_failed"]
              \o <<"close_cb">>
  /\ connecting' = FALSE
  /\ writes' = 0
  /\ UNCHANGED <<connected_, data, reading, send_buf_, accepted, wire, tasks,
                 apiVars, eventVars, crashed, faults>>

-----------------------------------------------------------------------------

Handler ==
  \/ on_start \/ on_stop \/ on_send
  \/ on_connect \/ on_write \/ written \/ close_cb \/ on_close

Next ==
  \/ RunTask \/ Handler \/ UserReturns
  \/ FinishClose \/ ConnectDone \/ Accept \/ WriteDone \/ on_read
  \/ \E h \in Handlers : CallInline(h)
  \/ \E th \in Threads : Post(th) \/ \E h \in Handlers : Call(th, h)

Spec == Init /\ [][Next]_vars

\* The loop's thread runs what it has begun, callbacks return, calls begun are
\* finished.  Every round of uv_run looks at each source of events, so none is
\* put off for ever by the others; the network answers a connect and takes what
\* is written.
FairSpec ==
  /\ Spec
  /\ WF_vars(Handler)
  /\ WF_vars(UserReturns)
  /\ SF_vars(RunTask)
  /\ SF_vars(FinishClose)
  /\ SF_vars(ConnectDone)
  /\ SF_vars(WriteDone)
  /\ \A th \in Threads : SF_vars(Post(th))

-----------------------------------------------------------------------------
(* Properties.                                                             *)

Types ==
  /\ connected_ \in BOOLEAN /\ data \in BOOLEAN /\ reading \in BOOLEAN
  /\ connecting \in BOOLEAN /\ crashed \in BOOLEAN /\ faults \in FaultSets
  /\ handle_ \in {"none", "open", "closing", "closed"}
  /\ writes \in Nat /\ accepted \in Nat /\ starts \in Nat /\ sends \in Nat
  /\ send_buf_ \in Seq(Nat) /\ Len(send_buf_) <= MaxSendBuf
  /\ wire \in Seq(Nat)
  /\ tasks \in Seq(Handlers)
  /\ stack \in Seq(Frames)
  /\ call \in [Threads -> Handlers \cup {"none"}]
  /\ event \in {"none", "begun", "early", "open", "traffic", "close"}
  /\ turns \in Nat

\* Every variable holds a value of its type; the queue keeps its bound; between
\* two callbacks a connection that takes calls has an open handle, also when a
\* connect was stopped and reported by the close (connected_, on_connect, on_stop).
TypeOK == Types /\ (stack = <<>> /\ connected_ => handle_ = "open")

\* No connect is stopped.  One that is closes the connection twice, and what was
\* started in between is cleared by the second close.
Listens == "stop_connecting" \notin faults

\* write_req_ is not used again before its callback (TcpConnection.cpp,
\* send_buf: "reuse write_req_ to call uv_write should after uv_write_cb").
OneWriteInFlight == Listens => writes <= 1

\* A buffer that waits in the queue of an open connection has a write in
\* flight ahead of it, so the queue never gets stuck (on_send, on_write).
QueueMoves ==
  (Listens /\ stack = <<>> /\ handle_ = "open" /\ send_buf_ # <<>>) => writes = 1

\* The buffers are given to uv_write in the order they were queued, none twice,
\* across stop() and restart; and the one libuv is writing stays at the front of
\* the queue, which keeps its bytes, until the report (on_send, send_buf, on_write).
WrittenInOrder ==
  /\ \A i, j \in DOMAIN wire : i < j => wire[i] < wire[j]
  /\ Listens /\ writes > 0 =>
       send_buf_ # <<>> /\ wire # <<>> /\ Head(send_buf_) = Last(wire)

\* The callbacks come in the order HandleEvents gives, unless a connect is
\* stopped: the cancelled connect is reported as one more opening.
Events == INSTANCE HandleEvents
            WITH event <- IF Listens THEN event ELSE "none",
                 turns <- IF Listens THEN turns ELSE 0
CallbacksInOrder == Events!Spec

\* No code of the connection uses a pointer it has not set or an element of
\* an empty queue (the close callback's h->data, on_write's front() and pop()).
NoCrash == ~crashed

\* So it is as long as every connect and accept succeeds: with stop(), with
\* failing writes and over restarts.
NoCrashOnceUp ==
  faults \cap {"connect_error", "stop_connecting"} = {} => NoCrash

\* A stop() that found the connection up is followed by the close callback
\* (stop, on_stop, on_close).  What follows a crash is undefined.
StopIsReported ==
  (connected_ /\ Outstanding("on_stop")) ~> (event = "close" \/ crashed)

\* Every buffer that was queued leaves the queue: it is written, or discarded
\* when the connection closes (on_send, on_write, clear_buf).
QueueDrains ==
  \A k \in 1 .. MaxSends :
    (k \in ToSet(send_buf_)) ~> (k \notin ToSet(send_buf_) \/ crashed)

=============================================================================
