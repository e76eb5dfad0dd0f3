----------------------------- MODULE LoopHandle -----------------------------
(***************************************************************************)
(* The life of the libuv handle behind an IOTimer, an IOSignal or a        *)
(* TcpServer (src/IOTimer.cpp, src/IOSignal.cpp, src/TcpServer.cpp), which *)
(* share one protocol: start() and stop() test an atomic flag (active_,    *)
(* started_) in the calling thread and dispatch on_start and on_stop to    *)
(* the loop's thread, which test it again.                                 *)
(*                                                                         *)
(* A server reports the result of a start by launch_cb_ and keeps one      *)
(* close callback; a timer or a signal takes a close callback with every   *)
(* stop() and reports nothing about a start.  stack is the code the loop's *)
(* thread has still to run, innermost call first; "user" is a callback of  *)
(* the application that has not returned.                                  *)
(***************************************************************************)
EXTENDS Naturals, Sequences, SequencesExt

CONSTANTS
  Threads,        \* application threads
  Kinds,          \* which of AllKinds the object may be
  MaxStarts,      \* bound: calls of start()
  MaxStops,       \* bound: calls of stop()
  MaxDepth        \* bound: nesting of calls in the loop's thread

AllKinds == {"timer", "signal", "server"}

ASSUME HandleAssumption ==
  /\ Kinds \subseteq AllKinds
  /\ MaxStarts \in Nat /\ MaxStops \in Nat /\ MaxDepth \in Nat

VARIABLES
  kind,         \* what the object is
  active_,      \* the atomic flag (started_ of a server)
  handle_,      \* the libuv handle: "none", "open", "closing", "closed"
  close_cb_,    \* the stop() whose callback on_close will call; 0: none
  tasks,        \* the tasks posted to the scheduler
  stack,        \* the code the loop's thread has still to run
  call,         \* each thread's call that passed its test of the flag
  starts, stops,   \* calls so far
  event, turns, \* history: the callbacks, see HandleEvents
  told,         \* history: how often the callback of each stop() was called
  hasty,        \* history: start() was called before the close callback, or
                \* while another start() was in progress
  misused       \* history: on_start initialised a closing handle

apiVars == <<tasks, call, starts, stops>>
eventVars == <<event, turns>>
useVars == <<told, misused>>
vars == <<kind, active_, handle_, close_cb_, apiVars, stack, eventVars, useVars, hasty>>

\* A task is on_start, or on_stop with the number of its stop().
Start == [op |-> "on_start", cb |-> 0]
StopWith(k) == [op |-> "on_stop", cb |-> k]
Tasks == {Start} \cup {StopWith(k) : k \in 0 .. MaxStops}
Frame(f) == [op |-> f, cb |-> 0]
NoCall == Frame("none")
User == Frame("user")

Init ==
  /\ kind \in Kinds
  /\ active_ = FALSE
  /\ handle_ = "none"
  /\ close_cb_ = 0
  /\ tasks = <<>>
  /\ stack = <<>>
  /\ call = [th \in Threads |-> NoCall]
  /\ starts = 0 /\ stops = 0
  /\ event = "none" /\ turns = 0
  /\ told = [k \in 1 .. MaxStops |-> 0]
  /\ hasty = FALSE /\ misused = FALSE

-----------------------------------------------------------------------------
(* start() and stop(): the test of the flag in the calling thread.         *)

\* A call of start(), or of stop(), is in progress.
Outstanding(op) ==
  \/ \E t \in ToSet(tasks \o stack) : t.op = op
  \/ \E th \in Threads : call[th].op = op

\* The start of a timer cannot fail; uv_signal_start, uv_tcp_bind, uv_listen can.
CanFail == kind # "timer"

\* start() and stop() test the flag and nothing else.  The task t can be
\* dispatched.
Permitted(t) ==
  \/ t = Start /\ ~active_ /\ starts < MaxStarts
  \/ t = StopWith(stops + 1) /\ active_ /\ stops < MaxStops

\* The application calls start() although it has not been told of the close, or
\* a start() is in progress.
IsHasty(t) ==
  t = Start /\ (event \notin {"none", "close"} \/ Outstanding("on_start"))

\* What comes after a handle in use was initialised is undefined.
Defined == ~misused

Count(t) ==
  /\ starts' = starts + (IF t = Start THEN 1 ELSE 0)
  /\ stops' = stops + (IF t = Start THEN 0 ELSE 1)
  /\ hasty' = (hasty \/ IsHasty(t))

Call(th, t) ==
  /\ Defined
  /\ call[th] = NoCall
  /\ Permitted(t)
  /\ Count(t)
  /\ call' = [call EXCEPT ![th] = t]
  /\ UNCHANGED <<kind, active_, handle_, close_cb_, tasks, stack, eventVars, useVars>>

Post(th) ==
  /\ Defined
  /\ call[th] # NoCall
  /\ tasks' = Append(tasks, call[th])
  /\ call' = [call EXCEPT ![th] = NoCall]
  /\ UNCHANGED <<kind, active_, handle_, close_cb_, starts, stops, stack, eventVars,
                 useVars, hasty>>

Running(f) == Defined /\ stack # <<>> /\ Head(stack).op = f

\* A callback of the application calls start() or stop(): dispatch() calls
\* the handler at once.
CallInline(t) ==
  /\ Running("user")
  /\ Len(stack) < MaxDepth
  /\ Permitted(t)
  /\ Count(t)
  /\ stack' = <<t>> \o stack
  /\ UNCHANGED <<kind, active_, handle_, close_cb_, tasks, call, eventVars, useVars>>

UserReturns ==
  /\ Running("user")
  /\ stack' = Tail(stack)
  /\ UNCHANGED <<kind, active_, handle_, close_cb_, apiVars, eventVars, useVars, hasty>>

\* The scheduler executes the next task.
RunTask ==
  /\ Defined
  /\ stack = <<>>
  /\ tasks # <<>>
  /\ stack' = <<Head(tasks)>>
  /\ tasks' = Tail(tasks)
  /\ UNCHANGED <<kind, active_, handle_, close_cb_, call, starts, stops, eventVars,
                 useVars, hasty>>

-----------------------------------------------------------------------------
(* The handlers.                                                           *)

\* The code fs replaces the call at the top of the stack.
Continue(fs) == stack' = fs \o Tail(stack)

StartDue == ~active_

\* The handle is initialised and started.  A server reports the result; after
\* a failure on_stop follows, without a callback.
Open ==
  /\ active_' = TRUE
  /\ handle_' = "open"
  /\ event' = "open" /\ turns' = turns + 1
  /\ LET report == IF kind = "server" THEN <<User>> ELSE <<>>
     IN \/ Continue(report)
        \/ CanFail /\ Continue(report \o <<StopWith(0)>>)
  /\ UNCHANGED misused

\* A handle that is being closed is initialised: nothing is known of it then.
Misuse ==
  /\ misused' = TRUE
  /\ UNCHANGED <<active_, handle_, eventVars, stack>>

\* active_ is all on_start tests: the handle may be closing.
on_start ==
  /\ Running("on_start")
  /\ \/ ~StartDue /\ Continue(<<>>) /\ UNCHANGED <<active_, handle_, misused, eventVars>>
     \/ StartDue /\ handle_ # "closing" /\ Open
     \/ StartDue /\ handle_ = "closing" /\ Misuse
  /\ UNCHANGED <<kind, close_cb_, apiVars, told, hasty>>

StopAgain == TRUE     \* mutant
StopDue == active_

\* Mutants: the handle stays open; the close is reported before it is complete.
CloseNothing == UNCHANGED handle_ /\ Continue(<<>>)
CloseAndTell == handle_' = "closing" /\ Continue(<<Frame("on_close")>>)
Close == handle_' = "closing" /\ Continue(<<>>)

\* uv_close the handle; if it is closing already, on_close is called at once.
on_stop ==
  /\ Running("on_stop")
  /\ IF StopDue
       THEN /\ active_' = FALSE
            /\ close_cb_' = Head(stack).cb
            /\ IF handle_ = "open"
                 THEN Close
                 ELSE UNCHANGED handle_ /\ Continue(<<Frame("on_close")>>)
       ELSE Continue(<<>>) /\ UNCHANGED <<active_, handle_, close_cb_>>
  /\ UNCHANGED <<kind, apiVars, eventVars, useVars, hasty>>

on_close ==
  /\ Running("on_close")
  /\ Continue(<<User>>)
  /\ event' = "close" /\ turns' = turns + 1
  /\ told' = IF close_cb_ = 0 THEN told ELSE [told EXCEPT ![close_cb_] = @ + 1]
  /\ UNCHANGED <<kind, active_, handle_, close_cb_, apiVars, misused, hasty>>

-----------------------------------------------------------------------------
(* libuv, in the loop's thread between two callbacks.                      *)

\* The timer expires, the signal arrives, a connection comes in (on_timer,
\* on_signal, on_accept): the callback given to start() is called.
on_event ==
  /\ Defined
  /\ stack = <<>>
  /\ handle_ = "open"
  /\ event' = "traffic"
  /\ stack' = <<User>>
  /\ UNCHANGED <<kind, active_, handle_, close_cb_, apiVars, turns, useVars, hasty>>

FinishClose ==
  /\ Defined
  /\ stack = <<>>
  /\ handle_ = "closing"
  /\ handle_' = "closed"
  /\ stack' = <<Frame("on_close")>>
  /\ UNCHANGED <<kind, active_, close_cb_, apiVars, eventVars, useVars, hasty>>

-----------------------------------------------------------------------------

Handler == on_start \/ on_stop \/ on_close

Next ==
  \/ RunTask \/ Handler \/ UserReturns
  \/ on_event \/ FinishClose
  \/ \E t \in Tasks : CallInline(t) \/ \E th \in Threads : Call(th, t)
  \/ \E th \in Threads : Post(th)

Spec == Init /\ [][Next]_vars

\* The loop's thread runs what it has begun, callbacks return, calls begun are
\* finished.  uv_run serves the scheduler's queue and the closing handles in
\* every round, whatever else happens.
FairSpec ==
  /\ Spec
  /\ WF_vars(Handler)
  /\ WF_vars(UserReturns)
  /\ SF_vars(RunTask)
  /\ SF_vars(FinishClose)
  /\ \A th \in Threads : WF_vars(Post(th))

-----------------------------------------------------------------------------
(* Properties.                                                             *)

\* Every variable holds a value of its type; the flag that start() and stop()
\* test is set exactly while the handle is open (on_start, on_stop), and the
\* callback of a stop() is called once at most, however many are posted.
TypeOK ==
  /\ active_ = (handle_ = "open")
  /\ kind \in Kinds
  /\ active_ \in BOOLEAN /\ hasty \in BOOLEAN /\ misused \in BOOLEAN
  /\ handle_ \in {"none", "open", "closing", "closed"}
  /\ close_cb_ \in 0 .. MaxStops
  /\ tasks \in Seq(Tasks)
  /\ stack \in Seq(Tasks \cup {User, Frame("on_close")})
  /\ call \in [Threads -> Tasks \cup {NoCall}]
  /\ starts \in 0 .. MaxStarts /\ stops \in 0 .. MaxStops
  /\ event \in {"none", "open", "traffic", "close"} /\ turns \in Nat
  /\ told \in [1 .. MaxStops -> 0 .. 1]

\* However calls, tasks and callbacks overlap, a closing handle is initialised
\* only for an application that calls start() before it is told of the close, or
\* while another start() is in progress: start and on_start test active_, which
\* says that the handle is open, and not that it is being closed.
NeverReinitialised == TypeOK /\ (misused => hasty)

\* The callbacks come in the order HandleEvents gives, hasty or not.
Events == INSTANCE HandleEvents
CallbacksInOrder == Events!Spec

\* The callback that on_stop has stored is called: no close is forgotten, and
\* none calls the callback of another.  A stop() whose on_stop finds the handle
\* stopped stores none: its callback is dropped (on_stop, on_close).
StopIsTold ==
  \A k \in 1 .. MaxStops : (close_cb_ = k) ~> (told[k] = 1 \/ misused)

=============================================================================
