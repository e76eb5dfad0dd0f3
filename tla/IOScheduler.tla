----------------------------- MODULE IOScheduler -----------------------------
(***************************************************************************)
(* The event loop wrapper of src/IOScheduler.cpp: a mutex-protected vector *)
(* of tasks (queue_task_), a libuv async handle that wakes the loop, and   *)
(* the loop thread that drains the vector in on_async.                     *)
(*                                                                         *)
(* post() is three separate steps of the calling thread - the unlocked     *)
(* test of init_, the push under the mutex, uv_async_send - because other  *)
(* threads and the loop run between them.  on_async is three steps too:    *)
(* libuv clears the pending flag and calls it, it swaps the vector under   *)
(* the mutex, it executes the tasks one by one.                            *)
(*                                                                         *)
(* dispatch() called by a thread other than the loop's is post(); called   *)
(* by the loop's thread it calls the function at once, which for an        *)
(* application task changes no state of the scheduler.  stop() is          *)
(* dispatch(on_stop).                                                      *)
(***************************************************************************)
EXTENDS Naturals, Sequences, SequencesExt

CONSTANTS
  Threads,      \* application threads that call post() and stop()
  Loop,         \* the thread that calls run()
  Tasks,        \* application tasks, each posted at most once
  StopTasks,    \* the bindings of on_stop, one for each call of stop()
  MaxRuns,      \* bound: how many times the scheduler is initialised
  NoThread,     \* the default std::thread::id
  NoItem        \* no item

Items == Tasks \cup StopTasks
AllThreads == Threads \cup {Loop}

ASSUME SchedulerAssumption ==
  /\ Loop \notin Threads
  /\ NoThread \notin AllThreads
  /\ Tasks \cap StopTasks = {}
  /\ NoItem \notin Items
  /\ MaxRuns \in Nat

VARIABLES
  init_,            \* the atomic flag
  loop_thread_id_,  \* the id run() stores
  queue_task_,      \* the tasks waiting to be swapped out by on_async
  temp,             \* on_async's local vector: the tasks it still has to run
  loop_,            \* the uv_loop_t: "none", "open", "closed"
  handle_,          \* the uv_async_t: "none", "active", "closing", "closed"
  pending,          \* libuv's flag of handle_: a wake-up has been requested
  at,               \* where the loop's thread is
  pc, arg,          \* each thread's progress through post(), and its item
  ran,              \* history: the posted items executed, in order
  runs,             \* how many times init() succeeded
  stopping,         \* history: stop() has been called since the last init()
  late,             \* history: a call has followed or overlapped a stop()
  usedAfterClose    \* history: uv_async_send was called on a closed loop

callVars == <<pc, arg>>
idVars == <<loop_thread_id_, loop_>>
batchVars == <<temp, ran>>
histVars == <<runs, stopping, late, usedAfterClose>>

vars == <<init_, idVars, queue_task_, batchVars, handle_, pending, at,
          callVars, histVars>>

-----------------------------------------------------------------------------

Init ==
  /\ init_ = FALSE
  /\ loop_thread_id_ = NoThread
  /\ queue_task_ = <<>>
  /\ temp = <<>>
  /\ loop_ = "none"
  /\ handle_ = "none"
  /\ pending = FALSE
  /\ at = "out"
  /\ pc = [th \in AllThreads |-> "idle"]
  /\ arg = [th \in AllThreads |-> NoItem]
  /\ ran = <<>>
  /\ runs = 0
  /\ stopping = FALSE
  /\ late = FALSE
  /\ usedAfterClose = FALSE

-----------------------------------------------------------------------------
(* init() and run().                                                       *)

\* init(), by the thread that will call run().  queue_task_ is not touched.
InitLoop ==
  /\ ~init_
  /\ at = "out"
  /\ pc[Loop] = "idle"
  /\ runs < MaxRuns
  /\ loop_' = "open"
  /\ handle_' = "active"
  /\ pending' = FALSE
  /\ loop_thread_id_' = NoThread
  /\ init_' = TRUE
  /\ runs' = runs + 1
  /\ stopping' = FALSE
  /\ UNCHANGED <<queue_task_, batchVars, at, callVars, late, usedAfterClose>>

RunEnter ==
  /\ init_
  /\ at = "out"
  /\ pc[Loop] = "idle"
  /\ loop_thread_id_' = Loop
  /\ at' = "poll"
  /\ UNCHANGED <<init_, loop_, queue_task_, batchVars, handle_, pending,
                 callVars, histVars>>

\* Mutant: run() leaves its thread's id behind when it returns.
RunExitKeepsId ==
  /\ at = "stopped"
  /\ loop_' \in {"closed", "open"}
  /\ init_' = FALSE
  /\ at' = "out"
  /\ UNCHANGED <<loop_thread_id_, queue_task_, batchVars, handle_, pending,
                 callVars, histVars>>

\* uv_run has returned.  uv_loop_close succeeds, or fails with UV_EBUSY when
\* another component has left a handle open on the loop.
RunExit ==
  /\ at = "stopped"
  /\ loop_' \in {"closed", "open"}
  /\ init_' = FALSE
  /\ loop_thread_id_' = NoThread
  /\ at' = "out"
  /\ UNCHANGED <<queue_task_, batchVars, handle_, pending, callVars, histVars>>

-----------------------------------------------------------------------------
(* post(), dispatch() and stop(), called by any thread.                    *)

in_loop_thread(th) == loop_thread_id_ = th

\* The loop's thread calls the scheduler before or after run(), or from
\* within a task it executes.
CanCall(th) ==
  /\ pc[th] = "idle"
  /\ th = Loop => at \in {"out", "task"}

Fresh(i) ==
  /\ i \notin ToSet(ran \o temp \o queue_task_)
  /\ \A th \in AllThreads : arg[th] # i

\* The use of the scheduler is orderly as long as nothing is posted once
\* stop() has been called, and stop() is called once, by an application
\* thread, when no other call is in progress.
StopIsLate(th) ==
  th = Loop \/ stopping \/ \E other \in AllThreads : pc[other] # "idle"

\* post() up to and including the test of init_.
BeginPost(th, i) ==
  /\ CanCall(th)
  /\ Fresh(i)
  /\ init_
  /\ pc' = [pc EXCEPT ![th] = "push"]
  /\ arg' = [arg EXCEPT ![th] = i]

Post(th, t) ==
  /\ BeginPost(th, t)
  /\ late' = (late \/ stopping)
  /\ UNCHANGED <<init_, idVars, queue_task_, batchVars, handle_, pending, at,
                 runs, stopping, usedAfterClose>>

\* queue_task_.emplace_back(std::move(f)) under mutex_.
Push(th) ==
  /\ pc[th] = "push"
  /\ queue_task_' = Append(queue_task_, arg[th])
  /\ pc' = [pc EXCEPT ![th] = "send"]
  /\ arg' = [arg EXCEPT ![th] = NoItem]
  /\ UNCHANGED <<init_, idVars, batchVars, handle_, pending, at, histVars>>

\* Mutants: post() wakes the loop only when it is polling; never.
SendIfPolling(th) ==
  /\ pc[th] = "send"
  /\ pending' = (pending \/ at = "poll")
  /\ pc' = [pc EXCEPT ![th] = "idle"]
  /\ UNCHANGED <<init_, idVars, queue_task_, batchVars, handle_, at, arg,
                 histVars>>

SendNothing(th) ==
  /\ pc[th] = "send"
  /\ pc' = [pc EXCEPT ![th] = "idle"]
  /\ UNCHANGED <<init_, idVars, queue_task_, batchVars, handle_, pending, at,
                 arg, histVars>>

\* uv_async_send.  On a closed loop it is undefined.
Send(th) ==
  /\ pc[th] = "send"
  /\ pending' = TRUE
  /\ usedAfterClose' = (usedAfterClose \/ loop_ = "closed")
  /\ pc' = [pc EXCEPT ![th] = "idle"]
  /\ UNCHANGED <<init_, idVars, queue_task_, batchVars, handle_, at, arg,
                 runs, stopping, late>>

\* Mutant: on_stop does not close the handle.
on_stopOpen ==
  /\ init_' = FALSE
  /\ UNCHANGED handle_

\* on_stop, in the loop's thread: uv_close of the handle unless it is closing
\* already.
on_stop ==
  /\ init_' = FALSE
  /\ handle_' = IF init_ /\ handle_ = "active" THEN "closing" ELSE handle_

\* Mutant: stop() runs on_stop in the calling thread, whichever that is.
StopAtOnce(th, s) ==
  /\ init_
  /\ stopping' = TRUE
  /\ late' = (late \/ StopIsLate(th))
  /\ CanCall(th)
  /\ on_stop
  /\ UNCHANGED <<callVars, idVars, queue_task_, batchVars, pending, at, runs,
                 usedAfterClose>>

\* stop() called in the loop's thread runs on_stop at once, ahead of every
\* queued task; in another thread it posts on_stop.
Stop(th, s) ==
  /\ init_
  /\ stopping' = TRUE
  /\ late' = (late \/ StopIsLate(th))
  /\ \/ /\ in_loop_thread(th)
        /\ CanCall(th)
        /\ on_stop
        /\ UNCHANGED callVars
     \/ /\ ~in_loop_thread(th)
        /\ BeginPost(th, s)
        /\ UNCHANGED <<init_, handle_>>
  /\ UNCHANGED <<idVars, queue_task_, batchVars, pending, at, runs,
                 usedAfterClose>>

-----------------------------------------------------------------------------
(* uv_run: the loop's thread.                                              *)

\* libuv clears the pending flag, then calls on_async.
Wake ==
  /\ at = "poll"
  /\ pending
  /\ handle_ = "active"
  /\ pending' = FALSE
  /\ at' = "woken"
  /\ UNCHANGED <<init_, idVars, queue_task_, batchVars, handle_, callVars,
                 histVars>>

\* Mutant: on_async copies queue_task_ instead of swapping it.
on_asyncCopies ==
  /\ at = "woken"
  /\ temp' = queue_task_
  /\ at' = "batch"
  /\ UNCHANGED <<init_, idVars, queue_task_, ran, handle_, pending, callVars,
                 histVars>>

\* on_async: temp.swap(queue_task_) under mutex_.
on_async ==
  /\ at = "woken"
  /\ temp' = queue_task_
  /\ queue_task_' = <<>>
  /\ at' = "batch"
  /\ UNCHANGED <<init_, idVars, ran, handle_, pending, callVars, histVars>>

\* The next iteration of on_async's loop over temp.
RunItem ==
  /\ at = "batch"
  /\ temp # <<>>
  /\ temp' = Tail(temp)
  /\ ran' = Append(ran, Head(temp))
  /\ IF Head(temp) \in StopTasks
       THEN on_stop /\ UNCHANGED at
       ELSE at' = "task" /\ UNCHANGED <<init_, handle_>>
  /\ UNCHANGED <<idVars, queue_task_, pending, callVars, histVars>>

\* The application's function returns.
TaskReturns ==
  /\ at = "task"
  /\ pc[Loop] = "idle"
  /\ at' = "batch"
  /\ UNCHANGED <<init_, idVars, queue_task_, batchVars, handle_, pending,
                 callVars, histVars>>

BatchDone ==
  /\ at = "batch"
  /\ temp = <<>>
  /\ at' = "poll"
  /\ UNCHANGED <<init_, idVars, queue_task_, batchVars, handle_, pending,
                 callVars, histVars>>

\* libuv calls the close callback of the handle: on_close stops the loop.
on_close ==
  /\ at = "poll"
  /\ handle_ = "closing"
  /\ handle_' = "closed"
  /\ at' = "stopped"
  /\ UNCHANGED <<init_, idVars, queue_task_, batchVars, pending, callVars,
                 histVars>>

-----------------------------------------------------------------------------

LoopStep ==
  \/ Wake
  \/ on_async
  \/ RunItem
  \/ TaskReturns
  \/ BatchDone
  \/ on_close
  \/ RunExit

CallStep(th) == Push(th) \/ Send(th)

Next ==
  \/ InitLoop
  \/ RunEnter
  \/ LoopStep
  \/ \E th \in AllThreads :
       \/ CallStep(th)
       \/ \E t \in Tasks : Post(th, t)
       \/ \E s \in StopTasks : Stop(th, s)

Spec == Init /\ [][Next]_vars

\* The loop's thread is scheduled while it has something to do, and a call
\* of post() that was begun is finished.  Nothing obliges the application to
\* call anything.
FairSpec ==
  /\ Spec
  /\ WF_vars(LoopStep)
  /\ \A th \in AllThreads : WF_vars(CallStep(th))

-----------------------------------------------------------------------------
(* Properties.                                                             *)

\* Every variable holds a value of its type, and loop_thread_id_ names the loop's
\* thread exactly while it is in run(): dispatch() and stop() call a function at
\* once only there, and post it from everywhere else, also from the same thread
\* when run() has returned (run, init, in_loop_thread).
TypeOK ==
  /\ init_ \in BOOLEAN
  /\ loop_thread_id_ = IF at = "out" THEN NoThread ELSE Loop
  /\ queue_task_ \in Seq(Items)
  /\ temp \in Seq(Items)
  /\ loop_ \in {"none", "open", "closed"}
  /\ handle_ \in {"none", "active", "closing", "closed"}
  /\ pending \in BOOLEAN
  /\ at \in {"out", "poll", "woken", "batch", "task", "stopped"}
  /\ pc \in [AllThreads -> {"idle", "push", "send"}]
  /\ arg \in [AllThreads -> Items \cup {NoItem}]
  /\ \A th \in AllThreads : pc[th] = "push" <=> arg[th] \in Items
  /\ ran \in Seq(Items)
  /\ runs \in 0 .. MaxRuns
  /\ stopping \in BOOLEAN /\ late \in BOOLEAN
  /\ usedAfterClose \in BOOLEAN

\* No wake-up is lost: while the handle is active, tasks waiting in
\* queue_task_ have a wake-up requested, or about to be requested by the
\* thread that pushed them, or are about to be swapped out by on_async
\* (IOScheduler.cpp: post's push and uv_async_send against on_async's swap).
\* After late calls this holds in the first run only: init() leaves in
\* queue_task_ what the run before has stranded.
NoLostWakeup ==
  (queue_task_ # <<>> /\ handle_ = "active" /\ (~late \/ runs <= 1)) =>
    \/ pending
    \/ at = "woken"
    \/ \E th \in AllThreads : pc[th] = "send"

\* The scheduler executes the items pushed under mutex_ as SerialExecutor
\* does: in the order of the pushes, each once, whatever batches on_async
\* makes of them and however often the loop is stopped and restarted.
Executor ==
  INSTANCE SerialExecutor WITH
    submitted <- ran \o temp \o queue_task_,
    executed <- Len(ran)

ExecutesInOrder == Executor!Spec

\* In orderly use uv_async_send is never called on a closed loop
\* (IOScheduler.cpp: post tests init_ before it pushes, run closes the loop).
NoUseAfterClose == usedAfterClose => late

\* In orderly use, when run() has returned, no posted task is left behind
\* unexecuted (IOScheduler.h: post, "enqueue to execute in loop thread").
NothingStranded ==
  (runs > 0 /\ ~init_ /\ at = "out" /\ ~late) => queue_task_ = <<>>

\* A task that is waiting when the scheduler is running is executed, unless
\* the scheduler is stopped first or inherits it from a run before.
TaskRuns ==
  \A t \in Tasks :
    (t \in ToSet(queue_task_) /\ at # "out" /\ (~late \/ runs = 1)) ~>
      (t \in ToSet(ran) \/ handle_ # "active")

\* A stop() makes run() return (stop, on_stop, on_close, run).
StopEndsRun == (stopping /\ at # "out") ~> (at = "out")

=============================================================================
