----------------------------- MODULE ThreadPool -----------------------------
(***************************************************************************)
(* src/ThreadPool.cpp over include/BlockingQueue.hpp: worker threads that  *)
(* pop tasks from one bounded queue and run them.                          *)
(*                                                                         *)
(* Every method of BlockingQueue is one critical section of mutex_, but    *)
(* for the wait in pop(): a worker whose predicate is false joins the      *)
(* waiters of cond_, and evaluates the predicate again when it is          *)
(* notified or wakes up spuriously.  start() and stop() are called by one  *)
(* thread, the owner of the pool; append() by any thread at any time the   *)
(* pool is not being started (init() is marked "not thread safe"), also by *)
(* a task.                                                                 *)
(***************************************************************************)
EXTENDS Naturals, Sequences, FiniteSets, SequencesExt

CONSTANTS
  Workers,      \* the worker threads start() creates
  Limits,       \* the values of max_task start() is called with; 0: no limit
  MaxAppends,   \* bound: successful calls of append()
  MaxStarts     \* bound: successful calls of start()

ASSUME PoolAssumption ==
  /\ IsFiniteSet(Workers) /\ Workers # {}
  /\ Limits \subseteq Nat
  /\ MaxAppends \in Nat /\ MaxStarts \in Nat

VARIABLES
  queue_,       \* the queued tasks, by number of acceptance
  exit_,        \* the queue's flag
  max_count_,   \* the queue's limit
  threads_,     \* the std::thread objects of the pool
  pc,           \* each worker: "none", "pop" (about to take the mutex), "wait",
                \* "call" (about to call its task), "run" (in it), "done" (run()
                \* has returned)
  task,         \* what each worker has popped and not begun; 0: nothing
  stopping,     \* the owner is in stop(), joining
  starts,       \* successful calls of start()
  appended,     \* history: tasks accepted
  begun         \* history: the tasks begun, in order

queueVars == <<queue_, exit_, max_count_>>
poolVars == <<threads_, stopping, starts>>
vars == <<queueVars, poolVars, pc, task, appended, begun>>

Init ==
  /\ queue_ = <<>> /\ exit_ = FALSE /\ max_count_ = 0
  /\ threads_ = {}
  /\ pc = [w \in Workers |-> "none"]
  /\ task = [w \in Workers |-> 0]
  /\ stopping = FALSE
  /\ starts = 0
  /\ appended = 0
  /\ begun = <<>>

Waiters == {w \in Workers : pc[w] = "wait"}
Awake == {w \in Workers : pc[w] = "pop"}

\* cond_.notify_one(): one of the waiters, if there are any.
notify_one ==
  IF Waiters = {} THEN UNCHANGED pc ELSE \E w \in Waiters : pc' = [pc EXCEPT ![w] = "pop"]

notify_all == pc' = [w \in Workers |-> IF pc[w] = "wait" THEN "pop" ELSE pc[w]]

-----------------------------------------------------------------------------
(* The owner: start() and stop().                                          *)

Owner == ~stopping

\* tasks_.init(max_task), which discards what is queued.
start ==
  /\ Owner
  /\ threads_ = {}
  /\ starts < MaxStarts
  /\ starts' = starts + 1
  /\ max_count_' \in Limits
  /\ exit_' = FALSE
  /\ queue_' = <<>>
  /\ \E w \in Workers :
       /\ threads_' = {w}
       /\ pc' = [pc EXCEPT ![w] = "pop"]
  /\ UNCHANGED <<stopping, task, appended, begun>>

\* The next iteration of add_thread, while those created are running already.
add_thread ==
  /\ Owner
  /\ threads_ # {}
  /\ \E w \in Workers \ threads_ :
       /\ threads_' = threads_ \cup {w}
       /\ pc' = [pc EXCEPT ![w] = "pop"]
  /\ UNCHANGED <<queueVars, stopping, starts, task, appended, begun>>

\* Mutant: notify_exit wakes one worker only.
notify_exitOne ==
  /\ exit_' = TRUE
  /\ notify_one

\* BlockingQueue::notify_exit.
notify_exit ==
  /\ exit_' = TRUE
  /\ notify_all

\* stop(), up to the joins; start() has created all its threads.
stop ==
  /\ Owner
  /\ threads_ = Workers
  /\ notify_exit
  /\ stopping' = TRUE
  /\ UNCHANGED <<queue_, max_count_, threads_, starts, task, appended, begun>>

Joined(w) == pc[w] = "done"

\* Every thread has been joined: threads_.clear().
stopped ==
  /\ stopping
  /\ \A w \in threads_ : Joined(w)
  /\ threads_' = {}
  /\ pc' = [w \in Workers |-> IF pc[w] = "done" THEN "none" ELSE pc[w]]
  /\ stopping' = FALSE
  /\ UNCHANGED <<queueVars, starts, task, appended, begun>>

-----------------------------------------------------------------------------
(* BlockingQueue::push and pop.                                            *)

FullLate == max_count_ > 0 /\ Len(queue_) > max_count_     \* mutant
Full == max_count_ > 0 /\ Len(queue_) >= max_count_

\* Mutants: push does not notify, or only when the queue is empty.
notify_none == UNCHANGED pc
notify_first == IF queue_ = <<>> THEN notify_one ELSE UNCHANGED pc
notify_push == notify_one

\* append(): push(), which neither tests exit_ nor whether there are threads.
\* A refused push changes nothing.
append ==
  /\ appended < MaxAppends
  /\ ~Full
  /\ appended' = appended + 1
  /\ queue_' = Append(queue_, appended')
  /\ notify_push
  /\ UNCHANGED <<exit_, max_count_, poolVars, task, begun>>

\* Mutant: the front is read and stays.
take_copy == queue_' = queue_
take == queue_' = Tail(queue_)

must_wait == queue_ = <<>> /\ ~exit_

\* pop(), one critical section: with exit_ set it returns false, whatever is
\* still queued, and the thread ends.
pop(w) ==
  /\ pc[w] = "pop"
  /\ \/ /\ must_wait
        /\ pc' = [pc EXCEPT ![w] = "wait"]
        /\ UNCHANGED <<queue_, task>>
     \/ /\ exit_
        /\ ~must_wait
        /\ pc' = [pc EXCEPT ![w] = "done"]
        /\ UNCHANGED <<queue_, task>>
     \/ /\ ~exit_
        /\ ~must_wait
        /\ pc' = [pc EXCEPT ![w] = "call"]
        /\ task' = [task EXCEPT ![w] = Head(queue_)]
        /\ take
  /\ UNCHANGED <<exit_, max_count_, poolVars, appended, begun>>

\* run() calls the task, when the mutex has been released.
call(w) ==
  /\ pc[w] = "call"
  /\ pc' = [pc EXCEPT ![w] = "run"]
  /\ task' = [task EXCEPT ![w] = 0]
  /\ begun' = Append(begun, task[w])
  /\ UNCHANGED <<queueVars, poolVars, appended>>

\* cond_.wait returns without a notification.
Spurious(w) ==
  /\ pc[w] = "wait"
  /\ pc' = [pc EXCEPT ![w] = "pop"]
  /\ UNCHANGED <<queueVars, poolVars, task, appended, begun>>

\* The task returns; run() loops.
TaskReturns(w) ==
  /\ pc[w] = "run"
  /\ pc' = [pc EXCEPT ![w] = "pop"]
  /\ UNCHANGED <<queueVars, poolVars, task, appended, begun>>

-----------------------------------------------------------------------------

Next ==
  \/ start \/ add_thread \/ stop \/ stopped
  \/ append
  \/ \E w \in Workers : pop(w) \/ call(w) \/ Spurious(w) \/ TaskReturns(w)

Spec == Init /\ [][Next]_vars

\* start() and stop() are finished once begun, every worker is scheduled and
\* tasks return.  Nothing obliges anyone to call append() or stop().
FairSpec ==
  /\ Spec
  /\ WF_vars(add_thread)
  /\ WF_vars(stopped)
  /\ \A w \in Workers :
       WF_vars(pop(w)) /\ WF_vars(call(w)) /\ WF_vars(TaskReturns(w))

-----------------------------------------------------------------------------
(* Properties.                                                             *)

\* Every variable holds a value of its type; the queue keeps its limit once a
\* pool with that limit has been started (push: queue_.size() >= max_count_);
\* no worker is left when threads_ is empty, so that init(), "not thread safe",
\* runs alone.
TypeOK ==
  /\ queue_ \in Seq(Nat) /\ begun \in Seq(Nat)
  /\ exit_ \in BOOLEAN /\ stopping \in BOOLEAN
  /\ max_count_ \in Limits \cup {0}
  /\ max_count_ > 0 => Len(queue_) <= max_count_
  /\ threads_ \subseteq Workers
  /\ pc \in [Workers -> {"none", "pop", "wait", "call", "run", "done"}]
  /\ task \in [Workers -> Nat]
  /\ threads_ = {} => \A w \in Workers : pc[w] = "none"
  /\ starts \in 0 .. MaxStarts /\ appended \in 0 .. MaxAppends

\* No wake-up is lost: while a worker sleeps, there is a worker awake for every
\* task that is queued (BlockingQueue: push's notify_one against pop's wait).
WorkIsWoken ==
  Waiters # {} => Cardinality(Awake) >= Len(queue_)

\* The tasks that began after the i-th although they were accepted before it.
Overtaken(i) ==
  {begun[j] : j \in {k \in DOMAIN begun : i < k /\ begun[k] < begun[i]}}

\* A task begins once at most, and never before one that is still queued.  It may
\* overtake those that other workers have popped and not yet called, so there
\* are fewer of them than workers, and a single worker keeps the order of
\* append() (push, pop and run, which calls a task after it released the mutex).
BegunInOrder ==
  /\ \A i, j \in DOMAIN begun : i # j => begun[i] # begun[j]
  /\ \A i \in DOMAIN begun, k \in DOMAIN queue_ : begun[i] < queue_[k]
  /\ \A i \in DOMAIN begun : Cardinality(Overtaken(i)) < Cardinality(Workers)

\* stop() returns: every worker gets to see exit_ (notify_exit, pop, join).
StopReturns == stopping ~> ~stopping

\* A task that is queued in a running pool is begun, unless the pool is stopped
\* first.
TaskBegins ==
  \A k \in 1 .. MaxAppends :
    (k \in ToSet(queue_) /\ threads_ # {}) ~> (k \in ToSet(begun) \/ exit_)

=============================================================================
