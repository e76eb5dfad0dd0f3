# sdpf in TLA+

sdpf is a small C++ framework over libuv: an event loop with a queue of tasks,
TCP connections and servers, timers, signals, a thread pool, and a remote
procedure call layer on top of the connections.  This directory holds TLA+
modules of its concurrent parts and of the buffer its messages pass through, TLC
runs that check them on small instances, and proofs about all of them that hold
for every instance.  Every definition is translated
from the code in `src/src` and `src/include`; `PROJECT.json` ("map") gives the
lines each one stands for.

Contents: [inventory](#inventory), [modules](#modules), [runs](#runs),
[fairness](#fairness), [proofs](#proofs), [disagreements](#disagreements),
[what is left out](#what-is-left-out), [plan](#plan).

## Inventory

### How the parts fit together

The thread model (`src/note.txt`, item 1) is one thread per event loop.
`IOScheduler` owns the loop.  Every other object of the network layer holds a
pointer to it and follows one pattern: the public method, callable from any
thread, tests an atomic flag and *dispatches* a handler; the handler runs in the
loop's thread, tests the flag again, and talks to libuv; libuv calls back in the
same thread; the application's callback is called from there and may call the
public methods again, in which case `dispatch` runs the handler at once, inside
the callback.

```
 application threads                    loop thread
 ------------------                     -----------------------------------
 RpcChannel.call_method --+             on_async: batch of queue_task_
   requests_ (mutex)      |               TcpConnection.on_start/on_stop/on_send
   RpcController (cond)   |               IOTimer/IOSignal/TcpServer.on_start/on_stop
 TcpConnection.send  -----+-> post() -> libuv callbacks
 IOTimer.start/stop  -----+               on_connect, on_read, on_write, on_close
 IOScheduler.stop    -----+               RpcChannel.process_response, on_close
                                            -> RpcController.notify / done callback
 ThreadPool.append -> BlockingQueue -> worker threads (independent of the loop)
```

### Components

| Component | State | Operations | What makes it correct |
|---|---|---|---|
| `IOScheduler` | `init_`, `loop_thread_id_`, `queue_task_` under `mutex_`, the libuv loop and async handle | `init`, `run`, `stop`, `post`, `dispatch`; `on_async`, `on_stop`, `on_close` in the loop | tasks are executed in order, each once; no wake-up is lost; `stop` ends `run`; nothing is left in the queue; the loop is not used after it is closed |
| `TcpConnection` | `connected_`, `handle_`, `connect_req_`, one `write_req_`, `send_buf_`, `recv_buf_` | `start`, `stop`, `send`, `accept_connect`; `on_start`, `on_stop`, `on_send`, `on_connect`, `on_read`, `on_write`, `on_close` | the write request is never in use twice; buffers are handed to it in order, none twice, and stay in the queue until the report; a queue that is not empty moves; callbacks come as open, traffic, close; a stop is reported |
| `TcpServer` | `started_`, `handle_` | `start`, `stop`; `on_start`, `on_stop`, `on_accept`, `on_close` | handle initialised once per life; callbacks in order |
| `IOTimer`, `IOSignal` | `active_`, `handle_`, `close_cb_` | `start`, `stop` and their handlers | as `TcpServer`; the callback `on_stop` has stored is called, and none twice |
| `RpcChannel`, client | `requests_` under `mutex_requests_`, `id_`, the connection | `call_method`, `process_response`, `remove_request`, `on_close` | each call returns, with the server's answer or an error; a done callback is called once; a registration for notifications is unique and lasts as long as the connection; no controller is used after it was deleted |
| `RpcController` | `ec_`, response, `mutex_`, `cond_` | `lock`, `wait`, `notify` | a notification is not lost; a timeout is reported |
| `RpcChannel`, server | `services_`, the connection | `process_request`, `done`, `notify` | each request answered at most once, and, while the connection lasts, always but for an answer that the log alone is told of (a full send queue, a packet that does not serialise); a notification is sent to each registered channel, with the same exception |
| `RpcServer` | `channels_`, `services_`, a `TcpServer` | `start`, `stop`, `notify_all`, `on_alloc`, `on_accept`, `on_channel_close` | `channels_` follows the connections; calls and notifications are not forgotten; stopping server and loop leaves no handle open |
| `ThreadPool`, `BlockingQueue` | `threads_`; `queue_`, `max_count_`, `exit_` under `mutex_`, `cond_` | `start`, `stop`, `append`; `push`, `pop`, `notify_exit`, `init` | no wake-up is lost; a task begins once, after all but a few of those accepted before it; `stop` returns and leaves no worker |
| `IOBuf` | `buff_`, `read_index_`, `write_index_` | `write`, `read`, `has_written`, `has_readed`, `has_readall`, `ensure_writable`, `make_space`, `move_readable_data` | the indices stay inside the vector; room is made when it can be; bytes come out as they went in, whatever is moved or grown |
| Framing: `on_alloc`, `on_read`, `RpcChannel::on_recv`, `parse` | `recv_buf_` | `on_alloc`, `on_read`, `on_recv`, `parse` | a stream cut anywhere gives the same messages, each processed once; a peer that sends proper messages is not disconnected |
| `Dispatcher`, `RpcMessage`, `RpcService`, `logger` | none of their own | encoding, interfaces, output | - |

### What is hard here

* **Test, then dispatch.**  The flag is tested in one thread and acted on in
  another, so a handler may run on an object that has been closed, or closed and
  started again, since.
* **Re-entrant callbacks.**  `send_cb_`, `recv_cb_`, `connect_cb_` and
  `close_cb_` may call `stop` or `send`; the handler then runs in the middle of
  the one that made the callback (`on_write` between the front and the pop of
  the queue).
* **The end.**  Stopping the scheduler races with posts; closing a handle cancels
  what is in flight and delivers the cancellations before the close callback.
* **Caller-owned controllers.**  The application deletes a controller when its
  call returns, while the loop may be about to notify it.
* **A stream has no seams.**  The network and the end of the buffer cut messages in
  the header or in the body; the buffer moves and grows in between; libuv reads
  again when the space it was given is full, and may then find nothing.
* **Condition variables without predicates.**  `RpcController::wait` takes any
  wake-up for an answer.

`PROJECT.json` lists the hazards one by one, each with the line where it bites
and the properties that would catch it.

## Modules

| Module | Models | Lines of code |
|---|---|---|
| `SerialExecutor` | abstract: what a scheduler promises | - |
| `IOScheduler` | `IOScheduler.cpp` | 250 |
| `IOScheduler_proofs` | theorems about `IOScheduler` | - |
| `HandleEvents` | abstract: the order of an object's callbacks | - |
| `TcpConnection` | `TcpConnection.cpp`, `TcpServer::on_accept` | 514 |
| `TcpConnection_proofs` | theorems about `TcpConnection` | - |
| `LoopHandle` | `IOTimer.cpp`, `IOSignal.cpp`, `TcpServer.cpp` (handle) | 675 |
| `LoopHandle_proofs` | theorems about `LoopHandle` | - |
| `ByteQueue` | abstract: what a buffer promises | - |
| `IOBuf` | `IOBuf.cpp` | 281 |
| `MessageStream` | `on_alloc`, `on_read` of `TcpConnection.cpp`; `on_recv`, `parse` of `RpcChannel.cpp`; extends `IOBuf` | ~150 |
| `MessageStream_proofs` | theorems about `IOBuf` and `MessageStream` | - |
| `RpcChannel` | client side of `RpcChannel.cpp`, `RpcController.cpp` | ~600 |
| `RpcChannel_proofs` | theorems about `RpcChannel` | - |
| `RpcServer` | `RpcServer.cpp`, server side of `RpcChannel.cpp`, shutdown | ~400 |
| `RpcServer_proofs` | theorems about `RpcServer` | - |
| `ThreadPool` | `ThreadPool.cpp`, `BlockingQueue.hpp` | 290 |
| `ThreadPool_proofs` | theorems about `ThreadPool` | - |
| `SequenceLemmas` | what the proofs need to know of queues and stacks | - |
| `MC...` | the same with named model values | - |

Variables and actions keep the names of the members and functions they stand for.
A definition marked *mutant* in a comment is a variant of the one next to it that
is not part of any specification; it shows what a property would detect.

### IOScheduler

`post()` is three steps of the caller, because the loop and other threads run
between them: the test of `init_` (`Post`), the push under `mutex_` (`Push`), and
`uv_async_send` (`Send`).  `on_async` is `Wake` (libuv clears its pending flag
*before* it calls back, which is what makes the protocol work), `on_async` (the
swap under the mutex), and one `RunItem` per task; while an application task runs
(`at = "task"`) the loop's thread may itself call `post` and `stop`.  `stop()` is
`dispatch(on_stop)`: an item of the queue when another thread calls it, executed
on the spot when the loop's thread does, ahead of everything queued.  `init()`
does not clear `queue_task_`, so a run of the loop can meet the tasks of the run
before.  `uv_loop_close` may fail with `UV_EBUSY`, hence the two outcomes of
`RunExit`.

`SerialExecutor` is the promise: items are executed in the order in which they
were handed over, each once, none forgotten.  The refinement maps `submitted` to
`ran \o temp \o queue_task_` and `executed` to `Len(ran)`: a push is `Submit`, a
`RunItem` is `Execute`, and everything else, the swap and a restart included,
must be a stutter.  An `on_stop` the loop's thread runs at once is no item: it
was never handed over.

Every thread posts and stops when it likes.  The history variable `late` tells two
kinds of use apart: it becomes `TRUE`, and stays so, when a post follows a
`stop()`, and when a `stop()` overlaps another call, repeats one or comes from the
loop's thread (`StopIsLate`).  Properties that such calls break are stated for
`~late` only.

### TcpConnection

`Call` is the test of `connected_` in a public method; `Post` enqueues the
handler, `CallInline` is the same call made by a callback, which runs the handler
at once.  `stack` is what the loop's thread has still to run, innermost first.
A handler that calls the application leaves its remainder on the stack:
`on_write` pushes `user` and then `written`, so that whatever the callback does
comes between `send_buf_.front()` and `send_buf_.pop()`, as in the code.

libuv is what the code relies on: a handle is open, closing or closed;
`uv_write` on a closing handle fails, which the code only logs; the close
delivers the cancelled connect and writes with an error (`FinishClose`), then the
close callback, which reads the connection from `handle_.data`.  `data` records
whether that pointer has been set: `on_start` leaves it unset (the assignment is
commented out) and `on_connect` sets it after a success only.

`writes` counts the uses of the one `uv_write_t` in flight, `wire` lists the
buffers given to `uv_write`, that is, the front of the queue at each `send_buf`
(`FrontBuf`), and `send_buf_` is the queue: `on_write` pops a buffer after its write
was reported, so the one in flight should be at the front.  A buffer is its
number of acceptance; what is received is the matter of MessageStream.  The
application restarts a connection after its close callback only (`MayStart`).

`on_send` drops a buffer of a closed connection, refuses one when the queue is full
(`Refuse`: `send_cb_` is called with the length of the queue) or queues it (`Queue`).
`send()` is accepted as soon as `on_start` has begun to connect, so a refusal can come
before the connect callback.  `HandleEvents` therefore knows, besides open, traffic and
close, that a connect has begun and that callbacks may be early (`Begin`, `Early`);
timers, signals and servers never take these steps.

Faults are connects that fail (`connect_error`), a `stop()` while a connect is in
flight (`stop_connecting`) and writes that fail (`write_error`).  `FaultSets` lists
the combinations of interest; the initial state picks one as `faults`, which never
changes, and properties that need the absence of a fault say so.
`OneWriteInFlight` and `QueueMoves` are among them: they are stated for `Listens`, the
absence of `stop_connecting` (see [disagreements](#disagreements)).

### LoopHandle

Timers, signals and the listening handle of a server follow the same code with
other names; `kind` says which.  They differ in two respects: only the start of a
timer cannot fail, and a server reports a start to `launch_cb_` and keeps one
close callback, while a timer or a signal takes a callback with each `stop()`
(`close_cb_` is the number of that call).  `start()` and `stop()` are permitted whenever the
flag allows them, as in the code, in any number of threads and in any callback.

`on_start` tests the flag only, which is down as soon as a close has begun.  Reaching
it then initialises a handle that libuv is still closing (`Misuse`): `misused` records
it, and the behaviour ends, because nothing is known of such a handle.  `hasty` says
that the application has done its part: it called `start()` before it was told of the
close - in the same callback as `stop()`, say - or while another `start()` was in
progress.

### RpcChannel

One value stands for a call, its id and its controller.  `call_method` is a
sequence of steps of the caller: `Begin` (the tests and the mark `ec_ = 1` of a
registration), `Insert` (under `mutex_requests_`), `Lock`, `Send`, `Wait`,
`Woken` for a synchronous call, `Fail` and `Remove` after a failed send of
another.  `process_response` is `process_response` (with `remove_request`),
`set_code`, then `call_done`, or `notify_lock`, `notify_unlock`, `notify_one`,
then `restore_mark`.  `on_close` goes through the requests one at a time, in any
order (`std::unordered_map`), holding `mutex_requests_`: `close_begin`,
`close_next`, `close_end`.

The inner `int ret` of the synchronous branch is modelled as the code has it:
what it receives never reaches the caller.  `Access` records whether a step
touches a controller the application has deleted; it deletes them as
`test/rpc_client.cpp` does.  The connection below is reduced to `conn` and the
queues `outbox` and `inbox`; what TcpConnection guarantees about it (order, one
close callback per connection) is checked in the module TcpConnection.

The faults are `close`, `timeout`, `spurious`, `silent` (the server does not answer),
`full` (the send queue refuses the request), `pack` (a request does not serialise, the
-1 and -2 of `send_packet`) and `parse` (a response does not, `_ERESPONSE`).  As in
TcpConnection the initial state picks a set of `FaultSets`, the empty one included, as
`faults`.

`Pending(c)` says that the loop's thread has yet to tell the call `c`, or is about it.
The history variable `early` collects the synchronous calls that returned while that was
so - a timeout, a wake-up by chance, a send that failed - and the asynchronous ones
whose done callback came before `call_method` had returned.  Their controllers are deleted too
soon, and `dangling`, the deleted controllers that were accessed, should hold no others.

### RpcServer

This module puts the parts together the way a server uses them: the loop's
thread accepts, reads, executes posted handlers and closes; the owner's calls
`server.stop()` and then `ctx.stop()`, as `test/rpc_server.cpp` does and
`note.txt` item 5 asks for; the threads of the services call `done()` and
`notify()`.  What the other modules check in detail is reduced here: a handle is
`none`, `open` (which stands for `connected_`, `started_` and `init_`), `closing`
or `closed`, a channel and its connection are one value, and the scheduler is its
queue `tasks`.  Kept in full is libuv's list of closing handles, since the end
depends on it: `uv_close` puts a handle in front (`closing`), the loop takes the
whole list (`round`) and calls back from its head, so the last to be closed is
called first, and handles closed by a callback wait for the next round; `uv_run`
returns after a round in which the scheduler's `on_close` called `uv_stop`.

`process_request` is `register` (the registration of a notification),
`answer_at_once` (an unknown service or method, a message that does not parse, or
a service that calls `done()` before it returns) or `call_method`, after which the
service owes a `done`.  `close_all` and `notify_all` go through
the channels one at a time, while the loop may change `channels_`: the code has no
lock there.  The model
then goes on with the channels present when the iteration began; what a C++
program does is undefined.  The history variable `disturbed` records that it happened,
or that a client was accepted after `stop()` had begun, and `ShutdownIsClean` is stated
for `~disturbed`.

An answer or a notification can get lost on an open connection, and only the log is
told: `send_packet` fails if it does not serialise (`SendTo`), and `on_send` of the
connection discards it when the send queue is full (`Answer`, `Note`); the
channel's own `on_send`, which is told of it, does nothing.  `dropped` records what was lost,
`MaxLost` bounds it.

### ThreadPool

Each method of `BlockingQueue` is one critical section, but for `cond_.wait`:
`pop` either takes a task, or ends the worker, or joins the waiters, and comes
back to the test when notified or spuriously woken.  A worker that took a task has
released the mutex when it calls it (`call`), so another one may begin a later task
before it.  `exit_` is looked at before the queue, so `stop()` drops what is queued.  `start()` initialises the queue and
creates the workers one by one while the first ones run already.

### IOBuf

The members are a record and the functions of the class operators on it; a
function that returns success or failure has a second operator, `..._ok`, for
that.  `make_space` is the computation of the new size (`NewSize`, `RoundUp`), the
`resize`, and `move_readable_data`, in the order of the code.  The module's
behaviours are those of a buffer whose user asks for room, writes, fills the space
itself and reads, by any amount at any time.

`move_readable_data` calls `memcpy`, also when source and destination overlap.
What such a copy leaves is undefined.  Copying forwards happens to be right and
copying in any other order may not be: the history variable `garbled` becomes
`TRUE`, or does not, whenever regions overlap (`Garbles`).

`ByteQueue` is the promise: a queue of bytes that only grows at its end and shrinks
at its front.  The refinement maps the queue to the readable bytes; moves and
resizes must be stutters.  Once the buffer may be garbled nothing is promised.

### MessageStream

The module extends `IOBuf`: the variable `buf` is `recv_buf_` here, with cells that say
which byte of which message they hold, and the operators of `IOBuf` are used inside
the steps of the loop's thread.  The specification is `StreamSpec` (with fairness
`FairSpec`); the behaviours of `IOBuf`, its `Spec`, play no part in it.  `on_alloc` asks for a block of `initialSize` (and ignores the result, as the
code does); `on_read` receives any part of what has arrived that fits, stores it
and starts the loop of `on_recv`; `on_recv_message` is a turn of that loop in which
`parse` found a message, `on_recv_ends` its last.  `at = "again"` is libuv's read
loop: after a read that filled its space it calls `on_alloc` and reads once more, and
`on_read_failed` is what happens if there is no space (`UV_ENOBUFS`) or nothing has
arrived (`nread = 0`): the code stops the connection in both cases.

`on_close` leaves `recv_buf_` as it is, so after a restart of the same connection what
was left there comes before the new bytes.  The history variable `stale` records
this.  From then on the model lets `parse` find any header (`-1 .. readable`), and the
properties promise nothing.

`InSync` says what `Unread`, the readable bytes followed by those on their way, must
be: it begins with the first message not processed, every byte is followed by the next
of its message or by the first of the next one (`Following`), and while the connection
lasts it ends with the last byte sent.

## Runs

| Run | Instance | Checks | Shows |
|---|---|---|---|
| `Sched` | 2 threads and the loop, 2 tasks, 2 stops, 2 runs of the loop | `TypeOK`, `NoLostWakeup`, `NothingStranded`, `ExecutesInOrder`, `StopEndsRun`, `TaskRuns` | the scheduler implements `SerialExecutor` and every stop ends `run()`, whatever is called when; in orderly use no wake-up is lost and no task is left behind |
| `SchedSendClosed` | one run of the loop | `NoUseAfterClose` violated | a post overtaken by stop and close |
| `Conn` | 2 threads, queue of 2, 2 starts, 3 sends, 2 posted handlers; write errors alone, or all faults | `TypeOK`, `NoCrashOnceUp`, `OneWriteInFlight`, `QueueMoves`, `WrittenInOrder`, `CallbacksInOrder`, `StopIsReported`, `QueueDrains` | the send queue and its one write request survive any mix of sends, refusals, stops, failures, re-entrant calls and a restart; buffers are handed over in order, the queue drains, a stop is reported; while connects succeed nothing crashes |
| `ConnFailed` | failing connects | `NoCrash` violated | a failed connect is closed through an unset pointer |
| `Handle` | 2 threads, the three kinds, 3 starts, 3 stops | `NeverReinitialised`, `CallbacksInOrder`, `StopIsTold` | whatever start and stop overlap, an open handle is never initialised again, a closing one only for a hasty application; callbacks come in order, and the callback a close stored is called |
| `Rpc` | without faults a synchronous, an asynchronous call and two registrations; with a silent server, a full queue and responses that do not deserialise one call of each kind and one notification; with `close`, `timeout`, `spurious`, `silent`, `full` and `pack` the same over two connections | `NoDangling`, `SyncIsAnswered`, `OneRegistration`, `DoneOnce`, `StaysRegistered`, `CallsReturn`, `AsyncIsAnswered` | on a connection that stays up calls are answered, whatever the interleaving; no controller is used after its deletion there, even when requests or answers are missing, and elsewhere only that of a call that returned or was told too early; and what survives the loss of the connection, timeouts, spurious wake-ups and requests that do not serialise |
| `RpcTimeout` | a synchronous call that may time out | `SyncHasAnswer` violated | a timeout is returned as success |
| `Server` | 2 clients, a request each, 1 call of `notify_all`, 2 posted handlers, 1 answer or notification lost | `ChannelsAreLive`, `ShutdownIsClean`, `StopEndsRun`, `CallIsAnswered`, `NotificationIsSent` | `channels_` follows the connections, no call or notification is forgotten but the one that is lost, and the server's end leaves no handle open |
| `Pool` | 3 workers, 4 tasks, limits 0 and 2, 2 starts | `TypeOK`, `WorkIsWoken`, `BegunInOrder`, `StopReturns`, `TaskBegins` | the queue loses no wake-up, no task begins twice or before one still queued, it overtakes no more tasks than there are other workers, and stop returns |
| `Buffer` | buffers of 1, 2 and 9 cells, blocks of 2, requests up to 3 | `TypeOK`, `RoomIsMade`, `IsQueue` | `IOBuf` implements `ByteQueue` and makes room whenever it can |
| `Stream` | blocks of 2, messages of 3, 7 and 8 bytes, 3 of them on each of 2 connections | `InSync`, `NoFalseStop`, `MessageIsProcessed` | however the stream is cut, every message is recognised and processed, and no peer is disconnected without a reason |
| `StreamIdle` | one block of 4, messages of 3 and 4 bytes | `ContinuesToReceive` violated | a burst that exactly fills the buffer closes the connection |

`TypeOK` of LoopHandle, RpcChannel and RpcServer is a conjunct of `NeverReinitialised`,
`DoneOnce` and `ChannelsAreLive`.

### Bounds, and why they are enough

* *Scheduler.*  `MaxRuns = 2` lets what one run strands meet the next.  Two
  threads besides the loop suffice for two posts to interleave with a batch and
  with a stop; two tasks for an order to be wrong.  All but the two
  liveness properties are also proved for every bound.
* *Connection.*  With a queue of 2 and 3 sends the queue is empty, partly filled,
  full and refusing, in both lives of the connection (`MaxStarts = 2`).  A third
  start matters only after a connect in flight was stopped (see
  [disagreements](#disagreements)); the invariants are proved for any number.
  `MaxDepth = 3` admits a callback within a callback of a handler; deeper nesting
  repeats the same frames.  `MaxTasks = 2` lets a stop wait behind a send, or
  before it, in the scheduler's queue.
* *Handle.*  Three stops in two threads: one takes effect, one is dropped, one
  belongs to the next life.  Three starts: one more than a restart, so that starts
  overlap in the second life as well.
* *Rpc.*  Calls interact through `requests_` and its mutex only, in pairs:
  registrations with registrations, `on_close` with any.  Without faults all calls
  are made, on one connection and without notifications; with faults only
  `FaultyCalls`, one of each kind, but with a notification, and over a reconnection
  when `close` is among the faults.
* *Server.*  Two channels can be at different points of their lives while a third
  party iterates over them; with the two handles of server and scheduler up to
  four close callbacks share a round.  Services and requests of one channel do not
  meet each other.  `MaxTasks = 2` lets a stop wait behind an answer.  `MaxLost = 1`:
  one answer or notification is lost, at any of the places where it can be, and the
  others must not suffer.
* *Pool.*  Three workers can be waiting, popping and in a task at once; four tasks
  fill the queue of 2 and leave two in hand, and one task can overtake two.
* *Buffer.*  Blocks of 2 make every remainder of the rounding occur; a buffer of 1
  is smaller than a block, one of 9 larger than `MaxSize` (8), which the
  constructor admits.  Everything is also proved for every bound.
* *Stream.*  With blocks of 2 a buffer has 8 cells at most.  A message of 3 spans
  two blocks, one of 7 is the longest that leaves room for a block at its last read
  (`MaxSize - initialSize + 1`), one of 8 may be refused.  The library's own
  `send_packet` writes into one buffer of `initialSize`; longer messages come from
  other implementations of the peer.  Nothing more is read into a buffer that may
  be garbled, and a connection that is out of step gets one message (`Limit`): what
  follows is undefined or arbitrary, and nothing is claimed of it.  `InSync` and
  `NoFalseStop` are also proved for every bound.

Deadlock is not checked in the runs: each system stops in good order when its
bounds are used up or when nobody calls it.  What must not stop is stated by the
liveness properties.

No symmetry is used, since most runs check liveness.

## Fairness

Nothing obliges the application, the network or the peer to do anything new;
fairness is assumed of what has begun.

* *IOScheduler*: the loop's thread runs (`WF` of `LoopStep`, a single thread with
  one step enabled at a time, apart from the choice between the wake-up and the
  close, where either makes progress), a call of `post` that was begun is
  finished, application tasks return.
* *TcpConnection*, *LoopHandle*: the loop runs what it has begun (`WF` of the
  handlers), callbacks return.  The sources of events - the task queue, closing
  handles, finished writes and connects - are each looked at in every round of
  `uv_run`, so none is put off for ever by the others.  In the model each is
  enabled again and again, between other callbacks, rather than continuously:
  hence `SF`.  Posting needs a place in the bounded `tasks`, a bound of the model
  only, hence `SF` there too (in LoopHandle `tasks` is unbounded and `WF` is
  enough).
* *RpcChannel*: caller threads and the loop's thread run; the server answers what
  it received unless `silent` is among the faults; a wait that may time out does
  so in the end.  The mutexes are always released after a few steps.  `CallsReturn`
  promises a return where requests and answers are not lost (`Lossless`) or the wait
  can time out: a call without a timeout waits for a silent server for ever.
* *MessageStream*: the network delivers what was sent and the loop's thread runs
  (`WF` of `LoopStep`); the peer, the application's stop, the close callback and a
  restart are not obliged to happen.
* *RpcServer*: the loop's thread and the owner's go on with what they have begun,
  `notify_all` finishes its iteration, a service calls `done()` in the end.  That
  something is lost is a choice of a step; no fairness speaks of it.
  Clients, registrations and `stop()` itself are not obliged to happen.
* *ThreadPool*: workers run, call the task they popped, and tasks return; a start or stop in progress is
  finished.  Notifications wake *some* waiter; no fairness among waiters is
  assumed.

## Proofs

`IOScheduler_proofs` proves, for every set of threads and tasks and every number
of runs, from `SchedulerAssumption` alone (the thread and item names are
distinct, the bound is a number):

| Theorem | States |
|---|---|
| `TypeCorrect` | `Spec => []TypeOK` |
| `ImplementsSerialExecutor` | `Spec => ExecutesInOrder` |
| `OrderlyStrandsNothing` | `Spec => []NothingStranded` |
| `NoWakeupIsLost` | `Spec => []NoLostWakeup` |

The last two hold of every use; their formulas say nothing once a call has been
`late` (for `NoLostWakeup`: in a second run).

* *Type correctness* is inductive as it stands; it says that a thread holds an
  item exactly when it is about to push it, which the other proofs use.
* *Refinement*: the mapping concatenates `temp` and `queue_task_`, so the swap is
  a stutter only if `temp` is empty before it.  `BatchInv` says so: outside a batch
  `temp = <<>>`.  The lemmas `PushAppends`, `SwapKeeps` and `RunKeeps` give the
  effect of each step on the concatenation, `ExecutorNext` goes through the
  actions.
* *Nothing stranded*: `late` never becomes `FALSE` again (`LateStays`), so the
  invariant is `late \/ OrderlyInv` (`UseInv`).  Once `stop()` has been called and
  nothing was late, `on_stop` is the last item ever pushed.  `OrderlyInv` follows it
  through four phases:
  `Announced` (its thread is about to push it, all others are idle), `Queued` (last
  in `queue_task_`), `SwappedOut` (last in `temp`, nothing in `queue_task_`),
  `Done` (executed; both are empty).  Together with "while `init_` holds the handle
  is active" this is inductive, and `run()` can only return in the last phase.
* *No lost wake-up*: a push leaves its thread at `Send`, a send sets `pending`, a
  wake-up leads to the swap.  Only `InitLoop` could break it, by clearing
  `pending` over a queue that is not empty, so the proof needs the previous result,
  or the first run.  Without either hypothesis the statement is false, see below.

The first part of `MessageStream_proofs` proves of `IOBuf`, for every block size, every set of initial sizes and of byte
values and every bound on requests, from `BufferAssumption` alone (a block and an
initial size are positive, `Zero` is a byte):

| Theorem | States |
|---|---|
| `TypeCorrect` | `Spec => []TypeOK` |
| `RoomIsAlwaysMade` | `Spec => []RoomIsMade` |
| `ImplementsByteQueue` | `Spec => IsQueue` |

* The work is in lemmas about the functions, stated for any buffer whose indices
  are in order (`Good`): `ReadRest` (reading drops the front), `MoveKeeps`,
  `ResizeKeeps` and `EnsureKeeps` (moving, growing and making room keep the readable
  bytes and leave a good buffer), `PutAppends` (storing appends).  `RoundUpBounds`
  says that rounding up to a block is enough and never exceeds `MaxSize`, which is
  itself a multiple of a block.
* *Type correctness* is inductive as it stands and gives `Good` in every state.
* *Room* follows from it without a further invariant (`TypeGivesRoom`).
* *Refinement*: `EnsureKeeps` makes `Ensure` a stutter of `Put` (or `Spoil`, when a copy
  overlaps), `EnsureKeeps` with `PutAppends` makes `Write` a `Put`, `ReadRest` makes the
  reads `Take`.

Its second part proves of `MessageStream`, for every block size, every set of lengths of
messages and every number of messages and connections, from `BufferAssumption` and
`StreamAssumption` (a message is longer than its header and its length fits into 16
bits; a cell can hold a byte of any message):

| Theorem | States |
|---|---|
| `StreamInOrder` | `StreamSpec => []InSync` |
| `NoPeerIsStoppedFalsely` | `StreamSpec => []NoFalseStop` |
| `NoMessageIsLeft` | `StreamSpec => []IdleInv` |

* `InSync` relates neighbouring bytes only.  That the header in front announces a
  message whose bytes are the next ones would take an induction over them.  The
  invariant `OrderInv` relates any two bytes instead (`Blocks`): from the place of one in
  its message follow the other bytes of the message and the first of the next.  So no
  induction is needed, and each step on the stream is a lemma about places:
  `PrefixInOrder` (what is on its way is lost), `RestInOrder` (a message is processed),
  `SendInOrder` (one is sent).  `ReadMoves` says that a read moves bytes from the wire
  to the buffer and leaves `Unread` as it is; it rests on the lemmas about `IOBuf`.
* `NoFalseStop` needs to know how little is in the buffer when `on_alloc` asks for a
  block: `IdleInv`, that `on_recv` has left less than the next message.  If then no
  space is left, `ensure_writable` has refused, so a block and the readable bytes exceed
  `MaxSize`, and the message they belong to is longer still.  A wrong header is never
  found because the byte in front is the first of a message (`FrontMessage`).
* `StreamType` adds that the buffer never exceeds `MaxSize` and that nothing is on
  its way when the connection is not up, which a restart relies on.

`ThreadPool_proofs` proves, for every finite set of workers that is not empty,
every set of limits and every number of tasks and starts, from `PoolAssumption`:

| Theorem | States |
|---|---|
| `TypeCorrect` | `Spec => []TypeOK` |
| `NoWakeupIsLost` | `Spec => []WorkIsWoken` |
| `TasksBeginInOrder` | `Spec => []BegunInOrder` |

* *Type correctness* needs that only threads of the pool run, and that `stop()` joins
  all of them: `start()` then finds no worker of the last run.
* *No lost wake-up* is a count: a push adds a task and wakes a waiter if there is
  one, a pop takes one worker and one task away.  The strengthening is `ExitWakes`,
  nobody waits once `exit_` is set.
* *Order*: what is queued is in order (`QueueOrder`) and comes after whatever a worker
  has popped and not called (`HeldOrder`) and after whatever has begun (`BegunOrder`),
  whatever `init()` discards.  The tasks that a task has overtaken, or may yet, are those
  that began after it and those that workers hold with a smaller number (`Passed`).
  When it begins there are fewer of them than workers, because one worker holds itself
  (`HeldByOthers`), and afterwards they become no more (`FewPassed`).

`LoopHandle_proofs` proves, for any of the three kinds, any threads and bounds, from
`HandleAssumption`:

| Theorem | States |
|---|---|
| `HandleIsNeverReinitialised` | `Spec => []NeverReinitialised` |
| `HandleTellsInOrder` | `Spec => CallbacksInOrder` |

* A start or stop passes from its caller to the scheduler's queue and from there to
  the loop's stack.  `UnderWay` and `InOnePlace` of SequenceLemmas follow it, and one
  lemma per kind of step (`CallMoves`, `PostMoves`, `InlineMoves`, `RunMoves`,
  `ContinueMoves`) says what the step does to them.  This is the proof's main work, and
  TcpConnection uses the same lemmas.
* The invariant adds that a start under way is alone and finds the handle at rest as
  long as nobody was hasty (`StartsAlone`), that a stop is in one place and its callback
  neither called nor stored (`StopsOnce`), that the callback of a close in progress has
  not been called (`CloseUntold`), and that what the application was told last is the
  state of the handle (`EventTells`).  `StartsAlone` gives `misused => hasty`.  The
  refinement of `HandleEvents` follows from `EventTells` and needs no such hypothesis.

`TcpConnection_proofs` proves, for any threads, any size of the queue and any bounds,
from `ConnectionAssumption`:

| Theorem | States |
|---|---|
| `TypeCorrect` | `Spec => []TypeOK` |
| `BuffersAreWrittenInOrder` | `Spec => []WrittenInOrder` |
| `WriteRequestIsFree` | `Spec => []OneWriteInFlight` |
| `QueueAlwaysMoves` | `Spec => []QueueMoves` |
| `NoCrashOnceConnectionsSucceed` | `Spec => []NoCrashOnceUp` |
| `ConnectionTellsInOrder` | `Spec => CallbacksInOrder` |

* Types hold whatever happens.  That `connected_` says between two callbacks that the
  handle is open does, too, although a connect that was stopped sets it once more:
  `on_connect` has then left `on_stop` on the stack (`FlagInv`).
* The order in which the buffers are given to `uv_write` holds whatever happens as
  well, by `Ordered` of SequenceLemmas: what was given is older than what is queued,
  but for the head of the queue, which may be the last that was given.  That it is
  while the write is in flight (`InFlight`) needs `Safe`.
* The other four rest on `ConnInv == Listens => Safe`.  Callbacks run handlers inside
  handlers, so `Safe` says what the stack may look like: which frame may lie beneath
  another (`StackState`), that an end is reported by one of three stacks
  (`EndState`), that a connect is reported alone (`OpenState`), that no stop is under
  way while a start or a connect is (`CallState`).  `WriteState` then ties `writes` to
  the queue and the stack: one write, for the first buffer, from the moment it is queued
  until its report begins.
* Without `Listens` none of the four is true, see below.

`RpcServer_proofs` proves, for any channels, requests and bounds, from
`ServerAssumption`:

| Theorem | States |
|---|---|
| `ChannelsLiveAsLongAsConnections` | `Spec => []ChannelsAreLive` |
| `ServerEndsClean` | `Spec => []ShutdownIsClean` |

* *Channels*: `ChannelsAreLive` needs the lists of libuv (`ClosingState`: a
  closing handle is in one place of one of them) and that an answer is posted once, or
  lost and then neither posted nor sent (`AnswerState`).
* *Shutdown*: `StopInv == ~disturbed => StopState` says of every handle that is still open,
  once the owner has begun to stop, that a stop for it is to come - in `todo` or in
  `tasks` - and that the scheduler's own stop is behind all of them (`Before`).  So the
  scheduler's handle is closed last, and the round that closes it has taken the
  whole list.

`RpcChannel_proofs` proves, for any calls of the three kinds, any sets of faults
and any bounds, from `ChannelAssumption` (the kinds are disjoint, and there is at
least one connection to be made):

| Theorem | States |
|---|---|
| `DoneCalledOnce` | `Spec => []DoneOnce` |
| `RegisteredOnce` | `Spec => []OneRegistration` |
| `RegistrationStays` | `Spec => StaysRegistered` |
| `ControllersLive` | `Spec => []NoDangling` |
| `SyncCallsAreAnswered` | `Spec => []SyncIsAnswered` |

* `ChannelInv` holds whatever the faults.  `LoopState`: while `on_close` holds
  `mutex_requests_` the requests stay, and `todo` is what is left of them.
  `RequestState` gives `ec_` of a registered call: 0, or the mark, which is off
  only while the loop's thread processes a notification for it, or for good when
  its send has failed.  Hence `process_response` erases every call it finds, and
  no registration but one whose send has failed.  `DoneState` and `MarkState` draw
  the conclusions for done callbacks and for registrations before the first
  notification.  `SentState` says that a request that was not sent is nowhere on its
  way, so that only `on_close` tells its call.  `ControllerState` is about the accesses:
  a controller that was deleted belongs to a call in `early`, or to one that has
  returned and is not `Pending`; the loop's thread accesses pending calls only, and so
  does `Insert`, so that `dangling \subseteq early` follows for any faults.
* `SteadyInv` adds what holds in behaviours where the connection lasts, requests
  serialise and no wait ends by a timeout or by chance (`Steady`; notifications, a
  silent server, a full send queue and responses that do not deserialise are
  included): the connection stays (`ConnState`), no call is `early` (`EarlyKept`), and a
  synchronous call's request and answer are in one place while its caller is not
  yet waiting or waits with the controller unlocked (`AnswerState`).  That
  `call_method` locks the controller before it sends is what this needs: `notify`
  cannot come between the send and the wait.

TLC has checked each of these invariants on the instances of the runs (that of
MessageStream with 2 messages on a connection), and those of TcpConnection and
RpcChannel on larger ones.

### What is only model-checked

* All liveness properties: their fairness and `ENABLED` are out of the prover's reach.

Every safety property and every refinement that a passing run checks is also a theorem.

## Disagreements

Four runs are expected to find a violation; each is a disagreement between the
code and what its comments, notes or tests say.

1. `SchedSendClosed`: `post()` tests `init_`, then pushes, then calls
   `uv_async_send`; `on_stop`, `on_close` and `uv_loop_close` may all happen in
   between, and the call reaches a closed loop.
2. `ConnFailed`: when a connect fails, `on_connect` stops the connection, and the
   close callback reads `handle_.data`, which was never set.
3. `RpcTimeout`: the synchronous branch of `call_method` declares a second `ret`,
   so a timeout returns 0, and the request stays in `requests_` although the
   caller deletes its controller.  The same happens to what `send_packet` returns there,
   also on a live connection when the request does not serialise.
4. `StreamIdle`: `on_read` takes every `nread <= 0` for an error, so the `nread = 0`
   of a read that found nothing closes a connection whose last burst exactly filled
   the buffer, instead of leaving it to receive more.

Further behaviours of the code, met while modelling, without a run of their own;
the passing runs leave them out by the assumption named:

* When a post follows or overlaps a `stop()`, a task pushed after the batch with
  `on_stop` is left in `queue_task_`, and the next `init()` and `run()` find it
  there without a wake-up (`NothingStranded` and `NoLostWakeup` are stated for
  `~late`).
* `close_all()` and `notify_all()` iterate over `channels_` without a lock while the
  loop's thread inserts and erases: a data race (`ShutdownIsClean` is stated for
  `~disturbed`).
* A client accepted between `close_all()` and the close of the server is closed by
  nobody: its handle is still open when the loop ends, and `uv_loop_close` fails
  (`ShutdownIsClean` is stated for `~disturbed`).
* An answer or a notification is discarded when the send queue of its connection is
  full or when it does not serialise; client and service are not told, and a client
  without a timeout waits until the connection closes (`CallIsAnswered` and
  `NotificationIsSent` excuse what is in `dropped`).
* Close callbacks come last in, first out.  When the channels, the server and the
  scheduler are closed in one batch, as `note.txt` item 5 advises, the server's
  close callback comes *before* those of its channels, and the scheduler's first;
  the loop still serves the whole round before it returns.
* An accepted channel is never destroyed, since it holds a pointer to itself
  (`pif_`, set by `set_shared`); a late `done()` therefore finds its channel.
* `stop()` before the connect callback: the close cancels the connect, `on_connect`
  sets `connected_` again and stops a second time, so the close callback is called
  twice (`CallbacksInOrder` is checked without the fault `stop_connecting`).
* When the application restarts the connection in the first of these two close
  callbacks and sends at once, the second close finds the new connection:
  `on_close` clears `send_buf_` while a write is in flight, and the next `send`
  uses `write_req_` again.  Hence `OneWriteInFlight` and `QueueMoves` (exactly one
  write for a queue that is not empty) are stated for `Listens`.  It takes a
  connection with `data` set, a second whose connect is stopped and a third, more
  than `Conn` makes: the attempt to prove the two without the hypothesis failed at
  this step, and TLC then found the behaviour with `MaxStarts = 3`.
* With a timeout, a spurious wake-up, a request that does not serialise, or a close
  while a synchronous call is between its insertion and its return, the loop, or the
  scan for a registration, may access a deleted controller (`NoDangling` says that these
  are the only ones, and that there are none on a `Steady` channel).
* An asynchronous call whose send fails may be answered by `on_close` before it is
  removed: the caller gets an error and the done callback as well.
* While a notification is delivered, its registration is not marked, and a second
  one for the same service is accepted (`OneRegistration` is stated for the time
  before the first notification).
* `on_close` keeps `recv_buf_`: after a restart, what a cut message or a wrong header
  left in the buffer is parsed in front of the new bytes (`InSync` and `NoFalseStop`
  are stated for `~stale`).
* `ensure_writable` gives up, and does not move anything, when the readable bytes and
  the request exceed `MaxSize`, although some of the space could be had; `on_alloc`
  ignores the result, reads into what is left, and when that is nothing the
  connection is closed (`NoFalseStop` admits it for messages longer than
  `MaxSize - initialSize + 1`).
* `move_readable_data` copies overlapping regions with `memcpy` (`IsQueue` and `InSync`
  are stated for `~garbled`).
* `stop()` and then `start()` in one callback of a timer, signal or server, or a
  `start()` posted across a `stop()`, initialises the handle while libuv is closing it;
  so do overlapping `start()` calls of a signal or server whose first start fails
  (`NeverReinitialised` says that nothing but such a hasty start does).
* Two workers of a pool may begin their tasks in another order than that of `append()`
  (`BegunInOrder` bounds by how much).

## What is left out

* libuv beyond what the modules say of it; errors of `uv_async_init`,
  `uv_tcp_init` and the like at initialisation.
* Time.  A timer or a timeout may expire at any moment after its start.
* The encoding of messages (`Dispatcher`, msgpack) and that it fits into the one
  block of the send buffer, which the code does not check (a FIXME in
  `Dispatcher.cpp`).  The contents of requests, and with them `find_svc`, which takes
  a service whose name only begins like the one asked for.
* A header whose lengths add up to 65536 or more: `pack_len` is a `uint16_t` and wraps.
* `IOBuf::swap` and `shrink`, which nothing calls.
* Calls made by a done callback of an RPC call: an asynchronous one is a call like
  any other, except in `on_close`, where `connected_` is already `FALSE` and
  `call_method` returns at once; a synchronous one blocks the loop until its timeout,
  and `note.txt` item 10 forbids it.
* `stop()` of a thread pool called by one of its tasks: the thread would join
  itself, and `std::thread::join` throws.
* The 32-bit wrap of `RpcChannel`'s `id_`.
* In RpcServer: `start()` and `on_launch`, which precede its initial state, an
  `uv_accept` that fails (it leads to the close through an unset pointer that
  TcpConnection shows, run `ConnFailed`), and the close callback of the server (see
  LoopHandle).
* `logger`, the tests and the example services: output and usage.

## Plan

1. *Model more.*
   * `find_svc` as an operator, against equality of names.
   * The 16-bit `pack_len`.
   * In RpcServer, the order of the close callbacks as a property of its own.
2. *Prove more.*
   * `TcpConnection`: what holds when a connect in flight is stopped, besides the types
     and the order of the buffers.
