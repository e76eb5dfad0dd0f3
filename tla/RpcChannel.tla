----------------------------- MODULE RpcChannel -----------------------------
(***************************************************************************)
(* The client side of src/RpcChannel.cpp with src/RpcController.cpp: the   *)
(* calls of several threads against the loop's thread, which processes     *)
(* responses and the close of the connection.                              *)
(*                                                                         *)
(* A call has a thread, a request id and a controller of its own, so one   *)
(* value stands for the three: requests_, which maps ids to controllers,   *)
(* is a set of calls.  The connection (TcpConnection) is reduced to        *)
(* whether it is connected, the buffers posted to on_send, and the bytes   *)
(* in transit; the application deletes the controllers as                  *)
(* test/rpc_client.cpp does: when a synchronous call returns, when a call  *)
(* fails, and in the done callback of an asynchronous call.                *)
(***************************************************************************)
EXTENDS Naturals, Sequences

CONSTANTS
  SyncCalls, AsyncCalls,   \* calls without and with a done callback
  NotifyCalls,             \* registrations for the notifications of a service
  FaultSets,               \* the faults that may happen together, see AllFaults
  FaultyCalls,             \* bound: the calls made when faults may happen
  MaxNotes,                \* bound: notifications the server sends, then
  MaxConns,                \* bound: connections then; without faults one
  NoCall

Calls == SyncCalls \cup AsyncCalls \cup NotifyCalls

\* close: the connection is lost or stopped; timeout: wait_for's 3 seconds
\* pass; spurious: wait_for returns without a notification; silent: the server
\* does not answer; full: the connection's send queue is full; pack: a request does
\* not serialise; parse: a response does not deserialise.
AllFaults == {"close", "timeout", "spurious", "silent", "full", "pack", "parse"}

ASSUME ChannelAssumption ==
  /\ SyncCalls \cap AsyncCalls = {}
  /\ NotifyCalls \cap (SyncCalls \cup AsyncCalls) = {}
  /\ NoCall \notin Calls
  /\ FaultSets \subseteq SUBSET AllFaults
  /\ FaultyCalls \subseteq Calls
  /\ MaxNotes \in Nat /\ MaxConns \in Nat \ {0}

VARIABLES
  conn,        \* "down", "up" (connected_), "stopped" (on_close is to come)
  requests_,   \* the calls registered
  mutex_requests_,  \* is the mutex held by on_close?
  pc,          \* where each call is in call_method
  ret,         \* what call_method returned: "none", "ok", "error"
  ec,          \* each controller's ec_: "0", "mark", or an error
  mutex_,      \* each controller's mutex_: "free", "caller", "loop"
  alive,       \* the controllers not deleted
  outbox,      \* on_send tasks posted and not yet executed
  server,      \* the calls the server has received and not answered
  inbox,       \* the responses on their way, in order
  at, ctrl,    \* where the loop's thread is, and the controller it works on
  code, mark,  \* process_response's code and bnotify
  todo,        \* the requests on_close has still to process
  notes, conns,     \* counters for the bounds
  answer,      \* history: what the server answered
  dones,       \* history: how often each done callback was called
  dangling,    \* history: the controllers accessed after they were deleted
  early,       \* history: the calls that returned before they were told, or were
               \* told before they returned; see Return and call_done
  faults       \* the faults that may happen in this behaviour

connVars == <<conn, conns, outbox, server, inbox, notes, answer>>
reqVars == <<requests_, mutex_requests_>>
callVars == <<pc, ret>>
ctrlVars == <<ec, mutex_, alive, dangling, early>>
loopVars == <<at, ctrl, code, mark, todo, dones>>
vars == <<connVars, reqVars, callVars, ctrlVars, loopVars, faults>>

Errors == {"failed", "network", "response"}

Init ==
  /\ conn = "down" /\ conns = 0
  /\ requests_ = {} /\ mutex_requests_ = FALSE
  /\ pc = [c \in Calls |-> "idle"]
  /\ ret = [c \in Calls |-> "none"]
  /\ ec = [c \in Calls |-> "0"]
  /\ mutex_ = [c \in Calls |-> "free"]
  /\ alive = Calls
  /\ outbox = <<>> /\ server = {} /\ inbox = <<>>
  /\ at = "idle" /\ ctrl = NoCall /\ code = "0" /\ mark = FALSE /\ todo = {}
  /\ notes = 0
  /\ answer = [c \in Calls |-> "none"]
  /\ dones = [c \in Calls |-> 0]
  /\ dangling = {} /\ early = {}
  /\ faults \in FaultSets

\* The controllers in C are accessed.
Access(C) == dangling' = dangling \cup (C \ alive)

\* The loop's thread has yet to tell the call, or is about it.
Pending(c) ==
  \/ c \in requests_ /\ (mutex_requests_ => c \in todo)
  \/ c = ctrl /\ at \in {"set", "tell", "unlock", "signal", "restore"}

-----------------------------------------------------------------------------
(* call_method, in the thread of the call c.                               *)

Goto(c, l) == pc' = [pc EXCEPT ![c] = l] /\ UNCHANGED <<ret, alive, early>>

\* call_method returns; the application deletes the controller of a
\* synchronous call, and of a call that failed.
Return(c, r) ==
  /\ pc' = [pc EXCEPT ![c] = "returned"]
  /\ ret' = [ret EXCEPT ![c] = r]
  /\ alive' = IF c \in SyncCalls \/ r = "error" THEN alive \ {c} ELSE alive
  /\ early' = IF c \in SyncCalls /\ Pending(c) THEN early \cup {c} ELSE early

\* The tests of the arguments and the connection; the mark of a registration.
Begin(c) ==
  /\ pc[c] = "idle"
  /\ faults # {} => c \in FaultyCalls
  /\ IF conn = "up"
       THEN /\ ec' = [ec EXCEPT ![c] = IF c \in NotifyCalls THEN "mark" ELSE "0"]
            /\ Goto(c, "insert")
       ELSE Return(c, "error") /\ UNCHANGED ec
  /\ UNCHANGED <<connVars, reqVars, mutex_, dangling, loopVars, faults>>

RepeatedNever(c) == FALSE     \* mutant
Repeated(c) ==
  c \in NotifyCalls /\ \E d \in requests_ \cap NotifyCalls : ec[d] # "0"

\* Under mutex_requests_: a second registration for the service is refused,
\* another call is entered in requests_.
Insert(c) ==
  /\ pc[c] = "insert"
  /\ ~mutex_requests_
  /\ Access(IF c \in NotifyCalls THEN requests_ ELSE {})
  /\ IF Repeated(c)
       THEN Return(c, "error") /\ UNCHANGED requests_
       ELSE /\ requests_' = requests_ \cup {c}
            /\ Goto(c, IF c \in SyncCalls THEN "lock" ELSE "send")
  /\ UNCHANGED <<connVars, mutex_requests_, ec, mutex_, loopVars, faults>>

\* Mutant: the controller is not locked until wait() is called.
LockNothing(c) ==
  /\ pc[c] = "lock"
  /\ mutex_[c] = "free"
  /\ Goto(c, "send")
  /\ UNCHANGED <<connVars, reqVars, ec, mutex_, dangling, loopVars, faults>>

\* ctrl->done() and ctrl->lock(), of a synchronous call.
Lock(c) ==
  /\ pc[c] = "lock"
  /\ mutex_[c] = "free"
  /\ Access({c})
  /\ mutex_' = [mutex_ EXCEPT ![c] = "caller"]
  /\ Goto(c, "send")
  /\ UNCHANGED <<connVars, reqVars, ec, loopVars, faults>>

\* send_packet (before it, ctrl->done() of a call with a callback): it fails without a
\* connection and for a request that does not serialise.  The failure of a
\* synchronous call is assigned to the inner ret: the controller is unlocked,
\* call_method returns 0 and the request stays.
Send(c) ==
  /\ pc[c] = "send"
  /\ Access({c})
  /\ \/ /\ conn = "up"
        /\ outbox' = Append(outbox, c)
        /\ IF c \in SyncCalls THEN Goto(c, "enter") ELSE Return(c, "ok")
        /\ UNCHANGED mutex_
     \/ /\ conn # "up" \/ "pack" \in faults
        /\ IF c \in SyncCalls THEN Return(c, "ok") ELSE Goto(c, "fail")
        /\ mutex_' = [mutex_ EXCEPT ![c] = "free"]
        /\ UNCHANGED outbox
  /\ UNCHANGED <<conn, conns, server, inbox, notes, answer, reqVars, ec,
                 loopVars, faults>>

\* ctrl->wait(): wait_for releases the mutex and waits, in one step.
Wait(c) ==
  /\ pc[c] = "enter"
  /\ mutex_' = [mutex_ EXCEPT ![c] = "free"]
  /\ Goto(c, "wait")
  /\ UNCHANGED <<connVars, reqVars, ec, dangling, loopVars, faults>>

\* wait_for returns, and takes the mutex again.  The result of a timeout, too,
\* goes to the inner ret.
Timeout(c) ==
  /\ pc[c] = "wait"
  /\ faults \cap {"timeout", "spurious"} # {}
  /\ Goto(c, "woken")
  /\ UNCHANGED <<connVars, reqVars, ec, mutex_, dangling, loopVars, faults>>

Woken(c) ==
  /\ pc[c] = "woken"
  /\ mutex_[c] = "free"
  /\ Return(c, "ok")
  /\ UNCHANGED <<connVars, reqVars, ec, mutex_, dangling, loopVars, faults>>

\* ec(0) and text(""), then remove_request, after a failed send.
Fail(c) ==
  /\ pc[c] = "fail"
  /\ ec' = [ec EXCEPT ![c] = "0"]
  /\ Access({c})
  /\ Goto(c, "remove")
  /\ UNCHANGED <<connVars, reqVars, mutex_, loopVars, faults>>

Remove(c) ==
  /\ pc[c] = "remove"
  /\ ~mutex_requests_
  /\ Access(requests_ \cap {c})
  /\ requests_' = IF ec[c] = "0" THEN requests_ \ {c} ELSE requests_
  /\ Return(c, "error")
  /\ UNCHANGED <<connVars, mutex_requests_, ec, mutex_, loopVars, faults>>

CallStep(c) ==
  \/ Insert(c) \/ Lock(c) \/ Send(c) \/ Wait(c) \/ Woken(c)
  \/ Fail(c) \/ Remove(c)

-----------------------------------------------------------------------------
(* The connection and the server.                                          *)

Connect ==
  /\ conn = "down"
  /\ conns < (IF faults = {} THEN 1 ELSE MaxConns)
  /\ conn' = "up"
  /\ conns' = conns + 1
  /\ UNCHANGED <<outbox, server, inbox, notes, answer, reqVars, callVars,
                 ctrlVars, loopVars, faults>>

\* TcpConnection::on_stop: by stop(), by the end of the stream or an error.
Stop ==
  /\ "close" \in faults
  /\ conn = "up"
  /\ at = "idle"
  /\ conn' = "stopped"
  /\ server' = {}
  /\ inbox' = <<>>
  /\ UNCHANGED <<conns, outbox, notes, answer, reqVars, callVars, ctrlVars,
                 loopVars, faults>>

\* TcpConnection::on_send: the request goes to the server, unless the
\* connection is closed or its queue full (RpcChannelImp::on_send ignores it).
on_send ==
  /\ at = "idle"
  /\ outbox # <<>>
  /\ outbox' = Tail(outbox)
  /\ IF conn = "up"
       THEN \/ server' = server \cup {Head(outbox)}
            \/ "full" \in faults /\ UNCHANGED server
       ELSE UNCHANGED server
  /\ UNCHANGED <<conn, conns, inbox, notes, answer, reqVars, callVars,
                 ctrlVars, loopVars, faults>>

\* The server answers a call once, and sends notifications to a registered
\* one as it likes.
Answer(c) ==
  /\ c \in server
  /\ \E r \in {"0", "failed"} :
       /\ inbox' = Append(inbox, [call |-> c, code |-> r])
       /\ answer' = [answer EXCEPT ![c] = r]
  /\ IF c \in NotifyCalls
       THEN /\ faults # {} /\ notes < MaxNotes
            /\ notes' = notes + 1
            /\ UNCHANGED server
       ELSE server' = server \ {c} /\ UNCHANGED notes
  /\ UNCHANGED <<conn, conns, outbox, reqVars, callVars, ctrlVars, loopVars, faults>>

-----------------------------------------------------------------------------
(* process_response, in the loop's thread.                                 *)

\* Mutants: remove_request never erases, or erases registrations as well.
erase_none(c) == UNCHANGED requests_
erase_all(c) == requests_' = requests_ \ {c}

\* Not deleted for notify: a marked request stays.
erase(c) == requests_' = IF ec[c] = "0" THEN requests_ \ {c} ELSE requests_

\* remove_request, and bnotify.
process_response ==
  /\ at = "idle"
  /\ conn = "up"
  /\ inbox # <<>>
  /\ ~mutex_requests_
  /\ LET c == Head(inbox).call
     IN IF c \in requests_
          THEN /\ erase(c)
               /\ Access({c})
               /\ at' = "set" /\ ctrl' = c
               /\ code' = Head(inbox).code
               /\ mark' = (ec[c] # "0")
          ELSE UNCHANGED <<requests_, dangling, at, ctrl, code, mark>>
  /\ inbox' = Tail(inbox)
  /\ UNCHANGED <<conn, conns, outbox, server, notes, answer, mutex_requests_,
                 callVars, ec, mutex_, alive, early, todo, dones, faults>>

\* Mutant: the code of the response is not stored.
set_nothing ==
  /\ at = "set"
  /\ Access({ctrl})
  /\ at' = "tell"
  /\ UNCHANGED <<ec, connVars, reqVars, callVars, mutex_, alive, early, ctrl, code,
                 mark, todo, dones, faults>>

\* ctrl->ec(code), or _ERESPONSE if the response does not deserialise; for a call
\* without a done callback, response and code are what it will find when it wakes up.
set_code ==
  /\ at = "set"
  /\ Access({ctrl})
  /\ \/ ec' = [ec EXCEPT ![ctrl] = code]
     \/ "parse" \in faults /\ ec' = [ec EXCEPT ![ctrl] = "response"]
  /\ at' = "tell"
  /\ UNCHANGED <<connVars, reqVars, callVars, mutex_, alive, early, ctrl, code, mark,
                 todo, dones, faults>>

\* Mutant: the mark is put back whatever the call was.
ToldMark == IF mutex_requests_ THEN "next" ELSE "restore"

\* Where the loop's thread goes on when the call has been told.
Told == IF mutex_requests_ THEN "next" ELSE IF mark THEN "restore" ELSE "idle"

Done == [dones EXCEPT ![ctrl] = @ + 1]

\* done(); the callback of an asynchronous call deletes the controller.
call_done ==
  /\ at = "tell"
  /\ ctrl \notin SyncCalls
  /\ Access({ctrl})
  /\ dones' = Done
  /\ alive' = IF ctrl \in AsyncCalls THEN alive \ {ctrl} ELSE alive
  /\ early' = IF ctrl \in AsyncCalls /\ pc[ctrl] # "returned"
                THEN early \cup {ctrl} ELSE early
  /\ at' = Told
  /\ UNCHANGED <<connVars, reqVars, callVars, ec, mutex_, ctrl, code, mark,
                 todo, faults>>

\* RpcControllerImp::notify: lock, unlock, notify_one.
notify_lock ==
  /\ at = "tell"
  /\ ctrl \in SyncCalls
  /\ mutex_[ctrl] = "free"
  /\ Access({ctrl})
  /\ mutex_' = [mutex_ EXCEPT ![ctrl] = "loop"]
  /\ at' = "unlock"
  /\ UNCHANGED <<connVars, reqVars, callVars, ec, alive, early, ctrl, code, mark,
                 todo, dones, faults>>

notify_unlock ==
  /\ at = "unlock"
  /\ Access({ctrl})
  /\ mutex_' = [mutex_ EXCEPT ![ctrl] = "free"]
  /\ at' = "signal"
  /\ UNCHANGED <<connVars, reqVars, callVars, ec, alive, early, ctrl, code, mark,
                 todo, dones, faults>>

notify_one ==
  /\ at = "signal"
  /\ Access({ctrl})
  /\ IF pc[ctrl] = "wait" THEN pc' = [pc EXCEPT ![ctrl] = "woken"] ELSE UNCHANGED pc
  /\ at' = Told
  /\ UNCHANGED <<connVars, reqVars, ret, ec, mutex_, alive, early, ctrl, code, mark,
                 todo, dones, faults>>

\* bnotify: the mark is put back.
restore_mark ==
  /\ at = "restore"
  /\ Access({ctrl})
  /\ ec' = [ec EXCEPT ![ctrl] = "mark"]
  /\ at' = "idle"
  /\ UNCHANGED <<connVars, reqVars, callVars, mutex_, alive, early, ctrl, code, mark,
                 todo, dones, faults>>

-----------------------------------------------------------------------------
(* on_close, in the loop's thread, under mutex_requests_.                  *)

\* Mutant: on_close forgets the done callbacks.
RemainingWait == requests_ \cap SyncCalls
Remaining == requests_

close_begin ==
  /\ at = "idle"
  /\ conn = "stopped"
  /\ mutex_requests_' = TRUE
  /\ todo' = Remaining
  /\ at' = "next"
  /\ UNCHANGED <<connVars, requests_, callVars, ctrlVars, ctrl, code, mark,
                 dones, faults>>

\* The next request gets _ENETWORK.
close_next ==
  /\ at = "next"
  /\ \E c \in todo :
       /\ todo' = todo \ {c}
       /\ ctrl' = c
       /\ Access({c})
       /\ ec' = [ec EXCEPT ![c] = "network"]
  /\ at' = "tell"
  /\ UNCHANGED <<connVars, reqVars, callVars, mutex_, alive, early, code, mark, dones, faults>>

\* requests_.clear(), and the connection is closed.
close_end ==
  /\ at = "next"
  /\ todo = {}
  /\ requests_' = {}
  /\ mutex_requests_' = FALSE
  /\ conn' = "down"
  /\ at' = "idle"
  /\ UNCHANGED <<conns, outbox, server, inbox, notes, answer, callVars,
                 ctrlVars, ctrl, code, mark, todo, dones, faults>>

-----------------------------------------------------------------------------

LoopStep ==
  \/ on_send \/ process_response \/ set_code
  \/ call_done \/ notify_lock \/ notify_unlock \/ notify_one \/ restore_mark
  \/ close_begin \/ close_next \/ close_end

Next ==
  \/ LoopStep \/ Connect \/ Stop
  \/ \E c \in Calls : Begin(c) \/ CallStep(c) \/ Timeout(c) \/ Answer(c)

Spec == Init /\ [][Next]_vars

\* The loop's thread and the callers run; the server answers what it receives
\* unless it may be silent.  Only notifications are left to its pleasure.
FairSpec ==
  /\ Spec
  /\ WF_vars(LoopStep)
  /\ \A c \in Calls : WF_vars(CallStep(c))
  /\ \A c \in SyncCalls \cup AsyncCalls :
       WF_vars("silent" \notin faults /\ Answer(c))
  /\ \A c \in SyncCalls : WF_vars("timeout" \in faults /\ Timeout(c))

-----------------------------------------------------------------------------
(* Properties.                                                             *)

\* Every variable holds a value of its type; a mutex is held only where the
\* code holds it.
TypeOK ==
  /\ conn \in {"down", "up", "stopped"} /\ faults \in FaultSets
  /\ requests_ \subseteq Calls /\ alive \subseteq Calls
  /\ server \subseteq Calls /\ todo \subseteq Calls
  /\ mutex_requests_ \in BOOLEAN /\ mark \in BOOLEAN
  /\ dangling \subseteq Calls /\ early \subseteq Calls
  /\ pc \in [Calls -> {"idle", "insert", "lock", "send", "enter", "wait",
                       "woken", "fail", "remove", "returned"}]
  /\ ret \in [Calls -> {"none", "ok", "error"}]
  /\ ec \in [Calls -> {"0", "mark"} \cup Errors]
  /\ mutex_ \in [Calls -> {"free", "caller", "loop"}]
  /\ \A c \in Calls :
       /\ mutex_[c] = "caller" => pc[c] \in {"send", "enter"}
       /\ mutex_[c] = "loop" => at = "unlock" /\ ctrl = c
  /\ outbox \in Seq(Calls)
  /\ inbox \in Seq([call : Calls, code : {"0", "failed"}])
  /\ at \in {"idle", "set", "tell", "unlock", "signal", "restore", "next"}
  /\ ctrl \in Calls \cup {NoCall}
  /\ code \in {"0", "failed"}
  /\ answer \in [Calls -> {"none", "0", "failed"}]
  /\ dones \in [Calls -> Nat] /\ notes \in 0 .. MaxNotes /\ conns \in 0 .. MaxConns

\* Does the connection last, every request serialise, and only a notification end a
\* wait?
Steady == faults \cap {"close", "timeout", "spurious", "pack"} = {}

\* Only the controller of a call that returned before it was told, or was told
\* before it returned, is accessed after it has been deleted, and none is as long
\* as the channel is steady (process_response, on_close, notify and call_method
\* against the deletes of the application).
NoDangling == dangling \subseteq early /\ (Steady => dangling = {})

\* A synchronous call that returns 0 has the answer the server gave to it, if that
\* deserialised (call_method, the branch of the calls without a done callback).
SyncHasAnswer ==
  \A c \in SyncCalls :
    (pc[c] = "returned" /\ ret[c] = "ok") =>
      /\ answer[c] # "none"
      /\ ec[c] = answer[c] \/ ("parse" \in faults /\ ec[c] = "response")

\* So it is on a steady channel (wait, notify and the controller's mutex, which
\* call_method holds from before it sends).
SyncIsAnswered == Steady => SyncHasAnswer

\* The done callback of an asynchronous call is called once at most, by
\* process_response or by on_close; the variables keep their types (TypeOK).
DoneOnce ==
  TypeOK /\ \A c \in AsyncCalls : dones[c] <= 1

\* At most one registration per service, but for one whose send has failed
\* and is about to be removed (call_method: "already have notify in same
\* service"), as long as there are no notifications: one takes the mark that
\* Repeated looks for off the registration while it is processed.
OneRegistration ==
  notes = 0 =>
  \A c, d \in {r \in NotifyCalls \cap requests_ : pc[r] # "remove"} : c = d

\* A registration is given up only when the connection closes or its own call
\* fails (remove_request: "not delete for notify").
StaysRegistered ==
  [][\A c \in NotifyCalls :
       c \in requests_ => \/ c \in requests_'
                          \/ at = "next"
                          \/ pc[c] = "remove"]_vars

\* Does every request that was sent reach the server, and its answer the caller?
Lossless == faults \cap {"silent", "full", "close"} = {}

\* Every call that was begun returns, whatever the loop's thread does with the
\* mutexes: none waits for ever (call_method, wait, notify, on_close); if the
\* answer may be missing, because the wait ends with a timeout.  What follows an
\* access to a deleted controller is undefined.
CallsReturn ==
  \A c \in Calls :
    (pc[c] # "idle" /\ (Lossless \/ "timeout" \in faults))
      ~> (pc[c] = "returned" \/ dangling # {})

\* An asynchronous call that was accepted gets its done callback: by the
\* response if requests and responses are not lost, else by the close of the
\* connection (process_response, on_close).
AsyncIsAnswered ==
  \A c \in AsyncCalls :
    (/\ ret[c] = "ok"
     /\ Lossless \/ conn = "stopped")
      ~> (dones[c] > 0 \/ dangling # {})

=============================================================================
