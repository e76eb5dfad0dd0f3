-------------------------- MODULE RpcChannel_proofs --------------------------
(***************************************************************************)
(* Theorems about the client side of a channel, for any calls and bounds:  *)
(* its types and the done callbacks, which are called once, the            *)
(* registrations for notifications, the lives of the controllers and, on a *)
(* steady channel, the answers of synchronous calls.                       *)
(***************************************************************************)
EXTENDS RpcChannel, SequenceLemmas

-----------------------------------------------------------------------------
(* The invariant.                                                          *)

\* The loop's thread works on the response to the call c.
Processing(c) == ~mutex_requests_ /\ at # "idle" /\ ctrl = c

\* on_close holds mutex_requests_ while it goes through the requests.
LoopState ==
  /\ mutex_requests_ => at \in {"next", "tell", "unlock", "signal"}
  /\ at = "next" => mutex_requests_
  /\ todo \subseteq requests_
  /\ ~mutex_requests_ => todo = {}
  /\ at \notin {"idle", "next"} => ctrl \in Calls
  /\ at \in {"unlock", "signal"} => ctrl \in SyncCalls
  /\ mutex_requests_ /\ at = "tell" => ctrl \notin todo
  /\ ~mutex_requests_ /\ at = "restore" => mark

\* Only synchronous calls lock their controller and wait.
CallState ==
  \A c \in Calls :
    pc[c] \in {"lock", "enter", "wait", "woken"} \/ mutex_[c] = "caller" =>
      c \in SyncCalls

\* A call is registered once, with ec_ 0 or the mark; the mark is off while a
\* response to it is processed, and for good when its send has failed.
RequestState ==
  \A c \in Calls :
    /\ pc[c] \in {"idle", "insert"} => c \notin requests_ /\ ctrl # c
    /\ pc[c] = "insert" => ec[c] = (IF c \in NotifyCalls THEN "mark" ELSE "0")
    /\ Processing(c) /\ c \in requests_ => mark
    /\ Processing(c) /\ mark => c \in NotifyCalls
    /\ c \in requests_ \ NotifyCalls /\ ~mutex_requests_ => ec[c] = "0"
    /\ c \in requests_ \cap NotifyCalls /\ ~mutex_requests_ =>
         pc[c] = "remove" \/ ec[c] # "0" \/ (Processing(c) /\ at # "set")

\* An asynchronous call that was told is no longer registered.
DoneState ==
  \A c \in AsyncCalls :
    /\ dones[c] <= 1
    /\ dones[c] > 0 => /\ pc[c] \notin {"idle", "insert"}
                       /\ c \in requests_ => mutex_requests_ /\ c \notin todo
                       /\ ~(ctrl = c /\ at \in {"set", "tell"})

\* Without notifications a registration has the mark until its send fails.
MarkState ==
  notes = 0 =>
    /\ \A i \in DOMAIN inbox : inbox[i].call \notin NotifyCalls
    /\ ~mutex_requests_ /\ at # "idle" => ctrl \notin NotifyCalls
    /\ \A c \in NotifyCalls \cap requests_ :
         /\ pc[c] # "remove" => ec[c] # "0"
         /\ pc[c] = "remove" /\ ~mutex_requests_ => ec[c] = "0"

\* A request that was not sent is neither with the server nor answered, so that only
\* on_close tells its call, and remove_request finds it with ec_ 0.
SentState ==
  \A c \in Calls :
    /\ pc[c] \in {"idle", "insert", "lock", "send", "fail", "remove"} =>
         /\ ~In(outbox, c) /\ c \notin server
         /\ \A i \in DOMAIN inbox : inbox[i].call # c
         /\ ~Processing(c)
    /\ pc[c] = "remove" /\ c \in requests_ /\ ~mutex_requests_ => ec[c] = "0"

\* A controller that was deleted in time is that of a call that has returned and
\* been told.
ControllerState ==
  /\ dangling \subseteq early
  /\ \A c \in Calls \ alive : c \in early \/ (pc[c] = "returned" /\ ~Pending(c))

ChannelInv ==
  /\ TypeOK /\ CallState /\ LoopState /\ RequestState /\ DoneState
  /\ MarkState /\ OneRegistration /\ SentState /\ ControllerState

\* Steady: the connection stays, so that no send() fails (a full queue tells the
\* callback only).
ConnState ==
  /\ conn \in {"down", "up"} /\ ~mutex_requests_
  /\ \A c \in Calls : /\ pc[c] \notin {"fail", "remove"}
                      /\ pc[c] \notin {"idle", "returned"} => conn = "up"

\* What the caller finds: the answer of the server, or that it did not deserialise.
HasAnswer(c) == ec[c] = answer[c] \/ ("parse" \in faults /\ ec[c] = "response")

\* A request is sent once and answered once, while its caller has still to wait
\* or waits with the controller unlocked.
AnswerState ==
  \A c \in SyncCalls :
    /\ c \in requests_ => pc[c] \in {"lock", "send", "enter", "wait"}
    /\ pc[c] \in {"send", "enter"} => mutex_[c] = "caller"
    /\ Once(outbox, c)
    /\ pc[c] \in {"idle", "insert", "lock", "send"} =>
         ~In(outbox, c) /\ c \notin server /\ answer[c] = "none"
    /\ In(outbox, c) \/ answer[c] # "none" => c \notin server
    /\ In(outbox, c) => answer[c] = "none"
    /\ \A i \in DOMAIN inbox : inbox[i].call = c => inbox[i].code = answer[c]
    /\ Processing(c) => /\ answer[c] = code
                        /\ pc[c] \in {"enter", "wait"}
                        /\ at # "set" => HasAnswer(c)
                        /\ at \in {"unlock", "signal"} => pc[c] = "wait"
    /\ pc[c] = "woken" \/ (pc[c] = "returned" /\ ret[c] = "ok") =>
         answer[c] # "none" /\ HasAnswer(c)

SteadyInv == Steady => ConnState /\ early = {} /\ AnswerState

-----------------------------------------------------------------------------
(* The types.                                                              *)

\* The parts of TypeOK: the connection, the calls, the loop's thread and the
\* controllers' mutexes.
ConnTypes ==
  /\ conn \in {"down", "up", "stopped"} /\ faults \in FaultSets
  /\ server \subseteq Calls
  /\ outbox \in Seq(Calls)
  /\ inbox \in Seq([call : Calls, code : {"0", "failed"}])
  /\ answer \in [Calls -> {"none", "0", "failed"}]
  /\ notes \in 0 .. MaxNotes /\ conns \in 0 .. MaxConns

CallTypes ==
  /\ requests_ \subseteq Calls /\ alive \subseteq Calls
  /\ mutex_requests_ \in BOOLEAN /\ dangling \subseteq Calls /\ early \subseteq Calls
  /\ pc \in [Calls -> {"idle", "insert", "lock", "send", "enter", "wait",
                       "woken", "fail", "remove", "returned"}]
  /\ ret \in [Calls -> {"none", "ok", "error"}]
  /\ ec \in [Calls -> {"0", "mark"} \cup Errors]

LoopTypes ==
  /\ todo \subseteq Calls /\ mark \in BOOLEAN
  /\ at \in {"idle", "set", "tell", "unlock", "signal", "restore", "next"}
  /\ ctrl \in Calls \cup {NoCall}
  /\ code \in {"0", "failed"}
  /\ dones \in [Calls -> Nat]

LockTypes ==
  /\ mutex_ \in [Calls -> {"free", "caller", "loop"}]
  /\ \A c \in Calls :
       /\ mutex_[c] = "caller" => pc[c] \in {"send", "enter"}
       /\ mutex_[c] = "loop" => at = "unlock" /\ ctrl = c

\* TypeOK is these four together.
LEMMA TypeParts == TypeOK <=> ConnTypes /\ CallTypes /\ LoopTypes /\ LockTypes
  BY DEF TypeOK, ConnTypes, CallTypes, LoopTypes, LockTypes

\* What set_code stores.
LEMMA CodeStored ==
  ASSUME LoopTypes, set_code
  PROVE  \E v \in {"0", "failed", "response"} : ec' = [ec EXCEPT ![ctrl] = v]
  BY DEF set_code, LoopTypes

\* The server and the network take calls and answers only from call_method.
LEMMA ConnTyped ==
  ASSUME ConnTypes, LoopTypes, [Next]_vars
  PROVE  ConnTypes'
<1> USE DEF ConnTypes
<1>1. CASE Connect
  <2>1. conns \in Nat /\ conns < MaxConns
    BY <1>1, ChannelAssumption DEF Connect
  <2> QED BY <1>1, <2>1, ChannelAssumption DEF Connect
<1>2. CASE Stop
  BY <1>2 DEF Stop
<1>3. CASE on_send
  <2>1. Tail(outbox) \in Seq(Calls) /\ Head(outbox) \in Calls
    BY <1>3, HeadTailProperties DEF on_send
  <2> QED BY <1>3, <2>1 DEF on_send
<1>4. CASE process_response
  <2>1. Tail(inbox) \in Seq([call : Calls, code : {"0", "failed"}])
    BY <1>4, HeadTailProperties DEF process_response
  <2> QED BY <1>4, <2>1 DEF process_response
<1>5. CASE close_end
  BY <1>5 DEF close_end
<1>6. ASSUME NEW c \in Calls, Send(c)
      PROVE  ConnTypes'
  <2>1. outbox' \in Seq(Calls)
    <3>1. Append(outbox, c) \in Seq(Calls)
      BY <1>6, AppendProperties
    <3> QED BY <1>6, <3>1 DEF Send
  <2> QED BY <1>6, <2>1 DEF Send
<1>7. ASSUME NEW c \in Calls, Answer(c)
      PROVE  ConnTypes'
  <2>1. PICK r \in {"0", "failed"} :
          /\ inbox' = Append(inbox, [call |-> c, code |-> r])
          /\ answer' = [answer EXCEPT ![c] = r]
    BY <1>7 DEF Answer
  <2>2. inbox' \in Seq([call : Calls, code : {"0", "failed"}])
    <3>1. [call |-> c, code |-> r] \in [call : Calls, code : {"0", "failed"}]
      OBVIOUS
    <3> QED BY <2>1, <3>1, AppendProperties
  <2>3. notes' \in 0 .. MaxNotes /\ server' \subseteq Calls
    BY <1>7, ChannelAssumption DEF Answer
  <2> QED BY <1>7, <2>1, <2>2, <2>3 DEF Answer
<1>8. CASE UNCHANGED <<connVars, faults>>
  BY <1>8 DEF connVars
<1>9. UNCHANGED <<connVars, faults>>
      \/ Connect \/ Stop \/ on_send \/ process_response \/ close_end
      \/ \E c \in Calls : Send(c) \/ Answer(c)
  BY DEF Next, LoopStep, CallStep, vars, set_code, call_done, notify_lock,
     notify_unlock, notify_one, restore_mark, close_begin, close_next, Begin,
     Insert, Lock, Wait, Woken, Fail, Remove, Timeout
<1> QED BY <1>1, <1>2, <1>3, <1>4, <1>5, <1>6, <1>7, <1>8, <1>9

\* call_method and the loop leave the calls and controllers well typed.
LEMMA CallTyped ==
  ASSUME ConnTypes, CallTypes, LoopTypes, LoopState, [Next]_vars
  PROVE  CallTypes'
<1> USE DEF CallTypes, Errors, Access, LoopState
<1>1. CASE on_send
  BY <1>1 DEF on_send, reqVars, callVars, ctrlVars
<1>2. CASE process_response
  <2>1. Head(inbox) \in [call : Calls, code : {"0", "failed"}]
    BY <1>2, HeadTailProperties DEF process_response, ConnTypes
  <2>2. requests_' \subseteq requests_ /\ dangling' \subseteq Calls
    BY <1>2, <2>1 DEF process_response, erase
  <2> QED BY <1>2, <2>2 DEF process_response, callVars
<1>3. CASE set_code
  BY <1>3, CodeStored DEF set_code, reqVars, callVars
<1>4. CASE call_done
  BY <1>4 DEF call_done, reqVars, callVars
<1>5. CASE notify_lock
  BY <1>5 DEF notify_lock, reqVars, callVars
<1>6. CASE notify_unlock
  BY <1>6 DEF notify_unlock, reqVars, callVars
<1>7. CASE notify_one
  BY <1>7 DEF notify_one, reqVars
<1>8. CASE restore_mark
  BY <1>8 DEF restore_mark, reqVars, callVars
<1>9. CASE close_begin
  BY <1>9 DEF close_begin, callVars, ctrlVars
<1>10. CASE close_next
  BY <1>10 DEF close_next, reqVars, callVars
<1>11. CASE close_end
  BY <1>11 DEF close_end, callVars, ctrlVars
<1>12. CASE Connect
  BY <1>12 DEF Connect, reqVars, callVars, ctrlVars
<1>13. CASE Stop
  BY <1>13 DEF Stop, reqVars, callVars, ctrlVars
<1>14. ASSUME NEW c \in Calls, Begin(c)
      PROVE  CallTypes'
  BY <1>14 DEF Begin, reqVars, Return, Goto
<1>15. ASSUME NEW c \in Calls, Insert(c)
      PROVE  CallTypes'
  BY <1>15 DEF Insert, Return, Goto
<1>16. ASSUME NEW c \in Calls, Lock(c)
      PROVE  CallTypes'
  BY <1>16 DEF Lock, reqVars, Goto
<1>17. ASSUME NEW c \in Calls, Send(c)
      PROVE  CallTypes'
  BY <1>17 DEF Send, reqVars, Return, Goto
<1>18. ASSUME NEW c \in Calls, Wait(c)
      PROVE  CallTypes'
  BY <1>18 DEF Wait, reqVars, Goto
<1>19. ASSUME NEW c \in Calls, Woken(c)
      PROVE  CallTypes'
  BY <1>19 DEF Woken, reqVars, Return
<1>20. ASSUME NEW c \in Calls, Fail(c)
      PROVE  CallTypes'
  BY <1>20 DEF Fail, reqVars, Goto
<1>21. ASSUME NEW c \in Calls, Remove(c)
      PROVE  CallTypes'
  BY <1>21 DEF Remove, Return
<1>22. ASSUME NEW c \in Calls, Timeout(c)
      PROVE  CallTypes'
  BY <1>22 DEF Timeout, reqVars, Goto
<1>23. ASSUME NEW c \in Calls, Answer(c)
      PROVE  CallTypes'
  BY <1>23 DEF Answer, reqVars, callVars, ctrlVars
<1>24. CASE UNCHANGED vars
  BY <1>24 DEF vars, reqVars, callVars, ctrlVars, loopVars
<1> QED BY <1>1, <1>2, <1>3, <1>4, <1>5, <1>6, <1>7, <1>8, <1>9, <1>10, <1>11,
           <1>12, <1>13, <1>14, <1>15, <1>16, <1>17, <1>18, <1>19, <1>20, <1>21,
           <1>22, <1>23, <1>24 DEF Next, LoopStep, CallStep

\* The loop's thread works on calls, and with codes, it has been given.
LEMMA LoopTyped ==
  ASSUME ConnTypes, CallTypes, LoopTypes, [Next]_vars
  PROVE  LoopTypes'
<1> USE DEF LoopTypes
<1>1. CASE process_response
  <2>1. Head(inbox) \in [call : Calls, code : {"0", "failed"}]
    BY <1>1, HeadTailProperties DEF process_response, ConnTypes
  <2> QED BY <1>1, <2>1 DEF process_response
<1>2. CASE set_code
  BY <1>2 DEF set_code
<1>3. CASE call_done
  <2>1. Done \in [Calls -> Nat]
    <3>1. \A c \in Calls : dones[c] \in Nat /\ dones[c] + 1 \in Nat
      OBVIOUS
    <3>2. Done = [c \in Calls |-> IF c = ctrl THEN dones[c] + 1 ELSE dones[c]]
      BY DEF Done
    <3> QED BY <3>1, <3>2
  <2>2. Told \in {"next", "restore", "idle"}
    BY DEF Told
  <2> QED BY <1>3, <2>1, <2>2 DEF call_done
<1>4. CASE notify_lock
  BY <1>4 DEF notify_lock
<1>5. CASE notify_unlock
  BY <1>5 DEF notify_unlock
<1>6. CASE notify_one
  BY <1>6 DEF notify_one, Told
<1>7. CASE restore_mark
  BY <1>7 DEF restore_mark
<1>8. CASE close_begin
  BY <1>8 DEF close_begin, Remaining, CallTypes
<1>9. CASE close_next
  BY <1>9 DEF close_next
<1>10. CASE close_end
  BY <1>10 DEF close_end
<1>11. CASE UNCHANGED loopVars
  BY <1>11 DEF loopVars
<1>12. UNCHANGED loopVars
      \/ process_response \/ set_code \/ call_done \/ notify_lock
      \/ notify_unlock \/ notify_one \/ restore_mark \/ close_begin
      \/ close_next \/ close_end
  BY DEF Next, LoopStep, CallStep, vars, Connect, Stop, on_send, Begin, Insert,
     Lock, Send, Wait, Woken, Fail, Remove, Timeout, Answer
<1> QED BY <1>1, <1>2, <1>3, <1>4, <1>5, <1>6, <1>7, <1>8, <1>9, <1>10, <1>11,
           <1>12

\* A controller is locked by its caller from Lock to Wait, and in notify.
LEMMA LockTyped ==
  ASSUME CallTypes, LoopTypes, LockTypes, CallState, [Next]_vars
  PROVE  LockTypes'
<1> USE DEF LockTypes, CallTypes, LoopTypes
<1>1. CASE process_response
  BY <1>1 DEF process_response, callVars
<1>2. CASE set_code
  BY <1>2 DEF set_code, callVars
<1>3. CASE call_done
  BY <1>3 DEF call_done, callVars
<1>4. CASE notify_lock
  BY <1>4 DEF notify_lock, callVars
<1>5. CASE notify_unlock
  BY <1>5 DEF notify_unlock, callVars
<1>6. CASE notify_one
  BY <1>6 DEF notify_one
<1>7. CASE restore_mark
  BY <1>7 DEF restore_mark, callVars
<1>8. CASE close_begin
  BY <1>8 DEF close_begin, callVars, ctrlVars
<1>9. CASE close_next
  BY <1>9 DEF close_next, callVars
<1>10. CASE close_end
  BY <1>10 DEF close_end, callVars, ctrlVars
<1>11. ASSUME NEW c \in Calls, Begin(c)
      PROVE  LockTypes'
  BY <1>11 DEF Begin, loopVars, Return, Goto
<1>12. ASSUME NEW c \in Calls, Insert(c)
      PROVE  LockTypes'
  BY <1>12 DEF Insert, loopVars, Return, Goto
<1>13. ASSUME NEW c \in Calls, Lock(c)
      PROVE  LockTypes'
  BY <1>13 DEF Lock, loopVars, Goto
<1>14. ASSUME NEW c \in Calls, Send(c)
      PROVE  LockTypes'
  <2>1. /\ pc[c] = "send" /\ \A d \in Calls \ {c} : pc'[d] = pc[d]
        /\ UNCHANGED <<at, ctrl>>
        /\ \/ mutex_' = mutex_ /\ pc'[c] = (IF c \in SyncCalls THEN "enter" ELSE "returned")
           \/ mutex_' = [mutex_ EXCEPT ![c] = "free"]
    BY <1>14 DEF Send, loopVars, Return, Goto
  <2> QED BY <2>1 DEF CallState
<1>15. ASSUME NEW c \in Calls, Wait(c)
      PROVE  LockTypes'
  BY <1>15 DEF Wait, loopVars, Goto
<1>16. ASSUME NEW c \in Calls, Timeout(c)
      PROVE  LockTypes'
  BY <1>16 DEF Timeout, loopVars, Goto
<1>17. ASSUME NEW c \in Calls, Woken(c)
      PROVE  LockTypes'
  BY <1>17 DEF Woken, loopVars, Return
<1>18. ASSUME NEW c \in Calls, Fail(c)
      PROVE  LockTypes'
  BY <1>18 DEF Fail, loopVars, Goto
<1>19. ASSUME NEW c \in Calls, Remove(c)
      PROVE  LockTypes'
  BY <1>19 DEF Remove, loopVars, Return
<1>20. CASE UNCHANGED <<callVars, ctrlVars, loopVars>>
  BY <1>20 DEF callVars, ctrlVars, loopVars
<1>21. CASE Connect \/ Stop \/ on_send \/ \E c \in Calls : Answer(c)
  BY <1>21, <1>20 DEF Connect, Stop, on_send, Answer
<1>22. CASE UNCHANGED vars
  BY <1>22, <1>20 DEF vars
<1> QED BY <1>1, <1>2, <1>3, <1>4, <1>5, <1>6, <1>7, <1>8, <1>9, <1>10, <1>11,
           <1>12, <1>13, <1>14, <1>15, <1>16, <1>17, <1>18, <1>19, <1>20, <1>21,
           <1>22 DEF Next, LoopStep, CallStep

-----------------------------------------------------------------------------
(* Each part of the invariant is kept.                                     *)

\* Asynchronous calls and registrations go from Insert to Send.
LEMMA CallStateKept ==
  ASSUME CallTypes, LockTypes, CallState, [Next]_vars
  PROVE  CallState'
<1> USE DEF CallState, CallTypes, LockTypes
<1>1. CASE notify_lock
  BY <1>1 DEF notify_lock, callVars
<1>2. CASE notify_unlock
  BY <1>2 DEF notify_unlock, callVars
<1>3. CASE notify_one
  BY <1>3 DEF notify_one
<1>4. ASSUME NEW c \in Calls, Begin(c)
      PROVE  CallState'
  BY <1>4 DEF Begin, Return, Goto
<1>5. ASSUME NEW c \in Calls, Insert(c)
      PROVE  CallState'
  BY <1>5 DEF Insert, Return, Goto
<1>6. ASSUME NEW c \in Calls, Lock(c)
      PROVE  CallState'
  BY <1>6 DEF Lock, Goto
<1>7. ASSUME NEW c \in Calls, Send(c)
      PROVE  CallState'
  BY <1>7 DEF Send, Return, Goto
<1>8. ASSUME NEW c \in Calls, Wait(c)
      PROVE  CallState'
  BY <1>8 DEF Wait, Goto
<1>9. ASSUME NEW c \in Calls, Timeout(c)
      PROVE  CallState'
  BY <1>9 DEF Timeout, Goto, Steady
<1>10. ASSUME NEW c \in Calls, Woken(c)
      PROVE  CallState'
  BY <1>10 DEF Woken, Return
<1>11. ASSUME NEW c \in Calls, Fail(c)
      PROVE  CallState'
  BY <1>11 DEF Fail, Goto
<1>12. ASSUME NEW c \in Calls, Remove(c)
      PROVE  CallState'
  BY <1>12 DEF Remove, Return
<1>13. CASE UNCHANGED <<pc, mutex_>>
  BY <1>13
<1>14. UNCHANGED <<pc, mutex_>>
      \/ notify_lock \/ notify_unlock \/ notify_one
      \/ \E c \in Calls : \/ Begin(c) \/ Insert(c) \/ Lock(c) \/ Send(c)
                          \/ Wait(c) \/ Timeout(c) \/ Woken(c) \/ Fail(c)
                          \/ Remove(c)
  BY DEF Next, LoopStep, CallStep, vars, callVars, ctrlVars, Connect, Stop,
     on_send, process_response, set_code, call_done, restore_mark, close_begin,
     close_next, close_end, Answer
<1> QED BY <1>1, <1>2, <1>3, <1>4, <1>5, <1>6, <1>7, <1>8, <1>9, <1>10, <1>11,
           <1>12, <1>13, <1>14

\* While on_close holds mutex_requests_ the requests stay.
LEMMA LoopStateKept ==
  ASSUME CallTypes, LoopTypes, CallState, LoopState, [Next]_vars
  PROVE  LoopState'
<1> USE DEF LoopState, CallTypes, LoopTypes
<1>1. CASE process_response
  BY <1>1 DEF process_response, erase
<1>2. CASE set_code
  BY <1>2 DEF set_code
<1>3. CASE call_done
  BY <1>3 DEF call_done, reqVars, Told
<1>4. CASE notify_lock
  BY <1>4 DEF notify_lock, reqVars
<1>5. CASE notify_unlock
  BY <1>5 DEF notify_unlock, reqVars
<1>6. CASE notify_one
  BY <1>6 DEF notify_one, reqVars, Told
<1>7. CASE restore_mark
  BY <1>7 DEF restore_mark, reqVars
<1>8. CASE close_begin
  BY <1>8 DEF close_begin, Remaining
<1>9. CASE close_next
  BY <1>9 DEF close_next, reqVars
<1>10. CASE close_end
  BY <1>10 DEF close_end
<1>11. ASSUME NEW c \in Calls, Insert(c)
      PROVE  LoopState'
  BY <1>11 DEF Insert, Goto, loopVars
<1>12. ASSUME NEW c \in Calls, Remove(c)
      PROVE  LoopState'
  BY <1>12 DEF Remove, loopVars
<1>13. CASE UNCHANGED <<loopVars, reqVars>>
  BY <1>13 DEF loopVars, reqVars
<1>14. UNCHANGED <<loopVars, reqVars>>
      \/ process_response \/ set_code \/ call_done \/ notify_lock
      \/ notify_unlock \/ notify_one \/ restore_mark \/ close_begin
      \/ close_next \/ close_end
      \/ \E c \in Calls : Insert(c) \/ Remove(c)
  BY DEF Next, LoopStep, CallStep, vars, connVars, reqVars, callVars, ctrlVars,
     loopVars, Begin, Lock, Send, Wait, Timeout, Woken, Fail, Answer, Connect,
     Stop, on_send
<1> QED BY <1>1, <1>2, <1>3, <1>4, <1>5, <1>6, <1>7, <1>8, <1>9, <1>10, <1>11,
           <1>12, <1>13, <1>14

\* ec_ and the mark of a registered call, through process_response and on_close.
LEMMA RequestStateKept ==
  ASSUME CallTypes, LoopTypes, CallState, LoopState, RequestState, [Next]_vars
  PROVE  RequestState'
<1> USE DEF RequestState, Processing
<1>1. CASE process_response
  <2> DEFINE r == Head(inbox).call
  <2>1. /\ at = "idle" /\ ~mutex_requests_
        /\ UNCHANGED <<pc, ec, mutex_requests_>>
        /\ IF r \in requests_
             THEN /\ requests_' =
                       IF ec[r] = "0" THEN requests_ \ {r} ELSE requests_
                  /\ at' = "set" /\ ctrl' = r /\ mark' = (ec[r] # "0")
             ELSE UNCHANGED <<requests_, at, ctrl, mark>>
    BY <1>1 DEF process_response, erase, callVars
  <2> HIDE DEF r
  <2>2. CASE r \notin requests_
    BY <2>1, <2>2
  <2>3. CASE r \in requests_ /\ ec[r] = "0"
    <3>1. mark' = FALSE
      BY <2>1, <2>3
    <3> QED BY <2>1, <2>3, <3>1 DEF LoopState, CallTypes
  <2>4. CASE r \in requests_ /\ ec[r] # "0"
    <3>1. mark' = TRUE
      BY <2>1, <2>4
    <3> QED BY <2>1, <2>4, <3>1 DEF LoopState, CallTypes
  <2> QED BY <2>2, <2>3, <2>4
<1>2. CASE set_code
  <2>1. PICK v \in {"0", "failed", "response"} : ec' = [ec EXCEPT ![ctrl] = v]
    BY <1>2, CodeStored
  <2> QED BY <1>2, <2>1 DEF set_code, reqVars, callVars
<1>3. CASE call_done
  BY <1>3 DEF call_done, Told, reqVars, callVars
<1>4. CASE notify_lock
  BY <1>4 DEF notify_lock, reqVars, callVars
<1>5. CASE notify_unlock
  BY <1>5 DEF notify_unlock, reqVars, callVars
<1>6. CASE notify_one
  BY <1>6 DEF notify_one, Told, CallTypes, reqVars
<1>7. CASE restore_mark
  BY <1>7 DEF restore_mark, CallTypes, reqVars, callVars
<1>8. CASE close_begin
  BY <1>8 DEF close_begin, Remaining, callVars, ctrlVars
<1>9. CASE close_next
  BY <1>9 DEF close_next, LoopState, reqVars, callVars
<1>10. CASE close_end
  BY <1>10 DEF close_end, callVars, ctrlVars
<1>11. ASSUME NEW d \in Calls, Begin(d)
      PROVE  RequestState'
  BY <1>11 DEF Begin, Return, Goto, CallTypes, reqVars, loopVars
<1>12. ASSUME NEW d \in Calls, Insert(d)
      PROVE  RequestState'
  BY <1>12 DEF Insert, Return, Goto, CallTypes, loopVars
<1>13. ASSUME NEW d \in Calls, Lock(d)
      PROVE  RequestState'
  BY <1>13 DEF Lock, Goto, reqVars, loopVars
<1>14. ASSUME NEW d \in Calls, Send(d)
      PROVE  RequestState'
  BY <1>14 DEF Send, Return, Goto, CallTypes, reqVars, loopVars
<1>15. ASSUME NEW d \in Calls, Wait(d)
      PROVE  RequestState'
  BY <1>15 DEF Wait, Goto, reqVars, loopVars
<1>16. ASSUME NEW d \in Calls, Timeout(d)
      PROVE  RequestState'
  BY <1>16 DEF Timeout, Goto, reqVars, loopVars
<1>17. ASSUME NEW d \in Calls, Woken(d)
      PROVE  RequestState'
  BY <1>17 DEF Woken, Return, reqVars, loopVars
<1>18. ASSUME NEW d \in Calls, Fail(d)
      PROVE  RequestState'
  BY <1>18 DEF Fail, Goto, CallTypes, reqVars, loopVars
<1>19. ASSUME NEW d \in Calls, Remove(d)
      PROVE  RequestState'
  BY <1>19 DEF Remove, Return, loopVars
<1>20. CASE UNCHANGED <<loopVars, reqVars, pc, ec>>
  BY <1>20 DEF loopVars, reqVars
<1>21. UNCHANGED <<loopVars, reqVars, pc, ec>>
      \/ process_response \/ set_code \/ call_done \/ notify_lock
      \/ notify_unlock \/ notify_one \/ restore_mark \/ close_begin
      \/ close_next \/ close_end
      \/ \E d \in Calls : \/ Begin(d) \/ Insert(d) \/ Lock(d) \/ Send(d)
                          \/ Wait(d) \/ Timeout(d) \/ Woken(d) \/ Fail(d)
                          \/ Remove(d)
  BY DEF Next, LoopStep, CallStep, vars, connVars, reqVars, callVars, ctrlVars,
     loopVars, Answer, Connect, Stop, on_send
<1> QED
  BY <1>1, <1>2, <1>3, <1>4, <1>5, <1>6, <1>7, <1>8, <1>9, <1>10, <1>11, <1>12,
     <1>13, <1>14, <1>15, <1>16, <1>17, <1>18, <1>19, <1>20, <1>21

\* The sets of calls are disjoint.
LEMMA CallSets ==
  /\ \A c \in SyncCalls : c \in Calls /\ c \notin NotifyCalls
  /\ \A c \in AsyncCalls : c \in Calls /\ c \notin SyncCalls \cup NotifyCalls
  /\ \A c \in NotifyCalls : c \in Calls
  BY ChannelAssumption DEF Calls

\* call_done is reached once for an asynchronous call.
LEMMA DoneStateKept ==
  ASSUME CallTypes, LoopTypes, LoopState, RequestState, DoneState, [Next]_vars
  PROVE  DoneState'
<1> USE DEF DoneState
<1>1. CASE process_response
  BY <1>1 DEF process_response, erase, callVars
<1>2. CASE set_code
  BY <1>2 DEF set_code, reqVars, callVars
<1>3. CASE call_done
  <2>1. /\ UNCHANGED <<requests_, mutex_requests_, todo, ctrl, pc>>
        /\ at = "tell" /\ at' \in {"next", "restore", "idle"}
        /\ dones' = [dones EXCEPT ![ctrl] = dones[ctrl] + 1]
    BY <1>3 DEF call_done, Told, Done, reqVars, callVars
  <2>2. ctrl \in AsyncCalls =>
          /\ ctrl \in requests_ => mutex_requests_ /\ ctrl \notin todo
          /\ pc[ctrl] \notin {"idle", "insert"}
    BY <2>1, CallSets, ChannelAssumption DEF LoopState, RequestState, Processing
  <2>3. SUFFICES ASSUME NEW c \in AsyncCalls
                 PROVE  /\ dones'[c] <= 1
                        /\ dones'[c] > 0 =>
                             /\ pc[c] \notin {"idle", "insert"}
                             /\ c \in requests_ =>
                                  mutex_requests_ /\ c \notin todo
    BY <2>1
  <2>4. CASE c = ctrl
    <3>1. dones[c] \in Nat /\ ~(dones[c] > 0)
      BY <2>1, <2>4, CallSets DEF LoopTypes
    <3>2. dones'[c] = dones[c] + 1
      BY <2>1, <2>4, CallSets DEF LoopTypes
    <3> QED BY <3>1, <3>2, <2>2, <2>4
  <2>5. CASE c # ctrl
    <3>1. dones'[c] = dones[c]
      BY <2>1, <2>5, CallSets DEF LoopTypes
    <3> QED BY <3>1
  <2> QED BY <2>4, <2>5
<1>4. CASE notify_lock
  BY <1>4 DEF notify_lock, reqVars, callVars
<1>5. CASE notify_unlock
  BY <1>5 DEF notify_unlock, reqVars, callVars
<1>6. CASE notify_one
  <2>1. \A c \in Calls :
          pc'[c] \in {"idle", "insert"} => pc[c] \in {"idle", "insert"}
    BY <1>6 DEF notify_one, CallTypes
  <2>2. /\ UNCHANGED <<requests_, mutex_requests_, todo, ctrl, dones>>
        /\ at = "signal" /\ at' \in {"next", "restore", "idle"}
    BY <1>6 DEF notify_one, Told, reqVars
  <2> QED BY <2>1, <2>2, CallSets
<1>7. CASE restore_mark
  BY <1>7 DEF restore_mark, reqVars, callVars
<1>8. CASE close_begin
  BY <1>8 DEF close_begin, Remaining, LoopState, callVars
<1>9. CASE close_next
  BY <1>9 DEF close_next, LoopState, reqVars, callVars
<1>10. CASE close_end
  BY <1>10 DEF close_end, callVars
<1>11. ASSUME NEW d \in Calls, Begin(d)
      PROVE  DoneState'
  <2>1. \A c \in Calls :
          pc'[c] \in {"idle", "insert"} => pc[c] \in {"idle", "insert"}
    BY <1>11 DEF Begin, Return, Goto, CallTypes
  <2>2. UNCHANGED <<requests_, mutex_requests_, todo, ctrl, at, dones>>
    BY <1>11 DEF Begin, reqVars, loopVars
  <2> QED BY <2>1, <2>2, CallSets
<1>12. ASSUME NEW d \in Calls, Insert(d)
      PROVE  DoneState'
  <2>1. \A c \in Calls :
          pc'[c] \in {"idle", "insert"} => pc[c] \in {"idle", "insert"}
    BY <1>12 DEF Insert, Return, Goto, CallTypes
  <2>2. /\ UNCHANGED <<mutex_requests_, todo, ctrl, at, dones>>
        /\ requests_' \subseteq requests_ \cup {d} /\ pc[d] = "insert"
    BY <1>12 DEF Insert, loopVars
  <2>3. d \in AsyncCalls => ~(dones[d] > 0)
    BY <2>2
  <2> QED BY <2>1, <2>2, <2>3, CallSets
<1>13. ASSUME NEW d \in Calls, Lock(d)
      PROVE  DoneState'
  BY <1>13 DEF Lock, Goto, reqVars, loopVars
<1>14. ASSUME NEW d \in Calls, Send(d)
      PROVE  DoneState'
  <2>1. \A c \in Calls :
          pc'[c] \in {"idle", "insert"} => pc[c] \in {"idle", "insert"}
    BY <1>14 DEF Send, Return, Goto, CallTypes
  <2>2. UNCHANGED <<requests_, mutex_requests_, todo, ctrl, at, dones>>
    BY <1>14 DEF Send, reqVars, loopVars
  <2> QED BY <2>1, <2>2, CallSets
<1>15. ASSUME NEW d \in Calls, Wait(d)
      PROVE  DoneState'
  BY <1>15 DEF Wait, Goto, reqVars, loopVars
<1>16. ASSUME NEW d \in Calls, Timeout(d)
      PROVE  DoneState'
  BY <1>16 DEF Timeout, Goto, reqVars, loopVars
<1>17. ASSUME NEW d \in Calls, Woken(d)
      PROVE  DoneState'
  BY <1>17 DEF Woken, Return, reqVars, loopVars
<1>18. ASSUME NEW d \in Calls, Fail(d)
      PROVE  DoneState'
  BY <1>18 DEF Fail, Goto, reqVars, loopVars
<1>19. ASSUME NEW d \in Calls, Remove(d)
      PROVE  DoneState'
  BY <1>19 DEF Remove, Return, loopVars
<1>20. CASE UNCHANGED <<loopVars, reqVars, pc>>
  BY <1>20 DEF loopVars, reqVars
<1>21. UNCHANGED <<loopVars, reqVars, pc>>
      \/ process_response \/ set_code \/ call_done \/ notify_lock
      \/ notify_unlock \/ notify_one \/ restore_mark \/ close_begin
      \/ close_next \/ close_end
      \/ \E d \in Calls : \/ Begin(d) \/ Insert(d) \/ Lock(d) \/ Send(d)
                          \/ Wait(d) \/ Timeout(d) \/ Woken(d) \/ Fail(d)
                          \/ Remove(d)
  BY DEF Next, LoopStep, CallStep, vars, connVars, reqVars, callVars, ctrlVars,
     loopVars, Answer, Connect, Stop, on_send
<1> QED
  BY <1>1, <1>2, <1>3, <1>4, <1>5, <1>6, <1>7, <1>8, <1>9, <1>10, <1>11, <1>12,
     <1>13, <1>14, <1>15, <1>16, <1>17, <1>18, <1>19, <1>20, <1>21

\* The first Answer to a registration ends the hypothesis notes = 0.
LEMMA MarkStateKept ==
  ASSUME ConnTypes, CallTypes, LoopTypes, LoopState, RequestState, MarkState,
         [Next]_vars
  PROVE  MarkState'
<1> USE DEF MarkState
<1>1. CASE process_response
  <2>1. inbox # <<>> /\ inbox' = Tail(inbox)
    BY <1>1 DEF process_response
  <2>2. /\ Head(inbox) = inbox[1] /\ 1 \in DOMAIN inbox
        /\ \A i \in DOMAIN inbox' :
             i + 1 \in DOMAIN inbox /\ inbox'[i] = inbox[i + 1]
    BY <2>1, HeadTailProperties, LenProperties, EmptySeq DEF ConnTypes
  <2>3. \A i \in DOMAIN inbox' :
          inbox[i + 1].call \notin NotifyCalls =>
            inbox'[i].call \notin NotifyCalls
    BY <2>2
  <2> DEFINE r == Head(inbox).call
  <2>4. notes = 0 =>
          /\ r \notin NotifyCalls
          /\ \A i \in DOMAIN inbox' : inbox'[i].call \notin NotifyCalls
    BY <2>2, <2>3
  <2>5. /\ ~mutex_requests_ /\ UNCHANGED <<pc, ec, mutex_requests_, notes>>
        /\ at = "idle"
        /\ \/ r \notin requests_ /\ UNCHANGED <<requests_, at, ctrl>>
           \/ /\ requests_' \subseteq requests_ /\ ctrl' = r
    BY <1>1 DEF process_response, erase, callVars
  <2> HIDE DEF r
  <2> QED BY <2>4, <2>5
<1>2. CASE set_code
  <2>1. PICK v \in {"0", "failed", "response"} : ec' = [ec EXCEPT ![ctrl] = v]
    BY <1>2, CodeStored
  <2> QED BY <1>2, <2>1 DEF set_code, LoopState, connVars, reqVars, callVars
<1>3. CASE call_done
  BY <1>3 DEF call_done, connVars, reqVars, callVars
<1>4. CASE notify_lock
  BY <1>4 DEF notify_lock, connVars, reqVars, callVars
<1>5. CASE notify_unlock
  BY <1>5 DEF notify_unlock, connVars, reqVars, callVars
<1>6. CASE notify_one
  BY <1>6 DEF notify_one, CallTypes, connVars, reqVars
<1>7. CASE restore_mark
  BY <1>7 DEF restore_mark, connVars, reqVars, callVars
<1>8. CASE close_begin
  BY <1>8 DEF close_begin, Remaining, connVars, callVars, ctrlVars
<1>9. CASE close_next
  BY <1>9 DEF close_next, LoopState, connVars, reqVars, callVars
<1>10. CASE close_end
  BY <1>10 DEF close_end
<1>11. ASSUME NEW d \in Calls, Begin(d)
      PROVE  MarkState'
  BY <1>11 DEF Begin, Return, Goto, CallTypes, connVars, reqVars, loopVars
<1>12. ASSUME NEW d \in Calls, Insert(d)
      PROVE  MarkState'
  BY <1>12 DEF Insert, Return, Goto, RequestState, CallTypes, connVars, loopVars
<1>13. ASSUME NEW d \in Calls, Lock(d)
      PROVE  MarkState'
  BY <1>13 DEF Lock, Goto, connVars, reqVars, loopVars
<1>14. ASSUME NEW d \in Calls, Send(d)
      PROVE  MarkState'
  BY <1>14 DEF Send, Return, Goto, CallTypes, reqVars, loopVars
<1>15. ASSUME NEW d \in Calls, Wait(d)
      PROVE  MarkState'
  BY <1>15 DEF Wait, Goto, connVars, reqVars, loopVars
<1>16. ASSUME NEW d \in Calls, Timeout(d)
      PROVE  MarkState'
  BY <1>16 DEF Timeout, Goto, connVars, reqVars, loopVars
<1>17. ASSUME NEW d \in Calls, Woken(d)
      PROVE  MarkState'
  BY <1>17 DEF Woken, Return, connVars, reqVars, loopVars
<1>18. ASSUME NEW d \in Calls, Fail(d)
      PROVE  MarkState'
  BY <1>18 DEF Fail, Goto, CallTypes, connVars, reqVars, loopVars
<1>19. ASSUME NEW d \in Calls, Remove(d)
      PROVE  MarkState'
  BY <1>19 DEF Remove, Return, connVars, loopVars
<1>20. CASE Stop
  BY <1>20 DEF Stop, reqVars, callVars, ctrlVars, loopVars
<1>21. ASSUME NEW d \in Calls, Answer(d)
      PROVE  MarkState'
  <2>1. CASE d \in NotifyCalls
    <3>1. notes' # 0
      BY <1>21, <2>1 DEF Answer, ConnTypes
    <3> QED BY <3>1
  <2>2. CASE d \notin NotifyCalls
    <3>1. PICK r \in {"0", "failed"} :
            inbox' = Append(inbox, [call |-> d, code |-> r])
      BY <1>21 DEF Answer
    <3> DEFINE m == [call |-> d, code |-> r]
    <3>2. m \in [call : Calls, code : {"0", "failed"}] /\ m.call = d
      OBVIOUS
    <3> HIDE DEF m
    <3>3. \A i \in DOMAIN inbox' :
            inbox'[i] = m \/ (i \in DOMAIN inbox /\ inbox'[i] = inbox[i])
      BY <3>1, <3>2, AppendProperties, LenProperties DEF ConnTypes, m
    <3>4. (\A i \in DOMAIN inbox : inbox[i].call \notin NotifyCalls)
            => \A i \in DOMAIN inbox' : inbox'[i].call \notin NotifyCalls
      BY <3>2, <3>3, <2>2
    <3> QED BY <1>21, <2>2, <3>4 DEF Answer, reqVars, callVars, ctrlVars,
               loopVars
  <2> QED BY <2>1, <2>2
<1>22. CASE UNCHANGED <<loopVars, reqVars, pc, ec, notes, inbox>>
  BY <1>22 DEF loopVars, reqVars
<1>23. UNCHANGED <<loopVars, reqVars, pc, ec, notes, inbox>>
      \/ process_response \/ set_code \/ call_done \/ notify_lock
      \/ notify_unlock \/ notify_one \/ restore_mark \/ close_begin
      \/ close_next \/ close_end \/ Stop
      \/ \E d \in Calls : \/ Begin(d) \/ Insert(d) \/ Lock(d) \/ Send(d)
                          \/ Wait(d) \/ Timeout(d) \/ Woken(d) \/ Fail(d)
                          \/ Remove(d) \/ Answer(d)
  BY DEF Next, LoopStep, CallStep, vars, connVars, reqVars, callVars, ctrlVars,
     loopVars, Connect, on_send
<1> QED
  BY <1>1, <1>2, <1>3, <1>4, <1>5, <1>6, <1>7, <1>8, <1>9, <1>10, <1>11, <1>12,
     <1>13, <1>14, <1>15, <1>16, <1>17, <1>18, <1>19, <1>20, <1>21, <1>22, <1>23

\* Only Send hands a request to the connection, and goes on to Wait or returns.
LEMMA SentStateKept ==
  ASSUME ConnTypes, CallTypes, LoopTypes, CallState, LoopState, RequestState, SentState,
         [Next]_vars
  PROVE  SentState'
<1> USE DEF SentState, Processing
<1>1. CASE process_response
  <2>1. /\ inbox # <<>> /\ inbox' = Tail(inbox) /\ ~mutex_requests_ /\ ~mutex_requests_'
        /\ UNCHANGED <<pc, ec, outbox, server>> /\ at = "idle"
    BY <1>1 DEF process_response, callVars
  <2>2. /\ Head(inbox) = inbox[1] /\ 1 \in DOMAIN inbox
        /\ \A i \in DOMAIN inbox' :
             i + 1 \in DOMAIN inbox /\ inbox'[i] = inbox[i + 1]
    BY <2>1, HeadTailProperties, LenProperties, EmptySeq DEF ConnTypes
  <2> DEFINE r == Head(inbox).call
  <2>3. \A c \in Calls : (\A i \in DOMAIN inbox : inbox[i].call # c) =>
          r # c /\ \A i \in DOMAIN inbox' : inbox'[i].call # c
    BY <2>2
  <2>4. requests_' \subseteq requests_ /\ (at' = "idle" \/ ctrl' = r)
    BY <1>1, <2>1 DEF process_response, erase
  <2> HIDE DEF r
  <2> QED BY <2>1, <2>3, <2>4
<1>2. CASE set_code
  <2>1. PICK v \in {"0", "failed", "response"} : ec' = [ec EXCEPT ![ctrl] = v]
    BY <1>2, CodeStored
  <2> QED BY <1>2, <2>1 DEF set_code, LoopState, connVars, reqVars, callVars
<1>3. CASE call_done
  BY <1>3 DEF call_done, connVars, reqVars, callVars
<1>4. CASE notify_lock
  BY <1>4 DEF notify_lock, connVars, reqVars, callVars
<1>5. CASE notify_unlock
  BY <1>5 DEF notify_unlock, connVars, reqVars, callVars
<1>6. CASE notify_one
  BY <1>6 DEF notify_one, CallTypes, connVars, reqVars
<1>7. CASE restore_mark
  BY <1>7 DEF restore_mark, LoopState, connVars, reqVars, callVars
<1>8. CASE close_begin
  BY <1>8 DEF close_begin, connVars, callVars, ctrlVars
<1>9. CASE close_next
  BY <1>9 DEF close_next, LoopState, connVars, reqVars, callVars
<1>10. CASE close_end
  BY <1>10 DEF close_end, callVars, ctrlVars
<1>11. ASSUME NEW d \in Calls, Begin(d)
      PROVE  SentState'
  BY <1>11 DEF Begin, Return, Goto, CallTypes, connVars, reqVars, loopVars
<1>12. ASSUME NEW d \in Calls, Insert(d)
      PROVE  SentState'
  BY <1>12 DEF Insert, Return, Goto, CallTypes, connVars, loopVars
<1>13. ASSUME NEW d \in Calls, Lock(d)
      PROVE  SentState'
  BY <1>13 DEF Lock, Goto, CallTypes, connVars, reqVars, loopVars
<1>14. ASSUME NEW d \in Calls, Send(d)
      PROVE  SentState'
  <2>1. /\ pc[d] = "send" /\ \A c \in Calls \ {d} : pc'[c] = pc[c]
        /\ \/ outbox' = outbox /\ pc'[d] \in {"returned", "fail"}
           \/ outbox' = Append(outbox, d) /\ pc'[d] \in {"enter", "returned"}
        /\ UNCHANGED <<loopVars, reqVars, ec, server, inbox>>
    BY <1>14 DEF Send, Goto, Return, CallTypes
  <2>2. \A c \in Calls \ {d} : In(outbox', c) => In(outbox, c)
    <3>1. CASE outbox' = outbox
      BY <3>1
    <3>2. CASE outbox' = Append(outbox, d)
      BY <3>2, AppendHas DEF ConnTypes
    <3> QED BY <2>1, <3>1, <3>2
  <2> QED BY <2>1, <2>2 DEF loopVars, reqVars
<1>15. ASSUME NEW d \in Calls, Wait(d)
      PROVE  SentState'
  BY <1>15 DEF Wait, Goto, CallTypes, connVars, reqVars, loopVars
<1>16. ASSUME NEW d \in Calls, Timeout(d)
      PROVE  SentState'
  BY <1>16 DEF Timeout, Goto, CallTypes, connVars, reqVars, loopVars
<1>17. ASSUME NEW d \in Calls, Woken(d)
      PROVE  SentState'
  BY <1>17 DEF Woken, Return, CallTypes, connVars, reqVars, loopVars
<1>18. ASSUME NEW d \in Calls, Fail(d)
      PROVE  SentState'
  BY <1>18 DEF Fail, Goto, CallTypes, connVars, reqVars, loopVars
<1>19. ASSUME NEW d \in Calls, Remove(d)
      PROVE  SentState'
  BY <1>19 DEF Remove, Return, CallTypes, connVars, loopVars
<1>20. CASE on_send
  <2>1. /\ outbox # <<>> /\ outbox' = Tail(outbox)
        /\ server' \subseteq server \cup {Head(outbox)}
        /\ UNCHANGED <<loopVars, reqVars, pc, ec, inbox>>
    BY <1>20 DEF on_send, callVars, ctrlVars
  <2>2. \A c : In(outbox, c) <=> Head(outbox) = c \/ In(Tail(outbox), c)
    BY <1>20, TailHas DEF on_send, ConnTypes
  <2> QED BY <2>1, <2>2 DEF loopVars, reqVars
<1>21. ASSUME NEW d \in Calls, Answer(d)
      PROVE  SentState'
  <2>1. PICK r \in {"0", "failed"} : inbox' = Append(inbox, [call |-> d, code |-> r])
    BY <1>21 DEF Answer
  <2> DEFINE m == [call |-> d, code |-> r]
  <2>2. m \in [call : Calls, code : {"0", "failed"}] /\ m.call = d
    OBVIOUS
  <2> HIDE DEF m
  <2>3. \A i \in DOMAIN inbox' :
          inbox'[i] = m \/ (i \in DOMAIN inbox /\ inbox'[i] = inbox[i])
    BY <2>1, <2>2, AppendProperties, LenProperties DEF ConnTypes, m
  <2>4. \A c \in Calls \ {d} : (\A i \in DOMAIN inbox : inbox[i].call # c) =>
          \A i \in DOMAIN inbox' : inbox'[i].call # c
    BY <2>2, <2>3
  <2>5. /\ d \in server /\ server' \subseteq server
        /\ UNCHANGED <<loopVars, reqVars, pc, ec, outbox>>
    BY <1>21 DEF Answer, callVars, ctrlVars
  <2> QED BY <2>4, <2>5 DEF loopVars, reqVars
<1>22. CASE Stop
  BY <1>22 DEF Stop, reqVars, callVars, ctrlVars, loopVars
<1>23. CASE UNCHANGED <<loopVars, reqVars, pc, ec, outbox, server, inbox>>
  BY <1>23 DEF loopVars, reqVars
<1>24. UNCHANGED <<loopVars, reqVars, pc, ec, outbox, server, inbox>>
      \/ process_response \/ set_code \/ call_done \/ notify_lock
      \/ notify_unlock \/ notify_one \/ restore_mark \/ close_begin
      \/ close_next \/ close_end \/ on_send \/ Stop
      \/ \E d \in Calls : \/ Begin(d) \/ Insert(d) \/ Lock(d) \/ Send(d)
                          \/ Wait(d) \/ Timeout(d) \/ Woken(d) \/ Fail(d)
                          \/ Remove(d) \/ Answer(d)
  BY DEF Next, LoopStep, CallStep, vars, connVars, reqVars, callVars, ctrlVars,
     loopVars, Connect
<1> QED
  BY <1>1, <1>2, <1>3, <1>4, <1>5, <1>6, <1>7, <1>8, <1>9, <1>10, <1>11, <1>12,
     <1>13, <1>14, <1>15, <1>16, <1>17, <1>18, <1>19, <1>20, <1>21, <1>22,
     <1>23, <1>24

\* The loop's thread accesses the calls it has to tell, call_method its own and, in
\* Insert, those registered; a controller is deleted in time only when neither does so
\* any more.
LEMMA ControllerStateKept ==
  ASSUME CallTypes, LoopTypes, CallState, LoopState, RequestState, SentState,
         ControllerState, [Next]_vars
  PROVE  ControllerState'
<1> USE DEF ControllerState, Access, Pending
<1>1. CASE process_response
  <2> DEFINE r == Head(inbox).call
  <2>1. /\ at = "idle" /\ ~mutex_requests_ /\ ~mutex_requests_'
        /\ UNCHANGED <<pc, alive, early, todo>>
        /\ \/ /\ r \in requests_ /\ requests_' \subseteq requests_ /\ ctrl' = r
              /\ dangling' = dangling \cup ({r} \ alive)
           \/ UNCHANGED <<requests_, dangling, at, ctrl>>
    BY <1>1 DEF process_response, erase, callVars
  <2> HIDE DEF r
  <2> QED BY <2>1 DEF CallTypes
<1>2. CASE set_code
  BY <1>2 DEF set_code, LoopState, reqVars, callVars
<1>3. CASE call_done
  <2>1. /\ UNCHANGED <<requests_, mutex_requests_, todo, ctrl, pc>>
        /\ at = "tell" /\ ctrl \in Calls /\ at' = Told
        /\ alive' = IF ctrl \in AsyncCalls THEN alive \ {ctrl} ELSE alive
        /\ dangling' = dangling \cup ({ctrl} \ alive)
        /\ early' = IF ctrl \in AsyncCalls /\ pc[ctrl] # "returned"
                      THEN early \cup {ctrl} ELSE early
    BY <1>3 DEF call_done, LoopState, reqVars, callVars
  <2>2. ctrl \in AsyncCalls => ~Pending(ctrl)'
    BY <2>1, CallSets DEF Told, LoopState, RequestState, Processing
  <2>3. \A c \in Calls : ~Pending(c) => ~Pending(c)'
    BY <2>1 DEF Told
  <2>4. dangling' \subseteq early'
    BY <2>1
  <2> QED BY <2>1, <2>2, <2>3, <2>4
<1>4. CASE notify_lock
  BY <1>4 DEF notify_lock, LoopState, reqVars, callVars
<1>5. CASE notify_unlock
  BY <1>5 DEF notify_unlock, LoopState, reqVars, callVars
<1>6. CASE notify_one
  BY <1>6 DEF notify_one, Told, LoopState, CallTypes, reqVars
<1>7. CASE restore_mark
  BY <1>7 DEF restore_mark, LoopState, reqVars, callVars
<1>8. CASE close_begin
  BY <1>8 DEF close_begin, Remaining, LoopState, callVars, ctrlVars
<1>9. CASE close_next
  BY <1>9 DEF close_next, LoopState, CallTypes, reqVars, callVars
<1>10. CASE close_end
  BY <1>10 DEF close_end, callVars, ctrlVars
<1>11. ASSUME NEW d \in Calls, Begin(d)
      PROVE  ControllerState'
  BY <1>11 DEF Begin, Return, Goto, RequestState, CallTypes, reqVars, loopVars
<1>12. ASSUME NEW d \in Calls, Insert(d)
      PROVE  ControllerState'
  <2>1. dangling' \subseteq early'
    BY <1>12 DEF Insert, Return, Goto, CallTypes
  <2>2. CASE Repeated(d)
    BY <1>12, <2>1, <2>2 DEF Insert, Return, RequestState, CallTypes, loopVars
  <2>3. CASE ~Repeated(d)
    BY <1>12, <2>1, <2>3 DEF Insert, Goto, CallTypes, loopVars
  <2> QED BY <2>2, <2>3
<1>13. ASSUME NEW d \in Calls, Lock(d)
      PROVE  ControllerState'
  BY <1>13 DEF Lock, Goto, CallTypes, reqVars, loopVars
<1>14. ASSUME NEW d \in Calls, Send(d)
      PROVE  ControllerState'
  BY <1>14 DEF Send, Return, Goto, CallTypes, reqVars, loopVars
<1>15. ASSUME NEW d \in Calls, Wait(d)
      PROVE  ControllerState'
  BY <1>15 DEF Wait, Goto, CallTypes, reqVars, loopVars
<1>16. ASSUME NEW d \in Calls, Timeout(d)
      PROVE  ControllerState'
  BY <1>16 DEF Timeout, Goto, CallTypes, reqVars, loopVars
<1>17. ASSUME NEW d \in Calls, Woken(d)
      PROVE  ControllerState'
  BY <1>17 DEF Woken, Return, CallState, CallTypes, reqVars, loopVars
<1>18. ASSUME NEW d \in Calls, Fail(d)
      PROVE  ControllerState'
  BY <1>18 DEF Fail, Goto, CallTypes, reqVars, loopVars
<1>19. ASSUME NEW d \in Calls, Remove(d)
      PROVE  ControllerState'
  <2>1. /\ pc[d] = "remove" /\ ~mutex_requests_ /\ ~mutex_requests_'
        /\ pc' = [pc EXCEPT ![d] = "returned"] /\ alive' = alive \ {d}
        /\ early \subseteq early'
        /\ dangling' \subseteq dangling \cup ({d} \ alive)
        /\ UNCHANGED <<loopVars, ec>>
        /\ requests_' = IF ec[d] = "0" THEN requests_ \ {d} ELSE requests_
    BY <1>19 DEF Remove, Return, CallState, CallTypes
  <2>2. ~Pending(d)'
    BY <2>1 DEF SentState, Processing, loopVars
  <2>3. \A c \in Calls : ~Pending(c) => ~Pending(c)'
    BY <2>1 DEF loopVars
  <2>4. \A c \in Calls : pc[c] = "returned" => pc'[c] = "returned"
    BY <2>1 DEF CallTypes
  <2>5. pc'[d] = "returned" /\ dangling' \subseteq early'
    BY <2>1 DEF CallTypes
  <2> HIDE DEF Pending
  <2> QED BY <2>1, <2>2, <2>3, <2>4, <2>5
<1>20. CASE UNCHANGED <<loopVars, reqVars, pc, alive, early, dangling>>
  BY <1>20 DEF loopVars, reqVars
<1>21. UNCHANGED <<loopVars, reqVars, pc, alive, early, dangling>>
      \/ process_response \/ set_code \/ call_done \/ notify_lock
      \/ notify_unlock \/ notify_one \/ restore_mark \/ close_begin
      \/ close_next \/ close_end
      \/ \E d \in Calls : \/ Begin(d) \/ Insert(d) \/ Lock(d) \/ Send(d)
                          \/ Wait(d) \/ Timeout(d) \/ Woken(d) \/ Fail(d)
                          \/ Remove(d)
  BY DEF Next, LoopStep, CallStep, vars, connVars, reqVars, callVars, ctrlVars,
     loopVars, Answer, Connect, Stop, on_send
<1> QED
  BY <1>1, <1>2, <1>3, <1>4, <1>5, <1>6, <1>7, <1>8, <1>9, <1>10, <1>11, <1>12,
     <1>13, <1>14, <1>15, <1>16, <1>17, <1>18, <1>19, <1>20, <1>21


\* Repeated sees the mark of the registration there is.
LEMMA OneRegistrationKept ==
  ASSUME ConnTypes, CallTypes, LoopTypes, LoopState, RequestState, MarkState,
         OneRegistration, [Next]_vars
  PROVE  OneRegistration'
<1> USE DEF OneRegistration
<1>1. CASE process_response
  BY <1>1 DEF process_response, erase, callVars
<1>2. CASE close_end
  BY <1>2 DEF close_end
<1>3. CASE notify_one
  BY <1>3 DEF notify_one, CallTypes, connVars, reqVars
<1>4. ASSUME NEW d \in Calls, Begin(d)
      PROVE  OneRegistration'
  BY <1>4 DEF Begin, Return, Goto, CallTypes, connVars, reqVars
<1>5. ASSUME NEW d \in Calls, Insert(d)
      PROVE  OneRegistration'
  BY <1>5 DEF Insert, Return, Goto, MarkState, Repeated, CallTypes, connVars
<1>6. ASSUME NEW d \in Calls, Lock(d)
      PROVE  OneRegistration'
  BY <1>6 DEF Lock, Goto, connVars, reqVars
<1>7. ASSUME NEW d \in Calls, Send(d)
      PROVE  OneRegistration'
  BY <1>7 DEF Send, Return, Goto, CallTypes, reqVars
<1>8. ASSUME NEW d \in Calls, Wait(d)
      PROVE  OneRegistration'
  BY <1>8 DEF Wait, Goto, connVars, reqVars
<1>9. ASSUME NEW d \in Calls, Timeout(d)
      PROVE  OneRegistration'
  BY <1>9 DEF Timeout, Goto, connVars, reqVars
<1>10. ASSUME NEW d \in Calls, Woken(d)
      PROVE  OneRegistration'
  BY <1>10 DEF Woken, Return, connVars, reqVars
<1>11. ASSUME NEW d \in Calls, Fail(d)
      PROVE  OneRegistration'
  BY <1>11 DEF Fail, Goto, connVars, reqVars
<1>12. ASSUME NEW d \in Calls, Remove(d)
      PROVE  OneRegistration'
  BY <1>12 DEF Remove, Return, MarkState, connVars
<1>13. ASSUME NEW d \in Calls, Answer(d)
      PROVE  OneRegistration'
  BY <1>13 DEF Answer, ConnTypes, reqVars, callVars
<1>14. CASE UNCHANGED <<requests_, pc, notes>>
  BY <1>14
<1>15. UNCHANGED <<requests_, pc, notes>>
      \/ process_response \/ close_end \/ notify_one
      \/ \E d \in Calls : \/ Begin(d) \/ Insert(d) \/ Lock(d) \/ Send(d)
                          \/ Wait(d) \/ Timeout(d) \/ Woken(d) \/ Fail(d)
                          \/ Remove(d) \/ Answer(d)
  BY DEF Next, LoopStep, CallStep, vars, connVars, reqVars, callVars, ctrlVars,
     loopVars, set_code, call_done, notify_lock, notify_unlock, restore_mark,
     close_begin, close_next, Connect, Stop, on_send
<1> QED
  BY <1>1, <1>2, <1>3, <1>4, <1>5, <1>6, <1>7, <1>8, <1>9, <1>10, <1>11, <1>12,
     <1>13, <1>14, <1>15

-----------------------------------------------------------------------------
(* On a steady channel.                                                    *)

\* The faults of a behaviour are chosen at its start.
LEMMA FaultsStay ==
  ASSUME [Next]_vars
  PROVE  faults' = faults
<1>1. CASE UNCHANGED vars
  BY <1>1 DEF vars
<1>2. CASE Next
  BY <1>2 DEF Next, LoopStep, CallStep, Connect, Stop, on_send,
     process_response, set_code, call_done, notify_lock, notify_unlock,
     notify_one, restore_mark, close_begin, close_next, close_end, Begin,
     Insert, Lock, Send, Wait, Timeout, Woken, Fail, Remove, Answer
<1> QED BY <1>1, <1>2

\* Nothing brings the connection down: neither Send nor on_close fails.
LEMMA ConnStateKept ==
  ASSUME ConnTypes, CallTypes, LoopTypes, CallState, LoopState, Steady,
         ConnState, [Next]_vars
  PROVE  ConnState'
<1> USE DEF ConnState
<1>1. CASE close_begin
  BY <1>1 DEF close_begin
<1>2. CASE close_end
  BY <1>2 DEF close_end, LoopState
<1>3. CASE notify_one
  BY <1>3 DEF notify_one, CallTypes, connVars, reqVars
<1>4. CASE Connect
  BY <1>4 DEF Connect, reqVars, callVars
<1>5. CASE Stop
  BY <1>5 DEF Stop, Steady
<1>6. ASSUME NEW d \in Calls, Begin(d)
      PROVE  ConnState'
  BY <1>6 DEF Begin, Return, Goto, CallTypes, connVars, reqVars
<1>7. ASSUME NEW d \in Calls, Insert(d)
      PROVE  ConnState'
  BY <1>7 DEF Insert, Return, Goto, CallTypes, connVars
<1>8. ASSUME NEW d \in Calls, Lock(d)
      PROVE  ConnState'
  BY <1>8 DEF Lock, Goto, connVars, reqVars
<1>9. ASSUME NEW d \in Calls, Send(d)
      PROVE  ConnState'
  BY <1>9 DEF Send, Return, Goto, CallTypes, reqVars, Steady
<1>10. ASSUME NEW d \in Calls, Wait(d)
      PROVE  ConnState'
  BY <1>10 DEF Wait, Goto, connVars, reqVars
<1>11. ASSUME NEW d \in Calls, Timeout(d)
      PROVE  ConnState'
  BY <1>11 DEF Timeout, Goto, Steady
<1>12. ASSUME NEW d \in Calls, Woken(d)
      PROVE  ConnState'
  BY <1>12 DEF Woken, Return, connVars, reqVars
<1>13. ASSUME NEW d \in Calls, Fail(d)
      PROVE  ConnState'
  BY <1>13 DEF Fail, Goto
<1>14. ASSUME NEW d \in Calls, Remove(d)
      PROVE  ConnState'
  BY <1>14 DEF Remove
<1>15. ASSUME NEW d \in Calls, Answer(d)
      PROVE  ConnState'
  BY <1>15 DEF Answer, reqVars, callVars
<1>16. CASE UNCHANGED <<conn, mutex_requests_, pc>>
  BY <1>16
<1>17. UNCHANGED <<conn, mutex_requests_, pc>>
      \/ close_begin \/ close_end \/ notify_one \/ Connect \/ Stop
      \/ \E d \in Calls : \/ Begin(d) \/ Insert(d) \/ Lock(d) \/ Send(d)
                          \/ Wait(d) \/ Timeout(d) \/ Woken(d) \/ Fail(d)
                          \/ Remove(d) \/ Answer(d)
  BY DEF Next, LoopStep, CallStep, vars, connVars, reqVars, callVars, ctrlVars,
     loopVars, process_response, set_code, call_done, notify_lock,
     notify_unlock, restore_mark, close_next, on_send
<1> QED
  BY <1>1, <1>2, <1>3, <1>4, <1>5, <1>6, <1>7, <1>8, <1>9, <1>10, <1>11, <1>12,
     <1>13, <1>14, <1>15, <1>16, <1>17

\* Calls return when they have been told, and are told when they have returned.
LEMMA EarlyKept ==
  ASSUME CallTypes, LoopTypes, CallState, LoopState, RequestState, SentState,
         Steady, ConnState, AnswerState, early = {}, [Next]_vars
  PROVE  early' = {}
<1>1. CASE call_done
  <2>1. at = "tell" /\ ctrl \in Calls /\ Processing(ctrl)
    BY <1>1 DEF call_done, LoopState, ConnState, Processing
  <2>2. ctrl \in AsyncCalls => pc[ctrl] = "returned"
    BY <2>1, CallSets DEF SentState, CallState, CallTypes
  <2> QED BY <1>1, <2>2 DEF call_done
<1>2. ASSUME NEW d \in Calls, Begin(d)
      PROVE  early' = {}
  BY <1>2 DEF Begin, Return, Goto, Pending, RequestState
<1>3. ASSUME NEW d \in Calls, Insert(d)
      PROVE  early' = {}
  BY <1>3 DEF Insert, Return, Goto, Pending, RequestState
<1>4. ASSUME NEW d \in Calls, Send(d)
      PROVE  early' = {}
  BY <1>4 DEF Send, Return, Goto, Steady, ConnState
<1>5. ASSUME NEW d \in Calls, Woken(d)
      PROVE  early' = {}
  BY <1>5 DEF Woken, Return, Pending, CallState, ConnState, AnswerState, Processing
<1>6. ASSUME NEW d \in Calls, Remove(d)
      PROVE  early' = {}
  BY <1>6 DEF Remove, ConnState
<1>7. early' = early \/ call_done
      \/ \E d \in Calls : Begin(d) \/ Insert(d) \/ Send(d) \/ Woken(d) \/ Remove(d)
  BY DEF Next, LoopStep, CallStep, vars, ctrlVars, Connect, Stop, on_send, Answer,
     process_response, set_code, notify_lock, notify_unlock, notify_one, restore_mark,
     close_begin, close_next, close_end, Lock, Wait, Timeout, Fail, Goto
<1> QED BY <1>1, <1>2, <1>3, <1>4, <1>5, <1>6, <1>7

\* The answer of the server reaches its caller, who waits for it.
LEMMA AnswerStateKept ==
  ASSUME ConnTypes, CallTypes, LoopTypes, LockTypes, CallState, LoopState,
         RequestState, Steady, ConnState, AnswerState, [Next]_vars
  PROVE  AnswerState'
<1>0. faults' = faults
  BY FaultsStay
<1> USE <1>0 DEF AnswerState, Processing, HasAnswer
<1>1. CASE process_response
  <2>1. /\ inbox # <<>> /\ inbox' = Tail(inbox)
        /\ at = "idle" /\ ~mutex_requests_
        /\ UNCHANGED <<mutex_requests_, callVars, ec, mutex_, outbox, server,
                       answer>>
    BY <1>1 DEF process_response
  <2>2. /\ Head(inbox) = inbox[1] /\ 1 \in DOMAIN inbox
        /\ \A i \in DOMAIN inbox' :
             i + 1 \in DOMAIN inbox /\ inbox'[i] = inbox[i + 1]
    BY <2>1, HeadTailProperties, LenProperties, EmptySeq DEF ConnTypes
  <2>5. Head(inbox) \in [call : Calls, code : {"0", "failed"}]
    BY <2>1, HeadTailProperties DEF ConnTypes
  <2> DEFINE r == Head(inbox)
  <2>3. \A c \in SyncCalls :
          /\ \A i \in DOMAIN inbox' :
               inbox'[i].call = c => inbox'[i].code = answer[c]
          /\ r.call = c => r.code = answer[c] /\ answer[c] # "none"
    BY <2>2, <2>5
  <2>4. /\ requests_' \subseteq requests_
        /\ \/ UNCHANGED <<at, ctrl, code>>
           \/ /\ r.call \in requests_
              /\ at' = "set" /\ ctrl' = r.call /\ code' = r.code
    BY <1>1 DEF process_response, erase
  <2> HIDE DEF r
  <2> QED BY <2>1, <2>3, <2>4, CallSets DEF callVars
<1>2. CASE set_code
  <2>1. /\ \/ ec' = [ec EXCEPT ![ctrl] = code]
           \/ "parse" \in faults /\ ec' = [ec EXCEPT ![ctrl] = "response"]
        /\ UNCHANGED <<connVars, reqVars, callVars, mutex_, ctrl, code>>
        /\ at = "set" /\ at' = "tell" /\ ctrl \in Calls
    BY <1>2 DEF set_code, LoopState
  <2>2. \A c \in Calls \ {ctrl} : ec'[c] = ec[c]
    BY <2>1 DEF CallTypes
  <2>3. ec'[ctrl] = code \/ ("parse" \in faults /\ ec'[ctrl] = "response")
    BY <2>1 DEF CallTypes
  <2>4. \A c \in SyncCalls : pc[c] = "woken" \/ pc[c] = "returned" => c # ctrl
    BY <2>1, CallSets DEF ConnState
  <2> QED BY <2>1, <2>2, <2>3, <2>4, CallSets DEF connVars, reqVars, callVars
<1>3. CASE call_done
  BY <1>3 DEF call_done, connVars, reqVars, callVars
<1>4. CASE notify_lock
  BY <1>4 DEF notify_lock, connVars, reqVars, callVars
<1>5. CASE notify_unlock
  BY <1>5 DEF notify_unlock, ConnState, connVars, reqVars, callVars
<1>6. CASE notify_one
  BY CallSets, <1>6 DEF notify_one, ConnState, Told, RequestState, LoopTypes,
     CallTypes, connVars, reqVars
<1>7. CASE restore_mark
  BY <1>7 DEF restore_mark, LoopState, connVars, reqVars, callVars
<1>8. CASE close_begin
  BY <1>8 DEF close_begin, connVars, callVars, ctrlVars
<1>9. CASE close_next
  BY <1>9 DEF close_next, LoopState, connVars, reqVars, callVars
<1>10. CASE close_end
  BY <1>10 DEF close_end, callVars, ctrlVars
<1>11. ASSUME NEW d \in Calls, Begin(d)
      PROVE  AnswerState'
  BY CallSets, <1>11 DEF Begin, Return, Goto, CallTypes, connVars, reqVars,
     loopVars
<1>12. ASSUME NEW d \in Calls, Insert(d)
      PROVE  AnswerState'
  BY CallSets, <1>12 DEF Insert, Return, Goto, CallTypes, connVars, loopVars
<1>13. ASSUME NEW d \in Calls, Lock(d)
      PROVE  AnswerState'
  BY <1>13 DEF Lock, Goto, LockTypes, connVars, reqVars, loopVars
<1>14. ASSUME NEW d \in Calls, Send(d)
      PROVE  AnswerState'
  <2>1. /\ pc[d] = "send" /\ outbox' = Append(outbox, d)
        /\ pc' = [pc EXCEPT ![d] =
                    IF d \in SyncCalls THEN "enter" ELSE "returned"]
        /\ \A c \in SyncCalls : ret'[c] = ret[c]
        /\ UNCHANGED <<loopVars, reqVars, ec, mutex_, server, inbox, answer>>
    BY <1>14, CallSets DEF Send, Goto, Return, ConnState, CallTypes, Steady
  <2>2. \A c \in SyncCalls :
          /\ In(outbox', c) <=> In(outbox, c) \/ d = c
          /\ Once(outbox, c) /\ (d = c => ~In(outbox, c)) => Once(outbox', c)
    BY <2>1, AppendHas DEF ConnTypes
  <2> QED BY <2>1, <2>2, CallSets DEF loopVars, reqVars, CallTypes
<1>15. ASSUME NEW d \in Calls, Wait(d)
      PROVE  AnswerState'
  BY <1>15 DEF Wait, Goto, CallTypes, connVars, reqVars, loopVars
<1>16. ASSUME NEW d \in Calls, Timeout(d)
      PROVE  AnswerState'
  BY <1>16 DEF Timeout, Goto, Steady
<1>17. ASSUME NEW d \in Calls, Woken(d)
      PROVE  AnswerState'
  BY <1>17 DEF Woken, Return, connVars, reqVars, loopVars
<1>18. ASSUME NEW d \in Calls, Fail(d)
      PROVE  AnswerState'
  BY <1>18 DEF Fail, Goto, connVars, reqVars, loopVars
<1>19. ASSUME NEW d \in Calls, Remove(d)
      PROVE  AnswerState'
  BY <1>19 DEF Remove, ConnState
<1>20. CASE on_send
  <2>1. /\ outbox # <<>> /\ outbox' = Tail(outbox)
        /\ server' \subseteq server \cup {Head(outbox)}
        /\ UNCHANGED <<loopVars, reqVars, callVars, ec, mutex_, inbox, answer>>
    BY <1>20 DEF on_send, ctrlVars
  <2>2. \A c \in SyncCalls :
          /\ In(outbox, c) <=> Head(outbox) = c \/ In(Tail(outbox), c)
          /\ Once(outbox, c) => /\ Once(Tail(outbox), c)
                                /\ Head(outbox) = c => ~In(Tail(outbox), c)
    BY <1>20, TailHas DEF on_send, ConnTypes
  <2> QED BY <2>1, <2>2 DEF loopVars, reqVars, callVars
<1>21. ASSUME NEW d \in Calls, Answer(d)
      PROVE  AnswerState'
  <2>1. PICK r \in {"0", "failed"} :
          /\ inbox' = Append(inbox, [call |-> d, code |-> r])
          /\ answer' = [answer EXCEPT ![d] = r]
    BY <1>21 DEF Answer
  <2> DEFINE m == [call |-> d, code |-> r]
  <2>2. m \in [call : Calls, code : {"0", "failed"}] /\ m.call = d /\ m.code = r
    OBVIOUS
  <2> HIDE DEF m
  <2>3. \A i \in DOMAIN inbox' :
          inbox'[i] = m \/ (i \in DOMAIN inbox /\ inbox'[i] = inbox[i])
    BY <2>1, <2>2, AppendProperties, LenProperties DEF ConnTypes, m
  <2>4. \A i \in DOMAIN inbox : inbox[i].code # "none"
    <3> DEFINE S == [call : Calls, code : {"0", "failed"}]
    <3>1. \A x \in S : x.code # "none"
      OBVIOUS
    <3>2. inbox \in Seq(S)
      BY DEF ConnTypes
    <3> HIDE DEF S
    <3>3. \A i \in DOMAIN inbox : inbox[i] \in S
      BY <3>2, ElementOfSeq, LenProperties
    <3> QED BY <3>1, <3>3
  <2>5. /\ d \in server /\ server' \subseteq server
        /\ d \in SyncCalls => server' = server \ {d}
        /\ UNCHANGED <<loopVars, reqVars, callVars, ec, mutex_, outbox>>
    BY <1>21, CallSets DEF Answer, ctrlVars
  <2>6. ASSUME NEW c \in SyncCalls
        PROVE  /\ In(outbox, c) \/ answer'[c] # "none" => c \notin server'
               /\ In(outbox, c) => answer'[c] = "none"
               /\ \A i \in DOMAIN inbox' :
                    inbox'[i].call = c => inbox'[i].code = answer'[c]
               /\ c # d => answer'[c] = answer[c]
               /\ c = d => answer[c] = "none"
    BY <2>1, <2>2, <2>3, <2>4, <2>5, CallSets DEF ConnTypes
  <2> QED BY <2>1, <2>5, <2>6, CallSets DEF loopVars, reqVars, callVars,
             LoopTypes
<1>22. CASE Stop
  BY <1>22 DEF Stop, Steady
<1>23. CASE UNCHANGED <<loopVars, reqVars, callVars, ec, mutex_, outbox, server,
                      inbox, answer>>
  BY <1>23 DEF loopVars, reqVars, callVars
<1>24. UNCHANGED <<loopVars, reqVars, callVars, ec, mutex_, outbox, server,
                      inbox, answer>>
      \/ process_response \/ set_code \/ call_done \/ notify_lock
      \/ notify_unlock \/ notify_one \/ restore_mark \/ close_begin
      \/ close_next \/ close_end \/ on_send \/ Stop
      \/ \E d \in Calls : \/ Begin(d) \/ Insert(d) \/ Lock(d) \/ Send(d)
                          \/ Wait(d) \/ Timeout(d) \/ Woken(d) \/ Fail(d)
                          \/ Remove(d) \/ Answer(d)
  BY DEF Next, LoopStep, CallStep, vars, connVars, reqVars, callVars, ctrlVars,
     loopVars, Connect
<1> QED
  BY <1>1, <1>2, <1>3, <1>4, <1>5, <1>6, <1>7, <1>8, <1>9, <1>10, <1>11, <1>12,
     <1>13, <1>14, <1>15, <1>16, <1>17, <1>18, <1>19, <1>20, <1>21, <1>22,
     <1>23, <1>24

-----------------------------------------------------------------------------
(* The theorems.                                                           *)

\* The initial states satisfy the invariants.
LEMMA InitChannel == Init => ChannelInv /\ SteadyInv
<1> SUFFICES ASSUME Init PROVE ChannelInv /\ SteadyInv
  OBVIOUS
<1>1. TypeOK
  <2>1. ConnTypes
    BY ChannelAssumption DEF Init, ConnTypes
  <2>2. CallTypes /\ LoopTypes /\ LockTypes
    BY DEF Init, CallTypes, LoopTypes, LockTypes
  <2> QED BY <2>1, <2>2, TypeParts
<1>2. CallState /\ LoopState /\ DoneState /\ OneRegistration
  BY CallSets DEF Init, CallState, LoopState, DoneState, OneRegistration
<1>6. SentState /\ ControllerState
  <2>1. DOMAIN inbox = {} /\ \A c : ~In(outbox, c)
    BY EmptyHas DEF Init
  <2> QED BY <2>1 DEF Init, SentState, ControllerState, Processing
<1>3. RequestState /\ MarkState
  BY ChannelAssumption DEF Init, RequestState, Processing, MarkState
<1>4. ConnState /\ early = {}
  BY CallSets DEF Init, ConnState
<1>5. AnswerState
  <2>1. \A c \in SyncCalls : ~In(outbox, c) /\ Once(outbox, c)
    BY EmptyHas DEF Init
  <2>2. DOMAIN inbox = {}
    BY DEF Init
  <2> QED BY <2>1, <2>2, CallSets DEF Init, AnswerState, Processing
<1> QED BY <1>1, <1>2, <1>3, <1>4, <1>5, <1>6 DEF ChannelInv, SteadyInv

\* Every step keeps the invariant, whatever the faults.
LEMMA ChannelKept ==
  ASSUME ChannelInv, [Next]_vars
  PROVE  ChannelInv'
<1>1. ConnTypes /\ CallTypes /\ LoopTypes /\ LockTypes
  BY TypeParts DEF ChannelInv
<1>2. ConnTypes' /\ CallTypes' /\ LoopTypes' /\ LockTypes'
  BY <1>1, ConnTyped, CallTyped, LoopTyped, LockTyped DEF ChannelInv
<1>3. TypeOK'
  BY <1>2 DEF TypeOK, ConnTypes, CallTypes, LoopTypes, LockTypes
<1>4. CallState' /\ LoopState' /\ RequestState'
  BY <1>1, CallStateKept, LoopStateKept, RequestStateKept DEF ChannelInv
<1>5. DoneState' /\ MarkState' /\ OneRegistration'
  BY <1>1, DoneStateKept, MarkStateKept, OneRegistrationKept DEF ChannelInv
<1>6. SentState' /\ ControllerState'
  BY <1>1, SentStateKept, ControllerStateKept DEF ChannelInv
<1> QED BY <1>3, <1>4, <1>5, <1>6 DEF ChannelInv

\* Every step keeps what holds as long as the channel is steady.
LEMMA SteadyKept ==
  ASSUME ChannelInv, SteadyInv, [Next]_vars
  PROVE  SteadyInv'
<1>1. SUFFICES ASSUME Steady'
               PROVE  ConnState' /\ early' = {} /\ AnswerState'
  BY DEF SteadyInv
<1>2. Steady /\ ConnState /\ early = {} /\ AnswerState
  BY <1>1, FaultsStay DEF SteadyInv, Steady
<1>3. ConnTypes /\ CallTypes /\ LoopTypes /\ LockTypes
  BY TypeParts DEF ChannelInv
<1>4. ConnState'
  BY <1>2, <1>3, ConnStateKept DEF ChannelInv
<1>5. early' = {}
  BY <1>2, <1>3, EarlyKept DEF ChannelInv
<1>6. AnswerState'
  BY <1>2, <1>3, AnswerStateKept DEF ChannelInv
<1> QED BY <1>4, <1>5, <1>6

\* The invariants hold in every reachable state.
LEMMA ChannelInvariant == Spec => [](ChannelInv /\ SteadyInv)
<1>1. ChannelInv /\ SteadyInv /\ [Next]_vars => (ChannelInv /\ SteadyInv)'
  BY ChannelKept, SteadyKept
<1> QED BY <1>1, InitChannel, PTL DEF Spec

\* Whatever the faults, a done callback is called once at most, by
\* process_response or by on_close; all variables keep their types.
THEOREM DoneCalledOnce == Spec => []DoneOnce
<1>1. ChannelInv => DoneOnce
  BY DEF ChannelInv, DoneState, DoneOnce
<1> QED BY <1>1, ChannelInvariant, PTL

\* Without notifications call_method never has two registrations for the
\* service.
THEOREM RegisteredOnce == Spec => []OneRegistration
<1>1. ChannelInv => OneRegistration
  BY DEF ChannelInv
<1> QED BY <1>1, ChannelInvariant, PTL

\* process_response never gives up a registration: on_close does, and
\* remove_request of a call that could not be sent.
THEOREM RegistrationStays == Spec => StaysRegistered
<1>1. ASSUME ChannelInv, [Next]_vars, NEW c \in NotifyCalls, c \in requests_
      PROVE  c \in requests_' \/ at = "next" \/ pc[c] = "remove"
  <2>1. CASE process_response
    <3>1. pc[c] = "remove" \/ ec[c] # "0"
      BY <1>1, <2>1, CallSets DEF ChannelInv, RequestState, Processing,
         process_response
    <3> QED BY <1>1, <2>1, <3>1 DEF process_response, erase
  <2>2. CASE close_end
    BY <2>2 DEF close_end
  <2>3. ASSUME NEW d \in Calls, Insert(d)
        PROVE  c \in requests_'
    BY <1>1, <2>3 DEF Insert
  <2>4. ASSUME NEW d \in Calls, Remove(d)
        PROVE  c \in requests_' \/ pc[c] = "remove"
    BY <1>1, <2>4 DEF Remove
  <2>5. UNCHANGED requests_ \/ process_response \/ close_end
        \/ \E d \in Calls : Insert(d) \/ Remove(d)
    BY <1>1 DEF Next, LoopStep, CallStep, vars, reqVars, Connect, Stop, on_send,
       set_code, call_done, notify_lock, notify_unlock, notify_one,
       restore_mark, close_begin, close_next, Begin, Lock, Send, Wait, Timeout,
       Woken, Fail, Answer
  <2> QED BY <1>1, <2>1, <2>2, <2>3, <2>4, <2>5
<1>2. ChannelInv /\ [Next]_vars =>
        [\A c \in NotifyCalls :
           c \in requests_ => \/ c \in requests_'
                              \/ at = "next"
                              \/ pc[c] = "remove"]_vars
  BY <1>1
<1> QED BY <1>2, ChannelInvariant, PTL DEF Spec, StaysRegistered

\* Whatever the faults, process_response, on_close, notify and call_method access a
\* deleted controller only if its call returned before it was told or was told
\* before it returned; on a steady channel they access none, notifications and
\* silence of the server included.
THEOREM ControllersLive == Spec => []NoDangling
<1>1. ChannelInv /\ SteadyInv => NoDangling
  BY DEF ChannelInv, ControllerState, SteadyInv, NoDangling
<1> QED BY <1>1, ChannelInvariant, PTL

\* On a steady channel a synchronous call that returns 0 has the server's answer to
\* it, or _ERESPONSE if that did not deserialise.
THEOREM SyncCallsAreAnswered == Spec => []SyncIsAnswered
<1>1. SteadyInv => SyncIsAnswered
  BY CallSets DEF SteadyInv, AnswerState, HasAnswer, SyncIsAnswered, SyncHasAnswer
<1> QED BY <1>1, ChannelInvariant, PTL

=============================================================================
