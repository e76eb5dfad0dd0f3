------------------------ MODULE TcpConnection_proofs ------------------------
(***************************************************************************)
(* Theorems about a connection, for any threads and any bounds: its types, *)
(* the order in which buffers are written and, as long as no connect is    *)
(* stopped, one write in flight, the progress of the queue, the order of   *)
(* the callbacks and, when every connect succeeds, no undefined access.    *)
(***************************************************************************)
EXTENDS TcpConnection, SequenceLemmas

-----------------------------------------------------------------------------
(* Types.                                                                  *)

LEMMA TypeInit == Init => Types
<1> SUFFICES ASSUME Init PROVE Types
  OBVIOUS
<1>1. /\ send_buf_ \in Seq(Nat) /\ Len(send_buf_) = 0 /\ wire \in Seq(Nat)
      /\ tasks \in Seq(Handlers) /\ stack \in Seq(Frames)
  BY DEF Init
<1>2. call \in [Threads -> Handlers \cup {"none"}]
  BY DEF Init
<1>3. Len(send_buf_) <= MaxSendBuf /\ faults \in FaultSets
  BY <1>1, ConnectionAssumption DEF Init
<1>4. /\ writes \in Nat /\ accepted \in Nat /\ starts \in Nat /\ sends \in Nat
      /\ turns \in Nat
  BY DEF Init
<1> QED BY <1>1, <1>2, <1>3, <1>4 DEF Init, Types

LEMMA LongIsNotEmpty ==
  ASSUME NEW s \in Seq(Nat), Len(s) > 0
  PROVE  s # <<>> /\ 1 \in 1 .. Len(s)
  OBVIOUS

\* What send_buf does, with a buffer in the queue.
LEMMA BufTypes ==
  ASSUME Types, send_buf, send_buf_' \in Seq(Nat), send_buf_' # <<>>
  PROVE  writes' \in Nat /\ wire' \in Seq(Nat)
<1>1. FrontBuf \in Nat
  BY DEF FrontBuf
<1>2. wire \in Seq(Nat) /\ writes \in Nat
  BY DEF Types
<1>3. writes' \in Nat
  BY <1>2 DEF send_buf
<1>4. CASE handle_ = "open"
  <2>1. wire' = Append(wire, FrontBuf)
    BY <1>4 DEF send_buf
  <2> QED BY <1>1, <1>2, <1>3, <2>1
<1>5. CASE handle_ # "open"
  BY <1>2, <1>3, <1>5 DEF send_buf
<1> QED BY <1>4, <1>5

LEMMA TypeNext == Types /\ [Next]_vars => Types'
<1> SUFFICES ASSUME Types, [Next]_vars PROVE Types'
  OBVIOUS
<1> USE DEF Types, uvVars, sendVars, apiVars, eventVars
<1> DEFINE Fs == {"user", "written", "on_stop", "on_connect_failed", "on_close"}
<1>1. /\ \A fs \in Seq(Fs) : stack # <<>> /\ Continue(fs) => stack' \in Seq(Frames)
      /\ <<>> \in Seq(Fs) /\ \A f \in Fs : <<f>> \in Seq(Fs)
      /\ \A f, g \in Fs : <<f, g>> \in Seq(Fs)
  <2>1. ASSUME NEW fs \in Seq(Fs), stack # <<>>, Continue(fs)
        PROVE  stack' \in Seq(Frames)
    <3>1. fs \in Seq(Frames)
      BY DEF Frames, Handlers
    <3>2. Tail(stack) \in Seq(Frames)
      BY <2>1, TailHas
    <3> QED BY <2>1, <3>1, <3>2, ConcatHas DEF Continue
  <2> QED BY <2>1
<1> HIDE DEF Fs
<1>2. "user" \in Fs /\ "written" \in Fs /\ "on_stop" \in Fs
      /\ "on_connect_failed" \in Fs /\ "on_close" \in Fs
  BY DEF Fs
<1>3. CASE RunTask
  <2>1. tasks' \in Seq(Handlers) /\ Head(tasks) \in Handlers
    BY <1>3, TailHas DEF RunTask
  <2>2. stack' \in Seq(Frames)
    BY <1>3, <2>1 DEF RunTask, Frames
  <2> QED BY <1>3, <2>1, <2>2 DEF RunTask
<1>4. CASE UserReturns
  <2>1. stack' \in Seq(Frames)
    BY <1>4, TailHas DEF UserReturns, Running
  <2> QED BY <1>4, <2>1 DEF UserReturns
<1>5. CASE on_start
  <2>1. stack' \in Seq(Frames)
    BY <1>1, <1>2, <1>5 DEF on_start, Running
  <2>2. CASE connected_
    BY <1>5, <2>1, <2>2 DEF on_start
  <2>3. CASE ~connected_
    <3>1. /\ turns' = turns + 1 /\ event' = "begun" /\ connecting' \in BOOLEAN
          /\ connected_' = TRUE /\ handle_' = "open" /\ reading' = FALSE
          /\ UNCHANGED <<data, sendVars, tasks, apiVars, crashed, faults>>
      BY <1>5, <2>3 DEF on_start
    <3>2. turns' \in Nat
      BY <3>1
    <3> QED BY <2>1, <3>1, <3>2
  <2> QED BY <2>2, <2>3
<1>6. CASE on_stop
  BY <1>1, <1>2, <1>6 DEF on_stop, Running, Close
<1>7. CASE on_send
  <2>1. stack' \in Seq(Frames)
    BY <1>1, <1>2, <1>7 DEF on_send, Running, Refuse, Queue
  <2>2. CASE ~connected_
    BY <1>7, <2>1, <2>2 DEF on_send
  <2>3. CASE connected_ /\ Full
    <3>1. event' \in {"early", "traffic"} /\ UNCHANGED sendVars
      BY <1>7, <2>3 DEF on_send, Refuse
    <3> QED BY <1>7, <2>1, <3>1 DEF on_send
  <2>4. CASE connected_ /\ ~Full
    <3>1. /\ accepted' \in Nat /\ send_buf_' = Append(send_buf_, accepted')
          /\ Len(send_buf_) < MaxSendBuf /\ UNCHANGED event
      BY <1>7, <2>4, ConnectionAssumption DEF on_send, Queue, Full
    <3>2. send_buf_' \in Seq(Nat) /\ Len(send_buf_') <= MaxSendBuf /\ send_buf_' # <<>>
      <4>1. send_buf_' \in Seq(Nat) /\ Len(send_buf_') = Len(send_buf_) + 1
        BY <3>1
      <4>2. Len(send_buf_) \in Nat
        OBVIOUS
      <4>3. Len(send_buf_') > 0 /\ Len(send_buf_') <= MaxSendBuf
        BY <3>1, <4>1, <4>2, ConnectionAssumption
      <4> QED BY <4>1, <4>3, LongIsNotEmpty
    <3>3. writes' \in Nat /\ wire' \in Seq(Nat)
      <4>1. UNCHANGED <<writes, wire>> \/ send_buf
        BY <1>7, <2>4 DEF on_send, Queue
      <4> QED BY <3>2, <4>1, BufTypes
    <3> QED BY <1>7, <2>1, <3>1, <3>2, <3>3 DEF on_send
  <2> QED BY <1>7, <2>2, <2>3, <2>4 DEF on_send
<1>8. CASE on_connect
  <2>1. stack' \in Seq(Frames)
    BY <1>1, <1>2, <1>8 DEF on_connect, Running
  <2>2. data' \in BOOLEAN /\ reading' \in BOOLEAN
    BY <1>8 DEF on_connect, SetData
  <2>3. turns' = turns + 1 /\ turns + 1 \in Nat
    BY <1>8 DEF on_connect
  <2> QED BY <1>8, <2>1, <2>2, <2>3 DEF on_connect
<1>9. CASE on_write
  <2>1. stack' \in Seq(Frames)
    <3> DEFINE last == IF Running("on_write") THEN "written" ELSE "on_stop"
    <3>1. last \in Fs
      BY <1>2
    <3>2. stack # <<>> /\ (Continue(<<"user", last>>) \/ Continue(<<>>))
      BY <1>9 DEF on_write, Running
    <3> HIDE DEF last
    <3> QED BY <1>1, <1>2, <3>1, <3>2
  <2>2. /\ event' \in {"none", "begun", "early", "open", "traffic", "close"}
        /\ crashed' \in BOOLEAN
    BY <1>9 DEF on_write
  <2> QED BY <1>9, <2>1, <2>2 DEF on_write
<1>10. CASE written
  <2>1. stack' \in Seq(Frames)
    BY <1>1, <1>2, <1>10 DEF written, Running
  <2>2. CASE send_buf_ = <<>>
    BY <1>10, <2>1, <2>2 DEF written
  <2>3. CASE send_buf_ # <<>>
    <3>1. send_buf_' \in Seq(Nat) /\ Len(send_buf_') = Len(send_buf_) - 1
      <4>1. send_buf_' = Tail(send_buf_)
        BY <1>10, <2>3 DEF written, Pop
      <4> QED BY <2>3, <4>1, HeadTailProperties
    <3>2. writes' \in Nat /\ wire' \in Seq(Nat)
      <4>1. \/ UNCHANGED <<writes, wire>>
            \/ (Len(send_buf_) > 1 /\ send_buf)
        BY <1>10, <2>3 DEF written, SendNext
      <4>2. Len(send_buf_) > 1 => send_buf_' # <<>>
        BY <3>1, EmptySeq
      <4> QED BY <3>1, <4>1, <4>2, BufTypes
    <3> QED BY <1>10, <2>1, <2>3, <3>1, <3>2, ConnectionAssumption DEF written
  <2> QED BY <2>2, <2>3
<1>11. CASE close_cb
  BY <1>1, <1>2, <1>11 DEF close_cb, Running
<1>12. CASE on_close
  <2>1. send_buf_' \in Seq(Nat) /\ Len(send_buf_') = 0
    BY <1>12 DEF on_close, clear_buf
  <2>2. stack' \in Seq(Frames)
    BY <1>1, <1>2, <1>12 DEF on_close, Running
  <2>3. turns' \in Nat /\ Len(send_buf_') <= MaxSendBuf
    BY <1>12, <2>1, ConnectionAssumption DEF on_close
  <2> QED BY <1>12, <2>1, <2>2, <2>3 DEF on_close
<1>13. CASE ConnectDone \/ Accept \/ WriteDone \/ on_read
  <2>1. \A f \in Frames : <<f>> \in Seq(Frames)
    OBVIOUS
  <2>2. stack' \in Seq(Frames)
    BY <1>13, <2>1 DEF ConnectDone, Accept, WriteDone, on_read, Frames, Handlers
  <2>3. CASE ConnectDone
    BY <2>2, <2>3 DEF ConnectDone
  <2>4. CASE Accept
    BY <2>2, <2>4 DEF Accept
  <2>5. CASE WriteDone
    BY <2>2, <2>5 DEF WriteDone
  <2>6. CASE on_read
    BY <2>2, <2>6 DEF on_read
  <2> QED BY <1>13, <2>3, <2>4, <2>5, <2>6
<1>14. CASE FinishClose
  <2> DEFINE failed == [w \in 1 .. writes |-> "on_write_failed"]
  <2>1. /\ (IF connecting THEN <<"on_connect_failed">> ELSE <<>>) \in Seq(Frames)
        /\ failed \in Seq(Frames)
        /\ <<"close_cb">> \in Seq(Frames)
    <3>1. failed \in Seq(Frames)
      <4>1. writes \in Nat /\ \A w \in 1 .. writes : "on_write_failed" \in Frames
        BY DEF Frames
      <4> QED BY <4>1
    <3>2. \A f \in Frames : <<f>> \in Seq(Frames)
      OBVIOUS
    <3>3. <<>> \in Seq(Frames) /\ "on_connect_failed" \in Frames /\ "close_cb" \in Frames
      BY DEF Frames
    <3> HIDE DEF failed
    <3> QED BY <3>1, <3>2, <3>3
  <2> HIDE DEF failed
  <2>2. stack' \in Seq(Frames)
    BY <1>14, <2>1, ConcatHas DEF FinishClose, failed
  <2> QED BY <1>14, <2>2 DEF FinishClose
<1>15. ASSUME NEW h \in Handlers, CallInline(h)
       PROVE  Types'
  <2>1. stack' \in Seq(Frames)
    BY <1>15, PushHas DEF CallInline, Frames
  <2> QED BY <1>15, <2>1 DEF CallInline, Count
<1>16. ASSUME NEW th \in Threads, NEW h \in Handlers, Call(th, h)
       PROVE  Types'
  BY <1>16 DEF Call, Count
<1>17. ASSUME NEW th \in Threads, Post(th)
       PROVE  Types'
  <2>1. call[th] \in Handlers
    BY <1>17 DEF Post
  <2> QED BY <1>17, <2>1 DEF Post
<1>18. CASE UNCHANGED vars
  BY <1>18 DEF vars
<1> QED
  BY <1>3, <1>4, <1>5, <1>6, <1>7, <1>8, <1>9, <1>10, <1>11, <1>12, <1>13, <1>14,
     <1>15, <1>16, <1>17, <1>18
  DEF Next, Handler

LEMMA TypesHold == Spec => []Types
  BY TypeInit, TypeNext, PTL DEF Spec

-----------------------------------------------------------------------------
(* The order of the buffers.                                               *)

OrderInv == Ordered(wire, send_buf_, accepted)

\* send_buf writes a buffer that was not written before.
LEMMA BufKeepsOrder ==
  ASSUME send_buf, wire \in Seq(Nat), send_buf_' \in Seq(Nat), send_buf_' # <<>>,
         accepted' \in Nat, Ordered(wire, send_buf_', accepted'),
         \A i \in 1 .. Len(wire) : wire[i] < send_buf_'[1]
  PROVE  Ordered(wire', send_buf_', accepted')
<1>1. CASE handle_ = "open"
  <2>1. Ordered(Append(wire, Head(send_buf_')), send_buf_', accepted')
    BY WriteKeepsOrder
  <2> QED BY <1>1, <2>1 DEF send_buf, FrontBuf
<1>2. CASE handle_ # "open"
  BY <1>2 DEF send_buf
<1> QED BY <1>1, <1>2

LEMMA OrderNext == Types /\ OrderInv /\ [Next]_vars => OrderInv'
<1> SUFFICES ASSUME Types, OrderInv, [Next]_vars PROVE OrderInv'
  OBVIOUS
<1> USE DEF OrderInv, uvVars, sendVars, apiVars, eventVars
<1>1. /\ wire \in Seq(Nat) /\ send_buf_ \in Seq(Nat) /\ accepted \in Nat
  BY DEF Types
<1>2. CASE on_send
  <2>1. CASE ~(connected_ /\ ~Full)
    BY <1>2, <2>1 DEF on_send, Refuse
  <2>2. CASE connected_ /\ ~Full
    <3>1. /\ send_buf_' = Append(send_buf_, accepted + 1) /\ accepted' = accepted + 1
          /\ UNCHANGED wire \/ (send_buf_ = <<>> /\ send_buf)
      BY <1>2, <2>2 DEF on_send, Queue, Sending
    <3>2. Ordered(wire, send_buf_', accepted')
      BY <1>1, <3>1, QueueKeepsOrder
    <3>3. /\ send_buf_' \in Seq(Nat) /\ send_buf_' # <<>> /\ accepted' \in Nat
      BY <1>1, <3>1
    <3>4. send_buf_ = <<>> => \A i \in 1 .. Len(wire) : wire[i] < send_buf_'[1]
      <4>1. \A i \in 1 .. Len(wire) : wire[i] <= accepted /\ wire[i] \in Nat
        BY <1>1 DEF Ordered
      <4> QED BY <1>1, <3>1, <4>1
    <3> QED BY <1>1, <3>1, <3>2, <3>3, <3>4, BufKeepsOrder
  <2> QED BY <2>1, <2>2
<1>3. CASE written
  <2>1. CASE send_buf_ = <<>>
    BY <1>3, <2>1 DEF written
  <2>2. CASE send_buf_ # <<>>
    <3>1. /\ send_buf_' = Tail(send_buf_) /\ accepted' = accepted
          /\ UNCHANGED wire \/ (Len(send_buf_) > 1 /\ send_buf)
      BY <1>3, <2>2 DEF written, Pop, SendNext
    <3>2. /\ Ordered(wire, send_buf_', accepted')
          /\ \A i \in 1 .. Len(wire), j \in 1 .. Len(send_buf_') : wire[i] < send_buf_'[j]
      BY <1>1, <2>2, <3>1, PopKeepsOrder
    <3>3. /\ send_buf_' \in Seq(Nat) /\ accepted' \in Nat
          /\ Len(send_buf_) > 1 => send_buf_' # <<>> /\ 1 \in 1 .. Len(send_buf_')
      <4>1. /\ send_buf_' \in Seq(Nat) /\ Len(send_buf_') = Len(send_buf_) - 1
            /\ Len(send_buf_) \in Nat
        BY <1>1, <2>2, <3>1, HeadTailProperties
      <4>2. Len(send_buf_) > 1 => Len(send_buf_') > 0
        BY <4>1
      <4> QED BY <1>1, <3>1, <4>1, <4>2, LongIsNotEmpty
    <3> QED BY <1>1, <3>1, <3>2, <3>3, BufKeepsOrder
  <2> QED BY <2>1, <2>2
<1>4. CASE on_close
  BY <1>4, ForgetKeepsOrder DEF on_close, clear_buf
<1>5. CASE UNCHANGED <<wire, send_buf_, accepted>>
  BY <1>5
<1> QED
  BY <1>2, <1>3, <1>4, <1>5
  DEF Next, vars, Handler, RunTask, UserReturns, on_start, on_stop, on_connect,
      on_write, close_cb, FinishClose, ConnectDone, Accept, WriteDone, on_read,
      CallInline, Call, Post

LEMMA OrderHolds == Spec => []OrderInv
<1>1. Init => OrderInv
  BY DEF Init, OrderInv, Ordered
<1> QED BY <1>1, TypesHold, OrderNext, PTL DEF Spec

-----------------------------------------------------------------------------
(* The invariant.                                                          *)

\* The code f is to run in the loop's thread; it is to run after the call that is
\* running; the handler f is called, posted or to run; and that in one place.
Has(f) == In(stack, f)
Under(f) == stack # <<>> /\ In(Tail(stack), f)
Out(f) == UnderWay(call, tasks, stack, f)
Single(f) == InOnePlace(call, tasks, stack, f)

\* The connection is new, or its end has been reported.
Idle == handle_ \in {"none", "closed"} /\ event \in {"none", "close"}

\* It is being opened, its end is being reported, a write is being reported.
Reporting == Has("on_connect") \/ Has("on_connect_failed")
Opening == connecting \/ Reporting
Ending == Has("close_cb") \/ Has("on_close")
Written == Has("on_write") \/ Has("on_write_failed") \/ Has("written")

\* The flags, and what the application was told last, follow the handle.
HandleState ==
  /\ handle_ = "none" => event = "none"
  /\ handle_ = "open" => connected_ \/ Reporting
  /\ connected_ => handle_ = "open"
  /\ connecting => connected_
  /\ reading => connected_ /\ ~Opening
  /\ handle_ = "open" =>
       event \in IF Opening THEN {"none", "begun", "early"} ELSE {"open", "traffic"}
  /\ connecting => event \in {"begun", "early"}
  /\ handle_ = "closing" => event \in {"open", "traffic"}
  /\ starts = 0 => handle_ = "none" /\ ~connected_

\* An idle connection keeps nothing, and calls nothing but the application.
IdleState ==
  Idle => /\ send_buf_ = <<>> /\ writes = 0
          /\ \A f \in Frames \ {"user", "on_start", "on_stop", "on_send"} : ~Has(f)

\* The end is reported from the closed handle: first the write that was
\* cancelled, then the close.
EndState ==
  /\ handle_ = "closed" /\ event \in {"open", "traffic"} => Ending /\ writes = 0
  /\ Ending => handle_ = "closed" /\ event \in {"open", "traffic"}
  /\ Has("close_cb") => stack \in {<<"close_cb">>, <<"on_write_failed", "close_cb">>}
  /\ Has("on_close") => stack = <<"on_close">>

\* A handler ends before the code beneath it goes on.
Continuations == {"user", "written", "on_stop", "close_cb"}
StackState == \A f \in Frames \ Continuations : ~Under(f)

\* The report of a connect or an accept runs alone, and while a connect is in
\* flight nothing but the application's code runs.
OpenState ==
  /\ Reporting => /\ handle_ = "open" /\ ~connecting
                  /\ Head(stack) \in {"on_connect", "on_connect_failed"}
                  /\ \A f \in Frames \ {"user"} : ~Under(f)
                  /\ ~connected_ => send_buf_ = <<>>
  /\ connecting => \A f \in Frames \ {"user", "on_send"} : ~Has(f)

\* A start finds the connection idle; a stop is not called while a start or a
\* connect is under way.
CallState ==
  /\ Out("on_start") => /\ Idle /\ ~connected_ /\ starts > 0
                        /\ ~Out("on_stop")
  /\ Single("on_start")
  /\ connecting => ~Out("on_stop")

\* The one write in flight is for the first buffer of the queue, from the moment
\* it is queued until its report has begun.
WriteState ==
  /\ writes <= 1
  /\ Written => writes = 0
  /\ handle_ = "open" =>
       /\ send_buf_ = <<>> => writes = 0
       /\ send_buf_ # <<>> /\ ~Written /\ ~Has("on_stop") => writes = 1
  /\ Has("on_write") => stack = <<"on_write">> /\ handle_ = "open"
  /\ Has("on_write_failed") =>
       stack \in {<<"on_write_failed">>, <<"on_write_failed", "close_cb">>}
  /\ Has("on_write") \/ Has("written") => send_buf_ # <<>>
  /\ Has("on_write_failed") /\ handle_ = "open" => send_buf_ # <<>>
  /\ Has("written") => /\ Once(stack, "written")
                       /\ handle_ \in {"open", "closing"} /\ ~Opening

\* The handle knows its connection once that was up, unless a connect failed.
DataState ==
  "connect_error" \notin faults =>
    /\ ~Has("on_connect_failed")
    /\ handle_ \in {"closing", "closed"} => data
    /\ handle_ = "open" /\ ~Opening => data
    /\ ~crashed

Safe == /\ HandleState /\ IdleState /\ EndState /\ StackState
        /\ OpenState /\ CallState /\ WriteState /\ DataState

ConnInv == Listens => Safe

-----------------------------------------------------------------------------
(* What a step does to the stack.                                          *)

LEMMA StackTop ==
  ASSUME Types, stack # <<>>
  PROVE  /\ Head(stack) \in Frames
         /\ \A f : Has(f) <=> Head(stack) = f \/ Under(f)
  BY TailHas DEF Types, Has, Under

\* The call at the top is replaced by nothing, by a, or by a and then b.
LEMMA Dropped ==
  ASSUME Types, stack # <<>>, Continue(<<>>) \/ stack' = Tail(stack), tasks' = tasks,
         call' = call, NEW f
  PROVE  /\ stack' = Tail(stack)
         /\ Has(f)' <=> Under(f)
         /\ Under(f)' => Under(f)
         /\ Out(f)' => Out(f)
         /\ Single(f) => Single(f)' /\ (Head(stack) = f => ~Out(f)')
         /\ Once(stack, f) => Once(stack, f)' /\ (Head(stack) = f => ~Has(f)')
<1> DEFINE fs == <<>>
<1>1. /\ stack \in Seq(Frames) /\ Tail(stack) \in Seq(Frames)
      /\ stack' = Tail(stack)
  BY TailHas DEF Types, Continue
<1>2. /\ Out(f)' => Out(f)
      /\ Single(f) => Single(f)' /\ (Head(stack) = f => ~Out(f)')
  <2>1. /\ stack \in Seq(Frames) /\ fs \in Seq(Frames)
        /\ stack' = fs \o Tail(stack) /\ ~In(fs, f)
    BY <1>1, EmptyHas
  <2> HIDE DEF fs
  <2> QED BY <2>1, ContinueMoves DEF Out, Single
<1>3. Once(stack, f) => Once(stack, f)' /\ (Head(stack) = f => ~Has(f)')
  BY <1>1, TailHas DEF Has
<1>4. stack' # <<>> /\ In(Tail(stack'), f) => In(stack', f)
  BY <1>1, TailHas
<1> QED BY <1>1, <1>2, <1>3, <1>4 DEF Has, Under

LEMMA Replaced ==
  ASSUME Types, stack # <<>>, NEW a \in Frames, Continue(<<a>>), tasks' = tasks,
         call' = call, NEW f
  PROVE  /\ stack' # <<>> /\ Head(stack') = a
         /\ Has(f)' <=> f = a \/ Under(f)
         /\ Under(f)' <=> Under(f)
         /\ f # a => /\ Out(f)' => Out(f)
                     /\ Single(f) => Single(f)' /\ (Head(stack) = f => ~Out(f)')
                     /\ Once(stack, f) =>
                          Once(stack, f)' /\ (Head(stack) = f => ~Has(f)')
<1> DEFINE fs == <<a>>
           r == Tail(stack)
<1>1. /\ stack \in Seq(Frames) /\ r \in Seq(Frames) /\ stack' = <<a>> \o r
  BY TailHas DEF Types, Continue
<1>2. /\ stack' # <<>> /\ Head(stack') = a /\ Tail(stack') = Tail(stack)
      /\ In(stack', f) <=> a = f \/ In(Tail(stack), f)
      /\ Once(Tail(stack), f) /\ a # f => Once(stack', f)
  <2> HIDE DEF r
  <2>1. /\ stack' # <<>> /\ Head(stack') = a /\ Tail(stack') = r
        /\ In(stack', f) <=> a = f \/ In(r, f)
        /\ Once(r, f) /\ a # f => Once(stack', f)
    BY <1>1, PushHas
  <2> QED BY <2>1 DEF r
<1>3. ASSUME f # a
      PROVE  /\ Out(f)' => Out(f)
             /\ Single(f) => Single(f)' /\ (Head(stack) = f => ~Out(f)')
  <2>1. /\ stack \in Seq(Frames) /\ fs \in Seq(Frames)
        /\ stack' = fs \o Tail(stack) /\ ~In(fs, f)
    BY <1>1, <1>3, SingletonHas
  <2> HIDE DEF fs, r
  <2> QED BY <2>1, ContinueMoves DEF Out, Single
<1>4. f # a => (Once(stack, f) => Once(stack, f)' /\ (Head(stack) = f => ~Has(f)'))
  BY <1>1, <1>2, TailHas DEF Has
<1> QED BY <1>2, <1>3, <1>4 DEF Has, Under

LEMMA ReplacedByTwo ==
  ASSUME Types, stack # <<>>, NEW a \in Frames, NEW b \in Frames,
         Continue(<<a, b>>), tasks' = tasks, call' = call, NEW f
  PROVE  /\ stack' # <<>> /\ Head(stack') = a
         /\ Has(f)' <=> f = a \/ f = b \/ Under(f)
         /\ Under(f)' <=> f = b \/ Under(f)
         /\ f \notin {a, b} =>
              /\ Out(f)' => Out(f)
              /\ Single(f) => Single(f)' /\ (Head(stack) = f => ~Out(f)')
              /\ Once(stack, f) => Once(stack, f)' /\ (Head(stack) = f => ~Has(f)')
         /\ ~Under(b) /\ a # b => Once(stack, b)'
<1> DEFINE r == <<b>> \o Tail(stack)
           fs == <<a, b>>
<1>1. /\ stack \in Seq(Frames) /\ fs \in Seq(Frames) /\ Tail(stack) \in Seq(Frames)
      /\ stack' = fs \o Tail(stack)
  BY TailHas DEF Types, Continue
<1>2. f \notin {a, b} => ~In(fs, f)
  BY DEF In
<1>3. /\ r \in Seq(Frames)
      /\ \A g : In(r, g) <=> b = g \/ In(Tail(stack), g)
      /\ \A g : Once(Tail(stack), g) /\ (b = g => ~In(Tail(stack), g)) => Once(r, g)
  BY <1>1, PushHas
<1>8. stack' = <<a>> \o r
  <2> DEFINE s == Tail(stack)
  <2>1. s \in Seq(Frames) /\ stack' = <<a, b>> \o s
    BY <1>1
  <2> HIDE DEF s
  <2>2. <<a>> \in Seq(Frames) /\ <<b>> \in Seq(Frames) /\ <<a>> \o <<b>> = <<a, b>>
    BY ShortSequences
  <2>3. (<<a>> \o <<b>>) \o s = <<a>> \o (<<b>> \o s)
    BY <2>1, <2>2, ConcatAssociative
  <2> QED BY <2>1, <2>2, <2>3 DEF s
<1> HIDE DEF r, fs
<1>4. /\ stack' # <<>> /\ Head(stack') = a /\ Tail(stack') = r
      /\ \A g : In(stack', g) <=> a = g \/ In(r, g)
      /\ \A g : Once(r, g) /\ a # g => Once(stack', g)
  BY <1>3, <1>8, PushHas
<1>5. f \notin {a, b} => /\ Out(f)' => Out(f)
                         /\ Single(f) => Single(f)' /\ (Head(stack) = f => ~Out(f)')
  BY <1>1, <1>2, ContinueMoves DEF Out, Single
<1>6. f \notin {a, b} =>
        (Once(stack, f) => Once(stack, f)' /\ (Head(stack) = f => ~Has(f)'))
  BY <1>1, <1>3, <1>4, TailHas DEF Has
<1>7. ~Under(b) /\ a # b => Once(stack, b)'
  <2>1. ~In(Tail(stack), b) => Once(Tail(stack), b)
    BY DEF In, Once
  <2> QED BY <1>3, <1>4, <2>1 DEF Under
<1> QED BY <1>3, <1>4, <1>5, <1>6, <1>7 DEF Has, Under

\* The idle loop calls a.
LEMMA Polled ==
  ASSUME Types, stack = <<>>, NEW a \in Frames, stack' = <<a>>, NEW f
  PROVE  /\ ~Has(f) /\ ~Under(f)
         /\ stack' # <<>> /\ Head(stack') = a
         /\ Has(f)' <=> f = a
         /\ ~Under(f)'
         /\ Once(stack, f)'
         /\ f # a /\ tasks' = tasks /\ call' = call =>
              (Out(f)' => Out(f)) /\ (Single(f) => Single(f)')
<1>1. /\ ~In(<<>>, f) /\ Once(<<>>, f) /\ (In(<<a>>, f) <=> a = f) /\ Once(<<a>>, f)
      /\ Tail(<<a>>) = <<>> /\ Head(<<a>>) = a /\ <<a>> # <<>>
  BY EmptyHas, SingletonHas
<1> QED BY <1>1 DEF Has, Under, Out, Single, UnderWay, InOnePlace

\* The test of MayStart for a handler under way.
LEMMA OutstandingIsOut ==
  ASSUME Types, NEW h
  PROVE  Outstanding(h) <=> Out(h)
<1> DEFINE c == tasks \o stack
<1>1. tasks \in Seq(Frames) /\ stack \in Seq(Frames) /\ DOMAIN call = Threads
  <2>1. Handlers \subseteq Frames
    BY DEF Frames
  <2> QED BY <2>1, SeqMonotonic DEF Types
<1>2. In(c, h) <=> In(tasks, h) \/ In(stack, h)
  BY <1>1, ConcatHas
<1> HIDE DEF c
<1>3. h \in ToSet(c) <=> In(c, h)
  BY DEF ToSet, In
<1> QED BY <1>1, <1>2, <1>3 DEF Outstanding, Out, UnderWay, c

\* What is on the stack, by what runs.
LEMMA Tops ==
  ASSUME Types, Safe, stack # <<>>
  PROVE  /\ \A f \in Frames \ Continuations : Has(f) => Head(stack) = f
         /\ Has("close_cb") => Head(stack) \in {"close_cb", "on_write_failed"}
         /\ \A f : Has(f) <=> Head(stack) = f \/ Under(f)
<1>1. \A f : Has(f) <=> Head(stack) = f \/ Under(f)
  BY StackTop
<1>2. Has("close_cb") => Head(stack) \in {"close_cb", "on_write_failed"}
  BY DEF Safe, EndState
<1> QED BY <1>1, <1>2 DEF Safe, StackState

-----------------------------------------------------------------------------
(* Steps that leave the connection alone.                                  *)

\* The code that is neither a handler nor the application's.
Special == Frames \ ({"user"} \cup Handlers)

\* The application may be told that a buffer was refused.
Tells ==
  \/ event' = event
  \/ connecting /\ event' = "early"
  \/ connected_ /\ ~Opening /\ event' = "traffic"

LEMMA QuietKeeps ==
  ASSUME Types, Safe, Tells,
         UNCHANGED <<connected_, uvVars, send_buf_, writes, crashed, faults>>,
         starts' = 0 => starts = 0,
         \/ stack' = stack
         \/ \A f \in Special \ {"written"} : ~Has(f) /\ ~Has(f)',
         Has("written")' <=> Has("written"),
         Has("written") => Once(stack, "written")',
         Has("on_stop") /\ handle_ = "open" => Has("on_stop")',
         StackState', CallState',
         connecting => \A f \in Frames \ {"user", "on_send"} : ~Has(f)'
  PROVE  Safe'
<1> USE DEF Safe, uvVars
<1>1. \A f \in Special : Has(f)' <=> Has(f)
  BY DEF Has
<1>2. /\ \A f \in {"on_connect", "on_connect_failed", "on_write", "on_write_failed",
                   "written", "close_cb", "on_close"} : f \in Special
      /\ Frames \ {"user", "on_start", "on_stop", "on_send"} = Special
  BY DEF Special, Frames, Handlers
<1>3. /\ Has("on_connect")' <=> Has("on_connect")
      /\ Has("on_connect_failed")' <=> Has("on_connect_failed")
      /\ Has("on_write")' <=> Has("on_write")
      /\ Has("on_write_failed")' <=> Has("on_write_failed")
      /\ Has("close_cb")' <=> Has("close_cb")
      /\ Has("on_close")' <=> Has("on_close")
  BY <1>1, <1>2
<1>4. stack' = stack \/ ( /\ ~Reporting /\ ~Ending /\ ~Has("on_write")
                          /\ ~Has("on_write_failed") /\ ~Reporting' /\ ~Ending'
                          /\ ~Has("on_write")' /\ ~Has("on_write_failed")')
  BY <1>2 DEF Reporting, Ending
<1>11. UNCHANGED event \/ handle_ = "open"
  BY DEF Tells, HandleState
<1>5. HandleState'
  BY <1>3, <1>11 DEF HandleState, Opening, Reporting, Tells
<1>6. IdleState'
  BY <1>1, <1>2, <1>11 DEF IdleState, Idle
<1>7. EndState'
  BY <1>3, <1>4, <1>11 DEF EndState, Ending
<1>8. OpenState'
  <2>1. Reporting' => Reporting /\ stack' = stack
    BY <1>3, <1>4 DEF Reporting
  <2> QED BY <2>1 DEF OpenState, Under
<1>9. WriteState'
  BY <1>3, <1>4 DEF WriteState, Written, Opening, Reporting
<1>10. DataState'
  BY <1>3 DEF DataState, Opening, Reporting
<1> QED BY <1>5, <1>6, <1>7, <1>8, <1>9, <1>10

\* A permitted call puts its handler under way.
LEMMA PermittedKeeps ==
  ASSUME Types, Safe, Listens, NEW h \in Handlers, Permitted(h), Count(h),
         UNCHANGED <<connected_, handle_, event, connecting>>,
         \A f \in Handlers : /\ Out(f)' <=> Out(f) \/ f = h
                             /\ Single(f) /\ (f = h => ~Out(f)) => Single(f)'
  PROVE  CallState' /\ (starts' = 0 => starts = 0)
<1>1. CASE h = "on_start"
  <2>1. /\ ~connected_ /\ Idle /\ starts' = starts + 1 /\ starts \in Nat
        /\ ~Out("on_start") /\ ~Out("on_stop")
    BY <1>1, OutstandingIsOut DEF Permitted, MayStart, Idle, Count, Types
  <2> QED BY <1>1, <2>1 DEF Safe, CallState, Handlers, Idle
<1>2. CASE h = "on_stop"
  <2>1. connected_ /\ ~connecting /\ starts' = starts
    BY <1>2 DEF Permitted, Listens, Count, Types
  <2> QED BY <1>2, <2>1 DEF Safe, CallState, Handlers, Idle
<1>3. CASE h = "on_send"
  <2>1. starts' = starts
    BY <1>3 DEF Count, Types
  <2> QED BY <1>3, <2>1 DEF Safe, CallState, Handlers, Idle
<1> QED BY <1>1, <1>2, <1>3 DEF Handlers

LEMMA CallKeeps ==
  ASSUME Types, Safe, Listens, NEW th \in Threads, NEW h \in Handlers, Call(th, h)
  PROVE  Safe'
<1>1. /\ call \in [Threads -> Handlers \cup {"none"}] /\ call[th] = "none"
      /\ call' = [call EXCEPT ![th] = h] /\ stack' = stack /\ tasks' = tasks
      /\ UNCHANGED <<connected_, uvVars, send_buf_, writes, event, crashed, faults>>
  BY DEF Types, Call, sendVars, eventVars
<1>2. ASSUME NEW f \in Handlers
      PROVE  /\ Out(f)' <=> Out(f) \/ f = h
             /\ Single(f) /\ (f = h => ~Out(f)) => Single(f)'
  <2>1. call[th] # f
    BY <1>1 DEF Handlers
  <2> QED BY <1>1, <2>1, CallMoves DEF Out, Single
<1>3. CallState' /\ (starts' = 0 => starts = 0)
  BY <1>1, <1>2, PermittedKeeps DEF Call, uvVars
<1>4. /\ \A f : Has(f)' <=> Has(f)
      /\ StackState' /\ (Once(stack, "written")' <=> Once(stack, "written"))
  BY <1>1 DEF Has, Under, Safe, StackState
<1>5. /\ connecting => \A f \in Frames \ {"user", "on_send"} : ~Has(f)'
      /\ Has("written")' <=> Has("written")
      /\ Has("written") => Once(stack, "written")'
      /\ Has("on_stop") => Has("on_stop")'
  BY <1>4 DEF Safe, OpenState, WriteState
<1> QED BY <1>1, <1>3, <1>4, <1>5, QuietKeeps DEF Tells

LEMMA PostKeeps ==
  ASSUME Types, Safe, NEW th \in Threads, Post(th)
  PROVE  Safe'
<1>1. /\ call \in [Threads -> Handlers \cup {"none"}] /\ call[th] \in Handlers
      /\ tasks \in Seq(Handlers)
      /\ call' = [call EXCEPT ![th] = "none"] /\ tasks' = Append(tasks, call[th])
      /\ stack' = stack
      /\ UNCHANGED <<connected_, uvVars, send_buf_, writes, event, crashed, faults>>
      /\ UNCHANGED <<starts, handle_, connecting>>
  BY DEF Types, Post, sendVars, eventVars, uvVars
<1>2. ASSUME NEW f \in Handlers
      PROVE  (Out(f)' <=> Out(f)) /\ (Single(f) => Single(f)')
  <2>1. "none" # f
    BY DEF Handlers
  <2> QED BY <1>1, <2>1, PostMoves DEF Out, Single
<1>3. CallState'
  BY <1>1, <1>2 DEF Safe, CallState, Idle, Handlers
<1>4. /\ \A f : Has(f)' <=> Has(f)
      /\ StackState' /\ (Once(stack, "written")' <=> Once(stack, "written"))
  BY <1>1 DEF Has, Under, Safe, StackState
<1>5. /\ connecting => \A f \in Frames \ {"user", "on_send"} : ~Has(f)'
      /\ Has("written")' <=> Has("written")
      /\ Has("written") => Once(stack, "written")'
      /\ Has("on_stop") => Has("on_stop")'
  BY <1>4 DEF Safe, OpenState, WriteState
<1> QED BY <1>1, <1>3, <1>4, <1>5, QuietKeeps DEF Tells

\* What a callback of the application or the idle loop has under it.
LEMMA UserTop ==
  ASSUME Types, Safe, stack = <<>> \/ Head(stack) = "user"
  PROVE  \A f \in Special \ {"written"} : ~Has(f)
<1>1. CASE stack = <<>>
  BY <1>1, EmptyHas DEF Has
<1>2. CASE stack # <<>> /\ Head(stack) = "user"
  BY <1>2, Tops DEF Special, Continuations, Handlers, Frames
<1> QED BY <1>1, <1>2

LEMMA InlineKeeps ==
  ASSUME Types, Safe, Listens, NEW h \in Handlers, CallInline(h)
  PROVE  Safe'
<1>1. /\ stack \in Seq(Frames) /\ h \in Frames /\ stack # <<>> /\ Head(stack) = "user"
      /\ stack' = <<h>> \o stack /\ tasks' = tasks /\ call' = call
      /\ UNCHANGED <<connected_, uvVars, send_buf_, writes, event, crashed, faults>>
      /\ UNCHANGED <<handle_, connecting>>
  BY DEF Types, CallInline, Running, sendVars, eventVars, uvVars, Frames
<1>2. /\ \A f : Has(f)' <=> f = h \/ Has(f)
      /\ \A f : Under(f)' <=> Has(f)
      /\ \A f : Once(stack, f) /\ f # h => Once(stack, f)'
  BY <1>1, PushHas DEF Has, Under
<1>3. \A f \in Handlers : /\ Out(f)' <=> Out(f) \/ f = h
                          /\ Single(f) /\ (f = h => ~Out(f)) => Single(f)'
  BY <1>1, InlineMoves DEF Out, Single
<1>4. CallState' /\ (starts' = 0 => starts = 0)
  BY <1>1, <1>3, PermittedKeeps DEF CallInline
<1>5. \A f \in Special \ {"written"} : ~Has(f) /\ ~Has(f)'
  BY <1>1, <1>2, UserTop DEF Special
<1>6. StackState'
  BY <1>1, <1>2, StackTop DEF Safe, StackState, Continuations
<1>7. /\ Has("written")' <=> Has("written")
      /\ Has("written") => Once(stack, "written")'
      /\ Has("on_stop") => Has("on_stop")'
  BY <1>2 DEF Safe, WriteState, Handlers
<1>8. connecting => \A f \in Frames \ {"user", "on_send"} : ~Has(f)'
  <2>1. connecting => h = "on_send"
    BY DEF CallInline, Permitted, Listens, Safe, HandleState, Handlers
  <2> QED BY <1>2, <2>1 DEF Safe, OpenState
<1> QED BY <1>1, <1>4, <1>5, <1>6, <1>7, <1>8, QuietKeeps DEF Tells

LEMMA UserReturnsKeeps ==
  ASSUME Types, Safe, UserReturns
  PROVE  Safe'
<1>1. /\ stack # <<>> /\ Head(stack) = "user"
      /\ stack' = Tail(stack) /\ tasks' = tasks /\ call' = call
      /\ UNCHANGED <<connected_, uvVars, send_buf_, writes, event, crashed, faults>>
      /\ UNCHANGED <<handle_, connecting, starts>>
  BY DEF UserReturns, Running, sendVars, eventVars, uvVars, apiVars
<1>2. /\ \A f : Has(f)' <=> Under(f)
      /\ \A f : Under(f)' => Under(f)
      /\ \A f : (Out(f)' => Out(f)) /\ (Single(f) => Single(f)')
      /\ \A f : Once(stack, f) => Once(stack, f)'
  BY <1>1, Dropped
<1>3. \A f : f # "user" => (Has(f)' <=> Has(f))
  BY <1>1, <1>2, StackTop
<1>4. CallState'
  BY <1>1, <1>2 DEF Safe, CallState, Idle
<1>5. \A f \in Special \ {"written"} : ~Has(f) /\ ~Has(f)'
  BY <1>1, <1>3, UserTop DEF Special
<1>6. StackState'
  BY <1>2 DEF Safe, StackState
<1>7. /\ Has("written")' <=> Has("written")
      /\ Has("written") => Once(stack, "written")'
      /\ Has("on_stop") => Has("on_stop")'
      /\ connecting => \A f \in Frames \ {"user", "on_send"} : ~Has(f)'
  BY <1>2, <1>3 DEF Safe, WriteState, OpenState
<1> QED BY <1>1, <1>4, <1>5, <1>6, <1>7, QuietKeeps DEF Tells

LEMMA RunKeeps ==
  ASSUME Types, Safe, RunTask
  PROVE  Safe'
<1> DEFINE h == Head(tasks)
<1>1. /\ stack = <<>> /\ tasks \in Seq(Handlers) /\ tasks # <<>> /\ h \in Handlers
      /\ h \in Frames
      /\ stack' = <<h>> /\ tasks' = Tail(tasks) /\ call' = call
      /\ UNCHANGED <<connected_, uvVars, send_buf_, writes, event, crashed, faults>>
      /\ UNCHANGED <<handle_, connecting, starts>>
  BY TailHas DEF Types, RunTask, sendVars, eventVars, uvVars, apiVars, Frames
<1>2. /\ \A f : ~Has(f) /\ (Has(f)' <=> f = h) /\ ~Under(f)' /\ Once(stack, f)'
  BY <1>1, Polled
<1>3. /\ \A f : (Out(f)' <=> Out(f)) /\ (Single(f) => Single(f)')
      /\ Out(h)
  BY <1>1, RunMoves, TailHas DEF Out, Single, UnderWay
<1> HIDE DEF h
<1>4. CallState'
  BY <1>1, <1>3 DEF Safe, CallState, Idle
<1>5. \A f \in Special \ {"written"} : ~Has(f) /\ ~Has(f)'
  BY <1>1, <1>2 DEF Special
<1>6. StackState'
  BY <1>2 DEF StackState
<1>7. /\ ~Has("written")' /\ ~Has("written") /\ ~Has("on_stop")
  BY <1>1, <1>2 DEF Handlers
<1>8. connecting => \A f \in Frames \ {"user", "on_send"} : ~Has(f)'
  <2>1. connecting => h = "on_send"
    BY <1>1, <1>3 DEF Safe, CallState, HandleState, Handlers
  <2> QED BY <1>2, <2>1
<1> QED BY <1>1, <1>4, <1>5, <1>6, <1>7, <1>8, QuietKeeps DEF Tells

-----------------------------------------------------------------------------
(* start(), stop() and send() in the loop's thread.                        *)

LEMMA FrameNames ==
  /\ \A f \in {"on_connect", "on_connect_failed", "on_write", "on_write_failed",
               "written", "close_cb", "on_close", "user", "on_start", "on_stop",
               "on_send"} : f \in Frames
  /\ \A f \in {"on_connect", "on_connect_failed", "on_write", "on_write_failed",
               "written", "close_cb", "on_close"} : f \in Special
  BY DEF Frames, Handlers, Special

LEMMA StartKeeps ==
  ASSUME Types, Safe, on_start
  PROVE  Safe'
<1>1. /\ stack # <<>> /\ Head(stack) = "on_start" /\ tasks' = tasks /\ call' = call
      /\ UNCHANGED <<data, send_buf_, writes, starts, crashed, faults>>
  BY DEF on_start, Running, sendVars, apiVars, eventVars, uvVars
<1>2. Has("on_start") /\ Out("on_start")
  BY <1>1, StackTop DEF Out, UnderWay, Has
<1>3. /\ Idle /\ ~connected_ /\ starts > 0 /\ ~Out("on_stop") /\ Single("on_start")
      /\ send_buf_ = <<>> /\ writes = 0 /\ event \in {"none", "close"}
      /\ "connect_error" \notin faults => ~crashed
  BY <1>2 DEF Safe, CallState, IdleState, Idle, DataState
<1>4. \A f \in Frames \ {"user"} : ~Under(f)
  <2>1. \A f \in Special : ~Has(f)
    BY <1>3 DEF Safe, IdleState, Special, Handlers
  <2>2. ~Has("on_stop")
    BY <1>3 DEF Out, UnderWay, Has
  <2>3. \A f : Under(f) => Has(f)
    BY <1>1, StackTop
  <2> QED
    BY <2>1, <2>2, <2>3 DEF Safe, StackState, Continuations, Special, Handlers
<1>5. connected_' = TRUE /\ handle_' = "open" /\ reading' = FALSE /\ event' = "begun"
  BY <1>3 DEF on_start
<1>6. CASE connecting' = TRUE /\ Continue(<<>>)
  <2>1. /\ \A f : (Has(f)' <=> Under(f)) /\ (Under(f)' => Under(f))
        /\ ~Out("on_start")' /\ ~Out("on_stop")' /\ Single("on_start")'
    BY <1>1, <1>3, <1>6, Dropped
  <2>2. \A f \in Frames \ {"user"} : ~Has(f)' /\ ~Under(f)'
    BY <1>4, <2>1
  <2>3. /\ ~Reporting' /\ ~Ending' /\ ~Written' /\ Opening' /\ ~Has("on_stop")'
        /\ ~Has("on_connect_failed")' /\ ~Has("close_cb")' /\ ~Has("on_close")'
        /\ ~Has("on_write")' /\ ~Has("on_write_failed")' /\ ~Has("written")'
    BY <1>6, <2>2, FrameNames DEF Reporting, Ending, Written, Opening
  <2>4. HandleState' /\ IdleState' /\ EndState'
    BY <1>1, <1>3, <1>5, <1>6, <2>3 DEF HandleState, IdleState, Idle, EndState
  <2>6. WriteState' /\ DataState'
    BY <1>1, <1>3, <1>5, <1>6, <2>3 DEF WriteState, DataState
  <2>5. StackState' /\ OpenState' /\ CallState'
    BY <2>1, <2>2, <2>3 DEF StackState, OpenState, CallState, Continuations
  <2> QED BY <2>4, <2>5, <2>6 DEF Safe
<1>7. CASE /\ "connect_error" \in faults /\ connecting' = FALSE
           /\ Continue(<<"on_connect_failed">>)
  <2>1. /\ stack' # <<>> /\ Head(stack') = "on_connect_failed"
        /\ \A f : Has(f)' <=> f = "on_connect_failed" \/ Under(f)
        /\ \A f : Under(f)' <=> Under(f)
        /\ ~Out("on_start")' /\ ~Out("on_stop")' /\ Single("on_start")'
    BY <1>1, <1>3, <1>7, FrameNames, Replaced
  <2>2. /\ Reporting' /\ ~Ending' /\ ~Written' /\ Opening' /\ ~Has("on_stop")'
        /\ ~Has("close_cb")' /\ ~Has("on_close")'
        /\ ~Has("on_write")' /\ ~Has("on_write_failed")' /\ ~Has("written")'
    BY <1>4, <2>1, FrameNames DEF Reporting, Ending, Written, Opening
  <2>3. HandleState' /\ IdleState' /\ EndState'
    BY <1>1, <1>3, <1>5, <1>7, <2>2 DEF HandleState, IdleState, Idle, EndState
  <2>5. WriteState' /\ DataState'
    BY <1>1, <1>3, <1>5, <1>7, <2>2 DEF WriteState, DataState
  <2>4. StackState' /\ OpenState' /\ CallState'
    BY <1>4, <1>5, <1>7, <2>1, <2>2 DEF StackState, OpenState, CallState, Continuations
  <2> QED BY <2>3, <2>4, <2>5 DEF Safe
<1> QED BY <1>3, <1>6, <1>7 DEF on_start

LEMMA StopKeeps ==
  ASSUME Types, Safe, on_stop
  PROVE  Safe'
<1>1. /\ stack # <<>> /\ Head(stack) = "on_stop" /\ tasks' = tasks /\ call' = call
      /\ UNCHANGED <<data, connecting, send_buf_, writes, event, starts, crashed, faults>>
  BY DEF on_stop, Running, sendVars, apiVars, eventVars
<1>2. /\ Has("on_stop") /\ Out("on_stop")
      /\ \A f \in Special \ {"written"} : ~Has(f)
  <2>1. \A f : Has(f) <=> Head(stack) = f \/ Under(f)
    BY <1>1, Tops
  <2> QED
    BY <1>1, <2>1, Tops DEF Out, UnderWay, Has, Special, Continuations, Handlers, Frames
<1>3. /\ ~connecting /\ ~Reporting /\ ~Opening /\ ~Ending /\ ~Out("on_start")
      /\ ~Has("on_write") /\ ~Has("on_write_failed") /\ ~Has("on_connect_failed")
      /\ ~Has("close_cb") /\ ~Has("on_close")
  BY <1>2, FrameNames DEF Safe, CallState, Reporting, Opening, Ending
<1>4. Continue(<<>>)
  BY <1>3 DEF on_stop, StopDue, Safe, HandleState
<1>5. /\ \A f : (Has(f)' <=> Under(f)) /\ (Under(f)' => Under(f))
      /\ \A f : (Out(f)' => Out(f)) /\ (Single(f) => Single(f)')
      /\ \A f : Once(stack, f) => Once(stack, f)'
      /\ \A f : Has(f) <=> "on_stop" = f \/ Under(f)
  BY <1>1, <1>4, Dropped, StackTop
<1>6. StackState'
  BY <1>5 DEF Safe, StackState
<1>7. CASE ~StopDue
  <2>1. /\ UNCHANGED <<connected_, handle_, reading>> /\ ~connected_ /\ handle_ # "open"
    BY <1>3, <1>7 DEF on_stop, StopDue, Safe, HandleState
  <2>2. CallState'
    BY <1>1, <1>3, <1>5 DEF Safe, CallState
  <2>3. \A f \in Special \ {"written"} : ~Has(f)'
    BY <1>2, <1>5
  <2>4. /\ Has("written")' <=> Has("written")
        /\ Has("written") => Once(stack, "written")'
    BY <1>5 DEF Safe, WriteState
  <2> QED BY <1>1, <1>2, <1>3, <1>6, <2>1, <2>2, <2>3, <2>4, QuietKeeps DEF uvVars, Tells
<1>8. CASE StopDue
  <2>1. /\ connected_ /\ handle_ = "open" /\ event \in {"open", "traffic"}
        /\ "connect_error" \notin faults => data /\ ~crashed
    BY <1>3, <1>8 DEF StopDue, Safe, HandleState, DataState
  <2>2. connected_' = FALSE /\ reading' = FALSE /\ handle_' = "closing"
    BY <1>8, <2>1 DEF on_stop, Close
  <2>3. /\ ~Reporting' /\ ~Opening' /\ ~Ending' /\ ~Out("on_start")'
        /\ ~Has("on_write")' /\ ~Has("on_write_failed")' /\ ~Has("on_connect_failed")'
        /\ ~Has("close_cb")' /\ ~Has("on_close")'
        /\ (Written' => Written) /\ (Has("written")' => Has("written"))
    BY <1>1, <1>3, <1>5 DEF Reporting, Opening, Ending, Written
  <2>4. HandleState' /\ IdleState' /\ EndState'
    BY <1>1, <1>3, <2>1, <2>2, <2>3 DEF Safe, HandleState, IdleState, Idle, EndState
  <2>5. OpenState' /\ CallState'
    BY <1>1, <1>3, <1>5, <2>2, <2>3 DEF Safe, OpenState, CallState
  <2>6. WriteState' /\ DataState'
    BY <1>1, <1>3, <1>5, <2>1, <2>2, <2>3 DEF Safe, WriteState, DataState
  <2> QED BY <1>6, <2>4, <2>5, <2>6 DEF Safe
<1> QED BY <1>7, <1>8

LEMMA SendKeeps ==
  ASSUME Types, Safe, on_send
  PROVE  Safe'
<1>1. /\ stack # <<>> /\ Head(stack) = "on_send" /\ tasks' = tasks /\ call' = call
      /\ UNCHANGED <<connected_, uvVars, starts, crashed, faults>>
      /\ UNCHANGED <<handle_, connecting, reading, data>>
  BY DEF on_send, Running, uvVars, apiVars
<1>2. \A f \in Special \ {"written"} : ~Has(f)
  BY <1>1, Tops DEF Special, Continuations, Handlers, Frames
<1>3. /\ ~Reporting /\ ~Ending
      /\ ~Has("on_write") /\ ~Has("on_write_failed") /\ ~Has("on_connect_failed")
      /\ ~Has("close_cb") /\ ~Has("on_close")
  BY <1>2, FrameNames DEF Reporting, Ending
<1>4. \A f : Has(f) <=> "on_send" = f \/ Under(f)
  BY <1>1, StackTop
<1>5. CASE ~(connected_ /\ ~Full)
  <2>1. UNCHANGED <<send_buf_, writes>> /\ (Continue(<<"user">>) \/ Continue(<<>>))
    BY <1>5 DEF on_send, Refuse, sendVars
  <2>6. Tells
    <3>1. CASE ~connected_
      BY <3>1 DEF on_send, Tells
    <3>2. CASE connected_ /\ Full
      <4>1. event' = IF event \in {"begun", "early"} THEN "early" ELSE "traffic"
        BY <3>2 DEF on_send, Refuse
      <4>2. handle_ = "open" /\ (Opening <=> connecting)
        BY <1>3, <3>2 DEF Safe, HandleState, Opening
      <4> QED BY <3>2, <4>1, <4>2 DEF Tells, Safe, HandleState
    <3> QED BY <1>5, <3>1, <3>2
  <2>2. /\ \A f : f # "user" => (Has(f)' <=> Under(f)) /\ (Under(f)' => Under(f))
        /\ \A f : f # "user" => (Out(f)' => Out(f)) /\ (Single(f) => Single(f)')
        /\ \A f : f # "user" => (Once(stack, f) => Once(stack, f)')
    <3>1. CASE Continue(<<"user">>)
      BY <1>1, <3>1, Replaced, FrameNames
    <3>2. CASE Continue(<<>>)
      BY <1>1, <3>2, Dropped
    <3> QED BY <2>1, <3>1, <3>2
  <2>3. CallState'
    <3>1. UNCHANGED event \/ connected_
      BY DEF on_send
    <3> QED BY <1>1, <2>2, <3>1 DEF Safe, CallState, Idle
  <2>4. /\ Has("written")' <=> Has("written")
        /\ Has("written") => Once(stack, "written")'
        /\ Has("on_stop") => Has("on_stop")'
        /\ \A f \in Special \ {"written"} : ~Has(f)'
        /\ StackState'
    BY <1>2, <1>4, <2>2
    DEF Safe, WriteState, Special, StackState, Continuations
  <2>5. connecting => \A f \in Frames \ {"user", "on_send"} : ~Has(f)'
    BY <1>4, <2>2 DEF Safe, OpenState
  <2> QED BY <1>1, <1>2, <2>1, <2>3, <2>4, <2>5, <2>6, QuietKeeps
<1>6. CASE connected_ /\ ~Full
  <2>1. /\ connected_ /\ handle_ = "open" /\ Continue(<<>>) /\ event' = event
        /\ send_buf_' = Append(send_buf_, accepted + 1)
        /\ IF Sending THEN writes' = writes ELSE writes' = writes + 1
    BY <1>6 DEF on_send, Queue, send_buf, Safe, HandleState
  <2>2. /\ \A f : (Has(f)' <=> Under(f)) /\ (Under(f)' => Under(f))
        /\ \A f : (Out(f)' => Out(f)) /\ (Single(f) => Single(f)')
        /\ \A f : Once(stack, f) => Once(stack, f)'
    BY <1>1, <2>1, Dropped
  <2>3. \A f : f # "on_send" => (Has(f)' <=> Has(f))
    BY <1>4, <2>2
  <2>4. send_buf_' # <<>>
    BY <2>1 DEF Types
  <2>5. /\ ~Reporting' /\ ~Ending' /\ (Written' <=> Written) /\ (Opening' <=> Opening)
        /\ ~Has("on_write")' /\ ~Has("on_write_failed")' /\ ~Has("on_connect_failed")'
        /\ ~Has("close_cb")' /\ ~Has("on_close")'
        /\ (Has("written")' <=> Has("written")) /\ (Has("on_stop")' <=> Has("on_stop"))
    BY <1>1, <1>3, <2>3 DEF Reporting, Ending, Written, Opening
  <2>6. HandleState' /\ IdleState' /\ EndState' /\ DataState'
    BY <1>1, <1>3, <2>1, <2>5
    DEF Safe, HandleState, IdleState, Idle, EndState, DataState
  <2>7. StackState' /\ OpenState' /\ CallState'
    BY <1>1, <2>1, <2>2, <2>3, <2>5
    DEF Safe, StackState, OpenState, CallState, Idle
  <2>8. writes' <= 1 /\ (Written' => writes' = 0) /\ (~Written' => writes' = 1 \/ Has("on_stop"))
    <3>1. CASE send_buf_ = <<>>
      BY <1>3, <2>1, <2>5, <3>1 DEF Safe, WriteState, Written, Sending, Types
    <3>2. CASE send_buf_ # <<>>
      BY <2>1, <2>5, <3>2 DEF Safe, WriteState, Sending
    <3> QED BY <3>1, <3>2
  <2>9. WriteState'
    BY <1>1, <2>1, <2>2, <2>4, <2>5, <2>8 DEF Safe, WriteState
  <2> QED BY <2>6, <2>7, <2>9 DEF Safe
<1> QED BY <1>5, <1>6

-----------------------------------------------------------------------------
(* The callbacks.                                                          *)

LEMMA ConnectKeeps ==
  ASSUME Types, Safe, on_connect
  PROVE  Safe'
<1>1. /\ stack # <<>> /\ tasks' = tasks /\ call' = call
      /\ Head(stack) \in {"on_connect", "on_connect_failed"}
      /\ UNCHANGED <<handle_, connecting, send_buf_, writes, starts, crashed, faults>>
      /\ connected_' = TRUE /\ event' = "open"
  BY DEF on_connect, Running, sendVars, apiVars
<1>2. /\ \A f : Has(f) <=> Head(stack) = f \/ Under(f)
      /\ Reporting /\ Opening
  BY <1>1, StackTop DEF Reporting, Opening
<1>3. /\ handle_ = "open" /\ ~connecting /\ ~reading
      /\ \A f \in Frames \ {"user"} : ~Under(f)
      /\ ~Out("on_start") /\ Single("on_start") /\ starts # 0
      /\ "connect_error" \notin faults => ~crashed
  BY <1>2 DEF Safe, OpenState, HandleState, CallState, Idle, DataState
<1>4. /\ writes <= 1
      /\ send_buf_ = <<>> => writes = 0
      /\ send_buf_ # <<>> => writes = 1
  <2>1. ~Written /\ ~Has("on_stop")
    BY <1>1, <1>2, <1>3, FrameNames DEF Written
  <2> QED BY <1>3, <2>1 DEF Safe, WriteState
<1>5. CASE Running("on_connect") /\ SetData /\ reading' = TRUE /\ Continue(<<"user">>)
  <2>1. /\ \A f \in Frames \ {"user"} : ~Has(f)' /\ ~Under(f)'
        /\ ~Out("on_start")' /\ Single("on_start")'
    BY <1>1, <1>3, <1>5, FrameNames, Replaced
  <2>2. /\ ~Reporting' /\ ~Ending' /\ ~Written' /\ ~Opening' /\ ~Has("on_stop")'
        /\ ~Has("on_connect_failed")' /\ ~Has("close_cb")' /\ ~Has("on_close")'
        /\ ~Has("on_write")' /\ ~Has("on_write_failed")' /\ ~Has("written")'
    BY <1>1, <1>3, <2>1, FrameNames DEF Reporting, Ending, Written, Opening
  <2>3. HandleState' /\ IdleState' /\ EndState'
    BY <1>1, <1>3, <1>5, <2>2 DEF HandleState, IdleState, Idle, EndState
  <2>4. WriteState' /\ DataState'
    BY <1>1, <1>3, <1>4, <1>5, <2>2 DEF WriteState, DataState, SetData
  <2>5. StackState' /\ OpenState' /\ CallState'
    BY <1>1, <1>3, <2>1, <2>2 DEF StackState, OpenState, CallState, Continuations
  <2> QED BY <2>3, <2>4, <2>5 DEF Safe
<1>6. CASE /\ Running("on_connect_failed") /\ Continue(<<"user", "on_stop">>)
           /\ UNCHANGED <<data, reading>>
  <2>1. /\ \A f \in Frames \ {"user", "on_stop"} : ~Has(f)' /\ ~Under(f)'
        /\ Has("on_stop")'
        /\ ~Out("on_start")' /\ Single("on_start")'
    BY <1>1, <1>3, <1>6, FrameNames, ReplacedByTwo
  <2>2. /\ ~Reporting' /\ ~Ending' /\ ~Written' /\ ~Opening'
        /\ ~Has("on_connect_failed")' /\ ~Has("close_cb")' /\ ~Has("on_close")'
        /\ ~Has("on_write")' /\ ~Has("on_write_failed")' /\ ~Has("written")'
    BY <1>1, <1>3, <2>1, FrameNames DEF Reporting, Ending, Written, Opening
  <2>3. "connect_error" \in faults
    BY <1>2, <1>6 DEF Running, Safe, DataState
  <2>4. HandleState' /\ IdleState' /\ EndState'
    BY <1>1, <1>3, <1>6, <2>2 DEF HandleState, IdleState, Idle, EndState
  <2>5. WriteState' /\ DataState'
    BY <1>1, <1>3, <1>4, <2>1, <2>2, <2>3 DEF WriteState, DataState
  <2>6. StackState' /\ OpenState' /\ CallState'
    BY <1>1, <1>3, <2>1, <2>2 DEF StackState, OpenState, CallState, Continuations
  <2> QED BY <2>4, <2>5, <2>6 DEF Safe
<1> QED BY <1>5, <1>6 DEF on_connect

LEMMA WriteReportKeeps ==
  ASSUME Types, Safe, on_write
  PROVE  Safe'
<1>1. /\ stack # <<>> /\ tasks' = tasks /\ call' = call
      /\ Head(stack) \in {"on_write", "on_write_failed"}
      /\ UNCHANGED <<connected_, handle_, data, reading, connecting, send_buf_,
                     writes, starts, faults>>
  BY DEF on_write, Running, uvVars, sendVars, apiVars
<1>2. /\ \A f : Has(f) <=> Head(stack) = f \/ Under(f)
      /\ Written /\ writes = 0
      /\ Has("on_write") \/ Has("on_write_failed")
  BY <1>1, StackTop DEF Written, Safe, WriteState
<1>3. /\ ~Reporting /\ ~Opening /\ ~connecting /\ ~Has("on_close") /\ ~Idle
      /\ ~Out("on_start") /\ Single("on_start")
  <2>1. ~connecting /\ ~Idle
    BY <1>2, FrameNames DEF Safe, OpenState, IdleState
  <2>2. ~Reporting
    BY <1>1 DEF Safe, OpenState
  <2>3. ~Has("on_close")
    BY <1>1 DEF Safe, EndState
  <2> QED BY <2>1, <2>2, <2>3 DEF Opening, Safe, CallState
<1>4. /\ stack \in {<<"on_write">>, <<"on_write_failed">>,
                    <<"on_write_failed", "close_cb">>}
      /\ Has("on_write") => stack = <<"on_write">>
      /\ stack = <<"on_write_failed", "close_cb">> <=> Has("close_cb")
  <2>1. stack = <<"on_write_failed", "close_cb">> => Has("close_cb")
    BY DEF Has, In
  <2> QED BY <1>1, <1>2, <2>1 DEF Safe, WriteState, EndState
<1>5. CASE connected_
  <2>1. PICK last \in {"written", "on_stop"} :
          /\ Continue(<<"user", last>>) /\ event' = "traffic"
          /\ crashed' = (send_buf_ = <<>>)
    BY <1>5 DEF on_write
  <2>2. /\ handle_ = "open" /\ ~Has("close_cb") /\ send_buf_ # <<>>
        /\ "connect_error" \notin faults => data /\ ~crashed
        /\ starts # 0
    BY <1>2, <1>3, <1>5 DEF Safe, HandleState, EndState, Ending, WriteState, DataState
  <2>3. \A f : ~Under(f)
    <3>1. stack = <<"on_write">> \/ stack = <<"on_write_failed">>
      BY <1>4, <2>2
    <3>2. Tail(stack) = <<>>
      BY <3>1, ShortSequences
    <3> QED BY <3>2, EmptyHas DEF Under
  <2>4. last \in Frames /\ "user" \in Frames /\ last # "user"
    BY <2>1, FrameNames
  <2>5. /\ \A f : (Has(f)' <=> f \in {"user", last}) /\ (Under(f)' => f = last)
        /\ Once(stack, last)'
    BY <1>1, <2>1, <2>3, <2>4, ReplacedByTwo
  <2>6. ~Out("on_start")' /\ Single("on_start")'
    <3>1. CASE Continue(<<"user", "written">>)
      BY <1>1, <1>3, <3>1, FrameNames, ReplacedByTwo
    <3>2. CASE Continue(<<"user", "on_stop">>)
      BY <1>1, <1>3, <3>2, FrameNames, ReplacedByTwo
    <3> QED BY <2>1, <3>1, <3>2
  <2>7. /\ ~Reporting' /\ ~Ending' /\ ~Opening'
        /\ ~Has("on_connect_failed")' /\ ~Has("close_cb")' /\ ~Has("on_close")'
        /\ ~Has("on_write")' /\ ~Has("on_write_failed")'
        /\ Has("written")' => Once(stack, "written")'
        /\ Has("written")' \/ Has("on_stop")'
    BY <1>1, <1>3, <2>1, <2>5 DEF Reporting, Ending, Opening
  <2>8. HandleState' /\ IdleState' /\ EndState'
    BY <1>1, <1>3, <1>5, <2>1, <2>2, <2>7 DEF HandleState, IdleState, Idle, EndState
  <2>11. DataState'
    BY <1>1, <2>1, <2>2, <2>7 DEF DataState
  <2>9. WriteState'
    BY <1>1, <1>2, <2>2, <2>7 DEF WriteState, Written
  <2>10. StackState' /\ OpenState' /\ CallState'
    BY <1>1, <1>3, <2>1, <2>5, <2>6, <2>7 DEF StackState, OpenState, CallState, Continuations
  <2> QED BY <2>8, <2>9, <2>10, <2>11 DEF Safe
<1>6. CASE ~connected_
  <2>1. /\ Continue(<<>>) /\ event' = event /\ crashed' = crashed
        /\ handle_ # "open" /\ ~reading
        /\ ~Has("on_write")
    BY <1>3, <1>6 DEF on_write, Safe, HandleState, WriteState
  <2>2. /\ stack' = Tail(stack)
        /\ \A f : Has(f)' <=> Under(f)
        /\ Out("on_start")' => Out("on_start")
        /\ Single("on_start")'
    BY <1>1, <1>3, <2>1, Dropped
  <2>3. /\ stack' = IF Has("close_cb") THEN <<"close_cb">> ELSE <<>>
        /\ \A f : Has(f)' <=> f = "close_cb" /\ Has("close_cb")
        /\ \A f : ~Under(f)'
    <3>1. CASE Has("close_cb")
      <4>1. stack = <<"on_write_failed", "close_cb">>
        BY <1>4, <3>1
      <4>2. stack' = <<"close_cb">> /\ Tail(stack') = <<>>
        BY <2>2, <4>1, ShortSequences
      <4> QED BY <3>1, <4>2, EmptyHas, SingletonHas DEF Has, Under
    <3>2. CASE ~Has("close_cb")
      <4>1. stack = <<"on_write_failed">>
        BY <1>1, <1>2, <1>4, <2>1, <3>2
      <4>2. stack' = <<>>
        BY <2>2, <4>1, ShortSequences
      <4> QED BY <3>2, <4>2, EmptyHas DEF Has, Under
    <3> QED BY <3>1, <3>2
  <2>4. /\ ~Reporting' /\ ~Opening' /\ ~Written' /\ ~Idle'
        /\ ~Has("on_connect_failed")' /\ ~Has("on_close")'
        /\ ~Has("on_write")' /\ ~Has("on_write_failed")' /\ ~Has("written")'
        /\ Ending' <=> Ending
        /\ Has("close_cb")' => stack' = <<"close_cb">>
    BY <1>1, <1>3, <2>1, <2>3 DEF Reporting, Ending, Opening, Written, Idle
  <2>5. HandleState' /\ IdleState' /\ EndState'
    BY <1>1, <1>3, <1>6, <2>1, <2>4 DEF Safe, HandleState, IdleState, EndState
  <2>6. DataState' /\ WriteState'
    BY <1>1, <1>2, <2>1, <2>4 DEF Safe, DataState, WriteState
  <2>7. StackState' /\ OpenState' /\ CallState'
    BY <1>1, <1>3, <2>2, <2>3, <2>4 DEF StackState, OpenState, CallState
  <2> QED BY <2>5, <2>6, <2>7 DEF Safe
<1> QED BY <1>5, <1>6

LEMMA WrittenKeeps ==
  ASSUME Types, Safe, written
  PROVE  Safe'
<1>1. /\ stack # <<>> /\ Head(stack) = "written" /\ tasks' = tasks /\ call' = call
      /\ UNCHANGED <<connected_, handle_, data, reading, connecting, event, starts,
                     faults>>
      /\ Continue(<<>>) /\ crashed' = (send_buf_ = <<>>)
  BY DEF written, Running, uvVars, eventVars, apiVars
<1>2. /\ \A f : Has(f) <=> Head(stack) = f \/ Under(f)
      /\ Has("written") /\ Written
  BY <1>1, StackTop DEF Written
<1>3. /\ send_buf_ # <<>> /\ Once(stack, "written") /\ writes = 0
      /\ handle_ \in {"open", "closing"} /\ ~Opening /\ ~Reporting /\ ~connecting
      /\ ~Ending /\ ~Has("close_cb") /\ ~Has("on_close") /\ ~Idle
      /\ ~Out("on_start") /\ Single("on_start")
  BY <1>2 DEF Safe, WriteState, Opening, EndState, Ending, Idle, CallState
<1>4. /\ \A f : (Has(f)' <=> Under(f)) /\ (Under(f)' => Under(f))
      /\ Out("on_start")' => Out("on_start")
      /\ Single("on_start")'
      /\ ~Has("written")'
  BY <1>1, <1>3, Dropped
<1>5. /\ \A f \in Special \ {"written"} : ~Has(f)'
      /\ \A f \in Frames \ Continuations : ~Under(f)
  BY <1>2, <1>3, <1>4 DEF Special, Continuations, Handlers, Frames, Safe, StackState
<1>6. /\ ~Reporting' /\ ~Ending' /\ ~Written' /\ ~Opening'
      /\ ~Has("on_connect_failed")' /\ ~Has("close_cb")' /\ ~Has("on_close")'
      /\ ~Has("on_write")' /\ ~Has("on_write_failed")'
  BY <1>1, <1>3, <1>4, <1>5, FrameNames DEF Reporting, Ending, Written, Opening
<1>7. /\ writes' <= 1
      /\ handle_ = "open" => (send_buf_' = <<>> <=> writes' = 0)
      /\ writes' = 0 \/ writes' = 1
  <2>1. /\ send_buf_' = Tail(send_buf_)
        /\ writes' = IF Len(send_buf_) > 1 /\ handle_ = "open" THEN 1 ELSE 0
    BY <1>3 DEF written, Pop, SendNext, send_buf
  <2>2. Tail(send_buf_) = <<>> <=> ~(Len(send_buf_) > 1)
    <3>1. /\ send_buf_ \in Seq(Nat) /\ Tail(send_buf_) \in Seq(Nat)
          /\ Len(Tail(send_buf_)) = Len(send_buf_) - 1 /\ Len(send_buf_) \in Nat
      BY <1>3 DEF Types
    <3>2. Tail(send_buf_) = <<>> <=> Len(Tail(send_buf_)) = 0
      BY <3>1, EmptySeq
    <3> QED BY <1>3, <3>1, <3>2
  <2> QED BY <2>1, <2>2
<1>8. HandleState' /\ IdleState' /\ EndState'
  BY <1>1, <1>3, <1>6 DEF Safe, HandleState, IdleState, Idle, EndState
<1>9. WriteState' /\ DataState'
  BY <1>1, <1>3, <1>4, <1>6, <1>7 DEF Safe, WriteState, DataState
<1>10. StackState' /\ OpenState' /\ CallState'
  BY <1>1, <1>3, <1>4, <1>5, <1>6 DEF StackState, OpenState, CallState
<1> QED BY <1>8, <1>9, <1>10 DEF Safe

LEMMA CloseCbKeeps ==
  ASSUME Types, Safe, close_cb
  PROVE  Safe'
<1>1. /\ stack # <<>> /\ Head(stack) = "close_cb" /\ tasks' = tasks /\ call' = call
      /\ UNCHANGED <<connected_, handle_, data, reading, connecting, send_buf_, writes,
                     event, starts, faults>>
      /\ Continue(<<"on_close">>) /\ crashed' = ~data
  BY DEF close_cb, Running, uvVars, sendVars, eventVars, apiVars
<1>2. Has("close_cb") /\ Ending
  BY <1>1, StackTop DEF Ending
<1>3. /\ stack = <<"close_cb">> /\ writes = 0 /\ ~connected_ /\ ~connecting /\ ~reading
      /\ handle_ = "closed" /\ event \in {"open", "traffic"} /\ ~Idle
      /\ ~Out("on_start") /\ Single("on_start")
      /\ "connect_error" \notin faults => data
  <2>1. stack = <<"close_cb">>
    BY <1>1, <1>2, ShortSequences DEF Safe, EndState
  <2> QED BY <1>2, <2>1 DEF Safe, EndState, HandleState, Idle, CallState, DataState
<1>4. stack' = <<"on_close">>
  BY <1>1, <1>3, ShortSequences DEF Continue
<1>5. /\ \A f : (Has(f)' <=> f = "on_close") /\ ~Under(f)'
      /\ ~Out("on_start")' /\ Single("on_start")'
  <2>1. \A f : ~Under(f)
    BY <1>3, ShortSequences, EmptyHas DEF Under
  <2> QED BY <1>1, <1>3, <2>1, FrameNames, Replaced
<1>6. /\ ~Reporting' /\ Ending' /\ ~Written' /\ ~Opening'
      /\ ~Has("written")' /\ ~Has("on_write")' /\ ~Has("on_write_failed")'
      /\ ~Has("on_connect_failed")' /\ writes' = 0 /\ handle_' = "closed"
  BY <1>1, <1>3, <1>5 DEF Reporting, Ending, Written, Opening
<1>7. HandleState' /\ IdleState' /\ EndState'
  BY <1>1, <1>3, <1>4, <1>5, <1>6 DEF Safe, HandleState, IdleState, Idle, EndState
<1>8. WriteState'
  BY <1>6 DEF WriteState
<1>10. DataState'
  <2>1. CASE "connect_error" \notin faults
    <3>1. data = TRUE /\ data' = TRUE /\ crashed' = FALSE
      BY <1>1, <1>3, <2>1 DEF Types
    <3> QED BY <1>6, <3>1 DEF DataState
  <2>2. CASE "connect_error" \in faults
    BY <1>1, <2>2 DEF DataState
  <2> QED BY <2>1, <2>2
<1>9. StackState' /\ OpenState' /\ CallState'
  BY <1>1, <1>3, <1>5, <1>6 DEF StackState, OpenState, CallState
<1> QED BY <1>7, <1>8, <1>9, <1>10 DEF Safe

LEMMA OnCloseKeeps ==
  ASSUME Types, Safe, on_close
  PROVE  Safe'
<1>1. /\ stack # <<>> /\ Head(stack) = "on_close" /\ tasks' = tasks /\ call' = call
      /\ UNCHANGED <<connected_, handle_, data, reading, connecting, writes, starts,
                     crashed, faults>>
      /\ Continue(<<"user">>) /\ send_buf_' = <<>> /\ event' = "close"
  BY DEF on_close, clear_buf, Running, uvVars, apiVars
<1>2. Has("on_close") /\ Ending
  BY <1>1, StackTop DEF Ending
<1>3. /\ stack = <<"on_close">> /\ writes = 0 /\ ~connected_ /\ ~connecting /\ ~reading
      /\ handle_ = "closed" /\ ~Idle
      /\ ~Out("on_start") /\ Single("on_start")
      /\ "connect_error" \notin faults => data /\ ~crashed
  BY <1>2 DEF Safe, EndState, HandleState, Idle, CallState, DataState
<1>4. /\ \A f : (Has(f)' <=> f = "user") /\ ~Under(f)'
      /\ ~Out("on_start")' /\ Single("on_start")'
  <2>1. \A f : ~Under(f)
    BY <1>3, ShortSequences, EmptyHas DEF Under
  <2> QED BY <1>1, <1>3, <2>1, FrameNames, Replaced
<1>5. /\ ~Reporting' /\ ~Ending' /\ ~Written' /\ ~Opening'
  BY <1>1, <1>3, <1>4 DEF Reporting, Ending, Written, Opening
<1>6. HandleState' /\ IdleState' /\ EndState'
  BY <1>1, <1>3, <1>4, <1>5 DEF Safe, HandleState, IdleState, Idle, EndState
<1>7. WriteState' /\ DataState'
  BY <1>1, <1>3, <1>4, <1>5 DEF WriteState, DataState
<1>8. StackState' /\ OpenState' /\ CallState'
  BY <1>1, <1>3, <1>4, <1>5 DEF StackState, OpenState, CallState
<1> QED BY <1>6, <1>7, <1>8 DEF Safe

-----------------------------------------------------------------------------
(* The steps of libuv.                                                     *)

LEMMA ConnectDoneKeeps ==
  ASSUME Types, Safe, ConnectDone
  PROVE  Safe'
<1>1. /\ stack = <<>> /\ tasks' = tasks /\ call' = call
      /\ connecting /\ ~connecting' /\ handle_ = "open"
      /\ UNCHANGED <<connected_, handle_, data, reading, send_buf_, writes, event,
                     starts, crashed, faults>>
  BY DEF ConnectDone, Polling, sendVars, eventVars, apiVars
<1>2. PICK a \in {"on_connect", "on_connect_failed"} :
        stack' = <<a>> /\ (a = "on_connect_failed" => "connect_error" \in faults)
  BY DEF ConnectDone
<1>3. /\ Opening /\ connected_ /\ ~reading /\ event \in {"begun", "early"}
      /\ ~Out("on_start") /\ Single("on_start") /\ ~Idle
      /\ \A f : ~Has(f)
  BY <1>1, EmptyHas DEF Opening, Safe, HandleState, CallState, Idle, Has
<1>4. /\ \A f : (Has(f)' <=> f = a) /\ ~Under(f)'
      /\ ~Out("on_start")' /\ Single("on_start")' /\ Head(stack') = a
  BY <1>1, <1>2, <1>3, FrameNames, Polled
<1>5. /\ Reporting' /\ Opening' /\ ~Ending' /\ ~Written' /\ ~Written
  BY <1>3, <1>4 DEF Reporting, Opening, Ending, Written
<1>6. HandleState' /\ IdleState' /\ EndState'
  BY <1>1, <1>3, <1>4, <1>5 DEF Safe, HandleState, IdleState, Idle, EndState
<1>7. WriteState' /\ DataState'
  BY <1>1, <1>2, <1>3, <1>4, <1>5 DEF Safe, WriteState, DataState
<1>8. StackState' /\ OpenState' /\ CallState'
  BY <1>1, <1>3, <1>4, <1>5 DEF StackState, OpenState, CallState
<1> QED BY <1>6, <1>7, <1>8 DEF Safe

LEMMA AcceptKeeps ==
  ASSUME Types, Safe, Accept
  PROVE  Safe'
<1>1. /\ stack = <<>> /\ tasks' = tasks /\ call' = call
      /\ handle_ = "none" /\ handle_' = "open" /\ starts = 0 /\ starts' = 1
      /\ UNCHANGED <<connected_, connecting, data, reading, send_buf_, writes, event,
                     crashed, faults>>
  BY DEF Accept, Polling, sendVars, eventVars
<1>2. PICK a \in {"on_connect", "on_connect_failed"} :
        stack' = <<a>> /\ (a = "on_connect_failed" => "connect_error" \in faults)
  BY DEF Accept
<1>3. /\ Idle /\ ~connected_ /\ ~connecting /\ ~reading /\ event = "none"
      /\ send_buf_ = <<>> /\ writes = 0
      /\ ~Out("on_start") /\ Single("on_start")
  BY <1>1 DEF Safe, HandleState, IdleState, CallState, Idle
<1>4. /\ \A f : (Has(f)' <=> f = a) /\ ~Under(f)'
      /\ ~Out("on_start")' /\ Single("on_start")' /\ Head(stack') = a
  BY <1>1, <1>2, <1>3, FrameNames, Polled
<1>5. /\ Reporting' /\ Opening' /\ ~Ending' /\ ~Written'
  BY <1>4 DEF Reporting, Opening, Ending, Written
<1>6. HandleState' /\ IdleState' /\ EndState'
  BY <1>1, <1>3, <1>4, <1>5 DEF HandleState, IdleState, Idle, EndState
<1>7. WriteState' /\ DataState'
  BY <1>1, <1>2, <1>3, <1>4, <1>5 DEF Safe, WriteState, DataState
<1>8. StackState' /\ OpenState' /\ CallState'
  BY <1>1, <1>3, <1>4, <1>5 DEF StackState, OpenState, CallState
<1> QED BY <1>6, <1>7, <1>8 DEF Safe

LEMMA WriteDoneKeeps ==
  ASSUME Types, Safe, WriteDone
  PROVE  Safe'
<1>1. /\ stack = <<>> /\ tasks' = tasks /\ call' = call
      /\ handle_ = "open" /\ ~connecting /\ writes > 0 /\ writes' = writes - 1
      /\ UNCHANGED <<connected_, handle_, connecting, data, reading, send_buf_, event,
                     starts, crashed, faults>>
  BY DEF WriteDone, Polling, uvVars, eventVars, apiVars
<1>2. PICK a \in {"on_write", "on_write_failed"} : stack' = <<a>>
  BY DEF WriteDone
<1>3. /\ ~Opening /\ connected_ /\ ~Idle /\ send_buf_ # <<>> /\ writes' = 0
      /\ event \in {"open", "traffic"}
      /\ ~Out("on_start") /\ Single("on_start")
      /\ \A f : ~Has(f)
  <2>1. \A f : ~Has(f)
    BY <1>1, EmptyHas DEF Has
  <2>2. ~Reporting /\ ~Opening
    BY <1>1, <2>1 DEF Reporting, Opening
  <2>3. writes' = 0 /\ send_buf_ # <<>>
    BY <1>1 DEF Safe, WriteState, Types
  <2>4. connected_ /\ ~Idle /\ event \in {"open", "traffic"}
    BY <1>1, <2>2 DEF Safe, HandleState, Idle
  <2> QED BY <2>1, <2>2, <2>3, <2>4 DEF Safe, CallState
<1>4. /\ \A f : (Has(f)' <=> f = a) /\ ~Under(f)'
      /\ ~Out("on_start")' /\ Single("on_start")'
  BY <1>1, <1>2, <1>3, FrameNames, Polled
<1>5. /\ ~Reporting' /\ ~Opening' /\ ~Ending' /\ Written' /\ ~Has("written")'
  BY <1>1, <1>4 DEF Reporting, Opening, Ending, Written
<1>6. HandleState' /\ IdleState' /\ EndState'
  BY <1>1, <1>3, <1>4, <1>5 DEF Safe, HandleState, IdleState, Idle, EndState
<1>7. WriteState' /\ DataState'
  BY <1>1, <1>2, <1>3, <1>4, <1>5 DEF Safe, WriteState, DataState
<1>8. StackState' /\ OpenState' /\ CallState'
  BY <1>1, <1>3, <1>4, <1>5 DEF StackState, OpenState, CallState
<1> QED BY <1>6, <1>7, <1>8 DEF Safe

LEMMA ReadKeeps ==
  ASSUME Types, Safe, on_read
  PROVE  Safe'
<1>1. /\ stack = <<>> /\ tasks' = tasks /\ call' = call
      /\ handle_ = "open" /\ reading /\ connected_
      /\ UNCHANGED <<connected_, handle_, connecting, data, reading, send_buf_, writes,
                     starts, crashed, faults>>
  BY DEF on_read, Polling, uvVars, sendVars, apiVars
<1>2. PICK a \in {"user", "on_stop"} :
        stack' = <<a>> /\ event' = IF a = "user" THEN "traffic" ELSE event
  BY DEF on_read
<1>3. /\ ~Opening /\ ~connecting /\ ~Idle /\ event \in {"open", "traffic"}
      /\ ~Out("on_start") /\ Single("on_start")
      /\ \A f : ~Has(f)
  BY <1>1, EmptyHas DEF Opening, Safe, HandleState, CallState, Idle, Has
<1>4. /\ \A f : (Has(f)' <=> f = a) /\ ~Under(f)'
      /\ ~Out("on_start")' /\ Single("on_start")'
  BY <1>1, <1>2, <1>3, FrameNames, Polled
<1>5. /\ ~Reporting' /\ ~Opening' /\ ~Ending' /\ ~Written' /\ ~Written
  BY <1>1, <1>3, <1>4 DEF Reporting, Opening, Ending, Written
<1>6. HandleState' /\ IdleState' /\ EndState'
  BY <1>1, <1>2, <1>3, <1>4, <1>5 DEF Safe, HandleState, IdleState, Idle, EndState
<1>7. WriteState' /\ DataState'
  BY <1>1, <1>2, <1>3, <1>4, <1>5 DEF Safe, WriteState, DataState
<1>8. StackState' /\ OpenState' /\ CallState'
  BY <1>1, <1>3, <1>4, <1>5 DEF StackState, OpenState, CallState
<1> QED BY <1>6, <1>7, <1>8 DEF Safe

LEMMA FinishCloseKeeps ==
  ASSUME Types, Safe, FinishClose
  PROVE  Safe'
<1>1. /\ stack = <<>> /\ tasks' = tasks /\ call' = call
      /\ handle_ = "closing" /\ handle_' = "closed" /\ ~connecting' /\ writes' = 0
      /\ UNCHANGED <<connected_, data, reading, send_buf_, event, starts, crashed,
                     faults>>
  BY DEF FinishClose, Polling, apiVars, eventVars
<1>2. /\ ~connected_ /\ ~connecting /\ ~reading /\ ~Idle /\ event \in {"open", "traffic"}
      /\ writes \in {0, 1} /\ starts # 0
      /\ ~Out("on_start") /\ Single("on_start")
      /\ "connect_error" \notin faults => data /\ ~crashed
  BY <1>1 DEF Safe, HandleState, Idle, WriteState, CallState, DataState, Types
<1>3. stack' \in {<<"close_cb">>, <<"on_write_failed", "close_cb">>}
  <2>1. stack' = <<>> \o [w \in 1 .. writes |-> "on_write_failed"] \o <<"close_cb">>
    BY <1>2 DEF FinishClose
  <2>2. CASE writes = 0
    <3>1. [w \in 1 .. 0 |-> "on_write_failed"] = <<>>
      OBVIOUS
    <3> QED BY <2>1, <2>2, <3>1, ShortSequences
  <2>3. CASE writes = 1
    <3>1. [w \in 1 .. 1 |-> "on_write_failed"] = <<"on_write_failed">>
      OBVIOUS
    <3> QED BY <2>1, <2>3, <3>1, ShortSequences
  <2> QED BY <1>2, <2>2, <2>3
<1>4. /\ Has("close_cb")'
      /\ \A f \in Frames \ {"on_write_failed", "close_cb"} : ~Has(f)'
      /\ \A f \in Frames \ {"close_cb"} : ~Under(f)'
      /\ Has("on_write_failed")' => stack' = <<"on_write_failed", "close_cb">>
      /\ ~Has("on_start")' /\ Once(stack, "on_start")'
  <2>1. CASE stack' = <<"close_cb">>
    BY <2>1, ShortSequences, SingletonHas, EmptyHas DEF Has, Under
  <2>2. CASE stack' = <<"on_write_failed", "close_cb">>
    <3>1. /\ Tail(stack') = <<"close_cb">> /\ stack' # <<>>
          /\ \A f : In(stack', f) <=> f \in {"on_write_failed", "close_cb"}
      BY <2>2, ShortSequences DEF In
    <3>2. Once(stack', "on_start")
      BY <3>1 DEF Once, In
    <3>3. /\ \A f : Has(f)' <=> f \in {"on_write_failed", "close_cb"}
          /\ \A f : Under(f)' <=> f = "close_cb"
      <4>1. \A f : In(<<"close_cb">>, f) <=> f = "close_cb"
        BY SingletonHas
      <4> QED BY <3>1, <4>1 DEF Has, Under
    <3> QED BY <2>2, <3>2, <3>3
  <2> QED BY <1>3, <2>1, <2>2
<1>5. ~Out("on_start")' /\ Single("on_start")'
  BY <1>1, <1>2, <1>4 DEF Out, Single, UnderWay, InOnePlace, Has
<1>6. /\ ~Reporting' /\ ~Opening' /\ Ending' /\ ~Has("written")'
      /\ ~Has("on_close")' /\ ~Has("on_write")' /\ ~Has("on_connect_failed")'
  BY <1>1, <1>4, FrameNames DEF Reporting, Opening, Ending
<1>7. HandleState' /\ IdleState' /\ EndState'
  BY <1>1, <1>2, <1>3, <1>6 DEF HandleState, IdleState, Idle, EndState
<1>8. WriteState'
  BY <1>1, <1>4, <1>6 DEF WriteState
<1>10. DataState'
  BY <1>1, <1>2, <1>6 DEF DataState
<1>9. StackState' /\ OpenState' /\ CallState'
  BY <1>1, <1>2, <1>4, <1>5, <1>6 DEF StackState, OpenState, CallState, Continuations
<1> QED BY <1>7, <1>8, <1>9, <1>10 DEF Safe

-----------------------------------------------------------------------------
(* The flag that start(), stop() and send() test.                          *)

\* A connection that takes calls is open, or about to be stopped, also when the
\* close has reported a connect that was stopped.
FlagInv ==
  /\ connected_ => handle_ = "open" \/ Has("on_stop")
  /\ Has("on_connect") => handle_ = "open" /\ ~Under("on_connect")

\* A handler that leaves the flag and the handle alone.
LEMMA HandlerKeepsFlag ==
  ASSUME Types, FlagInv, UNCHANGED <<connected_, handle_, tasks, call>>,
         stack # <<>>, Head(stack) \notin {"on_stop", "on_connect"},
         \/ Continue(<<>>) \/ stack' = Tail(stack)
         \/ \E a \in Frames \ {"on_connect"} : Continue(<<a>>)
         \/ \E a, b \in Frames \ {"on_connect"} : Continue(<<a, b>>)
  PROVE  FlagInv'
<1>1. \A f : Has(f) <=> Head(stack) = f \/ Under(f)
  BY StackTop
<1>2. (Under("on_stop") => Has("on_stop")') /\ (Has("on_connect")' => Under("on_connect"))
  <2>1. CASE Continue(<<>>) \/ stack' = Tail(stack)
    BY <2>1, Dropped
  <2>2. ASSUME NEW a \in Frames \ {"on_connect"}, Continue(<<a>>)
        PROVE  (Under("on_stop") => Has("on_stop")')
               /\ (Has("on_connect")' => Under("on_connect"))
    BY <2>2, Replaced
  <2>3. ASSUME NEW a \in Frames \ {"on_connect"}, NEW b \in Frames \ {"on_connect"},
               Continue(<<a, b>>)
        PROVE  (Under("on_stop") => Has("on_stop")')
               /\ (Has("on_connect")' => Under("on_connect"))
    BY <2>3, ReplacedByTwo
  <2> QED BY <2>1, <2>2, <2>3
<1> QED BY <1>1, <1>2 DEF FlagInv

LEMMA FlagNext == Types /\ FlagInv /\ [Next]_vars => FlagInv'
<1> SUFFICES ASSUME Types, FlagInv, [Next]_vars PROVE FlagInv'
  OBVIOUS
<1> USE DEF uvVars, apiVars
<1>1. stack = <<>> => \A f : ~Has(f)
  BY EmptyHas DEF Has
<1>2. CASE on_start
  <2>1. /\ stack # <<>> /\ Head(stack) = "on_start" /\ tasks' = tasks /\ call' = call
    BY <1>2 DEF on_start, Running
  <2>2. CASE connected_
    BY <1>2, <2>1, <2>2, HandlerKeepsFlag DEF on_start
  <2>3. CASE ~connected_
    <3>1. ~Under("on_connect") \/ ~Has("on_connect")
      BY DEF FlagInv
    <3>2. Has("on_connect")' => Under("on_connect")
      BY <1>2, <2>1, <2>3, Dropped, Replaced, FrameNames DEF on_start
    <3>3. \A f : Under(f) => Has(f)
      BY <2>1, StackTop
    <3>4. handle_' = "open"
      BY <1>2, <2>3 DEF on_start
    <3> QED BY <3>1, <3>2, <3>3, <3>4 DEF FlagInv
  <2> QED BY <2>2, <2>3
<1>3. CASE on_stop
  <2>1. /\ stack # <<>> /\ Head(stack) = "on_stop" /\ tasks' = tasks /\ call' = call
        /\ Continue(<<>>) \/ Continue(<<"on_close">>)
        /\ ~connected_'
    BY <1>3 DEF on_stop, Running, StopDue
  <2>2. ~Under("on_connect")
    BY <2>1, StackTop DEF FlagInv
  <2>3. ~Has("on_connect")'
    BY <2>1, <2>2, Dropped, Replaced, FrameNames
  <2> QED BY <2>1, <2>3 DEF FlagInv
<1>4. CASE on_connect
  <2>1. /\ stack # <<>> /\ tasks' = tasks /\ call' = call
        /\ Head(stack) \in {"on_connect", "on_connect_failed"}
        /\ handle_' = handle_
    BY <1>4 DEF on_connect, Running
  <2>2. ~Under("on_connect")
    BY <2>1, StackTop DEF FlagInv
  <2>3. CASE Running("on_connect") /\ Continue(<<"user">>)
    <3>1. handle_ = "open"
      BY <2>1, <2>3, StackTop DEF FlagInv, Running
    <3>2. ~Has("on_connect")'
      BY <2>1, <2>2, <2>3, Replaced, FrameNames
    <3> QED BY <2>1, <3>1, <3>2 DEF FlagInv
  <2>4. CASE Continue(<<"user", "on_stop">>)
    <3>1. Has("on_stop")' /\ ~Has("on_connect")'
      BY <2>1, <2>2, <2>4, ReplacedByTwo, FrameNames
    <3> QED BY <3>1 DEF FlagInv
  <2> QED BY <1>4, <2>3, <2>4 DEF on_connect
<1>5. CASE on_send
  <2>1. Continue(<<>>) \/ Continue(<<"user">>)
    BY <1>5 DEF on_send, Refuse, Queue
  <2> QED BY <1>5, <2>1, FrameNames, HandlerKeepsFlag DEF on_send, Running
<1>6. CASE on_write
  <2>1. \/ Continue(<<>>)
        \/ Continue(<<"user", "written">>) \/ Continue(<<"user", "on_stop">>)
    BY <1>6 DEF on_write
  <2> QED BY <1>6, <2>1, FrameNames, HandlerKeepsFlag DEF on_write, Running
<1>7. CASE written \/ close_cb \/ on_close \/ UserReturns
  <2>1. \/ Continue(<<>>) \/ stack' = Tail(stack)
        \/ Continue(<<"on_close">>) \/ Continue(<<"user">>)
    BY <1>7 DEF written, close_cb, on_close, UserReturns
  <2>2. /\ UNCHANGED <<connected_, handle_, tasks, call>>
        /\ stack # <<>> /\ Head(stack) \notin {"on_stop", "on_connect"}
    BY <1>7 DEF written, close_cb, on_close, UserReturns, Running
  <2> QED BY <2>1, <2>2, FrameNames, HandlerKeepsFlag
<1>8. CASE RunTask
  <2>1. stack = <<>> /\ Head(tasks) \in Handlers /\ stack' = <<Head(tasks)>>
    BY <1>8, TailHas DEF RunTask, Types
  <2>2. ~Has("on_connect")'
    BY <2>1, Polled DEF Frames, Handlers
  <2> QED BY <1>1, <1>8, <2>1, <2>2 DEF RunTask, FlagInv
<1>9. CASE ConnectDone \/ Accept \/ WriteDone \/ on_read
  <2>1. PICK a \in Frames : stack' = <<a>>
    BY <1>9, FrameNames DEF ConnectDone, Accept, WriteDone, on_read
  <2>2. stack = <<>> /\ connected_' = connected_
    BY <1>9 DEF ConnectDone, Accept, WriteDone, on_read, Polling
  <2>3. (Has("on_connect")' => a = "on_connect") /\ ~Under("on_connect")'
    BY <2>1, <2>2, Polled
  <2>4. /\ handle_' = "open"
    BY <1>9 DEF ConnectDone, Accept, WriteDone, on_read
  <2> QED BY <2>3, <2>4 DEF FlagInv
<1>10. CASE FinishClose
  <2>1. ~connected_'
    BY <1>1, <1>10 DEF FinishClose, Polling, FlagInv
  <2>2. ~Has("on_connect")'
    <3> DEFINE x == IF connecting THEN <<"on_connect_failed">> ELSE <<>>
               y == [w \in 1 .. writes |-> "on_write_failed"]
               z == <<"close_cb">>
    <3>1. /\ x \in Seq(Frames) /\ y \in Seq(Frames) /\ z \in Seq(Frames)
          /\ ~In(x, "on_connect") /\ ~In(y, "on_connect") /\ ~In(z, "on_connect")
      <4>1. x \in Seq(Frames) /\ z \in Seq(Frames)
        BY FrameNames
      <4>2. y \in Seq(Frames)
        BY FrameNames DEF Types
      <4>3. ~In(x, "on_connect") /\ ~In(z, "on_connect")
        BY EmptyHas, SingletonHas
      <4>4. ~In(y, "on_connect")
        BY DEF In
      <4> QED BY <4>1, <4>2, <4>3, <4>4
    <3>2. stack' = x \o y \o z
      BY <1>10 DEF FinishClose
    <3> HIDE DEF x, y, z
    <3>3. (x \o y) \in Seq(Frames) /\ ~In(x \o y, "on_connect")
      BY <3>1, ConcatHas
    <3> QED BY <3>1, <3>2, <3>3, ConcatHas DEF Has
  <2> QED BY <2>1, <2>2 DEF FlagInv
<1>11. ASSUME NEW h \in Handlers, CallInline(h) PROVE FlagInv'
  <2>1. /\ stack \in Seq(Frames) /\ h \in Frames /\ stack # <<>> /\ Head(stack) = "user"
        /\ stack' = <<h>> \o stack /\ UNCHANGED <<connected_, handle_>>
    BY <1>11 DEF Types, CallInline, Running, Frames
  <2>2. \A f : Has(f)' <=> f = h \/ Has(f)
    BY <2>1, PushHas DEF Has
  <2>3. ~Has("on_connect")
    BY <2>1, StackTop DEF FlagInv
  <2> QED BY <2>1, <2>2, <2>3 DEF FlagInv, Handlers
<1>12. CASE UNCHANGED <<connected_, handle_, stack>>
  BY <1>12 DEF FlagInv, Has, Under
<1> QED
  BY <1>2, <1>3, <1>4, <1>5, <1>6, <1>7, <1>8, <1>9, <1>10, <1>11, <1>12
  DEF Next, vars, Handler, Call, Post

\* Every variable keeps its type, the queue of buffers the bound on_send tests, and
\* connected_ what it says of the handle between two callbacks, whatever fails,
\* whichever connect is stopped and however often the connection is restarted.
THEOREM TypeCorrect == Spec => []TypeOK
<1>1. Init => FlagInv
  BY EmptyHas DEF Init, FlagInv, Has
<1>2. Types /\ FlagInv => TypeOK
  BY EmptyHas DEF TypeOK, FlagInv, Has
<1> QED BY <1>1, <1>2, TypesHold, FlagNext, PTL DEF Spec

-----------------------------------------------------------------------------
(* The theorems.                                                           *)

LEMMA SafeInit == Init => Safe
<1> SUFFICES ASSUME Init PROVE Safe
  OBVIOUS
<1>1. \A f \in Frames : ~Has(f) /\ ~Under(f) /\ ~Out(f) /\ Single(f)
  <2>1. /\ stack = <<>> /\ tasks = <<>> /\ "none" \notin Frames
        /\ call = [th \in Threads |-> "none"]
    BY DEF Init, Frames, Handlers
  <2> QED
    BY <2>1, EmptyHas DEF Has, Under, Out, Single, UnderWay, InOnePlace
<1>2. ~Reporting /\ ~Opening /\ ~Ending /\ ~Written
  BY <1>1, FrameNames DEF Reporting, Opening, Ending, Written, Init
<1>3. HandleState /\ IdleState /\ EndState
  BY <1>1, <1>2, FrameNames DEF Init, HandleState, IdleState, EndState
<1>4. StackState /\ OpenState /\ CallState
  BY <1>1, <1>2, FrameNames DEF Init, StackState, OpenState, CallState
<1>5. WriteState /\ DataState
  BY <1>1, <1>2, FrameNames DEF Init, WriteState, DataState
<1> QED BY <1>3, <1>4, <1>5 DEF Safe

LEMMA FaultsStay == [Next]_vars => faults' = faults
  BY DEF Next, vars, Handler, RunTask, UserReturns, on_start, on_stop, on_send,
         on_connect, on_write, written, close_cb, on_close, FinishClose, ConnectDone,
         Accept, WriteDone, on_read, CallInline, Call, Post

LEMMA SafeNext == Types /\ Listens /\ Safe /\ [Next]_vars => Safe'
<1> SUFFICES ASSUME Types, Listens, Safe, [Next]_vars PROVE Safe'
  OBVIOUS
<1>1. CASE Handler
  BY <1>1, StartKeeps, StopKeeps, SendKeeps, ConnectKeeps, WriteReportKeeps,
     WrittenKeeps, CloseCbKeeps, OnCloseKeeps DEF Handler
<1>2. CASE RunTask \/ UserReturns
  BY <1>2, RunKeeps, UserReturnsKeeps
<1>3. CASE FinishClose \/ ConnectDone \/ Accept \/ WriteDone \/ on_read
  BY <1>3, FinishCloseKeeps, ConnectDoneKeeps, AcceptKeeps, WriteDoneKeeps, ReadKeeps
<1>4. ASSUME NEW h \in Handlers, CallInline(h) PROVE Safe'
  BY <1>4, InlineKeeps
<1>5. ASSUME NEW th \in Threads, Post(th) \/ \E h \in Handlers : Call(th, h)
      PROVE  Safe'
  BY <1>5, PostKeeps, CallKeeps
<1>6. CASE UNCHANGED vars
  <2>1. /\ \A f : (Has(f)' <=> Has(f)) /\ (Under(f)' <=> Under(f))
        /\ (Out("on_start")' <=> Out("on_start")) /\ (Out("on_stop")' <=> Out("on_stop"))
        /\ (Single("on_start")' <=> Single("on_start"))
        /\ (Once(stack, "written")' <=> Once(stack, "written"))
    BY <1>6 DEF vars, apiVars, Has, Under, Out, Single
  <2>2. CallState'
    BY <1>6, <2>1 DEF vars, apiVars, uvVars, eventVars, Safe, CallState, Idle
  <2>3. StackState' /\ (connecting => \A f \in Frames \ {"user", "on_send"} : ~Has(f)')
    BY <2>1 DEF Safe, StackState, OpenState
  <2>4. /\ UNCHANGED <<connected_, uvVars, send_buf_, writes, event, crashed, faults>>
        /\ stack' = stack /\ starts' = starts
    BY <1>6 DEF vars, sendVars, eventVars, apiVars
  <2> QED BY <2>1, <2>2, <2>3, <2>4, QuietKeeps DEF Safe, WriteState, Tells
<1> QED BY <1>1, <1>2, <1>3, <1>4, <1>5, <1>6 DEF Next

LEMMA ConnInvariant == Spec => []ConnInv
<1>1. Init => ConnInv
  BY SafeInit DEF ConnInv
<1>2. Types /\ ConnInv /\ [Next]_vars => ConnInv'
  BY SafeNext, FaultsStay DEF ConnInv, Listens
<1> QED BY <1>1, <1>2, TypesHold, PTL DEF Spec

\* As long as no connect is stopped, write_req_ is never used before its callback,
\* over failing writes, stops and restarts.
THEOREM WriteRequestIsFree == Spec => []OneWriteInFlight
<1>1. ConnInv => OneWriteInFlight
  BY DEF ConnInv, Safe, WriteState, OneWriteInFlight
<1> QED BY <1>1, ConnInvariant, PTL

\* And no buffer waits in the queue of an open connection without a write in flight
\* ahead of it.
THEOREM QueueAlwaysMoves == Spec => []QueueMoves
<1>1. ConnInv => QueueMoves
  <2> SUFFICES ASSUME ConnInv, Listens, stack = <<>>, handle_ = "open", send_buf_ # <<>>
               PROVE  writes = 1
    BY DEF QueueMoves
  <2>1. \A f : ~Has(f)
    BY EmptyHas DEF Has
  <2> QED BY <2>1 DEF ConnInv, Safe, WriteState, Written
<1> QED BY <1>1, ConnInvariant, PTL

\* When besides every connect and accept succeeds, the close callback always finds
\* h->data set and on_write a buffer to pop.
THEOREM NoCrashOnceConnectionsSucceed == Spec => []NoCrashOnceUp
<1>1. ConnInv => NoCrashOnceUp
  BY DEF ConnInv, Safe, DataState, NoCrashOnceUp, NoCrash, Listens
<1> QED BY <1>1, ConnInvariant, PTL

-----------------------------------------------------------------------------
(* The buffer that is being written.                                       *)

InFlight ==
  writes > 0 => send_buf_ # <<>> /\ wire # <<>> /\ Head(send_buf_) = Last(wire)

LEMMA BufInFlight ==
  ASSUME Types, send_buf, handle_ = "open", send_buf_' # <<>>
  PROVE  InFlight'
<1>1. wire \in Seq(Nat) /\ wire' = Append(wire, Head(send_buf_'))
  BY DEF send_buf, FrontBuf, Types
<1>2. wire' # <<>> /\ Last(wire') = Head(send_buf_')
  <2> DEFINE x == Head(send_buf_')
             S == Nat \cup {x}
  <2>1. wire \in Seq(S) /\ x \in S /\ wire' = Append(wire, x)
    BY <1>1
  <2> HIDE DEF x, S
  <2> QED BY <2>1 DEF Last, x
<1> QED BY <1>2 DEF InFlight

LEMMA FlightNext == Types /\ Safe /\ InFlight /\ [Next]_vars => InFlight'
<1> SUFFICES ASSUME Types, Safe, InFlight, [Next]_vars PROVE InFlight'
  OBVIOUS
<1> USE DEF uvVars, sendVars, apiVars, eventVars
<1>1. CASE on_send
  <2>1. CASE ~(connected_ /\ ~Full)
    BY <1>1, <2>1 DEF on_send, Refuse, InFlight
  <2>2. CASE connected_ /\ ~Full
    <3>1. /\ send_buf_' = Append(send_buf_, accepted + 1) /\ handle_ = "open"
          /\ IF Sending THEN UNCHANGED <<writes, wire>> ELSE send_buf
      BY <1>1, <2>2 DEF on_send, Queue, Safe, HandleState
    <3>2. /\ send_buf_' # <<>>
          /\ send_buf_ # <<>> => Head(send_buf_') = Head(send_buf_)
      BY <3>1 DEF Types
    <3> QED BY <3>1, <3>2, BufInFlight DEF InFlight, Sending
  <2> QED BY <2>1, <2>2
<1>2. CASE written
  <2>1. writes = 0
    <3>1. Has("written")
      BY <1>2, StackTop DEF written, Running
    <3> QED BY <3>1 DEF Safe, WriteState, Written
  <2>2. CASE UNCHANGED writes
    BY <2>1, <2>2 DEF InFlight
  <2>3. CASE writes' # writes
    <3>1. /\ send_buf_' = Tail(send_buf_) /\ Len(send_buf_) > 1 /\ send_buf
          /\ handle_ = "open" /\ send_buf_ # <<>>
      BY <1>2, <2>3 DEF written, Pop, SendNext, send_buf
    <3>2. send_buf_' # <<>>
      <4>1. send_buf_ \in Seq(Nat)
        BY DEF Types
      <4>2. /\ Len(send_buf_') = Len(send_buf_) - 1 /\ Len(send_buf_) \in Nat
            /\ send_buf_' \in Seq(Nat)
        BY <3>1, <4>1, HeadTailProperties
      <4>3. Len(send_buf_') > 0
        BY <3>1, <4>2
      <4> QED BY <4>2, <4>3, LongIsNotEmpty
    <3> QED BY <3>1, <3>2, BufInFlight
  <2> QED BY <2>2, <2>3
<1>3. CASE on_close
  <2>1. Has("on_close")
    BY <1>3, StackTop DEF on_close, Running
  <2>2. writes = 0 /\ writes' = writes
    BY <1>3, <2>1 DEF on_close, Safe, EndState, Ending
  <2> QED BY <2>2 DEF InFlight
<1>4. CASE WriteDone \/ FinishClose
  <2>1. UNCHANGED <<send_buf_, wire>> /\ (writes' > 0 => writes > 0)
    BY <1>4 DEF WriteDone, FinishClose, Types
  <2> QED BY <2>1 DEF InFlight
<1>5. CASE UNCHANGED <<send_buf_, wire, writes>>
  BY <1>5 DEF InFlight
<1> QED
  BY <1>1, <1>2, <1>3, <1>4, <1>5
  DEF Next, vars, Handler, RunTask, UserReturns, on_start, on_stop, on_connect,
      on_write, close_cb, ConnectDone, Accept, on_read, CallInline, Call, Post

\* The buffers are given to uv_write in the order in which on_send queued them, none
\* twice, even when connects are stopped and closes reported twice; and as long as
\* none is, the one that is being written stays at the front of the queue.
THEOREM BuffersAreWrittenInOrder == Spec => []WrittenInOrder
<1> DEFINE Flight == Listens => InFlight
<1>1. Init => Flight
  BY DEF Init, InFlight
<1>2. Types /\ ConnInv /\ Flight /\ [Next]_vars => Flight'
  BY FlightNext, FaultsStay DEF ConnInv, Listens
<1>3. Types /\ OrderInv /\ Flight => WrittenInOrder
  <2>1. Types /\ OrderInv => \A i, j \in DOMAIN wire : i < j => wire[i] < wire[j]
    <3>1. Types => DOMAIN wire = 1 .. Len(wire)
      BY DEF Types
    <3> QED BY <3>1 DEF OrderInv, Ordered
  <2> QED BY <2>1 DEF InFlight, WrittenInOrder
<1> QED BY <1>1, <1>2, <1>3, TypesHold, ConnInvariant, OrderHolds, PTL DEF Spec

-----------------------------------------------------------------------------
(* The order of the callbacks.                                             *)

\* Every step tells the application nothing, or what comes next.
LEMMA StepTells ==
  Types /\ ConnInv /\ [Next]_vars
    => [Events!Next]_<<IF Listens THEN event ELSE "none", IF Listens THEN turns ELSE 0>>
<1> SUFFICES ASSUME Types, ConnInv, [Next]_vars
             PROVE  [Events!Next]_<<IF Listens THEN event ELSE "none",
                                    IF Listens THEN turns ELSE 0>>
  OBVIOUS
<1>1. Listens' <=> Listens
  BY FaultsStay DEF Listens
<1>2. CASE ~Listens
  BY <1>1, <1>2
<1>3. CASE Listens
  <2>1. Safe
    BY <1>3 DEF ConnInv
  <2>2. CASE UNCHANGED eventVars
    BY <1>1, <1>3, <2>2 DEF eventVars
  <2>3. CASE on_connect
    <3>1. event \in {"none", "begun", "early"}
      <4>1. stack # <<>> /\ Head(stack) \in {"on_connect", "on_connect_failed"}
        BY <2>3 DEF on_connect, Running
      <4>2. Reporting /\ Opening
        BY <4>1, StackTop DEF Reporting, Opening
      <4> QED BY <2>1, <4>2 DEF Safe, OpenState, HandleState
    <3> QED BY <1>1, <1>3, <2>3, <3>1 DEF on_connect, Events!Next, Events!Open
  <2>4. CASE on_write
    <3>1. connected_ => event \in {"open", "traffic"}
      <4>1. stack # <<>> /\ Head(stack) \in {"on_write", "on_write_failed"}
        BY <2>4 DEF on_write, Running
      <4>2. Has("on_write") \/ Has("on_write_failed")
        BY <4>1, StackTop
      <4>3. ~Opening
        BY <2>1, <4>1, <4>2, FrameNames DEF Safe, OpenState, Opening
      <4> QED BY <2>1, <4>3 DEF Safe, HandleState
    <3>2. UNCHANGED eventVars \/ (connected_ /\ event' = "traffic" /\ turns' = turns)
      BY <2>4 DEF on_write, eventVars
    <3> QED BY <1>1, <1>3, <2>2, <3>1, <3>2 DEF Events!Next, Events!Traffic
  <2>5. CASE on_read
    <3>1. event \in {"open", "traffic"}
      BY <2>1, <2>5 DEF on_read, Safe, HandleState
    <3>2. UNCHANGED eventVars \/ (event' = "traffic" /\ turns' = turns)
      BY <2>5 DEF on_read, eventVars
    <3> QED BY <1>1, <1>3, <2>2, <3>1, <3>2 DEF Events!Next, Events!Traffic
  <2>6. CASE on_close
    <3>1. event \in {"open", "traffic"}
      <4>1. Has("on_close")
        BY <2>6, StackTop DEF on_close, Running
      <4> QED BY <2>1, <4>1 DEF Safe, EndState, Ending
    <3> QED BY <1>1, <1>3, <2>6, <3>1 DEF on_close, Events!Next, Events!Close
  <2>7. CASE on_start
    <3>1. event \in {"none", "close"}
      <4>1. Out("on_start")
        BY <2>7, StackTop DEF on_start, Running, Out, UnderWay, Has
      <4> QED BY <2>1, <4>1 DEF Safe, CallState, Idle
    <3>2. UNCHANGED eventVars \/ (event' = "begun" /\ turns' = turns + 1)
      BY <2>7 DEF on_start, eventVars
    <3> QED BY <1>1, <1>3, <2>2, <3>1, <3>2 DEF Events!Next, Events!Begin
  <2>8. CASE on_send
    <3>1. connected_ => event \in {"begun", "early", "open", "traffic"}
      <4>1. ~Reporting
        BY <2>1, <2>8 DEF on_send, Running, Safe, OpenState
      <4> QED BY <2>1, <4>1 DEF Safe, HandleState, Opening
    <3>2. CASE UNCHANGED event
      BY <2>2, <2>8, <3>2 DEF on_send, eventVars
    <3>3. CASE connected_ /\ Refuse
      <4>1. /\ event' = IF event \in {"begun", "early"} THEN "early" ELSE "traffic"
            /\ turns' = turns
        BY <2>8, <3>3 DEF on_send, Refuse
      <4> QED BY <1>1, <1>3, <3>1, <3>3, <4>1 DEF Events!Next, Events!Early, Events!Traffic
    <3> QED BY <2>8, <3>2, <3>3 DEF on_send, Queue
  <2> QED
    BY <2>2, <2>3, <2>4, <2>5, <2>6, <2>7, <2>8
    DEF Next, vars, Handler, RunTask, UserReturns, on_stop, written, close_cb,
        FinishClose, ConnectDone, Accept, WriteDone, CallInline, Call, Post
<1> QED BY <1>2, <1>3

\* The callbacks come in the order HandleEvents gives: after a connect has begun the
\* buffers refused, opened once, then data, written and refused buffers, closed once,
\* also after a connect that failed.
THEOREM ConnectionTellsInOrder == Spec => CallbacksInOrder
<1>1. Init => Events!Init
  BY DEF Init, Events!Init
<1> QED
  BY <1>1, TypesHold, ConnInvariant, StepTells, PTL
  DEF Spec, CallbacksInOrder, Events!Spec

=============================================================================
