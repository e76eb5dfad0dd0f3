---------------------------- MODULE HandleEvents ----------------------------
(***************************************************************************)
(* What the user of a TcpConnection, TcpServer, IOTimer or IOSignal is     *)
(* told of its life: that it is open (the connect or launch callback, the  *)
(* start of a timer), then the events it exists for - received data,       *)
(* written or refused buffers, expirations, signals, accepted connections  *)
(* - then the close callback, once; after it the object may be started     *)
(* again.  A connection that has begun to connect takes buffers already,   *)
(* and may refuse one before it is open.                                   *)
(***************************************************************************)
EXTENDS Naturals

VARIABLES
  event,      \* the last callback; "begun": a connect has begun since
  turns       \* how many begin, open and close events there have been

Init == event = "none" /\ turns = 0

Begin ==
  /\ event \in {"none", "close"}
  /\ event' = "begun"
  /\ turns' = turns + 1

Early ==
  /\ event \in {"begun", "early"}
  /\ event' = "early"
  /\ UNCHANGED turns

Open ==
  /\ event \in {"none", "close", "begun", "early"}
  /\ event' = "open"
  /\ turns' = turns + 1

Traffic ==
  /\ event \in {"open", "traffic"}
  /\ event' = "traffic"
  /\ UNCHANGED turns

Close ==
  /\ event \in {"open", "traffic"}
  /\ event' = "close"
  /\ turns' = turns + 1

Next == Begin \/ Early \/ Open \/ Traffic \/ Close

Spec == Init /\ [][Next]_<<event, turns>>

=============================================================================
