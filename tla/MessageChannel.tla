---------------------------- MODULE MessageChannel ----------------------------
(***************************************************************************)
(* What a control stream promises: whole messages, each once, in the order *)
(* they were sent, until it is closed, when those under way are lost.      *)
(***************************************************************************)
EXTENDS Sequences

CONSTANTS Message, NoMessage

VARIABLES
  open,   \* the stream is open
  queue,  \* messages sent and not yet received
  last    \* the message just received, until it is dealt with

vars == <<open, queue, last>>

Init ==
  /\ open \in BOOLEAN
  /\ queue = <<>>
  /\ last = NoMessage

Open ==
  /\ ~open
  /\ open' = TRUE
  /\ queue' = <<>>
  /\ last' = NoMessage

Send(m) ==
  /\ open
  /\ queue' = Append(queue, m)
  /\ UNCHANGED <<open, last>>

(* Receiving a message may be the reason to close the stream. *)
Receive ==
  /\ open
  /\ queue # <<>>
  /\ last' = Head(queue)
  /\ \/ queue' = Tail(queue) /\ UNCHANGED open
     \/ queue' = <<>> /\ open' = FALSE

Handled ==
  /\ last' = NoMessage
  /\ UNCHANGED <<open, queue>>

Close ==
  /\ open
  /\ open' = FALSE
  /\ queue' = <<>>
  /\ last' = NoMessage

Next == Open \/ (\E m \in Message : Send(m)) \/ Receive \/ Handled \/ Close

Spec == Init /\ [][Next]_vars
==============================================================================
