------------------------------ MODULE Mailbox ------------------------------
(***************************************************************************)
(* What an EventLoop promises the object that owns it: a mailbox.  Any     *)
(* thread puts items in; the JavaScript thread takes them out, one at a    *)
(* time, in the order they were put in.  Any thread may stop it.  A stop   *)
(* during the handling of an item is noticed before the next one; a stop   *)
(* between two items may be noticed one item late.  After that the mailbox *)
(* takes nothing more and closes; what still waits is never handled.       *)
(***************************************************************************)
EXTENDS Naturals, Sequences

CONSTANT Items

VARIABLES
  sent,      \* everything put in, in order
  received,  \* everything taken out, in order
  busy,      \* the last of received is being handled
  stopped,   \* the mailbox has been stopped
  noticed,   \* the stop has been noticed: nothing will be taken out any more
  closed     \* the mailbox has closed

vars == <<sent, received, busy, stopped, noticed, closed>>

Waiting == Len(received) < Len(sent)
NextItem == sent[Len(received) + 1]

Init ==
  /\ sent = <<>>
  /\ received = <<>>
  /\ busy = FALSE
  /\ stopped = FALSE
  /\ noticed = FALSE
  /\ closed = FALSE

Send(i) ==
  /\ sent' = Append(sent, i)
  /\ UNCHANGED <<received, busy, stopped, noticed, closed>>

Receive ==
  /\ ~busy /\ ~noticed /\ Waiting
  /\ received' = Append(received, NextItem)
  /\ busy' = TRUE
  /\ noticed' = stopped
  /\ UNCHANGED <<sent, stopped, closed>>

Done ==
  /\ busy
  /\ busy' = FALSE
  /\ UNCHANGED <<sent, received, stopped, noticed, closed>>

Stop ==
  /\ stopped' = TRUE
  /\ noticed' \in BOOLEAN
  /\ busy \/ noticed => noticed'
  /\ UNCHANGED <<sent, received, busy, closed>>

Notice ==
  /\ stopped /\ ~noticed
  /\ noticed' = TRUE
  /\ UNCHANGED <<sent, received, busy, stopped, closed>>

Close ==
  /\ noticed /\ ~busy /\ ~closed
  /\ closed' = TRUE
  /\ UNCHANGED <<sent, received, busy, stopped, noticed>>

Next ==
  \/ \E i \in Items : Send(i)
  \/ Receive
  \/ Done
  \/ Stop
  \/ Notice
  \/ Close

SafeSpec == Init /\ [][Next]_vars

(* The receiving thread never rests while there is something to do.        *)
Spec == SafeSpec /\ WF_vars(Receive \/ Notice) /\ WF_vars(Done) /\ WF_vars(Close)
============================================================================
