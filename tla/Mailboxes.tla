----------------------------- MODULE Mailboxes -----------------------------
(***************************************************************************)
(* The event loops of many objects.  Each is a Mailbox, here one record,   *)
(* so that a specification can keep a function from its objects to their   *)
(* loops.  Everything below is a step of the Mailbox, written as a         *)
(* function of its state; AreMailboxes of Sinks says that what a module    *)
(* does with them is what a Mailbox does.                                  *)
(***************************************************************************)
EXTENDS Naturals, Sequences

NewBox ==
  [sent |-> <<>>, received |-> <<>>, busy |-> FALSE, stopped |-> FALSE,
   noticed |-> FALSE, closed |-> FALSE]

BoxType(Items) ==
  [sent : Seq(Items), received : Seq(Items), busy : BOOLEAN, stopped : BOOLEAN,
   noticed : BOOLEAN, closed : BOOLEAN]

Put(b, item) == [b EXCEPT !.sent = Append(@, item)]

Waiting(b) == Len(b.received) < Len(b.sent)
MayTake(b) == ~b.busy /\ ~b.noticed /\ Waiting(b)
Take(b) ==
  [b EXCEPT !.received = Append(@, b.sent[Len(@) + 1]), !.busy = TRUE,
            !.noticed = b.stopped]
Handled(b) == [b EXCEPT !.busy = FALSE]

Stopped(b) == [b EXCEPT !.stopped = TRUE, !.noticed = @ \/ b.busy]

MayNotice(b) == b.stopped /\ ~b.noticed
Noticed(b) == [b EXCEPT !.noticed = TRUE]
MayClose(b) == b.noticed /\ ~b.busy /\ ~b.closed
Closed(b) == [b EXCEPT !.closed = TRUE]
============================================================================
