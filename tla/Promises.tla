------------------------------ MODULE Promises ------------------------------
(***************************************************************************)
(* What calls that answer with a promise give the program.  A call is made *)
(* once; its promise is refused at once, or pending until it is resolved   *)
(* or rejected, once and for good.  The promises of the calls in Ordered   *)
(* are settled in the order in which the calls were made.                  *)
(***************************************************************************)
EXTENDS Naturals, Sequences

CONSTANTS
  Calls,   \* the calls that a program might make
  Ordered  \* those of them whose promises are settled in order

VARIABLES
  promise,  \* each call's promise; "unused" if the program does not make it
  issued    \* history: the calls that have been made, in order

vars == <<promise, issued>>

Init ==
  /\ promise \in [Calls -> {"none", "unused"}]
  /\ issued = <<>>

Issue(c, how) ==
  /\ promise[c] = "none"
  /\ promise' = [promise EXCEPT ![c] = how]
  /\ issued' = Append(issued, c)

(* No ordered call that is still pending was made before c.                *)
Due(c) ==
  \A i, j \in DOMAIN issued :
    i < j /\ issued[i] \in Ordered /\ issued[j] = c => promise[issued[i]] # "pending"

Settle(c, how) ==
  /\ promise[c] = "pending"
  /\ c \in Ordered => Due(c)
  /\ promise' = [promise EXCEPT ![c] = how]
  /\ UNCHANGED issued

Next ==
  \E c \in Calls :
    \/ \E how \in {"pending", "refused"} : Issue(c, how)
    \/ \E how \in {"resolved", "rejected"} : Settle(c, how)

SafeSpec == Init /\ [][Next]_vars
============================================================================
