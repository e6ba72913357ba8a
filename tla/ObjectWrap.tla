----------------------------- MODULE ObjectWrap -----------------------------
(***************************************************************************)
(* An AsyncObjectWrapWithLoop (src/src/node/async_object_wrap_with_loop.h) *)
(* is a native object that a JavaScript object owns, with an EventLoop     *)
(* inside it: the queue, the lock and libuv's handle are its members.      *)
(* When JavaScript cannot reach it and its reference count is zero, V8     *)
(* collects it and the memory is gone.  The constructor takes a reference  *)
(* that only DidStop, the callback of uv_close, gives back; a peer         *)
(* connection may hold one more.                                           *)
(*                                                                         *)
(* The model is EventLoop with the life of the object around it.           *)
(***************************************************************************)
EXTENDS EventLoop

VARIABLES
  refs,       \* Napi::ObjectWrap's reference count
  owned,      \* the peer connection holds one of them
  reachable,  \* JavaScript reaches the object
  alive       \* it has not been collected

wrapVars == <<refs, owned, reachable, alive>>
allVars == <<vars, wrapVars>>

(* Fault: the constructor takes no reference.                              *)
WrapInitUnreferenced ==
  /\ Init
  /\ refs = 0
  /\ owned = FALSE
  /\ reachable = TRUE
  /\ alive = TRUE

WrapInit ==
  /\ Init
  /\ refs = 1
  /\ owned = FALSE
  /\ reachable = TRUE
  /\ alive = TRUE

----------------------------------------------------------------------------
(* The loop goes on as it does by itself.  A call begins on an object that *)
(* lives; JavaScript's, on one that it reaches or that is being handled.   *)
WrapCall(c) ==
  /\ alive
  /\ c = JS => reachable \/ runPc = "event"
  /\ Stop(c) \/ \E e \in Events : Dispatch(c, e)
  /\ UNCHANGED wrapVars

WrapFinishCall(c) == FinishCall(c) /\ UNCHANGED wrapVars

(* Fault: the reference is given back next to uv_close, not in its         *)
(* callback.                                                               *)
WrapRunEarly ==
  \/ /\ Run /\ runPc # "close" /\ UNCHANGED wrapVars
  \/ /\ RunClose
     /\ refs' = refs - 1
     /\ UNCHANGED <<owned, reachable, alive>>

WrapRun ==
  /\ Run
  /\ handle' # "closed" \/ handle = "closed"
  /\ UNCHANGED wrapVars

(* Fault: DidStop gives nothing back.                                      *)
WrapDidStopKeep ==
  /\ DidStop
  /\ UNCHANGED wrapVars

WrapDidStop ==
  /\ DidStop
  /\ refs' = refs - 1
  /\ UNCHANGED <<owned, reachable, alive>>

----------------------------------------------------------------------------
(* What JavaScript and V8 do to the object                                 *)

JavaScriptRuns == pc[JS] = "idle" /\ runPc \in JavaScriptPoints

(* The peer connection takes its reference when it creates the object or   *)
(* wraps it, and gives it back when it is closed.                          *)
Ref ==
  /\ JavaScriptRuns /\ reachable /\ ~owned
  /\ refs' = refs + 1
  /\ owned' = TRUE
  /\ UNCHANGED <<vars, reachable, alive>>

Unref ==
  /\ JavaScriptRuns /\ owned
  /\ refs' = refs - 1
  /\ owned' = FALSE
  /\ UNCHANGED <<vars, reachable, alive>>

(* The program drops its last reference, and gets one again from an event  *)
(* or from the peer connection.                                            *)
Forget ==
  /\ JavaScriptRuns /\ reachable
  /\ reachable' = FALSE
  /\ UNCHANGED <<vars, refs, owned, alive>>

Remember ==
  /\ JavaScriptRuns /\ ~reachable /\ alive
  /\ runPc = "event" \/ owned
  /\ reachable' = TRUE
  /\ UNCHANGED <<vars, refs, owned, alive>>

(* Garbage collection happens while JavaScript runs.                       *)
Collect ==
  /\ JavaScriptRuns
  /\ alive /\ ~reachable /\ refs = 0
  /\ alive' = FALSE
  /\ UNCHANGED <<vars, refs, owned, reachable>>

WrapNext ==
  \/ \E c \in Callers : WrapCall(c) \/ WrapFinishCall(c)
  \/ WrapRun \/ WrapDidStop
  \/ Ref \/ Unref \/ Forget \/ Remember \/ Collect

(* As for the loop; V8 may collect or not.                                 *)
WrapFairness ==
  /\ WF_allVars(WrapRun \/ WrapDidStop)
  /\ \A c \in Callers : WF_allVars(WrapFinishCall(c))

WrapSafeSpec == WrapInit /\ [][WrapNext]_allVars
WrapSpec == WrapSafeSpec /\ WrapFairness

----------------------------------------------------------------------------

WrapTypeOK ==
  /\ TypeOK
  /\ refs \in 0..2
  /\ owned \in BOOLEAN /\ reachable \in BOOLEAN /\ alive \in BOOLEAN

(* The object outlives its loop as the JavaScript thread sees it: libuv    *)
(* never touches the handle of a collected object, Run never runs on one,  *)
(* and JavaScript is never inside a call of one.                           *)
OutlivesLoop ==
  handle # "closed" \/ runPc # "poll" \/ pc[JS] # "idle" => alive

(* A reference is held for the peer connection and for the loop, never     *)
(* more and never less, so that the object is neither freed under one of   *)
(* them nor kept for nobody.                                               *)
RefsBalance ==
  refs = (IF owned THEN 1 ELSE 0) + (IF handle = "closed" THEN 0 ELSE 1)

(* A stopped object is given free: if the peer connection lets go as well, *)
(* nothing but JavaScript keeps it.                                        *)
StopFrees == should_stop ~> refs = 0 \/ owned

(* CHANGELOG.md, 0.0.67: objects accessed in an event loop "were getting   *)
(* freed before the event loop completed"; now they are not.  A native     *)
(* thread inside Dispatch or Stop is as much a user of the loop as Run.    *)
OutlivesCalls == \A c \in Callers : pc[c] # "idle" => alive
============================================================================
