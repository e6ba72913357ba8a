----------------------------- MODULE EventLoop -----------------------------
(***************************************************************************)
(* EventLoop<T> (src/src/node/event_loop.h) carries work from libwebrtc's  *)
(* signaling and worker threads to the one JavaScript thread.  Any thread  *)
(* calls Dispatch or Stop; libuv runs Run on the JavaScript thread once    *)
(* the uv_async_t embedded in the object has been signalled.  The queue is *)
(* the EventQueue<T> of src/src/node/event_queue.h, whose mutex makes one  *)
(* Enqueue and one Dequeue indivisible.                                    *)
(*                                                                         *)
(* A caller stands at one of the points of Dispatch or Stop:               *)
(*   "idle"     outside both                                               *)
(*   "stopping" Stop has set _should_stop, its empty event is not queued   *)
(*   "lock"     the event is queued, _lock not yet taken                   *)
(*   "check"    _lock held, about to ask uv_is_closing                     *)
(*   "send"     _lock held, found the handle open, about to signal it      *)
(*   "unlock"   _lock held, about to release it                            *)
(* Run stands at:                                                          *)
(*   "poll"     outside Run: libuv polls, or other JavaScript runs         *)
(*   "enter"    called, about to read _should_stop                         *)
(*   "loop"     about to Dequeue                                           *)
(*   "event"    inside event->Dispatch(_target), which runs JavaScript     *)
(*   "test"     about to read _should_stop in the loop                     *)
(*   "ticks"    in ~CallbackScope, which runs the process.nextTick and     *)
(*              promise callbacks; the loop goes on afterwards             *)
(*   "break"    the same destructor, on the way out of the loop            *)
(*   "exit"     about to read _should_stop after the loop                  *)
(*   "closelock", "close", "closeunlock"   around uv_close                 *)
(***************************************************************************)
EXTENDS Naturals, Sequences

CONSTANTS
  Callers,   \* the threads that call Dispatch and Stop
  JS,        \* the JavaScript thread, one of the callers
  Events,    \* the events the callers dispatch; an event is dispatched once
  NoOp,      \* the empty event that Stop dispatches
  NoOne,     \* the holder of a free lock
  MaxStops   \* bound: how often Stop is called

ASSUME JSAssumption == JS \in Callers
ASSUME NoOpAssumption == NoOp \notin Events
ASSUME NoOneAssumption == NoOne \notin Callers
ASSUME MaxStopsAssumption == MaxStops \in Nat

VARIABLES
  events,       \* EventQueue::_events
  should_stop,  \* EventLoop::_should_stop
  lock,         \* EventLoop::_lock: its holder, or NoOne
  handle,       \* _async: "active", "closing" (uv_close called) or "closed"
  pending,      \* _async has been signalled and Run has not yet been called
  pc,           \* where each caller is
  runPc,        \* where Run is
  stops,        \* how often Stop has been called
  accepted,     \* history: everything Enqueue has queued, in order
  taken,        \* history: everything Run has dequeued, in order
  late          \* history: how many of taken were dequeued after Stop

vars == <<events, should_stop, lock, handle, pending, pc, runPc, stops,
          accepted, taken, late>>
queueVars == <<events, accepted, taken, late>>
stopVars == <<should_stop, stops>>
asyncVars == <<lock, handle, pending>>

Items == Events \cup {NoOp}

CallerPoints == {"idle", "stopping", "lock", "check", "send", "unlock"}
RunPoints == {"poll", "enter", "loop", "event", "test", "ticks", "break",
              "exit", "closelock", "close", "closeunlock"}

(***************************************************************************)
(* Where JavaScript code runs: outside Run, inside an event, in the        *)
(* callbacks that ~CallbackScope runs.  Only there can it call the loop.   *)
(***************************************************************************)
JavaScriptPoints == {"poll", "event", "ticks", "break"}

Init ==
  /\ events = <<>>
  /\ should_stop = FALSE
  /\ lock = NoOne
  /\ handle = "active"
  /\ pending = FALSE
  /\ pc = [c \in Callers |-> "idle"]
  /\ runPc = "poll"
  /\ stops = 0
  /\ accepted = <<>>
  /\ taken = <<>>
  /\ late = 0

----------------------------------------------------------------------------
(* Dispatch and Stop, on any thread                                        *)

MayCall(c) ==
  /\ pc[c] = "idle"
  /\ c = JS => runPc \in JavaScriptPoints

Goto(c, p) == pc' = [pc EXCEPT ![c] = p]

Enqueue(e) ==
  /\ events' = Append(events, e)
  /\ accepted' = Append(accepted, e)

Dispatch(c, e) ==
  /\ MayCall(c)
  /\ \A i \in DOMAIN accepted : accepted[i] # e
  /\ Enqueue(e)
  /\ Goto(c, "lock")
  /\ UNCHANGED <<stopVars, asyncVars, runPc, taken, late>>

Stop(c) ==
  /\ MayCall(c)
  /\ stops < MaxStops
  /\ should_stop' = TRUE
  /\ stops' = stops + 1
  /\ Goto(c, "stopping")
  /\ UNCHANGED <<queueVars, asyncVars, runPc>>

(* Fault: Stop only sets the flag.                                         *)
StopSilently(c) ==
  /\ pc[c] = "stopping"
  /\ Goto(c, "idle")
  /\ UNCHANGED <<queueVars, stopVars, asyncVars, runPc>>

StopDispatch(c) ==
  /\ pc[c] = "stopping"
  /\ Enqueue(NoOp)
  /\ Goto(c, "lock")
  /\ UNCHANGED <<stopVars, asyncVars, runPc, taken, late>>

DispatchLock(c) ==
  /\ pc[c] = "lock"
  /\ lock = NoOne
  /\ lock' = c
  /\ Goto(c, "check")
  /\ UNCHANGED <<queueVars, stopVars, handle, pending, runPc>>

(* Fault: signal only if the event is the only one queued.                 *)
DispatchCheckFirst(c) ==
  /\ pc[c] = "check"
  /\ Goto(c, IF handle = "active" /\ Len(events) = 1 THEN "send" ELSE "unlock")
  /\ UNCHANGED <<queueVars, stopVars, asyncVars, runPc>>

DispatchCheck(c) ==
  /\ pc[c] = "check"
  /\ Goto(c, IF handle = "active" THEN "send" ELSE "unlock")
  /\ UNCHANGED <<queueVars, stopVars, asyncVars, runPc>>

DispatchSend(c) ==
  /\ pc[c] = "send"
  /\ pending' = TRUE
  /\ Goto(c, "unlock")
  /\ UNCHANGED <<queueVars, stopVars, lock, handle, runPc>>

DispatchUnlock(c) ==
  /\ pc[c] = "unlock"
  /\ lock' = NoOne
  /\ Goto(c, "idle")
  /\ UNCHANGED <<queueVars, stopVars, handle, pending, runPc>>

Caller(c) ==
  \/ \E e \in Events : Dispatch(c, e)
  \/ Stop(c)
  \/ StopDispatch(c)
  \/ DispatchLock(c)
  \/ DispatchCheck(c)
  \/ DispatchSend(c)
  \/ DispatchUnlock(c)

----------------------------------------------------------------------------
(* Run, on the JavaScript thread                                           *)

(* libuv: uv__async_io clears the signal, then calls the callback.         *)
RunStart ==
  /\ runPc = "poll"
  /\ pc[JS] = "idle"
  /\ pending /\ handle = "active"
  /\ pending' = FALSE
  /\ runPc' = "enter"
  /\ UNCHANGED <<queueVars, stopVars, lock, handle, pc>>

RunEnter ==
  /\ runPc = "enter"
  /\ runPc' = IF should_stop THEN "exit" ELSE "loop"
  /\ UNCHANGED <<queueVars, stopVars, asyncVars, pc>>

(* Fault: front() without pop().                                           *)
RunPeek ==
  /\ runPc = "loop"
  /\ events # <<>>
  /\ taken' = Append(taken, Head(events))
  /\ runPc' = "event"
  /\ UNCHANGED <<stopVars, asyncVars, pc, events, accepted, late>>

RunDequeue ==
  /\ runPc = "loop"
  /\ IF events = <<>>
     THEN /\ runPc' = "exit"
          /\ UNCHANGED <<events, taken, late>>
     ELSE /\ events' = Tail(events)
          /\ taken' = Append(taken, Head(events))
          /\ late' = IF should_stop THEN late + 1 ELSE late
          /\ runPc' = "event"
  /\ UNCHANGED <<stopVars, asyncVars, pc, accepted>>

(* event->Dispatch returns: the JavaScript it called has run to its end.   *)
RunEventDone ==
  /\ runPc = "event"
  /\ pc[JS] = "idle"
  /\ runPc' = "test"
  /\ UNCHANGED <<queueVars, stopVars, asyncVars, pc>>

(* Fault: the loop drains the queue although it has been stopped.          *)
RunTestNever ==
  /\ runPc = "test"
  /\ runPc' = "ticks"
  /\ UNCHANGED <<queueVars, stopVars, asyncVars, pc>>

RunTest ==
  /\ runPc = "test"
  /\ runPc' = IF should_stop THEN "break" ELSE "ticks"
  /\ UNCHANGED <<queueVars, stopVars, asyncVars, pc>>

(* Fault: Run handles one event per signal.                                *)
RunOnce ==
  /\ runPc \in {"ticks", "break"}
  /\ pc[JS] = "idle"
  /\ runPc' = "exit"
  /\ UNCHANGED <<queueVars, stopVars, asyncVars, pc>>

RunTicksDone ==
  /\ runPc \in {"ticks", "break"}
  /\ pc[JS] = "idle"
  /\ runPc' = IF runPc = "break" THEN "exit" ELSE "loop"
  /\ UNCHANGED <<queueVars, stopVars, asyncVars, pc>>

(* Fault: uv_close is never called.                                        *)
RunExitOpen ==
  /\ runPc = "exit"
  /\ runPc' = "poll"
  /\ UNCHANGED <<queueVars, stopVars, asyncVars, pc>>

RunExit ==
  /\ runPc = "exit"
  /\ runPc' = IF should_stop THEN "closelock" ELSE "poll"
  /\ UNCHANGED <<queueVars, stopVars, asyncVars, pc>>

(* Fault: uv_close without _lock.                                          *)
RunCloseUnlocked ==
  /\ runPc = "closelock"
  /\ runPc' = "close"
  /\ UNCHANGED <<queueVars, stopVars, asyncVars, pc>>

RunCloseLock ==
  /\ runPc = "closelock"
  /\ lock = NoOne
  /\ lock' = JS
  /\ runPc' = "close"
  /\ UNCHANGED <<queueVars, stopVars, handle, pending, pc>>

RunClose ==
  /\ runPc = "close"
  /\ handle' = "closing"
  /\ runPc' = "closeunlock"
  /\ UNCHANGED <<queueVars, stopVars, lock, pending, pc>>

RunCloseUnlock ==
  /\ runPc = "closeunlock"
  /\ lock' = NoOne
  /\ runPc' = "poll"
  /\ UNCHANGED <<queueVars, stopVars, handle, pending, pc>>

(* libuv calls uv_close's callback in a later phase of its iteration.      *)
DidStop ==
  /\ runPc = "poll"
  /\ pc[JS] = "idle"
  /\ handle = "closing"
  /\ handle' = "closed"
  /\ UNCHANGED <<queueVars, stopVars, lock, pending, pc, runPc>>

Run ==
  \/ RunStart
  \/ RunEnter
  \/ RunDequeue
  \/ RunEventDone
  \/ RunTest
  \/ RunTicksDone
  \/ RunExit
  \/ RunCloseLock
  \/ RunClose
  \/ RunCloseUnlock
  \/ DidStop

Next ==
  \/ \E c \in Callers : Caller(c)
  \/ Run

(* Nobody has to dispatch or stop; a call that began is carried through,   *)
(* and the JavaScript thread goes on.                                      *)
FinishCall(c) ==
  \/ StopDispatch(c)
  \/ DispatchLock(c)
  \/ DispatchCheck(c)
  \/ DispatchSend(c)
  \/ DispatchUnlock(c)

Fairness ==
  /\ WF_vars(Run)
  /\ \A c \in Callers : WF_vars(FinishCall(c))

SafeSpec == Init /\ [][Next]_vars
Spec == SafeSpec /\ Fairness

----------------------------------------------------------------------------
(* What the loop promises                                                  *)

TypeOK ==
  /\ events \in Seq(Items)
  /\ should_stop \in BOOLEAN
  /\ lock \in Callers \cup {NoOne}
  /\ handle \in {"active", "closing", "closed"}
  /\ pending \in BOOLEAN
  /\ pc \in [Callers -> CallerPoints]
  /\ runPc \in RunPoints
  /\ stops \in 0..MaxStops
  /\ accepted \in Seq(Items)
  /\ taken \in Seq(Items)
  /\ late \in Nat

(* No event is lost, duplicated or overtaken: what the callers queued is   *)
(* what Run has dequeued, in that order, followed by what still waits.     *)
FifoInv == accepted = taken \o events

(* No wake-up is lost.  While the handle is open and nobody has stopped    *)
(* the loop, a waiting event is covered: the handle is signalled, or the   *)
(* caller that queued it has still to signal it, or Run has still to look  *)
(* at the queue.  DispatchSend is skipped only on a handle being closed,   *)
(* and libuv forgets the signal before it calls Run, not after.            *)
WillSignal(c) == pc[c] \in {"lock", "check", "send"}
WillDequeue == runPc \in {"enter", "loop", "event", "test", "ticks"}
NoLostWakeup ==
  events # <<>> /\ ~should_stop =>
    pending \/ WillDequeue \/ \E c \in Callers : WillSignal(c)

(* No stop request is lost: until uv_close has been called, somebody is    *)
(* still on the way to wake Run up, or Run is on the way to uv_close.      *)
NoLostStop ==
  should_stop /\ handle = "active" =>
    \/ pending
    \/ runPc # "poll"
    \/ \E c \in Callers : pc[c] = "stopping" \/ WillSignal(c)

(* _lock does its work: no thread signals a handle that is being closed,   *)
(* uv_close is called on an open handle only, hence once, and _lock has    *)
(* one holder.                                                             *)
HandleDiscipline ==
  /\ \A c \in Callers : pc[c] = "send" => handle = "active"
  /\ runPc \notin {"poll", "closeunlock"} => handle = "active"

(* After Stop at most one more event reaches the target, on whatever       *)
(* thread and at whatever moment Stop was called: Run looks at             *)
(* _should_stop once per event, and never starts a batch after it.         *)
AtMostOneLate == late <= 1

(* The loop is a mailbox: an item is handled until Run looks at            *)
(* _should_stop, and the mailbox is closed from the moment of uv_close.    *)
LeavingRun == runPc \in {"event", "test", "break", "exit", "closelock", "close"}
Box == INSTANCE Mailbox WITH
  sent <- accepted,
  received <- taken,
  busy <- runPc \in {"event", "test"},
  stopped <- should_stop,
  noticed <- should_stop /\ (LeavingRun \/ handle # "active"),
  closed <- handle # "active"

(* Every step of the loop is a step of the mailbox or invisible to it, and *)
(* the loop goes on whenever the mailbox has to: every event it accepts    *)
(* reaches the target unless the loop is stopped first, and a loop that is *)
(* stopped is closed.                                                      *)
IsMailbox == Box!Spec
IsSafeMailbox == Box!SafeSpec
============================================================================
