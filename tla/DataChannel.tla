---------------------------- MODULE DataChannel ----------------------------
(***************************************************************************)
(* One RTCDataChannel (src/src/interfaces/rtc_data_channel.cc) from the    *)
(* libwebrtc channel's birth to the end of its event loop.                 *)
(*                                                                         *)
(* libwebrtc calls its single observer back on the signaling thread.  The  *)
(* first observer is a DataChannelObserver, which only stores the events   *)
(* in a queue of its own; the RTCDataChannel constructor, on the           *)
(* JavaScript thread, replaces it and then requeues what it stored into    *)
(* the event loop of the new object.  A call of JavaScript into libwebrtc  *)
(* runs on the signaling thread while JavaScript waits, so it never        *)
(* overlaps a callback; everything else does.                              *)
(*                                                                         *)
(* The object's event loop is the Mailbox that EventLoop implements; the   *)
(* empty event of EventLoop::Stop, which does nothing, is left out.        *)
(***************************************************************************)
EXTENDS Naturals, Sequences, FiniteSets

CONSTANT MaxMessages   \* bound: how many messages the remote peer sends

ASSUME MaxMessagesAssumption == MaxMessages \in Nat

VARIABLES
  (* libwebrtc's channel, on the signaling thread *)
  origin,     \* "local": createDataChannel made it; "remote": OnDataChannel
  jState,     \* DataChannelInterface::state()
  calls,      \* history: how many callbacks libwebrtc has begun
  observer,   \* whom it calls: "early" (DataChannelObserver), "wrapper", "none"
  sig,        \* where the signaling thread is in RTCDataChannel::OnStateChange
  early,      \* DataChannelObserver's EventQueue
  (* the RTCDataChannel *)
  js,         \* where the JavaScript thread is
  wrapped,    \* the constructor has begun
  ptr,        \* _jingleDataChannel is not null
  cached,     \* _cached_id and the other cached attributes
  pcRef,      \* the reference taken by Create, which the peer connection owns
  pcClosed,   \* RTCPeerConnection::Close has run libwebrtc's Close
  crashed,    \* a null _jingleDataChannel was dereferenced
  (* its event loop *)
  sent, received, busy, stopped, noticed, closed

jingleVars == <<origin, jState, calls, observer, sig, early>>
wrapperVars == <<js, wrapped, ptr, cached, pcRef, pcClosed, crashed>>
loopVars == <<sent, received, busy, stopped, noticed, closed>>
vars == <<jingleVars, wrapperVars, loopVars>>

States == {"connecting", "open", "closing", "closed"}
MaxCalls == MaxMessages + 3
JSPoints == {"idle", "ctorRegister", "ctorRequeue", "ctorCache", "handle",
             "handler", "sendState", "sendCall", "crashed", "pcClosing",
             "pcChannels"}

(* An event: what it reports, which callback it is, who queued it.         *)
Event(t, b) == [type |-> t, n |-> calls + 1, by |-> b]
EventTypes == {"message", "open", "closing", "closed"}
AllEvents == [type : EventTypes, n : 1..MaxCalls, by : {"early", "wrapper"}]

Loop == INSTANCE Mailbox WITH Items <- AllEvents

Init ==
  /\ origin \in {"local", "remote"}
  /\ jState = "connecting"
  /\ calls = 0
  /\ observer = "early"
  /\ sig = "idle"
  /\ early = <<>>
  /\ js = IF origin = "local" THEN "ctorRegister" ELSE "idle"
  /\ wrapped = (origin = "local")
  /\ ptr = FALSE
  /\ cached = "unset"
  /\ pcRef = FALSE
  /\ pcClosed = FALSE
  /\ crashed = FALSE
  /\ Loop!Init

----------------------------------------------------------------------------
(* The signaling thread: libwebrtc changes state and calls its observer    *)

(* Fault: the event is moved from before it is stored.                     *)
OnEventMovedFrom(t) ==
  /\ calls' = calls + 1
  /\ early' = Append(early, Event("moved", "early"))
  /\ UNCHANGED loopVars

(* DataChannelObserver stores the event, RTCDataChannel dispatches it.     *)
OnEvent(t) ==
  /\ calls' = calls + 1
  /\ \/ /\ observer = "early"
        /\ early' = Append(early, Event(t, "early"))
        /\ UNCHANGED loopVars
     \/ /\ observer = "wrapper"
        /\ Loop!Send(Event(t, "wrapper"))
        /\ UNCHANGED early

(* A change of state that libwebrtc makes by itself: it may, as long as    *)
(* the peer connection lives, and while RTCPeerConnection::Close waits.    *)
JingleFree == sig = "idle" /\ ~pcClosed

JingleOpen ==
  /\ JingleFree
  /\ jState = "connecting" /\ js # "pcClosing"
  /\ jState' = "open"
  /\ OnEvent("open")
  /\ UNCHANGED <<origin, observer, sig, wrapperVars>>

JingleMessage ==
  /\ JingleFree
  /\ jState = "open" /\ calls < MaxMessages + 1
  /\ OnEvent("message")
  /\ UNCHANGED <<origin, jState, observer, sig, wrapperVars>>

JingleClosing ==
  /\ JingleFree
  /\ jState \in {"connecting", "open"}
  /\ jState' = "closing"
  /\ OnEvent("closing")
  /\ UNCHANGED <<origin, observer, sig, wrapperVars>>

(* Fault: the event is dispatched before the cleanup.                      *)
JingleClosedFirst ==
  /\ JingleFree
  /\ jState = "closing"
  /\ jState' = "closed"
  /\ OnEvent("closed")
  /\ IF observer = "wrapper"
     THEN observer' = "none" /\ sig' = "cache"
     ELSE UNCHANGED <<observer, sig>>
  /\ UNCHANGED <<origin, wrapperVars>>

(* OnStateChange with state kClosed.  The wrapper first cleans up, in      *)
(* steps that JavaScript overlaps, and only then dispatches the event.     *)
JingleClosed ==
  /\ JingleFree
  /\ jState = "closing"
  /\ jState' = "closed"
  /\ IF observer = "wrapper"
     THEN /\ observer' = "none"
          /\ sig' = "cache"
          /\ UNCHANGED <<calls, early, loopVars>>
     ELSE /\ OnEvent("closed")
          /\ UNCHANGED <<observer, sig>>
  /\ UNCHANGED <<origin, wrapperVars>>

CleanupCache ==
  /\ sig = "cache"
  /\ sig' = "null"
  /\ cached' = "final"
  /\ UNCHANGED <<origin, jState, calls, observer, early, js, wrapped, ptr, pcRef,
                 pcClosed, crashed, loopVars>>

CleanupNull ==
  /\ sig = "null"
  /\ sig' = "dispatch"
  /\ ptr' = FALSE
  /\ UNCHANGED <<origin, jState, calls, observer, early, js, wrapped, cached,
                 pcRef, pcClosed, crashed, loopVars>>

DispatchClosed ==
  /\ sig = "dispatch"
  /\ sig' = "idle"
  /\ calls' = calls + 1
  /\ Loop!Send(Event("closed", "wrapper"))
  /\ UNCHANGED <<origin, jState, observer, early, wrapperVars>>

Signaling ==
  \/ JingleOpen \/ JingleMessage \/ JingleClosing \/ JingleClosed
  \/ CleanupCache \/ CleanupNull \/ DispatchClosed

----------------------------------------------------------------------------
(* The JavaScript thread: the constructor                                  *)

JSFree == js \in {"idle", "handler"}

(* The "datachannel" event of the peer connection's own loop.              *)
Construct ==
  /\ JSFree /\ ~wrapped
  /\ js' = "ctorRegister"
  /\ wrapped' = TRUE
  /\ UNCHANGED <<jingleVars, ptr, cached, pcRef, pcClosed, crashed, loopVars>>

(* RegisterObserver(this), executed by the signaling thread.               *)
CtorRegister ==
  /\ js = "ctorRegister"
  /\ sig = "idle"
  /\ ptr' = TRUE
  /\ observer' = "wrapper"
  /\ js' = "ctorRequeue"
  /\ UNCHANGED <<origin, jState, calls, sig, early, wrapped, cached, pcRef,
                 pcClosed, crashed, loopVars>>

(* Fault: the events are taken from the wrong end.                         *)
CtorRequeueLast ==
  /\ js = "ctorRequeue"
  /\ IF early = <<>>
     THEN /\ js' = "ctorCache"
          /\ UNCHANGED <<early, loopVars>>
     ELSE /\ early' = SubSeq(early, 1, Len(early) - 1)
          /\ Loop!Send(early[Len(early)])
          /\ UNCHANGED js
  /\ UNCHANGED <<origin, jState, calls, observer, sig, wrapped, ptr, cached,
                 pcRef, pcClosed, crashed>>

(* Fault: requeue passes on one event, and the observer is deleted.        *)
CtorRequeueOne ==
  /\ js = "ctorRequeue"
  /\ js' = "ctorCache"
  /\ early' = <<>>
  /\ IF early = <<>> THEN UNCHANGED loopVars ELSE Loop!Send(Head(early))
  /\ UNCHANGED <<origin, jState, calls, observer, sig, wrapped, ptr, cached,
                 pcRef, pcClosed, crashed>>

CtorRequeue ==
  /\ js = "ctorRequeue"
  /\ IF early = <<>>
     THEN /\ js' = "ctorCache"
          /\ UNCHANGED <<early, loopVars>>
     ELSE /\ early' = Tail(early)
          /\ Loop!Send(Head(early))
          /\ UNCHANGED js
  /\ UNCHANGED <<origin, jState, calls, observer, sig, wrapped, ptr, cached,
                 pcRef, pcClosed, crashed>>

(* The constructor ends by zeroing the cached attributes; Create then      *)
(* takes the peer connection's reference.                                  *)
CtorCache ==
  /\ js = "ctorCache"
  /\ cached' = "zero"
  /\ pcRef' = TRUE
  /\ js' = "idle"
  /\ UNCHANGED <<jingleVars, wrapped, ptr, pcClosed, crashed, loopVars>>

----------------------------------------------------------------------------
(* The JavaScript thread: the event loop and the handlers                  *)

Current == received[Len(received)]

LoopReceive ==
  /\ JSFree /\ wrapped
  /\ Loop!Receive
  /\ js' = "handle"
  /\ UNCHANGED <<jingleVars, wrapped, ptr, cached, pcRef, pcClosed, crashed>>

(* HandleStateChange stops the loop after a close event.  The user's       *)
(* handler runs after it, in a process.nextTick callback.                  *)
HandleStateChange ==
  /\ js = "handle" /\ Current.type = "closed"
  /\ ~stopped
  /\ Loop!Stop
  /\ UNCHANGED <<jingleVars, wrapperVars>>

(* Fault: the loop goes on after a close event.                            *)
HandleDoneOpen ==
  /\ js = "handle"
  /\ Loop!Done
  /\ js' = "handler"
  /\ UNCHANGED <<jingleVars, wrapped, ptr, cached, pcRef, pcClosed, crashed>>

HandleDone ==
  /\ js = "handle"
  /\ Current.type = "closed" => stopped
  /\ Loop!Done
  /\ js' = "handler"
  /\ UNCHANGED <<jingleVars, wrapped, ptr, cached, pcRef, pcClosed, crashed>>

HandlerDone ==
  /\ js = "handler"
  /\ js' = "idle"
  /\ UNCHANGED <<jingleVars, wrapped, ptr, cached, pcRef, pcClosed, crashed,
                 loopVars>>

LoopClose ==
  /\ JSFree
  /\ Loop!Notice \/ Loop!Close
  /\ UNCHANGED <<jingleVars, wrapperVars>>

----------------------------------------------------------------------------
(* The JavaScript thread: calls of the program                             *)

(* Fault: without a pointer it is on the way to its end.                   *)
ReadyStateClosing == IF ptr THEN jState ELSE "closing"

ReadyState == IF ptr THEN jState ELSE "closed"

(* Send reads _jingleDataChannel once to ask for the state, which waits    *)
(* for the signaling thread, and once more to send.                        *)
Send ==
  /\ JSFree /\ wrapped /\ ptr
  /\ js' = "sendState"
  /\ UNCHANGED <<jingleVars, wrapped, ptr, cached, pcRef, pcClosed, crashed,
                 loopVars>>

SendState ==
  /\ js = "sendState" /\ sig = "idle"
  /\ js' = IF jState = "open" THEN "sendCall" ELSE "idle"
  /\ UNCHANGED <<jingleVars, wrapped, ptr, cached, pcRef, pcClosed, crashed,
                 loopVars>>

SendCall ==
  /\ js = "sendCall"
  /\ crashed' = ~ptr
  /\ js' = IF ptr THEN "idle" ELSE "crashed"
  /\ UNCHANGED <<jingleVars, wrapped, ptr, cached, pcRef, pcClosed, loopVars>>

(* RTCDataChannel::Close; libwebrtc answers with a callback at once.       *)
Close ==
  /\ JSFree /\ wrapped /\ ptr
  /\ sig = "idle" /\ jState \in {"connecting", "open"}
  /\ jState' = "closing"
  /\ OnEvent("closing")
  /\ UNCHANGED <<origin, observer, sig, wrapperVars>>

(* RTCPeerConnection::Close.  libwebrtc's Close takes the open channels    *)
(* down before it returns; one that has no transport stays as it is.       *)
PcClose ==
  /\ JSFree /\ ~pcClosed
  /\ js' = "pcClosing"
  /\ UNCHANGED <<jingleVars, wrapped, ptr, cached, pcRef, pcClosed, crashed,
                 loopVars>>

PcCloseReturns ==
  /\ js = "pcClosing" /\ sig = "idle" /\ jState # "open"
  /\ pcClosed' = TRUE
  /\ js' = "pcChannels"
  /\ UNCHANGED <<jingleVars, wrapped, ptr, cached, pcRef, crashed, loopVars>>

(* Fault: the peer connection lets go of its channels and no more.         *)
PcChannelsRelease ==
  /\ js = "pcChannels"
  /\ js' = "idle"
  /\ pcRef' = IF origin = "local" THEN FALSE ELSE pcRef
  /\ UNCHANGED <<jingleVars, wrapped, ptr, cached, pcClosed, crashed, loopVars>>

(* OnPeerConnectionClosed and Unref for the channels in _channels, which   *)
(* holds the local ones.                                                   *)
PcChannels ==
  /\ js = "pcChannels"
  /\ js' = "idle"
  /\ IF origin = "local"
     THEN /\ pcRef' = FALSE
          /\ IF ptr THEN Loop!Stop ELSE UNCHANGED loopVars
     ELSE UNCHANGED <<pcRef, loopVars>>
  /\ UNCHANGED <<jingleVars, wrapped, ptr, cached, pcClosed, crashed>>

JSFinish ==
  \/ CtorRegister \/ CtorRequeue \/ CtorCache
  \/ LoopReceive \/ HandleStateChange \/ HandleDone \/ HandlerDone \/ LoopClose
  \/ SendState \/ SendCall \/ PcCloseReturns \/ PcChannels

JavaScript == JSFinish \/ Construct \/ Send \/ Close \/ PcClose

Next == Signaling \/ JavaScript

(* The program and the remote peer are free to do nothing.  A callback or  *)
(* a call that has begun ends.  While RTCPeerConnection::Close waits,      *)
(* libwebrtc takes an open channel down.  Each turn of the program ends,   *)
(* so the event loop gets its turn again and again, between the calls.     *)
Fairness ==
  /\ WF_vars(JSFinish)
  /\ SF_vars(LoopReceive)
  /\ SF_vars(LoopClose)
  /\ WF_vars(CleanupCache \/ CleanupNull \/ DispatchClosed)
  /\ WF_vars(js = "pcClosing" /\ JingleClosing)

SafeSpec == Init /\ [][Next]_vars
Spec == SafeSpec /\ Fairness

----------------------------------------------------------------------------
(* What the channel promises                                               *)

TypeOK ==
  /\ origin \in {"local", "remote"}
  /\ jState \in States
  /\ calls \in 0..MaxCalls
  /\ observer \in {"early", "wrapper", "none"}
  /\ sig \in {"idle", "cache", "null", "dispatch"}
  /\ early \in Seq(AllEvents)
  /\ js \in JSPoints
  /\ wrapped \in BOOLEAN /\ ptr \in BOOLEAN
  /\ cached \in {"unset", "zero", "final"}
  /\ pcRef \in BOOLEAN /\ pcClosed \in BOOLEAN /\ crashed \in BOOLEAN
  /\ sent \in Seq(AllEvents) /\ received \in Seq(AllEvents)
  /\ busy \in BOOLEAN /\ stopped \in BOOLEAN
  /\ noticed \in BOOLEAN /\ closed \in BOOLEAN

Count(s, n) == Cardinality({i \in DOMAIN s : s[i].n = n})

(* No callback is lost or doubled in the hand-over from one observer to    *)
(* the other: each is queued exactly once, in one of the two queues.       *)
NoEventLost == \A n \in 1..calls : Count(sent, n) + Count(early, n) = 1

(* A close event is the last event the program sees of a channel, even if  *)
(* it overtook the events that DataChannelObserver had stored.             *)
CloseIsLast ==
  \A i \in DOMAIN received : received[i].type = "closed" => i = Len(received)

(* Events that the program sees out of order were handed over: the one     *)
(* that came too early was dispatched while the constructor requeued the   *)
(* other, and events that took the same way are in order.                  *)
OnlyHandoverReorders ==
  \A i, j \in DOMAIN received :
    i < j /\ received[i].n > received[j].n =>
      received[i].by = "wrapper" /\ received[j].by = "early"

(* When the program sees the close event that RTCDataChannel dispatched,   *)
(* the channel is cut off from libwebrtc, so send throws and close does    *)
(* nothing, whatever the signaling thread does meanwhile.                  *)
CloseFollowsCleanup ==
  \A i \in DOMAIN received :
    received[i].type = "closed" /\ received[i].by = "wrapper" =>
      ~ptr /\ sig = "idle" /\ cached # "unset"

(* The program never reads a readyState that is older than an event it has *)
(* been given, although the event waited in two queues and the signaling   *)
(* thread takes the channel away meanwhile: a channel without pointer is   *)
(* closed.                                                                 *)
Rank(t) == CASE t = "connecting" -> 0
             [] t \in {"open", "message"} -> 1
             [] t = "closing" -> 2
             [] OTHER -> 3
StateNotBehind ==
  \A i \in DOMAIN received : Rank(received[i].type) <= Rank(ReadyState)

(* Nor does readyState ever go back, from the registration on: not when    *)
(* the signaling thread takes the channel away between two readings.       *)
ReadyStateGrows ==
  [][wrapped /\ js # "ctorRegister" => Rank(ReadyState) <= Rank(ReadyState')]_vars

(* The invariant of the events: types; the close event comes last, and     *)
(* after the channel has been cut off; readyState is not behind them.      *)
ChannelInv == TypeOK /\ CloseIsLast /\ CloseFollowsCleanup /\ StateNotBehind

(* RTCPeerConnection::Close brings the loop of every channel it created    *)
(* to its end, whatever state the channel is in, so that it can be freed.  *)
LocalChannelEnds == pcClosed /\ origin = "local" ~> closed \/ crashed

----------------------------------------------------------------------------
(* What the repository says of the channel and the code does not do        *)

(* lib/nodejs/test/closing-data-channel.test.ts: "open is not called       *)
(* during closing state".                                                  *)
OpenNotDuringClosing ==
  js = "handler" /\ Current.type = "open" => ReadyState = "open"

(* CHANGELOG.md: "Fixed RTCDataChannel-related segfaults by checking for   *)
(* nullptr": no method uses _jingleDataChannel when it is null.            *)
NoNullUse == ~crashed

(* rtc_data_channel.cc, of the zeroes the constructor assigns: "These      *)
(* doesn't actually matter yet".  A channel that has been cleaned up       *)
(* answers with the attributes libwebrtc had.                              *)
InConstructor == js \in {"ctorRegister", "ctorRequeue", "ctorCache"}
CacheFaithful ==
  wrapped /\ ~InConstructor /\ ~ptr => cached = "final"

(* lib/nodejs/test/send-arraybuffer.test.ts: "receiving two ArrayBuffers   *)
(* works (ordered, reliable)".                                             *)
InOrder ==
  \A i, j \in DOMAIN received : i < j => received[i].n < received[j].n

(* rtc_peer_connection.cc, Close: "We also need to remove our references   *)
(* to the underlying channels".                                            *)
ChannelReleased == pcClosed /\ js = "idle" => ~pcRef
============================================================================
