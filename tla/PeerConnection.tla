--------------------------- MODULE PeerConnection ---------------------------
(***************************************************************************)
(* One RTCPeerConnection (src/src/interfaces/rtc_peer_connection.cc): its  *)
(* promises, its events and its end.                                       *)
(*                                                                         *)
(* A call of JavaScript into libwebrtc runs on the signaling thread while  *)
(* JavaScript waits.  libwebrtc chains createOffer, createAnswer and the   *)
(* two setDescriptions: a setDescription is applied at once if nothing is  *)
(* chained, createOffer takes its time.  It calls the observer of each     *)
(* later, on the signaling thread, and the observer dispatches an event    *)
(* that settles the promise.  addIceCandidate is dispatched to the event   *)
(* loop first and handed to libwebrtc when the loop comes to it; getStats  *)
(* is not chained.                                                         *)
(*                                                                         *)
(* The object's event loop is the Mailbox that EventLoop implements.       *)
(***************************************************************************)
EXTENDS Naturals, Sequences

CONSTANTS
  Offers,      \* the calls of createOffer and createAnswer
  Locals,      \* the calls of setLocalDescription
  Remotes,     \* the calls of setRemoteDescription
  Candidates,  \* the calls of addIceCandidate
  Stats,       \* the calls of getStats and legacyGetStats
  Programs,    \* bound: the sets of calls that one program may make
  Quiet,       \* bound: the programs during which libwebrtc raises none itself
  MaxNotices   \* bound: how many events libwebrtc raises by itself

Descriptions == Locals \cup Remotes
Calls == Offers \cup Descriptions \cup Candidates \cup Stats

ASSUME CallsAssumption ==
  /\ Offers \cap (Descriptions \cup Candidates \cup Stats) = {}
  /\ Locals \cap (Remotes \cup Candidates \cup Stats) = {}
  /\ Remotes \cap (Candidates \cup Stats) = {}
  /\ Candidates \cap Stats = {}
  /\ "none" \notin Calls
ASSUME BoundsAssumption ==
  Quiet \subseteq Programs /\ Programs \subseteq SUBSET Calls /\ MaxNotices \in Nat

VARIABLES
  (* libwebrtc's peer connection, on the signaling thread *)
  semantics,  \* sdpSemantics: "planB" or "unified"
  signaling,  \* signaling_state() is "open" (not closed) or "closed"
  chain,      \* the operations that wait or are under way
  applied,    \* the descriptions that have been applied
  posted,     \* the observers to be called, each with its outcome
  sig,        \* the setDescription whose observer is between its two steps
  notices,    \* how many events libwebrtc has raised by itself
  (* the RTCPeerConnection *)
  js,         \* where the JavaScript thread is
  jpc,        \* _jinglePeerConnection is not null
  promise,    \* each call's promise; "unused" if the program does not make it
  issued,     \* history: the calls, in the program's order
  members,    \* the descriptions whose changes processStateChanges has seen
  crashed,    \* a null _factory was used
  (* its event loop *)
  sent, received, busy, stopped, noticed, closed

jingleVars == <<semantics, signaling, chain, applied, posted, sig, notices>>
wrapperVars == <<js, jpc, promise, issued, members, crashed>>
loopVars == <<sent, received, busy, stopped, noticed, closed>>
vars == <<jingleVars, wrapperVars, loopVars>>

None == "none"
NoticeTypes == {"notice", "track"}
CallTypes == {"resolve", "reject", "candidate", "members"}
Item(t, c) == [type |-> t, call |-> c]
AllItems == [type : CallTypes, call : Calls]
            \cup [type : NoticeTypes \cup {"closed"}, call : {None}]

Loop == INSTANCE Mailbox WITH Items <- AllItems

Elements(s) == {s[i] : i \in DOMAIN s}

Init ==
  /\ semantics \in {"planB", "unified"}
  /\ signaling = "open"
  /\ chain = <<>>
  /\ applied = {}
  /\ posted = <<>>
  /\ sig = None
  /\ js = "idle"
  /\ jpc = TRUE
  /\ \E P \in Programs :
       /\ promise = [c \in Calls |-> IF c \in P THEN "none" ELSE "unused"]
       /\ notices = IF P \in Quiet THEN MaxNotices ELSE 0
  /\ issued = <<>>
  /\ members = {}
  /\ crashed = FALSE
  /\ Loop!Init

----------------------------------------------------------------------------
(* The signaling thread                                                    *)

(* An operation ends well or not; an applied description takes effect.     *)
Perform(c, ok) ==
  /\ posted' = Append(posted, [call |-> c, ok |-> ok])
  /\ applied' = IF ok /\ c \in Descriptions THEN applied \cup {c} ELSE applied

(* After the peer connection has been closed an operation can only fail.   *)
Operate ==
  /\ sig = None /\ chain # <<>>
  /\ \E ok \in {signaling = "open", FALSE} : Perform(Head(chain), ok)
  /\ chain' = Tail(chain)
  /\ UNCHANGED <<semantics, signaling, sig, notices, wrapperVars, loopVars>>

(* Fault: the promise is resolved before the members are updated.          *)
OnSetSuccessEarly(c) ==
  /\ Loop!Send(Item("resolve", c))
  /\ sig' = c

(* SetSessionDescriptionObserver::OnSuccess, first step.                   *)
OnSetSuccess(c) ==
  /\ Loop!Send(Item("members", c))
  /\ sig' = c

(* Fault: an error is reported without the event loop.                     *)
OnFailureAtOnce(c) ==
  /\ promise' = [promise EXCEPT ![c] = "rejected"]
  /\ UNCHANGED <<sig, loopVars>>

(* Fault: an error is not reported.                                        *)
OnFailureSilent(c) == UNCHANGED <<sig, promise, loopVars>>

OnFailure(c) ==
  /\ Loop!Send(Item("reject", c))
  /\ UNCHANGED <<sig, promise>>

(* Fault: the event is moved from before it is dispatched.                 *)
OnSuccessMovedFrom(c) ==
  /\ Loop!Send(Item("moved", c))
  /\ UNCHANGED sig

OnSuccess(c) ==
  /\ Loop!Send(Item("resolve", c))
  /\ UNCHANGED sig

CallObserver ==
  /\ sig = None /\ posted # <<>>
  /\ posted' = Tail(posted)
  /\ LET c == Head(posted).call IN
       IF ~Head(posted).ok
       THEN OnFailure(c)
       ELSE /\ IF c \in Descriptions THEN OnSetSuccess(c) ELSE OnSuccess(c)
            /\ UNCHANGED promise
  /\ UNCHANGED <<semantics, signaling, chain, applied, notices, js, jpc, issued,
                 members, crashed>>

(* SetSessionDescriptionObserver::OnSuccess, second step.                  *)
ResolveSet ==
  /\ sig # None
  /\ Loop!Send(Item("resolve", sig))
  /\ sig' = None
  /\ UNCHANGED <<semantics, signaling, chain, applied, posted, notices, wrapperVars>>

(* An event libwebrtc raises by itself: OnIceCandidate and the changes of  *)
(* state ("notice"), OnTrack or OnAddTrack ("track").                      *)
Notify(t) ==
  /\ sig = None /\ signaling = "open"
  /\ notices < MaxNotices
  /\ notices' = notices + 1
  /\ Loop!Send(Item(t, None))
  /\ UNCHANGED <<semantics, signaling, chain, applied, posted, sig, wrapperVars>>

(* libwebrtc's Close: OnSignalingChange with state kClosed.                *)
OnSignalingClosed ==
  /\ sig = None /\ js = "closing"
  /\ signaling = "open"
  /\ signaling' = "closed"
  /\ Loop!Send(Item("closed", None))
  /\ UNCHANGED <<semantics, chain, applied, posted, sig, notices, wrapperVars>>

Signaling ==
  \/ Operate \/ CallObserver \/ ResolveSet
  \/ \E t \in NoticeTypes : Notify(t)
  \/ OnSignalingClosed

----------------------------------------------------------------------------
(* The JavaScript thread: calls of the program                             *)

JSFree == js \in {"idle", "handler"}

Issue(c) ==
  /\ JSFree
  /\ promise[c] = "none"
  /\ issued' = Append(issued, c)
  /\ js' = "idle"
  /\ UNCHANGED <<semantics, signaling, sig, notices, jpc, members, crashed>>

Settle(c, how) == promise' = [promise EXCEPT ![c] = how]

(* A call with a bad argument, or on a closed peer connection, is rejected *)
(* at once ("refused").                                                    *)
RejectAtOnce(c) ==
  /\ Issue(c)
  /\ Settle(c, "refused")
  /\ UNCHANGED <<chain, applied, posted, loopVars>>

CreateOffer(c) ==
  \/ RejectAtOnce(c)
  \/ /\ jpc /\ sig = None
     /\ Issue(c)
     /\ Settle(c, "pending")
     /\ chain' = Append(chain, c)
     /\ UNCHANGED <<applied, posted, loopVars>>

SetDescription(c) ==
  \/ RejectAtOnce(c)
  \/ /\ jpc /\ sig = None
     /\ Issue(c)
     /\ Settle(c, "pending")
     /\ IF chain = <<>>
        THEN /\ \E ok \in BOOLEAN : Perform(c, ok)
             /\ UNCHANGED chain
        ELSE /\ chain' = Append(chain, c)
             /\ UNCHANGED <<applied, posted>>
     /\ UNCHANGED loopVars

SetLocalDescription(c) == c \in Locals /\ SetDescription(c)
SetRemoteDescription(c) == c \in Remotes /\ SetDescription(c)

(* addIceCandidate asks libwebrtc, and whether there is one, later.        *)
AddIceCandidate(c) ==
  \/ RejectAtOnce(c)
  \/ /\ Issue(c)
     /\ Settle(c, "pending")
     /\ Loop!Send(Item("candidate", c))
     /\ UNCHANGED <<chain, applied, posted>>

(* The report is delivered by a callback that nothing is ordered with.     *)
(* libwebrtc may refuse to make a legacy report.                           *)
GetStats(c) ==
  \/ (jpc => sig = None) /\ RejectAtOnce(c)
  \/ /\ jpc /\ sig = None
     /\ Issue(c)
     /\ Settle(c, "pending")
     /\ UNCHANGED <<chain, applied, posted, loopVars>>

OnStatsDelivered(c) ==
  /\ sig = None /\ promise[c] = "pending"
  /\ Item("resolve", c) \notin Elements(sent)
  /\ Loop!Send(Item("resolve", c))
  /\ UNCHANGED <<jingleVars, wrapperVars>>

(* Close waits for libwebrtc and then lets go of it; a second one does     *)
(* nothing.                                                                *)
Close ==
  /\ JSFree /\ jpc
  /\ js' = "closing"
  /\ UNCHANGED <<jingleVars, jpc, promise, issued, members, crashed, loopVars>>

CloseReturns ==
  /\ js = "closing" /\ signaling = "closed"
  /\ jpc' = FALSE
  /\ js' = "idle"
  /\ UNCHANGED <<jingleVars, promise, issued, members, crashed, loopVars>>

Program ==
  \/ \E c \in Offers : CreateOffer(c)
  \/ \E c \in Descriptions : SetLocalDescription(c) \/ SetRemoteDescription(c)
  \/ \E c \in Candidates : AddIceCandidate(c)
  \/ \E c \in Stats : GetStats(c)
  \/ Close

----------------------------------------------------------------------------
(* The JavaScript thread: the event loop                                   *)

Current == received[Len(received)]

LoopReceive ==
  /\ JSFree
  /\ Loop!Receive
  /\ js' = "handle"
  /\ UNCHANGED <<jingleVars, jpc, promise, issued, members, crashed>>

(* What the event does; the handlers of the program run afterwards.        *)
HandledBy(next) ==
  /\ js = "handle"
  /\ Loop!Done
  /\ js' = next
  /\ UNCHANGED <<jingleVars, jpc, issued>>
Handled == HandledBy("handler")

HandleSettle ==
  /\ Current.type \in {"resolve", "reject"}
  /\ Handled
  /\ Settle(Current.call, IF Current.type = "resolve" THEN "resolved" ELSE "rejected")
  /\ UNCHANGED <<members, crashed>>

(* libwebrtc takes a candidate once a remote description has been applied. *)
HandleCandidate ==
  /\ Current.type = "candidate"
  /\ Handled
  /\ Settle(Current.call, IF jpc /\ signaling = "open" /\ applied \cap Remotes # {}
                          THEN "resolved" ELSE "rejected")
  /\ UNCHANGED <<members, crashed>>

(* onSetDescriptionComplete: the transceivers, senders and receivers are   *)
(* brought in line with libwebrtc's.                                       *)
HandleMembers ==
  /\ Current.type = "members"
  /\ Handled
  /\ members' = IF jpc THEN members \cup {Current.call} ELSE members
  /\ UNCHANGED <<promise, crashed>>

HandleNotice ==
  /\ Current.type = "notice"
  /\ Handled
  /\ UNCHANGED <<promise, members, crashed>>

(* OnTrack looks whether the peer connection has been closed; OnAddTrack   *)
(* wraps what has no wrapper yet with the factory that Close has given     *)
(* back.                                                                   *)
HandleTrack ==
  /\ Current.type = "track"
  /\ crashed' \in {FALSE, semantics = "planB" /\ ~jpc}
  /\ HandledBy(IF crashed' THEN "crashed" ELSE "handler")
  /\ UNCHANGED <<promise, members>>

(* Fault: the loop goes on after the last event.                           *)
HandleClosedOpen ==
  /\ Current.type = "closed"
  /\ Handled
  /\ UNCHANGED <<promise, members, crashed>>

HandleClosed ==
  /\ Current.type = "closed"
  /\ \/ /\ js = "handle" /\ ~stopped
        /\ Loop!Stop
        /\ UNCHANGED <<jingleVars, wrapperVars>>
     \/ /\ stopped
        /\ Handled
        /\ UNCHANGED <<promise, members, crashed>>

Handle ==
  /\ js = "handle"
  /\ \/ HandleSettle \/ HandleCandidate \/ HandleMembers
     \/ HandleNotice \/ HandleTrack \/ HandleClosed

HandlerDone ==
  /\ js = "handler"
  /\ js' = "idle"
  /\ UNCHANGED <<jingleVars, jpc, promise, issued, members, crashed, loopVars>>

LoopClose ==
  /\ JSFree
  /\ Loop!Notice \/ Loop!Close
  /\ UNCHANGED <<jingleVars, wrapperVars>>

EventLoopTurn == LoopReceive \/ Handle \/ HandlerDone \/ LoopClose

Next ==
  \/ Signaling
  \/ \E c \in Stats : OnStatsDelivered(c)
  \/ Program
  \/ CloseReturns
  \/ EventLoopTurn

(* The program need not do anything.  libwebrtc carries out what it has    *)
(* been asked to, and the event loop gets its turn again and again.        *)
Fairness ==
  /\ WF_vars(Operate) /\ WF_vars(CallObserver) /\ WF_vars(ResolveSet)
  /\ \A c \in Stats : WF_vars(OnStatsDelivered(c))
  /\ WF_vars(OnSignalingClosed) /\ WF_vars(CloseReturns)
  /\ SF_vars(LoopReceive) /\ WF_vars(Handle) /\ SF_vars(LoopClose)

SafeSpec == Init /\ [][Next]_vars
Spec == SafeSpec /\ Fairness

----------------------------------------------------------------------------
(* What the peer connection promises                                       *)

TypeOK ==
  /\ semantics \in {"planB", "unified"} /\ signaling \in {"open", "closed"}
  /\ chain \in Seq(Offers \cup Descriptions)
  /\ applied \subseteq Descriptions
  /\ posted \in Seq([call : Offers \cup Descriptions, ok : BOOLEAN])
  /\ sig \in Descriptions \cup {None}
  /\ notices \in 0..MaxNotices
  /\ js \in {"idle", "closing", "handle", "handler", "crashed"}
  /\ jpc \in BOOLEAN /\ crashed \in BOOLEAN
  /\ promise \in [Calls -> {"unused", "none", "pending", "resolved", "rejected",
                           "refused"}]
  /\ issued \in Seq(Calls)
  /\ members \subseteq Descriptions
  /\ sent \in Seq(AllItems) /\ received \in Seq(AllItems)
  /\ busy \in BOOLEAN /\ stopped \in BOOLEAN
  /\ noticed \in BOOLEAN /\ closed \in BOOLEAN

Chained == Offers \cup Descriptions

Promised == INSTANCE Promises WITH Ordered <- Chained

(* The promises of the chained operations are settled in the order of the  *)
(* calls, whatever each one's outcome, unless the call itself refused.     *)
SettledInOrder ==
  \A i, j \in DOMAIN issued :
    /\ i < j
    /\ {issued[i], issued[j]} \subseteq Chained
    /\ promise[issued[i]] = "pending"
    => promise[issued[j]] \in {"pending", "refused"}

(* A call has one promise, and an event that settles it finds it pending:  *)
(* the Deferred of a call is used once.  The chained calls' promises are   *)
(* settled in order at every step, and not in the end only.                *)
IsPromises == Promised!SafeSpec

(* When the promise of a setDescription is resolved, getTransceivers,      *)
(* getSenders and getReceivers already answer with what it brought, unless *)
(* the peer connection has been closed.                                    *)
MembersFirst ==
  \A c \in Descriptions : promise[c] = "resolved" /\ jpc => c \in members

(* The change of signalingState to "closed" is the last thing the program  *)
(* hears of a peer connection: no event and no promise follows it.         *)
ClosedIsLast ==
  \A i \in DOMAIN received : received[i].type = "closed" => i = Len(received)

(* Types, and nothing after the end.                                       *)
PeerConnectionInv == TypeOK /\ ClosedIsLast

(* Close brings the event loop to its end, so that the object can be freed *)
(* whatever was under way.                                                 *)
CloseEnds == ~jpc ~> closed \/ crashed

(* While the peer connection is not closed every promise is settled.       *)
PromisesSettled ==
  \A c \in Calls :
    promise[c] = "pending" ~> promise[c] # "pending" \/ signaling = "closed"

----------------------------------------------------------------------------
(* What the repository says of the peer connection and the code does not   *)
(* do                                                                      *)

(* lib/nodejs/test/closing-peer-connection.test.ts: "make sure             *)
(* onicecandidate handler doesn't fire when connection is closed", and     *)
(* CHANGELOG.md of "icegatheringstatechange".                              *)
QuietWhenClosed == js = "handler" /\ Current.type = "notice" => jpc

(* lib/nodejs/test/addicecandidate.test.ts: addIceCandidate right after a  *)
(* setRemoteDescription "has correct queueing behavior": it is queued      *)
(* behind it, and not rejected for want of a remote description.           *)
CandidateQueued ==
  \A i, j \in DOMAIN issued :
    i < j /\ issued[i] \in Remotes /\ issued[j] \in Candidates /\ jpc =>
      ~(promise[issued[i]] = "resolved" /\ promise[issued[j]] = "rejected")

(* lib/nodejs/test/connect.test.ts: addIceCandidate on a closed peer       *)
(* connection is awaited, so its promise is settled.                       *)
CandidatesSettled ==
  \A c \in Candidates : promise[c] = "pending" ~> promise[c] # "pending" \/ crashed

(* lib/nodejs/test/connect.test.ts: "make sure nothing crashes after       *)
(* connection is closed and _jinglePeerConnection is null".                *)
NothingCrashes == ~crashed
============================================================================
