------------------------------- MODULE Sinks -------------------------------
(***************************************************************************)
(* RTCAudioSink and RTCVideoSink (src/src/interfaces/rtc_audio_sink.cc,    *)
(* rtc_video_sink.cc) and the sources they listen to:                      *)
(*   "local"   an RTCAudioSource and the tracks made from it: the program  *)
(*             pushes samples on the JavaScript thread, and a peer         *)
(*             connection that sends such a track is one more listener     *)
(*   "remote"  a received audio track: libwebrtc delivers on its own       *)
(*             thread and keeps a list of sinks under a lock               *)
(*   "video"   a video track, of a RTCVideoSource or received: libwebrtc's *)
(*             broadcaster keeps a list of sinks under a lock              *)
(* A sink copies what it gets into an event of its loop.                   *)
(***************************************************************************)
EXTENDS Mailboxes, FiniteSets

CONSTANTS
  AudioSinks,  \* the RTCAudioSinks
  VideoSinks,  \* the RTCVideoSinks
  Sender,      \* the listener of a peer connection that sends a local track
  None,        \* no sink
  MaxData      \* bound: how much the sources deliver between them

Sinks == AudioSinks \cup VideoSinks
Sources == {"local", "remote", "video"}
ASSUME SinksAssumption ==
  /\ AudioSinks \cap VideoSinks = {}
  /\ Sender \notin Sinks /\ None \notin Sinks \cup {Sender}
  /\ "idle" \notin Sinks \cup {Sender, None}
ASSUME MaxDataAssumption == MaxData \in Nat

VARIABLES
  single,     \* RTCAudioTrackSource::_sink
  lists,      \* libwebrtc's lists of the sinks of "remote" and "video"
  delivered,  \* how much each source has delivered
  pushing,    \* the _sink that PushData has read and not called yet, or "idle"
  sender,     \* the peer connection's listener: "new", "added" or "gone"
  track,      \* each sink's _track: a source, "null", or "none" before its time
  stopped,    \* each sink's _stopped
  from,       \* history: what its source had delivered when it was made
  box,        \* each sink's event loop
  reachable,  \* the program has the sink
  alive,      \* the sink has not been collected
  js,         \* the sink whose event the JavaScript thread is at, or None
  crashed     \* history: PushData has called a listener that is gone

sourceVars == <<single, lists, delivered, sender>>
sinkVars == <<track, stopped, from, box, reachable, alive>>
vars == <<sourceVars, sinkVars, pushing, js, crashed>>

Init ==
  /\ single = None
  /\ lists = [x \in {"remote", "video"} |-> {}]
  /\ delivered = [x \in Sources |-> 0]
  /\ pushing = "idle"
  /\ sender = "new"
  /\ track = [s \in Sinks |-> "none"]
  /\ stopped = [s \in Sinks |-> FALSE]
  /\ from = [s \in Sinks |-> 0]
  /\ box = [s \in Sinks |-> NewBox]
  /\ reachable = [s \in Sinks |-> FALSE]
  /\ alive = [s \in Sinks |-> FALSE]
  /\ js = None
  /\ crashed = FALSE

Free == js = None /\ pushing = "idle"

----------------------------------------------------------------------------
(* AddSink and RemoveSink                                                  *)

(* RTCAudioTrackSource has room for one, whoever it is.                    *)
AddSink(s, x) ==
  IF x = "local"
  THEN single' = s /\ UNCHANGED lists
  ELSE lists' = [lists EXCEPT ![x] = @ \cup {s}] /\ UNCHANGED single

RemoveSink(s, x) ==
  IF x = "local"
  THEN single' = None /\ UNCHANGED lists
  ELSE lists' = [lists EXCEPT ![x] = @ \ {s}] /\ UNCHANGED single

----------------------------------------------------------------------------
(* The constructors, and stop                                              *)

Construct(s, x) ==
  /\ Free
  /\ track[s] = "none"
  /\ track' = [track EXCEPT ![s] = x]
  /\ alive' = [alive EXCEPT ![s] = TRUE]
  /\ UNCHANGED <<delivered, sender, stopped, box, pushing, js, crashed>>

NewSink(s) ==
  \E x \in IF s \in AudioSinks THEN {"local", "remote"} ELSE {"video"} :
    /\ Construct(s, x)
    /\ AddSink(s, x)
    /\ from' = [from EXCEPT ![s] = delivered[x]]
    /\ reachable' = [reachable EXCEPT ![s] = TRUE]

(* With a bad argument the constructor throws: the program has no sink and *)
(* the object has its loop.                                                *)
RefuseSink(s) ==
  /\ Construct(s, "null")
  /\ UNCHANGED <<single, lists, from, reachable>>

(* Fault: _track is dropped and its sink stays.                            *)
DetachLeaving(s) ==
  IF track[s] \in Sources
  THEN /\ track' = [track EXCEPT ![s] = "null"]
       /\ stopped' = [stopped EXCEPT ![s] = TRUE]
       /\ UNCHANGED <<single, lists>>
  ELSE UNCHANGED <<single, lists, track, stopped>>

(* Fault: the sink is only marked as stopped.                              *)
DetachMarked(s) ==
  /\ stopped' = [stopped EXCEPT ![s] = track[s] \in Sources]
  /\ UNCHANGED <<single, lists, track>>

Detach(s) ==
  IF track[s] \in Sources
  THEN /\ RemoveSink(s, track[s])
       /\ track' = [track EXCEPT ![s] = "null"]
       /\ stopped' = [stopped EXCEPT ![s] = TRUE]
  ELSE UNCHANGED <<single, lists, track, stopped>>

Stop(s) ==
  /\ Free
  /\ reachable[s]
  /\ Detach(s)
  /\ box' = [box EXCEPT ![s] = Stopped(@)]
  /\ UNCHANGED <<delivered, sender, from, reachable, alive, pushing, js, crashed>>

----------------------------------------------------------------------------
(* What the sources deliver                                                *)

More(x) ==
  /\ delivered["local"] + delivered["remote"] + delivered["video"] < MaxData
  /\ delivered' = [delivered EXCEPT ![x] = @ + 1]

(* RTCAudioSource::OnData: PushData reads _sink ...                        *)
OnData ==
  /\ Free
  /\ More("local")
  /\ pushing' = single
  /\ UNCHANGED <<single, lists, sender, sinkVars, js, crashed>>

(* Fault: PushData does not finish the call.                               *)
PushDataForgotten ==
  /\ pushing # "idle"
  /\ pushing' = "none"
  /\ UNCHANGED <<sourceVars, sinkVars, js, crashed>>

(* ... and calls it.                                                       *)
PushData ==
  /\ pushing # "idle"
  /\ pushing' = "idle"
  /\ box' = [s \in Sinks |-> IF s = pushing THEN Put(box[s], delivered["local"]) ELSE box[s]]
  /\ crashed' = (crashed \/ (pushing = Sender /\ sender = "gone"))
  /\ UNCHANGED <<sourceVars, track, stopped, from, reachable, alive, js>>

(* Fault: a sink that has something to do already is passed over.          *)
DeliverToIdle(x) ==
  /\ More(x)
  /\ box' = [s \in Sinks |-> IF s \in lists[x] /\ ~Waiting(box[s])
                             THEN Put(box[s], delivered[x] + 1) ELSE box[s]]
  /\ UNCHANGED <<single, lists, sender, track, stopped, from, reachable, alive, pushing,
                 js, crashed>>

(* libwebrtc's threads, at any moment; OnFrame of an RTCVideoSource.       *)
Deliver(x) ==
  /\ More(x)
  /\ box' = [s \in Sinks |-> IF s \in lists[x] THEN Put(box[s], delivered[x] + 1)
                             ELSE box[s]]
  /\ UNCHANGED <<single, lists, sender, track, stopped, from, reachable, alive, pushing,
                 js, crashed>>

(* The peer connection begins to send a local track, or ends.              *)
SenderAdded ==
  /\ sender = "new"
  /\ sender' = "added"
  /\ AddSink(Sender, "local")
  /\ UNCHANGED <<delivered, sinkVars, pushing, js, crashed>>

SenderRemoved ==
  /\ sender = "added"
  /\ sender' = "gone"
  /\ RemoveSink(Sender, "local")
  /\ UNCHANGED <<delivered, sinkVars, pushing, js, crashed>>

----------------------------------------------------------------------------
(* The event loops, and what becomes of the objects                        *)

Turn(s, next, b) ==
  /\ js' = next
  /\ box' = [box EXCEPT ![s] = b]
  /\ UNCHANGED <<sourceVars, track, stopped, from, reachable, alive, pushing, crashed>>

(* Fault: a loop is signalled once.                                        *)
LoopTakeOnce(s) ==
  /\ Free /\ MayTake(box[s]) /\ box[s].received = <<>>
  /\ Turn(s, s, Take(box[s]))

(* Fault: the loop takes an event after it has seen the stop.              *)
LoopTakeStopped(s) ==
  /\ Free /\ Waiting(box[s]) /\ ~box[s].closed
  /\ Turn(s, s, Take(box[s]))

LoopTake(s) == Free /\ MayTake(box[s]) /\ Turn(s, s, Take(box[s]))

(* The event is dispatched to the sink's listeners, which run afterwards.  *)
LoopHandled(s) == js = s /\ Turn(s, None, Handled(box[s]))

LoopNotice(s) == Free /\ MayNotice(box[s]) /\ Turn(s, None, Noticed(box[s]))

(* Fault: uv_close is left to the destructor.                              *)
LoopCloseNever(s) == FALSE /\ Turn(s, None, box[s])

(* DidStop gives back the reference of the loop.                           *)
LoopClose(s) == Free /\ MayClose(box[s]) /\ Turn(s, None, Closed(box[s]))

Forget(s) ==
  /\ Free /\ reachable[s]
  /\ reachable' = [reachable EXCEPT ![s] = FALSE]
  /\ UNCHANGED <<sourceVars, track, stopped, from, box, alive, pushing, js, crashed>>

Collect(s) ==
  /\ Free
  /\ alive[s] /\ ~reachable[s] /\ box[s].closed
  /\ alive' = [alive EXCEPT ![s] = FALSE]
  /\ UNCHANGED <<sourceVars, track, stopped, from, box, reachable, pushing, js, crashed>>

LoopTurn(s) == LoopTake(s) \/ LoopNotice(s) \/ LoopClose(s)

Sink(s) ==
  \/ NewSink(s) \/ RefuseSink(s) \/ Stop(s) \/ Forget(s) \/ Collect(s)
  \/ LoopTurn(s) \/ LoopHandled(s)

Next ==
  \/ \E s \in Sinks : Sink(s)
  \/ OnData \/ PushData
  \/ \E x \in {"remote", "video"} : Deliver(x)
  \/ SenderAdded \/ SenderRemoved

(* JavaScript goes on, and libuv comes to every loop again and again.      *)
Fairness ==
  /\ WF_vars(PushData)
  /\ WF_vars(\E s \in Sinks : LoopHandled(s))
  /\ \A s \in Sinks : SF_vars(LoopTurn(s))

SafeSpec == Init /\ [][Next]_vars
Spec == SafeSpec /\ Fairness

----------------------------------------------------------------------------
(* What the sinks promise                                                  *)

TypeOK ==
  /\ single \in AudioSinks \cup {Sender, None}
  /\ lists \in [{"remote", "video"} -> SUBSET Sinks]
  /\ delivered \in [Sources -> 0..MaxData]
  /\ pushing \in AudioSinks \cup {Sender, None, "idle"}
  /\ sender \in {"new", "added", "gone"}
  /\ track \in [Sinks -> Sources \cup {"none", "null"}]
  /\ stopped \in [Sinks -> BOOLEAN]
  /\ from \in [Sinks -> 0..MaxData]
  /\ box \in [Sinks -> BoxType(1..MaxData)]
  /\ reachable \in [Sinks -> BOOLEAN] /\ alive \in [Sinks -> BOOLEAN]
  /\ js \in Sinks \cup {None}
  /\ crashed \in BOOLEAN

(* libwebrtc and the audio source never keep the address of a sink that    *)
(* has been collected, although they hold no reference: stop takes it out  *)
(* of their lists before it stops the loop, and the loop keeps the object. *)
Listed == lists["remote"] \cup lists["video"] \cup ({single, pushing} \cap Sinks)
SinksExist == \A s \in Listed : alive[s] /\ ~box[s].closed

(* A sink of a video track or of a received audio track hears everything   *)
(* its source delivers from its constructor to stop, once, in order.       *)
Heard(s, x) ==
  box[s].sent = [i \in 1..(delivered[x] - from[s]) |-> from[s] + i]
HearsEverything ==
  \A s \in Sinks : track[s] \in {"remote", "video"} => Heard(s, track[s])

(* Types, the addresses that sources keep, and what arrives at the sinks.  *)
SinksInv == TypeOK /\ SinksExist /\ HearsEverything

(* Once stop has returned nothing more is queued for the sink, whatever    *)
(* the threads of libwebrtc are at.                                        *)
QuietOnceStopped ==
  [][\A s \in Sinks : stopped[s] => box'[s].sent = box[s].sent]_vars

(* Every piece that reaches a sink reaches its listeners, unless the sink  *)
(* is stopped; and stop brings the loop to its end.                        *)
ListenersHear ==
  \A s \in Sinks :
    /\ Waiting(box[s]) ~> ~Waiting(box[s]) \/ stopped[s]
    /\ stopped[s] ~> box[s].closed

(* Every loop begins and goes on as a Mailbox does.                        *)
Box(s) == INSTANCE Mailbox WITH
  Items <- 1..MaxData,
  sent <- box[s].sent, received <- box[s].received, busy <- box[s].busy,
  stopped <- box[s].stopped, noticed <- box[s].noticed, closed <- box[s].closed
AreMailboxes ==
  [][\A s \in Sinks : Box(s)!Next \/ UNCHANGED box[s]]_vars

----------------------------------------------------------------------------
(* What the repository says of them and the code does not do               *)

(* docs/nonstandard-apis.md: "the RTCAudioSink will raise a "data" event   *)
(* any time RTCAudioData is received".                                     *)
LocalSinksHear ==
  pushing = "idle" => \A s \in Sinks : track[s] = "local" => Heard(s, "local")

(* PushData never calls the listener of a sender that is gone.             *)
NeverCrashes == ~crashed
============================================================================
