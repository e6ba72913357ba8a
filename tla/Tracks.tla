------------------------------- MODULE Tracks -------------------------------
(***************************************************************************)
(* MediaStreamTrack, MediaStream and the RTCAudioSource or RTCVideoSource  *)
(* that makes tracks (src/src/interfaces/media_stream_track.cc,            *)
(* media_stream.cc, rtc_video_source.cc, rtc_audio_source.cc).             *)
(*                                                                         *)
(* A MediaStreamTrack is the wrapper of a track of libwebrtc.  Wrap finds  *)
(* it by the track, so that the program sees one object for one track; it  *)
(* observes the track, and its event loop stops once the track has ended,  *)
(* on libwebrtc's signaling thread, or the program has stopped it.  Its    *)
(* memory is V8's: two references keep it, the one Create takes and the    *)
(* loop's, and an address that has been freed is used again.               *)
(*                                                                         *)
(* A call of libwebrtc from JavaScript runs on the signaling thread while  *)
(* JavaScript waits; a handler that makes one such call is one step.  A    *)
(* stream's getters wrap its tracks one by one.                            *)
(***************************************************************************)
EXTENDS Mailboxes

CONSTANTS
  Tracks,     \* libwebrtc's tracks
  Wrappers,   \* the addresses of MediaStreamTracks
  Streams,    \* the MediaStreams
  None,       \* no track, no wrapper
  MaxChanges  \* bound: how often the program sets enabled, adds or removes

ASSUME NoneAssumption == Tracks \cap Wrappers = {} /\ None \notin Tracks \cup Wrappers
ASSUME MaxChangesAssumption == MaxChanges \in Nat

VARIABLES
  state,      \* each track's state(): "live" or "ended", or "none"
  remote,     \* the tracks that are received
  observers,  \* each track's observers
  content,    \* the tracks of each stream
  object,     \* each address: "free", "live", or "dead": collected by V8, the
              \* finalizer still to come
  track,      \* each wrapper's _track
  ended,      \* each wrapper's _ended
  box,        \* each wrapper's event loop
  created,    \* the wrappers on which Create's reference is held
  reachable,  \* the wrappers the program has
  map,        \* MediaStreamTrack::wrap()
  made,       \* the source's _tracks
  source,     \* the source's object exists
  changes,    \* how often the program has set enabled, added or removed
  late        \* history: the wrappers made after their track had ended

libwebrtcVars == <<state, remote, observers, content>>
wrapperVars == <<object, track, ended, box, created, reachable, map>>
sourceVars == <<made, source>>
vars == <<libwebrtcVars, wrapperVars, sourceVars, changes, late>>

Wrap == INSTANCE BidiMap WITH Keys <- Tracks, Values <- Wrappers, Nothing <- None

Init ==
  /\ state = [t \in Tracks |-> "none"]
  /\ remote = {}
  /\ observers = [t \in Tracks |-> {}]
  /\ content = [s \in Streams |-> {}]
  /\ object = [w \in Wrappers |-> "free"]
  /\ track = [w \in Wrappers |-> None]
  /\ ended = [w \in Wrappers |-> FALSE]
  /\ box = [w \in Wrappers |-> NewBox]
  /\ created = {} /\ reachable = {}
  /\ map = Wrap!Empty
  /\ made = {} /\ source = TRUE
  /\ changes = 0
  /\ late = {}

Change == changes < MaxChanges /\ changes' = changes + 1

----------------------------------------------------------------------------
(* libwebrtc tells the observers; the wrapper's OnChanged dispatches.      *)

Changed(t) ==
  box' = [w \in Wrappers |-> IF w \in observers[t] THEN Put(box[w], "changed") ELSE box[w]]

(* On the signaling thread: a track is received, in a stream, or ends.     *)
ReceiveTrack(t) ==
  /\ state[t] = "none"
  /\ state' = [state EXCEPT ![t] = "live"]
  /\ remote' = remote \cup {t}
  /\ \E s \in Streams : content' = [content EXCEPT ![s] = @ \cup {t}]
  /\ UNCHANGED <<observers, wrapperVars, sourceVars, changes, late>>

EndTrack(t) ==
  /\ t \in remote /\ state[t] = "live"
  /\ state' = [state EXCEPT ![t] = "ended"]
  /\ Changed(t)
  /\ UNCHANGED <<remote, observers, content, object, track, ended, created,
                 reachable, map, sourceVars, changes, late>>

----------------------------------------------------------------------------
(* The constructor, Create and Wrap::GetOrCreate                           *)

(* The wrapper observes its track and is stopped at once, or not.          *)
NewWrapper(t, w, stop) ==
  /\ object[w] = "free"
  /\ object' = [object EXCEPT ![w] = "live"]
  /\ track' = [track EXCEPT ![w] = t]
  /\ box' = [box EXCEPT ![w] = IF stop THEN Stopped(NewBox) ELSE NewBox]
  /\ ended' = [ended EXCEPT ![w] = stop]
  /\ observers' = [observers EXCEPT ![t] = IF stop THEN @ ELSE @ \cup {w}]
  /\ created' = created \cup {w}
  /\ reachable' = reachable \cup {w}
  /\ map' = Wrap!ComputeIfAbsent(map, t, w)
  /\ late' = IF state'[t] = "ended" THEN late \cup {w} ELSE late \ {w}

(* getTrackById, and getTracks, getAudioTracks, getVideoTracks, active and *)
(* the constructor that copies a stream, which do the same for one track   *)
(* after the other; or an event of the peer connection.  A wrapper that is *)
(* there already is only one more that the program has.                    *)
GetOrCreate(s, t) ==
  /\ t \in content[s]
  /\ UNCHANGED <<state, remote, content, sourceVars, changes>>
  /\ IF Wrap!Has(map, t)
     THEN /\ object[map.value[t]] = "live"
          /\ reachable' = reachable \cup {map.value[t]}
          /\ UNCHANGED <<observers, object, track, ended, box, created, map, late>>
     ELSE \E w \in Wrappers : NewWrapper(t, w, FALSE)

(* A new track of libwebrtc has a wrapper from the beginning.              *)
NewTrack(t, w, st, stop) ==
  /\ state[t] = "none"
  /\ state' = [state EXCEPT ![t] = st]
  /\ NewWrapper(t, w, stop)
  /\ UNCHANGED <<content, changes>>

(* Fault: the source keeps the tracks of libwebrtc.                        *)
CreateTrackBare(t, w) ==
  /\ source
  /\ NewTrack(t, w, "live", FALSE)
  /\ made' = made \cup {t}
  /\ UNCHANGED <<remote, source>>

(* createTrack of RTCAudioSource and RTCVideoSource.                       *)
CreateTrack(t, w) ==
  /\ source
  /\ NewTrack(t, w, "live", FALSE)
  /\ made' = made \cup {w}
  /\ UNCHANGED <<remote, source>>

(* Finalize of the source gives back Create's references (a source that    *)
(* has made no track is gone unnoticed).                                   *)
FinalizeSource ==
  /\ source /\ made # {}
  /\ source' = FALSE
  /\ created' = created \ made
  /\ made' = {}
  /\ UNCHANGED <<libwebrtcVars, object, track, ended, box, reachable, map, changes, late>>

----------------------------------------------------------------------------
(* MediaStreamTrack                                                        *)

(* Fault: a stopped track goes on observing.                               *)
StopObserving(w) ==
  /\ UNCHANGED observers
  /\ ended' = [ended EXCEPT ![w] = TRUE]

Stop(w) ==
  /\ observers' = [observers EXCEPT ![track[w]] = @ \ {w}]
  /\ ended' = [ended EXCEPT ![w] = TRUE]

(* stop, by the program; a peer connection that closes does the same.      *)
JsStop(w) ==
  /\ object[w] = "live"
  /\ Stop(w)
  /\ box' = [box EXCEPT ![w] = Stopped(@)]
  /\ UNCHANGED <<state, remote, content, object, track, created, reachable, map,
                 sourceVars, changes, late>>

(* What enabled is does not matter here; that it has changed is told.      *)
SetEnabled(w) ==
  /\ w \in reachable /\ ~ended[w]
  /\ Change
  /\ Changed(track[w])
  /\ UNCHANGED <<state, remote, observers, content, object, track, ended, created,
                 reachable, map, sourceVars, late>>

(* A clone shares the source of its track, and so may end with it.  An     *)
(* audio track begins in the state of its source, a video track "live".    *)
StatesOfClone(t) == {"live", state[t]}
RemoteClones(f) == {f[t] : t \in {t \in DOMAIN f : t \in remote /\ state[t] = "live"}}

(* A clone of a stopped track is stopped.                                  *)
Clone(w, t, w2) ==
  /\ w \in reachable
  /\ \E st \in StatesOfClone(track[w]) : NewTrack(t, w2, st, ended[w])
  /\ remote' = remote \cup RemoteClones([u \in {track[w]} |-> t])
  /\ UNCHANGED sourceVars

----------------------------------------------------------------------------
(* The event loops                                                         *)

Turn(w, b) ==
  /\ box' = [box EXCEPT ![w] = b]
  /\ UNCHANGED <<state, remote, content, object, track, created, reachable, map,
                 sourceVars, changes, late>>

(* Fault: the event holds the track weakly.                                *)
LoopEventWeak(w) ==
  /\ MayTake(box[w])
  /\ IF state[track[w]] = "ended" /\ w \in reachable
     THEN Stop(w) /\ Turn(w, Handled(Stopped(Take(box[w]))))
     ELSE UNCHANGED <<observers, ended>> /\ Turn(w, Handled(Take(box[w])))

(* The event looks at the state that its track has by then.                *)
LoopEvent(w) ==
  /\ MayTake(box[w])
  /\ IF state[track[w]] = "ended"
     THEN Stop(w) /\ Turn(w, Handled(Stopped(Take(box[w]))))
     ELSE UNCHANGED <<observers, ended>> /\ Turn(w, Handled(Take(box[w])))

LoopNotice(w) ==
  /\ MayNotice(box[w])
  /\ Turn(w, Noticed(box[w]))
  /\ UNCHANGED <<observers, ended>>

(* Fault: uv_close is left to the destructor.                              *)
LoopCloseNever(w) == FALSE /\ Turn(w, box[w])

(* Fault: DidStop gives back Create's reference, too.                      *)
LoopCloseBoth(w) ==
  /\ MayClose(box[w])
  /\ box' = [box EXCEPT ![w] = Closed(@)]
  /\ created' = created \ {w}
  /\ UNCHANGED <<libwebrtcVars, object, track, ended, reachable, map, sourceVars,
                 changes, late>>

(* DidStop gives back the reference of the loop.                           *)
LoopClose(w) ==
  /\ MayClose(box[w])
  /\ Turn(w, Closed(box[w]))
  /\ UNCHANGED <<observers, ended>>

LoopTurn(w) == LoopEvent(w) \/ LoopNotice(w) \/ LoopClose(w)

----------------------------------------------------------------------------
(* MediaStream                                                             *)

AddTrack(s, w) ==
  /\ w \in reachable
  /\ Change
  /\ content' = [content EXCEPT ![s] = @ \cup {track[w]}]
  /\ UNCHANGED <<state, remote, observers, wrapperVars, sourceVars, late>>

RemoveTrack(s, w) ==
  /\ w \in reachable
  /\ Change
  /\ content' = [content EXCEPT ![s] = @ \ {track[w]}]
  /\ UNCHANGED <<state, remote, observers, wrapperVars, sourceVars, late>>

(* clone: the new stream has a new track for every track.                  *)
CloneStream(s, s2) ==
  /\ content[s] # {} /\ content[s2] = {}
  /\ \E f \in [content[s] -> {t \in Tracks : state[t] = "none"}] :
       /\ \A t, t2 \in content[s] : f[t] = f[t2] => t = t2
       /\ \E st \in [content[s] -> {"live", "ended"}] :
            /\ \A t \in content[s] : st[t] \in StatesOfClone(t)
            /\ state' = [t2 \in Tracks |-> IF \E t \in content[s] : f[t] = t2
                                        THEN st[CHOOSE t \in content[s] : f[t] = t2]
                                        ELSE state[t2]]
       /\ remote' = remote \cup RemoteClones(f)
       /\ content' = [content EXCEPT ![s2] = {f[t] : t \in content[s]}]
  /\ UNCHANGED <<observers, wrapperVars, sourceVars, changes, late>>

----------------------------------------------------------------------------
(* The program forgets a wrapper, V8 collects it, Finalize comes later.    *)

Forget(w) ==
  /\ w \in reachable
  /\ reachable' = reachable \ {w}
  /\ UNCHANGED <<libwebrtcVars, object, track, ended, box, created, map, sourceVars,
                 changes, late>>

Collect(w) ==
  /\ object[w] = "live" /\ w \notin reachable \cup created /\ box[w].closed
  /\ object' = [object EXCEPT ![w] = "dead"]
  /\ UNCHANGED <<libwebrtcVars, track, ended, box, created, reachable, map, sourceVars,
                 changes, late>>

(* The memory is free again.                                               *)
Free(w) ==
  /\ object' = [object EXCEPT ![w] = "free"]
  /\ track' = [track EXCEPT ![w] = None]
  /\ ended' = [ended EXCEPT ![w] = FALSE]
  /\ box' = [box EXCEPT ![w] = NewBox]
  /\ late' = late \ {w}
  /\ UNCHANGED <<libwebrtcVars, created, reachable, sourceVars, changes>>

Finalize(w) ==
  /\ object[w] = "dead"
  /\ Free(w)
  /\ map' = Wrap!ReverseRemove(map, w)

Next ==
  \/ \E t \in Tracks : ReceiveTrack(t) \/ EndTrack(t)
  \/ \E t \in Tracks, w \in Wrappers : CreateTrack(t, w)
  \/ \E t \in Tracks, w, w2 \in Wrappers : Clone(w, t, w2)
  \/ \E s \in Streams, t \in Tracks : GetOrCreate(s, t)
  \/ \E s \in Streams, w \in Wrappers : AddTrack(s, w) \/ RemoveTrack(s, w)
  \/ \E s, s2 \in Streams : CloneStream(s, s2)
  \/ \E w \in Wrappers :
       JsStop(w) \/ SetEnabled(w) \/ LoopTurn(w) \/ Forget(w) \/ Collect(w) \/ Finalize(w)
  \/ FinalizeSource

(* libuv comes to every loop again and again.                              *)
Fairness == \A w \in Wrappers : WF_vars(LoopTurn(w))

SafeSpec == Init /\ [][Next]_vars
Spec == SafeSpec /\ Fairness

----------------------------------------------------------------------------
(* What the tracks promise                                                 *)

TypeOK ==
  /\ state \in [Tracks -> {"none", "live", "ended"}]
  /\ remote \subseteq Tracks
  /\ observers \in [Tracks -> SUBSET Wrappers]
  /\ content \in [Streams -> SUBSET Tracks]
  /\ object \in [Wrappers -> {"free", "live", "dead"}]
  /\ track \in [Wrappers -> Tracks \cup {None}]
  /\ ended \in [Wrappers -> BOOLEAN]
  /\ box \in [Wrappers -> BoxType({"changed"})]
  /\ created \subseteq Wrappers /\ reachable \subseteq Wrappers
  /\ map \in Wrap!BidiMaps
  /\ made \subseteq Wrappers /\ source \in BOOLEAN
  /\ changes \in 0..MaxChanges
  /\ late \subseteq Wrappers

(* A track calls the addresses that observe it, on libwebrtc's thread, and *)
(* holds no reference: a wrapper is never collected while it observes, and *)
(* none that has not ended goes without observing.                         *)
ObserversExist ==
  \A t \in Tracks :
    observers[t] = {w \in Wrappers : object[w] = "live" /\ track[w] = t /\ ~ended[w]}

(* One object for one track: a track has at most one wrapper at any time,  *)
(* until Finalize has run, and Wrap finds that one.                        *)
OneWrapper ==
  /\ Wrap!Mirrored(map)
  /\ \A w \in Wrappers : map.key[w] = track[w]

(* RTCAudioSource and RTCVideoSource keep the addresses of the tracks they *)
(* have made and give back a reference on each at the end: all of them are *)
(* still there, stopped or not, forgotten or not.                          *)
SourceTracksHeld ==
  source => \A w \in made : object[w] = "live" /\ w \in created

(* Types, and the two rules about addresses that others keep of a wrapper. *)
TracksInv == TypeOK /\ ObserversExist /\ SourceTracksHeld

(* The end of a received track reaches every wrapper that has seen the     *)
(* track live, also one the program has forgotten; and a wrapper that has  *)
(* ended, by stop or by its track, gives up its loop and with it the       *)
(* reference that keeps it.                                                *)
EndReachesTrack ==
  \A w \in Wrappers :
    (object[w] = "live" /\ (ended[w] \/ (w \notin late /\ state[track[w]] = "ended")))
      ~> (ended[w] /\ box[w].closed)

----------------------------------------------------------------------------
(* What one would expect and the code does not do                          *)

(* The end of a track reaches every wrapper of it.                         *)
EndReachesAll ==
  \A w \in Wrappers : object[w] = "live" /\ state[track[w]] = "ended" ~> ended[w]

(* The wrapper that a call finds has never been collected by V8.           *)
NeverStale ==
  \A s \in Streams : \A t \in content[s] :
    Wrap!Has(map, t) => object[map.value[t]] = "live"
=============================================================================
