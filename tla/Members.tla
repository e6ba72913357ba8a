------------------------------- MODULE Members -------------------------------
(***************************************************************************)
(* The transceivers, senders, receivers and tracks of RTCPeerConnections   *)
(* (src/src/interfaces/rtc_peer_connection.cc): which wrapper stands for   *)
(* which object of libwebrtc, and who holds a reference on whom.           *)
(*                                                                         *)
(* Everything here runs on the JavaScript thread, one handler or call      *)
(* after the other.  A wrapper lives as long as its own reference count or *)
(* a persistent reference (napi_ref_ptr, Napi::Reference) of another live  *)
(* wrapper keeps it; both are roots for V8.                                *)
(*                                                                         *)
(* A transceiver of libwebrtc stands for its sender and its receiver as    *)
(* well, and for the track that the receiver was born with.  In plan B it  *)
(* stands for a sender or a receiver alone.                                *)
(***************************************************************************)
EXTENDS Naturals, Sequences, FiniteSets

CONSTANTS
  Pcs,           \* the peer connections
  Transceivers,  \* libwebrtc's transceivers
  Tracks,        \* the MediaStreamTracks that the program sends
  None, Members, \* no track or peer connection; an event, see events
  MaxRefs,       \* bound: how high the reference count of a track goes
  MaxEvents      \* bound: how many events wait before a description is applied

ASSUME NoneAssumption ==
  /\ None \notin Pcs \cup Tracks
  /\ Members \notin Transceivers
  /\ Transceivers \cap Tracks = {}
ASSUME BoundsAssumption == MaxRefs \in Nat /\ MaxEvents \in Nat

VARIABLES
  (* libwebrtc *)
  unified,       \* sdpSemantics is kUnifiedPlan; otherwise kPlanB
  owner,         \* the peer connection that made the transceiver, or None
  jSenders,      \* what GetSenders of the peer connections returns
  jReceivers,    \* what GetReceivers returns
  sending,       \* RtpSenderInterface::track()
  events,        \* each peer connection's waiting events: a transceiver for
                 \* OnTrack or OnAddTrack, Members for onSetDescriptionComplete
  (* the wrappers *)
  closed,        \* the peer connections without _jinglePeerConnection
  mapped,        \* _transceivers, _senders and _receivers
  mirrorRefs,    \* the reference counts of what has been in them
  senderTrack,   \* RTCRtpSender::track
  linked,        \* the senders that know their RTCRtpTransceiver
  tracks,        \* _tracks of each peer connection
  externals,     \* _externalTracks of each peer connection
  trackRefs,     \* the reference count of each MediaStreamTrack
  uncovered,     \* history: the tracks that a peer connection may unreference
                 \* although it has not referenced them: addTransceiver's, and
                 \* those whose peer connection's Close failed half-way
  loop,          \* its event loop: "none" (no wrapper), "open", "stopped", "ended"
  dropped,       \* JavaScript reaches none of them any more
  exists,        \* the wrappers that have not been collected
  pcLoop,        \* the peer connections whose own loop holds its reference
  asserted,      \* the assertion of createOrUpdateSender has failed
  crashed        \* a null pointer was dereferenced

jingleVars == <<unified, owner, jSenders, jReceivers, sending, events>>
mirrorVars == <<mapped, mirrorRefs, senderTrack, linked, asserted>>
trackVars == <<tracks, externals, trackRefs, uncovered, loop>>
lifeVars == <<dropped, exists, pcLoop>>
vars == <<jingleVars, closed, mirrorVars, trackVars, lifeVars, crashed>>

Kinds == {"transceiver", "sender", "receiver"}
Mirrors == Kinds \X Transceivers
AllTracks == Tracks \cup Transceivers    \* a transceiver: its receiver's track
ASSUME PcsAssumption == IsFiniteSet(Pcs) /\ Pcs \cap Mirrors = {}

Of(kind, X) == {kind} \X X
Whole(X) == Kinds \X X
Owned(p) == {x \in Transceivers : owner[x] = p}
MappedOf(p) == {m \in mapped : owner[m[2]] = p}

Init ==
  /\ unified \in BOOLEAN
  /\ owner = [x \in Transceivers |-> None]
  /\ jSenders = {}
  /\ jReceivers = {}
  /\ sending = [x \in Transceivers |-> None]
  /\ events = [p \in Pcs |-> <<>>]
  /\ closed = {}
  /\ mapped = {}
  /\ mirrorRefs = [m \in Mirrors |-> 0]
  /\ senderTrack = [x \in Transceivers |-> None]
  /\ linked = {}
  /\ tracks = [p \in Pcs |-> {}]
  /\ externals = [p \in Pcs |-> {}]
  /\ trackRefs = [t \in AllTracks |-> IF t \in Tracks THEN 2 ELSE 0]
  /\ uncovered = {}
  /\ loop = [t \in AllTracks |-> IF t \in Tracks THEN "open" ELSE "none"]
  /\ dropped = FALSE
  /\ exists = Pcs
  /\ pcLoop = Pcs
  /\ asserted = FALSE
  /\ crashed = FALSE

Running == ~dropped /\ ~crashed

----------------------------------------------------------------------------
(* createOrUpdateTransceiver, createOrUpdateSender, createOrUpdateReceiver *)

(* getKnownTrack: a track in neither map is unknown.                       *)
Known(p, t) == IF t \in tracks'[p] \cup externals'[p] THEN t ELSE None

(* Fault: a wrapper is referenced whenever it is asked for.                *)
CreateOrUpdateAgain(gone, ms, refs) ==
  /\ mapped' = (mapped \ gone) \cup ms
  /\ mirrorRefs' = [m \in Mirrors |-> CASE m \in ms -> mirrorRefs[m] + 1
                                       [] m \in gone -> mirrorRefs[m] - 1
                                       [] OTHER -> mirrorRefs[m]]
  /\ exists' = exists \cup ms
  /\ trackRefs' = refs
  /\ UNCHANGED <<senderTrack, asserted, linked, loop>>

(* The wrappers gone are let go of.  The wrappers ms are created unless    *)
(* they are known, with a reference for the peer connection, and brought   *)
(* up to date.  refs: the reference counts of the tracks apart from that.  *)
(* Without NDEBUG the assertion ends the program; with it, the sender's    *)
(* track becomes null.                                                     *)
CreateOrUpdate(gone, ms, refs) ==
  LET fresh == ms \ mapped
      S == {m[2] : m \in ms \cap Of("sender", Transceivers)}
      T == {m[2] : m \in fresh \cap Of("transceiver", Transceivers)}
      R == {m[2] : m \in ms \cap Of("receiver", Transceivers)}
      newTracks == {x \in R : loop[x] = "none"}
  IN /\ mapped' = (mapped \ gone) \cup ms
     /\ mirrorRefs' = [m \in Mirrors |-> CASE m \in fresh -> mirrorRefs[m] + 1
                                          [] m \in gone -> mirrorRefs[m] - 1
                                          [] OTHER -> mirrorRefs[m]]
     /\ exists' = exists \cup ms
     /\ senderTrack' = [x \in Transceivers |->
          IF x \in S THEN Known(owner'[x], sending'[x]) ELSE senderTrack[x]]
     /\ asserted' = (asserted \/ \E x \in S : senderTrack'[x] # sending'[x])
     /\ linked' = linked \cup T
     /\ trackRefs' = [t \in AllTracks |-> IF t \in newTracks THEN 2 ELSE refs[t]]
     /\ loop' = [t \in AllTracks |-> IF t \in newTracks THEN "open" ELSE loop[t]]

----------------------------------------------------------------------------
(* What the program calls                                                  *)

(* libwebrtc makes a transceiver, or in plan B a sender.                   *)
Fresh(p, x, t) ==
  /\ owner[x] = None
  /\ owner' = [owner EXCEPT ![x] = p]
  /\ jSenders' = jSenders \cup {x}
  /\ jReceivers' = IF unified THEN jReceivers \cup {x} ELSE jReceivers
  /\ sending' = [sending EXCEPT ![x] = t]

(* A transceiver that does not send may be used by AddTrack.               *)
Reuse(p, x, t) ==
  /\ unified /\ x \in jSenders /\ owner[x] = p /\ sending[x] = None
  /\ sending' = [sending EXCEPT ![x] = t]
  /\ UNCHANGED <<owner, jSenders, jReceivers>>

(* Fault: an external track is noted and not referenced.                   *)
ExternalRefsNone(p, t) == trackRefs

(* isOwned looks at _tracks alone: a track that is not in it is            *)
(* referenced, whether _externalTracks has it or not.                      *)
ExternalRefs(p, t) ==
  IF t \in tracks[p] THEN trackRefs ELSE [trackRefs EXCEPT ![t] = @ + 1]

(* libwebrtc refuses a track that it sends already; the reference has been *)
(* taken by then.                                                          *)
AddTrack(p, t) ==
  /\ Running /\ p \notin closed /\ trackRefs[t] < MaxRefs
  /\ externals' = IF t \in tracks[p] THEN externals
                  ELSE [externals EXCEPT ![p] = @ \cup {t}]
  /\ UNCHANGED <<unified, events, closed, tracks, uncovered, dropped, pcLoop, crashed>>
  /\ IF \E x \in jSenders : owner[x] = p /\ sending[x] = t
     THEN /\ trackRefs' = ExternalRefs(p, t)
          /\ UNCHANGED <<owner, jSenders, jReceivers, sending, mirrorVars, loop, exists>>
     ELSE \E x \in Transceivers :
            /\ Fresh(p, x, t) \/ Reuse(p, x, t)
            /\ CreateOrUpdate({}, IF unified THEN Whole({x}) ELSE Of("sender", {x}),
                              ExternalRefs(p, t))

(* A track given to addTransceiver is put among the peer connection's own, *)
(* and stays there when libwebrtc refuses to make the transceiver.         *)
AddTransceiver(p, t) ==
  /\ Running /\ p \notin closed /\ unified
  /\ IF t = None THEN UNCHANGED <<tracks, uncovered>>
     ELSE /\ tracks' = [tracks EXCEPT ![p] = @ \cup {t}]
          /\ uncovered' = uncovered \cup {t}
  /\ UNCHANGED <<unified, events, closed, externals, dropped, pcLoop, crashed>>
  /\ \/ \E x \in Transceivers :
          Fresh(p, x, t) /\ CreateOrUpdate({}, Whole({x}), trackRefs)
     \/ UNCHANGED <<owner, jSenders, jReceivers, sending, mirrorVars, trackRefs, loop, exists>>

(* The sender is one of the peer connection's and libwebrtc still has it;  *)
(* otherwise removeTrack throws.  In unified plan it asks for the sender's *)
(* transceiver, which a sender that getSenders made does not know.         *)
RemoveTrack(x) ==
  /\ Running /\ owner[x] \notin closed \cup {None}
  /\ <<"sender", x>> \in mapped /\ x \in jSenders
  /\ sending' = [sending EXCEPT ![x] = None]
  /\ UNCHANGED <<unified, owner, jReceivers, events, closed, tracks, externals, uncovered,
                 dropped, pcLoop>>
  /\ \/ /\ unified /\ x \in linked
        /\ CreateOrUpdate({}, Whole({x}), trackRefs)
        /\ UNCHANGED <<jSenders, crashed>>
     \/ /\ unified /\ x \notin linked
        /\ crashed' = TRUE
        /\ UNCHANGED <<jSenders, mirrorVars, trackRefs, loop, exists>>
     \/ /\ ~unified
        /\ jSenders' = jSenders \ {x}
        /\ mapped' = mapped \ {<<"sender", x>>}
        /\ mirrorRefs' = [mirrorRefs EXCEPT ![<<"sender", x>>] = @ - 1]
        /\ senderTrack' = [senderTrack EXCEPT ![x] = None]
        /\ UNCHANGED <<linked, asserted, trackRefs, loop, exists, crashed>>

(* RTCRtpSender::ReplaceTrack, on an open peer connection that still has   *)
(* the sender; otherwise the promise is rejected.                          *)
ReplaceTrack(x, t) ==
  /\ Running /\ owner[x] \notin closed \cup {None}
  /\ <<"sender", x>> \in exists /\ x \in jSenders
  /\ sending' = [sending EXCEPT ![x] = t]
  /\ senderTrack' = [senderTrack EXCEPT ![x] = t]
  /\ UNCHANGED <<unified, owner, jSenders, jReceivers, events, closed, mapped,
                 mirrorRefs, linked, asserted, trackVars, lifeVars, crashed>>

(* The other methods of the three wrappers use getUnderlying as it comes.  *)
UseMember(m) ==
  /\ Running /\ m \in exists
  /\ crashed' = \/ owner[m[2]] \in closed
                \/ m[1] = "receiver" /\ m[2] \notin jReceivers
                \/ m[1] # "receiver" /\ m[2] \notin jSenders
  /\ UNCHANGED <<jingleVars, closed, mirrorVars, trackVars, lifeVars>>

(* getTransceivers, getSenders and getReceivers.                           *)
GetMembers(p, kind) ==
  /\ Running /\ p \notin closed
  /\ UNCHANGED <<jingleVars, closed, tracks, externals, uncovered, dropped, pcLoop, crashed>>
  /\ LET X == Owned(p) \cap (IF kind = "receiver" THEN jReceivers ELSE jSenders) IN
       CreateOrUpdate({}, IF kind # "transceiver" THEN Of(kind, X)
                          ELSE IF unified THEN Whole(X) ELSE {}, trackRefs)

----------------------------------------------------------------------------
(* A description is applied: libwebrtc makes and removes transceivers, or  *)
(* receivers in plan B; the peer connection hears of it later.             *)

DescriptionAdds(p, x) ==
  /\ owner[x] = None
  /\ owner' = [owner EXCEPT ![x] = p]
  /\ jReceivers' = jReceivers \cup {x}
  /\ jSenders' = IF unified THEN jSenders \cup {x} ELSE jSenders
  /\ \E track \in {<<>>, <<x>>} :
       events' = [events EXCEPT ![p] = @ \o track \o <<Members>>]

DescriptionRemoves(p, x) ==
  /\ x \in jReceivers /\ owner[x] = p
  /\ jReceivers' = jReceivers \ {x}
  /\ jSenders' = IF unified THEN jSenders \ {x} ELSE jSenders
  /\ events' = [events EXCEPT ![p] = Append(@, Members)]
  /\ UNCHANGED owner

ApplyDescription(p) ==
  /\ Running /\ p \notin closed /\ Len(events[p]) < MaxEvents
  /\ \E x \in Transceivers : DescriptionAdds(p, x) \/ DescriptionRemoves(p, x)
  /\ UNCHANGED <<unified, sending, closed, mirrorVars, trackVars, lifeVars, crashed>>

----------------------------------------------------------------------------
(* The peer connection's event loop                                        *)

Receive(p, what) ==
  /\ ~crashed /\ events[p] # <<>>
  /\ what = Head(events[p])
  /\ events' = [events EXCEPT ![p] = Tail(@)]
  /\ UNCHANGED <<unified, owner, jSenders, jReceivers, sending, closed, tracks,
                 externals, uncovered, dropped, pcLoop>>

(* Fault: OnTrack does not look whether the peer connection is closed.     *)
OnTrackUnchecked(p, x) ==
  /\ Receive(p, x)
  /\ UNCHANGED crashed
  /\ CreateOrUpdate({}, IF unified THEN Whole({x}) ELSE Of("receiver", {x}), trackRefs)

(* OnTrack does nothing once the peer connection is closed.  OnAddTrack    *)
(* goes on without a factory, which ends well when the track, its streams  *)
(* and its transport have wrappers already.                                *)
OnTrack(p, x) ==
  /\ Receive(p, x)
  /\ \/ /\ p \notin closed
        /\ UNCHANGED crashed
        /\ CreateOrUpdate({}, IF unified THEN Whole({x}) ELSE Of("receiver", {x}),
                          trackRefs)
     \/ /\ p \in closed /\ ~unified /\ loop[x] # "none"
        /\ UNCHANGED crashed
        /\ CreateOrUpdate({}, Of("receiver", {x}), trackRefs)
     \/ /\ p \in closed
        /\ crashed' = ~unified
        /\ UNCHANGED <<mirrorVars, trackRefs, loop, exists>>

GoneKind == IF unified THEN "transceiver" ELSE "receiver"

(* Fault: what has no receiver goes, whatever it is.                       *)
GoneAny(p) == {m \in MappedOf(p) : m[2] \notin jReceivers}

Gone(p) == {m \in MappedOf(p) : m[1] = GoneKind /\ m[2] \notin jReceivers}

(* Fault: what libwebrtc no longer has stays.                              *)
ProcessStateChangesAdd(p) ==
  LET X == Owned(p) \cap jReceivers IN
    CreateOrUpdate({}, IF unified THEN Whole(X) ELSE Of("receiver", X), trackRefs)

(* processStateChangesUnifiedPlan, processStateChangesPlanB: what is gone  *)
(* is released, what is there is created or updated.                       *)
ProcessStateChanges(p) ==
  LET X == Owned(p) \cap jReceivers IN
    CreateOrUpdate(Gone(p), IF unified THEN Whole(X) ELSE Of("receiver", X), trackRefs)

OnSetDescriptionComplete(p) ==
  /\ Receive(p, Members)
  /\ UNCHANGED crashed
  /\ IF p \in closed
     THEN UNCHANGED <<mirrorVars, trackRefs, loop, exists>>
     ELSE ProcessStateChanges(p)

----------------------------------------------------------------------------
(* The end of peer connections and tracks                                  *)

CloseMirrors(p) ==
  /\ mapped' = mapped \ MappedOf(p)
  /\ mirrorRefs' = [m \in Mirrors |->
       IF m \in MappedOf(p) THEN mirrorRefs[m] - 1 ELSE mirrorRefs[m]]

Dereferenced(ts) == [t \in AllTracks |-> IF t \in ts THEN trackRefs[t] - 1 ELSE trackRefs[t]]

(* _tracks, then _externalTracks, then the wrappers.  A count that is zero *)
(* already makes Unref throw, and what comes after it is left as it is.    *)
CloseReferences(p) ==
  LET own == tracks[p]
      ext == externals[p]
      Left(t) == IF t \in own THEN trackRefs[t] - 1 ELSE trackRefs[t]
      ownFails == \E t \in own : trackRefs[t] = 0
      extFails == \E t \in ext : Left(t) = 0
  IN \/ /\ ownFails
        /\ \E done \in SUBSET {t \in own : trackRefs[t] > 0} :
             trackRefs' = Dereferenced(done)
        /\ UNCHANGED <<tracks, externals, uncovered, mapped, mirrorRefs>>
     \/ /\ ~ownFails /\ extFails
        /\ tracks' = [tracks EXCEPT ![p] = {}]
        /\ \E done \in SUBSET {t \in ext : Left(t) > 0} :
             trackRefs' = [t \in AllTracks |-> IF t \in done THEN Left(t) - 1 ELSE Left(t)]
        /\ uncovered' = uncovered \cup ext
        /\ UNCHANGED <<externals, mapped, mirrorRefs>>
     \/ /\ ~ownFails /\ ~extFails
        /\ tracks' = [tracks EXCEPT ![p] = {}]
        /\ externals' = [externals EXCEPT ![p] = {}]
        /\ trackRefs' = [t \in AllTracks |-> IF t \in ext THEN Left(t) - 1 ELSE Left(t)]
        /\ CloseMirrors(p)
        /\ UNCHANGED uncovered

(* The program may call close again, which only goes through the maps.  In *)
(* unified plan the first call stops the tracks in _tracks.                *)
Close(p) ==
  /\ Running
  /\ closed' = closed \cup {p}
  /\ loop' = [t \in AllTracks |->
       IF p \notin closed /\ unified /\ t \in tracks[p] /\ loop[t] = "open"
       THEN "stopped" ELSE loop[t]]
  /\ CloseReferences(p)
  /\ UNCHANGED <<jingleVars, senderTrack, linked, asserted, lifeVars, crashed>>

(* MediaStreamTrack::Stop: the program's, or libwebrtc has ended a remote  *)
(* track, which it does when the peer connection is closed.                *)
StopTrack(t) ==
  /\ ~crashed /\ loop[t] = "open"
  /\ \/ ~dropped
     \/ t \in Transceivers /\ (owner[t] \in closed \/ t \notin jReceivers)
  /\ loop' = [loop EXCEPT ![t] = "stopped"]
  /\ UNCHANGED <<jingleVars, closed, mirrorVars, tracks, externals, trackRefs, uncovered,
                 lifeVars, crashed>>

(* DidStop runs in a callback of libuv, where what Unref throws is fatal.  *)
TrackDidStop(t) ==
  /\ ~crashed /\ loop[t] = "stopped"
  /\ loop' = [loop EXCEPT ![t] = "ended"]
  /\ \/ trackRefs[t] > 0 /\ trackRefs' = Dereferenced({t}) /\ UNCHANGED crashed
     \/ trackRefs[t] = 0 /\ crashed' = TRUE /\ UNCHANGED trackRefs
  /\ UNCHANGED <<jingleVars, closed, mirrorVars, tracks, externals, uncovered, lifeVars>>

PcDidStop(p) ==
  /\ ~crashed /\ p \in closed /\ p \in pcLoop
  /\ pcLoop' = pcLoop \ {p}
  /\ events' = [events EXCEPT ![p] = <<>>]
  /\ UNCHANGED <<unified, owner, jSenders, jReceivers, sending, closed, mirrorVars,
                 trackVars, dropped, exists, crashed>>

(* The program lets go of everything; what nobody holds is collected.      *)
Drop ==
  /\ Running
  /\ dropped' = TRUE
  /\ UNCHANGED <<jingleVars, closed, mirrorVars, trackVars, exists, pcLoop, crashed>>

(* Fault: a transceiver holds its peer connection and not its two parts.   *)
HeldByPc(m) == {owner[m[2]]}

(* The persistent references of a wrapper.                                 *)
HeldBy(m) ==
  LET x == m[2] IN
    {owner[x]} \cup
    IF m[1] = "transceiver" THEN {<<"sender", x>>, <<"receiver", x>>}
    ELSE IF x \in linked THEN {<<"transceiver", x>>} ELSE {}

Kept(o) ==
  \/ o \in pcLoop
  \/ o \in Mirrors /\ mirrorRefs[o] > 0
  \/ \E m \in exists \ Pcs : o \in HeldBy(m)

Collect(o) ==
  /\ dropped /\ ~crashed
  /\ o \in exists /\ ~Kept(o)
  /\ exists' = exists \ {o}
  /\ UNCHANGED <<jingleVars, closed, mirrorVars, trackVars, dropped, pcLoop, crashed>>

----------------------------------------------------------------------------

Next ==
  \/ \E p \in Pcs, t \in Tracks : AddTrack(p, t)
  \/ \E p \in Pcs, t \in Tracks \cup {None} : AddTransceiver(p, t)
  \/ \E x \in Transceivers : RemoveTrack(x)
  \/ \E x \in Transceivers, t \in Tracks \cup {None} : ReplaceTrack(x, t)
  \/ \E m \in Mirrors : UseMember(m)
  \/ \E p \in Pcs, kind \in Kinds : GetMembers(p, kind)
  \/ \E p \in Pcs : ApplyDescription(p)
  \/ \E p \in Pcs, x \in Transceivers : OnTrack(p, x)
  \/ \E p \in Pcs : OnSetDescriptionComplete(p)
  \/ \E p \in Pcs : Close(p)
  \/ \E t \in AllTracks : StopTrack(t) \/ TrackDidStop(t)
  \/ \E p \in Pcs : PcDidStop(p)
  \/ Drop
  \/ \E o \in Pcs \cup Mirrors : Collect(o)

Spec == Init /\ [][Next]_vars

----------------------------------------------------------------------------
(* What the peer connection promises of its members                        *)

TypeOK ==
  /\ unified \in BOOLEAN
  /\ owner \in [Transceivers -> Pcs \cup {None}]
  /\ jSenders \subseteq Transceivers /\ jReceivers \subseteq Transceivers
  /\ sending \in [Transceivers -> Tracks \cup {None}]
  /\ events \in [Pcs -> Seq(Transceivers \cup {Members})]
  /\ closed \subseteq Pcs
  /\ mapped \subseteq Mirrors
  /\ mirrorRefs \in [Mirrors -> 0..1]
  /\ senderTrack \in [Transceivers -> Tracks \cup {None}]
  /\ linked \subseteq Transceivers
  /\ tracks \in [Pcs -> SUBSET Tracks] /\ externals \in [Pcs -> SUBSET Tracks]
  /\ trackRefs \in [AllTracks -> Nat]
  /\ uncovered \subseteq Tracks
  /\ loop \in [AllTracks -> {"none", "open", "stopped", "ended"}]
  /\ dropped \in BOOLEAN
  /\ exists \subseteq Pcs \cup Mirrors
  /\ pcLoop \subseteq Pcs
  /\ asserted \in BOOLEAN /\ crashed \in BOOLEAN

Released(p) == p \in closed /\ tracks[p] = {} /\ externals[p] = {}

(* A wrapper has the peer connection's reference exactly while it is in    *)
(* one of its maps.  In unified plan it has none once Close has run to its *)
(* end, whatever descriptions and events are still under way.  In plan B   *)
(* OnAddTrack may still put a receiver there.                              *)
MirrorsBalanced ==
  \A m \in Mirrors :
    /\ mirrorRefs[m] = IF m \in mapped THEN 1 ELSE 0
    /\ m \in mapped /\ (unified \/ m[1] # "receiver") => ~Released(owner[m[2]])

(* When the peer connection has handled its events, its transceivers (in   *)
(* plan B its receivers) are libwebrtc's, although some of them came and   *)
(* went between two events.                                                *)
MirrorsSettled ==
  \A p \in Pcs \ closed : events[p] = <<>> =>
    {m[2] : m \in MappedOf(p) \cap Of(GoneKind, Transceivers)} = Owned(p) \cap jReceivers

(* A transceiver's pointers to its sender, its receiver and its peer       *)
(* connection, and theirs to the peer connection, point to live objects.   *)
PointersValid ==
  \A m \in exists \ Pcs :
    /\ owner[m[2]] \in exists
    /\ m[1] = "transceiver" => {<<"sender", m[2]>>, <<"receiver", m[2]>>} \subseteq exists

(* JavaScript sees one object for one member: as long as the peer          *)
(* connection is open and libwebrtc has the member, every wrapper of it    *)
(* that the program may hold is the one that getTransceivers, getSenders,  *)
(* getReceivers and the events return.                                     *)
Underlying(m) == m[2] \in (IF m[1] = "receiver" THEN jReceivers ELSE jSenders)
Current(m) == owner[m[2]] \notin closed /\ Underlying(m)
SameMember == \A m \in exists \ Pcs : Current(m) => m \in mapped

(* A track keeps a reference for its loop, for whoever created it and for  *)
(* each peer connection that took it from addTrack, so it is never freed   *)
(* under one of them.  Not so the tracks that addTransceiver was given,    *)
(* and, when the reference count of one of those runs out in the middle of *)
(* a Close, the tracks that Close had to unreference beside it: it stops   *)
(* where it is, and the next Close begins again.                           *)
TracksOutlive ==
  \A t \in Tracks \ uncovered :
    trackRefs[t] >= (IF loop[t] = "ended" THEN 1 ELSE 2)
                    + Cardinality({p \in Pcs : t \in externals[p]})

(* Types, no member with a pointer to what is gone, and no second wrapper. *)
MembersInv == TypeOK /\ PointersValid /\ SameMember

----------------------------------------------------------------------------
(* What the repository says of the members and the code does not do        *)

(* rtc_peer_connection.cc, Close: tracks that the peer connection does not *)
(* own "we do need to unreference": when every peer connection is closed,  *)
(* a track is left with the references of its loop and its creator.        *)
TracksReleased ==
  closed = Pcs => \A t \in Tracks : trackRefs[t] <= IF loop[t] = "ended" THEN 1 ELSE 2

(* rtc_peer_connection.cc, AddTrack: a track that the peer connection has  *)
(* not seen "we need to reference" so that "we can dereference it when the *)
(* RTCPeerConnection closes": a track has a reference for each Unref that  *)
(* is to come.                                                             *)
DereferencesCovered ==
  \A t \in Tracks :
    trackRefs[t] >= (IF loop[t] = "ended" THEN 0 ELSE 1)
                    + Cardinality({p \in Pcs : t \in tracks[p]})
                    + Cardinality({p \in Pcs : t \in externals[p]})

(* Of the same tracks: "we don't want to end their event loops when we're  *)
(* done".  A track of the program's ends when the program stops it.        *)
ForeignLoopsRun ==
  [][\A p \in Pcs : Close(p) => UNCHANGED loop]_vars

(* media_stream_track.cc, Create: "Add a reference owned by the            *)
(* RTCPeerConnection": the track of a receiver loses it in Close.          *)
ReceiverTracksReleased ==
  \A x \in Transceivers :
    owner[x] \in closed => trackRefs[x] <= IF loop[x] = "ended" THEN 0 ELSE 1

(* rtc_peer_connection.cc, createOrUpdateSender: assert(track).            *)
TrackKnown == ~asserted

(* lib/nodejs/test/connect.test.ts: "make sure nothing crashes after       *)
(* connection is closed and _jinglePeerConnection is null".                *)
ClosedMembersUsable == crashed => closed = {}

(* rtc_peer_connection.cc, Close: "Now that we are in a closed state, it   *)
(* is OK for us to be garbage collected".                                  *)
ClosedCollected ==
  closed = Pcs /\ pcLoop = {} /\ dropped /\ (\A o \in exists : Kept(o)) => exists = {}
============================================================================
