------------------------------ MODULE Factory ------------------------------
(***************************************************************************)
(* The default PeerConnectionFactory                                       *)
(* (src/src/interfaces/rtc_peer_connection/peer_connection_factory.cc) is  *)
(* shared by everything in the process.  GetOrCreateDefault counts a       *)
(* reference under a mutex, creates the factory if it is the first, and    *)
(* reads _default once more after it has unlocked the mutex.  Release,     *)
(* called on whatever thread destroys the last pointer to a source of      *)
(* media, gives one back; the last one forgets the factory.                *)
(*                                                                         *)
(* The factory is a JavaScript object with a reference count of its own:   *)
(* one for _default and one for every object that keeps its address.  V8   *)
(* would free it when there is none, which AddressesHeld says never comes. *)
(*                                                                         *)
(* JavaScript is in at most one call; the "op" of "call" says where:       *)
(*   "none"      in none                                                   *)
(*   "stream"    on the way to the constructor of MediaStream's member     *)
(*   "second"    on the way to the Impl that replaces that member          *)
(*   "video"     getUserMedia, on the way to making its source             *)
(*   others      between the two halves of a GetOrCreateDefault, called by *)
(*               the constructor or function of that name; "member" is the *)
(*               default member of a MediaStream, "impl" its second Impl   *)
(* "kind" says which MediaStream is made: with arguments that are refused  *)
(* ("invalid"), with somebody's factory ("given", or "kept" if it is made  *)
(* by the code and not by the program), or with the default one ("own").   *)
(***************************************************************************)
EXTENDS Integers, FiniteSets

CONSTANTS
  Pcs,           \* the RTCPeerConnections
  Streams,       \* the MediaStreams
  Sources,       \* the RTCVideoTrackSources and RTCAudioTrackSources
  Users,         \* the tracks, channels and transports: each keeps an address
  Factories,     \* the factories that may be created
  Null,          \* no factory, nobody
  MaxReferences  \* bound: the references after which no more is asked for

Holders == Pcs \cup Streams \cup Sources
ASSUME HoldersAssumption ==
  /\ IsFiniteSet(Holders) /\ IsFiniteSet(Users)
  /\ Pcs \cap Streams = {} /\ Sources \cap (Pcs \cup Streams) = {}
  /\ Null \notin Holders \cup Factories
ASSUME MaxReferencesAssumption == MaxReferences \in Nat

VARIABLES
  references,  \* PeerConnectionFactory::_references
  default,     \* PeerConnectionFactory::_default
  past,        \* history: the factories that have existed
  refs,        \* the reference count of each factory's JavaScript object
  loaded,      \* how many of the two Init functions that take one have run
  call,        \* what JavaScript is in
  pc,          \* each peer connection and its _factory
  stream,      \* each stream, its Impl's _factory and _shouldReleaseFactory
  source,      \* each source
  user,        \* the _factory of each track, channel or transport, or Null
  lost,        \* history: references that nobody will give back
  lostRefs,    \* history: the same of refs
  foreign      \* history: a thread but JavaScript's has let go of a factory

countVars == <<references, default, past, refs>>
holderVars == <<loaded, pc, stream, source, user>>
lostVars == <<lost, lostRefs>>
vars == <<countVars, holderVars, lostVars, call, foreign>>

Call(op, kind, holder, given) ==
  [op |-> op, kind |-> kind, holder |-> holder, given |-> given]
NoCall == Call("none", "own", Null, Null)

Takers == {"receiver", "sender", "read", "capabilities", "pc", "source",
           "media", "createTrack", "member", "impl"}
Ops == {"none", "video", "stream", "second"} \cup Takers
Kinds == {"invalid", "given", "kept", "own"}

Init ==
  /\ references = 0
  /\ default = Null
  /\ past = {}
  /\ refs = [f \in Factories |-> 0]
  /\ loaded = 0
  /\ call = NoCall
  /\ pc = [p \in Pcs |-> [state |-> "new", factory |-> Null]]
  /\ stream = [s \in Streams |-> [state |-> "new", factory |-> Null, release |-> FALSE]]
  /\ source = [v \in Sources |-> "new"]
  /\ user = [u \in Users |-> Null]
  /\ lost = 0
  /\ lostRefs = [f \in Factories |-> 0]
  /\ foreign = FALSE

----------------------------------------------------------------------------
(* The two functions                                                       *)

(* The first half of GetOrCreateDefault, up to its unlock.                 *)
Take(next) ==
  /\ references' = references + 1
  /\ IF references = 0
     THEN \E f \in Factories \ past :
            /\ default' = f
            /\ past' = past \cup {f}
            /\ refs' = [refs EXCEPT ![f] = 1]
     ELSE UNCHANGED <<default, past, refs>>
  /\ call' = next
  /\ UNCHANGED <<lostVars, foreign>>

(* A function of the program's, or of the module's Init, begins.           *)
Begin(next) ==
  /\ call = NoCall
  /\ references < MaxReferences
  /\ Take(next)

(* What n references of f and, if release, one of _references are worth.   *)
Drop(f, n, release) ==
  LET last == release /\ references = 1
      gone == [g \in Factories |-> (IF g = f THEN n ELSE 0)
                                  + (IF last /\ g = default THEN 1 ELSE 0)]
  IN /\ references' = IF release THEN references - 1 ELSE references
     /\ default' = IF last THEN Null ELSE default
     /\ refs' = [g \in Factories |-> refs[g] - gone[g]]
     /\ UNCHANGED past

Release == Drop(Null, 0, TRUE)

(* The second half of GetOrCreateDefault: _default is read again.          *)
Returns(op, next) ==
  /\ call.op = op
  /\ call' = next
Keep(f) == refs' = [refs EXCEPT ![f] = @ + 1]
Lose(f) == lostRefs' = [lostRefs EXCEPT ![f] = @ + 1]

----------------------------------------------------------------------------
(* Loading the module                                                      *)

InitReceiver ==
  /\ loaded = 0
  /\ Begin(Call("receiver", "own", Null, Null))
  /\ UNCHANGED holderVars

ReceiverLoaded ==
  /\ Returns("receiver", NoCall)
  /\ loaded' = 1
  /\ lost' = lost + 1
  /\ UNCHANGED <<countVars, lostRefs, pc, stream, source, user, foreign>>

InitSender ==
  /\ loaded = 1
  /\ Begin(Call("sender", "own", Null, Null))
  /\ UNCHANGED holderVars

SenderLoaded ==
  /\ Returns("sender", NoCall)
  /\ loaded' = 2
  /\ lost' = lost + 1
  /\ UNCHANGED <<countVars, lostRefs, pc, stream, source, user, foreign>>

Load == InitReceiver \/ ReceiverLoaded \/ InitSender \/ SenderLoaded

BeginLoaded(next) == loaded = 2 /\ Begin(next) /\ UNCHANGED holderVars

----------------------------------------------------------------------------
(* getCapabilities of RTCRtpReceiver, and of RTCRtpSender                  *)

GetReceiverCapabilities == BeginLoaded(Call("read", "own", Null, Null))
(* Fault: it releases again on its way out.                                *)
ReceiverCapabilitiesAgain ==
  /\ Returns("read", call)
  /\ Release
  /\ UNCHANGED <<holderVars, lostVars, foreign>>

ReceiverCapabilities ==
  /\ Returns("read", NoCall)
  /\ Release
  /\ UNCHANGED <<holderVars, lostVars, foreign>>

GetSenderCapabilities == BeginLoaded(Call("capabilities", "own", Null, Null))
SenderCapabilities ==
  /\ Returns("capabilities", NoCall)
  /\ lost' = lost + 1
  /\ UNCHANGED <<countVars, lostRefs, holderVars, foreign>>

Capabilities ==
  \/ GetReceiverCapabilities \/ ReceiverCapabilities
  \/ GetSenderCapabilities \/ SenderCapabilities

----------------------------------------------------------------------------
(* RTCPeerConnection                                                       *)

SetPc(p, state, factory) == pc' = [pc EXCEPT ![p] = [state |-> state, factory |-> factory]]

(* A constructor that throws leaves an object that its loop keeps for ever *)
(* and that the program has not got: before it asks for the factory, or    *)
(* after it.                                                               *)
RefusePc(p) ==
  /\ loaded = 2 /\ call = NoCall
  /\ pc[p].state = "new"
  /\ SetPc(p, "failed", Null)
  /\ UNCHANGED <<countVars, lostVars, loaded, stream, source, user, call, foreign>>

NewPc(p) ==
  /\ pc[p].state = "new"
  /\ BeginLoaded(Call("pc", "own", p, Null))

PcMade(p) ==
  /\ call.holder = p
  /\ Returns("pc", NoCall)
  /\ \E state \in {"open", "failed"} : SetPc(p, state, default)
  /\ UNCHANGED <<countVars, lostVars, loaded, stream, source, user, foreign>>

(* Fault: Close gives the reference back and keeps the address.            *)
ClosePcKeeping(p) ==
  /\ call = NoCall
  /\ pc[p].state \in {"open", "closed"}
  /\ SetPc(p, "closed", pc[p].factory)
  /\ Drop(Null, 0, pc[p].factory # Null)
  /\ UNCHANGED <<lostVars, loaded, stream, source, user, call, foreign>>

ClosePc(p) ==
  /\ call = NoCall
  /\ pc[p].state \in {"open", "closed"}
  /\ SetPc(p, "closed", Null)
  /\ Drop(Null, 0, pc[p].factory # Null)
  /\ UNCHANGED <<lostVars, loaded, stream, source, user, call, foreign>>

(* Its loop has ended.                                                     *)
FinalizePc(p) ==
  /\ call = NoCall
  /\ pc[p].state = "closed"
  /\ SetPc(p, "gone", Null)
  /\ Drop(Null, 0, pc[p].factory # Null)
  /\ UNCHANGED <<lostVars, loaded, stream, source, user, call, foreign>>

PeerConnection(p) ==
  RefusePc(p) \/ NewPc(p) \/ PcMade(p) \/ ClosePc(p) \/ FinalizePc(p)
----------------------------------------------------------------------------
(* The sources of media: RTCVideoTrackSource and RTCAudioTrackSource       *)

SetSource(v, state) == source' = [source EXCEPT ![v] = state]

(* By the program's RTCVideoSource or RTCAudioSource, or by getUserMedia.  *)
NewSource(v) ==
  /\ source[v] = "new"
  /\ SetSource(v, "making")
  /\ \/ loaded = 2 /\ Begin(Call("source", "own", Null, Null))
     \/ call.op = "video" /\ Take([call EXCEPT !.op = "source"])
  /\ UNCHANGED <<loaded, pc, stream, user>>

SourceMade(v) ==
  /\ source[v] = "making"
  /\ Returns("source", IF call.holder = Null THEN NoCall ELSE [call EXCEPT !.op = "stream"])
  /\ SetSource(v, "live")
  /\ UNCHANGED <<countVars, lostVars, loaded, pc, stream, user, foreign>>

(* Fault: what made the source releases when it is destroyed, and so does  *)
(* the source.                                                             *)
DestroySourceAgain(v) ==
  /\ source[v] = "live"
  /\ Release
  /\ foreign' = (foreign \/ references = 1)
  /\ UNCHANGED <<holderVars, lostVars, call>>

(* The destructor, on the thread that lets go of the source last: at any   *)
(* moment of JavaScript's calls if it is a thread of libwebrtc.            *)
DestroySource(v) ==
  /\ source[v] = "live"
  /\ SetSource(v, "gone")
  /\ Release
  /\ \/ call = NoCall /\ UNCHANGED foreign
     \/ foreign' = (foreign \/ references = 1)
  /\ UNCHANGED <<lostVars, loaded, pc, stream, user, call>>

Source(v) == NewSource(v) \/ SourceMade(v) \/ DestroySource(v)

----------------------------------------------------------------------------
(* The objects that keep an address and count no reference                 *)

Held == {pc[p].factory : p \in Pcs} \cup {user[u] : u \in Users}
        \cup {stream[s].factory : s \in {t \in Streams : stream[t].state \in {"made", "kept"}}}

(* The constructor of a track, channel or transport: _factory->Ref().      *)
NewUser(u) ==
  /\ call = NoCall
  /\ user[u] = Null
  /\ \E f \in Held \ {Null} :
       /\ user' = [user EXCEPT ![u] = f]
       /\ Keep(f)
  /\ UNCHANGED <<references, default, past, lostVars, loaded, pc, stream, source,
                 call, foreign>>

(* createTrack of RTCVideoSource and RTCAudioSource.                       *)
CreateTrack == BeginLoaded(Call("createTrack", "own", Null, Null))

TrackCreated(u) ==
  /\ user[u] = Null
  /\ Returns("createTrack", NoCall)
  /\ lost' = lost + 1
  /\ user' = [user EXCEPT ![u] = default]
  /\ Keep(default)
  /\ UNCHANGED <<references, default, past, lostRefs, loaded, pc, stream, source, foreign>>

(* Fault: Unref, and the address stays.                                    *)
FinalizeUserKeeping(u) ==
  /\ call = NoCall
  /\ user[u] # Null
  /\ Drop(user[u], 1, FALSE)
  /\ UNCHANGED <<holderVars, lostVars, call, foreign>>

FinalizeUser(u) ==
  /\ call = NoCall
  /\ user[u] # Null
  /\ user' = [user EXCEPT ![u] = Null]
  /\ Drop(user[u], 1, FALSE)
  /\ UNCHANGED <<lostVars, loaded, pc, stream, source, call, foreign>>

User(u) == NewUser(u) \/ TrackCreated(u) \/ FinalizeUser(u)

----------------------------------------------------------------------------
(* MediaStream and getUserMedia                                            *)

SetStream(s, state, factory, release) ==
  stream' = [stream EXCEPT ![s] =
               [state |-> state, factory |-> factory, release |-> release]]

(* getUserMedia and getDisplayMedia; the constructor of MediaStream and    *)
(* MediaStream::Create, from a call or an event of a peer connection.      *)
GetUserMedia(s) ==
  /\ stream[s].state = "new"
  /\ BeginLoaded(Call("media", "kept", s, Null))

MediaBegun(s) ==
  /\ call.holder = s
  /\ \E next \in {"video", "stream"} : Returns("media", Call(next, "kept", s, default))
  /\ lost' = lost + 1
  /\ UNCHANGED <<countVars, lostRefs, holderVars, foreign>>

NewStream(s) ==
  /\ loaded = 2 /\ call = NoCall
  /\ references < MaxReferences
  /\ stream[s].state = "new"
  /\ \E kind \in Kinds, f \in Held \cup {Null} :
       /\ f = Null <=> kind \in {"invalid", "own"}
       /\ call' = Call("stream", kind, s, f)
  /\ UNCHANGED <<countVars, lostVars, holderVars, foreign>>

TakeMember ==
  \/ call.op = "stream" /\ Take([call EXCEPT !.op = "member"]) /\ UNCHANGED holderVars
  \/ call.op = "second" /\ Take([call EXCEPT !.op = "impl"]) /\ UNCHANGED holderVars

(* The default member keeps the default factory; if the arguments are no   *)
(* good the constructor throws and leaves it at that.                      *)
MemberOnly(s) ==
  /\ call.holder = s /\ call.kind \in {"invalid", "own"}
  /\ Returns("member", IF call.kind = "own" THEN [call EXCEPT !.op = "second"] ELSE NoCall)
  /\ SetStream(s, IF call.kind = "own" THEN "half" ELSE "failed", default, TRUE)
  /\ Keep(default)
  /\ UNCHANGED <<references, default, past, lostVars, loaded, pc, source, user, foreign>>

(* Fault: an Impl that is given a factory does not reference it.           *)
MemberReplacedUnheld(s) ==
  /\ call.holder = s /\ call.kind \in {"given", "kept"}
  /\ Returns("member", NoCall)
  /\ SetStream(s, "made", call.given, FALSE)
  /\ Keep(default)
  /\ lost' = lost + 1
  /\ Lose(default)
  /\ UNCHANGED <<references, default, past, loaded, pc, source, user, foreign>>

(* Assigning the second Impl forgets the address and the reference of the  *)
(* first; it owes a reference itself only if it has been given no factory. *)
MemberReplaced(s) ==
  /\ call.holder = s /\ call.kind \in {"given", "kept"}
  /\ Returns("member", NoCall)
  /\ SetStream(s, IF call.kind = "kept" THEN "kept" ELSE "made", call.given, FALSE)
  /\ refs' = [f \in Factories |-> refs[f] + (IF f = default THEN 1 ELSE 0)
                                          + (IF f = call.given THEN 1 ELSE 0)]
  /\ lost' = lost + 1
  /\ Lose(default)
  /\ UNCHANGED <<references, default, past, loaded, pc, source, user, foreign>>

ImplReplaces(s) ==
  /\ call.holder = s
  /\ Returns("impl", NoCall)
  /\ SetStream(s, "made", default, TRUE)
  /\ Keep(default)
  /\ lost' = lost + 1
  /\ Lose(stream[s].factory)
  /\ UNCHANGED <<references, default, past, loaded, pc, source, user, foreign>>

(* ~Impl, when V8 collects the object; Create's has a reference for ever.  *)
FinalizeStream(s) ==
  /\ call = NoCall
  /\ stream[s].state \in {"made", "failed"}
  /\ SetStream(s, "gone", Null, FALSE)
  /\ Drop(stream[s].factory, 1, stream[s].release)
  /\ UNCHANGED <<lostVars, loaded, pc, source, user, call, foreign>>

Stream(s) ==
  \/ GetUserMedia(s) \/ MediaBegun(s) \/ NewStream(s)
  \/ MemberOnly(s) \/ MemberReplaced(s) \/ ImplReplaces(s)
  \/ FinalizeStream(s)

Next ==
  \/ Load \/ Capabilities \/ CreateTrack \/ TakeMember
  \/ \E p \in Pcs : PeerConnection(p)
  \/ \E v \in Sources : Source(v)
  \/ \E u \in Users : User(u)
  \/ \E s \in Streams : Stream(s)

Spec == Init /\ [][Next]_vars

----------------------------------------------------------------------------
(* What the count promises                                                 *)

PcStates == {"new", "open", "closed", "failed", "gone"}
StreamStates == {"new", "half", "made", "kept", "failed", "gone"}
SourceStates == {"new", "making", "live", "gone"}

TypeOK ==
  /\ references \in Nat /\ lost \in Nat
  /\ default \in Factories \cup {Null}
  /\ past \subseteq Factories
  /\ refs \in [Factories -> Nat] /\ lostRefs \in [Factories -> Nat]
  /\ loaded \in 0..2
  /\ call \in [op : Ops, kind : Kinds, holder : Holders \cup {Null},
               given : Factories \cup {Null}]
  /\ pc \in [Pcs -> [state : PcStates, factory : Factories \cup {Null}]]
  /\ stream \in [Streams -> [state : StreamStates, factory : Factories \cup {Null},
                            release : BOOLEAN]]
  /\ source \in [Sources -> SourceStates]
  /\ user \in [Users -> Factories \cup {Null}]
  /\ foreign \in BOOLEAN

(* Those who will call Release once more.                                  *)
Owing ==
  {p \in Pcs : pc[p].factory # Null} \cup {s \in Streams : stream[s].release}
  \cup {v \in Sources : source[v] = "live"}

(* Every Release has its GetOrCreateDefault: _references is what has been  *)
(* forgotten, one for each that will still release, and one for the call   *)
(* under way.  So it is never negative, as Release asserts, whoever calls  *)
(* Release from whatever thread.                                           *)
ReleasesCovered ==
  references = lost + Cardinality(Owing) + (IF call.op \in Takers THEN 1 ELSE 0)

(* The factory's object has a reference for _default, one for each that    *)
(* keeps its address, and those that were forgotten.                       *)
AddressesHeld ==
  \A f \in Factories :
    refs[f] = (IF f = default THEN 1 ELSE 0) + lostRefs[f]
              + Cardinality({s \in Streams : stream[s].factory = f})
              + Cardinality({u \in Users : user[u] = f})

(* Nobody uses a factory that is gone or one that is not the default: what *)
(* the second half of GetOrCreateDefault reads is the factory the first    *)
(* half counted, and every address kept is that of the one factory.        *)
Addresses == Held \cup {call.given} \cup {stream[s].factory : s \in Streams}
OneFactory ==
  /\ Addresses \subseteq {default, Null}
  /\ call.op \in Takers => default # Null

(* The factory is let go of by no other thread than JavaScript's: there    *)
(* alone may its object be unreferenced.                                   *)
NeverForeign == ~foreign

(* Types, one factory, and no thread but JavaScript's that lets go of it.  *)
FactoryInv == TypeOK /\ OneFactory /\ NeverForeign

(* peer_connection_factory.h: "Call {@link Release} when done".            *)
EverybodyReleases == lost = 0
=============================================================================
