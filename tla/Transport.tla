----------------------------- MODULE Transport -----------------------------
(***************************************************************************)
(* One RTCDtlsTransport and its RTCIceTransport, or one RTCSctpTransport   *)
(* (src/src/interfaces/rtc_dtls_transport.cc, rtc_ice_transport.cc,        *)
(* rtc_sctp_transport.cc).  The program has those of a peer connection     *)
(* with "media", or the one of a peer connection with "data".              *)
(*                                                                         *)
(* libwebrtc calls both back on the worker thread.  A callback copies the  *)
(* state under a mutex, dispatches a "statechange" event to the object's   *)
(* own event loop, and, when the transport is closed, stops that loop.     *)
(* The end of the DTLS transport is the end of the ICE transport as well.  *)
(* A constructor reads the first state in a call that the worker thread    *)
(* executes while JavaScript waits for it; that of the RTCSctpTransport    *)
(* only registers there, and looks at the state afterwards.                *)
(*                                                                         *)
(* Each event loop is the Mailbox that EventLoop implements.               *)
(***************************************************************************)
EXTENDS Mailboxes

CONSTANT MaxSignals   \* bound: how many signals the ICE transport emits

ASSUME MaxSignalsAssumption == MaxSignals \in Nat

VARIABLES
  (* libwebrtc *)
  kind,        \* what the peer connection has: "media" or "data"
  sctp,        \* the state of the SCTP transport
  dtls,        \* the state of the DTLS transport
  ice,         \* the state of the internal ICE transport
  internal,    \* IceTransportInterface::internal() is not null
  signals,     \* how many signals it has emitted
  worker,      \* where the worker thread is
  (* the wrappers, which are constructed together *)
  js,          \* where the JavaScript thread is
  registered,  \* the RTCDtlsTransport or RTCSctpTransport is the observer
  connected,   \* the RTCIceTransport's slots are connected
  dState,      \* RTCDtlsTransport::_state
  iState,      \* RTCIceTransport::_state
  pcClosed,    \* RTCPeerConnection::Close has returned
  (* their event loops; sBox is the RTCSctpTransport's *)
  sBox,
  dSent, dReceived, dBusy, dStopped, dNoticed, dClosed,
  iSent, iReceived, iBusy, iStopped, iNoticed, iClosed

jingleVars == <<dtls, ice, internal, signals>>
dLoopVars == <<dSent, dReceived, dBusy, dStopped, dNoticed, dClosed>>
iLoopVars == <<iSent, iReceived, iBusy, iStopped, iNoticed, iClosed>>
dataVars == <<kind, sctp, sBox>>
mediaVars == <<kind, jingleVars, connected, dState, iState, dLoopVars, iLoopVars>>
vars == <<jingleVars, dataVars, worker, js, registered, connected, dState, iState,
          pcClosed, dLoopVars, iLoopVars>>

DtlsStates == {"new", "connected", "closed"}        \* and those of the SCTP transport
IceStates == {"new", "connected", "disconnected"}   \* of the internal transport
DtlsAfter(s) == IF s = "new" THEN {"connected", "closed"}
                ELSE IF s = "connected" THEN {"closed"} ELSE {}

(* An event: the state that it announces.                                  *)
DtlsLoop == INSTANCE Mailbox WITH
  Items <- DtlsStates, sent <- dSent, received <- dReceived, busy <- dBusy,
  stopped <- dStopped, noticed <- dNoticed, closed <- dClosed
IceLoop == INSTANCE Mailbox WITH
  Items <- IceStates \cup {"gathering"}, sent <- iSent, received <- iReceived,
  busy <- iBusy, stopped <- iStopped, noticed <- iNoticed, closed <- iClosed

Init ==
  /\ kind \in {"media", "data"}
  /\ dtls = "new" /\ ice = "new" /\ internal = TRUE /\ signals = 0
  /\ sctp = "new"
  /\ worker = "idle"
  /\ js = "start"
  /\ registered = FALSE /\ connected = FALSE
  /\ dState = "new" /\ iState = "new"
  /\ pcClosed = FALSE
  /\ DtlsLoop!Init /\ IceLoop!Init /\ sBox = NewBox

----------------------------------------------------------------------------
(* The worker thread                                                       *)

(* Fault: the state is left to the getter, which does not ask libwebrtc.   *)
OnStateChangeStale ==
  /\ dtls' \in DtlsAfter(dtls)
  /\ worker' = IF registered THEN "dtlsDispatch" ELSE "idle"
  /\ UNCHANGED <<dState, dLoopVars>>

(* RTCDtlsTransport::OnStateChange, if the wrapper is registered: first it *)
(* copies the state.                                                       *)
OnStateChange ==
  /\ dtls' \in DtlsAfter(dtls)
  /\ dState' = IF registered THEN dtls' ELSE dState
  /\ worker' = IF registered THEN "dtlsDispatch" ELSE "idle"
  /\ UNCHANGED dLoopVars

DtlsChange ==
  /\ kind = "media" /\ worker = "idle" /\ ~pcClosed
  /\ OnStateChange
  /\ UNCHANGED <<ice, internal, signals, dataVars, js, registered, connected, iState, pcClosed,
                 iLoopVars>>

DtlsDispatch ==
  /\ worker = "dtlsDispatch"
  /\ DtlsLoop!Send(dtls)
  /\ worker' = IF dtls = "closed" THEN "dtlsStop" ELSE "idle"
  /\ UNCHANGED <<jingleVars, dataVars, js, registered, connected, dState, iState, pcClosed,
                 iLoopVars>>

(* Fault: the ICE transport is not told.                                   *)
IceStoppedSilently == UNCHANGED <<iState, iLoopVars>>

(* RTCIceTransport::OnRTCDtlsTransportStopped dispatches no event.         *)
OnRTCDtlsTransportStopped ==
  /\ iState' = "closed"
  /\ IceLoop!Stop

(* Fault: Stop announces the end, as the callback has done.                *)
DtlsStopTells ==
  /\ worker = "dtlsStop"
  /\ registered' = FALSE
  /\ OnRTCDtlsTransportStopped
  /\ DtlsLoop!Send(dtls)
  /\ worker' = "dtlsLoopStop"
  /\ UNCHANGED <<jingleVars, dataVars, js, connected, dState, pcClosed>>

(* RTCDtlsTransport::Stop, up to the end of its own loop.                  *)
DtlsStop ==
  /\ worker = "dtlsStop"
  /\ registered' = FALSE
  /\ OnRTCDtlsTransportStopped
  /\ worker' = "dtlsLoopStop"
  /\ UNCHANGED <<jingleVars, dataVars, js, connected, dState, pcClosed, dLoopVars>>

DtlsLoopStop ==
  /\ worker = "dtlsLoopStop"
  /\ DtlsLoop!Stop
  /\ worker' = "idle"
  /\ UNCHANGED <<jingleVars, dataVars, js, registered, connected, dState, iState, pcClosed,
                 iLoopVars>>

(* RTCIceTransport::OnStateChanged and OnGatheringStateChanged: both copy  *)
(* the whole state.  While the internal transport lives it is not closed,  *)
(* so that OnStateChanged itself never stops the loop.  Nothing            *)
(* disconnects the slots.                                                  *)
IceSignal(s) ==
  /\ kind = "media" /\ worker = "idle" /\ internal /\ signals < MaxSignals
  /\ signals' = signals + 1
  /\ ice' = s
  /\ IF connected
     THEN iState' = s /\ worker' = IF s = ice THEN "iceGathering" ELSE "iceDispatch"
     ELSE UNCHANGED <<iState, worker>>
  /\ UNCHANGED <<dtls, internal, dataVars, js, registered, connected, dState, pcClosed,
                 dLoopVars, iLoopVars>>

(* Fault: the event is moved from before it is dispatched.                 *)
IceDispatchMovedFrom ==
  /\ worker \in {"iceGathering", "iceDispatch"}
  /\ IceLoop!Send("moved")
  /\ worker' = "idle"
  /\ UNCHANGED <<jingleVars, dataVars, js, registered, connected, dState, iState, pcClosed,
                 dLoopVars>>

IceDispatch ==
  /\ worker \in {"iceGathering", "iceDispatch"}
  /\ IceLoop!Send(IF worker = "iceGathering" THEN "gathering" ELSE ice)
  /\ worker' = "idle"
  /\ UNCHANGED <<jingleVars, dataVars, js, registered, connected, dState, iState, pcClosed,
                 dLoopVars>>

(* libwebrtc lets go of the internal transport and signals nothing.        *)
InternalGone ==
  /\ kind = "media" /\ worker = "idle" /\ internal
  /\ internal' = FALSE
  /\ UNCHANGED <<dtls, ice, signals, dataVars, worker, js, registered, connected, dState, iState,
                 pcClosed, dLoopVars, iLoopVars>>

(* RTCSctpTransport::OnStateChange, if the wrapper is registered.  The     *)
(* wrapper keeps no copy of the state.                                     *)
SctpChange ==
  /\ kind = "data" /\ worker = "idle" /\ ~pcClosed
  /\ sctp' \in DtlsAfter(sctp)
  /\ worker' = IF registered THEN "sctpDispatch" ELSE "idle"
  /\ UNCHANGED <<mediaVars, js, registered, pcClosed, sBox>>

SctpDispatch ==
  /\ worker = "sctpDispatch"
  /\ sBox' = Put(sBox, sctp)
  /\ worker' = IF sctp = "closed" THEN "sctpStop" ELSE "idle"
  /\ UNCHANGED <<mediaVars, sctp, js, registered, pcClosed>>

(* RTCSctpTransport::Stop: the observer is gone before the loop is told.   *)
SctpUnregister ==
  /\ worker = "sctpStop"
  /\ registered' = FALSE
  /\ worker' = "sctpLoopStop"
  /\ UNCHANGED <<mediaVars, sctp, sBox, js, pcClosed>>

SctpLoopStop ==
  /\ worker = "sctpLoopStop"
  /\ sBox' = Stopped(sBox)
  /\ worker' = "idle"
  /\ UNCHANGED <<mediaVars, sctp, js, registered, pcClosed>>

Worker ==
  \/ DtlsChange \/ DtlsDispatch \/ DtlsStop \/ DtlsLoopStop
  \/ \E s \in IceStates : IceSignal(s)
  \/ IceDispatch \/ InternalGone
  \/ SctpChange \/ SctpDispatch \/ SctpUnregister \/ SctpLoopStop

----------------------------------------------------------------------------
(* The JavaScript thread                                                   *)

(* The RTCDtlsTransport constructor makes the RTCIceTransport first.       *)
IceConstruct ==
  /\ kind = "media" /\ js = "start" /\ ~pcClosed
  /\ worker = "idle"
  /\ connected' = internal
  /\ IF internal
     THEN iState' = ice /\ UNCHANGED iLoopVars
     ELSE iState' = "closed" /\ IceLoop!Stop
  /\ js' = "dtlsConstruct"
  /\ UNCHANGED <<jingleVars, dataVars, worker, registered, dState, pcClosed, dLoopVars>>

(* Fault: a transport that is closed already is observed like another.     *)
DtlsConstructOpen ==
  /\ js = "dtlsConstruct"
  /\ worker = "idle"
  /\ dState' = dtls
  /\ registered' = TRUE
  /\ js' = "idle"
  /\ UNCHANGED <<jingleVars, dataVars, worker, connected, iState, pcClosed, dLoopVars, iLoopVars>>

DtlsConstruct ==
  /\ js = "dtlsConstruct"
  /\ worker = "idle"
  /\ dState' = dtls
  /\ registered' = (dtls # "closed")
  /\ IF dtls = "closed"
     THEN OnRTCDtlsTransportStopped /\ DtlsLoop!Stop
     ELSE UNCHANGED <<iState, dLoopVars, iLoopVars>>
  /\ js' = "idle"
  /\ UNCHANGED <<jingleVars, dataVars, worker, connected, pcClosed>>

(* The RTCSctpTransport constructor, which GetSctp calls.                  *)
SctpConstruct ==
  /\ kind = "data" /\ js = "start" /\ ~pcClosed
  /\ worker = "idle"
  /\ registered' = TRUE
  /\ js' = "sctpCheck"
  /\ UNCHANGED <<mediaVars, sctp, sBox, worker, pcClosed>>

(* Fault: only a transport that changes from now on is stopped.            *)
SctpCheckNever ==
  /\ js = "sctpCheck"
  /\ js' = "idle"
  /\ UNCHANGED <<mediaVars, sctp, sBox, registered, worker, pcClosed>>

(* It looks at the state while the worker thread goes on, perhaps with the *)
(* callback for the same state.                                            *)
SctpCheck ==
  /\ js = "sctpCheck"
  /\ IF sctp = "closed"
     THEN registered' = FALSE /\ sBox' = Stopped(sBox)
     ELSE UNCHANGED <<registered, sBox>>
  /\ js' = "idle"
  /\ UNCHANGED <<mediaVars, sctp, worker, pcClosed>>

SctpReceive ==
  /\ js = "idle" /\ MayTake(sBox) /\ kind = "data"
  /\ sBox' = Take(sBox)
  /\ js' = "sctpHandler"
  /\ UNCHANGED <<mediaVars, sctp, worker, registered, pcClosed>>

SctpDone ==
  /\ js = "sctpHandler"
  /\ sBox' = Handled(sBox)
  /\ js' = "idle"
  /\ UNCHANGED <<mediaVars, sctp, worker, registered, pcClosed>>

SctpLoopClose ==
  /\ js = "idle"
  /\ \/ MayNotice(sBox) /\ sBox' = Noticed(sBox)
     \/ MayClose(sBox) /\ sBox' = Closed(sBox)
  /\ UNCHANGED <<mediaVars, sctp, worker, js, registered, pcClosed>>

DtlsReceive ==
  /\ js = "idle"
  /\ DtlsLoop!Receive
  /\ js' = "dtlsHandler"
  /\ UNCHANGED <<jingleVars, dataVars, worker, registered, connected, dState, iState, pcClosed,
                 iLoopVars>>

DtlsDone ==
  /\ js = "dtlsHandler"
  /\ DtlsLoop!Done
  /\ js' = "idle"
  /\ UNCHANGED <<jingleVars, dataVars, worker, registered, connected, dState, iState, pcClosed,
                 iLoopVars>>

IceReceive ==
  /\ js = "idle"
  /\ IceLoop!Receive
  /\ js' = "iceHandler"
  /\ UNCHANGED <<jingleVars, dataVars, worker, registered, connected, dState, iState, pcClosed,
                 dLoopVars>>

IceDone ==
  /\ js = "iceHandler"
  /\ IceLoop!Done
  /\ js' = "idle"
  /\ UNCHANGED <<jingleVars, dataVars, worker, registered, connected, dState, iState, pcClosed,
                 dLoopVars>>

DtlsLoopClose ==
  /\ js = "idle"
  /\ DtlsLoop!Notice \/ DtlsLoop!Close
  /\ UNCHANGED <<jingleVars, dataVars, worker, js, registered, connected, dState, iState, pcClosed,
                 iLoopVars>>

IceLoopClose ==
  /\ js = "idle"
  /\ IceLoop!Notice \/ IceLoop!Close
  /\ UNCHANGED <<jingleVars, dataVars, worker, js, registered, connected, dState, iState, pcClosed,
                 dLoopVars>>

(* RTCPeerConnection::Close returns when libwebrtc has closed the          *)
(* transports, on the worker thread.                                       *)
PcClose ==
  /\ js = "idle"
  /\ js' = "closing"
  /\ ~pcClosed
  /\ UNCHANGED <<jingleVars, dataVars, worker, registered, connected, dState, iState, pcClosed,
                 dLoopVars, iLoopVars>>

IsClosed == IF kind = "media" THEN dtls = "closed" ELSE sctp = "closed"
PcCloseReturns ==
  /\ js = "closing"
  /\ worker = "idle" /\ IsClosed
  /\ js' = "idle"
  /\ pcClosed' = TRUE
  /\ UNCHANGED <<jingleVars, dataVars, worker, registered, connected, dState, iState,
                 dLoopVars, iLoopVars>>

JavaScript ==
  \/ IceConstruct \/ DtlsConstruct
  \/ DtlsReceive \/ DtlsDone \/ DtlsLoopClose
  \/ IceReceive \/ IceDone \/ IceLoopClose
  \/ SctpConstruct \/ SctpCheck
  \/ SctpReceive \/ SctpDone \/ SctpLoopClose
  \/ PcClose \/ PcCloseReturns

Next == Worker \/ JavaScript

(* The worker thread finishes a callback that it has begun, libwebrtc      *)
(* closes what it is told to close, and libuv comes back to each loop.     *)
Fairness ==
  /\ WF_vars(DtlsDispatch \/ DtlsStop \/ DtlsLoopStop \/ IceDispatch)
  /\ WF_vars(SctpDispatch \/ SctpUnregister \/ SctpLoopStop)
  /\ WF_vars(js = "closing" /\ dtls' = "closed" /\ DtlsChange)
  /\ WF_vars(js = "closing" /\ sctp' = "closed" /\ SctpChange)
  /\ WF_vars(DtlsConstruct \/ DtlsDone \/ IceDone \/ PcCloseReturns)
  /\ WF_vars(SctpCheck \/ SctpDone)
  /\ SF_vars(SctpReceive \/ SctpLoopClose)
  /\ SF_vars(DtlsReceive \/ DtlsLoopClose)
  /\ SF_vars(IceReceive \/ IceLoopClose)

SafeSpec == Init /\ [][Next]_vars
Spec == SafeSpec /\ Fairness

----------------------------------------------------------------------------
(* What the transports promise                                             *)

PlaceOK ==
  /\ kind \in {"media", "data"}
  /\ worker \in {"idle", "dtlsDispatch", "dtlsStop", "dtlsLoopStop", "iceGathering",
                 "iceDispatch", "sctpDispatch", "sctpStop", "sctpLoopStop"}
  /\ js \in {"start", "dtlsConstruct", "idle", "dtlsHandler", "iceHandler", "closing",
             "sctpCheck", "sctpHandler"}
  /\ sctp \in DtlsStates /\ dtls \in DtlsStates /\ ice \in IceStates
  /\ internal \in BOOLEAN /\ signals \in 0..MaxSignals
CopyOK ==
  /\ registered \in BOOLEAN /\ connected \in BOOLEAN /\ pcClosed \in BOOLEAN
  /\ dState \in DtlsStates /\ iState \in IceStates \cup {"closed"}
DtlsLoopOK ==
  /\ dSent \in Seq(DtlsStates) /\ dReceived \in Seq(DtlsStates)
  /\ {dBusy, dStopped, dNoticed, dClosed} \subseteq BOOLEAN
IceLoopOK ==
  /\ iSent \in Seq(IceStates \cup {"gathering"})
  /\ {iBusy, iStopped, iNoticed, iClosed} \subseteq BOOLEAN
TypeOK == PlaceOK /\ CopyOK /\ DtlsLoopOK /\ IceLoopOK /\ sBox \in BoxType(DtlsStates)

Made == js \notin {"start", "dtlsConstruct", "sctpCheck"}
Age(s) == IF s = "new" THEN 0 ELSE IF s = "connected" THEN 1 ELSE 2

(* A listener of "statechange" that reads state sees the state of which    *)
(* the event tells, or a newer one, however late it runs.                  *)
ListenersUpToDate ==
  js = "dtlsHandler" => Age(dState) >= Age(dReceived[Len(dReceived)])

(* Between two callbacks, an RTCDtlsTransport whose loop still runs shows  *)
(* libwebrtc's state and will hear of its end, as an RTCSctpTransport will:*)
(* a transport that closed before, while or after it was wrapped is not    *)
(* missed.                                                                 *)
EndNotMissed ==
  Made /\ worker = "idle" =>
    /\ registered <=> ~IsClosed
    /\ kind = "media" => /\ dState = dtls
                         /\ dStopped <=> dtls = "closed"
                         /\ dStopped => iStopped
    /\ kind = "data" => (sBox.stopped <=> sctp = "closed")

(* Every change of state is heard once at most, and in the order of the    *)
(* changes, although the constructor, the callback and the getter copy the *)
(* state on two threads.                                                   *)
Older(s) == \A i, j \in DOMAIN s : i < j => Age(s[i]) < Age(s[j])
HeardOnceInOrder == Older(dReceived) /\ Older(sBox.received)

(* Types, no listener that is behind its event or hears one again, and no  *)
(* end unnoticed.                                                          *)
TransportInv == TypeOK /\ ListenersUpToDate /\ HeardOnceInOrder /\ EndNotMissed

(* The loops of closed transports end, and with them their references.     *)
LoopsEnd ==
  (IsClosed /\ Made) ~> (IF kind = "media" THEN dClosed /\ iClosed ELSE sBox.closed)

----------------------------------------------------------------------------
(* What the repository says of the transports and the code does not do     *)

(* lib/nodejs/test/rtcdtlstransport.test.ts: when the transport has been   *)
(* closed, the state of its ICE transport is "closed".                     *)
IceStaysClosed == kind = "media" /\ Made /\ dtls = "closed" /\ worker = "idle" => iState = "closed"

Announces(s, what) == \E i \in DOMAIN s : s[i] = what

(* CHANGELOG.md: RTCDtlsTransport supports the "statechange" event: the    *)
(* end of a transport that is observed is announced.                       *)
DtlsEndAnnounced == Announces(dSent, "closed") ~> Announces(dReceived, "closed")

(* CHANGELOG.md: RTCIceTransport supports the "statechange" event: so is   *)
(* the end of an ICE transport that the program may have seen open.        *)
IceEndAnnounced ==
  [](kind = "media" /\ Made /\ iState # "closed" =>
       [](iState = "closed" => <>Announces(iReceived, "closed")))
============================================================================
