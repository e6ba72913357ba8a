-------------------------- MODULE Transport_proofs --------------------------
(***************************************************************************)
(* For any number of signals: listeners of an RTCDtlsTransport are never   *)
(* behind and hear each change once, in order, as those of an              *)
(* RTCSctpTransport do; and no wrapper misses the end of its transport.    *)
(***************************************************************************)
EXTENDS Transport, TLAPS

(* Which thread may be where: the wrappers of one kind of connection only. *)
PlaceInv ==
  /\ kind = "media" => /\ worker \notin {"sctpDispatch", "sctpStop", "sctpLoopStop"}
                       /\ js \notin {"sctpCheck", "sctpHandler"}
  /\ kind = "data" => /\ worker \in {"idle", "sctpDispatch", "sctpStop", "sctpLoopStop"}
                      /\ js \in {"start", "sctpCheck", "idle", "sctpHandler", "closing"}
                      /\ ~DtlsLoop!Waiting /\ ~IceLoop!Waiting

(* The RTCDtlsTransport observes until the callback for the closed state,  *)
(* its copy is libwebrtc's as long as it does and from then on, and the    *)
(* two loops stop inside that callback, the ICE transport's first.         *)
DtlsInv ==
  kind = "media" =>
    /\ Made /\ worker \in {"idle", "iceGathering", "iceDispatch"} =>
         /\ registered <=> dtls # "closed"
         /\ dStopped <=> dtls = "closed"
    /\ Made => dState = dtls
    /\ ~Made => ~registered /\ dState = "new" /\ ~dStopped
    /\ worker = "dtlsDispatch" => Made /\ registered /\ ~dStopped
    /\ worker = "dtlsStop" => Made /\ registered /\ ~dStopped /\ dtls = "closed"
    /\ worker = "dtlsLoopStop" => Made /\ ~registered /\ iStopped /\ dtls = "closed"
    /\ dStopped => iStopped

(* The RTCSctpTransport observes from the constructor until the closed     *)
(* state; its constructor and the callback may both stop it.               *)
SctpInv ==
  kind = "data" =>
    /\ js = "start" => ~registered /\ ~sBox.stopped /\ worker = "idle"
    /\ js # "start" /\ sctp # "closed" => registered
    /\ sBox.stopped => sctp = "closed" /\ ~registered
    /\ worker \in {"sctpStop", "sctpLoopStop"} => sctp = "closed"
    /\ worker = "sctpLoopStop" => ~registered
    /\ Made /\ sctp = "closed" /\ worker = "idle" => sBox.stopped /\ ~registered

(* Nothing is announced before the copy of the state shows it.             *)
AgeInv ==
  /\ \A i \in 1 .. Len(dSent) : Age(dSent[i]) <= Age(dState)
  /\ \A i \in 1 .. Len(dReceived) : Age(dReceived[i]) <= Age(dState)
  /\ js = "dtlsHandler" => Len(dReceived) > 0

EndInv == PlaceInv /\ DtlsInv /\ SctpInv

(* What q announces got older with each event and has got as far as s; if  *)
(* coming, s itself is not yet announced.  r is what has been taken of q.  *)
Announced(q, s, coming) ==
  /\ \A i, j \in 1 .. Len(q) : i < j => Age(q[i]) < Age(q[j])
  /\ \A i \in 1 .. Len(q) : Age(q[i]) < Age(s) \/ (~coming /\ Age(q[i]) = Age(s))
Begins(r, q) == Len(r) <= Len(q) /\ \A i \in 1 .. Len(r) : r[i] = q[i]
HeardInv ==
  /\ Announced(dSent, dtls, worker = "dtlsDispatch") /\ Begins(dReceived, dSent)
  /\ Announced(sBox.sent, sctp, worker = "sctpDispatch") /\ Begins(sBox.received, sBox.sent)

----------------------------------------------------------------------------
(* The steps of a loop keep what it holds.                                 *)
LEMMA BoxSteps ==
  ASSUME NEW S, NEW b \in BoxType(S), NEW x \in S
  PROVE  /\ NewBox \in BoxType(S)
         /\ Put(b, x) \in BoxType(S) /\ Put(b, x).stopped = b.stopped
         /\ Handled(b) \in BoxType(S) /\ Handled(b).stopped = b.stopped
         /\ Stopped(b) \in BoxType(S) /\ Stopped(b).stopped
         /\ Noticed(b) \in BoxType(S) /\ Noticed(b).stopped = b.stopped
         /\ Closed(b) \in BoxType(S) /\ Closed(b).stopped = b.stopped
<1> USE DEF BoxType
<1>1. Append(b.sent, x) \in Seq(S)
  OBVIOUS
<1>2. NewBox \in BoxType(S)
  BY DEF NewBox
<1>3. Put(b, x) \in BoxType(S) /\ Put(b, x).stopped = b.stopped
  BY <1>1 DEF Put
<1>4. Handled(b) \in BoxType(S) /\ Handled(b).stopped = b.stopped
  BY DEF Handled
<1>5. Stopped(b) \in BoxType(S) /\ Stopped(b).stopped
  <2>1. (b.noticed \/ b.busy) \in BOOLEAN
    OBVIOUS
  <2> QED BY <2>1 DEF Stopped
<1>6. Noticed(b) \in BoxType(S) /\ Noticed(b).stopped = b.stopped
  BY DEF Noticed
<1>7. Closed(b) \in BoxType(S) /\ Closed(b).stopped = b.stopped
  BY DEF Closed
<1> QED BY <1>2, <1>3, <1>4, <1>5, <1>6, <1>7

(* A mailbox that hands out an event stays one, stopped or not as it was.  *)
LEMMA BoxTakes ==
  ASSUME NEW S, NEW b \in BoxType(S), MayTake(b)
  PROVE  Take(b) \in BoxType(S) /\ Take(b).stopped = b.stopped
<1>1. Len(b.received) + 1 \in 1 .. Len(b.sent)
  BY DEF BoxType, MayTake, Waiting
<1>2. b.sent[Len(b.received) + 1] \in S
  BY <1>1 DEF BoxType
<1>3. Append(b.received, b.sent[Len(b.received) + 1]) \in Seq(S)
  BY <1>2 DEF BoxType
<1> QED BY <1>3 DEF BoxType, Take

----------------------------------------------------------------------------
(* Types, part by part.                                                    *)
LEMMA PlaceStep == TypeOK /\ [Next]_vars => PlaceOK'
<1> SUFFICES ASSUME TypeOK, [Next]_vars PROVE PlaceOK'
  OBVIOUS
<1> USE DEF TypeOK, PlaceOK, DtlsStates, IceStates, jingleVars, dataVars, mediaVars
<1>1. CASE DtlsChange
  BY <1>1 DEF DtlsChange, OnStateChange, DtlsAfter
<1>2. CASE DtlsDispatch
  BY <1>2 DEF DtlsDispatch
<1>3. CASE DtlsStop
  BY <1>3 DEF DtlsStop
<1>4. CASE DtlsLoopStop
  BY <1>4 DEF DtlsLoopStop
<1>5. ASSUME NEW s \in IceStates, IceSignal(s) PROVE PlaceOK'
  BY <1>5, MaxSignalsAssumption DEF IceSignal
<1>6. CASE IceDispatch
  BY <1>6 DEF IceDispatch
<1>7. CASE InternalGone
  BY <1>7 DEF InternalGone
<1>8. CASE SctpChange
  BY <1>8 DEF SctpChange, DtlsAfter
<1>9. CASE SctpDispatch
  BY <1>9 DEF SctpDispatch
<1>10. CASE SctpUnregister
  BY <1>10 DEF SctpUnregister
<1>11. CASE SctpLoopStop
  BY <1>11 DEF SctpLoopStop
<1>12. CASE IceConstruct
  BY <1>12 DEF IceConstruct
<1>13. CASE DtlsConstruct
  BY <1>13 DEF DtlsConstruct
<1>14. CASE DtlsReceive
  BY <1>14 DEF DtlsReceive
<1>15. CASE DtlsDone
  BY <1>15 DEF DtlsDone
<1>16. CASE DtlsLoopClose
  BY <1>16 DEF DtlsLoopClose
<1>17. CASE IceReceive
  BY <1>17 DEF IceReceive
<1>18. CASE IceDone
  BY <1>18 DEF IceDone
<1>19. CASE IceLoopClose
  BY <1>19 DEF IceLoopClose
<1>20. CASE SctpConstruct
  BY <1>20 DEF SctpConstruct
<1>21. CASE SctpCheck
  BY <1>21 DEF SctpCheck
<1>22. CASE SctpReceive
  BY <1>22 DEF SctpReceive
<1>23. CASE SctpDone
  BY <1>23 DEF SctpDone
<1>24. CASE SctpLoopClose
  BY <1>24 DEF SctpLoopClose
<1>25. CASE PcClose
  BY <1>25 DEF PcClose
<1>26. CASE PcCloseReturns
  BY <1>26 DEF PcCloseReturns
<1>27. CASE UNCHANGED vars
  BY <1>27 DEF vars
<1> QED BY <1>1, <1>2, <1>3, <1>4, <1>5, <1>6, <1>7, <1>8, <1>9, <1>10, <1>11, <1>12, <1>13,
         <1>14, <1>15, <1>16, <1>17, <1>18, <1>19, <1>20, <1>21, <1>22, <1>23, <1>24, <1>25,
         <1>26, <1>27 DEF Next, Worker, JavaScript

(* Each action keeps what the wrappers have copied of their transports.    *)
LEMMA CopyStep == TypeOK /\ [Next]_vars => CopyOK'
<1> SUFFICES ASSUME TypeOK, [Next]_vars PROVE CopyOK'
  OBVIOUS
<1> USE DEF TypeOK, PlaceOK, CopyOK, DtlsStates, IceStates, jingleVars, dataVars, mediaVars
<1>1. CASE DtlsChange
  BY <1>1 DEF DtlsChange, OnStateChange, DtlsAfter
<1>2. CASE DtlsDispatch
  BY <1>2 DEF DtlsDispatch
<1>3. CASE DtlsStop
  BY <1>3 DEF DtlsStop, OnRTCDtlsTransportStopped
<1>4. CASE DtlsLoopStop
  BY <1>4 DEF DtlsLoopStop
<1>5. ASSUME NEW s \in IceStates, IceSignal(s) PROVE CopyOK'
  BY <1>5, MaxSignalsAssumption DEF IceSignal
<1>6. CASE IceDispatch
  BY <1>6 DEF IceDispatch
<1>7. CASE InternalGone
  BY <1>7 DEF InternalGone
<1>8. CASE SctpChange
  BY <1>8 DEF SctpChange
<1>9. CASE SctpDispatch
  BY <1>9 DEF SctpDispatch
<1>10. CASE SctpUnregister
  BY <1>10 DEF SctpUnregister
<1>11. CASE SctpLoopStop
  BY <1>11 DEF SctpLoopStop
<1>12. CASE IceConstruct
  BY <1>12 DEF IceConstruct
<1>13. CASE DtlsConstruct
  BY <1>13 DEF DtlsConstruct, OnRTCDtlsTransportStopped
<1>14. CASE DtlsReceive
  BY <1>14 DEF DtlsReceive
<1>15. CASE DtlsDone
  BY <1>15 DEF DtlsDone
<1>16. CASE DtlsLoopClose
  BY <1>16 DEF DtlsLoopClose
<1>17. CASE IceReceive
  BY <1>17 DEF IceReceive
<1>18. CASE IceDone
  BY <1>18 DEF IceDone
<1>19. CASE IceLoopClose
  BY <1>19 DEF IceLoopClose
<1>20. CASE SctpConstruct
  BY <1>20 DEF SctpConstruct
<1>21. CASE SctpCheck
  BY <1>21 DEF SctpCheck
<1>22. CASE SctpReceive
  BY <1>22 DEF SctpReceive
<1>23. CASE SctpDone
  BY <1>23 DEF SctpDone
<1>24. CASE SctpLoopClose
  BY <1>24 DEF SctpLoopClose
<1>25. CASE PcClose
  BY <1>25 DEF PcClose
<1>26. CASE PcCloseReturns
  BY <1>26 DEF PcCloseReturns
<1>27. CASE UNCHANGED vars
  BY <1>27 DEF vars
<1> QED BY <1>1, <1>2, <1>3, <1>4, <1>5, <1>6, <1>7, <1>8, <1>9, <1>10, <1>11, <1>12, <1>13,
         <1>14, <1>15, <1>16, <1>17, <1>18, <1>19, <1>20, <1>21, <1>22, <1>23, <1>24, <1>25,
         <1>26, <1>27 DEF Next, Worker, JavaScript

(* Each action keeps the loop of the DTLS transport.                       *)
LEMMA DtlsLoopStep == TypeOK /\ [Next]_vars => DtlsLoopOK'
<1> SUFFICES ASSUME TypeOK, [Next]_vars PROVE DtlsLoopOK'
  OBVIOUS
<1> USE DEF TypeOK, PlaceOK, DtlsLoopOK, DtlsStates
<1>1. CASE UNCHANGED dLoopVars
  BY <1>1 DEF dLoopVars
<1>2. CASE DtlsDispatch
  BY <1>2 DEF DtlsDispatch, DtlsLoop!Send, dLoopVars
<1>3. CASE DtlsLoopStop
  BY <1>3 DEF DtlsLoopStop, DtlsLoop!Stop, dLoopVars
<1>4. CASE DtlsConstruct
  BY <1>4 DEF DtlsConstruct, DtlsLoop!Stop, dLoopVars
<1>5. CASE DtlsReceive
  BY <1>5 DEF DtlsReceive, DtlsLoop!Receive, DtlsLoop!Waiting, DtlsLoop!NextItem, dLoopVars
<1>6. CASE DtlsDone
  BY <1>6 DEF DtlsDone, DtlsLoop!Done, dLoopVars
<1>7. CASE DtlsLoopClose
  BY <1>7 DEF DtlsLoopClose, DtlsLoop!Notice, DtlsLoop!Close, dLoopVars
<1>8. UNCHANGED dLoopVars \/ DtlsDispatch \/ DtlsLoopStop \/ DtlsConstruct \/ DtlsReceive \/
      DtlsDone \/ DtlsLoopClose
  BY DEF Next, Worker, JavaScript, vars, dataVars, mediaVars, DtlsChange, OnStateChange,
         DtlsStop, IceSignal, IceDispatch, InternalGone, SctpChange, SctpDispatch,
         SctpUnregister, SctpLoopStop, IceConstruct, IceReceive, IceDone, IceLoopClose,
         SctpConstruct, SctpCheck, SctpReceive, SctpDone, SctpLoopClose, PcClose,
         PcCloseReturns
<1> QED BY <1>1, <1>2, <1>3, <1>4, <1>5, <1>6, <1>7, <1>8

(* Each action keeps the loop of the ICE transport.                        *)
LEMMA IceLoopStep == TypeOK /\ [Next]_vars => IceLoopOK'
<1> SUFFICES ASSUME TypeOK, [Next]_vars PROVE IceLoopOK'
  OBVIOUS
<1> USE DEF TypeOK, PlaceOK, IceLoopOK, IceStates
<1>1. CASE UNCHANGED iLoopVars
  BY <1>1 DEF iLoopVars
<1>2. CASE DtlsStop
  BY <1>2 DEF DtlsStop, OnRTCDtlsTransportStopped, IceLoop!Stop, iLoopVars
<1>3. CASE IceDispatch
  BY <1>3 DEF IceDispatch, IceLoop!Send, iLoopVars
<1>4. CASE IceConstruct
  BY <1>4 DEF IceConstruct, IceLoop!Stop, iLoopVars
<1>5. CASE DtlsConstruct
  BY <1>5 DEF DtlsConstruct, OnRTCDtlsTransportStopped, IceLoop!Stop, iLoopVars
<1>6. CASE IceReceive
  BY <1>6 DEF IceReceive, IceLoop!Receive, iLoopVars
<1>7. CASE IceDone
  BY <1>7 DEF IceDone, IceLoop!Done, iLoopVars
<1>8. CASE IceLoopClose
  BY <1>8 DEF IceLoopClose, IceLoop!Notice, IceLoop!Close, iLoopVars
<1>9. UNCHANGED iLoopVars \/ DtlsStop \/ IceDispatch \/ IceConstruct \/ DtlsConstruct \/
      IceReceive \/ IceDone \/ IceLoopClose
  BY DEF Next, Worker, JavaScript, vars, dataVars, mediaVars, DtlsChange, DtlsDispatch,
         DtlsLoopStop, IceSignal, InternalGone, SctpChange, SctpDispatch, SctpUnregister,
         SctpLoopStop, DtlsReceive, DtlsDone, DtlsLoopClose, SctpConstruct, SctpCheck,
         SctpReceive, SctpDone, SctpLoopClose, PcClose, PcCloseReturns
<1> QED BY <1>1, <1>2, <1>3, <1>4, <1>5, <1>6, <1>7, <1>8, <1>9

(* Each action keeps the loop of the SCTP transport.                       *)
LEMMA SctpLoopStep == TypeOK /\ [Next]_vars => sBox' \in BoxType(DtlsStates)
<1> SUFFICES ASSUME TypeOK, [Next]_vars PROVE sBox' \in BoxType(DtlsStates)
  OBVIOUS
<1> USE DEF TypeOK, PlaceOK
<1>1. CASE UNCHANGED sBox
  BY <1>1
<1>2. CASE SctpDispatch
  BY <1>2, BoxSteps DEF SctpDispatch
<1>3. CASE SctpLoopStop
  BY <1>3, BoxSteps DEF SctpLoopStop
<1>4. CASE SctpCheck
  BY <1>4, BoxSteps DEF SctpCheck
<1>5. CASE SctpReceive
  BY <1>5, BoxTakes DEF SctpReceive
<1>6. CASE SctpDone
  BY <1>6, BoxSteps DEF SctpDone
<1>7. CASE SctpLoopClose
  BY <1>7, BoxSteps DEF SctpLoopClose
<1>8. UNCHANGED sBox \/ SctpDispatch \/ SctpLoopStop \/ SctpCheck \/ SctpReceive \/ SctpDone
      \/ SctpLoopClose
  BY DEF Next, Worker, JavaScript, vars, dataVars, mediaVars, DtlsChange, DtlsDispatch,
         DtlsStop, DtlsLoopStop, IceSignal, IceDispatch, InternalGone, SctpChange,
         SctpUnregister, IceConstruct, DtlsConstruct, DtlsReceive, DtlsDone, DtlsLoopClose,
         IceReceive, IceDone, IceLoopClose, SctpConstruct, PcClose, PcCloseReturns
<1> QED BY <1>1, <1>2, <1>3, <1>4, <1>5, <1>6, <1>7, <1>8

(* Each action keeps the types.                                            *)
LEMMA TypeStep == TypeOK /\ [Next]_vars => TypeOK'
<1> HAVE TypeOK /\ [Next]_vars
<1> QED BY PlaceStep, CopyStep, DtlsLoopStep, IceLoopStep, SctpLoopStep DEF TypeOK

(* The threads stay where their kind of connection has them.               *)
LEMMA PlaceInvStep == TypeOK /\ EndInv /\ [Next]_vars => PlaceInv'
<1> SUFFICES ASSUME TypeOK, EndInv, [Next]_vars PROVE PlaceInv'
  OBVIOUS
<1> USE DEF TypeOK, PlaceOK, CopyOK, EndInv, PlaceInv, DtlsLoop!Waiting, IceLoop!Waiting,
           jingleVars, dataVars, mediaVars, dLoopVars, iLoopVars
<1>1. CASE DtlsChange
  BY <1>1 DEF DtlsChange, OnStateChange, DtlsAfter
<1>2. CASE DtlsDispatch
  BY <1>2 DEF DtlsDispatch, DtlsLoop!Send
<1>3. CASE DtlsStop
  BY <1>3 DEF DtlsStop, OnRTCDtlsTransportStopped, IceLoop!Stop
<1>4. CASE DtlsLoopStop
  BY <1>4 DEF DtlsLoopStop, DtlsLoop!Stop
<1>5. ASSUME NEW s \in IceStates, IceSignal(s) PROVE PlaceInv'
  BY <1>5 DEF IceSignal
<1>6. CASE IceDispatch
  BY <1>6 DEF IceDispatch, IceLoop!Send
<1>7. CASE InternalGone
  BY <1>7 DEF InternalGone
<1>8. CASE SctpChange
  BY <1>8 DEF SctpChange, DtlsAfter
<1>9. CASE SctpDispatch
  BY <1>9 DEF SctpDispatch
<1>10. CASE SctpUnregister
  BY <1>10 DEF SctpUnregister
<1>11. CASE SctpLoopStop
  BY <1>11 DEF SctpLoopStop
<1>12. CASE IceConstruct
  BY <1>12 DEF IceConstruct, IceLoop!Stop
<1>13. CASE DtlsConstruct
  BY <1>13 DEF DtlsConstruct, OnRTCDtlsTransportStopped, IceLoop!Stop, DtlsLoop!Stop
<1>14. CASE DtlsReceive
  BY <1>14 DEF DtlsReceive, DtlsLoop!Receive
<1>15. CASE DtlsDone
  BY <1>15 DEF DtlsDone, DtlsLoop!Done
<1>16. CASE DtlsLoopClose
  BY <1>16 DEF DtlsLoopClose, DtlsLoop!Notice, DtlsLoop!Close
<1>17. CASE IceReceive
  BY <1>17 DEF IceReceive, IceLoop!Receive
<1>18. CASE IceDone
  BY <1>18 DEF IceDone, IceLoop!Done
<1>19. CASE IceLoopClose
  BY <1>19 DEF IceLoopClose, IceLoop!Notice, IceLoop!Close
<1>20. CASE SctpConstruct
  BY <1>20 DEF SctpConstruct
<1>21. CASE SctpCheck
  BY <1>21 DEF SctpCheck
<1>22. CASE SctpReceive
  BY <1>22 DEF SctpReceive
<1>23. CASE SctpDone
  BY <1>23 DEF SctpDone
<1>24. CASE SctpLoopClose
  BY <1>24 DEF SctpLoopClose
<1>25. CASE PcClose
  BY <1>25 DEF PcClose
<1>26. CASE PcCloseReturns
  BY <1>26 DEF PcCloseReturns, IsClosed
<1>27. CASE UNCHANGED vars
  BY <1>27 DEF vars
<1> QED BY <1>1, <1>2, <1>3, <1>4, <1>5, <1>6, <1>7, <1>8, <1>9, <1>10, <1>11, <1>12, <1>13,
         <1>14, <1>15, <1>16, <1>17, <1>18, <1>19, <1>20, <1>21, <1>22, <1>23, <1>24, <1>25,
         <1>26, <1>27 DEF Next, Worker, JavaScript

(* The RTCDtlsTransport.                                                   *)
LEMMA DtlsInvStep == TypeOK /\ EndInv /\ [Next]_vars => DtlsInv'
<1> SUFFICES ASSUME TypeOK, EndInv, [Next]_vars PROVE DtlsInv'
  OBVIOUS
<1> USE DEF TypeOK, PlaceOK, CopyOK, EndInv, PlaceInv, DtlsInv, Made,
           jingleVars, dataVars, mediaVars, dLoopVars, iLoopVars
<1>1. CASE DtlsChange
  BY <1>1 DEF DtlsChange, OnStateChange, DtlsAfter
<1>2. CASE DtlsDispatch
  BY <1>2 DEF DtlsDispatch, DtlsLoop!Send
<1>3. CASE DtlsStop
  BY <1>3 DEF DtlsStop, OnRTCDtlsTransportStopped, IceLoop!Stop
<1>4. CASE DtlsLoopStop
  BY <1>4 DEF DtlsLoopStop, DtlsLoop!Stop
<1>5. ASSUME NEW s \in IceStates, IceSignal(s) PROVE DtlsInv'
  BY <1>5 DEF IceSignal
<1>6. CASE IceDispatch
  BY <1>6 DEF IceDispatch, IceLoop!Send
<1>7. CASE InternalGone
  BY <1>7 DEF InternalGone
<1>8. CASE SctpChange
  BY <1>8 DEF SctpChange, DtlsAfter
<1>9. CASE SctpDispatch
  BY <1>9 DEF SctpDispatch
<1>10. CASE SctpUnregister
  BY <1>10 DEF SctpUnregister
<1>11. CASE SctpLoopStop
  BY <1>11 DEF SctpLoopStop
<1>12. CASE IceConstruct
  BY <1>12 DEF IceConstruct, IceLoop!Stop
<1>13. CASE DtlsConstruct
  BY <1>13 DEF DtlsConstruct, OnRTCDtlsTransportStopped, IceLoop!Stop, DtlsLoop!Stop
<1>14. CASE DtlsReceive
  BY <1>14 DEF DtlsReceive, DtlsLoop!Receive
<1>15. CASE DtlsDone
  BY <1>15 DEF DtlsDone, DtlsLoop!Done
<1>16. CASE DtlsLoopClose
  BY <1>16 DEF DtlsLoopClose, DtlsLoop!Notice, DtlsLoop!Close
<1>17. CASE IceReceive
  BY <1>17 DEF IceReceive, IceLoop!Receive
<1>18. CASE IceDone
  BY <1>18 DEF IceDone, IceLoop!Done
<1>19. CASE IceLoopClose
  BY <1>19 DEF IceLoopClose, IceLoop!Notice, IceLoop!Close
<1>20. CASE SctpConstruct
  BY <1>20 DEF SctpConstruct
<1>21. CASE SctpCheck
  BY <1>21 DEF SctpCheck
<1>22. CASE SctpReceive
  BY <1>22 DEF SctpReceive
<1>23. CASE SctpDone
  BY <1>23 DEF SctpDone
<1>24. CASE SctpLoopClose
  BY <1>24 DEF SctpLoopClose
<1>25. CASE PcClose
  BY <1>25 DEF PcClose
<1>26. CASE PcCloseReturns
  BY <1>26 DEF PcCloseReturns, IsClosed
<1>27. CASE UNCHANGED vars
  BY <1>27 DEF vars
<1> QED BY <1>1, <1>2, <1>3, <1>4, <1>5, <1>6, <1>7, <1>8, <1>9, <1>10, <1>11, <1>12, <1>13,
         <1>14, <1>15, <1>16, <1>17, <1>18, <1>19, <1>20, <1>21, <1>22, <1>23, <1>24, <1>25,
         <1>26, <1>27 DEF Next, Worker, JavaScript

(* The RTCSctpTransport.                                                   *)
LEMMA SctpInvStep == TypeOK /\ EndInv /\ [Next]_vars => SctpInv'
<1> SUFFICES ASSUME TypeOK, EndInv, [Next]_vars PROVE SctpInv'
  OBVIOUS
<1> USE DEF TypeOK, PlaceOK, CopyOK, EndInv, PlaceInv, SctpInv, Made,
           jingleVars, dataVars, mediaVars, dLoopVars, iLoopVars
<1>1. CASE DtlsChange
  BY <1>1 DEF DtlsChange, OnStateChange, DtlsAfter
<1>2. CASE DtlsDispatch
  BY <1>2 DEF DtlsDispatch, DtlsLoop!Send
<1>3. CASE DtlsStop
  BY <1>3 DEF DtlsStop, OnRTCDtlsTransportStopped, IceLoop!Stop
<1>4. CASE DtlsLoopStop
  BY <1>4 DEF DtlsLoopStop, DtlsLoop!Stop
<1>5. ASSUME NEW s \in IceStates, IceSignal(s) PROVE SctpInv'
  BY <1>5 DEF IceSignal
<1>6. CASE IceDispatch
  BY <1>6 DEF IceDispatch, IceLoop!Send
<1>7. CASE InternalGone
  BY <1>7 DEF InternalGone
<1>8. CASE SctpChange
  BY <1>8 DEF SctpChange, DtlsAfter
<1>9. CASE SctpDispatch
  <2>1. sBox'.stopped = sBox.stopped
    BY <1>9, BoxSteps DEF SctpDispatch
  <2> QED BY <1>9, <2>1 DEF SctpDispatch
<1>10. CASE SctpUnregister
  BY <1>10 DEF SctpUnregister
<1>11. CASE SctpLoopStop
  BY <1>11, BoxSteps DEF SctpLoopStop
<1>12. CASE IceConstruct
  BY <1>12 DEF IceConstruct, IceLoop!Stop
<1>13. CASE DtlsConstruct
  BY <1>13 DEF DtlsConstruct, OnRTCDtlsTransportStopped, IceLoop!Stop, DtlsLoop!Stop
<1>14. CASE DtlsReceive
  BY <1>14 DEF DtlsReceive, DtlsLoop!Receive
<1>15. CASE DtlsDone
  BY <1>15 DEF DtlsDone, DtlsLoop!Done
<1>16. CASE DtlsLoopClose
  BY <1>16 DEF DtlsLoopClose, DtlsLoop!Notice, DtlsLoop!Close
<1>17. CASE IceReceive
  BY <1>17 DEF IceReceive, IceLoop!Receive
<1>18. CASE IceDone
  BY <1>18 DEF IceDone, IceLoop!Done
<1>19. CASE IceLoopClose
  BY <1>19 DEF IceLoopClose, IceLoop!Notice, IceLoop!Close
<1>20. CASE SctpConstruct
  BY <1>20 DEF SctpConstruct
<1>21. CASE SctpCheck
  BY <1>21, BoxSteps DEF SctpCheck
<1>22. CASE SctpReceive
  BY <1>22, BoxTakes DEF SctpReceive
<1>23. CASE SctpDone
  BY <1>23, BoxSteps DEF SctpDone
<1>24. CASE SctpLoopClose
  BY <1>24, BoxSteps DEF SctpLoopClose
<1>25. CASE PcClose
  BY <1>25 DEF PcClose
<1>26. CASE PcCloseReturns
  BY <1>26 DEF PcCloseReturns, IsClosed
<1>27. CASE UNCHANGED vars
  BY <1>27 DEF vars
<1> QED BY <1>1, <1>2, <1>3, <1>4, <1>5, <1>6, <1>7, <1>8, <1>9, <1>10, <1>11, <1>12, <1>13,
         <1>14, <1>15, <1>16, <1>17, <1>18, <1>19, <1>20, <1>21, <1>22, <1>23, <1>24, <1>25,
         <1>26, <1>27 DEF Next, Worker, JavaScript

----------------------------------------------------------------------------
(* Events and the state of which they tell.                                *)
LEMMA AgeRange == \A s : Age(s) \in 0 .. 2
  BY DEF Age

(* The copy of the state only grows older.                                 *)
LEMMA AgeGrows ==
  ASSUME TypeOK, EndInv, [Next]_vars
  PROVE  Age(dState) <= Age(dState')
<1>1. CASE dState' = dState
  BY <1>1, AgeRange
<1>2. CASE DtlsChange
  <2>1. CASE registered
    <3>1. dState = dtls /\ dState' = dtls'
      BY <1>2, <2>1 DEF DtlsChange, OnStateChange, EndInv, DtlsInv, Made
    <3>2. dtls' \in DtlsAfter(dtls)
      BY <1>2 DEF DtlsChange, OnStateChange
    <3> QED BY <3>1, <3>2 DEF DtlsAfter, Age
  <2>2. CASE ~registered
    BY <1>1, <1>2, <2>2 DEF DtlsChange, OnStateChange
  <2> QED BY <2>1, <2>2
<1>3. CASE DtlsConstruct
  <2>1. dState = "new"
    BY <1>3 DEF DtlsConstruct, EndInv, PlaceInv, DtlsInv, Made, TypeOK, PlaceOK
  <2> QED BY <2>1, AgeRange DEF Age
<1>4. dState' = dState \/ DtlsChange \/ DtlsConstruct
  BY DEF Next, Worker, JavaScript, vars, jingleVars, dataVars, mediaVars,
         DtlsDispatch, DtlsStop, DtlsLoopStop, IceSignal, IceDispatch, InternalGone,
         SctpChange, SctpDispatch, SctpUnregister, SctpLoopStop, IceConstruct,
         DtlsReceive, DtlsDone, DtlsLoopClose, IceReceive, IceDone, IceLoopClose,
         SctpConstruct, SctpCheck, SctpReceive, SctpDone, SctpLoopClose, PcClose,
         PcCloseReturns
<1> QED BY <1>1, <1>2, <1>3, <1>4

(* What a listener reads is never older than the event it reads it in.     *)
LEMMA AgeStep == TypeOK /\ EndInv /\ AgeInv /\ [Next]_vars => AgeInv'
<1> SUFFICES ASSUME TypeOK, EndInv, AgeInv, [Next]_vars PROVE AgeInv'
  OBVIOUS
<1>0. /\ Age(dState) \in Nat /\ Age(dState') \in Nat
      /\ Age(dState) <= Age(dState')
      /\ dSent \in Seq(DtlsStates) /\ dReceived \in Seq(DtlsStates)
  BY AgeRange, AgeGrows DEF TypeOK, DtlsLoopOK
<1>1. CASE DtlsDispatch
  <2>1. /\ dSent' = Append(dSent, dtls) /\ dReceived' = dReceived
        /\ dState' = dState /\ js' = js
    BY <1>1 DEF DtlsDispatch, DtlsLoop!Send
  <2>2. dtls = dState
    BY <1>1 DEF DtlsDispatch, EndInv, PlaceInv, DtlsInv, TypeOK, PlaceOK
  <2>3. \A i \in 1 .. Len(dSent') : Age(dSent'[i]) <= Age(dState')
    <3> TAKE i \in 1 .. Len(dSent')
    <3>1. CASE i \in 1 .. Len(dSent)
      BY <3>1, <2>1, <1>0 DEF AgeInv
    <3>2. CASE i = Len(dSent) + 1
      BY <3>2, <2>1, <2>2, <1>0
    <3> QED BY <3>1, <3>2, <2>1, <1>0
  <2> QED BY <2>1, <2>3 DEF AgeInv
<1>2. CASE DtlsReceive
  <2> DEFINE next == Len(dReceived) + 1
  <2>1. /\ dSent' = dSent /\ dReceived' = Append(dReceived, dSent[next])
        /\ dState' = dState /\ next \in 1 .. Len(dSent)
    BY <1>2, <1>0 DEF DtlsReceive, DtlsLoop!Receive, DtlsLoop!Waiting, DtlsLoop!NextItem
  <2>2. \A i \in 1 .. Len(dReceived') : Age(dReceived'[i]) <= Age(dState')
    <3> TAKE i \in 1 .. Len(dReceived')
    <3>1. CASE i \in 1 .. Len(dReceived)
      BY <3>1, <2>1, <1>0 DEF AgeInv
    <3>2. CASE i = next
      BY <3>2, <2>1, <1>0 DEF AgeInv
    <3> QED BY <3>1, <3>2, <2>1, <1>0
  <2>3. Len(dReceived') > 0
    BY <2>1, <1>0
  <2> QED BY <2>1, <2>2, <2>3 DEF AgeInv
<1>3. CASE UNCHANGED <<dSent, dReceived>> /\ (js' = "dtlsHandler" => js = "dtlsHandler")
  <2>1. \A s : Age(s) \in Nat
    BY AgeRange
  <2> QED BY <1>3, <1>0, <2>1 DEF AgeInv
<1>4. \/ UNCHANGED <<dSent, dReceived>> /\ (js' = "dtlsHandler" => js = "dtlsHandler")
      \/ DtlsDispatch \/ DtlsReceive
  BY DEF Next, Worker, JavaScript, vars, jingleVars, dataVars, mediaVars, dLoopVars,
         DtlsChange, OnStateChange, DtlsStop, DtlsLoopStop, DtlsLoop!Stop, IceSignal,
         IceDispatch, InternalGone, SctpChange, SctpDispatch, SctpUnregister, SctpLoopStop,
         IceConstruct, DtlsConstruct, DtlsDone, DtlsLoop!Done, DtlsLoopClose,
         DtlsLoop!Notice, DtlsLoop!Close, IceReceive, IceDone, IceLoopClose,
         SctpConstruct, SctpCheck, SctpReceive, SctpDone, SctpLoopClose, PcClose,
         PcCloseReturns
<1> QED BY <1>1, <1>2, <1>3, <1>4

----------------------------------------------------------------------------
(* What has been announced, and taken.                                     *)
LEMMA AnnouncedMore ==
  ASSUME NEW q \in Seq(DtlsStates), NEW s \in DtlsStates, Announced(q, s, TRUE)
  PROVE  Announced(Append(q, s), s, FALSE)
<1> DEFINE more == Append(q, s)
<1>1. Len(more) = Len(q) + 1 /\ Len(q) \in Nat
  OBVIOUS
<1>2. \A i \in 1 .. Len(more) : \/ i \in 1 .. Len(q) /\ more[i] = q[i]
                                \/ i = Len(q) + 1 /\ more[i] = s
  BY <1>1
<1>3. \A i \in 1 .. Len(q) : Age(q[i]) < Age(s)
  BY DEF Announced
<1> HIDE DEF more
<1>4. ASSUME NEW i \in 1 .. Len(more), NEW j \in 1 .. Len(more), i < j
      PROVE  Age(more[i]) < Age(more[j])
  <2>1. i \in 1 .. Len(q) /\ more[i] = q[i]
    BY <1>1, <1>2, <1>4
  <2>2. CASE j \in 1 .. Len(q) /\ more[j] = q[j]
    BY <1>4, <2>1, <2>2 DEF Announced
  <2>3. CASE more[j] = s
    BY <1>3, <2>1, <2>3
  <2> QED BY <1>2, <2>2, <2>3
<1>5. \A i \in 1 .. Len(more) : Age(more[i]) < Age(s) \/ Age(more[i]) = Age(s)
  BY <1>2, <1>3
<1> QED BY <1>4, <1>5 DEF Announced, more

LEMMA AnnouncedOn ==
  ASSUME NEW q \in Seq(DtlsStates), NEW s, NEW t, NEW c \in BOOLEAN, Announced(q, s, FALSE),
         t \in DtlsAfter(s)
  PROVE  Announced(q, t, c)
<1>1. Age(s) < Age(t)
  BY DEF DtlsAfter, Age
<1>2. \A i \in 1 .. Len(q) : Age(q[i]) < Age(t)
  <2> TAKE i \in 1 .. Len(q)
  <2>1. Age(q[i]) < Age(s) \/ Age(q[i]) = Age(s)
    BY DEF Announced
  <2> QED BY <1>1, <2>1, AgeRange
<1> QED BY <1>2 DEF Announced

LEMMA BeginsOn ==
  ASSUME NEW r \in Seq(DtlsStates), NEW q \in Seq(DtlsStates), Begins(r, q), NEW s \in DtlsStates
  PROVE  /\ Begins(r, Append(q, s))
         /\ Len(r) < Len(q) => Begins(Append(r, q[Len(r) + 1]), q)
<1>1. Len(r) \in Nat /\ Len(q) \in Nat /\ Len(r) <= Len(q) /\ \A i \in 1 .. Len(r) : r[i] = q[i]
  BY DEF Begins
<1>2. Begins(r, Append(q, s))
  <2>1. Len(Append(q, s)) = Len(q) + 1 /\ \A i \in 1 .. Len(q) : Append(q, s)[i] = q[i]
    OBVIOUS
  <2> QED BY <1>1, <2>1 DEF Begins
<1>3. ASSUME Len(r) < Len(q) PROVE Begins(Append(r, q[Len(r) + 1]), q)
  <2> DEFINE more == Append(r, q[Len(r) + 1])
  <2>1. /\ Len(more) = Len(r) + 1
        /\ \A i \in 1 .. Len(more) : \/ i \in 1 .. Len(r) /\ more[i] = r[i]
                                     \/ i = Len(r) + 1 /\ more[i] = q[Len(r) + 1]
    OBVIOUS
  <2> HIDE DEF more
  <2>2. Len(more) <= Len(q) /\ \A i \in 1 .. Len(more) : more[i] = q[i]
    BY <1>1, <1>3, <2>1
  <2> QED BY <2>2 DEF Begins, more
<1> QED BY <1>2, <1>3

(* The two queues of a mailbox.                                            *)
LEMMA BoxQueues ==
  ASSUME NEW S, NEW b \in BoxType(S), NEW x
  PROVE  /\ b.sent \in Seq(S) /\ b.received \in Seq(S)
         /\ Put(b, x).sent = Append(b.sent, x) /\ Put(b, x).received = b.received
         /\ Take(b).sent = b.sent
         /\ Take(b).received = Append(b.received, b.sent[Len(b.received) + 1])
         /\ \A c \in {Handled(b), Stopped(b), Noticed(b), Closed(b)} :
              c.sent = b.sent /\ c.received = b.received
  BY DEF BoxType, Put, Take, Handled, Stopped, Noticed, Closed

(* Of the DTLS transport.                                                  *)
LEMMA DtlsHeardStep ==
  ASSUME TypeOK, HeardInv, [Next]_vars
  PROVE  (Announced(dSent, dtls, worker = "dtlsDispatch") /\ Begins(dReceived, dSent))'
<1>0. dSent \in Seq(DtlsStates) /\ dReceived \in Seq(DtlsStates) /\ dtls \in DtlsStates
  BY DEF TypeOK, DtlsLoopOK, PlaceOK
<1>1. CASE DtlsChange
  <2>1. worker = "idle" /\ dtls' \in DtlsAfter(dtls) /\ UNCHANGED <<dSent, dReceived>>
    BY <1>1 DEF DtlsChange, OnStateChange, dLoopVars
  <2>2. Announced(dSent, dtls, FALSE)
    BY <2>1 DEF HeardInv, Announced
  <2>3. Announced(dSent, dtls', worker' = "dtlsDispatch")
    BY <1>0, <2>1, <2>2, AnnouncedOn
  <2> QED BY <2>1, <2>3 DEF HeardInv
<1>2. CASE DtlsDispatch
  <2>1. /\ worker = "dtlsDispatch" /\ worker' \in {"dtlsStop", "idle"} /\ dtls' = dtls
        /\ dSent' = Append(dSent, dtls) /\ dReceived' = dReceived
    BY <1>2 DEF DtlsDispatch, DtlsLoop!Send, jingleVars
  <2>2. Announced(dSent, dtls, TRUE)
    BY <2>1 DEF HeardInv, Announced
  <2>3. Announced(dSent', dtls', FALSE) /\ worker' # "dtlsDispatch"
    BY <1>0, <2>1, <2>2, AnnouncedMore
  <2>4. Begins(dReceived', dSent')
    BY <1>0, <2>1, BeginsOn DEF HeardInv
  <2> QED BY <2>3, <2>4 DEF Announced
<1>3. CASE DtlsReceive
  <2>1. /\ UNCHANGED <<dSent, dtls, worker>> /\ Len(dReceived) < Len(dSent)
        /\ dReceived' = Append(dReceived, dSent[Len(dReceived) + 1])
    BY <1>3 DEF DtlsReceive, DtlsLoop!Receive, DtlsLoop!Waiting, DtlsLoop!NextItem, jingleVars
  <2>2. Begins(dReceived', dSent)
    BY <1>0, <2>1, BeginsOn DEF HeardInv
  <2> QED BY <2>1, <2>2 DEF HeardInv
<1>4. CASE /\ UNCHANGED <<dSent, dReceived, dtls>>
           /\ worker' = "dtlsDispatch" <=> worker = "dtlsDispatch"
  BY <1>4 DEF HeardInv, Announced
<1>5. \/ DtlsChange \/ DtlsDispatch \/ DtlsReceive
      \/ /\ UNCHANGED <<dSent, dReceived, dtls>>
         /\ worker' = "dtlsDispatch" <=> worker = "dtlsDispatch"
  BY DEF Next, Worker, JavaScript, vars, jingleVars, dataVars, mediaVars, dLoopVars,
         DtlsStop, DtlsLoopStop, DtlsLoop!Stop, IceSignal, IceDispatch, InternalGone,
         SctpChange, SctpDispatch, SctpUnregister, SctpLoopStop, IceConstruct, DtlsConstruct,
         DtlsDone, DtlsLoop!Done, DtlsLoopClose, DtlsLoop!Notice, DtlsLoop!Close, IceReceive,
         IceDone, IceLoopClose, SctpConstruct, SctpCheck, SctpReceive, SctpDone,
         SctpLoopClose, PcClose, PcCloseReturns
<1> QED BY <1>1, <1>2, <1>3, <1>4, <1>5

(* Of the SCTP transport.                                                  *)
LEMMA SctpHeardStep ==
  ASSUME TypeOK, HeardInv, [Next]_vars
  PROVE  (/\ Announced(sBox.sent, sctp, worker = "sctpDispatch")
          /\ Begins(sBox.received, sBox.sent))'
<1>0. /\ sBox \in BoxType(DtlsStates) /\ sctp \in DtlsStates
      /\ sBox.sent \in Seq(DtlsStates) /\ sBox.received \in Seq(DtlsStates)
  BY BoxQueues DEF TypeOK, PlaceOK
<1>1. CASE SctpChange
  <2>1. worker = "idle" /\ sctp' \in DtlsAfter(sctp) /\ sBox' = sBox
    BY <1>1 DEF SctpChange
  <2>2. Announced(sBox.sent, sctp, FALSE)
    BY <2>1 DEF HeardInv, Announced
  <2>3. Announced(sBox.sent, sctp', worker' = "sctpDispatch")
    BY <1>0, <2>1, <2>2, AnnouncedOn
  <2> QED BY <2>1, <2>3 DEF HeardInv
<1>2. CASE SctpDispatch
  <2>1. /\ worker = "sctpDispatch" /\ worker' \in {"sctpStop", "idle"} /\ sctp' = sctp
        /\ sBox' = Put(sBox, sctp)
    BY <1>2 DEF SctpDispatch
  <2>2. sBox'.sent = Append(sBox.sent, sctp) /\ sBox'.received = sBox.received
    BY <1>0, <2>1, BoxQueues
  <2>3. Announced(sBox.sent, sctp, TRUE)
    BY <2>1 DEF HeardInv, Announced
  <2>4. Announced(sBox'.sent, sctp', FALSE) /\ worker' # "sctpDispatch"
    BY <1>0, <2>1, <2>2, <2>3, AnnouncedMore
  <2>5. Begins(sBox'.received, sBox'.sent)
    BY <1>0, <2>2, BeginsOn DEF HeardInv
  <2> QED BY <2>4, <2>5 DEF Announced
<1>3. CASE SctpReceive
  <2>1. UNCHANGED <<sctp, worker>> /\ Len(sBox.received) < Len(sBox.sent) /\ sBox' = Take(sBox)
    BY <1>3 DEF SctpReceive, MayTake, Waiting
  <2>2. /\ sBox'.sent = sBox.sent
        /\ sBox'.received = Append(sBox.received, sBox.sent[Len(sBox.received) + 1])
    BY <1>0, <2>1, BoxQueues
  <2>3. Begins(sBox'.received, sBox'.sent)
    BY <1>0, <2>1, <2>2, BeginsOn DEF HeardInv
  <2> QED BY <2>1, <2>2, <2>3 DEF HeardInv
<1>4. CASE /\ sBox' \in {sBox, Handled(sBox), Stopped(sBox), Noticed(sBox), Closed(sBox)}
           /\ sctp' = sctp /\ (worker' = "sctpDispatch" <=> worker = "sctpDispatch")
  <2>1. sBox'.sent = sBox.sent /\ sBox'.received = sBox.received
    BY <1>0, <1>4, BoxQueues
  <2> QED BY <1>4, <2>1 DEF HeardInv, Announced
<1>5. \/ SctpChange \/ SctpDispatch \/ SctpReceive
      \/ /\ sBox' \in {sBox, Handled(sBox), Stopped(sBox), Noticed(sBox), Closed(sBox)}
         /\ sctp' = sctp /\ (worker' = "sctpDispatch" <=> worker = "sctpDispatch")
  BY DEF Next, Worker, JavaScript, vars, jingleVars, dataVars, mediaVars, DtlsChange,
         OnStateChange, DtlsDispatch, DtlsStop, DtlsLoopStop, IceSignal, IceDispatch,
         InternalGone, SctpUnregister, SctpLoopStop, IceConstruct, DtlsConstruct,
         DtlsReceive, DtlsDone, DtlsLoopClose, IceReceive, IceDone, IceLoopClose,
         SctpConstruct, SctpCheck, SctpDone, SctpLoopClose, PcClose, PcCloseReturns
<1> QED BY <1>1, <1>2, <1>3, <1>4, <1>5

(* So nothing is heard twice or before what came first.                    *)
LEMMA BeginsOlder ==
  ASSUME NEW r \in Seq(DtlsStates), NEW q, NEW s, NEW c, Announced(q, s, c), Begins(r, q),
         Len(q) \in Nat
  PROVE  Older(r)
<1> SUFFICES ASSUME NEW i \in 1 .. Len(r), NEW j \in 1 .. Len(r), i < j
             PROVE  Age(r[i]) < Age(r[j])
  BY DEF Older
<1>1. i \in 1 .. Len(q) /\ j \in 1 .. Len(q) /\ r[i] = q[i] /\ r[j] = q[j]
  BY DEF Begins
<1> QED BY <1>1 DEF Announced

----------------------------------------------------------------------------
InvT == TypeOK /\ EndInv /\ AgeInv /\ HeardInv

(* Initially everything is new, and nothing has been sent.                 *)
LEMMA InitInvT == Init => InvT
<1> SUFFICES ASSUME Init PROVE InvT
  OBVIOUS
<1>1. sBox \in BoxType(DtlsStates) /\ ~sBox.stopped
  BY DEF Init, NewBox, BoxType
<1>2. TypeOK
  <2>1. PlaceOK
    <3>1. internal \in BOOLEAN
      BY DEF Init
    <3>2. signals \in 0 .. MaxSignals
      BY MaxSignalsAssumption DEF Init
    <3> QED BY <3>1, <3>2 DEF Init, PlaceOK, DtlsStates, IceStates
  <2>2. CopyOK
    BY DEF Init, CopyOK, DtlsStates, IceStates
  <2>3. DtlsLoopOK
    <3>1. dSent \in Seq(DtlsStates) /\ dReceived \in Seq(DtlsStates)
      BY DEF Init, DtlsLoop!Init
    <3>2. {dBusy, dStopped, dNoticed, dClosed} \subseteq BOOLEAN
      BY Zenon DEF Init, DtlsLoop!Init
    <3> QED BY <3>1, <3>2 DEF DtlsLoopOK
  <2>4. IceLoopOK
    <3>1. iSent \in Seq(IceStates \cup {"gathering"})
      BY DEF Init, IceLoop!Init
    <3>2. {iBusy, iStopped, iNoticed, iClosed} \subseteq BOOLEAN
      BY Zenon DEF Init, IceLoop!Init
    <3> QED BY <3>1, <3>2 DEF IceLoopOK
  <2> QED BY <1>1, <2>1, <2>2, <2>3, <2>4 DEF TypeOK
<1>3. PlaceInv /\ DtlsInv
  BY DEF Init, PlaceInv, DtlsInv, Made, DtlsLoop!Init, IceLoop!Init,
         DtlsLoop!Waiting, IceLoop!Waiting
<1>4. SctpInv
  BY <1>1 DEF Init, SctpInv, Made
<1>5. AgeInv
  BY DEF Init, AgeInv, DtlsLoop!Init
<1>6. HeardInv
  <2>1. dSent = <<>> /\ dReceived = <<>> /\ sBox.sent = <<>> /\ sBox.received = <<>>
    BY DEF Init, DtlsLoop!Init, NewBox
  <2> QED BY <2>1 DEF HeardInv, Announced, Begins
<1> QED BY <1>2, <1>3, <1>4, <1>5, <1>6 DEF InvT, EndInv

(* The properties are among what has been kept.                            *)
LEMMA InvTImplies == InvT => TransportInv
<1> SUFFICES ASSUME InvT PROVE TransportInv
  OBVIOUS
<1> USE DEF InvT
<1>1. ListenersUpToDate
  <2> SUFFICES ASSUME js = "dtlsHandler"
               PROVE  Age(dState) >= Age(dReceived[Len(dReceived)])
    BY DEF ListenersUpToDate
  <2>1. Len(dReceived) \in 1 .. Len(dReceived)
    BY DEF AgeInv, TypeOK, DtlsLoopOK
  <2> QED BY <2>1, AgeRange DEF AgeInv
<1>2. EndNotMissed
  BY DEF EndNotMissed, EndInv, PlaceInv, DtlsInv, SctpInv, Made, IsClosed, TypeOK, PlaceOK,
         CopyOK, BoxType
<1>3. HeardOnceInOrder
  <2>1. /\ dReceived \in Seq(DtlsStates) /\ Len(dSent) \in Nat
        /\ sBox.received \in Seq(DtlsStates) /\ Len(sBox.sent) \in Nat
    BY BoxQueues DEF TypeOK, DtlsLoopOK
  <2>2. Older(dReceived)
    BY <2>1, BeginsOlder DEF HeardInv
  <2>3. Older(sBox.received)
    BY <2>1, BeginsOlder DEF HeardInv
  <2> QED BY <2>2, <2>3 DEF HeardOnceInOrder
<1> QED BY <1>1, <1>2, <1>3 DEF TransportInv

(* Whatever the order of libwebrtc's callbacks, the constructors and the   *)
(* loops: a listener of "statechange" finds the state of which it was told *)
(* or a newer one, hears each change once and in order, and a transport    *)
(* that closed before, while or after it was wrapped has its wrapper's     *)
(* loop stopped.                                                           *)
THEOREM TransportCorrect == SafeSpec => []TransportInv
<1>1. InvT /\ [Next]_vars => InvT'
  BY TypeStep, PlaceInvStep, DtlsInvStep, SctpInvStep, AgeStep, DtlsHeardStep, SctpHeardStep
     DEF InvT, EndInv, HeardInv
<1> QED BY InitInvT, InvTImplies, <1>1, PTL DEF SafeSpec
=============================================================================
