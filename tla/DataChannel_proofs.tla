------------------------- MODULE DataChannel_proofs -------------------------
(***************************************************************************)
(* For any number of messages: the close event of a data channel is the    *)
(* last event of it and comes after the channel has been cut off, only     *)
(* events of the hand-over from one observer to the other change places,   *)
(* and readyState is never behind the events and never goes back.          *)
(***************************************************************************)
EXTENDS DataChannel, FiniteSetTheorems, TLAPS

(* How many callbacks libwebrtc has made in which state: after the last    *)
(* one there are no more, so that each has a number.                       *)
CallsInv ==
  /\ calls \in 0 .. MaxCalls
  /\ jState = "connecting" => calls = 0
  /\ jState = "open" => calls <= MaxMessages + 1
  /\ jState = "closing" \/ sig # "idle" => calls <= MaxMessages + 2
  /\ sig # "idle" => jState = "closed"

(* The constructor registers once, and from the close callback on nobody   *)
(* observes.  What CleanupInternals has done is done for good.             *)
RegisteredInv ==
  /\ js = "ctorRegister" \/ ~wrapped => observer = "early"
  /\ js = "ctorRegister" => wrapped
  /\ sig # "idle" => observer = "none"
  /\ sig \in {"null", "dispatch"} => cached # "unset"
  /\ sig = "dispatch" => ~ptr

CutOff == jState = "closed" /\ observer = "none" /\ ~ptr /\ sig = "idle" /\ cached # "unset"
LastOfWrapper(e) == e.type = "closed" /\ e.by = "wrapper"

(* The queue of the early observer holds its own events; a close event of  *)
(* the wrapper is queued when the channel is cut off.                      *)
CutOffInv ==
  /\ \A i \in 1 .. Len(early) : early[i].by = "early"
  /\ \A i \in 1 .. Len(sent) : LastOfWrapper(sent[i]) => CutOff
  /\ \A i \in 1 .. Len(received) : LastOfWrapper(received[i]) => CutOff

(* Once a close event has been taken, the loop is being stopped by its     *)
(* handler, or has noticed that it is stopped.                             *)
Heard == \E i \in 1 .. Len(received) : received[i].type = "closed"
LastInv ==
  /\ \A i \in 1 .. Len(received) : received[i].type = "closed" => i = Len(received)
  /\ Heard => (noticed \/ busy) /\ (stopped => noticed)

(* Numbers only grow: each queue of the early observer's events is sorted, *)
(* what it still holds comes after what it has passed on, and an event of  *)
(* the wrapper is the newest one when it is queued.                        *)
Numbered ==
  /\ \A i \in 1 .. Len(early) : early[i].n <= calls
  /\ \A i \in 1 .. Len(sent) : sent[i].n <= calls
EarlySorted == \A i, j \in 1 .. Len(early) : i < j => early[i].n < early[j].n
EarlyLater ==
  \A i \in 1 .. Len(sent), j \in 1 .. Len(early) :
    sent[i].by = "early" => sent[i].n < early[j].n
SentOrder ==
  \A i, j \in 1 .. Len(sent) :
    i < j /\ sent[i].n > sent[j].n => sent[i].by = "wrapper" /\ sent[j].by = "early"
OrderInv == Numbered /\ EarlySorted /\ EarlyLater /\ SentOrder

(* The loop takes what it was sent.                                        *)
PrefixInv ==
  /\ Len(received) <= Len(sent)
  /\ \A i \in 1 .. Len(received) : received[i] = sent[i]

(* An event tells of a state that libwebrtc's channel has reached, and who *)
(* has lost the pointer has lost it to a channel that is closed.           *)
RankInv ==
  /\ \A i \in 1 .. Len(early) : Rank(early[i].type) <= Rank(jState)
  /\ \A i \in 1 .. Len(sent) : Rank(sent[i].type) <= Rank(jState)
NullInv == wrapped /\ js # "ctorRegister" /\ ~ptr => jState = "closed"

ControlInv == TypeOK /\ CallsInv /\ RegisteredInv
----------------------------------------------------------------------------
(* The steps, as the queues see them.                                      *)
Stored ==
  /\ observer = "early" /\ sig = "idle"
  /\ calls' = calls + 1
  /\ \E t \in EventTypes : /\ early' = Append(early, Event(t, "early"))
                          /\ Rank(t) <= Rank(jState')
  /\ UNCHANGED <<sent, received>>
Queued ==
  /\ calls' = calls + 1
  /\ \E t \in EventTypes :
       /\ sent' = Append(sent, Event(t, "wrapper"))
       /\ t = "closed" => CutOff'
       /\ Rank(t) <= Rank(jState')
  /\ observer # "early"
  /\ UNCHANGED <<early, received>>
Requeued ==
  /\ early # <<>>
  /\ early' = Tail(early) /\ sent' = Append(sent, Head(early))
  /\ UNCHANGED <<calls, received>>
Taken ==
  /\ Len(received) < Len(sent)
  /\ received' = Append(received, sent[Len(received) + 1])
  /\ noticed' = stopped /\ busy' /\ stopped' = stopped /\ ~noticed /\ ~busy
  /\ UNCHANGED <<calls, early, sent>>
Resting == UNCHANGED <<calls, early, sent, received>>

PlaceOK ==
  /\ origin \in {"local", "remote"} /\ jState \in States
  /\ observer \in {"early", "wrapper", "none"} /\ sig \in {"idle", "cache", "null", "dispatch"}
  /\ js \in JSPoints /\ cached \in {"unset", "zero", "final"}
FlagsOK ==
  {wrapped, ptr, pcRef, pcClosed, crashed, busy, stopped, noticed, closed} \subseteq BOOLEAN
QueuesOK ==
  /\ early \in Seq(AllEvents) /\ sent \in Seq(AllEvents) /\ received \in Seq(AllEvents)

(* Its parts, which the following lemmas keep, give the type invariant.    *)
LEMMA TypeParts == PlaceOK /\ FlagsOK /\ QueuesOK /\ CallsInv => TypeOK
  BY Zenon DEF TypeOK, PlaceOK, FlagsOK, QueuesOK, CallsInv

(* There are no other steps.                                               *)
LEMMA Shapes ==
  PlaceOK /\ CallsInv /\ RegisteredInv /\ [Next]_vars
    => Stored \/ Queued \/ Requeued \/ Taken \/ Resting
<1> SUFFICES ASSUME PlaceOK, CallsInv, RegisteredInv, [Next]_vars
             PROVE  Stored \/ Queued \/ Requeued \/ Taken \/ Resting
  OBVIOUS
<1> USE DEF PlaceOK, CallsInv, RegisteredInv, Stored, Queued, Requeued, Taken, Resting,
         EventTypes, JingleFree, Loop!Waiting, Loop!NextItem, CutOff, Rank, jingleVars,
         wrapperVars, loopVars
<1>1. CASE JingleOpen
  BY <1>1 DEF JingleOpen, OnEvent, Loop!Send
<1>2. CASE JingleMessage
  BY <1>2 DEF JingleMessage, OnEvent, Loop!Send
<1>3. CASE JingleClosing
  BY <1>3 DEF JingleClosing, OnEvent, Loop!Send
<1>4. CASE JingleClosed
  BY <1>4 DEF JingleClosed, OnEvent, Loop!Send
<1>5. CASE CleanupCache
  BY <1>5 DEF CleanupCache
<1>6. CASE CleanupNull
  BY <1>6 DEF CleanupNull
<1>7. CASE DispatchClosed
  BY <1>7 DEF DispatchClosed, Loop!Send
<1>8. CASE CtorRegister
  BY <1>8 DEF CtorRegister
<1>9. CASE CtorRequeue
  BY <1>9 DEF CtorRequeue, Loop!Send
<1>10. CASE CtorCache
  BY <1>10 DEF CtorCache
<1>11. CASE LoopReceive
  BY <1>11 DEF LoopReceive, Loop!Receive
<1>12. CASE HandleStateChange
  BY <1>12 DEF HandleStateChange, Loop!Stop
<1>13. CASE HandleDone
  BY <1>13 DEF HandleDone, Loop!Done
<1>14. CASE HandlerDone
  BY <1>14 DEF HandlerDone
<1>15. CASE LoopClose
  BY <1>15 DEF LoopClose, Loop!Notice, Loop!Close
<1>16. CASE SendState
  BY <1>16 DEF SendState
<1>17. CASE SendCall
  BY <1>17 DEF SendCall
<1>18. CASE PcCloseReturns
  BY <1>18 DEF PcCloseReturns
<1>19. CASE PcChannels
  BY <1>19 DEF PcChannels, Loop!Stop
<1>20. CASE Construct
  BY <1>20 DEF Construct
<1>21. CASE Send
  BY <1>21 DEF Send
<1>22. CASE Close
  BY <1>22 DEF Close, OnEvent, Loop!Send
<1>23. CASE PcClose
  BY <1>23 DEF PcClose
<1>24. CASE UNCHANGED vars
  BY <1>24 DEF vars
<1> QED BY <1>1, <1>2, <1>3, <1>4, <1>5, <1>6, <1>7, <1>8, <1>9, <1>10, <1>11, <1>12, <1>13,
         <1>14, <1>15, <1>16, <1>17, <1>18, <1>19, <1>20, <1>21, <1>22, <1>23, <1>24 DEF
         Next, Signaling, JavaScript, JSFinish

(* Where the threads are.                                                  *)
LEMMA PlaceStep == PlaceOK /\ [Next]_vars => PlaceOK'
<1> SUFFICES ASSUME PlaceOK, [Next]_vars PROVE PlaceOK'
  OBVIOUS
<1> USE DEF PlaceOK, States, JSPoints, jingleVars, wrapperVars, loopVars
<1>1. CASE JingleOpen
  BY <1>1 DEF JingleOpen, OnEvent, Loop!Send
<1>2. CASE JingleMessage
  BY <1>2 DEF JingleMessage, OnEvent, Loop!Send
<1>3. CASE JingleClosing
  BY <1>3 DEF JingleClosing, OnEvent, Loop!Send
<1>4. CASE JingleClosed
  BY <1>4 DEF JingleClosed, OnEvent, Loop!Send
<1>5. CASE CleanupCache
  BY <1>5 DEF CleanupCache
<1>6. CASE CleanupNull
  BY <1>6 DEF CleanupNull
<1>7. CASE DispatchClosed
  BY <1>7 DEF DispatchClosed, Loop!Send
<1>8. CASE CtorRegister
  BY <1>8 DEF CtorRegister
<1>9. CASE CtorRequeue
  BY <1>9 DEF CtorRequeue, Loop!Send
<1>10. CASE CtorCache
  BY <1>10 DEF CtorCache
<1>11. CASE LoopReceive
  BY <1>11 DEF LoopReceive, Loop!Receive
<1>12. CASE HandleStateChange
  BY <1>12 DEF HandleStateChange, Loop!Stop
<1>13. CASE HandleDone
  BY <1>13 DEF HandleDone, Loop!Done
<1>14. CASE HandlerDone
  BY <1>14 DEF HandlerDone
<1>15. CASE LoopClose
  BY <1>15 DEF LoopClose, Loop!Notice, Loop!Close
<1>16. CASE SendState
  BY <1>16 DEF SendState
<1>17. CASE SendCall
  BY <1>17 DEF SendCall
<1>18. CASE PcCloseReturns
  BY <1>18 DEF PcCloseReturns
<1>19. CASE PcChannels
  BY <1>19 DEF PcChannels, Loop!Stop
<1>20. CASE Construct
  BY <1>20 DEF Construct
<1>21. CASE Send
  BY <1>21 DEF Send
<1>22. CASE Close
  BY <1>22 DEF Close, OnEvent, Loop!Send
<1>23. CASE PcClose
  BY <1>23 DEF PcClose
<1>24. CASE UNCHANGED vars
  BY <1>24 DEF vars
<1> QED BY <1>1, <1>2, <1>3, <1>4, <1>5, <1>6, <1>7, <1>8, <1>9, <1>10, <1>11, <1>12, <1>13,
         <1>14, <1>15, <1>16, <1>17, <1>18, <1>19, <1>20, <1>21, <1>22, <1>23, <1>24 DEF
         Next, Signaling, JavaScript, JSFinish

(* Flags.                                                                  *)
LEMMA FlagsStep == FlagsOK /\ [Next]_vars => FlagsOK'
<1> SUFFICES ASSUME FlagsOK, [Next]_vars PROVE FlagsOK'
  OBVIOUS
<1> USE DEF FlagsOK, jingleVars, wrapperVars, loopVars
<1>1. CASE JingleOpen
  BY <1>1 DEF JingleOpen, OnEvent, Loop!Send
<1>2. CASE JingleMessage
  BY <1>2 DEF JingleMessage, OnEvent, Loop!Send
<1>3. CASE JingleClosing
  BY <1>3 DEF JingleClosing, OnEvent, Loop!Send
<1>4. CASE JingleClosed
  BY <1>4 DEF JingleClosed, OnEvent, Loop!Send
<1>5. CASE CleanupCache
  BY <1>5 DEF CleanupCache
<1>6. CASE CleanupNull
  BY <1>6 DEF CleanupNull
<1>7. CASE DispatchClosed
  BY <1>7 DEF DispatchClosed, Loop!Send
<1>8. CASE CtorRegister
  BY <1>8 DEF CtorRegister
<1>9. CASE CtorRequeue
  BY <1>9 DEF CtorRequeue, Loop!Send
<1>10. CASE CtorCache
  BY <1>10 DEF CtorCache
<1>11. CASE LoopReceive
  BY <1>11 DEF LoopReceive, Loop!Receive
<1>12. CASE HandleStateChange
  BY <1>12 DEF HandleStateChange, Loop!Stop
<1>13. CASE HandleDone
  BY <1>13 DEF HandleDone, Loop!Done
<1>14. CASE HandlerDone
  BY <1>14 DEF HandlerDone
<1>15. CASE LoopClose
  BY <1>15 DEF LoopClose, Loop!Notice, Loop!Close
<1>16. CASE SendState
  BY <1>16 DEF SendState
<1>17. CASE SendCall
  BY <1>17 DEF SendCall
<1>18. CASE PcCloseReturns
  BY <1>18 DEF PcCloseReturns
<1>19. CASE PcChannels
  BY <1>19 DEF PcChannels, Loop!Stop
<1>20. CASE Construct
  BY <1>20 DEF Construct
<1>21. CASE Send
  BY <1>21 DEF Send
<1>22. CASE Close
  BY <1>22 DEF Close, OnEvent, Loop!Send
<1>23. CASE PcClose
  BY <1>23 DEF PcClose
<1>24. CASE UNCHANGED vars
  BY <1>24 DEF vars
<1> QED BY <1>1, <1>2, <1>3, <1>4, <1>5, <1>6, <1>7, <1>8, <1>9, <1>10, <1>11, <1>12, <1>13,
         <1>14, <1>15, <1>16, <1>17, <1>18, <1>19, <1>20, <1>21, <1>22, <1>23, <1>24 DEF
         Next, Signaling, JavaScript, JSFinish

(* The numbers of callbacks.                                               *)
LEMMA CallsStep == PlaceOK /\ CallsInv /\ [Next]_vars => CallsInv'
<1> SUFFICES ASSUME PlaceOK, CallsInv, [Next]_vars PROVE CallsInv'
  OBVIOUS
<1> USE DEF PlaceOK, States, MaxCalls, CallsInv, JingleFree, jingleVars, wrapperVars,
         loopVars
<1>1. CASE JingleOpen
  BY <1>1, MaxMessagesAssumption DEF JingleOpen, OnEvent, Loop!Send
<1>2. CASE JingleMessage
  BY <1>2, MaxMessagesAssumption DEF JingleMessage, OnEvent, Loop!Send
<1>3. CASE JingleClosing
  BY <1>3, MaxMessagesAssumption DEF JingleClosing, OnEvent, Loop!Send
<1>4. CASE JingleClosed
  BY <1>4, MaxMessagesAssumption DEF JingleClosed, OnEvent, Loop!Send
<1>5. CASE CleanupCache
  BY <1>5, MaxMessagesAssumption DEF CleanupCache
<1>6. CASE CleanupNull
  BY <1>6, MaxMessagesAssumption DEF CleanupNull
<1>7. CASE DispatchClosed
  BY <1>7, MaxMessagesAssumption DEF DispatchClosed, Loop!Send
<1>8. CASE CtorRegister
  BY <1>8, MaxMessagesAssumption DEF CtorRegister
<1>9. CASE CtorRequeue
  BY <1>9, MaxMessagesAssumption DEF CtorRequeue, Loop!Send
<1>10. CASE CtorCache
  BY <1>10, MaxMessagesAssumption DEF CtorCache
<1>11. CASE LoopReceive
  BY <1>11, MaxMessagesAssumption DEF LoopReceive, Loop!Receive
<1>12. CASE HandleStateChange
  BY <1>12, MaxMessagesAssumption DEF HandleStateChange, Loop!Stop
<1>13. CASE HandleDone
  BY <1>13, MaxMessagesAssumption DEF HandleDone, Loop!Done
<1>14. CASE HandlerDone
  BY <1>14, MaxMessagesAssumption DEF HandlerDone
<1>15. CASE LoopClose
  BY <1>15, MaxMessagesAssumption DEF LoopClose, Loop!Notice, Loop!Close
<1>16. CASE SendState
  BY <1>16, MaxMessagesAssumption DEF SendState
<1>17. CASE SendCall
  BY <1>17, MaxMessagesAssumption DEF SendCall
<1>18. CASE PcCloseReturns
  BY <1>18, MaxMessagesAssumption DEF PcCloseReturns
<1>19. CASE PcChannels
  BY <1>19, MaxMessagesAssumption DEF PcChannels, Loop!Stop
<1>20. CASE Construct
  BY <1>20, MaxMessagesAssumption DEF Construct
<1>21. CASE Send
  BY <1>21, MaxMessagesAssumption DEF Send
<1>22. CASE Close
  BY <1>22, MaxMessagesAssumption DEF Close, OnEvent, Loop!Send
<1>23. CASE PcClose
  BY <1>23, MaxMessagesAssumption DEF PcClose
<1>24. CASE UNCHANGED vars
  BY <1>24 DEF vars
<1> QED BY <1>1, <1>2, <1>3, <1>4, <1>5, <1>6, <1>7, <1>8, <1>9, <1>10, <1>11, <1>12, <1>13,
         <1>14, <1>15, <1>16, <1>17, <1>18, <1>19, <1>20, <1>21, <1>22, <1>23, <1>24 DEF
         Next, Signaling, JavaScript, JSFinish

(* Who observes.                                                           *)
LEMMA RegisteredStep == PlaceOK /\ CallsInv /\ RegisteredInv /\ [Next]_vars => RegisteredInv'
<1> SUFFICES ASSUME PlaceOK, CallsInv, RegisteredInv, [Next]_vars PROVE RegisteredInv'
  OBVIOUS
<1> USE DEF PlaceOK, CallsInv, RegisteredInv, JingleFree, jingleVars, wrapperVars, loopVars
<1>1. CASE JingleOpen
  BY <1>1 DEF JingleOpen, OnEvent, Loop!Send
<1>2. CASE JingleMessage
  BY <1>2 DEF JingleMessage, OnEvent, Loop!Send
<1>3. CASE JingleClosing
  BY <1>3 DEF JingleClosing, OnEvent, Loop!Send
<1>4. CASE JingleClosed
  BY <1>4 DEF JingleClosed, OnEvent, Loop!Send
<1>5. CASE CleanupCache
  BY <1>5 DEF CleanupCache
<1>6. CASE CleanupNull
  BY <1>6 DEF CleanupNull
<1>7. CASE DispatchClosed
  BY <1>7 DEF DispatchClosed, Loop!Send
<1>8. CASE CtorRegister
  BY <1>8 DEF CtorRegister
<1>9. CASE CtorRequeue
  BY <1>9 DEF CtorRequeue, Loop!Send
<1>10. CASE CtorCache
  BY <1>10 DEF CtorCache
<1>11. CASE LoopReceive
  BY <1>11 DEF LoopReceive, Loop!Receive
<1>12. CASE HandleStateChange
  BY <1>12 DEF HandleStateChange, Loop!Stop
<1>13. CASE HandleDone
  BY <1>13 DEF HandleDone, Loop!Done
<1>14. CASE HandlerDone
  BY <1>14 DEF HandlerDone
<1>15. CASE LoopClose
  BY <1>15 DEF LoopClose, Loop!Notice, Loop!Close
<1>16. CASE SendState
  BY <1>16 DEF SendState
<1>17. CASE SendCall
  BY <1>17 DEF SendCall
<1>18. CASE PcCloseReturns
  BY <1>18 DEF PcCloseReturns
<1>19. CASE PcChannels
  BY <1>19 DEF PcChannels, Loop!Stop
<1>20. CASE Construct
  BY <1>20 DEF Construct
<1>21. CASE Send
  BY <1>21 DEF Send
<1>22. CASE Close
  BY <1>22 DEF Close, OnEvent, Loop!Send
<1>23. CASE PcClose
  BY <1>23 DEF PcClose
<1>24. CASE UNCHANGED vars
  BY <1>24 DEF vars
<1> QED BY <1>1, <1>2, <1>3, <1>4, <1>5, <1>6, <1>7, <1>8, <1>9, <1>10, <1>11, <1>12, <1>13,
         <1>14, <1>15, <1>16, <1>17, <1>18, <1>19, <1>20, <1>21, <1>22, <1>23, <1>24 DEF
         Next, Signaling, JavaScript, JSFinish

(* A channel that has been cut off stays so.                               *)
LEMMA CutOffStays == PlaceOK /\ CallsInv /\ RegisteredInv /\ CutOff /\ [Next]_vars => CutOff'
<1> SUFFICES ASSUME PlaceOK, CallsInv, RegisteredInv, CutOff, [Next]_vars PROVE CutOff'
  OBVIOUS
<1> USE DEF PlaceOK, CallsInv, RegisteredInv, CutOff, JingleFree, jingleVars, wrapperVars,
         loopVars
<1>1. CASE JingleOpen
  BY <1>1 DEF JingleOpen, OnEvent, Loop!Send
<1>2. CASE JingleMessage
  BY <1>2 DEF JingleMessage, OnEvent, Loop!Send
<1>3. CASE JingleClosing
  BY <1>3 DEF JingleClosing, OnEvent, Loop!Send
<1>4. CASE JingleClosed
  BY <1>4 DEF JingleClosed, OnEvent, Loop!Send
<1>5. CASE CleanupCache
  BY <1>5 DEF CleanupCache
<1>6. CASE CleanupNull
  BY <1>6 DEF CleanupNull
<1>7. CASE DispatchClosed
  BY <1>7 DEF DispatchClosed, Loop!Send
<1>8. CASE CtorRegister
  BY <1>8 DEF CtorRegister
<1>9. CASE CtorRequeue
  BY <1>9 DEF CtorRequeue, Loop!Send
<1>10. CASE CtorCache
  BY <1>10 DEF CtorCache
<1>11. CASE LoopReceive
  BY <1>11 DEF LoopReceive, Loop!Receive
<1>12. CASE HandleStateChange
  BY <1>12 DEF HandleStateChange, Loop!Stop
<1>13. CASE HandleDone
  BY <1>13 DEF HandleDone, Loop!Done
<1>14. CASE HandlerDone
  BY <1>14 DEF HandlerDone
<1>15. CASE LoopClose
  BY <1>15 DEF LoopClose, Loop!Notice, Loop!Close
<1>16. CASE SendState
  BY <1>16 DEF SendState
<1>17. CASE SendCall
  BY <1>17 DEF SendCall
<1>18. CASE PcCloseReturns
  BY <1>18 DEF PcCloseReturns
<1>19. CASE PcChannels
  BY <1>19 DEF PcChannels, Loop!Stop
<1>20. CASE Construct
  BY <1>20 DEF Construct
<1>21. CASE Send
  BY <1>21 DEF Send
<1>22. CASE Close
  BY <1>22 DEF Close, OnEvent, Loop!Send
<1>23. CASE PcClose
  BY <1>23 DEF PcClose
<1>24. CASE UNCHANGED vars
  BY <1>24 DEF vars
<1> QED BY <1>1, <1>2, <1>3, <1>4, <1>5, <1>6, <1>7, <1>8, <1>9, <1>10, <1>11, <1>12, <1>13,
         <1>14, <1>15, <1>16, <1>17, <1>18, <1>19, <1>20, <1>21, <1>22, <1>23, <1>24 DEF
         Next, Signaling, JavaScript, JSFinish

(* What the queues hold.                                                   *)
LEMMA EventType ==
  ASSUME CallsInv, CallsInv', calls' = calls + 1
  PROVE  \A t \in EventTypes : /\ Event(t, "early") \in AllEvents
                               /\ Event(t, "wrapper") \in AllEvents
  BY MaxMessagesAssumption DEF CallsInv, Event, AllEvents, MaxCalls

(* Only events are queued.                                                 *)
LEMMA QueuesStep ==
  PlaceOK /\ QueuesOK /\ CallsInv /\ RegisteredInv /\ [Next]_vars => QueuesOK'
<1> SUFFICES ASSUME PlaceOK, QueuesOK, CallsInv, RegisteredInv, [Next]_vars PROVE QueuesOK'
  OBVIOUS
<1>0. CallsInv'
  BY CallsStep
<1> USE DEF QueuesOK
<1>1. CASE Stored
  BY <1>0, <1>1, EventType DEF Stored
<1>2. CASE Queued
  BY <1>0, <1>2, EventType DEF Queued
<1>3. CASE Requeued
  BY <1>3 DEF Requeued
<1>4. CASE Taken
  <2>1. sent[Len(received) + 1] \in AllEvents
    BY <1>4 DEF Taken
  <2> QED BY <1>4, <2>1 DEF Taken
<1>5. CASE Resting
  BY <1>5 DEF Resting
<1> QED BY <1>1, <1>2, <1>3, <1>4, <1>5, Shapes

(* The wrapper's close event is queued and taken when it is cut off.       *)
LEMMA CutOffStep ==
  PlaceOK /\ QueuesOK /\ CallsInv /\ RegisteredInv /\ CutOffInv /\ [Next]_vars => CutOffInv'
<1> SUFFICES ASSUME PlaceOK, QueuesOK, CallsInv, RegisteredInv, CutOffInv, [Next]_vars
             PROVE  CutOffInv'
  OBVIOUS
<1>0. /\ early \in Seq(AllEvents) /\ sent \in Seq(AllEvents) /\ received \in Seq(AllEvents)
      /\ CutOff => CutOff'
  BY CutOffStays DEF QueuesOK
<1> USE DEF CutOffInv
<1>1. CASE Stored
  <2> PICK t \in EventTypes : early' = Append(early, Event(t, "early"))
    BY <1>1 DEF Stored
  <2>1. Event(t, "early").by = "early"
    BY DEF Event
  <2> QED BY <1>0, <1>1, <2>1 DEF Stored
<1>2. CASE Queued
  <2> PICK t \in EventTypes : /\ sent' = Append(sent, Event(t, "wrapper"))
                              /\ t = "closed" => CutOff'
    BY <1>2 DEF Queued
  <2>1. LastOfWrapper(Event(t, "wrapper")) => CutOff'
    BY DEF Event, LastOfWrapper
  <2> QED BY <1>0, <1>2, <2>1 DEF Queued
<1>3. CASE Requeued
  <2>1. ~LastOfWrapper(Head(early))
    BY <1>0, <1>3 DEF Requeued, LastOfWrapper
  <2> QED BY <1>0, <1>3, <2>1 DEF Requeued
<1>4. CASE Taken
  <2>1. LastOfWrapper(sent[Len(received) + 1]) => CutOff'
    BY <1>0, <1>4 DEF Taken
  <2> QED BY <1>0, <1>4, <2>1 DEF Taken
<1>5. CASE Resting
  BY <1>0, <1>5 DEF Resting
<1> QED BY <1>1, <1>2, <1>3, <1>4, <1>5, Shapes

(* The close event is the last one that is taken.                          *)
Ending == (noticed \/ busy) /\ (stopped => noticed)

(* Until another event is taken, a close event is the current one.         *)
LEMMA ClosedIsCurrent ==
  ASSUME QueuesOK, LastInv, Heard
  PROVE  Current.type = "closed" /\ Ending
  BY DEF QueuesOK, LastInv, Heard, Current, Ending

(* The handler of the close event leaves only a stopped loop.              *)
LEMMA EndingStays == PlaceOK /\ FlagsOK /\ QueuesOK /\ LastInv /\ Heard /\ [Next]_vars => Ending'
<1> SUFFICES ASSUME PlaceOK, FlagsOK, QueuesOK, LastInv, Heard, [Next]_vars PROVE Ending'
  OBVIOUS
<1> USE DEF PlaceOK, FlagsOK, Ending, jingleVars, wrapperVars, loopVars
<1>1. CASE JingleOpen
  BY <1>1, ClosedIsCurrent DEF JingleOpen, OnEvent, Loop!Send
<1>2. CASE JingleMessage
  BY <1>2, ClosedIsCurrent DEF JingleMessage, OnEvent, Loop!Send
<1>3. CASE JingleClosing
  BY <1>3, ClosedIsCurrent DEF JingleClosing, OnEvent, Loop!Send
<1>4. CASE JingleClosed
  BY <1>4, ClosedIsCurrent DEF JingleClosed, OnEvent, Loop!Send
<1>5. CASE CleanupCache
  BY <1>5, ClosedIsCurrent DEF CleanupCache
<1>6. CASE CleanupNull
  BY <1>6, ClosedIsCurrent DEF CleanupNull
<1>7. CASE DispatchClosed
  BY <1>7, ClosedIsCurrent DEF DispatchClosed, Loop!Send
<1>8. CASE CtorRegister
  BY <1>8, ClosedIsCurrent DEF CtorRegister
<1>9. CASE CtorRequeue
  BY <1>9, ClosedIsCurrent DEF CtorRequeue, Loop!Send
<1>10. CASE CtorCache
  BY <1>10, ClosedIsCurrent DEF CtorCache
<1>11. CASE LoopReceive
  BY <1>11, ClosedIsCurrent DEF LoopReceive, Loop!Receive
<1>12. CASE HandleStateChange
  BY <1>12, ClosedIsCurrent DEF HandleStateChange, Loop!Stop
<1>13. CASE HandleDone
  BY <1>13, ClosedIsCurrent DEF HandleDone, Loop!Done
<1>14. CASE HandlerDone
  BY <1>14, ClosedIsCurrent DEF HandlerDone
<1>15. CASE LoopClose
  BY <1>15, ClosedIsCurrent DEF LoopClose, Loop!Notice, Loop!Close
<1>16. CASE SendState
  BY <1>16, ClosedIsCurrent DEF SendState
<1>17. CASE SendCall
  BY <1>17, ClosedIsCurrent DEF SendCall
<1>18. CASE PcCloseReturns
  BY <1>18, ClosedIsCurrent DEF PcCloseReturns
<1>19. CASE PcChannels
  BY <1>19, ClosedIsCurrent DEF PcChannels, Loop!Stop
<1>20. CASE Construct
  BY <1>20, ClosedIsCurrent DEF Construct
<1>21. CASE Send
  BY <1>21, ClosedIsCurrent DEF Send
<1>22. CASE Close
  BY <1>22, ClosedIsCurrent DEF Close, OnEvent, Loop!Send
<1>23. CASE PcClose
  BY <1>23, ClosedIsCurrent DEF PcClose
<1>24. CASE UNCHANGED vars
  <2>1. Ending
    BY ClosedIsCurrent
  <2>2. UNCHANGED <<noticed, busy, stopped>>
    BY <1>24 DEF vars
  <2> QED BY <2>1, <2>2
<1> QED BY <1>1, <1>2, <1>3, <1>4, <1>5, <1>6, <1>7, <1>8, <1>9, <1>10, <1>11, <1>12, <1>13,
         <1>14, <1>15, <1>16, <1>17, <1>18, <1>19, <1>20, <1>21, <1>22, <1>23, <1>24 DEF
         Next, Signaling, JavaScript, JSFinish

(* After it no event is taken.                                             *)
LEMMA LastStep ==
  PlaceOK /\ FlagsOK /\ QueuesOK /\ CallsInv /\ RegisteredInv /\ LastInv /\ [Next]_vars
    => LastInv'
<1> SUFFICES ASSUME PlaceOK, FlagsOK, QueuesOK, CallsInv, RegisteredInv, LastInv, [Next]_vars
             PROVE  LastInv'
  OBVIOUS
<1>1. CASE Taken
  <2>1. ~Heard
    BY <1>1, ClosedIsCurrent DEF Taken, Ending
  <2>2. \A i \in 1 .. Len(received') : received'[i].type = "closed" => i = Len(received')
    BY <1>1, <2>1 DEF Taken, Heard, QueuesOK
  <2>3. (noticed' \/ busy') /\ (stopped' => noticed')
    BY <1>1 DEF Taken
  <2> QED BY <2>2, <2>3 DEF LastInv
<1>2. CASE received' = received
  <2>1. Heard' => Ending'
    BY <1>2, EndingStays DEF Heard
  <2> QED BY <1>2, <2>1 DEF LastInv, Ending
<1> QED BY <1>1, <1>2, Shapes DEF Stored, Queued, Requeued, Resting

(* What is taken is what was sent, in that order.                          *)
LEMMA PrefixStep ==
  PlaceOK /\ QueuesOK /\ CallsInv /\ RegisteredInv /\ PrefixInv /\ [Next]_vars => PrefixInv'
<1> SUFFICES ASSUME PlaceOK, QueuesOK, CallsInv, RegisteredInv, PrefixInv, [Next]_vars
             PROVE  PrefixInv'
  OBVIOUS
<1>0. /\ early \in Seq(AllEvents) /\ sent \in Seq(AllEvents) /\ received \in Seq(AllEvents)
  BY DEF QueuesOK
<1> USE DEF PrefixInv
<1>1. CASE UNCHANGED <<sent, received>>
  BY <1>1
<1>2. CASE UNCHANGED received /\ \E e \in AllEvents : sent' = Append(sent, e)
  BY <1>0, <1>2
<1>3. CASE Taken
  BY <1>0, <1>3 DEF Taken
<1>4. Queued \/ Requeued => UNCHANGED received /\ \E e \in AllEvents : sent' = Append(sent, e)
  <2>1. CASE Queued
    <3>1. CallsInv'
      BY CallsStep
    <3> QED BY <2>1, <3>1, EventType DEF Queued
  <2>2. CASE Requeued
    BY <1>0, <2>2 DEF Requeued
  <2> QED BY <2>1, <2>2
<1> QED BY <1>1, <1>2, <1>3, <1>4, Shapes DEF Stored, Resting

(* The numbers of the events.                                              *)
LEMMA OrderStep ==
  PlaceOK /\ QueuesOK /\ CallsInv /\ RegisteredInv /\ CutOffInv /\ OrderInv /\ [Next]_vars
    => OrderInv'
<1> SUFFICES ASSUME PlaceOK, QueuesOK, CallsInv, RegisteredInv, CutOffInv, OrderInv, [Next]_vars
             PROVE  OrderInv'
  OBVIOUS
<1>0. /\ early \in Seq(AllEvents) /\ sent \in Seq(AllEvents)
      /\ \A e \in AllEvents : e.n \in Nat
      /\ calls \in Nat /\ \A i \in 1 .. Len(early) : early[i].by = "early"
  BY MaxMessagesAssumption DEF QueuesOK, CallsInv, AllEvents, MaxCalls, CutOffInv
<1>1. CASE Stored
  <2> PICK t \in EventTypes : early' = Append(early, Event(t, "early"))
    BY <1>1 DEF Stored
  <2>1. Event(t, "early").n = calls + 1
    BY DEF Event
  <2>2. /\ \A i \in 1 .. Len(early) : early'[i] = early[i]
        /\ Len(early') = Len(early) + 1 /\ early'[Len(early')].n = calls + 1
    BY <1>0, <2>1
  <2>3. sent' = sent /\ calls' = calls + 1
    BY <1>1 DEF Stored
  <2>4. Numbered'
    BY <1>0, <2>2, <2>3 DEF OrderInv, Numbered
  <2>5. EarlySorted'
    <3> SUFFICES ASSUME NEW i \in 1 .. Len(early'), NEW j \in 1 .. Len(early'), i < j
                 PROVE  early'[i].n < early'[j].n
      BY DEF EarlySorted
    <3>1. Len(early) \in Nat /\ i \in 1 .. Len(early) /\ (j \in 1 .. Len(early) \/ j = Len(early'))
      BY <1>0, <2>2
    <3>2. early'[i] = early[i] /\ early[i].n \in Nat /\ early[i].n <= calls
      BY <1>0, <2>2, <3>1 DEF OrderInv, Numbered
    <3>3. CASE j \in 1 .. Len(early)
      BY <2>2, <3>1, <3>2, <3>3 DEF OrderInv, EarlySorted
    <3>4. CASE j = Len(early')
      BY <1>0, <2>2, <3>2, <3>4
    <3> QED BY <3>1, <3>3, <3>4
  <2>6. EarlyLater'
    BY <1>0, <2>2, <2>3 DEF OrderInv, Numbered, EarlyLater
  <2>7. SentOrder'
    BY <2>3 DEF OrderInv, SentOrder
  <2> QED BY <2>4, <2>5, <2>6, <2>7 DEF OrderInv
<1>2. CASE Queued
  <2> PICK t \in EventTypes : sent' = Append(sent, Event(t, "wrapper"))
    BY <1>2 DEF Queued
  <2>1. Event(t, "wrapper").n = calls + 1 /\ Event(t, "wrapper").by = "wrapper"
    BY DEF Event
  <2>2. /\ \A i \in 1 .. Len(sent) : sent'[i] = sent[i]
        /\ Len(sent') = Len(sent) + 1
        /\ sent'[Len(sent')].n = calls + 1 /\ sent'[Len(sent')].by = "wrapper"
    BY <1>0, <2>1
  <2>3. early' = early /\ calls' = calls + 1
    BY <1>2 DEF Queued
  <2> QED BY <1>0, <2>2, <2>3 DEF OrderInv, Numbered, EarlySorted, EarlyLater, SentOrder
<1>3. CASE Requeued
  <2>1. /\ \A i \in 1 .. Len(sent) : sent'[i] = sent[i]
        /\ sent'[Len(sent) + 1] = early[1]
        /\ \A i \in 1 .. Len(early) - 1 : early'[i] = early[i + 1]
    BY <1>0, <1>3 DEF Requeued
  <2>2. /\ Len(sent) \in Nat /\ Len(early) \in Nat /\ Len(early) > 0
        /\ Len(sent') = Len(sent) + 1 /\ Len(early') = Len(early) - 1
        /\ calls' = calls
    BY <1>0, <1>3 DEF Requeued
  <2>3. /\ \A i \in 1 .. Len(sent) : sent[i].n \in Nat
        /\ \A i \in 1 .. Len(early) : early[i].n \in Nat /\ early[i].by = "early"
    BY <1>0
  <2>4. Numbered'
    <3>1. \A i \in 1 .. Len(sent') : i \in 1 .. Len(sent) \/ i = Len(sent) + 1
      BY <2>2
    <3>2. \A i \in 1 .. Len(sent') : sent'[i].n <= calls'
      BY <2>1, <2>2, <3>1 DEF OrderInv, Numbered
    <3>3. \A i \in 1 .. Len(early') : early'[i].n <= calls'
      <4> TAKE i \in 1 .. Len(early')
      <4>1. early'[i] = early[i + 1] /\ i + 1 \in 1 .. Len(early)
        BY <2>1, <2>2
      <4> QED BY <2>2, <4>1 DEF OrderInv, Numbered
    <3> QED BY <3>2, <3>3 DEF Numbered
  <2>5. EarlySorted'
    <3> SUFFICES ASSUME NEW i \in 1 .. Len(early'), NEW j \in 1 .. Len(early'), i < j
                 PROVE  early'[i].n < early'[j].n
      BY DEF EarlySorted
    <3>1. /\ early'[i] = early[i + 1] /\ i + 1 \in 1 .. Len(early)
          /\ early'[j] = early[j + 1] /\ j + 1 \in 1 .. Len(early)
          /\ i + 1 < j + 1
      BY <2>1, <2>2
    <3> QED BY <3>1 DEF OrderInv, EarlySorted
  <2>6. EarlyLater'
    <3> SUFFICES ASSUME NEW i \in 1 .. Len(sent'), NEW j \in 1 .. Len(early'),
                        sent'[i].by = "early"
                 PROVE  sent'[i].n < early'[j].n
      BY DEF EarlyLater
    <3>1. early'[j] = early[j + 1] /\ j + 1 \in 1 .. Len(early) /\ 1 < j + 1
          /\ 1 \in 1 .. Len(early)
      BY <2>1, <2>2
    <3>2. CASE i \in 1 .. Len(sent)
      BY <2>1, <3>1, <3>2 DEF OrderInv, EarlyLater
    <3>3. CASE i = Len(sent) + 1
      BY <2>1, <3>1, <3>3 DEF OrderInv, EarlySorted
    <3> QED BY <2>2, <3>2, <3>3
  <2>7. SentOrder'
    <3> SUFFICES ASSUME NEW i \in 1 .. Len(sent'), NEW j \in 1 .. Len(sent'),
                        i < j, sent'[i].n > sent'[j].n
                 PROVE  sent'[i].by = "wrapper" /\ sent'[j].by = "early"
      BY DEF SentOrder
    <3>1. i \in 1 .. Len(sent) /\ sent'[i] = sent[i] /\ sent[i].by \in {"early", "wrapper"}
      <4>1. i \in 1 .. Len(sent)
        BY <2>2
      <4>2. sent[i] \in AllEvents
        BY <4>1, <1>0
      <4>3. sent[i].by \in {"early", "wrapper"}
        BY <4>2 DEF AllEvents
      <4> QED BY <4>1, <4>3, <2>1
    <3>2. CASE j \in 1 .. Len(sent)
      BY <2>1, <3>1, <3>2 DEF OrderInv, SentOrder
    <3>3. CASE j = Len(sent) + 1
      <4>1. sent'[j] = early[1] /\ 1 \in 1 .. Len(early)
        BY <2>1, <2>2, <3>3
      <4>2. ~(sent[i].n < early[1].n)
        BY <2>3, <3>1, <4>1
      <4>3. sent[i].by # "early"
        BY <3>1, <4>1, <4>2 DEF OrderInv, EarlyLater
      <4> QED BY <2>3, <3>1, <4>1, <4>3
    <3> QED BY <2>2, <3>2, <3>3
  <2> QED BY <2>4, <2>5, <2>6, <2>7 DEF OrderInv
<1>4. CASE Taken
  BY <1>4 DEF Taken, OrderInv, Numbered, EarlySorted, EarlyLater, SentOrder
<1>5. CASE Resting
  BY <1>5 DEF Resting, OrderInv, Numbered, EarlySorted, EarlyLater, SentOrder
<1> QED BY <1>1, <1>2, <1>3, <1>4, <1>5, Shapes

----------------------------------------------------------------------------
(* The states of which the events tell.                                    *)
LEMMA RankRange == \A t : Rank(t) \in 0 .. 3 /\ Rank(t) <= Rank("closed")
  BY DEF Rank

(* libwebrtc's channel only goes on.                                       *)
LEMMA StateGoesOn ==
  ASSUME [Next]_vars
  PROVE  Rank(jState) <= Rank(jState')
<1>1. CASE JingleOpen \/ JingleClosing \/ JingleClosed \/ Close
  BY <1>1 DEF JingleOpen, JingleClosing, JingleClosed, Close, Rank
<1>2. CASE jState' = jState
  BY <1>2, RankRange
<1>3. JingleOpen \/ JingleClosing \/ JingleClosed \/ Close \/ jState' = jState
  BY DEF Next, Signaling, JavaScript, JSFinish, vars, jingleVars, JingleMessage, CleanupCache,
         CleanupNull, DispatchClosed, CtorRegister, CtorRequeue, CtorCache, LoopReceive,
         HandleStateChange, HandleDone, HandlerDone, LoopClose, SendState, SendCall,
         PcCloseReturns, PcChannels, Construct, Send, PcClose
<1> QED BY <1>1, <1>2, <1>3

LEMMA ClosedStays ==
  ASSUME PlaceOK, [Next]_vars, jState = "closed"
  PROVE  jState' = "closed"
<1>1. jState' \in States
  BY PlaceStep DEF PlaceOK
<1> QED BY <1>1, StateGoesOn DEF States, Rank

(* So no event tells of more than has happened.                            *)
LEMMA RankStep ==
  PlaceOK /\ QueuesOK /\ CallsInv /\ RegisteredInv /\ RankInv /\ [Next]_vars => RankInv'
<1> SUFFICES ASSUME PlaceOK, QueuesOK, CallsInv, RegisteredInv, RankInv, [Next]_vars
             PROVE  RankInv'
  OBVIOUS
<1>0. /\ early \in Seq(AllEvents) /\ sent \in Seq(AllEvents)
      /\ Rank(jState) <= Rank(jState') /\ Rank(jState) \in Nat /\ Rank(jState') \in Nat
      /\ \A t : Rank(t) \in Nat
  BY StateGoesOn, RankRange DEF QueuesOK
<1>1. /\ \A i \in 1 .. Len(early) : Rank(early[i].type) <= Rank(jState')
      /\ \A i \in 1 .. Len(sent) : Rank(sent[i].type) <= Rank(jState')
  <2>1. \A a, b, c \in Nat : a <= b /\ b <= c => a <= c
    OBVIOUS
  <2> QED BY <1>0, <2>1 DEF RankInv
<1>2. ASSUME NEW e, e.type \in EventTypes, Rank(e.type) <= Rank(jState')
      PROVE  /\ early' = Append(early, e) => \A i \in 1 .. Len(early') : Rank(early'[i].type) <= Rank(jState')
             /\ sent' = Append(sent, e) => \A i \in 1 .. Len(sent') : Rank(sent'[i].type) <= Rank(jState')
  <2>1. ASSUME NEW q \in Seq(AllEvents), \A i \in 1 .. Len(q) : Rank(q[i].type) <= Rank(jState'),
               NEW i \in 1 .. Len(Append(q, e))
        PROVE  Rank(Append(q, e)[i].type) <= Rank(jState')
    <3>1. (i \in 1 .. Len(q) /\ Append(q, e)[i] = q[i]) \/ Append(q, e)[i] = e
      BY <2>1
    <3> QED BY <1>2, <2>1, <3>1
  <2> QED BY <1>0, <1>1, <2>1
<1>3. CASE Stored
  <2> PICK t \in EventTypes : /\ early' = Append(early, Event(t, "early"))
                              /\ Rank(t) <= Rank(jState')
    BY <1>3 DEF Stored
  <2>1. Event(t, "early").type = t
    BY DEF Event
  <2> QED BY <1>1, <1>2, <1>3, <2>1 DEF Stored, RankInv
<1>4. CASE Queued
  <2> PICK t \in EventTypes : /\ sent' = Append(sent, Event(t, "wrapper"))
                              /\ Rank(t) <= Rank(jState')
    BY <1>4 DEF Queued
  <2>1. Event(t, "wrapper").type = t
    BY DEF Event
  <2> QED BY <1>1, <1>2, <1>4, <2>1 DEF Queued, RankInv
<1>5. CASE Requeued
  <2>1. Head(early) \in AllEvents /\ Head(early) = early[1] /\ 1 \in 1 .. Len(early)
    BY <1>0, <1>5 DEF Requeued
  <2>2. Head(early).type \in EventTypes /\ Rank(Head(early).type) <= Rank(jState')
    BY <1>1, <2>1 DEF AllEvents
  <2>3. \A i \in 1 .. Len(Tail(early)) : Tail(early)[i] = early[i + 1] /\ i + 1 \in 1 .. Len(early)
    BY <1>0, <1>5 DEF Requeued
  <2> QED BY <1>1, <1>2, <1>5, <2>2, <2>3 DEF Requeued, RankInv
<1>6. CASE Taken \/ Resting
  BY <1>1, <1>6 DEF Taken, Resting, RankInv
<1> QED BY <1>3, <1>4, <1>5, <1>6, Shapes

(* Only CleanupNull takes the pointer away.                                *)
LEMMA NullStep == PlaceOK /\ CallsInv /\ NullInv /\ [Next]_vars => NullInv'
<1> SUFFICES ASSUME PlaceOK, CallsInv, NullInv, [Next]_vars PROVE NullInv'
  OBVIOUS
<1>1. jState = "closed" => jState' = "closed"
  BY ClosedStays
<1>2. CASE Construct \/ CtorRegister \/ CleanupNull
  BY <1>2 DEF Construct, CtorRegister, CleanupNull, CallsInv, NullInv
<1>3. CASE UNCHANGED <<ptr, wrapped>> /\ (js' # "ctorRegister" => js # "ctorRegister")
  BY <1>1, <1>3 DEF NullInv
<1>4. \/ Construct \/ CtorRegister \/ CleanupNull
      \/ UNCHANGED <<ptr, wrapped>> /\ (js' # "ctorRegister" => js # "ctorRegister")
  BY DEF Next, Signaling, JavaScript, JSFinish, vars, jingleVars, wrapperVars, JSFree,
         JingleOpen, JingleMessage, JingleClosing, JingleClosed, CleanupCache, DispatchClosed,
         CtorRequeue, CtorCache, LoopReceive, HandleStateChange, HandleDone, HandlerDone,
         LoopClose, Send, SendState, SendCall, Close, PcClose, PcCloseReturns, PcChannels
<1> QED BY <1>2, <1>3, <1>4

----------------------------------------------------------------------------
(* The invariant and what follows from it.                                 *)
ChannelIInv ==
  /\ PlaceOK /\ FlagsOK /\ QueuesOK /\ CallsInv /\ RegisteredInv
  /\ CutOffInv /\ LastInv /\ PrefixInv /\ OrderInv /\ RankInv /\ NullInv

(* Nothing has happened at first.                                          *)
LEMMA InitChannel == Init => ChannelIInv
<1> SUFFICES ASSUME Init PROVE ChannelIInv
  OBVIOUS
<1>1. PlaceOK
  BY DEF Init, PlaceOK, States, JSPoints
<1>2. FlagsOK
  <2>1. {wrapped, ptr, pcRef, pcClosed, crashed} \subseteq BOOLEAN
    BY Zenon DEF Init
  <2>2. {busy, stopped, noticed, closed} \subseteq BOOLEAN
    BY Zenon DEF Init, Loop!Init
  <2> QED BY <2>1, <2>2 DEF FlagsOK
<1>3. early = <<>> /\ sent = <<>> /\ received = <<>>
  BY DEF Init, Loop!Init
<1>4. QueuesOK /\ CutOffInv /\ LastInv /\ PrefixInv /\ OrderInv /\ RankInv
  BY <1>3 DEF QueuesOK, CutOffInv, LastInv, Heard, PrefixInv, OrderInv, Numbered, EarlySorted,
              EarlyLater, SentOrder, RankInv
<1>5. CallsInv /\ RegisteredInv
  <2>1. CallsInv
    BY MaxMessagesAssumption DEF Init, CallsInv, MaxCalls
  <2>2. js = "ctorRegister" => wrapped
    <3>1. js = "ctorRegister" => origin = "local"
      BY DEF Init
    <3> QED BY <3>1 DEF Init
  <2>3. observer = "early" /\ sig = "idle"
    BY DEF Init
  <2> QED BY <2>1, <2>2, <2>3 DEF RegisteredInv
<1>6. NullInv
  <2>1. js = IF origin = "local" THEN "ctorRegister" ELSE "idle"
    BY DEF Init
  <2>2. wrapped = (origin = "local")
    BY DEF Init
  <2> QED BY <2>1, <2>2 DEF NullInv
<1> QED BY <1>1, <1>2, <1>4, <1>5, <1>6 DEF ChannelIInv

(* Every step keeps all parts.                                             *)
LEMMA NextChannel == ChannelIInv /\ [Next]_vars => ChannelIInv'
<1> SUFFICES ASSUME ChannelIInv, [Next]_vars PROVE ChannelIInv'
  OBVIOUS
<1> USE DEF ChannelIInv
<1>1. PlaceOK' /\ FlagsOK' /\ QueuesOK'
  BY PlaceStep, FlagsStep, QueuesStep
<1>2. CallsInv' /\ RegisteredInv'
  BY CallsStep, RegisteredStep
<1>3. CutOffInv' /\ LastInv'
  BY CutOffStep, LastStep
<1>4. PrefixInv' /\ OrderInv'
  BY PrefixStep, OrderStep
<1>5. RankInv' /\ NullInv'
  BY RankStep, NullStep
<1> QED BY <1>1, <1>2, <1>3, <1>4, <1>5

(* The inductive invariant.                                                *)
LEMMA ChannelCorrect == SafeSpec => []ChannelIInv
  BY InitChannel, NextChannel, PTL DEF SafeSpec

(* A close event is the last event the program sees of a channel, and once *)
(* it has seen the one that RTCDataChannel dispatched the channel is cut   *)
(* off from libwebrtc, whatever the signaling thread does meanwhile.  What *)
(* it reads of the state is never older than what it has been told.        *)
THEOREM CloseSafe == SafeSpec => []ChannelInv
<1>1. ChannelIInv => ChannelInv
  <2> SUFFICES ASSUME ChannelIInv PROVE ChannelInv
    OBVIOUS
  <2>1. TypeOK
    BY TypeParts DEF ChannelIInv
  <2>2. DOMAIN received = 1 .. Len(received)
    BY DEF ChannelIInv, QueuesOK
  <2>3. CloseIsLast
    BY <2>2 DEF ChannelIInv, LastInv, CloseIsLast
  <2>4. CloseFollowsCleanup
    BY <2>2 DEF ChannelIInv, CutOffInv, LastOfWrapper, CutOff, CloseFollowsCleanup
  <2>5. StateNotBehind
    <3> SUFFICES ASSUME NEW i \in 1 .. Len(received)
                 PROVE  Rank(received[i].type) <= Rank(ReadyState)
      BY <2>2 DEF StateNotBehind
    <3>1. i \in 1 .. Len(sent) /\ received[i] = sent[i]
      BY DEF ChannelIInv, QueuesOK, PrefixInv
    <3>2. Rank(received[i].type) <= Rank(jState)
      BY <3>1 DEF ChannelIInv, RankInv
    <3> QED BY <3>2, RankRange DEF ReadyState
  <2> QED BY <2>1, <2>3, <2>4, <2>5 DEF ChannelInv
<1> QED BY <1>1, ChannelCorrect, PTL

(* A program that reads readyState twice never reads an older state then.  *)
THEOREM StateNeverBack == SafeSpec => ReadyStateGrows
<1>1. ChannelIInv /\ [Next]_vars =>
        [wrapped /\ js # "ctorRegister" => Rank(ReadyState) <= Rank(ReadyState')]_vars
  <2> SUFFICES ASSUME ChannelIInv, [Next]_vars, wrapped, js # "ctorRegister"
               PROVE  Rank(ReadyState) <= Rank(ReadyState')
    OBVIOUS
  <2>1. CASE ptr'
    <3>1. CASE ptr
      BY <2>1, <3>1, StateGoesOn DEF ReadyState
    <3>2. CASE ~ptr
      <4>1. jState = "closed" /\ jState' = "closed"
        BY <3>2, ClosedStays DEF ChannelIInv, NullInv
      <4> QED BY <2>1, <3>2, <4>1, RankRange DEF ReadyState
    <3> QED BY <3>1, <3>2
  <2>2. CASE ~ptr'
    BY <2>2, RankRange DEF ReadyState
  <2> QED BY <2>1, <2>2
<1> QED BY <1>1, ChannelCorrect, PTL DEF SafeSpec, ReadyStateGrows

(* Events that the program sees out of order: one was dispatched while the *)
(* constructor requeued the other.                                         *)
THEOREM HandoverOrder == SafeSpec => []OnlyHandoverReorders
<1>1. ChannelIInv => OnlyHandoverReorders
  <2> SUFFICES ASSUME ChannelIInv, NEW i \in DOMAIN received, NEW j \in DOMAIN received,
                      i < j, received[i].n > received[j].n
               PROVE  received[i].by = "wrapper" /\ received[j].by = "early"
    BY DEF OnlyHandoverReorders
  <2>1. i \in 1 .. Len(received) /\ j \in 1 .. Len(received)
    BY DEF ChannelIInv, QueuesOK
  <2>2. i \in 1 .. Len(sent) /\ j \in 1 .. Len(sent)
    BY <2>1 DEF ChannelIInv, QueuesOK, PrefixInv
  <2>3. received[i] = sent[i] /\ received[j] = sent[j]
    BY <2>1 DEF ChannelIInv, PrefixInv
  <2> QED BY <2>2, <2>3 DEF ChannelIInv, OrderInv, SentOrder
<1> QED BY <1>1, ChannelCorrect, PTL

----------------------------------------------------------------------------
(* Counting the events of a queue.                                         *)
At(s, n) == {i \in DOMAIN s : s[i].n = n}

(* A count is a natural number.                                            *)
LEMMA CountNat ==
  ASSUME NEW s \in Seq(AllEvents), NEW n
  PROVE  IsFiniteSet(At(s, n)) /\ Count(s, n) = Cardinality(At(s, n)) /\ Count(s, n) \in Nat
<1>1. IsFiniteSet(1 .. Len(s)) /\ At(s, n) \subseteq 1 .. Len(s)
  BY FS_Interval DEF At
<1>2. IsFiniteSet(At(s, n))
  BY <1>1, FS_Subset
<1> QED BY <1>2, FS_CardinalityType DEF Count, At

(* One more at the end.                                                    *)
LEMMA CountAppend ==
  ASSUME NEW s \in Seq(AllEvents), NEW e \in AllEvents, NEW n
  PROVE  Count(Append(s, e), n) = IF e.n = n THEN Count(s, n) + 1 ELSE Count(s, n)
<1>1. Append(s, e) \in Seq(AllEvents)
  OBVIOUS
<1>2. CASE e.n = n
  <2>1. At(Append(s, e), n) = At(s, n) \cup {Len(s) + 1}
    BY <1>2 DEF At
  <2>2. Len(s) + 1 \notin At(s, n)
    BY DEF At
  <2>3. IsFiniteSet(At(s, n))
    BY CountNat
  <2>4. Cardinality(At(s, n) \cup {Len(s) + 1}) = Cardinality(At(s, n)) + 1
    BY <2>2, <2>3, FS_AddElement
  <2>5. Count(s, n) = Cardinality(At(s, n))
    BY CountNat
  <2>6. Count(Append(s, e), n) = Cardinality(At(Append(s, e), n))
    BY <1>1, CountNat
  <2> QED BY <1>2, <2>1, <2>4, <2>5, <2>6
<1>3. CASE e.n # n
  <2>1. At(Append(s, e), n) = At(s, n)
    BY <1>3 DEF At
  <2> QED BY <1>1, <1>3, <2>1, CountNat
<1> QED BY <1>2, <1>3

(* One fewer at the front: the others move up by one place.                *)
LEMMA CountTail ==
  ASSUME NEW s \in Seq(AllEvents), s # <<>>, NEW n
  PROVE  Count(s, n) = IF Head(s).n = n THEN Count(Tail(s), n) + 1 ELSE Count(Tail(s), n)
<1> DEFINE Rest == At(s, n) \ {1}
           shift == [i \in Rest |-> i - 1]
<1>1. /\ Tail(s) \in Seq(AllEvents) /\ Len(s) \in Nat \ {0}
      /\ Len(Tail(s)) = Len(s) - 1
      /\ \A i \in 1 .. Len(s) - 1 : Tail(s)[i] = s[i + 1]
  OBVIOUS
<1>2. \A i \in Rest : i \in 2 .. Len(s) /\ s[i].n = n
  BY <1>1 DEF At
<1>3. \A i \in Rest : i - 1 \in At(Tail(s), n)
  <2> TAKE i \in Rest
  <2>1. i - 1 \in 1 .. Len(s) - 1 /\ s[(i - 1) + 1].n = n
    BY <1>1, <1>2
  <2> QED BY <1>1, <2>1 DEF At
<1>4. \A j \in At(Tail(s), n) : j + 1 \in Rest /\ j \in Nat
  <2> TAKE j \in At(Tail(s), n)
  <2>1. j \in 1 .. Len(s) - 1 /\ Tail(s)[j].n = n
    BY <1>1 DEF At
  <2>2. j + 1 \in 1 .. Len(s) /\ s[j + 1].n = n /\ j + 1 # 1
    BY <1>1, <2>1
  <2> QED BY <1>1, <2>1, <2>2 DEF At
<1>5. shift \in Bijection(Rest, At(Tail(s), n))
  <2>1. shift \in [Rest -> At(Tail(s), n)]
    BY <1>3
  <2>2. \A i, j \in Rest : shift[i] = shift[j] => i = j
    BY <1>2
  <2>3. \A j \in At(Tail(s), n) : \E i \in Rest : shift[i] = j
    <3> TAKE j \in At(Tail(s), n)
    <3>1. j + 1 \in Rest /\ shift[j + 1] = j
      BY <1>4
    <3> QED BY <3>1
  <2> QED BY <2>1, <2>2, <2>3 DEF Bijection, Injection, Surjection, IsInjective
<1>6. IsFiniteSet(Rest) /\ IsFiniteSet(At(s, n))
  BY CountNat, FS_RemoveElement
<1>7. Cardinality(Rest) = Count(Tail(s), n)
  <2>1. ExistsBijection(Rest, At(Tail(s), n))
    BY <1>5 DEF ExistsBijection
  <2>2. Cardinality(At(Tail(s), n)) = Cardinality(Rest)
    BY ONLY <1>6, <2>1, FS_Bijection
  <2> QED BY <1>1, <2>2, CountNat
<1>8. 1 \in At(s, n) <=> Head(s).n = n
  BY <1>1 DEF At
<1>9. At(s, n) = IF 1 \in At(s, n) THEN Rest \cup {1} ELSE Rest
  OBVIOUS
<1>10. 1 \notin Rest
  OBVIOUS
<1> HIDE DEF Rest
<1> QED BY <1>6, <1>7, <1>8, <1>9, <1>10, CountNat, FS_AddElement

(* Nothing to count.                                                       *)
LEMMA CountNone ==
  ASSUME NEW s \in Seq(AllEvents), NEW n \in Nat, \A i \in 1 .. Len(s) : s[i].n # n
  PROVE  Count(s, n) = 0
<1>1. At(s, n) = {}
  BY DEF At
<1> QED BY <1>1, CountNat, FS_EmptySet

(* The event of a callback is in one queue from then on.                   *)
LEMMA CountStep == ChannelIInv /\ NoEventLost /\ [Next]_vars => NoEventLost'
<1> SUFFICES ASSUME ChannelIInv, NoEventLost, [Next]_vars PROVE NoEventLost'
  OBVIOUS
<1>0. /\ early \in Seq(AllEvents) /\ sent \in Seq(AllEvents) /\ calls \in Nat
      /\ PlaceOK /\ CallsInv /\ CallsInv' /\ RegisteredInv
  BY MaxMessagesAssumption, CallsStep DEF ChannelIInv, QueuesOK, CallsInv, MaxCalls
<1>1. Count(sent, calls + 1) = 0 /\ Count(early, calls + 1) = 0
  <2>1. /\ \A i \in 1 .. Len(sent) : sent[i] \in AllEvents /\ sent[i].n <= calls
        /\ \A i \in 1 .. Len(early) : early[i] \in AllEvents /\ early[i].n <= calls
    BY <1>0 DEF ChannelIInv, OrderInv, Numbered
  <2>2. \A e \in AllEvents : e.n \in Nat
    BY DEF AllEvents
  <2>3. /\ \A i \in 1 .. Len(sent) : sent[i].n # calls + 1
        /\ \A i \in 1 .. Len(early) : early[i].n # calls + 1
    BY <1>0, <2>1, <2>2
  <2> QED BY <1>0, <2>3, CountNone
<1>2. ASSUME calls' = calls + 1,
             \A n \in 1 .. calls :
               Count(sent', n) + Count(early', n) = Count(sent, n) + Count(early, n),
             Count(sent', calls + 1) + Count(early', calls + 1) = 1
      PROVE  NoEventLost'
  <2>1. \A n \in 1 .. calls' : n \in 1 .. calls \/ n = calls + 1
    BY <1>0, <1>2
  <2> QED BY <1>2, <2>1 DEF NoEventLost
<1>3. CASE Stored
  <2> PICK t \in EventTypes : early' = Append(early, Event(t, "early"))
    BY <1>3 DEF Stored
  <2> DEFINE e == Event(t, "early")
  <2>1. e \in AllEvents /\ e.n = calls + 1 /\ sent' = sent /\ calls' = calls + 1
    BY <1>0, <1>3, EventType DEF Stored, Event
  <2> HIDE DEF e
  <2>2. \A n : Count(early', n) = IF calls + 1 = n THEN Count(early, n) + 1 ELSE Count(early, n)
    BY <1>0, <2>1, CountAppend DEF e
  <2>3. \A n \in 1 .. calls : Count(early', n) = Count(early, n)
    BY <1>0, <2>2
  <2>4. Count(early', calls + 1) = 1
    BY <1>1, <2>2
  <2> QED BY <1>1, <1>2, <2>1, <2>3, <2>4
<1>4. CASE Queued
  <2> PICK t \in EventTypes : sent' = Append(sent, Event(t, "wrapper"))
    BY <1>4 DEF Queued
  <2> DEFINE e == Event(t, "wrapper")
  <2>1. e \in AllEvents /\ e.n = calls + 1 /\ early' = early /\ calls' = calls + 1
    BY <1>0, <1>4, EventType DEF Queued, Event
  <2> HIDE DEF e
  <2>2. \A n : Count(sent', n) = IF calls + 1 = n THEN Count(sent, n) + 1 ELSE Count(sent, n)
    BY <1>0, <2>1, CountAppend DEF e
  <2>3. \A n \in 1 .. calls : Count(sent', n) = Count(sent, n)
    BY <1>0, <2>2
  <2>4. Count(sent', calls + 1) = 1
    BY <1>1, <2>2
  <2> QED BY <1>1, <1>2, <2>1, <2>3, <2>4
<1>5. CASE Requeued
  <2>1. /\ early # <<>> /\ early' = Tail(early) /\ sent' = Append(sent, Head(early))
        /\ calls' = calls
    BY <1>5 DEF Requeued
  <2>2. Head(early) \in AllEvents /\ Tail(early) \in Seq(AllEvents)
    BY <1>0, <2>1
  <2> DEFINE e == Head(early)
             rest == Tail(early)
  <2> HIDE DEF e, rest
  <2>3. \A n : /\ Count(sent', n) = IF e.n = n THEN Count(sent, n) + 1 ELSE Count(sent, n)
               /\ Count(early, n) = IF e.n = n THEN Count(rest, n) + 1 ELSE Count(rest, n)
               /\ Count(sent, n) \in Nat /\ Count(rest, n) \in Nat
    BY <1>0, <2>1, <2>2, CountAppend, CountTail, CountNat DEF e, rest
  <2>4. \A n : Count(sent', n) + Count(rest, n) = Count(sent, n) + Count(early, n)
    BY <2>3
  <2> QED BY <2>1, <2>4 DEF NoEventLost, rest
<1>6. CASE Taken
  BY <1>6 DEF Taken, NoEventLost
<1>7. CASE Resting
  BY <1>7 DEF Resting, NoEventLost
<1> QED BY <1>0, <1>3, <1>4, <1>5, <1>6, <1>7, Shapes

(* The hand-over from one observer to the other neither loses nor doubles  *)
(* a callback, whatever happens meanwhile.                                 *)
THEOREM NothingLost == SafeSpec => []NoEventLost
<1>1. Init => NoEventLost
  BY DEF Init, NoEventLost
<1>2. ChannelIInv /\ NoEventLost /\ [Next]_vars => NoEventLost'
  BY CountStep
<1> QED BY <1>1, <1>2, ChannelCorrect, PTL DEF SafeSpec
=============================================================================
