-------------------------- MODULE Foundations_proofs -------------------------
(***************************************************************************)
(* For any number of calling threads, events and Stop calls: the type      *)
(* invariant and the safety properties of EventLoop, and that every        *)
(* behaviour of the loop is a behaviour of a Mailbox (safety); that the    *)
(* wrapped object still runs the EventLoop, its references balance, and it *)
(* outlives its loop on the JavaScript thread.                             *)
(*                                                                         *)
(* And for any set of contexts of such objects, released in any order      *)
(* between any turns of libuv: no release is lost, and N-API's work and    *)
(* contexts are well used.                                                 *)
(*                                                                         *)
(* And for dictionaries, arguments and arrays of any length: what the      *)
(* converters make of the outcomes of their parts; and for every number,   *)
(* which integers of each width it becomes.                                *)
(***************************************************************************)
EXTENDS ObjectWrap, AsyncContextReleaser, SequenceTheorems, FiniteSetTheorems, WellFoundedInduction, TLAPS

USE JSAssumption, NoOpAssumption, NoOneAssumption, MaxStopsAssumption

(***************************************************************************)
(* The inductive invariant.  LockInv ties _lock to the points at which a   *)
(* thread holds it.  JSInv: the JavaScript thread is inside Dispatch only  *)
(* where Run lets JavaScript run.  StopInv: Run leaves the loop early, and *)
(* the handle is closed, only after Stop.  LateInv: the one event taken    *)
(* after Stop is followed by the way out of Run.                           *)
(***************************************************************************)
HoldsLock(c) ==
  \/ pc[c] \in {"check", "send", "unlock"}
  \/ c = JS /\ runPc \in {"close", "closeunlock"}

LockInv == \A c \in Callers : lock = c <=> HoldsLock(c)

JSInv == pc[JS] # "idle" => runPc \in JavaScriptPoints

StopInv ==
  /\ runPc \in {"break", "closelock", "close", "closeunlock"} => should_stop
  /\ handle # "active" => should_stop
  /\ runPc = "closeunlock" => handle # "active"

LateInv ==
  /\ ~should_stop => late = 0
  /\ late \in {0, 1}
  /\ late = 1 => \/ runPc \in {"event", "test", "break", "exit", "closelock", "close"}
                 \/ handle # "active"

ControlInv == LockInv /\ JSInv /\ StopInv /\ LateInv /\ HandleDiscipline

USE DEF CallerPoints, RunPoints, JavaScriptPoints

----------------------------------------------------------------------------
(* Types                                                                   *)

(* Appending to and taking from a queue of items leaves a queue of items.  *)
LEMMA QueueTypes ==
  ASSUME NEW S, NEW q \in Seq(S), NEW x \in S
  PROVE  /\ Append(q, x) \in Seq(S)
         /\ q # <<>> => Tail(q) \in Seq(S) /\ Head(q) \in S
OBVIOUS

(* The state variables keep their types in every step.                     *)
THEOREM TypeCorrect == SafeSpec => []TypeOK
<1>1. Init => TypeOK
  <2> SUFFICES ASSUME Init PROVE TypeOK
    OBVIOUS
  <2>1. <<>> \in Seq(Items)
    OBVIOUS
  <2>2. stops \in 0..MaxStops /\ late \in Nat
    BY DEF Init
  <2> QED BY <2>1, <2>2 DEF Init, TypeOK
<1>2. TypeOK /\ [Next]_vars => TypeOK'
  <2> SUFFICES ASSUME TypeOK, [Next]_vars PROVE TypeOK'
    OBVIOUS
  <2> USE DEF TypeOK, Goto, queueVars, stopVars, asyncVars
  <2>1. ASSUME NEW c \in Callers, NEW e \in Events, Dispatch(c, e) PROVE TypeOK'
    <3>1. e \in Items  BY DEF Items
    <3> QED BY <2>1, <3>1, QueueTypes DEF Dispatch, Enqueue, MayCall
  <2>2. ASSUME NEW c \in Callers, Stop(c) PROVE TypeOK'
    BY <2>2 DEF Stop, MayCall
  <2>3. ASSUME NEW c \in Callers, StopDispatch(c) PROVE TypeOK'
    <3>1. NoOp \in Items  BY DEF Items
    <3> QED BY <2>3, <3>1, QueueTypes DEF StopDispatch, Enqueue
  <2>4. ASSUME NEW c \in Callers, DispatchLock(c) PROVE TypeOK'
    BY <2>4 DEF DispatchLock
  <2>5. ASSUME NEW c \in Callers, DispatchCheck(c) PROVE TypeOK'
    BY <2>5 DEF DispatchCheck
  <2>6. ASSUME NEW c \in Callers, DispatchSend(c) PROVE TypeOK'
    BY <2>6 DEF DispatchSend
  <2>7. ASSUME NEW c \in Callers, DispatchUnlock(c) PROVE TypeOK'
    BY <2>7 DEF DispatchUnlock
  <2>8. CASE RunDequeue
    <3>1. CASE events = <<>>
      BY <2>8, <3>1 DEF RunDequeue
    <3>2. CASE events # <<>>
      <4>1. Tail(events) \in Seq(Items) /\ Head(events) \in Items
        BY <3>2, QueueTypes
      <4>2. Append(taken, Head(events)) \in Seq(Items)
        BY <4>1, QueueTypes
      <4>3. late' \in Nat
        BY <2>8, <3>2 DEF RunDequeue
      <4> QED BY <2>8, <3>2, <4>1, <4>2, <4>3 DEF RunDequeue
    <3> QED BY <3>1, <3>2
  <2>9. CASE RunStart \/ RunEnter \/ RunEventDone \/ RunTest \/ RunTicksDone \/ RunExit
    BY <2>9 DEF RunStart, RunEnter, RunEventDone, RunTest, RunTicksDone, RunExit
  <2>10. CASE RunCloseLock \/ RunClose \/ RunCloseUnlock \/ DidStop
    BY <2>10 DEF RunCloseLock, RunClose, RunCloseUnlock, DidStop
  <2>11. CASE UNCHANGED vars
    BY <2>11 DEF vars
  <2> QED
    BY <2>1, <2>2, <2>3, <2>4, <2>5, <2>6, <2>7, <2>8, <2>9, <2>10, <2>11
    DEF Next, Caller, Run
<1> QED BY <1>1, <1>2, PTL DEF SafeSpec

----------------------------------------------------------------------------
(* _lock, uv_close and the way out of Run                                  *)

(* Each step of a caller and of Run keeps the lock, the handle and the way *)
(* out of Run in order.                                                    *)
LEMMA ControlStep == TypeOK /\ ControlInv /\ [Next]_vars => ControlInv'
<1> SUFFICES ASSUME TypeOK, ControlInv, [Next]_vars PROVE ControlInv'
  OBVIOUS
<1> USE DEF TypeOK, ControlInv, LockInv, HoldsLock, JSInv, StopInv, LateInv,
            HandleDiscipline, Goto, MayCall, queueVars, stopVars, asyncVars
<1>1. ASSUME NEW c \in Callers, NEW e \in Events, Dispatch(c, e) PROVE ControlInv'
  BY <1>1 DEF Dispatch, Enqueue
<1>2. ASSUME NEW c \in Callers, Stop(c) PROVE ControlInv'
  BY <1>2 DEF Stop
<1>3. ASSUME NEW c \in Callers, StopDispatch(c) PROVE ControlInv'
  BY <1>3 DEF StopDispatch, Enqueue
<1>4. ASSUME NEW c \in Callers, DispatchLock(c) PROVE ControlInv'
  BY <1>4 DEF DispatchLock
<1>5. ASSUME NEW c \in Callers, DispatchCheck(c) PROVE ControlInv'
  BY <1>5 DEF DispatchCheck
<1>6. ASSUME NEW c \in Callers, DispatchSend(c) PROVE ControlInv'
  BY <1>6 DEF DispatchSend
<1>7. ASSUME NEW c \in Callers, DispatchUnlock(c) PROVE ControlInv'
  BY <1>7 DEF DispatchUnlock
<1>8. CASE RunStart
  BY <1>8 DEF RunStart
<1>9. CASE RunEnter
  BY <1>9 DEF RunEnter
<1>10. CASE RunDequeue
  BY <1>10 DEF RunDequeue
<1>11. CASE RunEventDone \/ RunTest
  BY <1>11 DEF RunEventDone, RunTest
<1>12. CASE RunTicksDone \/ RunExit
  BY <1>12 DEF RunTicksDone, RunExit
<1>13. CASE RunCloseLock
  BY <1>13 DEF RunCloseLock
<1>14. CASE RunClose
  BY <1>14 DEF RunClose
<1>15. CASE RunCloseUnlock
  BY <1>15 DEF RunCloseUnlock
<1>16. CASE DidStop
  BY <1>16 DEF DidStop
<1>17. CASE UNCHANGED vars
  BY <1>17 DEF vars
<1> QED
  BY <1>1, <1>2, <1>3, <1>4, <1>5, <1>6, <1>7, <1>8, <1>9, <1>10, <1>11, <1>12,
     <1>13, <1>14, <1>15, <1>16, <1>17
  DEF Next, Caller, Run

(* And so they are always.                                                 *)
THEOREM ControlCorrect == SafeSpec => []ControlInv
<1>1. Init => ControlInv
  BY DEF Init, ControlInv, LockInv, HoldsLock, JSInv, StopInv, LateInv,
         HandleDiscipline
<1> QED BY <1>1, ControlStep, TypeCorrect, PTL DEF SafeSpec

(* No thread signals a handle that is being closed; uv_close is called on  *)
(* an open handle only.                                                    *)
THEOREM HandleSafe == SafeSpec => []HandleDiscipline
<1>1. ControlInv => HandleDiscipline
  BY DEF ControlInv
<1> QED BY <1>1, ControlCorrect, PTL

(* At most one event reaches the target after Stop.                        *)
THEOREM LateSafe == SafeSpec => []AtMostOneLate
<1>1. ControlInv => AtMostOneLate
  BY DEF ControlInv, LateInv, AtMostOneLate
<1> QED BY <1>1, ControlCorrect, PTL

----------------------------------------------------------------------------
(* The queue                                                               *)

(* Taking the head of a queue moves it to the end of what was taken.       *)
LEMMA MoveHead ==
  ASSUME NEW S, NEW t \in Seq(S), NEW q \in Seq(S), q # <<>>
  PROVE  Append(t, Head(q)) \o Tail(q) = t \o q
OBVIOUS

(* No event is lost, duplicated or overtaken.                              *)
THEOREM Fifo == SafeSpec => []FifoInv
<1>1. Init => FifoInv
  BY DEF Init, FifoInv
<1>2. TypeOK /\ FifoInv /\ [Next]_vars => FifoInv'
  <2> SUFFICES ASSUME TypeOK, FifoInv, [Next]_vars PROVE FifoInv'
    OBVIOUS
  <2> USE DEF FifoInv
  <2>0. events \in Seq(Items) /\ taken \in Seq(Items)
    BY DEF TypeOK
  <2>1. ASSUME NEW c \in Callers, NEW e \in Events, Dispatch(c, e) PROVE FifoInv'
    <3>1. e \in Items
      BY DEF Items
    <3>2. /\ accepted' = Append(accepted, e)
          /\ events' = Append(events, e)
          /\ taken' = taken
      BY <2>1 DEF Dispatch, Enqueue
    <3>3. Append(taken \o events, e) = taken \o Append(events, e)
      BY ONLY <2>0, <3>1
    <3> QED BY <3>2, <3>3
  <2>2. ASSUME NEW c \in Callers, StopDispatch(c) PROVE FifoInv'
    <3>1. NoOp \in Items
      BY DEF Items
    <3>2. /\ accepted' = Append(accepted, NoOp)
          /\ events' = Append(events, NoOp)
          /\ taken' = taken
      BY <2>2 DEF StopDispatch, Enqueue
    <3>3. Append(taken \o events, NoOp) = taken \o Append(events, NoOp)
      BY ONLY <2>0, <3>1
    <3> QED BY <3>2, <3>3
  <2>3. CASE RunDequeue
    BY <2>0, <2>3, MoveHead DEF RunDequeue
  <2>4. CASE UNCHANGED queueVars
    BY <2>4 DEF queueVars
  <2> QED
    BY <2>1, <2>2, <2>3, <2>4
    DEF Next, Caller, Run, vars, queueVars, Stop, DispatchLock, DispatchCheck,
        DispatchSend, DispatchUnlock, RunStart, RunEnter, RunEventDone, RunTest,
        RunTicksDone, RunExit, RunCloseLock, RunClose, RunCloseUnlock, DidStop
<1> QED BY <1>1, <1>2, TypeCorrect, PTL DEF SafeSpec

(* The two wake-up properties follow from where the threads are.           *)
WakeInv == NoLostWakeup /\ NoLostStop

(* Whoever leaves an event or a stop behind leaves a signal, or finds one. *)
LEMMA WakeStep == TypeOK /\ ControlInv /\ WakeInv /\ [Next]_vars => WakeInv'
<1> SUFFICES ASSUME TypeOK, ControlInv, WakeInv, [Next]_vars PROVE WakeInv'
  OBVIOUS
<1> USE DEF TypeOK, ControlInv, StopInv, LockInv, HoldsLock, HandleDiscipline,
            WakeInv, NoLostWakeup, NoLostStop, WillSignal, WillDequeue, Goto,
            MayCall, queueVars, stopVars, asyncVars
<1>1. ASSUME NEW c \in Callers, NEW e \in Events, Dispatch(c, e) PROVE WakeInv'
  <2>1. WillSignal(c)'
    BY <1>1 DEF Dispatch
  <2> QED BY <2>1
<1>2. ASSUME NEW c \in Callers, Stop(c) PROVE WakeInv'
  <2>1. pc'[c] = "stopping" /\ should_stop'
    BY <1>2 DEF Stop
  <2> QED BY <2>1
<1>3. ASSUME NEW c \in Callers, StopDispatch(c) PROVE WakeInv'
  <2>1. WillSignal(c)'
    BY <1>3 DEF StopDispatch
  <2> QED BY <2>1
<1>4. ASSUME NEW c \in Callers, DispatchLock(c) PROVE WakeInv'
  <2>1. WillSignal(c)'
    BY <1>4 DEF DispatchLock
  <2> QED BY <2>1
<1>5. ASSUME NEW c \in Callers, DispatchCheck(c) PROVE WakeInv'
  <2>1. CASE handle = "active"
    <3>1. WillSignal(c)'
      BY <1>5, <2>1 DEF DispatchCheck
    <3> QED BY <3>1
  <2>2. CASE handle # "active"
    BY <1>5, <2>2 DEF DispatchCheck
  <2> QED BY <2>1, <2>2
<1>6. ASSUME NEW c \in Callers, DispatchSend(c) PROVE WakeInv'
  BY <1>6 DEF DispatchSend
<1>7. ASSUME NEW c \in Callers, DispatchUnlock(c) PROVE WakeInv'
  BY <1>7 DEF DispatchUnlock
<1>8. CASE RunStart \/ RunEnter
  BY <1>8 DEF RunStart, RunEnter
<1>9. CASE RunDequeue
  BY <1>9 DEF RunDequeue
<1>10. CASE RunEventDone \/ RunTest \/ RunTicksDone \/ RunExit
  BY <1>10 DEF RunEventDone, RunTest, RunTicksDone, RunExit
<1>11. CASE RunCloseLock \/ RunClose \/ RunCloseUnlock \/ DidStop
  BY <1>11 DEF RunCloseLock, RunClose, RunCloseUnlock, DidStop
<1>12. CASE UNCHANGED vars
  BY <1>12 DEF vars
<1> QED
  BY <1>1, <1>2, <1>3, <1>4, <1>5, <1>6, <1>7, <1>8, <1>9, <1>10, <1>11, <1>12
  DEF Next, Caller, Run

(* So in every state of every behaviour.                                   *)
LEMMA WakeCorrect == SafeSpec => []WakeInv
<1>1. Init => WakeInv
  BY DEF Init, WakeInv, NoLostWakeup, NoLostStop
<1> QED BY <1>1, WakeStep, TypeCorrect, ControlCorrect, PTL DEF SafeSpec

(* A waiting event is always covered by a signal or by Run.                *)
THEOREM WakeupSafe == SafeSpec => []NoLostWakeup
<1>1. WakeInv => NoLostWakeup
  BY DEF WakeInv
<1> QED BY <1>1, WakeCorrect, PTL

(* A stop request is always on its way to uv_close.                        *)
THEOREM StopSafe == SafeSpec => []NoLostStop
<1>1. WakeInv => NoLostStop
  BY DEF WakeInv
<1> QED BY <1>1, WakeCorrect, PTL

----------------------------------------------------------------------------
(* The loop implements the mailbox                                         *)

(* The head of the queue is the first item accepted and not yet taken.     *)
LEMMA HeadIsNext ==
  ASSUME NEW S, NEW t \in Seq(S), NEW q \in Seq(S), q # <<>>
  PROVE  /\ Len(t) < Len(t \o q)
         /\ (t \o q)[Len(t) + 1] = Head(q)
OBVIOUS

(* A step of the loop is one of the mailbox, or one it does not see.       *)
LEMMA MailboxStep ==
  TypeOK /\ ControlInv /\ FifoInv /\ [Next]_vars => [Box!Next]_(Box!vars)
<1> SUFFICES ASSUME TypeOK, ControlInv, FifoInv, [Next]_vars
             PROVE  Box!Next \/ UNCHANGED Box!vars
  BY DEF Box!vars
<1> USE DEF Box!vars, LeavingRun, queueVars, stopVars, asyncVars
<1>1. ASSUME NEW c \in Callers, NEW e \in Events, Dispatch(c, e) PROVE Box!Next
  <2>1. e \in Items
    BY DEF Items
  <2>2. Box!Send(e)
    BY <1>1 DEF Dispatch, Enqueue, Box!Send
  <2> QED BY <2>1, <2>2 DEF Box!Next
<1>2. ASSUME NEW c \in Callers, StopDispatch(c) PROVE Box!Next
  <2>1. NoOp \in Items
    BY DEF Items
  <2>2. Box!Send(NoOp)
    BY <1>2 DEF StopDispatch, Enqueue, Box!Send
  <2> QED BY <2>1, <2>2 DEF Box!Next
<1>3. ASSUME NEW c \in Callers, Stop(c) PROVE Box!Next
  <2>1. Box!Stop
    BY <1>3 DEF Stop, Box!Stop, TypeOK, ControlInv, StopInv
  <2> QED BY <2>1 DEF Box!Next
<1>4. ASSUME RunDequeue PROVE Box!Next \/ UNCHANGED Box!vars
  <2>0. handle = "active" /\ runPc = "loop"
    BY <1>4 DEF RunDequeue, ControlInv, HandleDiscipline
  <2>1. CASE events = <<>>
    <3>1. CASE should_stop
      BY <1>4, <2>0, <2>1, <3>1 DEF RunDequeue, Box!Notice, Box!Next
    <3>2. CASE ~should_stop
      BY <1>4, <2>0, <2>1, <3>2 DEF RunDequeue
    <3> QED BY <3>1, <3>2
  <2>2. CASE events # <<>>
    <3>1. Len(taken) < Len(accepted) /\ accepted[Len(taken) + 1] = Head(events)
      BY <2>2, HeadIsNext DEF TypeOK, FifoInv
    <3>2. Box!Waiting /\ Box!NextItem = Head(events)
      BY <3>1 DEF Box!Waiting, Box!NextItem
    <3>3. taken' = Append(taken, Box!NextItem)
      BY <1>4, <2>2, <3>2 DEF RunDequeue
    <3>4. runPc' = "event" /\ UNCHANGED <<accepted, should_stop, handle>>
      BY <1>4, <2>2 DEF RunDequeue
    <3>5. should_stop \in BOOLEAN
      BY DEF TypeOK
    <3>6. Box!Receive
      BY <2>0, <3>2, <3>3, <3>4, <3>5 DEF Box!Receive
    <3> QED BY <3>6 DEF Box!Next
  <2> QED BY <2>1, <2>2
<1>5. ASSUME RunTest PROVE Box!Next
  <2>1. Box!Done
    BY <1>5 DEF RunTest, Box!Done, ControlInv, HandleDiscipline, TypeOK
  <2> QED BY <2>1 DEF Box!Next
<1>6. ASSUME RunEnter PROVE Box!Next \/ UNCHANGED Box!vars
  <2>1. CASE should_stop
    BY <1>6, <2>1 DEF RunEnter, Box!Notice, Box!Next, ControlInv, HandleDiscipline
  <2>2. CASE ~should_stop
    BY <1>6, <2>2 DEF RunEnter
  <2> QED BY <2>1, <2>2
<1>7. ASSUME RunClose PROVE Box!Next
  <2>1. should_stop /\ handle = "active"
    BY <1>7 DEF RunClose, ControlInv, StopInv, HandleDiscipline
  <2>2. Box!Close
    BY <1>7, <2>1 DEF RunClose, Box!Close
  <2> QED BY <2>2 DEF Box!Next
<1>8. ASSUME RunStart \/ RunEventDone \/ RunTicksDone \/ RunExit
      PROVE  UNCHANGED Box!vars
  BY <1>8 DEF RunStart, RunEventDone, RunTicksDone, RunExit, ControlInv, StopInv,
              HandleDiscipline
<1>9. ASSUME RunCloseLock \/ RunCloseUnlock \/ DidStop PROVE UNCHANGED Box!vars
  BY <1>9 DEF RunCloseLock, RunCloseUnlock, DidStop, ControlInv, StopInv
<1>10. ASSUME UNCHANGED <<queueVars, stopVars, handle, runPc>> PROVE UNCHANGED Box!vars
  BY <1>10
<1> QED
  BY <1>1, <1>2, <1>3, <1>4, <1>5, <1>6, <1>7, <1>8, <1>9, <1>10
  DEF Next, Caller, Run, vars, DispatchLock, DispatchCheck, DispatchSend,
      DispatchUnlock

(* Every behaviour of the loop is a behaviour of the mailbox.              *)
THEOREM Refinement == SafeSpec => IsSafeMailbox
<1>1. Init => Box!Init
  BY DEF Init, LeavingRun, Box!Init
<1> QED
  BY <1>1, MailboxStep, TypeCorrect, ControlCorrect, Fifo, PTL
  DEF SafeSpec, IsSafeMailbox, Box!SafeSpec

----------------------------------------------------------------------------
(* The object around the loop                                              *)

----------------------------------------------------------------------------
(* The life of the object adds nothing to the loop's steps.                *)
LEMMA WrapStep == [WrapNext]_allVars => [Next]_vars
<1> SUFFICES ASSUME [WrapNext]_allVars PROVE [Next]_vars
  OBVIOUS
<1>1. ASSUME NEW c \in Callers, WrapCall(c) PROVE Next
  BY <1>1 DEF WrapCall, Next, Caller
<1>2. ASSUME NEW c \in Callers, WrapFinishCall(c) PROVE Next
  BY <1>2 DEF WrapFinishCall, FinishCall, Next, Caller
<1>3. ASSUME WrapRun PROVE Next
  BY <1>3 DEF WrapRun, Next
<1>4. ASSUME WrapDidStop PROVE Next
  BY <1>4 DEF WrapDidStop, Next, Run
<1>5. ASSUME Ref \/ Unref \/ Forget \/ Remember \/ Collect PROVE UNCHANGED vars
  BY <1>5 DEF Ref, Unref, Forget, Remember, Collect
<1> QED BY <1>1, <1>2, <1>3, <1>4, <1>5 DEF WrapNext, allVars

(* Whatever EventLoop promises holds of the loop inside the object.        *)
THEOREM WrapIsLoop == WrapSafeSpec => SafeSpec
<1>1. WrapInit => Init
  BY DEF WrapInit
<1> QED BY <1>1, WrapStep, PTL DEF WrapSafeSpec, SafeSpec

----------------------------------------------------------------------------
(***************************************************************************)
(* A caller's step leaves the handle alone; it is made by a thread that is *)
(* inside a call, or begins one.                                           *)
(***************************************************************************)
LEMMA CallerStep ==
  ASSUME TypeOK, NEW c \in Callers, WrapCall(c) \/ WrapFinishCall(c)
  PROVE  /\ UNCHANGED <<handle, runPc, wrapVars>>
         /\ alive \/ pc[c] # "idle"
         /\ \A d \in Callers \ {c} : pc'[d] = pc[d]
<1>1. CASE WrapCall(c)
  BY <1>1 DEF WrapCall, Dispatch, Stop, Goto, TypeOK, asyncVars
<1>2. CASE WrapFinishCall(c)
  BY <1>2 DEF WrapFinishCall, FinishCall, StopDispatch, DispatchLock, DispatchCheck,
              DispatchSend, DispatchUnlock, Goto, TypeOK, asyncVars
<1> QED BY <1>1, <1>2

(* Run goes on with a handle that is closed only if it was.                *)
LEMMA RunStep ==
  ASSUME TypeOK, ControlInv, WrapRun
  PROVE  /\ handle' = "closed" <=> handle = "closed"
         /\ handle = "closed" => runPc' = "poll"
         /\ UNCHANGED <<pc, wrapVars>>
  BY DEF WrapRun, Run, RunStart, RunEnter, RunDequeue, RunEventDone, RunTest,
         RunTicksDone, RunExit, RunCloseLock, RunClose, RunCloseUnlock, DidStop,
         ControlInv, HandleDiscipline, TypeOK, asyncVars

(***************************************************************************)
(* The invariant: the references are those of the peer connection and of   *)
(* the loop, and an object without references that has been collected has  *)
(* nobody inside it on the JavaScript thread, who could only have come in  *)
(* while it lived.                                                         *)
(***************************************************************************)
RefsTyped == refs \in Nat /\ owned \in BOOLEAN
WrapInv ==
  /\ RefsTyped
  /\ RefsBalance
  /\ OutlivesLoop

(* The loop, the peer connection and V8 keep it.                           *)
LEMMA WrapInvStep ==
  TypeOK /\ ControlInv /\ WrapInv /\ [WrapNext]_allVars => WrapInv'
<1> SUFFICES ASSUME TypeOK, ControlInv, WrapInv, [WrapNext]_allVars PROVE WrapInv'
  OBVIOUS
<1> USE DEF WrapInv, RefsTyped, RefsBalance, OutlivesLoop
<1>1. ASSUME NEW c \in Callers, WrapCall(c) \/ WrapFinishCall(c) PROVE WrapInv'
  <2>1. /\ UNCHANGED <<handle, runPc, wrapVars>>
        /\ alive \/ pc[c] # "idle"
        /\ \A d \in Callers \ {c} : pc'[d] = pc[d]
    BY <1>1, CallerStep
  <2>2. refs' = refs /\ owned' = owned /\ alive' = alive
    BY <2>1 DEF wrapVars
  <2>3. WrapCall(c) => alive
    BY DEF WrapCall
  <2>4. CASE c = JS
    BY <2>1, <2>2, <2>3, <2>4
  <2>5. CASE c # JS
    <3>1. pc'[JS] = pc[JS]
      BY <2>1, <2>5, JSAssumption
    <3>2. RefsBalance'
      BY <2>1, <2>2
    <3>3. OutlivesLoop'
      BY <2>1, <2>2, <3>1
    <3>4. RefsTyped'
      BY <2>2
    <3> QED BY <3>2, <3>3, <3>4
  <2> QED BY <2>4, <2>5
<1>2. ASSUME WrapRun PROVE WrapInv'
  <2>1. /\ handle' = "closed" <=> handle = "closed"
        /\ handle = "closed" => runPc' = "poll"
        /\ UNCHANGED <<pc, wrapVars>>
    BY <1>2, RunStep
  <2>2. refs' = refs /\ owned' = owned /\ alive' = alive
    BY <2>1 DEF wrapVars
  <2> QED BY <2>1, <2>2
<1>3. ASSUME WrapDidStop PROVE WrapInv'
  BY <1>3 DEF WrapDidStop, DidStop
<1>4. ASSUME Ref PROVE WrapInv'
  BY <1>4 DEF Ref, vars
<1>5. ASSUME Unref PROVE WrapInv'
  <2>1. owned = TRUE /\ owned' = FALSE /\ refs' = refs - 1
    BY <1>5 DEF Unref
  <2>2. UNCHANGED <<handle, runPc, pc, alive>>
    BY <1>5 DEF Unref, vars
  <2>3. RefsBalance'
    BY <2>1, <2>2
  <2>4. OutlivesLoop'
    BY <2>2
  <2>5. RefsTyped'
    <3>1. refs' = 0 \/ refs' = 1
      BY <2>1, <2>2
    <3>2. refs' \in Nat
      BY <3>1
    <3> QED BY <2>1, <3>2
  <2> QED BY <2>3, <2>4, <2>5
<1>6. ASSUME Forget \/ Remember PROVE WrapInv'
  BY <1>6 DEF Forget, Remember, vars
<1>7. ASSUME Collect PROVE WrapInv'
  <2>1. handle = "closed" /\ pc[JS] = "idle"
    BY <1>7 DEF Collect, JavaScriptRuns
  <2>2. runPc = "poll"
    BY <1>7, <2>1 DEF Collect, JavaScriptRuns, JavaScriptPoints, ControlInv,
                      HandleDiscipline
  <2> QED BY <1>7, <2>1, <2>2 DEF Collect, vars
<1>8. ASSUME UNCHANGED allVars PROVE WrapInv'
  BY <1>8 DEF allVars, vars, wrapVars
<1> QED
  BY <1>1, <1>2, <1>3, <1>4, <1>5, <1>6, <1>7, <1>8 DEF WrapNext

(* It holds from the constructor on.                                       *)
LEMMA WrapInvCorrect == WrapSafeSpec => []WrapInv
<1>1. WrapInit => WrapInv
  <2> SUFFICES ASSUME WrapInit PROVE WrapInv
    OBVIOUS
  <2>1. refs = 1 /\ owned = FALSE /\ alive = TRUE /\ handle = "active"
    BY DEF WrapInit, Init
  <2>2. RefsBalance
    BY <2>1 DEF RefsBalance
  <2>3. OutlivesLoop
    BY <2>1 DEF OutlivesLoop
  <2>4. RefsTyped
    BY <2>1 DEF RefsTyped
  <2> QED BY <2>2, <2>3, <2>4 DEF WrapInv
<1> QED
  BY <1>1, WrapInvStep, WrapIsLoop, TypeCorrect, ControlCorrect, PTL
  DEF WrapSafeSpec

(* A reference for the peer connection and one for the loop, at any time.  *)
THEOREM ReferencesBalance == WrapSafeSpec => []RefsBalance
<1>1. WrapInv => RefsBalance
  BY DEF WrapInv
<1> QED BY <1>1, WrapInvCorrect, PTL

(* The JavaScript thread and libuv never meet a collected object.          *)
THEOREM LoopOutlived == WrapSafeSpec => []OutlivesLoop
<1>1. WrapInv => OutlivesLoop
  BY DEF WrapInv
<1> QED BY <1>1, WrapInvCorrect, PTL

(* The type invariant of the object and the loop inside it.                *)
THEOREM WrapTypeCorrect == WrapSafeSpec => []WrapTypeOK
<1>1. WrapInit => reachable \in BOOLEAN /\ alive \in BOOLEAN
  BY DEF WrapInit
<1> DEFINE Flags == reachable \in BOOLEAN /\ alive \in BOOLEAN
<1>2. Flags /\ [WrapNext]_allVars => Flags'
  BY DEF WrapNext, allVars, wrapVars, WrapCall, WrapFinishCall, WrapRun, WrapDidStop,
         Ref, Unref, Forget, Remember, Collect
<1>3. TypeOK /\ WrapInv /\ Flags => WrapTypeOK
  BY DEF WrapInv, RefsTyped, RefsBalance, WrapTypeOK
<1> HIDE DEF Flags
<1> QED
  BY <1>1, <1>2, <1>3, WrapIsLoop, TypeCorrect, WrapInvCorrect, PTL
  DEF WrapSafeSpec, Flags

----------------------------------------------------------------------------
(* The contexts of objects that have been collected                        *)

(***************************************************************************)
(* The inductive invariant.  FlagInv, that _work_mutex is taken exactly    *)
(* while the work is under way, carries the rest: only then may the one    *)
(* who finds it taken rely on the work that is under way.                  *)
(***************************************************************************)
FlagInv == work_mutex <=> work # "idle"

ReleaserInv ==
  /\ ReleaserTypeOK /\ FlagInv
  /\ NoLostRelease /\ QueueFaithful /\ WellUsed

----------------------------------------------------------------------------
(* What a queue holds after one more has been put into it.                 *)
LEMMA ElementsOfAppend ==
  ASSUME NEW S, NEW q \in Seq(S), NEW x \in S, NEW y
  PROVE  /\ Append(q, x) \in Seq(S)
         /\ (\E i \in DOMAIN Append(q, x) : Append(q, x)[i] = y)
              <=> y = x \/ \E i \in DOMAIN q : q[i] = y
<1>1. Append(q, x) \in Seq(S) /\ Len(Append(q, x)) = Len(q) + 1
  OBVIOUS
<1>2. \A i \in 1..Len(q) : Append(q, x)[i] = q[i]
  OBVIOUS
<1>3. Append(q, x)[Len(q) + 1] = x
  OBVIOUS
<1>4. DOMAIN q = 1..Len(q) /\ Len(q) \in Nat
  OBVIOUS
<1>5. DOMAIN Append(q, x) = 1..(Len(q) + 1)
  BY <1>1
<1>6. 1..(Len(q) + 1) = (1..Len(q)) \cup {Len(q) + 1}
  BY <1>4
<1> QED BY ONLY <1>1, <1>2, <1>3, <1>4, <1>5, <1>6

(* Release queues the work unless it is under way.                         *)
LEMMA ReleaseStep ==
  ASSUME ReleaserInv, NEW c \in Contexts, Release(c)
  PROVE  ReleaserInv'
<1> USE DEF ReleaserInv, ReleaserTypeOK
<1>1. /\ state[c] = "live"
      /\ state' = [state EXCEPT ![c] = "released"]
      /\ contexts' = Append(contexts, c)
  BY DEF Release
<1>2. work' # "idle" /\ work' \in {"idle", "queued", "done"} /\ work_mutex' = TRUE
  BY DEF Release, Queue, FlagInv
<1>3. misused' = FALSE
  BY DEF Release, Queue, FlagInv, WellUsed
<1>4. contexts' \in Seq(Contexts)
  BY <1>1, ElementsOfAppend
<1>5. state' \in [Contexts -> {"live", "released", "deleted"}]
  BY <1>1
<1>6. QueueFaithful'
  <2> SUFFICES ASSUME NEW d \in Contexts
               PROVE  state'[d] = "released" <=> \E i \in DOMAIN contexts' : contexts'[i] = d
    BY DEF QueueFaithful
  <2>1. (\E i \in DOMAIN contexts' : contexts'[i] = d)
          <=> d = c \/ \E i \in DOMAIN contexts : contexts[i] = d
    BY <1>1, ElementsOfAppend
  <2>2. state[d] = "released" <=> \E i \in DOMAIN contexts : contexts[i] = d
    BY DEF QueueFaithful
  <2>3. state'[d] = IF d = c THEN "released" ELSE state[d]
    BY <1>1
  <2> QED BY ONLY <2>1, <2>2, <2>3
<1>7. FlagInv' /\ NoLostRelease' /\ WellUsed'
  BY <1>2, <1>3 DEF FlagInv, NoLostRelease, WellUsed
<1> QED BY <1>2, <1>3, <1>4, <1>5, <1>6, <1>7

(* CallExecute deletes what has been released, and nothing else.           *)
LEMMA ExecuteStep ==
  ASSUME ReleaserInv, CallExecute
  PROVE  ReleaserInv'
<1> USE DEF ReleaserInv, ReleaserTypeOK
<1>1. work' = "idle" /\ work_mutex' = FALSE /\ contexts' = <<>>
  BY DEF CallExecute, Execute
<1>2. /\ state' = [c \in Contexts |->
           IF c \in Elements(contexts) THEN "deleted" ELSE state[c]]
      /\ misused' = (misused \/ \E c \in Elements(contexts) : state[c] # "released")
  BY DEF CallExecute, Execute, Delete
<1>3. \A c \in Contexts : c \in Elements(contexts) <=> state[c] = "released"
  BY DEF QueueFaithful, Elements
<1>4. Elements(contexts) \subseteq Contexts
  BY DEF Elements
<1>5. misused' = FALSE
  BY <1>2, <1>3, <1>4 DEF WellUsed
<1>6. state' \in [Contexts -> {"live", "released", "deleted"}]
  BY <1>2
<1>7. \A c \in Contexts : state'[c] # "released"
  BY <1>2, <1>3
<1>8. contexts' \in Seq(Contexts) /\ DOMAIN contexts' = {}
  BY <1>1
<1>9. QueueFaithful'
  BY <1>7, <1>8 DEF QueueFaithful
<1>10. FlagInv' /\ NoLostRelease' /\ WellUsed'
  BY <1>1, <1>5 DEF FlagInv, NoLostRelease, WellUsed
<1> QED BY <1>1, <1>5, <1>6, <1>8, <1>9, <1>10

(* The invariant, whatever the destructors and libuv do.                   *)
THEOREM ReleaserCorrect == ReleaserSafeSpec => []ReleaserInv
<1>1. ReleaserInit => ReleaserInv
  <2> SUFFICES ASSUME ReleaserInit PROVE ReleaserInv
    OBVIOUS
  <2>1. contexts = <<>> /\ DOMAIN contexts = {} /\ contexts \in Seq(Contexts)
    BY DEF ReleaserInit
  <2>2. state \in [Contexts -> {"live", "released", "deleted"}]
    BY DEF ReleaserInit
  <2>3. \A c \in Contexts : state[c] # "released"
    BY DEF ReleaserInit
  <2>4. work_mutex = FALSE /\ work = "idle" /\ misused = FALSE
    BY DEF ReleaserInit
  <2>5. QueueFaithful
    BY <2>1, <2>3 DEF QueueFaithful
  <2> QED BY <2>1, <2>2, <2>4, <2>5
          DEF ReleaserInv, ReleaserTypeOK, FlagInv, NoLostRelease,
              WellUsed
<1>2. ReleaserInv /\ [ReleaserNext]_releaserVars => ReleaserInv'
  <2> SUFFICES ASSUME ReleaserInv, [ReleaserNext]_releaserVars PROVE ReleaserInv'
    OBVIOUS
  <2>1. ASSUME NEW c \in Contexts, Release(c) PROVE ReleaserInv'
    BY <2>1, ReleaseStep
  <2>2. ASSUME DoNothing PROVE ReleaserInv'
    BY <2>2 DEF DoNothing, ReleaserInv, ReleaserTypeOK, FlagInv,
                NoLostRelease, QueueFaithful, WellUsed
  <2>3. ASSUME CallExecute PROVE ReleaserInv'
    BY <2>3, ExecuteStep
  <2>4. ASSUME UNCHANGED releaserVars PROVE ReleaserInv'
    BY <2>4 DEF releaserVars, ReleaserInv, ReleaserTypeOK, FlagInv,
                NoLostRelease, QueueFaithful, WellUsed
  <2> QED BY <2>1, <2>2, <2>3, <2>4 DEF ReleaserNext
<1> QED BY <1>1, <1>2, PTL DEF ReleaserSafeSpec

(* The variables keep their types.                                         *)
THEOREM ReleaserTypeCorrect == ReleaserSafeSpec => []ReleaserTypeOK
<1>1. ReleaserInv => ReleaserTypeOK
  BY DEF ReleaserInv
<1> QED BY <1>1, ReleaserCorrect, PTL

(* No release is lost, though only the first of several queues the work.   *)
THEOREM ReleaseNotLost == ReleaserSafeSpec => []NoLostRelease
<1>1. ReleaserInv => NoLostRelease
  BY DEF ReleaserInv
<1> QED BY <1>1, ReleaserCorrect, PTL

(* The queue is exactly what has been released and not been deleted.       *)
THEOREM ReleaseQueued == ReleaserSafeSpec => []QueueFaithful
<1>1. ReleaserInv => QueueFaithful
  BY DEF ReleaserInv
<1> QED BY <1>1, ReleaserCorrect, PTL

(* The work is queued when it is idle, each context is deleted once.       *)
THEOREM ReleaserWellUsed == ReleaserSafeSpec => []WellUsed
<1>1. ReleaserInv => WellUsed
  BY DEF ReleaserInv
<1> QED BY <1>1, ReleaserCorrect, PTL

(***************************************************************************)
(* src/src/converters and src/src/functional, with the widths that the C++ *)
(* types really have.  What Validation's recursive function computes is    *)
(* reasoned about through the least index at which a claim would fail.     *)
(***************************************************************************)
Widths == [w \in {8, 16, 32, 64} |-> w]
C == INSTANCE Converters WITH Bits <- Widths

(* Every nonempty set of natural numbers has a least one.                  *)
LEMMA Least ==
  ASSUME NEW T, T \subseteq Nat, T # {}
  PROVE  \E n \in T : \A m \in T : n <= m
<1> DEFINE R == OpToRel(<, Nat)
<1>1. IsWellFoundedOn(R, Nat)
  BY NatLessThanWellFounded
<1>2. PICK x \in T : \A y \in T : ~(<<y, x>> \in R)
  BY <1>1, WFMin
<1>3. \A y \in T : ~(y < x)
  BY <1>2 DEF OpToRel
<1> QED BY <1>3

(* f is what the curried function has become after each of m arguments.    *)
Binds(given, m, f) ==
  f = [n \in 0 .. m |-> IF n = 0 THEN C!Valid(<<>>) ELSE C!Apply(f[n - 1], given[n])]

(* There is such a function, so that CHOOSE finds it.                      *)
LEMMA BindingExists ==
  ASSUME NEW given, NEW m \in Nat
  PROVE  \E f : Binds(given, m, f)
<1> DEFINE T == {n \in Nat : ~ \E f : Binds(given, n, f)}
<1>1. SUFFICES ASSUME T # {} PROVE FALSE
  OBVIOUS
<1>2. PICK n \in T : \A k \in T : n <= k
  BY <1>1, Least
<1>3. n # 0
  <2> DEFINE g == [k \in 0 .. 0 |-> C!Valid(<<>>)]
  <2>1. Binds(given, 0, g)
    BY DEF Binds
  <2> QED BY <2>1
<1>4. n \in Nat /\ n - 1 \in Nat /\ n - 1 \notin T
  <2>1. n \in Nat
    BY <1>2
  <2>2. n - 1 \in Nat /\ ~(n <= n - 1)
    BY <1>3, <2>1
  <2> QED BY <1>2, <2>1, <2>2
<1>5. PICK g : Binds(given, n - 1, g)
  BY <1>4
<1> DEFINE h == [k \in 0 .. n |-> IF k = n THEN C!Apply(g[n - 1], given[n]) ELSE g[k]]
<1>6. \A k \in 0 .. n - 1 : g[k] = IF k = 0 THEN C!Valid(<<>>) ELSE C!Apply(g[k - 1], given[k])
  BY <1>5 DEF Binds
<1>7. h = [k \in 0 .. n |-> IF k = 0 THEN C!Valid(<<>>) ELSE C!Apply(h[k - 1], given[k])]
  <2>1. \A k \in 0 .. n : h[k] = IF k = 0 THEN C!Valid(<<>>) ELSE C!Apply(h[k - 1], given[k])
    BY <1>3, <1>4, <1>6
  <2> HIDE DEF h
  <2>2. h = [k \in 0 .. n |-> h[k]]
    BY DEF h
  <2> QED BY <2>1, <2>2
<1>8. Binds(given, n, h)
  <2> HIDE DEF h
  <2> QED BY <1>7 DEF Binds
<1> QED BY <1>8

(* Curried(given) is its last value.                                       *)
LEMMA CurriedBinds ==
  ASSUME NEW given, Len(given) \in Nat
  PROVE  \E f : Binds(given, Len(given), f) /\ C!Curried(given) = f[Len(given)]
<1> DEFINE f == CHOOSE g : Binds(given, Len(given), g)
<1>1. Binds(given, Len(given), f)
  BY BindingExists
<1>2. C!Curried(given) = f[Len(given)]
  BY DEF C!Curried, Binds
<1> HIDE DEF f
<1> QED BY <1>1, <1>2

(* What a conversion ends in: a value, errors from E, or an exception.     *)
Outcome(a, E) == \/ \E v : a = C!Valid(v)
                 \/ \E es \in Seq(E) : a = C!Invalid(es)
                 \/ a = C!Thrown

(* es is the errors of the first n outcomes, one list after the other.     *)
Joins(given, n, es) ==
  \E at \in [0 .. n -> 0 .. Len(es)] :
    /\ at[0] = 0 /\ Len(es) = at[n]
    /\ \A i \in 1 .. n :
         /\ at[i] = at[i - 1] + Len(given[i].errors)
         /\ \A k \in 1 .. Len(given[i].errors) : es[at[i - 1] + k] = given[i].errors[k]

(* Its parts.                                                              *)
LEMMA OutcomeIs ==
  ASSUME NEW E, NEW a, Outcome(a, E)
  PROVE  /\ a.is \in {"valid", "invalid", "thrown"} /\ a.errors \in Seq(E)
         /\ a.is = "valid" => a.errors = <<>> /\ a = C!Valid(a.value)
         /\ a.is = "invalid" => a = C!Invalid(a.errors)
         /\ a.is = "thrown" => a = C!Thrown
<1>1. /\ C!Thrown.is = "thrown" /\ C!Thrown.errors = <<>>
      /\ \A v : C!Valid(v).is = "valid" /\ C!Valid(v).value = v /\ C!Valid(v).errors = <<>>
      /\ \A es : C!Invalid(es).is = "invalid" /\ C!Invalid(es).errors = es
  BY DEF C!Thrown, C!Valid, C!Invalid
<1>2. <<>> \in Seq(E)
  OBVIOUS
<1>3. CASE a = C!Thrown
  <2>1. a.is = "thrown" /\ a.errors = <<>>
    BY <1>1, <1>3
  <2> QED BY <1>2, <1>3, <2>1
<1>4. ASSUME NEW v, a = C!Valid(v)
      PROVE  a.is = "valid" /\ a.errors = <<>> /\ a = C!Valid(a.value)
  BY <1>1, <1>4
<1>5. ASSUME NEW es \in Seq(E), a = C!Invalid(es)
      PROVE  a.is = "invalid" /\ a.errors \in Seq(E) /\ a = C!Invalid(a.errors)
  BY <1>1, <1>5
<1> QED BY <1>2, <1>3, <1>4, <1>5 DEF Outcome

(* Length and elements of a sequence.                                      *)
LEMMA ElementsIn ==
  ASSUME NEW S, NEW q \in Seq(S)
  PROVE  Len(q) \in Nat /\ \A i \in 1 .. Len(q) : q[i] \in S
  OBVIOUS

(* A sequence is its last element after the rest of it.                    *)
LEMMA AppendLast ==
  ASSUME NEW n \in Nat \ {0}, NEW W, NEW g \in [1 .. n -> W]
  PROVE  Append([i \in 1 .. n - 1 |-> g[i]], g[n]) = g
<1> DEFINE h == [i \in 1 .. n - 1 |-> g[i]]
<1>1. h \in Seq(W) /\ Len(h) = n - 1 /\ \A i \in 1 .. n - 1 : h[i] = g[i]
  OBVIOUS
<1> HIDE DEF h
<1>2. g[n] \in W /\ g \in Seq(W) /\ Len(g) = n
  OBVIOUS
<1>3. Append(h, g[n]) = g
  BY <1>1, <1>2
<1> QED BY <1>3 DEF h

(* One more list.                                                          *)
LEMMA JoinsOneMore ==
  ASSUME NEW E, NEW given, NEW n \in Nat, NEW es \in Seq(E), Joins(given, n, es),
         \A i \in 1 .. n + 1 : given[i].errors \in Seq(E)
  PROVE  Joins(given, n + 1, es \o given[n + 1].errors)
<1> DEFINE more == given[n + 1].errors
           all == es \o more
<1>1. PICK at \in [0 .. n -> 0 .. Len(es)] :
        /\ at[0] = 0 /\ Len(es) = at[n]
        /\ \A i \in 1 .. n :
             /\ at[i] = at[i - 1] + Len(given[i].errors)
             /\ \A k \in 1 .. Len(given[i].errors) : es[at[i - 1] + k] = given[i].errors[k]
  BY DEF Joins
<1>2. more \in Seq(E) /\ Len(more) \in Nat /\ Len(es) \in Nat
  <2>1. n + 1 \in 1 .. n + 1
    OBVIOUS
  <2>2. more \in Seq(E)
    BY <2>1
  <2> HIDE DEF more
  <2> QED BY <2>2
<1>3. /\ Len(all) = Len(es) + Len(more)
      /\ \A k \in 1 .. Len(es) : all[k] = es[k]
      /\ \A k \in 1 .. Len(more) : all[Len(es) + k] = more[k]
  <2> HIDE DEF more
  <2> QED BY <1>2
<1> HIDE DEF all, more
<1> DEFINE to == [i \in 0 .. n + 1 |-> IF i = n + 1 THEN at[n] + Len(more) ELSE at[i]]
<1>4. /\ to \in [0 .. n + 1 -> 0 .. Len(all)] /\ to[0] = 0 /\ Len(all) = to[n + 1]
      /\ \A i \in 0 .. n : to[i] = at[i]
      /\ to[n + 1] = at[n] + Len(more)
  BY <1>1, <1>2, <1>3
<1> HIDE DEF to
<1>5. ASSUME NEW i \in 1 .. n
      PROVE  /\ to[i] = to[i - 1] + Len(given[i].errors)
             /\ \A k \in 1 .. Len(given[i].errors) : all[to[i - 1] + k] = given[i].errors[k]
  <2>1. /\ i - 1 \in 0 .. n /\ i \in 0 .. n /\ i \in 1 .. n + 1
        /\ to[i - 1] = at[i - 1] /\ to[i] = at[i]
        /\ at[i - 1] \in Nat /\ at[i] \in 0 .. Len(es)
    BY <1>1, <1>2, <1>4
  <2>2. Len(given[i].errors) \in Nat /\ at[i] = at[i - 1] + Len(given[i].errors)
    <3>1. given[i].errors \in Seq(E)
      BY <2>1
    <3> QED BY <1>1, <3>1
  <2>3. \A k \in 1 .. Len(given[i].errors) : at[i - 1] + k \in 1 .. Len(es)
    <3> DEFINE m == Len(given[i].errors)
    <3> HIDE DEF m
    <3>1. m \in Nat /\ at[i] = at[i - 1] + m
      BY <2>2 DEF m
    <3>2. \A k \in 1 .. m : at[i - 1] + k \in 1 .. Len(es)
      BY <1>2, <2>1, <3>1
    <3> QED BY <3>2 DEF m
  <2> QED BY <1>1, <1>3, <2>1, <2>3
<1>6. /\ to[n + 1] = to[n + 1 - 1] + Len(more)
      /\ \A k \in 1 .. Len(more) : all[to[n + 1 - 1] + k] = more[k]
  BY <1>1, <1>3, <1>4
<1>7. \A i \in 1 .. n + 1 : i \in 1 .. n \/ i = n + 1
  OBVIOUS
<1>8. \A i \in 1 .. n + 1 :
        /\ to[i] = to[i - 1] + Len(given[i].errors)
        /\ \A k \in 1 .. Len(given[i].errors) : all[to[i - 1] + k] = given[i].errors[k]
  <2>1. ASSUME NEW i \in 1 .. n + 1
        PROVE  /\ to[i] = to[i - 1] + Len(given[i].errors)
               /\ \A k \in 1 .. Len(given[i].errors) : all[to[i - 1] + k] = given[i].errors[k]
    <3>1. CASE i \in 1 .. n
      BY <1>5, <3>1
    <3>2. CASE i = n + 1
      <4>1. given[i].errors = more
        BY <3>2 DEF more
      <4> QED BY <1>6, <3>2, <4>1
    <3> QED BY <1>7, <3>1, <3>2
  <2> QED BY <2>1
<1> QED BY <1>4, <1>8 DEF Joins, all, more

(* What has come of the first n of the outcomes given.                     *)
Bound(given, n, c) ==
  LET mine == 1 .. n IN
    /\ (\E i \in mine : given[i].is = "thrown") => c = C!Thrown
    /\ (\A i \in mine : C!IsValid(given[i])) => c = C!Valid([i \in mine |-> given[i].value])
    /\ (\A i \in mine : given[i].is # "thrown") /\ (\E i \in mine : ~C!IsValid(given[i]))
         => c = C!Invalid(c.errors) /\ Joins(given, n, c.errors)

(* One more outcome.                                                       *)
LEMMA BoundOneMore ==
  ASSUME NEW E, NEW S, \A a \in S : Outcome(a, E), NEW given \in Seq(S),
         NEW n \in 1 .. Len(given), NEW c,
         Bound(given, n - 1, c), c.errors \in Seq(E)
  PROVE  Bound(given, n, C!Apply(c, given[n])) /\ C!Apply(c, given[n]).errors \in Seq(E)
<1> DEFINE a == given[n]
           d == C!Apply(c, a)
<1>0. Len(given) \in Nat /\ \A i \in 1 .. Len(given) : Outcome(given[i], E)
  BY ElementsIn
<1>1. /\ n - 1 \in Nat /\ n - 1 + 1 = n
      /\ 1 .. n = (1 .. n - 1) \cup {n} /\ 1 .. n \subseteq 1 .. Len(given)
  <2> HIDE DEF a, d
  <2>1. n \in Nat /\ 1 <= n /\ n <= Len(given)
    BY <1>0
  <2>2. n - 1 \in Nat /\ n - 1 + 1 = n /\ 1 .. n \subseteq 1 .. Len(given)
    BY <1>0, <2>1
  <2>3. 1 .. n = (1 .. n - 1) \cup {n}
    BY <2>1
  <2> QED BY <2>2, <2>3
<1>2. \A i \in 1 .. n :
        /\ given[i].is \in {"valid", "invalid", "thrown"} /\ given[i].errors \in Seq(E)
        /\ given[i].is = "valid" => given[i].errors = <<>> /\ given[i] = C!Valid(given[i].value)
        /\ given[i].is = "invalid" => given[i] = C!Invalid(given[i].errors)
        /\ given[i].is = "thrown" => given[i] = C!Thrown
  BY <1>0, <1>1, OutcomeIs
<1>3. /\ C!Thrown.is = "thrown" /\ C!Thrown.errors = <<>>
      /\ \A v : C!Valid(v).is = "valid" /\ C!Valid(v).value = v /\ C!Valid(v).errors = <<>>
      /\ \A es : C!Invalid(es).is = "invalid" /\ C!Invalid(es).errors = es
  BY DEF C!Thrown, C!Valid, C!Invalid
<1>4. n \in 1 .. n /\ <<>> \in Seq(E)
  BY <1>1
<1>5. CASE \E i \in 1 .. n : given[i].is = "thrown"
  <2>1. d = C!Thrown
    <3>1. CASE a.is = "thrown"
      BY <3>1 DEF C!Apply
    <3>2. CASE \E i \in 1 .. n - 1 : given[i].is = "thrown"
      <4>1. c = C!Thrown
        BY <3>2 DEF Bound
      <4> QED BY <1>3, <4>1 DEF C!Apply
    <3> QED BY <1>1, <1>5, <3>1, <3>2
  <2>2. \E i \in 1 .. n : ~C!IsValid(given[i])
    BY <1>5 DEF C!IsValid
  <2> HIDE DEF d
  <2> QED BY <1>3, <1>4, <1>5, <2>1, <2>2 DEF Bound, d
<1>6. CASE \A i \in 1 .. n : C!IsValid(given[i])
  <2> DEFINE vs == [i \in 1 .. n - 1 |-> given[i].value]
             ws == [i \in 1 .. n |-> given[i].value]
  <2>1. c = C!Valid(vs)
    BY <1>1, <1>6 DEF Bound
  <2>2. d = C!Valid(Append(vs, a.value))
    <3>1. a.is = "valid" /\ c.is = "valid" /\ c.value = vs
      BY <1>3, <1>4, <1>6, <2>1 DEF C!IsValid
    <3> HIDE DEF vs, a
    <3> QED BY <3>1 DEF C!Apply, C!MapV, C!IsValid
  <2>3. Append(vs, a.value) = ws
    <3> DEFINE W == {given[i].value : i \in 1 .. n}
    <3>1. ws \in [1 .. n -> W] /\ ws[n] = a.value
      BY <1>4
    <3>2. vs = [i \in 1 .. n - 1 |-> ws[i]]
      BY <1>1
    <3> HIDE DEF vs, ws, a, W
    <3> QED BY <1>0, <3>1, <3>2, AppendLast
  <2>4. d = C!Valid(ws) /\ d.errors = <<>>
    BY <1>3, <2>2, <2>3
  <2> HIDE DEF d
  <2> QED BY <1>2, <1>4, <1>6, <2>4 DEF Bound, C!IsValid, d
<1>7. CASE (\A i \in 1 .. n : given[i].is # "thrown") /\ (\E i \in 1 .. n : ~C!IsValid(given[i]))
  <2>1. a.is \in {"valid", "invalid"} /\ a.errors \in Seq(E)
    BY <1>2, <1>4, <1>7
  <2>2. CASE \E i \in 1 .. n - 1 : ~C!IsValid(given[i])
    <3>1. c = C!Invalid(c.errors) /\ Joins(given, n - 1, c.errors)
      BY <1>1, <1>7, <2>2 DEF Bound
    <3>2. c.is = "invalid"
      BY <1>3, <3>1
    <3>3. d = C!Invalid(c.errors \o a.errors)
      BY <2>1, <3>2 DEF C!Apply
    <3>4. Joins(given, n, c.errors \o a.errors)
      BY <1>1, <1>2, <3>1, JoinsOneMore
    <3>5. d.errors = c.errors \o a.errors /\ c.errors \o a.errors \in Seq(E)
      <4>1. d.errors = c.errors \o a.errors
        BY <1>3, <3>3
      <4>2. c.errors \o a.errors \in Seq(E)
        <5> DEFINE es == c.errors
                   fs == a.errors
        <5>1. es \in Seq(E) /\ fs \in Seq(E)
          BY <2>1
        <5> HIDE DEF es, fs
        <5>2. es \o fs \in Seq(E)
          BY <5>1
        <5> QED BY <5>2 DEF es, fs
      <4> QED BY <4>1, <4>2
    <3> HIDE DEF d
    <3> QED BY <1>7, <3>3, <3>4, <3>5 DEF Bound, C!IsValid, d
  <2>3. CASE \A i \in 1 .. n - 1 : C!IsValid(given[i])
    <3>1. a.is = "invalid" /\ a = C!Invalid(a.errors)
      BY <1>1, <1>2, <1>4, <1>7, <2>1, <2>3 DEF C!IsValid
    <3>2. c.is = "valid" /\ c.errors = <<>>
      BY <1>3, <2>3 DEF Bound
    <3>3. d = a
      BY <3>1, <3>2 DEF C!Apply, C!MapV, C!IsValid
    <3>4. Joins(given, n, a.errors)
      <4>1. Joins(given, n - 1, <<>>)
        <5> DEFINE at == [i \in 0 .. n - 1 |-> 0]
        <5>1. at \in [0 .. n - 1 -> 0 .. Len(<<>>)] /\ at[0] = 0 /\ Len(<<>>) = at[n - 1]
          BY <1>1
        <5>2. \A i \in 1 .. n - 1 : /\ given[i].errors = <<>> /\ Len(given[i].errors) = 0
                                    /\ at[i] = 0 /\ at[i - 1] = 0
          BY <1>1, <1>2, <2>3 DEF C!IsValid
        <5> HIDE DEF at
        <5>3. \A i \in 1 .. n - 1 :
                /\ at[i] = at[i - 1] + Len(given[i].errors)
                /\ \A k \in 1 .. Len(given[i].errors) : <<>>[at[i - 1] + k] = given[i].errors[k]
          <6> SUFFICES ASSUME NEW i \in 1 .. n - 1
                       PROVE  /\ at[i] = at[i - 1] + Len(given[i].errors)
                              /\ \A k \in 1 .. Len(given[i].errors) :
                                   <<>>[at[i - 1] + k] = given[i].errors[k]
            OBVIOUS
          <6>1. Len(given[i].errors) = 0 /\ at[i] = 0 /\ at[i - 1] = 0
            BY <5>2
          <6> QED BY <6>1
        <5> QED BY <5>1, <5>3 DEF Joins
      <4>2. Joins(given, n, <<>> \o a.errors)
        BY <1>1, <1>2, <1>4, <4>1, JoinsOneMore
      <4>3. <<>> \o a.errors = a.errors
        BY <2>1
      <4> QED BY <4>2, <4>3
    <3> HIDE DEF d
    <3> QED BY <1>7, <2>1, <3>1, <3>3, <3>4 DEF Bound, C!IsValid, d
  <2> QED BY <2>2, <2>3
<1> HIDE DEF d
<1> QED BY <1>2, <1>5, <1>6, <1>7 DEF d, C!IsValid

(* curry(fn) % a * b * ..., for any number of arguments: an exception      *)
(* leaves, whatever else was wrong; otherwise fn gets every value in the   *)
(* order of the arguments, or the caller gets every error of every argument *)
(* in that order.  No error is dropped, doubled or moved.                  *)
THEOREM CurriedCorrect ==
  ASSUME NEW E, NEW S, \A a \in S : Outcome(a, E), NEW given \in Seq(S)
  PROVE  Bound(given, Len(given), C!Curried(given))
<1>1. Len(given) \in Nat
  BY ElementsIn
<1>2. PICK f : Binds(given, Len(given), f) /\ C!Curried(given) = f[Len(given)]
  BY <1>1, CurriedBinds
<1>3. \A n \in 0 .. Len(given) : f[n] = IF n = 0 THEN C!Valid(<<>>) ELSE C!Apply(f[n - 1], given[n])
  BY <1>2 DEF Binds
<1> DEFINE Holds(n) == Bound(given, n, f[n]) /\ f[n].errors \in Seq(E)
<1>4. Holds(0)
  <2>1. f[0] = C!Valid(<<>>)
    <3>1. 0 \in 0 .. Len(given)
      BY <1>1
    <3> QED BY <1>3, <3>1
  <2>2. f[0].errors = <<>> /\ <<>> \in Seq(E)
    BY <2>1 DEF C!Valid
  <2>3. 1 .. 0 = {} /\ [i \in 1 .. 0 |-> given[i].value] = <<>>
    OBVIOUS
  <2>4. Bound(given, 0, f[0])
    BY <2>1, <2>3 DEF Bound
  <2> QED BY <2>2, <2>4
<1>5. ASSUME NEW n \in 1 .. Len(given), Holds(n - 1) PROVE Holds(n)
  <2>1. n \in 0 .. Len(given) /\ n # 0
    BY <1>1
  <2>2. f[n] = C!Apply(f[n - 1], given[n])
    BY <1>3, <2>1
  <2> QED BY <1>5, <2>2, BoundOneMore
<1> HIDE DEF Holds
<1> DEFINE T == {n \in 0 .. Len(given) : ~Holds(n)}
<1>6. T = {}
  <2>1. SUFFICES ASSUME T # {} PROVE FALSE
    OBVIOUS
  <2>2. PICK n \in T : \A k \in T : n <= k
    <3>1. T \subseteq Nat
      BY <1>1
    <3> HIDE DEF T
    <3> QED BY <2>1, <3>1, Least
  <2>3. n \in 0 .. Len(given) /\ ~Holds(n)
    BY <2>2
  <2>4. n \in 1 .. Len(given) /\ n - 1 \in 0 .. Len(given) /\ ~(n <= n - 1)
    BY <1>1, <1>4, <2>3
  <2>5. Holds(n - 1)
    BY <2>2, <2>4
  <2> QED BY <1>5, <2>3, <2>4, <2>5
<1>7. Holds(Len(given))
  BY <1>1, <1>6
<1> QED BY <1>2, <1>7 DEF Holds

(* CONVERT_ARGS_OR_THROW and its like report errors[0] without looking: it *)
(* is there, if every refused argument has an error.                       *)
THEOREM ErrorsNotEmpty ==
  ASSUME NEW E, NEW S, NEW given \in Seq(S),
         \A a \in S : Outcome(a, E) /\ (a.is = "invalid" => a.errors # <<>>)
  PROVE  C!Curried(given).is = "invalid" => C!Curried(given).errors # <<>>
<1> DEFINE c == C!Curried(given)
           n == Len(given)
<1>0. n \in Nat /\ \A i \in 1 .. n : given[i] \in S
  BY ElementsIn
<1>1. Bound(given, n, c)
  BY CurriedCorrect
<1>2. /\ C!Thrown.is = "thrown"
      /\ \A v : C!Valid(v).is = "valid"
  BY DEF C!Thrown, C!Valid
<1> HIDE DEF c, n
<1> SUFFICES ASSUME c.is = "invalid" PROVE c.errors # <<>>
  BY DEF c
<1>3. /\ \A i \in 1 .. n : given[i].is # "thrown"
      /\ \E i \in 1 .. n : ~C!IsValid(given[i])
  BY <1>1, <1>2 DEF Bound
<1>4. Joins(given, n, c.errors)
  BY <1>1, <1>3 DEF Bound
<1>5. PICK i \in 1 .. n : ~C!IsValid(given[i])
  BY <1>3
<1>6. given[i].is = "invalid" /\ given[i].errors \in Seq(E) /\ given[i].errors # <<>>
  BY <1>0, <1>3, <1>5, OutcomeIs DEF C!IsValid
<1>7. Len(given[i].errors) \in Nat \ {0}
  BY <1>6
<1>8. PICK at \in [0 .. n -> 0 .. Len(c.errors)] :
        at[i] = at[i - 1] + Len(given[i].errors)
  BY <1>4 DEF Joins
<1> SUFFICES ASSUME c.errors = <<>> PROVE FALSE
  OBVIOUS
<1>9. Len(c.errors) = 0
  OBVIOUS
<1>10. i - 1 \in 0 .. n /\ i \in 0 .. n
  BY <1>0
<1>11. at[i - 1] = 0 /\ at[i] = 0
  BY <1>9, <1>10
<1> QED BY <1>7, <1>8, <1>11

(* What a member contributes is an outcome, if its value's conversion is.  *)
LEMMA MemberOutcome ==
  ASSUME NEW E, NEW o, NEW m, NEW r, Outcome(r, E),
         m.need \in {"required", "optional", "default"}
  PROVE  Outcome(C!GetMember(o, m, r), E)
<1> DEFINE p == m.name
<1>1. C!GetRequired(o, p, r) \in {C!Thrown, r}
  BY DEF C!GetRequired
<1>2. \A a, b : Outcome(a, E) => Outcome(C!MapV(a, b), E)
  BY DEF Outcome, C!MapV
<1>3. C!GetOptional(o, p, r) \in {C!Thrown, C!Valid(C!Nothing), C!MapV(r, C!Just(r.value))}
  BY DEF C!GetOptional
<1>4. Outcome(C!GetOptional(o, p, r), E)
  BY <1>2, <1>3 DEF Outcome
<1>5. Outcome(C!GetDefault(o, p, r, m.default[1]), E)
  BY <1>2, <1>4 DEF C!GetDefault
<1>6. Outcome(C!GetRequired(o, p, r), E)
  BY <1>1 DEF Outcome
<1> QED BY <1>4, <1>5, <1>6 DEF C!GetMember

(* A dictionary of any number of members, required, optional or with a     *)
(* default, is made from every member or refused with all their errors.    *)
THEOREM DictionaryCorrect ==
  ASSUME NEW E, NEW R, \A r \in R : Outcome(r, E),
         NEW M, \A m \in M : m.need \in {"required", "optional", "default"},
         NEW list \in Seq(M), NEW results \in [1 .. Len(list) -> R],
         NEW v, C!IsObject(v)
  PROVE  Bound([i \in 1 .. Len(list) |-> C!GetMember(v, list[i], results[i])], Len(list),
               C!FromDictionary(v, list, results))
<1> DEFINE given == [i \in 1 .. Len(list) |-> C!GetMember(v, list[i], results[i])]
           S == {C!GetMember(v, list[i], results[i]) : i \in 1 .. Len(list)}
<1>1. Len(list) \in Nat /\ DOMAIN list = 1 .. Len(list) /\ \A i \in 1 .. Len(list) : list[i] \in M
  OBVIOUS
<1>2. \A a \in S : Outcome(a, E)
  BY <1>1, MemberOutcome
<1>3. given \in Seq(S) /\ Len(given) = Len(list)
  <2>1. given \in [1 .. Len(list) -> S]
    OBVIOUS
  <2> HIDE DEF S, given
  <2> QED BY <1>1, <2>1
<1>4. Bound(given, Len(given), C!Curried(given))
  <2> HIDE DEF S, given
  <2> QED BY <1>2, <1>3, CurriedCorrect
<1>5. C!FromDictionary(v, list, results) = C!Curried(given)
  BY <1>1 DEF C!FromDictionary, C!FlatMap, C!FromObject, C!IsValid, C!Valid
<1> QED BY <1>3, <1>4, <1>5

(* An array of any length is converted until its first bad element, whose  *)
(* outcome is the result.                                                  *)
THEOREM VectorCorrect ==
  ASSUME NEW S, NEW results \in Seq(S), NEW v, v.t = "array"
  PROVE  \/ /\ \A i \in 1 .. Len(results) : C!IsValid(results[i])
            /\ C!FromVector(v, results) = C!Valid([i \in 1 .. Len(results) |-> results[i].value])
         \/ \E i \in 1 .. Len(results) :
              /\ ~C!IsValid(results[i]) /\ \A k \in 1 .. i - 1 : C!IsValid(results[k])
              /\ C!FromVector(v, results) = results[i]
<1> DEFINE bad == {i \in 1 .. Len(results) : ~C!IsValid(results[i])}
           first == C!SelectInSeq(results, LAMBDA r : ~C!IsValid(r))
<1>0. Len(results) \in Nat /\ DOMAIN results = 1 .. Len(results)
  OBVIOUS
<1>1. C!FromVector(v, results) =
        IF first # 0 THEN results[first]
        ELSE C!Valid([i \in 1 .. Len(results) |-> results[i].value])
  BY <1>0 DEF C!FromVector
<1>2. first = IF bad # {} THEN C!Min(bad) ELSE 0
  BY DEF C!SelectInSeq
<1> HIDE DEF first
<1>3. CASE bad = {}
  <2>1. \A i \in 1 .. Len(results) : C!IsValid(results[i])
    BY <1>3
  <2> QED BY <1>1, <1>2, <1>3, <2>1
<1>4. CASE bad # {}
  <2>1. bad \subseteq Nat
    BY <1>0
  <2>2. \E i \in bad : \A k \in bad : i <= k
    <3> HIDE DEF bad
    <3> QED BY <1>4, <2>1, Least
  <2>3. first \in bad /\ \A k \in bad : first <= k
    <3> HIDE DEF bad
    <3> QED BY <1>2, <1>4, <2>2 DEF C!Min
  <2>4. first # 0 /\ first \in 1 .. Len(results) /\ ~C!IsValid(results[first])
    BY <1>0, <2>3
  <2>5. \A k \in 1 .. first - 1 : C!IsValid(results[k])
    BY <1>0, <2>3, <2>4
  <2> QED BY <1>1, <2>4, <2>5
<1> QED BY <1>3, <1>4

(* A set of n elements has 2^n subsets, one at least.                      *)
LEMMA PowerPositive ==
  ASSUME NEW n \in Nat
  PROVE  2 ^ n \in Nat /\ 2 ^ n > 0
<1>1. IsFiniteSet(1 .. n) /\ Cardinality(1 .. n) = n
  <2>1. IF 1 > n THEN Cardinality(1 .. n) = 0 ELSE Cardinality(1 .. n) = n - 1 + 1
    BY FS_Interval
  <2> QED BY <2>1, FS_Interval
<1>2. /\ IsFiniteSet(SUBSET (1 .. n))
      /\ Cardinality(SUBSET (1 .. n)) = 2 ^ n
  <2> DEFINE S == 1 .. n
  <2>1. IsFiniteSet(S) /\ Cardinality(S) = n
    BY <1>1
  <2> HIDE DEF S
  <2>2. IsFiniteSet(SUBSET S) /\ Cardinality(SUBSET S) = 2 ^ Cardinality(S)
    BY <2>1, FS_SUBSET
  <2> QED BY <2>1, <2>2, Zenon DEF S
<1>3. SUBSET (1 .. n) # {}
  BY {} \in SUBSET (1 .. n)
<1>4. Cardinality(SUBSET (1 .. n)) \in Nat /\ Cardinality(SUBSET (1 .. n)) # 0
  BY <1>2, <1>3, FS_CardinalityType, FS_EmptySet
<1> QED
  <2> DEFINE c == Cardinality(SUBSET (1 .. n))
             power == 2 ^ n
  <2>1. c = power /\ c \in Nat /\ c # 0
    BY <1>2, <1>4
  <2> HIDE DEF c, power
  <2>2. power \in Nat /\ power > 0
    BY <2>1
  <2> QED BY <2>2, Zenon DEF power

(* From<uint..._t> of a number that is not NaN, and that is let through.   *)
LEMMA UnsignedOutcome ==
  ASSUME NEW w, NEW v, NEW cast, v.t = "number"
  PROVE  /\ 0 <= v.v /\ v.v <= 2 * C!MostUnsigned(w) =>
              C!FromUnsigned(w, v, cast) =
                C!Valid(IF w = 64 /\ C!Whole(v.v) = 2 ^ Widths[w] THEN cast
                        ELSE C!Whole(v.v) % 2 ^ Widths[w])
         /\ ~(0 <= v.v /\ v.v <= 2 * C!MostUnsigned(w)) =>
              C!FromUnsigned(w, v, cast) = C!Invalid(<<"Expected an unsigned integer">>)
<1> DEFINE number == C!Valid(IF w = 64 /\ C!Whole(v.v) = 2 ^ Widths[w] THEN cast
                             ELSE C!Whole(v.v) % 2 ^ Widths[w])
<1>1. v.t # "nan"
  OBVIOUS
<1>2. C!FromUnsigned(w, v, cast) =
        CASE v.t = "nan" -> C!Valid(IF w = 64 THEN cast ELSE 0)
          [] v.t = "number" /\ 0 <= v.v /\ v.v <= 2 * C!MostUnsigned(w) -> number
          [] OTHER -> C!Invalid(<<"Expected an unsigned integer">>)
  BY Zenon DEF C!FromUnsigned
<1> HIDE DEF number
<1>3. CASE 0 <= v.v /\ v.v <= 2 * C!MostUnsigned(w)
  BY <1>1, <1>2, <1>3, Zenon DEF number
<1>4. CASE ~(0 <= v.v /\ v.v <= 2 * C!MostUnsigned(w))
  BY <1>1, <1>2, <1>4, Zenon
<1> QED BY <1>3, <1>4, Zenon

(* The same for signed integers.                                           *)
LEMMA SignedOutcome ==
  ASSUME NEW w, NEW v, v.t = "number"
  PROVE  LET largest == 2 ^ (Widths[w] - 1) - 1 IN
         /\ -2 * (largest + 1) <= v.v /\ v.v <= 2 * C!MostSigned(w) =>
              C!FromSigned(w, v) = C!Valid(IF C!Whole(v.v) <= largest THEN C!Whole(v.v) ELSE largest)
         /\ ~(-2 * (largest + 1) <= v.v /\ v.v <= 2 * C!MostSigned(w)) =>
              C!FromSigned(w, v) = C!Invalid(<<"Expected an integer">>)
<1> DEFINE largest == 2 ^ (Widths[w] - 1) - 1
           number == C!Valid(IF C!Whole(v.v) <= largest THEN C!Whole(v.v) ELSE largest)
<1>1. v.t # "nan"
  OBVIOUS
<1>2. C!FromSigned(w, v) =
        CASE v.t = "nan" -> C!Valid(0)
          [] v.t = "number" /\ -2 * (largest + 1) <= v.v /\ v.v <= 2 * C!MostSigned(w) -> number
          [] OTHER -> C!Invalid(<<"Expected an integer">>)
  BY Zenon DEF C!FromSigned
<1> HIDE DEF largest, number
<1>3. -2 * (largest + 1) <= v.v /\ v.v <= 2 * C!MostSigned(w) => C!FromSigned(w, v) = number
  BY <1>1, <1>2, Zenon
<1>4. ~(-2 * (largest + 1) <= v.v /\ v.v <= 2 * C!MostSigned(w)) =>
        C!FromSigned(w, v) = C!Invalid(<<"Expected an integer">>)
  BY <1>1, <1>2, Zenon
<1> QED BY <1>3, <1>4 DEF number, largest

(* A number k of Int becomes an integer that its C++ type holds, or it is  *)
(* refused.  What the type holds is kept.  What it does not hold is        *)
(* refused, with one exception at 64 bits, where the limit is compared as a*)
(* double: 2^64 becomes whatever the build makes of an undefined cast, and *)
(* 2^63 becomes the largest signed integer.  (napi.cc:34-187.)             *)
THEOREM NumbersFit ==
  ASSUME NEW w \in {8, 16, 32, 64}, NEW k \in Int, NEW cast \in 0 .. 2 ^ 64 - 1
  PROVE  LET u == C!FromUnsigned(w, C!Num(k), cast)
             s == C!FromSigned(w, C!Num(k)) IN
         /\ k \in 0 .. 2 ^ w - 1 => u = C!Valid(k)
         /\ w = 64 /\ k = 2 ^ w => u = C!Valid(cast)
         /\ k \notin 0 .. 2 ^ w - 1 /\ ~(w = 64 /\ k = 2 ^ w) => ~C!IsValid(u)
         /\ k \in - (2 ^ (w - 1)) .. 2 ^ (w - 1) - 1 => s = C!Valid(k)
         /\ w = 64 /\ k = 2 ^ (w - 1) => s = C!Valid(2 ^ (w - 1) - 1)
         /\ k \notin - (2 ^ (w - 1)) .. 2 ^ (w - 1) - 1 /\ ~(w = 64 /\ k = 2 ^ (w - 1)) => ~C!IsValid(s)
<1> DEFINE u == C!FromUnsigned(w, C!Num(k), cast)
           s == C!FromSigned(w, C!Num(k))
           top == 2 ^ w
           half == 2 ^ (w - 1)
           mostU == IF w = 64 THEN top ELSE top - 1
           mostS == IF w = 64 THEN half ELSE half - 1
<1>1. top \in Int /\ half \in Int /\ Widths[w] = w
  BY DEF Widths
<1>2. top > 0 /\ half > 0
  <2>1. w \in Nat /\ w - 1 \in Nat
    OBVIOUS
  <2> QED BY <2>1, PowerPositive, Zenon
<1>3. \A es : ~C!IsValid(C!Invalid(es))
  BY DEF C!IsValid, C!Invalid
<1>4. C!Num(k).t = "number" /\ C!Num(k).v = 2 * k
  BY DEF C!Num, C!Halves
<1>5. C!Whole(2 * k) = k
  BY DEF C!Whole
<1>6. C!MostUnsigned(w) = mostU /\ C!MostSigned(w) = mostS
  BY <1>1, Zenon DEF C!MostUnsigned, C!MostSigned
<1>7. /\ 0 <= 2 * k /\ 2 * k <= 2 * mostU =>
           u = C!Valid(IF w = 64 /\ k = top THEN cast ELSE k % top)
      /\ ~(0 <= 2 * k /\ 2 * k <= 2 * mostU) => u = C!Invalid(<<"Expected an unsigned integer">>)
  <2> DEFINE v == C!Num(k)
             n == C!Whole(v.v)
             range == 0 <= v.v /\ v.v <= 2 * C!MostUnsigned(w)
             given == IF w = 64 /\ n = 2 ^ Widths[w] THEN cast ELSE n % 2 ^ Widths[w]
  <2>1. /\ range => u = C!Valid(given)
        /\ ~range => u = C!Invalid(<<"Expected an unsigned integer">>)
    BY <1>4, UnsignedOutcome, Zenon
  <2>2. n = k
    BY <1>4, <1>5, Zenon
  <2>3. given = IF w = 64 /\ k = top THEN cast ELSE k % top
    <3> HIDE DEF n
    <3> QED BY <1>1, <2>2, Zenon
  <2>4. range <=> 0 <= 2 * k /\ 2 * k <= 2 * mostU
    <3> HIDE DEF mostU
    <3> QED BY <1>4, <1>6, Zenon
  <2> HIDE DEF range, given, u, mostU
  <2> QED BY <2>1, <2>3, <2>4, Zenon
<1>8. /\ -2 * (half - 1 + 1) <= 2 * k /\ 2 * k <= 2 * mostS =>
           s = C!Valid(IF k <= half - 1 THEN k ELSE half - 1)
      /\ ~(-2 * (half - 1 + 1) <= 2 * k /\ 2 * k <= 2 * mostS) => s = C!Invalid(<<"Expected an integer">>)
  <2> DEFINE v == C!Num(k)
             n == C!Whole(v.v)
             largest == 2 ^ (Widths[w] - 1) - 1
             range == -2 * (largest + 1) <= v.v /\ v.v <= 2 * C!MostSigned(w)
             given == IF n <= largest THEN n ELSE largest
  <2>1. /\ range => s = C!Valid(given)
        /\ ~range => s = C!Invalid(<<"Expected an integer">>)
    BY <1>4, SignedOutcome, Zenon
  <2>2. n = k /\ largest = half - 1
    BY <1>1, <1>4, <1>5, Zenon
  <2>3. given = IF k <= half - 1 THEN k ELSE half - 1
    <3> HIDE DEF n, largest, half
    <3> QED BY <2>2, Zenon
  <2>4. range <=> -2 * (half - 1 + 1) <= 2 * k /\ 2 * k <= 2 * mostS
    <3> HIDE DEF mostS, largest, half
    <3> QED BY <1>4, <1>6, <2>2, Zenon
  <2> HIDE DEF range, given, s, mostS, half
  <2> QED BY <2>1, <2>3, <2>4, Zenon
<1> HIDE DEF u, s, top, half
<1>9. /\ k \in 0 .. top - 1 => u = C!Valid(k)
      /\ w = 64 /\ k = top => u = C!Valid(cast)
      /\ k \notin 0 .. top - 1 /\ ~(w = 64 /\ k = top) => ~C!IsValid(u)
  <2>1. CASE k \in 0 .. top - 1
    <3>1. k % top = k /\ k # top /\ 0 <= 2 * k /\ 2 * k <= 2 * mostU
      BY <1>1, <1>2, <2>1, SMT
    <3>2. u = C!Valid(k)
      <4> HIDE DEF mostU
      <4> QED BY <1>7, <3>1, Zenon
    <3> QED BY <2>1, <3>1, <3>2, Zenon
  <2>2. CASE w = 64 /\ k = top
    <3>1. 0 <= 2 * k /\ 2 * k <= 2 * mostU /\ k \notin 0 .. top - 1
      BY <1>1, <1>2, <2>2, SMT
    <3>2. u = C!Valid(cast)
      <4> HIDE DEF mostU
      <4> QED BY <1>7, <2>2, <3>1, Zenon
    <3> QED BY <2>2, <3>1, <3>2, Zenon
  <2>3. CASE k \notin 0 .. top - 1 /\ ~(w = 64 /\ k = top)
    <3>1. ~(0 <= 2 * k /\ 2 * k <= 2 * mostU)
      BY <1>1, <1>2, <2>3, SMT
    <3>2. ~C!IsValid(u)
      <4> HIDE DEF mostU
      <4> QED BY <1>3, <1>7, <3>1, Zenon
    <3> QED BY <2>3, <3>2, Zenon
  <2> QED BY <2>1, <2>2, <2>3, Zenon
<1>10. /\ k \in - half .. half - 1 => s = C!Valid(k)
       /\ w = 64 /\ k = half => s = C!Valid(half - 1)
       /\ k \notin - half .. half - 1 /\ ~(w = 64 /\ k = half) => ~C!IsValid(s)
  <2>1. CASE k \in - half .. half - 1
    <3>1. /\ k <= half - 1 /\ k # half
          /\ -2 * (half - 1 + 1) <= 2 * k /\ 2 * k <= 2 * mostS
      BY <1>1, <1>2, <2>1, SMT
    <3>2. s = C!Valid(k)
      <4> HIDE DEF mostS
      <4> QED BY <1>8, <3>1, Zenon
    <3> QED BY <2>1, <3>1, <3>2, Zenon
  <2>2. CASE w = 64 /\ k = half
    <3>1. /\ ~(k <= half - 1) /\ k \notin - half .. half - 1
          /\ -2 * (half - 1 + 1) <= 2 * k /\ 2 * k <= 2 * mostS
      BY <1>1, <1>2, <2>2, SMT
    <3>2. s = C!Valid(half - 1)
      <4> HIDE DEF mostS
      <4> QED BY <1>8, <3>1, Zenon
    <3> QED BY <2>2, <3>1, <3>2, Zenon
  <2>3. CASE k \notin - half .. half - 1 /\ ~(w = 64 /\ k = half)
    <3>1. ~(-2 * (half - 1 + 1) <= 2 * k /\ 2 * k <= 2 * mostS)
      BY <1>1, <1>2, <2>3, SMT
    <3>2. ~C!IsValid(s)
      <4> HIDE DEF mostS
      <4> QED BY <1>3, <1>8, <3>1, Zenon
    <3> QED BY <2>3, <3>2, Zenon
  <2> QED BY <2>1, <2>2, <2>3, Zenon
<1> QED BY <1>9, <1>10, Zenon DEF u, s, top, half

(* static_cast<int> stays within an int, and changes exactly the numbers   *)
(* that an int does not hold.                                              *)
THEOREM CastsToInt ==
  ASSUME NEW n \in Nat
  PROVE  /\ C!CastInt(n) \in - (2 ^ 31) .. 2 ^ 31 - 1
         /\ C!CastInt(n) = n <=> n <= 2 ^ 31 - 1
<1> DEFINE half == 2 ^ 31
           full == 2 ^ 32
           m == n % full
<1>1. half \in Nat /\ half > 0
  BY SMT
<1>2. full = 2 * half
  BY SMT
<1>3. C!CastInt(n) = IF m < half THEN m ELSE m - full
  <2>1. Widths[32] = 32 /\ 32 - 1 = 31
    BY SMT DEF Widths
  <2> QED BY <2>1, Zenon DEF C!CastInt
<1>4. /\ m \in 0 .. full - 1
      /\ n <= full - 1 => m = n
  <2> HIDE DEF half, full
  <2> QED BY <1>1, <1>2, SMT
<1> HIDE DEF half, full, m
<1>5. /\ C!CastInt(n) \in - half .. half - 1
      /\ C!CastInt(n) = n <=> n <= half - 1
  BY <1>1, <1>2, <1>3, <1>4, SMT
<1> QED BY <1>5, Zenon DEF half
=============================================================================
