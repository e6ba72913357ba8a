----------------------- MODULE PeerConnection_proofs -----------------------
(***************************************************************************)
(* For any calls of any program: nothing is heard of a peer connection     *)
(* after the end; a resolved setDescription shows in its members; promises *)
(* are answered once and in order, as the specification Promises says.     *)
(***************************************************************************)
EXTENDS PeerConnection, TLAPS

(* Types, part by part.                                                    *)
JingleOK ==
  /\ semantics \in {"planB", "unified"} /\ signaling \in {"open", "closed"}
  /\ chain \in Seq(Chained)
  /\ applied \subseteq Descriptions
  /\ posted \in Seq([call : Chained, ok : BOOLEAN])
  /\ sig \in Descriptions \cup {None}
  /\ notices \in 0..MaxNotices
WrapperOK ==
  /\ js \in {"idle", "closing", "handle", "handler", "crashed"}
  /\ {jpc, crashed} \subseteq BOOLEAN
  /\ promise \in [Calls -> {"unused", "none", "pending", "resolved", "rejected", "refused"}]
  /\ issued \in Seq(Calls)
  /\ members \subseteq Descriptions
LoopOK ==
  /\ sent \in Seq(AllItems) /\ received \in Seq(AllItems)
  /\ {busy, stopped, noticed, closed} \subseteq BOOLEAN

(* JavaScript is inside an event or not, and a stop inside one is noticed. *)
BusyInv ==
  /\ busy <=> js = "handle"
  /\ busy /\ stopped => noticed
  /\ busy => Len(received) > 0

(* After the event of the end the loop takes nothing.                      *)
Heard == \E i \in 1 .. Len(received) : received[i].type = "closed"
LastInv ==
  /\ \A i \in 1 .. Len(received) : received[i].type = "closed" => i = Len(received)
  /\ Heard => busy \/ noticed

(* What the loop takes is what it was sent.                                *)
PrefixInv ==
  /\ Len(received) <= Len(sent)
  /\ \A i \in 1 .. Len(received) : received[i] = sent[i]

(* Members are brought in line by an event of their own, sent first.       *)
Announced(c, n) == \E j \in 1 .. n : sent[j] = Item("members", c)
SentInv ==
  /\ \A k \in 1 .. Len(sent) :
       /\ sent[k].type = "members" => sent[k].call \in Descriptions
       /\ sent[k].type = "candidate" => sent[k].call \in Candidates
       /\ sent[k].type = "resolve" /\ sent[k].call \in Descriptions
            => Announced(sent[k].call, k - 1)
  /\ sig # None => Announced(sig, Len(sent))

(* Once that event has been handled the members show it.                   *)
ShownInv ==
  jpc => \A j \in 1 .. Len(received) :
    received[j].type = "members" /\ (j < Len(received) \/ ~busy)
      => received[j].call \in members
----------------------------------------------------------------------------
(* The parts together are TypeOK.                                          *)
LEMMA Parts == TypeOK <=> JingleOK /\ WrapperOK /\ LoopOK
  BY DEF TypeOK, JingleOK, WrapperOK, LoopOK, Chained

(* Every step is one of these.                                             *)
LEMMA Cases ==
  ASSUME [Next]_vars
  PROVE  \/ Operate \/ CallObserver \/ ResolveSet \/ OnSignalingClosed
         \/ \E t \in NoticeTypes : Notify(t)
         \/ \E c \in Stats : OnStatsDelivered(c)
         \/ \E c \in Offers : CreateOffer(c)
         \/ \E c \in Descriptions : SetDescription(c)
         \/ \E c \in Candidates : AddIceCandidate(c)
         \/ \E c \in Stats : GetStats(c)
         \/ Close \/ CloseReturns \/ LoopReceive
         \/ HandleSettle \/ HandleCandidate \/ HandleMembers \/ HandleNotice \/ HandleTrack
         \/ HandleClosed /\ js = "handle"
         \/ HandlerDone \/ LoopClose \/ UNCHANGED vars
  BY DEF Next, Signaling, Program, EventLoopTurn, Handle, SetLocalDescription,
         SetRemoteDescription

(* Who is a call.                                                          *)
LEMMA CallsAre ==
  /\ Offers \subseteq Chained /\ Descriptions \subseteq Chained /\ Chained \subseteq Calls
  /\ Candidates \subseteq Calls /\ Stats \subseteq Calls
  /\ Descriptions \cap (Offers \cup Candidates \cup Stats) = {}
  BY CallsAssumption DEF Chained, Calls, Descriptions

(* What is sent is an item.                                                *)
LEMMA ItemsAre ==
  /\ \A t \in CallTypes, c \in Calls : Item(t, c) \in AllItems
  /\ \A t \in NoticeTypes \cup {"closed"} : Item(t, None) \in AllItems
  /\ \A t, c : Item(t, c).type = t /\ Item(t, c).call = c
  BY DEF Item, AllItems

(* Head and tail of what waits.                                            *)
LEMMA Waits ==
  ASSUME NEW S, NEW q \in Seq(S), q # <<>>
  PROVE  Head(q) \in S /\ Tail(q) \in Seq(S)
  OBVIOUS

(* Elements of a sequence, and of its tail.                                *)
LEMMA ElementsAre ==
  ASSUME NEW S, NEW q \in Seq(S)
  PROVE  /\ \A k \in 1 .. Len(q) : q[k] \in S
         /\ q # <<>> => /\ Head(q) = q[1] /\ 1 \in 1 .. Len(q) /\ Len(Tail(q)) = Len(q) - 1
                       /\ \A k \in 1 .. Len(Tail(q)) : Tail(q)[k] = q[k + 1]
  OBVIOUS

----------------------------------------------------------------------------
(* libwebrtc performs an operation.                                        *)
LEMMA Performs ==
  ASSUME JingleOK, NEW c \in Chained, NEW ok \in BOOLEAN, Perform(c, ok)
  PROVE  /\ posted' \in Seq([call : Chained, ok : BOOLEAN])
         /\ applied' \subseteq Descriptions
  BY DEF JingleOK, Perform

(* The types of libwebrtc's side.                                          *)
LEMMA JingleStep == JingleOK /\ [Next]_vars => JingleOK'
<1> SUFFICES ASSUME JingleOK, [Next]_vars PROVE JingleOK'
  OBVIOUS
<1> USE DEF JingleOK, jingleVars
<1>1. CASE Operate
  <2>1. Head(chain) \in Chained /\ chain' \in Seq(Chained)
    BY <1>1, Waits DEF Operate
  <2>2. PICK ok \in {signaling = "open", FALSE} : Perform(Head(chain), ok)
    BY <1>1 DEF Operate
  <2>3. ok \in BOOLEAN
    OBVIOUS
  <2> QED BY <1>1, <2>1, <2>2, <2>3, Performs DEF Operate
<1>2. CASE CallObserver
  <2>1. Head(posted).call \in Chained /\ posted' \in Seq([call : Chained, ok : BOOLEAN])
    <3>1. posted # <<>> /\ posted' = Tail(posted)
      BY <1>2 DEF CallObserver
    <3>2. Head(posted) \in [call : Chained, ok : BOOLEAN]
          /\ Tail(posted) \in Seq([call : Chained, ok : BOOLEAN])
      BY <3>1, Waits
    <3> QED BY <3>1, <3>2
  <2>2. sig' \in Descriptions \cup {None}
    BY <1>2, <2>1 DEF CallObserver, OnFailure, OnSetSuccess, OnSuccess
  <2> QED BY <1>2, <2>1, <2>2 DEF CallObserver
<1>3. CASE ResolveSet \/ OnSignalingClosed
  BY <1>3 DEF ResolveSet, OnSignalingClosed
<1>4. ASSUME NEW t \in NoticeTypes, Notify(t) PROVE JingleOK'
  BY <1>4, BoundsAssumption DEF Notify
<1>5. ASSUME NEW c \in Stats, OnStatsDelivered(c) \/ GetStats(c) PROVE JingleOK'
  BY <1>5 DEF OnStatsDelivered, GetStats, RejectAtOnce, Issue
<1>6. ASSUME NEW c \in Offers, CreateOffer(c) PROVE JingleOK'
  <2>1. Append(chain, c) \in Seq(Chained)
    BY CallsAre
  <2> QED BY <1>6, <2>1 DEF CreateOffer, RejectAtOnce, Issue
<1>7. ASSUME NEW c \in Descriptions, SetDescription(c) PROVE JingleOK'
  <2>1. c \in Chained /\ Append(chain, c) \in Seq(Chained)
    BY CallsAre
  <2>2. UNCHANGED <<semantics, signaling, sig, notices>>
    BY <1>7 DEF SetDescription, RejectAtOnce, Issue
  <2>3. \/ UNCHANGED <<chain, applied, posted>>
        \/ chain' = Append(chain, c) /\ UNCHANGED <<applied, posted>>
        \/ chain' = chain /\ \E ok \in BOOLEAN : Perform(c, ok)
    BY <1>7 DEF SetDescription, RejectAtOnce
  <2> QED BY <2>1, <2>2, <2>3, Performs
<1>8. ASSUME NEW c \in Candidates, AddIceCandidate(c) PROVE JingleOK'
  BY <1>8 DEF AddIceCandidate, RejectAtOnce, Issue
<1>9. CASE Close \/ CloseReturns \/ LoopReceive \/ HandlerDone \/ LoopClose \/ UNCHANGED vars
  BY <1>9 DEF Close, CloseReturns, LoopReceive, HandlerDone, LoopClose, vars
<1>10. CASE HandleSettle \/ HandleCandidate \/ HandleMembers \/ HandleNotice \/ HandleTrack
            \/ HandleClosed
  BY <1>10 DEF HandleSettle, HandleCandidate, HandleMembers, HandleNotice, HandleTrack,
               HandleClosed, Handled, HandledBy
<1> QED BY <1>1, <1>2, <1>3, <1>4, <1>5, <1>6, <1>7, <1>8, <1>9, <1>10, Cases

(* The item that is being handled.                                         *)
LEMMA CurrentIs ==
  ASSUME LoopOK, BusyInv, PrefixInv, busy
  PROVE  /\ Len(received) \in 1 .. Len(sent) /\ Current = sent[Len(received)]
         /\ Current \in AllItems /\ Current = received[Len(received)]
  BY DEF LoopOK, BusyInv, PrefixInv, Current

(* The types of the object's side.                                         *)
LEMMA WrapperStep ==
  JingleOK /\ WrapperOK /\ LoopOK /\ BusyInv /\ PrefixInv /\ SentInv /\ [Next]_vars => WrapperOK'
<1> SUFFICES ASSUME JingleOK, WrapperOK, LoopOK, BusyInv, PrefixInv, SentInv, [Next]_vars
             PROVE  WrapperOK'
  OBVIOUS
<1> USE DEF WrapperOK, jingleVars, wrapperVars
<1>1. CASE Operate \/ ResolveSet \/ OnSignalingClosed \/ LoopReceive \/ HandlerDone
           \/ LoopClose \/ UNCHANGED vars
  BY <1>1 DEF Operate, ResolveSet, OnSignalingClosed, LoopReceive, HandlerDone, LoopClose, vars
<1>2. CASE CallObserver
  BY <1>2 DEF CallObserver, OnFailure
<1>3. ASSUME NEW t \in NoticeTypes, Notify(t) PROVE WrapperOK'
  BY <1>3 DEF Notify
<1>4. ASSUME NEW c \in Stats, OnStatsDelivered(c) PROVE WrapperOK'
  BY <1>4 DEF OnStatsDelivered
<1>5. ASSUME NEW c \in Calls, Issue(c),
             \E how \in {"pending", "refused"} : Settle(c, how)
      PROVE  WrapperOK'
  BY <1>5 DEF Issue, Settle
<1>6. ASSUME NEW c \in Offers, CreateOffer(c) PROVE WrapperOK'
  BY <1>5, <1>6, CallsAre DEF CreateOffer, RejectAtOnce
<1>7. ASSUME NEW c \in Descriptions, SetDescription(c) PROVE WrapperOK'
  BY <1>5, <1>7, CallsAre DEF SetDescription, RejectAtOnce
<1>8. ASSUME NEW c \in Candidates, AddIceCandidate(c) PROVE WrapperOK'
  BY <1>5, <1>8, CallsAre DEF AddIceCandidate, RejectAtOnce
<1>9. ASSUME NEW c \in Stats, GetStats(c) PROVE WrapperOK'
  BY <1>5, <1>9, CallsAre DEF GetStats, RejectAtOnce
<1>10. CASE Close \/ CloseReturns
  BY <1>10 DEF Close, CloseReturns
<1>11. CASE HandleSettle \/ HandleCandidate
  <2>1. \E how \in {"resolved", "rejected"} : \E c : Settle(c, how)
    BY <1>11 DEF HandleSettle, HandleCandidate
  <2>2. js' = "handler" /\ UNCHANGED <<jpc, issued, members, crashed>>
    BY <1>11 DEF HandleSettle, HandleCandidate, Handled, HandledBy
  <2> QED BY <2>1, <2>2 DEF Settle
<1>12. CASE HandleMembers
  <2>1. Current.call \in Descriptions
    BY <1>12, CurrentIs DEF HandleMembers, Handled, HandledBy, BusyInv, SentInv
  <2> QED BY <1>12, <2>1 DEF HandleMembers, Handled, HandledBy
<1>13. CASE HandleNotice
  BY <1>13 DEF HandleNotice, Handled, HandledBy
<1>14. CASE HandleTrack
  <2>1. crashed' \in BOOLEAN
    BY <1>14 DEF HandleTrack
  <2> QED BY <1>14, <2>1 DEF HandleTrack, HandledBy
<1>15. CASE HandleClosed
  BY <1>15 DEF HandleClosed, Handled, HandledBy
<1> QED BY <1>1, <1>2, <1>3, <1>4, <1>6, <1>7, <1>8, <1>9, <1>10, <1>11, <1>12, <1>13,
         <1>14, <1>15, Cases

(* What an observer sends.                                                 *)
LEMMA Observed ==
  ASSUME JingleOK, CallObserver
  PROVE  \E c \in Chained :
           \/ Loop!Send(Item("reject", c)) /\ sig' = None
           \/ Loop!Send(Item("resolve", c)) /\ c \notin Descriptions /\ sig' = None
           \/ Loop!Send(Item("members", c)) /\ c \in Descriptions /\ sig' = c
<1>1. posted # <<>> /\ sig = None
  BY DEF CallObserver
<1>2. Head(posted) \in [call : Chained, ok : BOOLEAN]
  BY <1>1, Waits DEF JingleOK
<1> QED BY <1>1, <1>2 DEF CallObserver, OnFailure, OnSetSuccess, OnSuccess

(* What a step sends, and what it may leave to be sent.                    *)
Sending ==
  \E i \in AllItems :
    /\ Loop!Send(i)
    /\ UNCHANGED <<jpc, members>>
    /\ js' = js \/ (js # "handle" /\ js' # "handle")
    /\ \/ i.type = "members" /\ i.call \in Descriptions /\ sig' = i.call
       \/ /\ i.type = "resolve" /\ i.call \in Descriptions
          /\ i.call = sig /\ sig # None /\ sig' = None
       \/ /\ i.type \notin {"members", "candidate"}
          /\ i.type = "resolve" => i.call \notin Descriptions
          /\ sig' = sig
       \/ i.type = "candidate" /\ i.call \in Candidates /\ sig' = sig
Taking ==
  /\ JSFree /\ Loop!Receive /\ js' = "handle"
  /\ UNCHANGED <<sig, jpc, members, promise>>
Ending ==
  /\ js = "handle" /\ Loop!Done /\ js' # "handle"
  /\ Current.type = "closed" => stopped
  /\ members' = IF Current.type = "members" /\ jpc THEN members \cup {Current.call} ELSE members
  /\ UNCHANGED <<sig, jpc>>
Resting ==
  /\ \/ UNCHANGED loopVars /\ (js' = js \/ (js # "handle" /\ js' # "handle"))
     \/ js = "handle" /\ Loop!Stop /\ UNCHANGED js
     \/ (Loop!Notice \/ Loop!Close) /\ UNCHANGED js
  /\ jpc' => jpc
  /\ UNCHANGED <<sig, members>>

(* Every step is one of the four.                                          *)
LEMMA Shapes ==
  ASSUME JingleOK, LoopOK, BusyInv, PrefixInv, [Next]_vars
  PROVE  Sending \/ Taking \/ Ending \/ Resting
<1> USE DEF jingleVars, wrapperVars
<1>1. CASE Operate
  BY <1>1 DEF Operate, Resting
<1>2. CASE CallObserver
  <2>1. UNCHANGED <<jpc, members, js>> /\ sig = None
    BY <1>2 DEF CallObserver
  <2> QED BY <1>2, <2>1, Observed, ItemsAre, CallsAre DEF Sending, CallTypes
<1>3. CASE ResolveSet
  <2>1. sig \in Descriptions /\ sig \in Calls
    BY <1>3, CallsAre DEF ResolveSet, JingleOK
  <2>2. Item("resolve", sig) \in AllItems
    BY <2>1, ItemsAre DEF CallTypes
  <2> QED BY <1>3, <2>1, <2>2, ItemsAre DEF ResolveSet, Sending
<1>4. CASE OnSignalingClosed
  <2>1. Loop!Send(Item("closed", None)) /\ UNCHANGED <<sig, js, jpc, members>>
    BY <1>4 DEF OnSignalingClosed
  <2> QED BY <2>1, ItemsAre DEF Sending
<1>5. ASSUME NEW t \in NoticeTypes, Notify(t) PROVE Sending
  <2>1. Loop!Send(Item(t, None)) /\ UNCHANGED <<sig, js, jpc, members>>
    BY <1>5 DEF Notify
  <2> QED BY <2>1, ItemsAre DEF Sending, NoticeTypes
<1>6. ASSUME NEW c \in Stats, OnStatsDelivered(c) PROVE Sending
  <2>1. Loop!Send(Item("resolve", c)) /\ UNCHANGED <<sig, js, jpc, members>>
    BY <1>6 DEF OnStatsDelivered
  <2>2. c \notin Descriptions /\ Item("resolve", c) \in AllItems
    BY CallsAre, ItemsAre DEF CallTypes
  <2> QED BY <2>1, <2>2, ItemsAre DEF Sending
<1>7. ASSUME NEW c \in Offers, CreateOffer(c) PROVE Resting
  BY <1>7 DEF CreateOffer, RejectAtOnce, Issue, Resting, JSFree
<1>8. ASSUME NEW c \in Descriptions, SetDescription(c) PROVE Resting
  BY <1>8 DEF SetDescription, RejectAtOnce, Issue, Resting, JSFree
<1>9. ASSUME NEW c \in Candidates, AddIceCandidate(c) PROVE Sending \/ Resting
  <2>1. CASE RejectAtOnce(c)
    BY <2>1 DEF RejectAtOnce, Issue, Resting, JSFree
  <2>2. CASE Issue(c) /\ Loop!Send(Item("candidate", c))
    <3>1. Item("candidate", c) \in AllItems
      BY CallsAre, ItemsAre DEF CallTypes
    <3>2. UNCHANGED <<sig, jpc, members>> /\ js # "handle" /\ js' # "handle"
      BY <2>2 DEF Issue, JSFree
    <3> QED BY <2>2, <3>1, <3>2, ItemsAre DEF Sending
  <2> QED BY <1>9, <2>1, <2>2 DEF AddIceCandidate
<1>10. ASSUME NEW c \in Stats, GetStats(c) PROVE Resting
  BY <1>10 DEF GetStats, RejectAtOnce, Issue, Resting, JSFree
<1>11. CASE Close \/ CloseReturns
  BY <1>11 DEF Close, CloseReturns, Resting, JSFree
<1>12. CASE LoopReceive
  BY <1>12 DEF LoopReceive, Taking
<1>13. CASE HandleSettle \/ HandleCandidate \/ HandleNotice
  BY <1>13 DEF HandleSettle, HandleCandidate, HandleNotice, Handled, HandledBy, Ending
<1>14. CASE HandleMembers
  BY <1>14 DEF HandleMembers, Handled, HandledBy, Ending
<1>15. CASE HandleTrack
  BY <1>15 DEF HandleTrack, HandledBy, Ending
<1>16. CASE HandleClosed /\ js = "handle"
  BY <1>16 DEF HandleClosed, Handled, HandledBy, Ending, Resting
<1>17. CASE HandlerDone
  BY <1>17 DEF HandlerDone, Resting
<1>18. CASE LoopClose
  BY <1>18 DEF LoopClose, Resting
<1>19. CASE UNCHANGED vars
  BY <1>19 DEF vars, Resting
<1> QED BY <1>1, <1>2, <1>3, <1>4, <1>5, <1>6, <1>7, <1>8, <1>9, <1>10, <1>11, <1>12, <1>13,
         <1>14, <1>15, <1>16, <1>17, <1>18, <1>19, Cases

----------------------------------------------------------------------------
LoopInv == JingleOK /\ WrapperOK /\ LoopOK /\ BusyInv /\ PrefixInv /\ SentInv

(* The loop's part: its types, who is inside it, what it takes, and that   *)
(* it takes nothing after the end.                                         *)
LEMMA LoopStep ==
  LoopInv /\ LastInv /\ [Next]_vars => LoopOK' /\ BusyInv' /\ PrefixInv' /\ LastInv'
<1> SUFFICES ASSUME LoopInv, LastInv, [Next]_vars
             PROVE  LoopOK' /\ BusyInv' /\ PrefixInv' /\ LastInv'
  OBVIOUS
<1>0. /\ sent \in Seq(AllItems) /\ received \in Seq(AllItems)
      /\ Len(sent) \in Nat /\ Len(received) \in Nat /\ Len(received) <= Len(sent)
      /\ busy \in BOOLEAN /\ stopped \in BOOLEAN /\ noticed \in BOOLEAN /\ closed \in BOOLEAN
  BY DEF LoopInv, LoopOK, PrefixInv
<1>1. CASE Sending
  <2>1. PICK i \in AllItems : Loop!Send(i)
    BY <1>1 DEF Sending
  <2>2. /\ sent' = Append(sent, i) /\ UNCHANGED <<received, busy, stopped, noticed, closed>>
        /\ sent' \in Seq(AllItems) /\ Len(sent') = Len(sent) + 1
        /\ \A k \in 1 .. Len(sent) : sent'[k] = sent[k]
    BY <1>0, <2>1 DEF Loop!Send
  <2>3. js' = js \/ (js # "handle" /\ js' # "handle")
    BY <1>1 DEF Sending
  <2>4. LoopOK' /\ BusyInv' /\ LastInv'
    BY <2>2, <2>3 DEF LoopInv, LoopOK, BusyInv, LastInv, Heard
  <2>5. PrefixInv'
    BY <1>0, <2>2 DEF LoopInv, PrefixInv
  <2> QED BY <2>4, <2>5
<1>2. CASE Taking
  <2>1. /\ ~busy /\ ~noticed /\ Len(received) < Len(sent)
        /\ received' = Append(received, sent[Len(received) + 1])
        /\ busy' = TRUE /\ noticed' = stopped /\ UNCHANGED <<sent, stopped, closed>>
        /\ js' = "handle"
    BY <1>2 DEF Taking, Loop!Receive, Loop!Waiting, Loop!NextItem
  <2>2. /\ sent[Len(received) + 1] \in AllItems
        /\ received' \in Seq(AllItems) /\ Len(received') = Len(received) + 1
        /\ received'[Len(received) + 1] = sent[Len(received) + 1]
        /\ \A k \in 1 .. Len(received) : received'[k] = received[k]
    BY <1>0, <2>1
  <2>3. LoopOK' /\ BusyInv'
    BY <1>0, <2>1, <2>2 DEF LoopInv, LoopOK, BusyInv
  <2>4. PrefixInv'
    BY <1>0, <2>1, <2>2 DEF LoopInv, PrefixInv
  <2>5. ~Heard
    BY <2>1 DEF LastInv
  <2>6. LastInv'
    BY <1>0, <2>1, <2>2, <2>5 DEF LastInv, Heard
  <2> QED BY <2>3, <2>4, <2>6
<1>3. CASE Ending
  <2>1. /\ busy' = FALSE /\ UNCHANGED <<sent, received, stopped, noticed, closed>>
        /\ js' # "handle" /\ busy /\ (Current.type = "closed" => stopped)
    BY <1>3 DEF Ending, Loop!Done
  <2>2. LoopOK' /\ BusyInv' /\ PrefixInv'
    BY <2>1 DEF LoopInv, LoopOK, BusyInv, PrefixInv
  <2>3. Heard => Current.type = "closed"
    BY DEF Heard, LastInv, Current
  <2>4. Heard => noticed
    BY <2>1, <2>3 DEF LoopInv, BusyInv
  <2> QED BY <2>1, <2>2, <2>4 DEF LastInv, Heard
<1>4. CASE Resting
  <2>1. /\ UNCHANGED <<sent, received, busy>> /\ (js' = "handle" <=> js = "handle")
        /\ (noticed => noticed') /\ (stopped' => stopped \/ (busy => noticed'))
        /\ stopped' \in BOOLEAN /\ noticed' \in BOOLEAN /\ closed' \in BOOLEAN
    <3>1. CASE UNCHANGED loopVars
      BY <1>0, <1>4, <3>1 DEF Resting, loopVars, Loop!Stop
    <3>2. CASE js = "handle" /\ Loop!Stop /\ UNCHANGED js
      BY <1>0, <3>2 DEF Loop!Stop
    <3>3. CASE (Loop!Notice \/ Loop!Close) /\ UNCHANGED js
      BY <1>0, <3>3 DEF Loop!Notice, Loop!Close
    <3> QED BY <1>4, <3>1, <3>2, <3>3 DEF Resting
  <2> QED BY <2>1 DEF LoopInv, LoopOK, BusyInv, PrefixInv, LastInv, Heard
<1> QED BY <1>1, <1>2, <1>3, <1>4, Shapes DEF LoopInv

(* What is sent: the event for the members, then the one for the promise.  *)
LEMMA SentStep == LoopInv /\ [Next]_vars => SentInv'
<1> SUFFICES ASSUME LoopInv, [Next]_vars PROVE SentInv'
  OBVIOUS
<1>0. sent \in Seq(AllItems) /\ Len(sent) \in Nat
  BY DEF LoopInv, LoopOK
<1>1. CASE Sending
  <2>1. PICK i \in AllItems :
          /\ Loop!Send(i)
          /\ \/ i.type = "members" /\ i.call \in Descriptions /\ sig' = i.call
             \/ /\ i.type = "resolve" /\ i.call \in Descriptions
                /\ i.call = sig /\ sig # None /\ sig' = None
             \/ /\ i.type \notin {"members", "candidate"}
                /\ i.type = "resolve" => i.call \notin Descriptions
                /\ sig' = sig
             \/ i.type = "candidate" /\ i.call \in Candidates /\ sig' = sig
    BY <1>1 DEF Sending
  <2>2. /\ Len(sent') = Len(sent) + 1 /\ sent'[Len(sent')] = i
        /\ \A k \in 1 .. Len(sent) : sent'[k] = sent[k]
    BY <1>0, <2>1 DEF Loop!Send
  <2>3. ASSUME NEW c, NEW n \in Nat, n <= Len(sent), Announced(c, n)
        PROVE  \E j \in 1 .. n : sent'[j] = Item("members", c)
    BY <1>0, <2>2, <2>3 DEF Announced
  <2>4. ASSUME NEW k \in 1 .. Len(sent')
        PROVE  /\ sent'[k].type = "members" => sent'[k].call \in Descriptions
               /\ sent'[k].type = "candidate" => sent'[k].call \in Candidates
               /\ sent'[k].type = "resolve" /\ sent'[k].call \in Descriptions
                    => \E j \in 1 .. k - 1 : sent'[j] = Item("members", sent'[k].call)
    <3>1. CASE k \in 1 .. Len(sent)
      <4>1. sent'[k] = sent[k] /\ k - 1 \in Nat /\ k - 1 <= Len(sent)
        BY <1>0, <2>2, <3>1
      <4>2. sent[k].type = "resolve" /\ sent[k].call \in Descriptions
              => Announced(sent[k].call, k - 1)
        BY <3>1 DEF LoopInv, SentInv
      <4> QED BY <2>3, <3>1, <4>1, <4>2 DEF LoopInv, SentInv
    <3>2. CASE k = Len(sent) + 1
      <4>1. sent'[k] = i /\ k - 1 = Len(sent)
        BY <1>0, <2>2, <3>2
      <4>2. ASSUME i.type = "resolve", i.call \in Descriptions
            PROVE  \E j \in 1 .. k - 1 : sent'[j] = Item("members", i.call)
        <5>1. i.call = sig /\ sig # None
          BY <2>1, <4>2
        <5>2. Announced(sig, Len(sent))
          BY <5>1 DEF LoopInv, SentInv
        <5> QED BY <1>0, <2>3, <4>1, <5>1, <5>2
      <4> QED BY <2>1, <4>1, <4>2
    <3> QED BY <1>0, <2>2, <3>1, <3>2
  <2>5. sig' # None => \E j \in 1 .. Len(sent') : sent'[j] = Item("members", sig')
    <3>1. CASE i.type = "members" /\ sig' = i.call
      <4>1. i = Item("members", sig')
        BY <3>1, <1>0 DEF AllItems, Item
      <4> QED BY <1>0, <2>2, <4>1
    <3>2. CASE sig' = sig /\ sig # None
      <4>1. Announced(sig, Len(sent))
        BY <3>2 DEF LoopInv, SentInv
      <4>2. \E j \in 1 .. Len(sent) : sent'[j] = Item("members", sig)
        BY <1>0, <2>3, <4>1
      <4> QED BY <1>0, <2>2, <3>2, <4>2
    <3> QED BY <2>1, <3>1, <3>2
  <2> QED BY <2>4, <2>5 DEF SentInv, Announced
<1>2. CASE UNCHANGED <<sent, sig>>
  BY <1>2 DEF LoopInv, SentInv, Announced
<1>3. Taking \/ Ending \/ Resting => UNCHANGED <<sent, sig>>
  BY DEF Taking, Ending, Resting, Loop!Receive, Loop!Done, Loop!Stop, Loop!Notice, Loop!Close,
         loopVars
<1> QED BY <1>1, <1>2, <1>3, Shapes DEF LoopInv

(* What the members show.                                                  *)
LEMMA ShownStep == LoopInv /\ ShownInv /\ [Next]_vars => ShownInv'
<1> SUFFICES ASSUME LoopInv, ShownInv, [Next]_vars, jpc' PROVE ShownInv'
  BY DEF ShownInv
<1>0. /\ received \in Seq(AllItems) /\ Len(received) \in Nat /\ busy \in BOOLEAN
      /\ jpc \in BOOLEAN
  BY DEF LoopInv, LoopOK, WrapperOK
<1>1. CASE UNCHANGED <<received, busy, members>> /\ jpc
  BY <1>1 DEF ShownInv
<1>2. CASE Sending \/ Resting
  BY <1>1, <1>2 DEF Sending, Resting, Loop!Send, Loop!Stop, Loop!Notice, Loop!Close, loopVars
<1>3. CASE Taking
  <2>1. /\ ~busy /\ busy' /\ UNCHANGED <<jpc, members>>
        /\ \E i \in AllItems : received' = Append(received, i)
    <3>1. Loop!Receive /\ sent \in Seq(AllItems) /\ Len(sent) \in Nat
      BY <1>3 DEF Taking, LoopInv, LoopOK
    <3>2. Len(received) + 1 \in 1 .. Len(sent)
      BY <1>0, <3>1 DEF Loop!Receive, Loop!Waiting
    <3>3. sent[Len(received) + 1] \in AllItems
      BY <3>1, <3>2
    <3>4. UNCHANGED <<jpc, members>> /\ ~busy /\ busy'
          /\ received' = Append(received, sent[Len(received) + 1])
      BY <1>3 DEF Taking, Loop!Receive, Loop!NextItem
    <3> QED BY <3>3, <3>4
  <2>2. /\ Len(received') = Len(received) + 1
        /\ \A j \in 1 .. Len(received) : received'[j] = received[j]
    BY <1>0, <2>1
  <2> QED BY <1>0, <2>1, <2>2 DEF ShownInv
<1>4. CASE Ending
  <2>1. /\ received' = received /\ jpc = jpc' /\ busy
        /\ members' = IF Current.type = "members" /\ jpc THEN members \cup {Current.call}
                      ELSE members
    BY <1>4 DEF Ending, Loop!Done
  <2> SUFFICES ASSUME NEW j \in 1 .. Len(received), received[j].type = "members"
               PROVE  received[j].call \in members'
    BY <2>1 DEF ShownInv
  <2>2. CASE j = Len(received)
    BY <2>1, <2>2 DEF Current
  <2>3. CASE j < Len(received)
    BY <2>1, <2>3 DEF ShownInv
  <2> QED BY <1>0, <2>2, <2>3
<1> QED BY <1>2, <1>3, <1>4, Shapes DEF LoopInv

(* A promise is resolved by the event that comes after the members' one.   *)
LEMMA ResolvedStep == LoopInv /\ ShownInv /\ MembersFirst /\ [Next]_vars => MembersFirst'
<1> SUFFICES ASSUME LoopInv, ShownInv, MembersFirst, [Next]_vars,
                    NEW c \in Descriptions, promise'[c] = "resolved", jpc'
             PROVE  c \in members'
  BY DEF MembersFirst
<1>0. promise \in [Calls -> {"unused", "none", "pending", "resolved", "rejected", "refused"}]
      /\ c \in Calls
  BY CallsAre DEF LoopInv, WrapperOK
<1>1. members \subseteq members'
  BY Shapes DEF LoopInv, Sending, Taking, Ending, Resting
<1>2. jpc
  BY Shapes DEF LoopInv, Sending, Taking, Ending, Resting
<1>3. CASE promise[c] = "resolved"
  BY <1>1, <1>2, <1>3 DEF MembersFirst
<1>4. CASE promise[c] # "resolved"
  <2> USE DEF jingleVars, wrapperVars
  <2>1. CASE HandleSettle
    <3>1. Current.type \in {"resolve", "reject"} /\ busy /\ members' = members
          /\ Settle(Current.call, IF Current.type = "resolve" THEN "resolved" ELSE "rejected")
      BY <2>1 DEF HandleSettle, Handled, HandledBy, Loop!Done
    <3>2. Current.type = "resolve" /\ Current.call = c
      BY <1>0, <1>4, <3>1 DEF Settle
    <3>3. /\ Len(received) \in 1 .. Len(sent) /\ Current = sent[Len(received)]
          /\ Len(received) \in Nat /\ Len(sent) \in Nat
      BY <3>1, CurrentIs DEF LoopInv, LoopOK
    <3>4. PICK j \in 1 .. Len(received) - 1 : sent[j] = Item("members", c)
      BY <3>2, <3>3 DEF LoopInv, SentInv, Announced
    <3>5. received[j] = Item("members", c) /\ j \in 1 .. Len(received) /\ j < Len(received)
      BY <3>3, <3>4 DEF LoopInv, PrefixInv
    <3>6. received[j].type = "members" /\ received[j].call = c
      BY <3>5, ItemsAre
    <3> QED BY <1>2, <3>1, <3>5, <3>6 DEF ShownInv
  <2>2. CASE HandleCandidate
    <3>1. Current.type = "candidate" /\ busy
          /\ \E how : Settle(Current.call, how)
      BY <2>2 DEF HandleCandidate, Handled, HandledBy, Loop!Done
    <3>2. Len(received) \in 1 .. Len(sent) /\ Current = sent[Len(received)]
      BY <3>1, CurrentIs DEF LoopInv
    <3>3. Current.call \in Candidates
      BY <3>1, <3>2 DEF LoopInv, SentInv
    <3>4. Current.call # c
      BY <3>3, CallsAre
    <3> QED BY <1>0, <1>4, <3>1, <3>4 DEF Settle
  <2>3. ASSUME NEW d \in Calls, NEW how \in {"pending", "refused"}, Settle(d, how) PROVE FALSE
    BY <1>0, <1>4, <2>3 DEF Settle
  <2>4. ASSUME NEW d \in Calls, CreateOffer(d) \/ SetDescription(d) \/ AddIceCandidate(d)
                                \/ GetStats(d)
        PROVE  FALSE
    BY <2>3, <2>4 DEF CreateOffer, SetDescription, AddIceCandidate, GetStats, RejectAtOnce
  <2>5. CASE promise' = promise
    BY <1>4, <2>5
  <2>6. CASE Operate \/ ResolveSet \/ OnSignalingClosed \/ Close \/ CloseReturns \/ LoopReceive
             \/ HandlerDone \/ LoopClose \/ UNCHANGED vars
    BY <2>5, <2>6 DEF Operate, ResolveSet, OnSignalingClosed, Close, CloseReturns,
                     LoopReceive, HandlerDone, LoopClose, vars
  <2>7. CASE CallObserver
    BY <2>5, <2>7 DEF CallObserver, OnFailure
  <2>8. ASSUME NEW d, Notify(d) \/ OnStatsDelivered(d) PROVE promise' = promise
    BY <2>8 DEF Notify, OnStatsDelivered
  <2>9. CASE HandleMembers \/ HandleNotice \/ HandleTrack \/ HandleClosed
    BY <2>5, <2>9 DEF HandleMembers, HandleNotice, HandleTrack, HandleClosed
  <2> QED BY <2>1, <2>2, <2>4, <2>5, <2>6, <2>7, <2>8, <2>9, Cases, CallsAre
<1> QED BY <1>3, <1>4
----------------------------------------------------------------------------
IInv == LoopInv /\ LastInv /\ ShownInv /\ MembersFirst

(* Of the first state.                                                     *)
LEMMA Start == Init => IInv
<1> SUFFICES ASSUME Init PROVE IInv
  OBVIOUS
<1>0. /\ sent = <<>> /\ received = <<>> /\ ~busy /\ ~stopped /\ ~noticed /\ ~closed
      /\ {busy, stopped, noticed, closed} \subseteq BOOLEAN
  BY DEF Init, Loop!Init
<1>1. JingleOK
  BY BoundsAssumption DEF Init, JingleOK
<1>2. WrapperOK
  <2>1. /\ promise \in [Calls -> {"none", "unused"}] /\ js = "idle"
        /\ issued = <<>> /\ members = {}
    BY DEF Init
  <2>2. {jpc, crashed} \subseteq BOOLEAN
    BY Zenon DEF Init
  <2> QED BY <2>1, <2>2 DEF WrapperOK
<1>3. LoopOK /\ PrefixInv /\ LastInv
  BY <1>0 DEF LoopOK, PrefixInv, LastInv, Heard
<1>4. BusyInv /\ SentInv /\ ShownInv
  BY <1>0 DEF Init, BusyInv, SentInv, ShownInv
<1>5. MembersFirst
  BY CallsAre DEF Init, MembersFirst
<1> QED BY <1>1, <1>2, <1>3, <1>4, <1>5 DEF IInv, LoopInv

(* The invariant is inductive.                                             *)
LEMMA Inductive == IInv /\ [Next]_vars => IInv'
  BY JingleStep, WrapperStep, LoopStep, SentStep, ShownStep, ResolvedStep DEF IInv, LoopInv

(* So it holds in every state.                                             *)
LEMMA Invariant == SafeSpec => []IInv
<1>1. Init => IInv
  BY Start
<1>2. IInv /\ [Next]_vars => IInv'
  BY Inductive
<1> QED BY <1>1, <1>2, PTL DEF SafeSpec

(* Types; and once the program has heard that signalingState is "closed"   *)
(* it hears nothing more: no event and no promise follows.                 *)
THEOREM EndSafe == SafeSpec => []PeerConnectionInv
<1>1. IInv => PeerConnectionInv
  <2> SUFFICES ASSUME IInv PROVE PeerConnectionInv
    OBVIOUS
  <2>1. TypeOK
    BY Parts DEF IInv, LoopInv
  <2>2. DOMAIN received = 1 .. Len(received)
    BY DEF IInv, LoopInv, LoopOK
  <2>3. ClosedIsLast
    BY <2>2 DEF IInv, LastInv, ClosedIsLast
  <2> QED BY <2>1, <2>3 DEF PeerConnectionInv
<1> QED BY <1>1, Invariant, PTL

(* When the promise of a setDescription is resolved, the members show what *)
(* it brought, unless the peer connection has been closed.                 *)
THEOREM ResolvedIsShown == SafeSpec => []MembersFirst
<1>1. IInv => MembersFirst
  BY DEF IInv
<1> QED BY <1>1, Invariant, PTL

----------------------------------------------------------------------------
(* The order of the chained operations.  An operation that is not settled  *)
(* is in one of four places: the chain; posted, as an observer to be       *)
(* called; sig; and, as the event that settles it, the loop.               *)
Out ==
  {k \in 1 .. Len(sent) :
     /\ sent[k].type \in {"resolve", "reject"} /\ sent[k].call \in Chained
     /\ k > Len(received) \/ (k = Len(received) /\ busy)}
Staged ==
  {sent[k].call : k \in Out}
  \cup ({sig} \ {None})
  \cup {posted[k].call : k \in 1 .. Len(posted)}
  \cup {chain[k] : k \in 1 .. Len(chain)}

Before(calls, c, d) ==
  \E i, j \in 1 .. Len(calls) : i < j /\ calls[i] = c /\ calls[j] = d

(* Each place is in the order of the calls ...                             *)
OutOrder == \A k, l \in Out : k < l => Before(issued, sent[k].call, sent[l].call)
PostedOrder ==
  \A k, l \in 1 .. Len(posted) : k < l => Before(issued, posted[k].call, posted[l].call)
ChainOrder == \A k, l \in 1 .. Len(chain) : k < l => Before(issued, chain[k], chain[l])

(* ... and so is what is in a place and what comes to it later.            *)
OutFirst ==
  \A k \in Out :
    /\ sig # None => Before(issued, sent[k].call, sig)
    /\ \A l \in 1 .. Len(posted) : Before(issued, sent[k].call, posted[l].call)
    /\ \A l \in 1 .. Len(chain) : Before(issued, sent[k].call, chain[l])
SigSecond ==
  sig # None =>
    /\ \A l \in 1 .. Len(posted) : Before(issued, sig, posted[l].call)
    /\ \A l \in 1 .. Len(chain) : Before(issued, sig, chain[l])
PostedThird ==
  \A k \in 1 .. Len(posted), l \in 1 .. Len(chain) : Before(issued, posted[k].call, chain[l])

PlacesInv ==
  OutOrder /\ PostedOrder /\ ChainOrder /\ OutFirst /\ SigSecond /\ PostedThird

(* They are called once, and what is pending is in one of the places.      *)
IssuedInv ==
  /\ \A i, j \in 1 .. Len(issued) : i < j /\ issued[i] \in Chained => issued[i] # issued[j]
  /\ \A i \in 1 .. Len(issued) :
       issued[i] \in Chained => promise[issued[i]] \notin {"none", "unused"}
  /\ \A c \in Chained :
       /\ promise[c] \notin {"none", "unused"} => \E i \in 1 .. Len(issued) : issued[i] = c
       /\ promise[c] = "pending" <=> c \in Staged

(* A step makes a call, moves one on to the next place, settles one, or    *)
(* leaves them all where they are.                                         *)
SameCalls == \A k \in Out : sent'[k] = sent[k]
SameOut == Out' = Out /\ SameCalls
SamePromises == \A c \in Chained : promise'[c] = promise[c]
OneMoreOut(c) ==
  /\ Out' = Out \cup {Len(sent) + 1} /\ SameCalls
  /\ sent'[Len(sent) + 1].call = c
Issues(c) ==
  /\ promise[c] = "none" /\ issued' = Append(issued, c)
  /\ UNCHANGED sig /\ SameOut
  /\ \/ /\ c \in Chained /\ Settle(c, "pending")
        /\ \/ chain' = Append(chain, c) /\ UNCHANGED posted
           \/ /\ chain = <<>> /\ UNCHANGED chain
              /\ \E ok \in BOOLEAN : posted' = Append(posted, [call |-> c, ok |-> ok])
     \/ Settle(c, "refused") /\ UNCHANGED <<chain, posted>>
     \/ c \notin Chained /\ Settle(c, "pending") /\ UNCHANGED <<chain, posted>>
Operates ==
  /\ chain # <<>> /\ chain' = Tail(chain)
  /\ \E ok \in BOOLEAN : posted' = Append(posted, [call |-> Head(chain), ok |-> ok])
  /\ UNCHANGED <<issued, sig>> /\ SamePromises /\ SameOut
Observes ==
  /\ sig = None /\ posted # <<>> /\ posted' = Tail(posted)
  /\ UNCHANGED <<issued, chain>> /\ SamePromises
  /\ \/ sig' = Head(posted).call /\ sig' # None /\ SameOut
     \/ sig' = None /\ OneMoreOut(Head(posted).call)
Resolves ==
  /\ sig # None /\ sig' = None /\ OneMoreOut(sig)
  /\ UNCHANGED <<issued, chain, posted>> /\ SamePromises
Settles ==
  /\ Len(received) \in Out /\ Out' = Out \ {Len(received)} /\ SameCalls
  /\ \E how \in {"resolved", "rejected"} : Settle(sent[Len(received)].call, how)
  /\ UNCHANGED <<issued, chain, posted, sig>>
Keeps == UNCHANGED <<issued, chain, posted, sig>> /\ SamePromises /\ SameOut

(* What is sent after all the rest.                                        *)
LEMMA OutGrows ==
  ASSUME LoopInv, NEW i \in AllItems, Loop!Send(i)
  PROVE  /\ i.type \in {"resolve", "reject"} /\ i.call \in Chained => OneMoreOut(i.call)
         /\ ~(i.type \in {"resolve", "reject"} /\ i.call \in Chained) => SameOut
<1>0. /\ sent \in Seq(AllItems) /\ Len(sent) \in Nat /\ Len(received) \in Nat
      /\ Len(received) <= Len(sent)
  BY DEF LoopInv, LoopOK, PrefixInv
<1>1. /\ Len(sent') = Len(sent) + 1 /\ sent'[Len(sent) + 1] = i
      /\ \A k \in 1 .. Len(sent) : sent'[k] = sent[k]
      /\ UNCHANGED <<received, busy>>
  BY <1>0 DEF Loop!Send
<1>2. SameCalls
  BY <1>1 DEF SameCalls, Out
<1>3. \A k \in 1 .. Len(sent) : k \in Out' <=> k \in Out
  BY <1>0, <1>1 DEF Out
<1>4. Len(sent) + 1 \in Out' <=> i.type \in {"resolve", "reject"} /\ i.call \in Chained
  <2>1. Len(sent) + 1 \in 1 .. Len(sent') /\ Len(sent) + 1 > Len(received')
    BY <1>0, <1>1
  <2> QED BY <1>1, <2>1 DEF Out
<1>5. \A k : /\ k \in Out => k \in 1 .. Len(sent)
             /\ k \in Out' => k \in 1 .. Len(sent) \/ k = Len(sent) + 1
  BY <1>0, <1>1 DEF Out
<1> QED BY <1>1, <1>2, <1>3, <1>4, <1>5 DEF OneMoreOut, SameOut

(* What the loop takes is out until it has been handled.                   *)
LEMMA OutEnds ==
  ASSUME LoopInv
  PROVE  /\ Taking => SameOut
         /\ Ending => Out' = Out \ {Len(received)} /\ SameCalls
         /\ Resting => SameOut
<1>0. /\ sent \in Seq(AllItems) /\ Len(sent) \in Nat /\ Len(received) \in Nat
      /\ Len(received) <= Len(sent) /\ received \in Seq(AllItems)
  BY DEF LoopInv, LoopOK, PrefixInv
<1>1. ASSUME Taking PROVE SameOut
  <2>1. /\ sent' = sent /\ ~busy /\ busy' = TRUE
        /\ received' = Append(received, sent[Len(received) + 1])
        /\ Len(received) + 1 \in 1 .. Len(sent)
    BY <1>0, <1>1 DEF Taking, Loop!Receive, Loop!Waiting, Loop!NextItem
  <2>2. sent[Len(received) + 1] \in AllItems
    BY <1>0, <2>1
  <2>3. Len(received') = Len(received) + 1
    BY <1>0, <2>1, <2>2
  <2> QED BY <1>0, <2>1, <2>3 DEF SameOut, SameCalls, Out
<1>2. ASSUME Ending PROVE Out' = Out \ {Len(received)} /\ SameCalls
  <2>1. UNCHANGED <<sent, received>> /\ busy /\ busy' = FALSE
    BY <1>2 DEF Ending, Loop!Done
  <2> QED BY <1>0, <2>1 DEF SameCalls, Out
<1>3. ASSUME Resting PROVE SameOut
  <2>1. UNCHANGED <<sent, received, busy>>
    BY <1>3 DEF Resting, Loop!Stop, Loop!Notice, Loop!Close, loopVars
  <2> QED BY <2>1 DEF SameOut, SameCalls, Out
<1> QED BY <1>1, <1>2, <1>3

(* To the places every step is one of these.                               *)
LEMMA OrderShapes ==
  ASSUME LoopInv, [Next]_vars
  PROVE  \/ \E c \in Calls : Issues(c)
         \/ Operates \/ Observes \/ Resolves \/ Settles \/ Keeps
<1>0. /\ JingleOK /\ WrapperOK /\ LoopOK /\ BusyInv /\ PrefixInv /\ SentInv
      /\ Chained \cap (Candidates \cup Stats) = {} /\ Chained \subseteq Calls
      /\ "candidate" \notin {"resolve", "reject"} /\ None \notin Chained
  BY CallsAssumption DEF LoopInv, Chained, Calls, Descriptions, None
<1> USE DEF jingleVars, wrapperVars
<1>1. ASSUME UNCHANGED <<issued, chain, posted, sig>>, UNCHANGED promise,
             Taking \/ Resting
      PROVE  Keeps
  BY <1>1, OutEnds DEF Keeps, SamePromises
<1>2. ASSUME NEW i \in AllItems, Loop!Send(i), UNCHANGED <<issued, chain, posted, sig, promise>>,
             ~(i.type \in {"resolve", "reject"} /\ i.call \in Chained)
      PROVE  Keeps
  BY <1>2, OutGrows DEF Keeps, SamePromises
<1>3. CASE Operate
  <2>1. Resting /\ UNCHANGED <<issued, sig, promise>>
    BY <1>3 DEF Operate, Resting
  <2>2. PICK ok \in BOOLEAN : Perform(Head(chain), ok)
    BY <1>3 DEF Operate
  <2>3. chain # <<>> /\ chain' = Tail(chain)
    BY <1>3 DEF Operate
  <2> QED BY <2>1, <2>2, <2>3, OutEnds DEF Operates, Perform, SamePromises
<1>4. CASE CallObserver
  <2> DEFINE c == Head(posted).call
  <2>1. posted # <<>> /\ sig = None /\ posted' = Tail(posted)
        /\ UNCHANGED <<issued, chain, promise>>
    BY <1>4 DEF CallObserver, OnFailure
  <2>2. Head(posted) \in [call : Chained, ok : BOOLEAN]
    BY <1>0, <2>1, Waits DEF JingleOK
  <2>3. c \in Chained /\ c # None
    BY <1>0, <2>2
  <2>4. /\ Item("reject", c) \in AllItems /\ Item("resolve", c) \in AllItems
        /\ Item("members", c) \in AllItems
    BY <1>0, <2>3, ItemsAre DEF CallTypes
  <2>5. CASE Loop!Send(Item("members", c)) /\ sig' = c
    <3>1. SameOut
      BY <2>4, <2>5, OutGrows, ItemsAre
    <3> QED BY <2>1, <2>3, <2>5, <3>1 DEF Observes, SamePromises
  <2>6. ASSUME NEW t \in {"resolve", "reject"}, Loop!Send(Item(t, c)), sig' = None
        PROVE  Observes
    <3>1. OneMoreOut(c)
      BY <2>3, <2>4, <2>6, OutGrows, ItemsAre
    <3> QED BY <2>1, <2>6, <3>1 DEF Observes, SamePromises
  <2> QED BY <1>4, <2>1, <2>5, <2>6 DEF CallObserver, OnFailure, OnSetSuccess, OnSuccess
<1>5. CASE ResolveSet
  <2>1. sig # None /\ sig' = None /\ Loop!Send(Item("resolve", sig)) /\ sig \in Chained
        /\ UNCHANGED <<issued, chain, posted, promise>>
    BY <1>0, <1>5, CallsAre DEF ResolveSet, JingleOK
  <2>2. Item("resolve", sig) \in AllItems
    BY <1>0, <2>1, ItemsAre DEF CallTypes
  <2>3. OneMoreOut(sig)
    BY <2>1, <2>2, OutGrows, ItemsAre
  <2> QED BY <2>1, <2>3 DEF Resolves, SamePromises
<1>6. CASE OnSignalingClosed
  <2>1. Loop!Send(Item("closed", None)) /\ UNCHANGED <<issued, chain, posted, sig, promise>>
    BY <1>6 DEF OnSignalingClosed
  <2> QED BY <1>2, <2>1, ItemsAre
<1>7. ASSUME NEW t \in NoticeTypes, Notify(t) PROVE Keeps
  <2>1. Loop!Send(Item(t, None)) /\ UNCHANGED <<issued, chain, posted, sig, promise>>
    BY <1>7 DEF Notify
  <2> QED BY <1>2, <2>1, ItemsAre DEF NoticeTypes
<1>8. ASSUME NEW c \in Stats, OnStatsDelivered(c) PROVE Keeps
  <2>1. Loop!Send(Item("resolve", c)) /\ UNCHANGED <<issued, chain, posted, sig, promise>>
    BY <1>8 DEF OnStatsDelivered
  <2>2. Item("resolve", c) \in AllItems
    BY CallsAre, ItemsAre DEF CallTypes
  <2> QED BY <1>0, <1>2, <2>1, <2>2, ItemsAre
<1>9. ASSUME NEW c \in Calls, RejectAtOnce(c) PROVE Issues(c)
  <2>1. Resting
    BY <1>9 DEF RejectAtOnce, Issue, Resting, JSFree
  <2> QED BY <1>9, <2>1, OutEnds DEF RejectAtOnce, Issue, Issues
<1>10. ASSUME NEW c \in Offers, CreateOffer(c) PROVE \E d \in Calls : Issues(d)
  <2>1. CASE RejectAtOnce(c)
    BY <1>0, <1>9, <2>1, CallsAre
  <2>2. CASE Issue(c) /\ Settle(c, "pending") /\ chain' = Append(chain, c)
             /\ UNCHANGED <<applied, posted, loopVars>>
    <3>1. Resting
      BY <2>2 DEF Issue, Resting, JSFree
    <3> QED BY <1>0, <2>2, <3>1, OutEnds, CallsAre DEF Issue, Issues
  <2> QED BY <1>10, <2>1, <2>2 DEF CreateOffer
<1>11. ASSUME NEW c \in Descriptions, SetDescription(c) PROVE \E d \in Calls : Issues(d)
  <2>1. CASE RejectAtOnce(c)
    BY <1>0, <1>9, <2>1, CallsAre
  <2>2. CASE ~RejectAtOnce(c)
    <3>1. /\ Issue(c) /\ Settle(c, "pending") /\ UNCHANGED loopVars
          /\ IF chain = <<>>
             THEN /\ \E ok \in BOOLEAN : Perform(c, ok)
                  /\ UNCHANGED chain
             ELSE /\ chain' = Append(chain, c)
                  /\ UNCHANGED <<applied, posted>>
      BY <1>11, <2>2 DEF SetDescription
    <3>2. Resting
      BY <3>1 DEF Issue, Resting, JSFree
    <3>3. \/ chain' = Append(chain, c) /\ UNCHANGED posted
          \/ /\ chain = <<>> /\ UNCHANGED chain
             /\ \E ok \in BOOLEAN : posted' = Append(posted, [call |-> c, ok |-> ok])
      BY <3>1 DEF Perform
    <3> QED BY <1>0, <3>1, <3>2, <3>3, OutEnds, CallsAre DEF Issue, Issues
  <2> QED BY <2>1, <2>2
<1>12. ASSUME NEW c \in Candidates, AddIceCandidate(c) PROVE Issues(c)
  <2>1. CASE RejectAtOnce(c)
    BY <1>9, <2>1, CallsAre
  <2>2. CASE Issue(c) /\ Settle(c, "pending") /\ Loop!Send(Item("candidate", c))
             /\ UNCHANGED <<chain, applied, posted>>
    <3>1. Item("candidate", c) \in AllItems
      BY CallsAre, ItemsAre DEF CallTypes
    <3>2. SameOut
      BY <2>2, <3>1, OutGrows, ItemsAre
    <3> QED BY <1>0, <2>2, <3>2 DEF Issue, Issues
  <2> QED BY <1>12, <2>1, <2>2 DEF AddIceCandidate
<1>13. ASSUME NEW c \in Stats, GetStats(c) PROVE Issues(c)
  <2>1. CASE RejectAtOnce(c)
    BY <1>9, <2>1, CallsAre
  <2>2. CASE Issue(c) /\ Settle(c, "pending") /\ UNCHANGED <<chain, applied, posted, loopVars>>
    <3>1. Resting
      BY <2>2 DEF Issue, Resting, JSFree
    <3> QED BY <1>0, <2>2, <3>1, OutEnds DEF Issue, Issues
  <2> QED BY <1>13, <2>1, <2>2 DEF GetStats
<1>14. CASE Close \/ CloseReturns
  BY <1>1, <1>14 DEF Close, CloseReturns, Resting, JSFree
<1>15. CASE LoopReceive
  BY <1>1, <1>15 DEF LoopReceive, Taking
<1>16. CASE HandlerDone \/ LoopClose \/ UNCHANGED vars
  BY <1>1, <1>16 DEF HandlerDone, LoopClose, Resting, vars
<1>17. ASSUME Ending, UNCHANGED <<issued, chain, posted, sig>>, SamePromises,
              Current.type \notin {"resolve", "reject"} \/ Current.call \notin Chained
       PROVE  Keeps
  <2>1. busy
    BY <1>17 DEF Ending, Loop!Done
  <2>2. Current = sent[Len(received)]
    BY <1>0, <2>1, CurrentIs
  <2>3. Len(received) \notin Out
    BY <1>17, <2>2 DEF Out
  <2> QED BY <1>17, <2>3, OutEnds DEF Keeps, SameOut
<1>18. CASE HandleSettle
  <2>1. Ending /\ UNCHANGED <<issued, chain, posted, sig>> /\ busy
        /\ Current.type \in {"resolve", "reject"}
        /\ \E how \in {"resolved", "rejected"} : Settle(Current.call, how)
    BY <1>18 DEF HandleSettle, Handled, HandledBy, Ending, Loop!Done
  <2>2. Current = sent[Len(received)] /\ Len(received) \in 1 .. Len(sent)
    BY <1>0, <2>1, CurrentIs
  <2>3. CASE Current.call \in Chained
    <3>1. Len(received) \in Out
      BY <2>1, <2>2, <2>3 DEF Out
    <3> QED BY <2>1, <2>2, <3>1, OutEnds DEF Settles
  <2>4. CASE Current.call \notin Chained
    <3>1. SamePromises
      BY <1>0, <2>1, <2>4 DEF Settle, SamePromises, WrapperOK
    <3> QED BY <1>17, <2>1, <2>4, <3>1
  <2> QED BY <2>3, <2>4
<1>19. CASE HandleCandidate
  <2>1. Ending /\ UNCHANGED <<issued, chain, posted, sig>> /\ busy
        /\ Current.type = "candidate" /\ \E how : Settle(Current.call, how)
    BY <1>19 DEF HandleCandidate, Handled, HandledBy, Ending, Loop!Done
  <2>2. Current = sent[Len(received)] /\ Len(received) \in 1 .. Len(sent)
    BY <1>0, <2>1, CurrentIs
  <2>3. Current.call \notin Chained
    BY <1>0, <2>1, <2>2 DEF SentInv
  <2>4. SamePromises
    BY <1>0, <2>1, <2>3 DEF Settle, SamePromises, WrapperOK
  <2> QED BY <1>17, <2>1, <2>3, <2>4
<1>20. CASE HandleMembers \/ HandleNotice \/ HandleTrack
  <2>1. Ending /\ Current.type \notin {"resolve", "reject"}
    BY <1>20 DEF HandleMembers, HandleNotice, HandleTrack, Handled, HandledBy, Ending
  <2>2. UNCHANGED <<issued, chain, posted, sig, promise>>
    BY <1>20 DEF HandleMembers, HandleNotice, HandleTrack, Handled, HandledBy
  <2> QED BY <1>17, <2>1, <2>2 DEF SamePromises
<1>21. CASE HandleClosed /\ js = "handle"
  <2>1. CASE Loop!Stop /\ UNCHANGED <<jingleVars, wrapperVars>>
    BY <1>1, <1>21, <2>1 DEF Resting
  <2>2. CASE Handled /\ stopped /\ Current.type = "closed" /\ UNCHANGED <<promise, members>>
    <3>1. Ending /\ UNCHANGED <<issued, chain, posted, sig, promise>>
      BY <2>2 DEF Handled, HandledBy, Ending
    <3> QED BY <1>17, <2>2, <3>1 DEF SamePromises
  <2> QED BY <1>21, <2>1, <2>2 DEF HandleClosed
<1> QED BY <1>0, <1>3, <1>4, <1>5, <1>6, <1>7, <1>8, <1>10, <1>11, <1>12, <1>13, <1>14, <1>15,
         <1>16, <1>18, <1>19, <1>20, <1>21, Cases, CallsAre

(* The order of the calls grows at its end.                                *)
LEMMA BeforeGrows ==
  ASSUME NEW calls \in Seq(Calls), NEW c \in Calls
  PROVE  /\ \A x, y : Before(calls, x, y) => Before(Append(calls, c), x, y)
         /\ \A x : (\E i \in 1 .. Len(calls) : calls[i] = x) => Before(Append(calls, c), x, c)
<1>1. /\ Len(calls) \in Nat /\ Len(Append(calls, c)) = Len(calls) + 1
      /\ Append(calls, c)[Len(calls) + 1] = c
      /\ \A i \in 1 .. Len(calls) : Append(calls, c)[i] = calls[i]
  OBVIOUS
<1> QED BY <1>1 DEF Before

(* What the places hold.                                                   *)
LEMMA PlacesHold ==
  ASSUME LoopInv
  PROVE  /\ \A k \in Out : sent[k].call \in Staged /\ k \in 1 .. Len(sent)
         /\ \A k \in 1 .. Len(posted) : posted[k].call \in Staged
         /\ \A k \in 1 .. Len(chain) : chain[k] \in Staged
         /\ sig # None => sig \in Staged
         /\ Staged \subseteq Chained
         /\ chain \in Seq(Chained) /\ posted \in Seq([call : Chained, ok : BOOLEAN])
         /\ Len(chain) \in Nat /\ Len(posted) \in Nat /\ Len(sent) \in Nat
<1>1. chain \in Seq(Chained) /\ posted \in Seq([call : Chained, ok : BOOLEAN])
      /\ sent \in Seq(AllItems) /\ (sig # None => sig \in Chained)
  BY CallsAre DEF LoopInv, JingleOK, LoopOK
<1>2. /\ \A k \in 1 .. Len(posted) : posted[k].call \in Chained
      /\ \A k \in 1 .. Len(chain) : chain[k] \in Chained
      /\ \A k \in Out : sent[k].call \in Chained
  <2>1. \A k \in 1 .. Len(posted) : posted[k] \in [call : Chained, ok : BOOLEAN]
    BY <1>1, ElementsAre
  <2>2. \A k \in 1 .. Len(chain) : chain[k] \in Chained
    BY <1>1
  <2> QED BY <2>1, <2>2 DEF Out
<1> QED BY <1>1, <1>2 DEF Staged, Out

(* Moving on keeps the order in the places and between them.               *)
LEMMA PlacesStep == LoopInv /\ IssuedInv /\ PlacesInv /\ [Next]_vars => PlacesInv'
<1> SUFFICES ASSUME LoopInv, IssuedInv, PlacesInv, [Next]_vars PROVE PlacesInv'
  OBVIOUS
<1> USE DEF PlacesInv
<1>0. /\ chain \in Seq(Chained) /\ posted \in Seq([call : Chained, ok : BOOLEAN])
      /\ Len(chain) \in Nat /\ Len(posted) \in Nat /\ Len(sent) \in Nat
      /\ \A k \in Out : k \in 1 .. Len(sent)
      /\ issued \in Seq(Calls)
  BY PlacesHold DEF LoopInv, WrapperOK
<1>1. ASSUME NEW c \in Calls, Issues(c) PROVE PlacesInv'
  <2>1. \A x, y : Before(issued, x, y) => Before(issued', x, y)
    BY <1>0, <1>1, BeforeGrows DEF Issues
  <2>2. \A x \in Staged : Before(issued', x, c)
    <3>1. \A x \in Staged : \E i \in 1 .. Len(issued) : issued[i] = x
      BY PlacesHold DEF IssuedInv
    <3> QED BY <1>0, <1>1, <3>1, BeforeGrows DEF Issues
  <2>3. Out' = Out /\ sig' = sig /\ \A k \in Out : sent'[k] = sent[k]
    BY <1>1 DEF Issues, SameOut, SameCalls
  <2>4. OutOrder'
    BY <2>1, <2>3 DEF OutOrder
  <2>5. CASE UNCHANGED <<chain, posted>>
    <3>1. PostedOrder' /\ ChainOrder'
      BY <2>1, <2>5 DEF PostedOrder, ChainOrder
    <3>2. OutFirst' /\ SigSecond' /\ PostedThird'
      BY <2>1, <2>3, <2>5 DEF OutFirst, SigSecond, PostedThird
    <3> QED BY <2>4, <3>1, <3>2
  <2>6. CASE c \in Chained /\ chain' = Append(chain, c) /\ UNCHANGED posted
    <3>1. /\ Len(chain') = Len(chain) + 1 /\ chain'[Len(chain) + 1] = c
          /\ \A k \in 1 .. Len(chain) : chain'[k] = chain[k]
      BY <1>0, <2>6
    <3>2. \A k \in 1 .. Len(chain') : k \in 1 .. Len(chain) \/ k = Len(chain) + 1
      BY <1>0, <3>1
    <3>3. PostedOrder'
      BY <2>1, <2>6 DEF PostedOrder
    <3>4. ChainOrder'
      <4> SUFFICES ASSUME NEW k \in 1 .. Len(chain'), NEW l \in 1 .. Len(chain'), k < l
                   PROVE  Before(issued', chain'[k], chain'[l])
        BY DEF ChainOrder
      <4>1. k \in 1 .. Len(chain)
        BY <1>0, <3>1
      <4> QED BY <2>1, <2>2, <3>1, <3>2, <4>1, PlacesHold DEF ChainOrder
    <3>5. OutFirst'
      <4> SUFFICES ASSUME NEW k \in Out
                   PROVE  /\ sig # None => Before(issued', sent[k].call, sig)
                          /\ \A l \in 1 .. Len(posted) :
                               Before(issued', sent[k].call, posted[l].call)
                          /\ \A l \in 1 .. Len(chain') :
                               Before(issued', sent[k].call, chain'[l])
        BY <2>3, <2>6 DEF OutFirst
      <4> QED BY <2>1, <2>2, <3>1, <3>2, PlacesHold DEF OutFirst
    <3>6. SigSecond'
      BY <2>1, <2>2, <2>3, <2>6, <3>1, <3>2, PlacesHold DEF SigSecond
    <3>7. PostedThird'
      BY <2>1, <2>2, <2>6, <3>1, <3>2, PlacesHold DEF PostedThird
    <3> QED BY <2>4, <3>3, <3>4, <3>5, <3>6, <3>7
  <2>7. ASSUME c \in Chained, chain = <<>>, chain' = chain, NEW ok \in BOOLEAN,
               posted' = Append(posted, [call |-> c, ok |-> ok])
        PROVE  PlacesInv'
    <3>1. /\ Len(posted') = Len(posted) + 1 /\ posted'[Len(posted) + 1].call = c
          /\ \A k \in 1 .. Len(posted) : posted'[k] = posted[k]
          /\ \A k \in 1 .. Len(chain') : FALSE
      BY <1>0, <2>7
    <3>2. \A k \in 1 .. Len(posted') : k \in 1 .. Len(posted) \/ k = Len(posted) + 1
      BY <1>0, <3>1
    <3>3. ChainOrder' /\ PostedThird'
      BY <3>1 DEF ChainOrder, PostedThird
    <3>4. PostedOrder'
      <4> SUFFICES ASSUME NEW k \in 1 .. Len(posted'), NEW l \in 1 .. Len(posted'), k < l
                   PROVE  Before(issued', posted'[k].call, posted'[l].call)
        BY DEF PostedOrder
      <4>1. k \in 1 .. Len(posted)
        BY <1>0, <3>1
      <4> QED BY <2>1, <2>2, <3>1, <3>2, <4>1, PlacesHold DEF PostedOrder
    <3>5. OutFirst'
      <4> SUFFICES ASSUME NEW k \in Out
                   PROVE  /\ sig # None => Before(issued', sent[k].call, sig)
                          /\ \A l \in 1 .. Len(posted') :
                               Before(issued', sent[k].call, posted'[l].call)
        BY <2>3, <3>1 DEF OutFirst
      <4> QED BY <2>1, <2>2, <3>1, <3>2, PlacesHold DEF OutFirst
    <3>6. SigSecond'
      BY <2>1, <2>2, <2>3, <3>1, <3>2, PlacesHold DEF SigSecond
    <3> QED BY <2>4, <3>3, <3>4, <3>5, <3>6
  <2> QED BY <1>1, <2>5, <2>6, <2>7 DEF Issues
<1>2. CASE Operates
  <2>1. PICK ok \in BOOLEAN : posted' = Append(posted, [call |-> Head(chain), ok |-> ok])
    BY <1>2 DEF Operates
  <2>2. chain # <<>> /\ Len(chain) > 0 /\ Head(chain) = chain[1] /\ chain[1] \in Chained
    BY <1>0, <1>2 DEF Operates
  <2>3. /\ Len(posted') = Len(posted) + 1 /\ posted'[Len(posted) + 1].call = chain[1]
        /\ \A k \in 1 .. Len(posted) : posted'[k] = posted[k]
    BY <1>0, <2>1, <2>2
  <2>4. \A k \in 1 .. Len(posted') : k \in 1 .. Len(posted) \/ k = Len(posted) + 1
    BY <1>0, <2>3
  <2>5. \A k \in 1 .. Len(chain') : /\ chain'[k] = chain[k + 1] /\ k + 1 \in 1 .. Len(chain)
                                    /\ 1 \in 1 .. Len(chain) /\ 1 < k + 1
    BY <1>0, <1>2 DEF Operates
  <2>6. issued' = issued /\ Out' = Out /\ sig' = sig /\ \A k \in Out : sent'[k] = sent[k]
    BY <1>2 DEF Operates, SameOut, SameCalls
  <2>7. OutOrder'
    BY <2>6 DEF OutOrder
  <2>8. PostedOrder'
    <3> SUFFICES ASSUME NEW k \in 1 .. Len(posted'), NEW l \in 1 .. Len(posted'), k < l
                 PROVE  Before(issued, posted'[k].call, posted'[l].call)
      BY <2>6 DEF PostedOrder
    <3>1. k \in 1 .. Len(posted) /\ 1 \in 1 .. Len(chain)
      BY <1>0, <2>2, <2>3
    <3> QED BY <2>3, <2>4, <3>1 DEF PostedOrder, PostedThird
  <2>9. ChainOrder'
    <3> SUFFICES ASSUME NEW k \in 1 .. Len(chain'), NEW l \in 1 .. Len(chain'), k < l
                 PROVE  Before(issued, chain'[k], chain'[l])
      BY <2>6 DEF ChainOrder
    <3>1. k + 1 < l + 1
      OBVIOUS
    <3> QED BY <2>5, <3>1 DEF ChainOrder
  <2>10. OutFirst'
    <3> SUFFICES ASSUME NEW k \in Out
                 PROVE  /\ sig # None => Before(issued, sent[k].call, sig)
                        /\ \A l \in 1 .. Len(posted') :
                             Before(issued, sent[k].call, posted'[l].call)
                        /\ \A l \in 1 .. Len(chain') :
                             Before(issued, sent[k].call, chain'[l])
      BY <2>6 DEF OutFirst
    <3>1. 1 \in 1 .. Len(chain)
      BY <1>0, <2>2
    <3> QED BY <2>3, <2>4, <2>5, <3>1 DEF OutFirst
  <2>11. SigSecond'
    <3>1. 1 \in 1 .. Len(chain)
      BY <1>0, <2>2
    <3> QED BY <2>3, <2>4, <2>5, <2>6, <3>1 DEF SigSecond
  <2>12. PostedThird'
    <3> SUFFICES ASSUME NEW k \in 1 .. Len(posted'), NEW l \in 1 .. Len(chain')
                 PROVE  Before(issued, posted'[k].call, chain'[l])
      BY <2>6 DEF PostedThird
    <3> QED BY <2>3, <2>4, <2>5 DEF PostedThird, ChainOrder
  <2> QED BY <2>7, <2>8, <2>9, <2>10, <2>11, <2>12
<1>3. CASE Observes
  <2>1. /\ Len(posted) > 0 /\ Head(posted) = posted[1] /\ 1 \in 1 .. Len(posted)
        /\ \A k \in 1 .. Len(posted') : /\ posted'[k] = posted[k + 1] /\ 1 < k + 1
                                        /\ k + 1 \in 1 .. Len(posted)
    BY <1>0, <1>3 DEF Observes
  <2>2. issued' = issued /\ chain' = chain /\ sig = None
    BY <1>3 DEF Observes
  <2>3. PostedOrder'
    <3> SUFFICES ASSUME NEW k \in 1 .. Len(posted'), NEW l \in 1 .. Len(posted'), k < l
                 PROVE  Before(issued, posted'[k].call, posted'[l].call)
      BY <2>2 DEF PostedOrder
    <3>1. k + 1 < l + 1
      OBVIOUS
    <3> QED BY <2>1, <3>1 DEF PostedOrder
  <2>4. ChainOrder' /\ PostedThird'
    BY <2>1, <2>2 DEF ChainOrder, PostedThird
  <2>5. CASE sig' = Head(posted).call /\ sig' # None /\ SameOut
    <3>1. OutOrder'
      BY <2>2, <2>5 DEF OutOrder, SameOut, SameCalls
    <3>2. OutFirst'
      BY <2>1, <2>2, <2>5 DEF OutFirst, SameOut, SameCalls
    <3>3. SigSecond'
      BY <2>1, <2>2, <2>5 DEF SigSecond, PostedOrder, PostedThird
    <3> QED BY <2>3, <2>4, <3>1, <3>2, <3>3
  <2>6. CASE sig' = None /\ OneMoreOut(Head(posted).call)
    <3>1. /\ Out' = Out \cup {Len(sent) + 1} /\ sent'[Len(sent) + 1].call = posted[1].call
          /\ \A k \in Out : sent'[k] = sent[k] /\ k < Len(sent) + 1
      BY <1>0, <2>1, <2>6 DEF OneMoreOut, SameCalls
    <3>2. OutOrder'
      <4> SUFFICES ASSUME NEW k \in Out', NEW l \in Out', k < l
                   PROVE  Before(issued, sent'[k].call, sent'[l].call)
        BY <2>2 DEF OutOrder
      <4>1. k \in Out
        BY <1>0, <3>1
      <4> QED BY <2>1, <3>1, <4>1 DEF OutOrder, OutFirst
    <3>3. OutFirst'
      <4> SUFFICES ASSUME NEW k \in Out'
                   PROVE  /\ \A l \in 1 .. Len(posted') :
                               Before(issued, sent'[k].call, posted'[l].call)
                          /\ \A l \in 1 .. Len(chain) :
                               Before(issued, sent'[k].call, chain[l])
        BY <2>2, <2>6 DEF OutFirst
      <4> QED BY <2>1, <3>1 DEF OutFirst, PostedOrder, PostedThird
    <3>4. SigSecond'
      BY <2>6 DEF SigSecond
    <3> QED BY <2>3, <2>4, <3>2, <3>3, <3>4
  <2> QED BY <1>3, <2>5, <2>6 DEF Observes
<1>4. CASE Resolves
  <2>1. /\ Out' = Out \cup {Len(sent) + 1} /\ sent'[Len(sent) + 1].call = sig
        /\ \A k \in Out : sent'[k] = sent[k] /\ k < Len(sent) + 1
        /\ UNCHANGED <<issued, chain, posted>> /\ sig # None /\ sig' = None
    BY <1>0, <1>4 DEF Resolves, OneMoreOut, SameCalls
  <2>2. OutOrder'
    <3> SUFFICES ASSUME NEW k \in Out', NEW l \in Out', k < l
                 PROVE  Before(issued, sent'[k].call, sent'[l].call)
      BY <2>1 DEF OutOrder
    <3>1. k \in Out
      BY <1>0, <2>1
    <3> QED BY <2>1, <3>1 DEF OutOrder, OutFirst
  <2>3. OutFirst'
    <3> SUFFICES ASSUME NEW k \in Out'
                 PROVE  /\ \A l \in 1 .. Len(posted) :
                             Before(issued, sent'[k].call, posted[l].call)
                        /\ \A l \in 1 .. Len(chain) :
                             Before(issued, sent'[k].call, chain[l])
      BY <2>1 DEF OutFirst
    <3> QED BY <2>1 DEF OutFirst, SigSecond
  <2>4. PostedOrder' /\ ChainOrder' /\ PostedThird' /\ SigSecond'
    BY <2>1 DEF PostedOrder, ChainOrder, PostedThird, SigSecond
  <2> QED BY <2>2, <2>3, <2>4
<1>5. CASE Settles \/ Keeps
  <2>1. /\ UNCHANGED <<issued, chain, posted, sig>>
        /\ \A k \in Out' : k \in Out /\ sent'[k] = sent[k]
    BY <1>5 DEF Settles, Keeps, SameOut, SameCalls
  <2>2. OutOrder' /\ OutFirst'
    BY <2>1 DEF OutOrder, OutFirst
  <2>3. PostedOrder' /\ ChainOrder' /\ PostedThird' /\ SigSecond'
    BY <2>1 DEF PostedOrder, ChainOrder, PostedThird, SigSecond
  <2> QED BY <2>2, <2>3
<1> QED BY <1>1, <1>2, <1>3, <1>4, <1>5, OrderShapes

(* No call is before itself, nor before one that is before it.             *)
LEMMA BeforeOrders ==
  ASSUME LoopInv, IssuedInv, NEW c \in Chained, NEW d \in Chained, Before(issued, c, d)
  PROVE  /\ c # d
         /\ \A i, j \in 1 .. Len(issued) : issued[i] = d /\ issued[j] = c => j < i
<1>1. Len(issued) \in Nat
  BY DEF LoopInv, WrapperOK
<1>2. PICK a, b \in 1 .. Len(issued) : a < b /\ issued[a] = c /\ issued[b] = d
  BY DEF Before
<1>3. \A i \in 1 .. Len(issued) : /\ issued[i] = c => i = a
                                  /\ issued[i] = d => i = b
  BY <1>1, <1>2 DEF IssuedInv
<1> QED BY <1>1, <1>2, <1>3

(* Where the calls are after a step.                                       *)
LEMMA StagedStep ==
  ASSUME LoopInv, IssuedInv, PlacesInv
  PROVE  /\ \A c \in Calls : Issues(c) =>
              Staged' = IF c \in Chained /\ promise'[c] = "pending" THEN Staged \cup {c}
                        ELSE Staged
         /\ Operates \/ Observes \/ Resolves \/ Keeps => Staged' = Staged
         /\ Settles => Staged' = Staged \ {sent[Len(received)].call}
<1>0. /\ chain \in Seq(Chained) /\ posted \in Seq([call : Chained, ok : BOOLEAN])
      /\ Len(chain) \in Nat /\ Len(posted) \in Nat /\ Len(sent) \in Nat
      /\ \A k \in Out : k \in 1 .. Len(sent)
      /\ promise \in [Calls -> {"unused", "none", "pending", "resolved", "rejected", "refused"}]
  BY PlacesHold DEF LoopInv, WrapperOK
<1> DEFINE Posted == {posted[k].call : k \in 1 .. Len(posted)}
           InChain == {chain[k] : k \in 1 .. Len(chain)}
           Outside == {sent[k].call : k \in Out}
<1>1. /\ Staged = Outside \cup ({sig} \ {None}) \cup Posted \cup InChain
      /\ Staged' = Outside' \cup ({sig'} \ {None}) \cup Posted' \cup InChain'
  BY DEF Staged
<1>2. SameOut => Outside' = Outside
  BY DEF SameOut, SameCalls
<1>3. \A c : OneMoreOut(c) => Outside' = Outside \cup {c}
  BY DEF OneMoreOut, SameCalls
<1>4. ASSUME NEW c \in Chained, NEW ok \in BOOLEAN,
             posted' = Append(posted, [call |-> c, ok |-> ok])
      PROVE  Posted' = Posted \cup {c}
  <2>1. /\ Len(posted') = Len(posted) + 1 /\ posted'[Len(posted) + 1].call = c
        /\ \A k \in 1 .. Len(posted) : posted'[k] = posted[k]
    BY <1>0, <1>4
  <2>2. 1 .. Len(posted') = (1 .. Len(posted)) \cup {Len(posted) + 1}
    BY <1>0, <2>1
  <2> QED BY <2>1, <2>2
<1>5. ASSUME NEW c \in Chained, chain' = Append(chain, c) PROVE InChain' = InChain \cup {c}
  <2>1. /\ Len(chain') = Len(chain) + 1 /\ chain'[Len(chain) + 1] = c
        /\ \A k \in 1 .. Len(chain) : chain'[k] = chain[k]
    BY <1>0, <1>5
  <2>2. 1 .. Len(chain') = (1 .. Len(chain)) \cup {Len(chain) + 1}
    BY <1>0, <2>1
  <2> QED BY <2>1, <2>2
<1>6. ASSUME posted # <<>>, posted' = Tail(posted)
      PROVE  Posted = Posted' \cup {Head(posted).call} /\ Head(posted).call \in Chained
  <2>1. /\ Head(posted) = posted[1] /\ 1 \in 1 .. Len(posted)
        /\ Len(posted') = Len(posted) - 1 /\ Head(posted) \in [call : Chained, ok : BOOLEAN]
        /\ \A k \in 1 .. Len(posted') : posted'[k] = posted[k + 1]
    BY <1>0, <1>6, Waits, ElementsAre
  <2>2. \A k \in 1 .. Len(posted) : k = 1 \/ (k - 1 \in 1 .. Len(posted') /\ k - 1 + 1 = k)
    BY <1>0, <2>1
  <2>3. \A k \in 1 .. Len(posted') : k + 1 \in 1 .. Len(posted)
    BY <1>0, <2>1
  <2>4. ASSUME NEW k \in 1 .. Len(posted) PROVE posted[k].call \in Posted' \cup {posted[1].call}
    <3>1. CASE k = 1
      BY <3>1
    <3>2. CASE k - 1 \in 1 .. Len(posted') /\ k - 1 + 1 = k
      <4>1. posted'[k - 1] = posted[k]
        BY <2>1, <3>2
      <4> QED BY <3>2, <4>1
    <3> QED BY <2>2, <3>1, <3>2
  <2>5. Posted' \subseteq Posted
    BY <2>1, <2>3
  <2> QED BY <2>1, <2>4, <2>5
<1>7. ASSUME chain # <<>>, chain' = Tail(chain)
      PROVE  InChain = InChain' \cup {Head(chain)} /\ Head(chain) \in Chained
  <2>1. /\ Head(chain) = chain[1] /\ 1 \in 1 .. Len(chain)
        /\ Len(chain') = Len(chain) - 1 /\ Head(chain) \in Chained
        /\ \A k \in 1 .. Len(chain') : chain'[k] = chain[k + 1]
    BY <1>0, <1>7
  <2>2. \A k \in 1 .. Len(chain) : k = 1 \/ (k - 1 \in 1 .. Len(chain') /\ k - 1 + 1 = k)
    BY <1>0, <2>1
  <2>3. \A k \in 1 .. Len(chain') : k + 1 \in 1 .. Len(chain)
    BY <1>0, <2>1
  <2>4. ASSUME NEW k \in 1 .. Len(chain) PROVE chain[k] \in InChain' \cup {chain[1]}
    <3>1. CASE k = 1
      BY <3>1
    <3>2. CASE k - 1 \in 1 .. Len(chain') /\ k - 1 + 1 = k
      <4>1. chain'[k - 1] = chain[k]
        BY <2>1, <3>2
      <4> QED BY <3>2, <4>1
    <3> QED BY <2>2, <3>1, <3>2
  <2>5. InChain' \subseteq InChain
    BY <2>1, <2>3
  <2> QED BY <2>1, <2>4, <2>5
<1>8. UNCHANGED posted => Posted' = Posted
  OBVIOUS
<1>9. UNCHANGED chain => InChain' = InChain
  OBVIOUS
<1>10. ASSUME Settles PROVE Staged' = Staged \ {sent[Len(received)].call}
  <2> DEFINE c == sent[Len(received)].call
  <2>1. /\ Len(received) \in Out /\ Out' = Out \ {Len(received)} /\ SameCalls
        /\ UNCHANGED <<posted, chain, sig>>
    BY <1>10 DEF Settles
  <2>2. c \in Chained /\ \A k \in Out : k >= Len(received) /\ sent[k].call \in Chained
    BY <1>0, <2>1, PlacesHold DEF Out
  <2>3. \A k \in Out : k # Len(received) => sent[k].call # c
    <3>1. \A k \in Out : k # Len(received) => Before(issued, c, sent[k].call)
      BY <1>0, <2>1, <2>2 DEF PlacesInv, OutOrder
    <3> QED BY <2>2, <3>1, BeforeOrders
  <2>4. \A x \in Posted \cup InChain \cup ({sig} \ {None}) : Before(issued, c, x) /\ x \in Chained
    <3>1. Posted \cup InChain \cup ({sig} \ {None}) \subseteq Chained
      BY <1>1, PlacesHold
    <3>2. /\ \A x \in Posted : Before(issued, c, x)
          /\ \A x \in InChain : Before(issued, c, x)
          /\ sig # None => Before(issued, c, sig)
      BY <2>1 DEF PlacesInv, OutFirst
    <3> QED BY <3>1, <3>2
  <2>5. c \notin Posted \cup InChain \cup ({sig} \ {None})
    BY <2>2, <2>4, BeforeOrders
  <2>6. Outside' = Outside \ {c}
    BY <2>1, <2>3 DEF SameCalls
  <2> QED BY <1>1, <1>8, <1>9, <2>1, <2>5, <2>6
<1>11. ASSUME NEW c \in Calls, Issues(c)
       PROVE  Staged' = IF c \in Chained /\ promise'[c] = "pending" THEN Staged \cup {c}
                        ELSE Staged
  <2>1. /\ Settle(c, "pending") => promise'[c] = "pending"
        /\ Settle(c, "refused") => promise'[c] = "refused"
    BY <1>0 DEF Settle
  <2>2. sig' = sig /\ Outside' = Outside
    BY <1>2, <1>11 DEF Issues
  <2>3. CASE /\ c \in Chained /\ Settle(c, "pending")
             /\ chain' = Append(chain, c) /\ UNCHANGED posted
    BY <1>1, <1>5, <1>8, <2>1, <2>2, <2>3
  <2>4. CASE /\ c \in Chained /\ Settle(c, "pending") /\ UNCHANGED chain
             /\ \E ok \in BOOLEAN : posted' = Append(posted, [call |-> c, ok |-> ok])
    BY <1>1, <1>4, <1>9, <2>1, <2>2, <2>4
  <2>5. CASE UNCHANGED <<chain, posted>> /\ (c \notin Chained \/ Settle(c, "refused"))
    BY <1>1, <1>8, <1>9, <2>1, <2>2, <2>5
  <2> QED BY <1>11, <2>3, <2>4, <2>5 DEF Issues
<1>12. ASSUME Operates PROVE Staged' = Staged
  BY <1>1, <1>2, <1>4, <1>7, <1>12 DEF Operates
<1>13. ASSUME Observes PROVE Staged' = Staged
  <2>1. Posted = Posted' \cup {Head(posted).call} /\ sig = None /\ InChain' = InChain
    BY <1>6, <1>9, <1>13 DEF Observes
  <2>2. CASE sig' = Head(posted).call /\ sig' # None /\ SameOut
    BY <1>1, <1>2, <2>1, <2>2
  <2>3. CASE sig' = None /\ OneMoreOut(Head(posted).call)
    BY <1>1, <1>3, <2>1, <2>3
  <2> QED BY <1>13, <2>2, <2>3 DEF Observes
<1>14. ASSUME Resolves PROVE Staged' = Staged
  <2>1. Outside' = Outside \cup {sig} /\ Posted' = Posted /\ InChain' = InChain
    BY <1>3, <1>8, <1>9, <1>14 DEF Resolves
  <2>2. {sig} \ {None} = {sig} /\ {sig'} \ {None} = {}
    BY <1>14 DEF Resolves
  <2> HIDE DEF Outside, Posted, InChain
  <2> QED BY <1>1, <2>1, <2>2
<1>15. ASSUME Keeps PROVE Staged' = Staged
  BY <1>1, <1>2, <1>8, <1>9, <1>15 DEF Keeps
<1> QED BY <1>10, <1>11, <1>12, <1>13, <1>14, <1>15

(* A call is issued once and is in the places until it is settled.         *)
LEMMA IssuedStep == LoopInv /\ IssuedInv /\ PlacesInv /\ [Next]_vars => IssuedInv'
<1> SUFFICES ASSUME LoopInv, IssuedInv, PlacesInv, [Next]_vars PROVE IssuedInv'
  OBVIOUS
<1>0. /\ issued \in Seq(Calls) /\ Len(issued) \in Nat /\ Chained \subseteq Calls
      /\ promise \in [Calls -> {"unused", "none", "pending", "resolved", "rejected", "refused"}]
  BY CallsAre DEF LoopInv, WrapperOK
<1>1. ASSUME NEW c \in Calls, Issues(c) PROVE IssuedInv'
  <2>1. /\ Len(issued') = Len(issued) + 1 /\ issued'[Len(issued) + 1] = c
        /\ \A i \in 1 .. Len(issued) : issued'[i] = issued[i]
    BY <1>0, <1>1 DEF Issues
  <2>2. \A i \in 1 .. Len(issued') : i \in 1 .. Len(issued) \/ i = Len(issued) + 1
    BY <1>0, <2>1
  <2>3. /\ promise'[c] \in {"pending", "refused"}
        /\ \A d \in Calls : d # c => promise'[d] = promise[d]
    BY <1>0, <1>1 DEF Issues, Settle
  <2>4. c \in Chained => \A i \in 1 .. Len(issued) : issued[i] # c
    BY <1>1 DEF Issues, IssuedInv
  <2>5. \A i, j \in 1 .. Len(issued') :
          i < j /\ issued'[i] \in Chained => issued'[i] # issued'[j]
    <3> SUFFICES ASSUME NEW i \in 1 .. Len(issued'), NEW j \in 1 .. Len(issued'), i < j,
                        issued'[i] \in Chained
                 PROVE  issued'[i] # issued'[j]
      OBVIOUS
    <3>1. i \in 1 .. Len(issued)
      BY <1>0, <2>1
    <3> QED BY <2>1, <2>2, <2>4, <3>1 DEF IssuedInv
  <2>6. \A i \in 1 .. Len(issued') :
          issued'[i] \in Chained => promise'[issued'[i]] \notin {"none", "unused"}
    BY <1>0, <2>1, <2>2, <2>3 DEF IssuedInv
  <2>7. \A d \in Chained : promise'[d] \notin {"none", "unused"}
          => \E i \in 1 .. Len(issued') : issued'[i] = d
    <3> SUFFICES ASSUME NEW d \in Chained, promise'[d] \notin {"none", "unused"}
                 PROVE  \E i \in 1 .. Len(issued') : issued'[i] = d
      OBVIOUS
    <3>1. CASE d = c
      BY <1>0, <2>1, <3>1
    <3>2. CASE d # c
      <4>1. PICK i \in 1 .. Len(issued) : issued[i] = d
        BY <1>0, <2>3, <3>2 DEF IssuedInv
      <4>2. i \in 1 .. Len(issued')
        BY <1>0, <2>1
      <4> QED BY <2>1, <4>1, <4>2
    <3> QED BY <3>1, <3>2
  <2>8. \A d \in Chained : promise'[d] = "pending" <=> d \in Staged'
    <3>1. Staged' = IF c \in Chained /\ promise'[c] = "pending" THEN Staged \cup {c} ELSE Staged
      BY <1>1, StagedStep
    <3>2. c \in Chained => c \notin Staged
      BY <1>1 DEF Issues, IssuedInv
    <3> QED BY <1>0, <2>3, <3>1, <3>2 DEF IssuedInv
  <2> QED BY <2>5, <2>6, <2>7, <2>8 DEF IssuedInv
<1>2. CASE Operates \/ Observes \/ Resolves \/ Keeps
  <2>1. Staged' = Staged /\ issued' = issued /\ SamePromises
    BY <1>2, StagedStep DEF Operates, Observes, Resolves, Keeps
  <2> QED BY <2>1 DEF IssuedInv, SamePromises
<1>3. CASE Settles
  <2> DEFINE c == sent[Len(received)].call
  <2>1. Staged' = Staged \ {c} /\ issued' = issued /\ c \in Chained /\ c \in Staged
    BY <1>3, StagedStep, PlacesHold DEF Settles
  <2>2. /\ promise'[c] \in {"resolved", "rejected"} /\ promise[c] = "pending"
        /\ \A d \in Calls : d # c => promise'[d] = promise[d]
    BY <1>0, <1>3, <2>1 DEF Settles, Settle, IssuedInv
  <2>3. \A d \in Chained : promise'[d] = "pending" <=> d \in Staged'
    BY <1>0, <2>1, <2>2 DEF IssuedInv
  <2>4. \A d \in Chained : promise'[d] \notin {"none", "unused"}
          => promise[d] \notin {"none", "unused"}
    BY <1>0, <2>2
  <2>5. \A d \in Chained : promise[d] \notin {"none", "unused"}
          => promise'[d] \notin {"none", "unused"}
    BY <1>0, <2>2
  <2> QED BY <2>1, <2>3, <2>4, <2>5 DEF IssuedInv
<1> QED BY <1>1, <1>2, <1>3, OrderShapes

(* What is settled has nothing pending before it.                          *)
LEMMA SettledStep ==
  LoopInv /\ IssuedInv /\ PlacesInv /\ SettledInOrder /\ [Next]_vars => SettledInOrder'
<1> SUFFICES ASSUME LoopInv, IssuedInv, PlacesInv, SettledInOrder, [Next]_vars
             PROVE  SettledInOrder'
  OBVIOUS
<1>0. /\ issued \in Seq(Calls) /\ Len(issued) \in Nat /\ Chained \subseteq Calls
      /\ DOMAIN issued = 1 .. Len(issued)
      /\ promise \in [Calls -> {"unused", "none", "pending", "resolved", "rejected", "refused"}]
  BY CallsAre DEF LoopInv, WrapperOK
<1>1. ASSUME NEW c \in Calls, Issues(c) PROVE SettledInOrder'
  <2>1. /\ Len(issued') = Len(issued) + 1 /\ issued'[Len(issued) + 1] = c
        /\ \A i \in 1 .. Len(issued) : issued'[i] = issued[i]
        /\ DOMAIN issued' = 1 .. Len(issued')
    BY <1>0, <1>1 DEF Issues
  <2>2. /\ promise'[c] \in {"pending", "refused"}
        /\ \A d \in Calls : d # c => promise'[d] = promise[d]
    BY <1>0, <1>1 DEF Issues, Settle
  <2> SUFFICES ASSUME NEW i \in 1 .. Len(issued'), NEW j \in 1 .. Len(issued'), i < j,
                      issued'[i] \in Chained, issued'[j] \in Chained,
                      promise'[issued'[i]] = "pending"
               PROVE  promise'[issued'[j]] \in {"pending", "refused"}
    BY <2>1 DEF SettledInOrder
  <2>3. CASE issued'[j] = c
    BY <2>2, <2>3
  <2>4. CASE issued'[j] # c
    <3>1. j \in 1 .. Len(issued) /\ i \in 1 .. Len(issued)
      BY <1>0, <2>1, <2>4
    <3>2. issued[i] # c
      <4>1. c \in Chained => promise[c] = "none"
        BY <1>1 DEF Issues
      <4> QED BY <2>1, <3>1, <4>1 DEF IssuedInv
    <3> QED BY <1>0, <2>1, <2>2, <2>4, <3>1, <3>2 DEF SettledInOrder
  <2> QED BY <2>3, <2>4
<1>2. CASE Operates \/ Observes \/ Resolves \/ Keeps
  <2>1. issued' = issued /\ SamePromises
    BY <1>2 DEF Operates, Observes, Resolves, Keeps
  <2> QED BY <2>1 DEF SettledInOrder, SamePromises
<1>3. CASE Settles
  <2> DEFINE c == sent[Len(received)].call
  <2>1. /\ Len(received) \in Out /\ issued' = issued /\ c \in Chained /\ c \in Staged
        /\ Staged' = Staged \ {c}
    BY <1>3, StagedStep, PlacesHold DEF Settles
  <2>2. /\ promise'[c] \in {"resolved", "rejected"}
        /\ \A d \in Calls : d # c => promise'[d] = promise[d]
    BY <1>0, <1>3, <2>1 DEF Settles, Settle
  <2> SUFFICES ASSUME NEW i \in 1 .. Len(issued), NEW j \in 1 .. Len(issued), i < j,
                      issued[i] \in Chained, issued[j] \in Chained,
                      promise'[issued[i]] = "pending"
               PROVE  promise'[issued[j]] \in {"pending", "refused"}
    BY <1>0, <2>1 DEF SettledInOrder
  <2>3. issued[i] # c /\ promise[issued[i]] = "pending"
    BY <1>0, <2>2
  <2>4. CASE issued[j] # c
    BY <1>0, <2>2, <2>3, <2>4 DEF SettledInOrder
  <2>5. CASE issued[j] = c
    <3>1. issued[i] \in Staged
      BY <2>3 DEF IssuedInv
    <3>2. Before(issued, c, issued[i])
      <4>1. \A k \in Out : k # Len(received) => k > Len(received)
        BY DEF Out
      <4>2. \A k \in Out : sent[k].call # c => Before(issued, c, sent[k].call)
        BY <2>1, <4>1 DEF PlacesInv, OutOrder
      <4> QED BY <2>1, <2>3, <3>1, <4>2 DEF Staged, PlacesInv, OutFirst
    <3>3. j < i
      BY <2>1, <2>5, <3>2, BeforeOrders
    <3> QED BY <1>0, <3>3
  <2> QED BY <2>4, <2>5
<1> QED BY <1>1, <1>2, <1>3, OrderShapes

OrderInv == IssuedInv /\ PlacesInv /\ SettledInOrder

(* At first nothing has been called.                                       *)
LEMMA OrderStart == Init => OrderInv
<1> SUFFICES ASSUME Init PROVE OrderInv
  OBVIOUS
<1>1. /\ sent = <<>> /\ chain = <<>> /\ posted = <<>> /\ issued = <<>> /\ sig = None
  BY DEF Init, Loop!Init
<1>2. Out = {} /\ Staged = {}
  BY <1>1 DEF Out, Staged
<1>3. \A c \in Chained : promise[c] \in {"none", "unused"}
  BY CallsAre DEF Init
<1>4. IssuedInv
  BY <1>1, <1>2, <1>3 DEF IssuedInv
<1>5. PlacesInv
  BY <1>1, <1>2 DEF PlacesInv, OutOrder, PostedOrder, ChainOrder, OutFirst, SigSecond,
                    PostedThird
<1>6. SettledInOrder
  BY <1>1 DEF SettledInOrder
<1> QED BY <1>4, <1>5, <1>6 DEF OrderInv

(* The promises of createOffer, createAnswer, setLocalDescription and      *)
(* setRemoteDescription are settled in the order of the calls.             *)
THEOREM OrderKept == SafeSpec => []SettledInOrder
<1>1. Init => IInv /\ OrderInv
  BY Start, OrderStart
<1>2. IInv /\ OrderInv /\ [Next]_vars => (IInv /\ OrderInv)'
  BY Inductive, PlacesStep, IssuedStep, SettledStep DEF IInv, OrderInv
<1>3. IInv /\ OrderInv => SettledInOrder
  BY DEF OrderInv
<1> QED BY <1>1, <1>2, <1>3, PTL DEF SafeSpec

----------------------------------------------------------------------------
(* Each promise is settled once.  The events of the calls that are not     *)
(* chained, until they have been handled.                                  *)
Unhandled == {k \in 1 .. Len(sent) : k > Len(received) \/ (k = Len(received) /\ busy)}
Aside(i) == i.type \in {"resolve", "reject", "candidate"} /\ i.call \notin Chained

(* There is one for a call at most, and its promise is pending.            *)
AsideInv ==
  /\ \A k \in 1 .. Len(sent) :
       sent[k].type \in {"resolve", "reject"} /\ sent[k].call \notin Chained
         => sent[k].type = "resolve" /\ sent[k].call \in Stats
  /\ \A k \in Unhandled : Aside(sent[k]) => promise[sent[k].call] = "pending"
  /\ \A k, l \in Unhandled :
       Aside(sent[k]) /\ Aside(sent[l]) /\ sent[k].call = sent[l].call => k = l

(* What waits in the loop, or is inside it.                                *)
LEMMA UnhandledStep ==
  ASSUME LoopInv
  PROVE  /\ \A i \in AllItems : Loop!Send(i) =>
              /\ Unhandled' = Unhandled \cup {Len(sent) + 1}
              /\ Len(sent') = Len(sent) + 1 /\ sent'[Len(sent) + 1] = i
              /\ \A k \in 1 .. Len(sent) : sent'[k] = sent[k]
         /\ Taking => Unhandled' = Unhandled /\ sent' = sent
         /\ Ending => Unhandled' = Unhandled \ {Len(received)} /\ sent' = sent
         /\ Resting => Unhandled' = Unhandled /\ sent' = sent
<1>0. /\ sent \in Seq(AllItems) /\ Len(sent) \in Nat /\ Len(received) \in Nat
      /\ Len(received) <= Len(sent) /\ received \in Seq(AllItems)
  BY DEF LoopInv, LoopOK, PrefixInv
<1>1. ASSUME NEW i \in AllItems, Loop!Send(i)
      PROVE  /\ Unhandled' = Unhandled \cup {Len(sent) + 1}
             /\ Len(sent') = Len(sent) + 1 /\ sent'[Len(sent) + 1] = i
             /\ \A k \in 1 .. Len(sent) : sent'[k] = sent[k]
  <2>1. /\ Len(sent') = Len(sent) + 1 /\ sent'[Len(sent) + 1] = i
        /\ \A k \in 1 .. Len(sent) : sent'[k] = sent[k]
        /\ UNCHANGED <<received, busy>>
    BY <1>0, <1>1 DEF Loop!Send
  <2> QED BY <1>0, <2>1 DEF Unhandled
<1>2. ASSUME Taking PROVE Unhandled' = Unhandled /\ sent' = sent
  <2>1. /\ sent' = sent /\ ~busy /\ busy' = TRUE
        /\ received' = Append(received, sent[Len(received) + 1])
        /\ Len(received) + 1 \in 1 .. Len(sent)
    BY <1>0, <1>2 DEF Taking, Loop!Receive, Loop!Waiting, Loop!NextItem
  <2>2. sent[Len(received) + 1] \in AllItems
    BY <1>0, <2>1
  <2>3. Len(received') = Len(received) + 1
    BY <1>0, <2>1, <2>2
  <2> QED BY <1>0, <2>1, <2>3 DEF Unhandled
<1>3. ASSUME Ending PROVE Unhandled' = Unhandled \ {Len(received)} /\ sent' = sent
  <2>1. UNCHANGED <<sent, received>> /\ busy /\ busy' = FALSE
    BY <1>3 DEF Ending, Loop!Done
  <2> QED BY <1>0, <2>1 DEF Unhandled
<1>4. ASSUME Resting PROVE Unhandled' = Unhandled /\ sent' = sent
  <2>1. UNCHANGED <<sent, received, busy>>
    BY <1>4 DEF Resting, Loop!Stop, Loop!Notice, Loop!Close, loopVars
  <2> QED BY <2>1 DEF Unhandled
<1> QED BY <1>1, <1>2, <1>3, <1>4

(* What a step does to the promises and to what settles those aside.       *)
Asks(c) ==
  /\ c \in Candidates /\ promise[c] = "none" /\ Settle(c, "pending")
  /\ Loop!Send(Item("candidate", c))
Delivers(c) ==
  /\ c \in Stats /\ promise[c] = "pending" /\ Item("resolve", c) \notin Elements(sent)
  /\ Loop!Send(Item("resolve", c)) /\ UNCHANGED promise
Answers ==
  /\ Ending /\ Current.type \in {"resolve", "reject", "candidate"} /\ UNCHANGED issued
  /\ \E how \in {"resolved", "rejected"} : Settle(Current.call, how)
Sends(i) == i \in AllItems /\ ~Aside(i) /\ Loop!Send(i) /\ UNCHANGED promise
Rests ==
  /\ Resting
  /\ \/ UNCHANGED promise
     \/ \E c \in Calls, how \in {"pending", "refused"} : promise[c] = "none" /\ Settle(c, how)

LEMMA AsideShapes ==
  ASSUME LoopInv, [Next]_vars
  PROVE  \/ Answers \/ Rests
         \/ (\E c : Asks(c) \/ Delivers(c)) \/ (\E i : Sends(i))
         \/ (Taking \/ Ending) /\ UNCHANGED promise
<1>0. /\ JingleOK /\ WrapperOK /\ LoopOK /\ BusyInv /\ PrefixInv /\ SentInv
      /\ Chained \cap (Candidates \cup Stats) = {} /\ Chained \subseteq Calls
      /\ None \notin Chained
  BY CallsAssumption DEF LoopInv, Chained, Calls, Descriptions, None
<1> USE DEF jingleVars, wrapperVars
<1>1. CASE Operate \/ Close \/ CloseReturns \/ HandlerDone \/ LoopClose \/ UNCHANGED vars
  BY <1>1 DEF Operate, Close, CloseReturns, HandlerDone, LoopClose, vars, Rests, Resting, JSFree
<1>2. CASE CallObserver
  <2>1. PICK c \in Chained :
          \/ Loop!Send(Item("reject", c)) \/ Loop!Send(Item("resolve", c))
          \/ Loop!Send(Item("members", c))
    BY <1>0, <1>2, Observed
  <2>2. promise' = promise
    BY <1>2 DEF CallObserver, OnFailure
  <2>3. \A t \in {"reject", "resolve", "members"} :
          Item(t, c) \in AllItems /\ Item(t, c).call = c
    BY <1>0, ItemsAre DEF CallTypes
  <2> QED BY <2>1, <2>2, <2>3 DEF Sends, Aside
<1>3. CASE ResolveSet
  <2>1. sig \in Chained /\ Loop!Send(Item("resolve", sig)) /\ UNCHANGED promise
    BY <1>0, <1>3, CallsAre DEF ResolveSet, JingleOK
  <2>2. Item("resolve", sig) \in AllItems /\ Item("resolve", sig).call = sig
    BY <1>0, <2>1, ItemsAre DEF CallTypes
  <2> QED BY <2>1, <2>2 DEF Sends, Aside
<1>4. CASE OnSignalingClosed
  <2>1. Loop!Send(Item("closed", None)) /\ UNCHANGED promise
    BY <1>4 DEF OnSignalingClosed
  <2> QED BY <2>1, ItemsAre DEF Sends, Aside
<1>5. ASSUME NEW t \in NoticeTypes, Notify(t) PROVE \E i : Sends(i)
  <2>1. Loop!Send(Item(t, None)) /\ UNCHANGED promise
    BY <1>5 DEF Notify
  <2> QED BY <2>1, ItemsAre DEF Sends, Aside, NoticeTypes
<1>6. ASSUME NEW c \in Stats, OnStatsDelivered(c) PROVE Delivers(c)
  BY <1>6 DEF OnStatsDelivered, Delivers
<1>7. ASSUME NEW c \in Calls, Issue(c), UNCHANGED loopVars,
             \E how \in {"pending", "refused"} : Settle(c, how)
      PROVE  Rests
  BY <1>7 DEF Issue, Rests, Resting, JSFree
<1>8. ASSUME NEW c \in Calls, RejectAtOnce(c) PROVE Rests
  BY <1>7, <1>8 DEF RejectAtOnce
<1>9. ASSUME NEW c \in Offers, CreateOffer(c) PROVE Rests
  BY <1>7, <1>8, <1>9, CallsAre DEF CreateOffer
<1>10. ASSUME NEW c \in Descriptions, SetDescription(c) PROVE Rests
  BY <1>7, <1>8, <1>10, CallsAre DEF SetDescription
<1>11. ASSUME NEW c \in Candidates, AddIceCandidate(c) PROVE Asks(c) \/ Rests
  BY <1>8, <1>11, CallsAre DEF AddIceCandidate, Issue, Asks
<1>12. ASSUME NEW c \in Stats, GetStats(c) PROVE Rests
  BY <1>7, <1>8, <1>12, CallsAre DEF GetStats
<1>13. CASE LoopReceive
  BY <1>13 DEF LoopReceive, Taking
<1>14. CASE HandleSettle \/ HandleCandidate
  <2>1. Ending /\ UNCHANGED issued
    BY <1>14 DEF HandleSettle, HandleCandidate, Handled, HandledBy, Ending
  <2> QED BY <1>14, <2>1 DEF HandleSettle, HandleCandidate, Answers
<1>15. CASE HandleMembers \/ HandleNotice \/ HandleTrack
  <2>1. Ending
    BY <1>15 DEF HandleMembers, HandleNotice, HandleTrack, Handled, HandledBy, Ending
  <2> QED BY <1>15, <2>1 DEF HandleMembers, HandleNotice, HandleTrack
<1>16. CASE HandleClosed /\ js = "handle"
  BY <1>16 DEF HandleClosed, Handled, HandledBy, Ending, Rests, Resting
<1> QED BY <1>1, <1>2, <1>3, <1>4, <1>5, <1>6, <1>9, <1>10, <1>11, <1>12, <1>13, <1>14,
         <1>15, <1>16, Cases

(* An event that settles a call finds its promise pending.                 *)
LEMMA AnsweredPending ==
  ASSUME LoopInv, IssuedInv, AsideInv, busy,
         Current.type \in {"resolve", "reject", "candidate"}
  PROVE  Current.call \in Calls /\ promise[Current.call] = "pending"
<1>1. /\ Len(received) \in 1 .. Len(sent) /\ Current = sent[Len(received)]
      /\ Current \in AllItems
  BY CurrentIs DEF LoopInv
<1>2. Current.call \in Calls
  BY <1>1 DEF AllItems, CallTypes, NoticeTypes
<1>3. CASE Current.call \in Chained
  <2>1. Current.type \in {"resolve", "reject"}
    BY <1>1, <1>3, CallsAssumption DEF LoopInv, SentInv, Chained, Descriptions
  <2>2. Len(received) \in Out
    BY <1>1, <1>3, <2>1 DEF Out
  <2> QED BY <1>1, <1>2, <1>3, <2>2 DEF IssuedInv, Staged
<1>4. CASE Current.call \notin Chained
  <2>1. Len(received) \in Unhandled /\ Aside(sent[Len(received)])
    BY <1>1, <1>4 DEF Unhandled, Aside
  <2> QED BY <1>1, <1>2, <2>1 DEF AsideInv
<1> QED BY <1>3, <1>4

(* The calls aside have one event each.                                    *)
LEMMA AsideStep == LoopInv /\ IssuedInv /\ AsideInv /\ [Next]_vars => AsideInv'
<1> SUFFICES ASSUME LoopInv, IssuedInv, AsideInv, [Next]_vars PROVE AsideInv'
  OBVIOUS
<1>0. /\ sent \in Seq(AllItems) /\ Len(sent) \in Nat
      /\ promise \in [Calls -> {"unused", "none", "pending", "resolved", "rejected", "refused"}]
      /\ Chained \cap (Candidates \cup Stats) = {} /\ Candidates \cap Stats = {}
      /\ Candidates \subseteq Calls /\ Stats \subseteq Calls
      /\ \A k \in Unhandled : k \in 1 .. Len(sent) /\ sent[k] \in AllItems
      /\ \A k \in Unhandled : Aside(sent[k]) => sent[k].call \in Calls
  <2>1. \A k \in Unhandled : k \in 1 .. Len(sent) /\ sent[k] \in AllItems
    BY DEF LoopInv, LoopOK, Unhandled
  <2>2. \A i \in AllItems : Aside(i) => i.call \in Calls
    BY DEF AllItems, Aside, NoticeTypes
  <2> QED BY <2>1, <2>2, CallsAssumption DEF LoopInv, LoopOK, WrapperOK, Chained, Calls, Descriptions
<1>1. ASSUME NEW i \in AllItems, Loop!Send(i),
             i.type \in {"resolve", "reject"} /\ i.call \notin Chained
               => i.type = "resolve" /\ i.call \in Stats,
             Aside(i) => /\ promise'[i.call] = "pending"
                         /\ \A k \in Unhandled : Aside(sent[k]) => sent[k].call # i.call,
             \A k \in Unhandled : Aside(sent[k]) => promise'[sent[k].call] = "pending"
      PROVE  AsideInv'
  <2>1. /\ Unhandled' = Unhandled \cup {Len(sent) + 1}
        /\ Len(sent') = Len(sent) + 1 /\ sent'[Len(sent) + 1] = i
        /\ \A k \in 1 .. Len(sent) : sent'[k] = sent[k]
    BY <1>1, UnhandledStep
  <2>2. \A k \in 1 .. Len(sent') : k \in 1 .. Len(sent) \/ k = Len(sent) + 1
    BY <1>0, <2>1
  <2>3. \A k \in Unhandled : sent'[k] = sent[k]
    BY <1>0, <2>1
  <2>4. \A k \in 1 .. Len(sent') :
          sent'[k].type \in {"resolve", "reject"} /\ sent'[k].call \notin Chained
            => sent'[k].type = "resolve" /\ sent'[k].call \in Stats
    BY <1>1, <2>1, <2>2 DEF AsideInv
  <2>5. \A k \in Unhandled' : Aside(sent'[k]) => promise'[sent'[k].call] = "pending"
    BY <1>1, <2>1, <2>3
  <2>6. \A k, l \in Unhandled' :
          Aside(sent'[k]) /\ Aside(sent'[l]) /\ sent'[k].call = sent'[l].call => k = l
    BY <1>1, <2>1, <2>3 DEF AsideInv
  <2> QED BY <2>4, <2>5, <2>6 DEF AsideInv, Aside
<1>2. ASSUME Unhandled' \subseteq Unhandled, sent' = sent,
             \A k \in Unhandled' : Aside(sent[k]) => promise'[sent[k].call] = "pending"
      PROVE  AsideInv'
  BY <1>2 DEF AsideInv, Aside
<1>3. ASSUME NEW c, Asks(c) PROVE AsideInv'
  <2>1. c \in Candidates /\ promise[c] = "none" /\ Loop!Send(Item("candidate", c))
        /\ Settle(c, "pending")
    BY <1>3 DEF Asks
  <2>2. Item("candidate", c) \in AllItems /\ Item("candidate", c).type = "candidate"
        /\ Item("candidate", c).call = c
    BY <1>0, <2>1, ItemsAre DEF CallTypes
  <2>3. \A k \in Unhandled : Aside(sent[k]) => sent[k].call # c
    BY <2>1 DEF AsideInv
  <2>4. promise'[c] = "pending" /\ \A d \in Calls : d # c => promise'[d] = promise[d]
    BY <1>0, <2>1 DEF Settle
  <2>5. \A k \in Unhandled : Aside(sent[k]) => promise'[sent[k].call] = "pending"
    BY <1>0, <2>3, <2>4 DEF AsideInv
  <2> QED BY <1>1, <2>1, <2>2, <2>3, <2>4, <2>5
<1>4. ASSUME NEW c, Delivers(c) PROVE AsideInv'
  <2>1. c \in Stats /\ promise[c] = "pending" /\ Item("resolve", c) \notin Elements(sent)
        /\ Loop!Send(Item("resolve", c)) /\ UNCHANGED promise
    BY <1>4 DEF Delivers
  <2>2. Item("resolve", c) \in AllItems /\ Item("resolve", c).type = "resolve"
        /\ Item("resolve", c).call = c
    BY <1>0, <2>1, ItemsAre DEF CallTypes
  <2>3. ASSUME NEW k \in Unhandled, Aside(sent[k]), sent[k].call = c PROVE FALSE
    <3>1. k \in 1 .. Len(sent) /\ sent[k] \in AllItems
      BY <1>0
    <3>2. sent[k].type # "candidate"
      BY <1>0, <2>1, <2>3, <3>1 DEF LoopInv, SentInv
    <3>3. sent[k].type = "resolve"
      BY <2>3, <3>1, <3>2 DEF Aside, AsideInv
    <3>4. sent[k] = Item("resolve", c)
      BY <2>3, <3>1, <3>3 DEF AllItems, Item
    <3>5. k \in DOMAIN sent
      BY <1>0, <3>1
    <3> QED BY <2>1, <3>4, <3>5 DEF Elements
  <2>4. \A k \in Unhandled : Aside(sent[k]) => promise'[sent[k].call] = "pending"
    BY <2>1 DEF AsideInv
  <2> QED BY <1>1, <2>1, <2>2, <2>3, <2>4
<1>5. ASSUME NEW i, Sends(i) PROVE AsideInv'
  <2>1. i \in AllItems /\ ~Aside(i) /\ Loop!Send(i) /\ UNCHANGED promise
    BY <1>5 DEF Sends
  <2>2. ~(i.type \in {"resolve", "reject"} /\ i.call \notin Chained)
    BY <2>1 DEF Aside
  <2>3. \A k \in Unhandled : Aside(sent[k]) => promise'[sent[k].call] = "pending"
    BY <2>1 DEF AsideInv
  <2> QED BY <1>1, <2>1, <2>2, <2>3
<1>6. CASE Answers
  <2>1. busy /\ Unhandled' = Unhandled \ {Len(received)} /\ sent' = sent
    BY <1>6, UnhandledStep DEF Answers, Ending, Loop!Done
  <2>2. /\ Len(received) \in 1 .. Len(sent) /\ Current = sent[Len(received)]
        /\ Len(received) \in Unhandled
    BY <2>1, CurrentIs DEF LoopInv, Unhandled
  <2>3. \A k \in Unhandled : /\ Aside(sent[k]) /\ k # Len(received)
                             => sent[k].call # Current.call
    BY <1>6, <2>2 DEF AsideInv, Aside, Answers
  <2>4. \A d \in Calls : d # Current.call => promise'[d] = promise[d]
    BY <1>0, <1>6 DEF Answers, Settle
  <2>5. \A k \in Unhandled' : Aside(sent[k]) => promise'[sent[k].call] = "pending"
    BY <1>0, <2>1, <2>3, <2>4 DEF AsideInv
  <2> QED BY <1>2, <2>1, <2>5
<1>7. CASE Rests
  <2>1. Unhandled' = Unhandled /\ sent' = sent
    BY <1>7, UnhandledStep DEF Rests
  <2>2. \A d \in Calls : promise[d] = "pending" => promise'[d] = "pending"
    BY <1>0, <1>7 DEF Rests, Settle
  <2>3. \A k \in Unhandled : Aside(sent[k]) => promise'[sent[k].call] = "pending"
    BY <1>0, <2>2 DEF AsideInv
  <2> QED BY <1>2, <2>1, <2>3
<1>8. CASE (Taking \/ Ending) /\ UNCHANGED promise
  BY <1>2, <1>8, UnhandledStep DEF AsideInv
<1> QED BY <1>3, <1>4, <1>5, <1>6, <1>7, <1>8, AsideShapes

PromisesInv == IInv /\ OrderInv /\ AsideInv

(* The invariant of the promises.                                          *)
LEMMA PromisesHold == SafeSpec => []PromisesInv
<1>1. Init => PromisesInv
  <2>1. Init => AsideInv
    BY DEF Init, Loop!Init, AsideInv, Unhandled
  <2> QED BY <2>1, Start, OrderStart DEF PromisesInv
<1>2. PromisesInv /\ [Next]_vars => PromisesInv'
  BY Inductive, PlacesStep, IssuedStep, SettledStep, AsideStep DEF PromisesInv, IInv, OrderInv
<1> QED BY <1>1, <1>2, PTL DEF SafeSpec

(* The promises change as Promises says.                                   *)
LEMMA PromisesChange ==
  ASSUME PromisesInv, [Next]_vars
  PROVE  [Promised!Next]_<<promise, issued>>
<1>0. /\ LoopInv /\ IssuedInv /\ PlacesInv /\ AsideInv
      /\ issued \in Seq(Calls) /\ DOMAIN issued = 1 .. Len(issued)
  BY DEF PromisesInv, IInv, OrderInv, LoopInv, WrapperOK
<1> USE DEF jingleVars, wrapperVars
<1>1. ASSUME NEW c \in Calls, Issue(c), \E how \in {"pending", "refused"} : Settle(c, how)
      PROVE  Promised!Next
  BY <1>1 DEF Issue, Settle, Promised!Next, Promised!Issue
<1>2. ASSUME NEW c \in Calls, RejectAtOnce(c) PROVE Promised!Next
  BY <1>1, <1>2 DEF RejectAtOnce
<1>3. ASSUME NEW c \in Calls,
             CreateOffer(c) \/ SetDescription(c) \/ AddIceCandidate(c) \/ GetStats(c)
      PROVE  Promised!Next
  BY <1>1, <1>2, <1>3 DEF CreateOffer, SetDescription, AddIceCandidate, GetStats
<1>4. CASE HandleSettle \/ HandleCandidate
  <2>1. /\ Ending /\ UNCHANGED issued /\ busy
        /\ Current.type \in {"resolve", "reject", "candidate"}
    BY <1>4 DEF HandleSettle, HandleCandidate, Handled, HandledBy, Ending, Loop!Done
  <2>2. PICK how \in {"resolved", "rejected"} : Settle(Current.call, how)
    BY <1>4 DEF HandleSettle, HandleCandidate
  <2>3. Current.call \in Calls /\ promise[Current.call] = "pending"
    BY <1>0, <2>1, AnsweredPending
  <2>4. Current.call \in Chained => Promised!Due(Current.call)
    <3> SUFFICES ASSUME Current.call \in Chained,
                        NEW i \in 1 .. Len(issued), NEW j \in 1 .. Len(issued),
                        i < j, issued[i] \in Chained, issued[j] = Current.call,
                        promise[issued[i]] = "pending"
                 PROVE  FALSE
      BY <1>0 DEF Promised!Due
    <3>1. Len(received) \in 1 .. Len(sent) /\ Current = sent[Len(received)]
      BY <1>0, <2>1, CurrentIs DEF LoopInv
    <3>2. Current.type \in {"resolve", "reject"}
      BY <1>0, <2>1, <3>1, CallsAssumption DEF LoopInv, SentInv, Chained, Descriptions
    <3>3. Len(received) \in Out
      BY <2>1, <3>1, <3>2 DEF Out
    <3>4. issued[i] # Current.call /\ issued[i] \in Staged
      BY <1>0 DEF IssuedInv
    <3>5. Before(issued, Current.call, issued[i])
      <4>1. \A k \in Out : k # Len(received) => k > Len(received)
        BY DEF Out
      <4>2. \A k \in Out :
              sent[k].call # Current.call => Before(issued, Current.call, sent[k].call)
        BY <1>0, <3>1, <3>3, <4>1 DEF PlacesInv, OutOrder
      <4> QED BY <1>0, <3>1, <3>3, <3>4, <4>2 DEF Staged, PlacesInv, OutFirst
    <3>6. j < i
      BY <1>0, <3>5, BeforeOrders
    <3> QED BY <1>0, <3>6
  <2> QED BY <2>1, <2>2, <2>3, <2>4 DEF Settle, Promised!Next, Promised!Settle
<1>5. CASE UNCHANGED <<promise, issued>>
  BY <1>5
<1>6. CASE Operate \/ ResolveSet \/ OnSignalingClosed \/ Close \/ CloseReturns \/ LoopReceive
           \/ HandlerDone \/ LoopClose \/ UNCHANGED vars
  BY <1>5, <1>6 DEF Operate, ResolveSet, OnSignalingClosed, Close, CloseReturns,
                   LoopReceive, HandlerDone, LoopClose, vars
<1>7. CASE CallObserver
  BY <1>5, <1>7 DEF CallObserver, OnFailure
<1>8. ASSUME NEW d, Notify(d) \/ OnStatsDelivered(d) PROVE UNCHANGED <<promise, issued>>
  BY <1>8 DEF Notify, OnStatsDelivered
<1>9. CASE HandleMembers \/ HandleNotice \/ HandleTrack \/ HandleClosed
  BY <1>5, <1>9 DEF HandleMembers, HandleNotice, HandleTrack, HandleClosed, Handled, HandledBy
<1> QED BY <1>3, <1>4, <1>5, <1>6, <1>7, <1>8, <1>9, Cases, CallsAre

(* A call is answered once: an event that settles a promise finds it       *)
(* pending, and no promise of an earlier chained call is then pending.     *)
THEOREM SettledOnce == SafeSpec => IsPromises
<1>1. Init => Promised!Init
  BY DEF Init, Promised!Init
<1>2. PromisesInv /\ [Next]_vars => [Promised!Next]_<<promise, issued>>
  BY PromisesChange
<1> QED BY <1>1, <1>2, PromisesHold, PTL DEF SafeSpec, IsPromises, Promised!SafeSpec, Promised!vars
=============================================================================
