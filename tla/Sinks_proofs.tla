---------------------------- MODULE Sinks_proofs ----------------------------
(***************************************************************************)
(* For any number of sinks and any amount of data: the addresses that the  *)
(* sources keep are those of sinks that exist, a sink of a received or a   *)
(* video track hears all of it, and nothing reaches a sink that is stopped.*)
(***************************************************************************)
EXTENDS Sinks, TLAPS

Listening == {"remote", "video"}

(* A list of libwebrtc holds the sinks whose _track it is, and the local   *)
(* source knows sinks of its own tracks only.                              *)
LinkInv ==
  /\ \A s \in Sinks, x \in Listening : s \in lists[x] <=> track[s] = x
  /\ \A s \in Sinks : s = single \/ s = pushing => track[s] = "local"

(* A loop closes after the stop that it has noticed.                       *)
Ends(b) == (b.noticed => b.stopped) /\ (b.closed => b.noticed)

(* A sink that has its track exists, and its loop has not been stopped.    *)
LifeInv ==
  \A s \in Sinks :
    /\ Ends(box[s])
    /\ track[s] \in Sources => alive[s] /\ ~stopped[s] /\ ~box[s].stopped
    /\ track[s] = "none" => ~reachable[s] /\ ~box[s].stopped /\ box[s].sent = <<>>
    /\ stopped[s] => track[s] = "null"

(* What a sink was sent is what came after its constructor.                *)
HeardInv ==
  \A s \in Sinks, x \in Listening :
    track[s] = x => from[s] <= delivered[x] /\ Heard(s, x)

PushedInv == pushing # "idle" => delivered["local"] > 0

----------------------------------------------------------------------------
(* The steps of a loop keep what it holds.                                 *)
LEMMA BoxSteps ==
  ASSUME NEW S, NEW b \in BoxType(S), Ends(b)
  PROVE  /\ \A x \in S : /\ Put(b, x) \in BoxType(S) /\ Ends(Put(b, x))
                         /\ Put(b, x).sent = Append(b.sent, x)
                         /\ Put(b, x).stopped = b.stopped /\ Put(b, x).closed = b.closed
         /\ Stopped(b) \in BoxType(S) /\ Ends(Stopped(b)) /\ Stopped(b).sent = b.sent
<1> USE DEF BoxType, Ends
<1>1. ASSUME NEW x \in S
      PROVE  /\ Put(b, x) \in BoxType(S) /\ Ends(Put(b, x))
             /\ Put(b, x).sent = Append(b.sent, x)
             /\ Put(b, x).stopped = b.stopped /\ Put(b, x).closed = b.closed
  <2>1. Append(b.sent, x) \in Seq(S)
    OBVIOUS
  <2> QED BY <2>1 DEF Put
<1>2. Stopped(b) \in BoxType(S) /\ Ends(Stopped(b)) /\ Stopped(b).sent = b.sent
  <2>1. (b.noticed \/ b.busy) \in BOOLEAN
    OBVIOUS
  <2> QED BY <2>1 DEF Stopped
<1> QED BY <1>1, <1>2

(* What a turn of the loop leaves as it is.                                *)
Turned(S, b, c) == c \in BoxType(S) /\ Ends(c) /\ c.sent = b.sent /\ c.stopped = b.stopped

(* Every turn is one of these, and leaves it so.                           *)
LEMMA BoxTurns ==
  ASSUME NEW S, NEW b \in BoxType(S), Ends(b)
  PROVE  /\ MayTake(b) => Turned(S, b, Take(b))
         /\ Turned(S, b, Handled(b))
         /\ MayNotice(b) => Turned(S, b, Noticed(b))
         /\ MayClose(b) => Turned(S, b, Closed(b))
<1> USE DEF BoxType, Ends, Turned
<1>1. ASSUME MayTake(b) PROVE Turned(S, b, Take(b))
  <2>1. Len(b.received) + 1 \in 1 .. Len(b.sent)
    BY <1>1 DEF MayTake, Waiting
  <2>2. b.sent[Len(b.received) + 1] \in S
    BY <2>1
  <2>3. Append(b.received, b.sent[Len(b.received) + 1]) \in Seq(S)
    BY <2>2
  <2> QED BY <1>1, <2>3 DEF MayTake, Take
<1>2. Turned(S, b, Handled(b))
  BY DEF Handled
<1>3. ASSUME MayNotice(b) PROVE Turned(S, b, Noticed(b))
  BY <1>3 DEF MayNotice, Noticed
<1>4. ASSUME MayClose(b) PROVE Turned(S, b, Closed(b))
  BY <1>4 DEF MayClose, Closed
<1> QED BY <1>1, <1>2, <1>3, <1>4

(* A step of JavaScript's loops is a turn of one sink's.                   *)
LEMMA Turns ==
  ASSUME TypeOK, LifeInv, NEW s \in Sinks, LoopTurn(s) \/ LoopHandled(s)
  PROVE  /\ box' = [box EXCEPT ![s] = box'[s]]
         /\ Turned(1..MaxData, box[s], box'[s])
         /\ js' \in Sinks \cup {None}
         /\ UNCHANGED <<sourceVars, track, stopped, from, reachable, alive, pushing, crashed>>
<1>1. box \in [Sinks -> BoxType(1..MaxData)] /\ box[s] \in BoxType(1..MaxData) /\ Ends(box[s])
  BY DEF TypeOK, LifeInv
<1>2. ASSUME NEW n \in Sinks \cup {None}, NEW b, Turn(s, n, b), Turned(1..MaxData, box[s], b)
      PROVE  /\ box' = [box EXCEPT ![s] = box'[s]]
             /\ Turned(1..MaxData, box[s], box'[s])
             /\ js' \in Sinks \cup {None}
             /\ UNCHANGED <<sourceVars, track, stopped, from, reachable, alive, pushing,
                            crashed>>
  <2>1. box' = [box EXCEPT ![s] = b] /\ box'[s] = b
    BY <1>1, <1>2 DEF Turn
  <2> QED BY <1>2, <2>1 DEF Turn
<1>3. CASE LoopTake(s)
  BY <1>1, <1>2, <1>3, BoxTurns DEF LoopTake
<1>4. CASE LoopHandled(s)
  BY <1>1, <1>2, <1>4, BoxTurns DEF LoopHandled
<1>5. CASE LoopNotice(s)
  BY <1>1, <1>2, <1>5, BoxTurns DEF LoopNotice
<1>6. CASE LoopClose(s)
  BY <1>1, <1>2, <1>6, BoxTurns DEF LoopClose
<1> QED BY <1>3, <1>4, <1>5, <1>6 DEF LoopTurn

(* Every step is one of these.                                             *)
LEMMA Cases ==
  ASSUME [Next]_vars
  PROVE  \/ \E s \in Sinks : \/ NewSink(s) \/ RefuseSink(s) \/ Stop(s) \/ Forget(s)
                             \/ Collect(s) \/ LoopTurn(s) \/ LoopHandled(s)
         \/ OnData \/ PushData \/ \E x \in Listening : Deliver(x)
         \/ SenderAdded \/ SenderRemoved \/ UNCHANGED vars
  BY DEF Next, Sink, Listening
----------------------------------------------------------------------------
(* What the sources deliver is bounded and is numbered from one.           *)
LEMMA DeliveredStep ==
  ASSUME delivered \in [Sources -> 0..MaxData], NEW x \in Sources, More(x)
  PROVE  /\ delivered' \in [Sources -> 0..MaxData]
         /\ delivered'[x] = delivered[x] + 1 /\ delivered'[x] \in 1..MaxData
         /\ \A y \in Sources \ {x} : delivered'[y] = delivered[y]
<1>1. delivered[x] + 1 \in 1..MaxData
  BY MaxDataAssumption DEF More, Sources
<1> QED BY <1>1, MaxDataAssumption DEF More

(* What a step puts into the loops.                                        *)
LEMMA Puts ==
  ASSUME TypeOK, LifeInv, NEW S \in SUBSET Sinks, NEW v \in 1..MaxData,
         box' = [s \in Sinks |-> IF s \in S THEN Put(box[s], v) ELSE box[s]]
  PROVE  /\ box' \in [Sinks -> BoxType(1..MaxData)]
         /\ \A s \in S : /\ Ends(box'[s]) /\ box'[s].sent = Append(box[s].sent, v)
                         /\ box'[s].stopped = box[s].stopped /\ box'[s].closed = box[s].closed
         /\ \A s \in Sinks \ S : box'[s] = box[s]
<1>1. \A s \in Sinks : box[s] \in BoxType(1..MaxData) /\ Ends(box[s])
  BY DEF TypeOK, LifeInv
<1>2. \A s \in S : /\ Put(box[s], v) \in BoxType(1..MaxData) /\ Ends(Put(box[s], v))
                   /\ Put(box[s], v).sent = Append(box[s].sent, v)
                   /\ Put(box[s], v).stopped = box[s].stopped
                   /\ Put(box[s], v).closed = box[s].closed
  BY <1>1, BoxSteps
<1> QED BY <1>1, <1>2
----------------------------------------------------------------------------
(* Every step keeps the types.                                             *)
LEMMA TypeStep ==
  TypeOK /\ LifeInv /\ PushedInv /\ [Next]_vars => TypeOK'
<1> SUFFICES ASSUME TypeOK, LifeInv, PushedInv, [Next]_vars PROVE TypeOK'
  OBVIOUS
<1> USE DEF TypeOK, sourceVars, sinkVars
<1>1. ASSUME NEW s \in Sinks, NewSink(s) PROVE TypeOK'
  <2>1. PICK x \in IF s \in AudioSinks THEN {"local", "remote"} ELSE {"video"} :
          /\ Construct(s, x)
          /\ AddSink(s, x)
          /\ from' = [from EXCEPT ![s] = delivered[x]]
          /\ reachable' = [reachable EXCEPT ![s] = TRUE]
    BY <1>1 DEF NewSink
  <2>2. x \in Sources /\ (x = "local" => s \in AudioSinks)
    BY DEF Sources
  <2>3. single' \in AudioSinks \cup {Sender, None} /\ lists' \in [Listening -> SUBSET Sinks]
    BY <2>1, <2>2 DEF AddSink, Listening
  <2> QED BY <2>1, <2>2, <2>3 DEF Construct, Listening
<1>2. ASSUME NEW s \in Sinks, RefuseSink(s) PROVE TypeOK'
  BY <1>2 DEF RefuseSink, Construct
<1>3. ASSUME NEW s \in Sinks, Stop(s) PROVE TypeOK'
  <2>1. single' \in AudioSinks \cup {Sender, None} /\ lists' \in [Listening -> SUBSET Sinks]
        /\ track' \in [Sinks -> Sources \cup {"none", "null"}]
        /\ stopped' \in [Sinks -> BOOLEAN]
    <3>1. CASE track[s] \notin Sources
      BY <1>3, <3>1 DEF Stop, Detach, Listening
    <3>2. CASE track[s] \in Sources
      <4>1. RemoveSink(s, track[s])
        BY <1>3, <3>2 DEF Stop, Detach
      <4>2. single' \in AudioSinks \cup {Sender, None}
            /\ lists' \in [Listening -> SUBSET Sinks]
        <5>1. CASE track[s] = "local"
          BY <4>1, <5>1 DEF RemoveSink, Listening
        <5>2. CASE track[s] # "local"
          <6>1. single' = single /\ lists' = [lists EXCEPT ![track[s]] = @ \ {s}]
            BY <4>1, <5>2 DEF RemoveSink
          <6>2. track[s] \in Listening /\ lists \in [Listening -> SUBSET Sinks]
            BY <3>2, <5>2 DEF Sources, Listening
          <6> QED BY <6>1, <6>2
        <5> QED BY <5>1, <5>2
      <4> QED BY <1>3, <3>2, <4>2 DEF Stop, Detach
    <3> QED BY <3>1, <3>2
  <2>2. Stopped(box[s]) \in BoxType(1..MaxData)
    BY BoxSteps DEF LifeInv
  <2> QED BY <1>3, <2>1, <2>2 DEF Stop, Listening
<1>4. ASSUME NEW s \in Sinks, Forget(s) \/ Collect(s) PROVE TypeOK'
  BY <1>4 DEF Forget, Collect
<1>5. ASSUME NEW s \in Sinks, LoopTurn(s) \/ LoopHandled(s) PROVE TypeOK'
  <2>1. box' = [box EXCEPT ![s] = box'[s]] /\ box'[s] \in BoxType(1..MaxData)
    BY <1>5, Turns DEF Turned
  <2>2. box' \in [Sinks -> BoxType(1..MaxData)]
    BY <2>1
  <2> QED BY <1>5, <2>2, Turns
<1>6. CASE OnData
  BY <1>6, DeliveredStep DEF OnData, Sources
<1>7. CASE PushData
  <2>1. pushing' \in AudioSinks \cup {Sender, None, "idle"} /\ crashed' \in BOOLEAN
    BY <1>7 DEF PushData
  <2>2. delivered["local"] \in 1..MaxData
    BY <1>7, MaxDataAssumption DEF PushData, PushedInv, Sources
  <2>3. box' \in [Sinks -> BoxType(1..MaxData)]
    <3> DEFINE S == {s \in Sinks : s = pushing}
    <3>1. box' = [s \in Sinks |-> IF s \in S THEN Put(box[s], delivered["local"]) ELSE box[s]]
      BY <1>7 DEF PushData
    <3> QED BY <2>2, <3>1, Puts
  <2> QED BY <1>7, <2>1, <2>3 DEF PushData
<1>8. ASSUME NEW x \in Listening, Deliver(x) PROVE TypeOK'
  <2>1. /\ delivered' \in [Sources -> 0..MaxData]
        /\ delivered[x] + 1 \in 1..MaxData
    BY <1>8, DeliveredStep DEF Deliver, Sources, Listening
  <2>2. lists[x] \in SUBSET Sinks
    BY DEF Listening
  <2>3. box' = [s \in Sinks |-> IF s \in lists[x] THEN Put(box[s], delivered[x] + 1) ELSE box[s]]
    BY <1>8 DEF Deliver
  <2>4. box' \in [Sinks -> BoxType(1..MaxData)]
    BY <2>1, <2>2, <2>3, Puts
  <2> QED BY <1>8, <2>1, <2>4 DEF Deliver
<1>9. CASE SenderAdded \/ SenderRemoved
  BY <1>9 DEF SenderAdded, SenderRemoved, AddSink, RemoveSink
<1>10. CASE UNCHANGED vars
  BY <1>10 DEF vars
<1> QED BY <1>1, <1>2, <1>3, <1>4, <1>5, <1>6, <1>7, <1>8, <1>9, <1>10, Cases

(* Whom the sources know.                                                  *)
LEMMA LinkStep ==
  TypeOK /\ LifeInv /\ LinkInv /\ [Next]_vars => LinkInv'
<1> SUFFICES ASSUME TypeOK, LifeInv, LinkInv, [Next]_vars PROVE LinkInv'
  OBVIOUS
<1>0. /\ track \in [Sinks -> Sources \cup {"none", "null"}]
      /\ lists \in [Listening -> SUBSET Sinks]
      /\ "local" \notin Listening /\ "none" \notin Sources /\ "null" \notin Sources
      /\ Sources = Listening \cup {"local"}
      /\ None \notin Sinks /\ Sender \notin Sinks /\ "idle" \notin Sinks
  BY SinksAssumption DEF TypeOK, Listening, Sources
<1> USE DEF LinkInv, sourceVars, sinkVars
<1>1. ASSUME NEW s \in Sinks, NewSink(s) PROVE LinkInv'
  <2>1. PICK x \in IF s \in AudioSinks THEN {"local", "remote"} ELSE {"video"} :
          Construct(s, x) /\ AddSink(s, x)
    BY <1>1 DEF NewSink
  <2>2. x \in Sources
    BY DEF Sources
  <2>3. /\ pushing' = "idle" /\ track[s] = "none"
        /\ track' = [track EXCEPT ![s] = x]
    BY <2>1 DEF Construct, Free
  <2>4. CASE x = "local"
    BY <1>0, <2>1, <2>3, <2>4 DEF AddSink
  <2>5. CASE x \in Listening
    <3>1. lists' = [lists EXCEPT ![x] = @ \cup {s}] /\ single' = single
      BY <1>0, <2>1, <2>5 DEF AddSink
    <3>2. \A t \in Sinks, y \in Listening : t \in lists'[y] <=> track'[t] = y
      BY <1>0, <2>3, <2>5, <3>1
    <3>3. single # s
      BY <2>3
    <3> QED BY <1>0, <2>3, <3>1, <3>2, <3>3
  <2> QED BY <1>0, <2>2, <2>4, <2>5
<1>2. ASSUME NEW s \in Sinks, RefuseSink(s) PROVE LinkInv'
  BY <1>0, <1>2 DEF RefuseSink, Construct, Free
<1>3. ASSUME NEW s \in Sinks, Stop(s) PROVE LinkInv'
  <2>1. pushing' = "idle" /\ Detach(s)
    BY <1>3 DEF Stop, Free
  <2>2. CASE track[s] \notin Sources
    <3>1. UNCHANGED <<single, lists, track>>
      BY <2>1, <2>2 DEF Detach
    <3> QED BY <1>0, <2>1, <3>1
  <2>3. CASE track[s] = "local"
    <3>1. single' = None /\ lists' = lists /\ track' = [track EXCEPT ![s] = "null"]
      BY <1>0, <2>1, <2>3 DEF Detach, RemoveSink
    <3> QED BY <1>0, <2>1, <2>3, <3>1
  <2>4. CASE track[s] \in Listening
    <3>1. /\ lists' = [lists EXCEPT ![track[s]] = @ \ {s}] /\ single' = single
          /\ track' = [track EXCEPT ![s] = "null"]
      BY <1>0, <2>1, <2>4 DEF Detach, RemoveSink
    <3>2. \A t \in Sinks, y \in Listening : t \in lists'[y] <=> track'[t] = y
      BY <1>0, <2>4, <3>1
    <3>3. single # s
      BY <1>0, <2>4
    <3> QED BY <1>0, <2>1, <3>1, <3>2, <3>3
  <2> QED BY <1>0, <2>2, <2>3, <2>4
<1>4. ASSUME NEW s \in Sinks, Forget(s) \/ Collect(s) PROVE LinkInv'
  BY <1>4 DEF Forget, Collect
<1>5. ASSUME NEW s \in Sinks, LoopTurn(s) \/ LoopHandled(s) PROVE LinkInv'
  BY <1>5, Turns
<1>6. CASE OnData
  BY <1>6 DEF OnData
<1>7. CASE PushData
  BY <1>0, <1>7 DEF PushData
<1>8. ASSUME NEW x \in Listening, Deliver(x) PROVE LinkInv'
  BY <1>8 DEF Deliver
<1>9. CASE SenderAdded \/ SenderRemoved
  BY <1>0, <1>9 DEF SenderAdded, SenderRemoved, AddSink, RemoveSink
<1>10. CASE UNCHANGED vars
  BY <1>10 DEF vars
<1> QED BY <1>1, <1>2, <1>3, <1>4, <1>5, <1>6, <1>7, <1>8, <1>9, <1>10, Cases

(* A sink exists, and its loop goes on, as long as it has a track.         *)
LEMMA LifeStep ==
  TypeOK /\ LinkInv /\ LifeInv /\ PushedInv /\ [Next]_vars => LifeInv'
<1> SUFFICES ASSUME TypeOK, LinkInv, LifeInv, PushedInv, [Next]_vars PROVE LifeInv'
  OBVIOUS
<1>0. /\ track \in [Sinks -> Sources \cup {"none", "null"}]
      /\ stopped \in [Sinks -> BOOLEAN] /\ alive \in [Sinks -> BOOLEAN]
      /\ reachable \in [Sinks -> BOOLEAN] /\ box \in [Sinks -> BoxType(1..MaxData)]
      /\ delivered \in [Sources -> 0..MaxData]
      /\ "none" \notin Sources /\ "null" \notin Sources
      /\ None \notin Sinks /\ Sender \notin Sinks /\ "idle" \notin Sinks
  BY SinksAssumption DEF TypeOK, Sources
<1> USE DEF LifeInv, sourceVars, sinkVars
<1>1. ASSUME NEW s \in Sinks, NEW x \in Sources \cup {"null"}, Construct(s, x),
             reachable' = [reachable EXCEPT ![s] = reachable'[s]]
      PROVE LifeInv'
  BY <1>0, <1>1 DEF Construct
<1>2. ASSUME NEW s \in Sinks, NewSink(s) PROVE LifeInv'
  <2>1. PICK x \in IF s \in AudioSinks THEN {"local", "remote"} ELSE {"video"} :
          Construct(s, x) /\ reachable' = [reachable EXCEPT ![s] = TRUE]
    BY <1>2 DEF NewSink
  <2> QED BY <1>0, <1>1, <2>1 DEF Sources
<1>3. ASSUME NEW s \in Sinks, RefuseSink(s) PROVE LifeInv'
  BY <1>0, <1>1, <1>3 DEF RefuseSink
<1>4. ASSUME NEW s \in Sinks, Stop(s) PROVE LifeInv'
  <2>1. /\ box' = [box EXCEPT ![s] = Stopped(box[s])] /\ track[s] # "none"
        /\ UNCHANGED <<reachable, alive>>
    BY <1>4 DEF Stop
  <2>2. /\ track'[s] = "null"
        /\ \A t \in Sinks \ {s} : track'[t] = track[t] /\ stopped'[t] = stopped[t]
    <3>1. CASE track[s] \in Sources
      BY <1>0, <1>4, <3>1 DEF Stop, Detach
    <3>2. CASE track[s] \notin Sources
      BY <1>0, <1>4, <2>1, <3>2 DEF Stop, Detach
    <3> QED BY <3>1, <3>2
  <2>3. Ends(box'[s]) /\ \A t \in Sinks \ {s} : box'[t] = box[t]
    BY <1>0, <2>1, BoxSteps
  <2> QED BY <1>0, <2>1, <2>2, <2>3
<1>5. ASSUME NEW s \in Sinks, Forget(s) PROVE LifeInv'
  BY <1>0, <1>5 DEF Forget
<1>6. ASSUME NEW s \in Sinks, Collect(s) PROVE LifeInv'
  BY <1>0, <1>6 DEF Collect, Ends
<1>7. ASSUME NEW s \in Sinks, LoopTurn(s) \/ LoopHandled(s) PROVE LifeInv'
  <2>1. /\ box' = [box EXCEPT ![s] = box'[s]] /\ Turned(1..MaxData, box[s], box'[s])
        /\ UNCHANGED <<track, stopped, reachable, alive>>
    BY <1>7, Turns
  <2>2. \A t \in Sinks : /\ Ends(box'[t]) /\ box'[t].stopped = box[t].stopped
                         /\ box'[t].sent = box[t].sent
    BY <1>0, <2>1 DEF Turned
  <2> QED BY <2>1, <2>2
<1>8. CASE OnData
  BY <1>8 DEF OnData
<1>9. CASE PushData
  <2> DEFINE S == {s \in Sinks : s = pushing}
  <2>1. /\ box' = [s \in Sinks |-> IF s \in S THEN Put(box[s], delivered["local"]) ELSE box[s]]
        /\ UNCHANGED <<track, stopped, reachable, alive>>
    BY <1>9 DEF PushData
  <2>2. delivered["local"] \in 1..MaxData
    BY <1>0, <1>9, MaxDataAssumption DEF PushData, PushedInv, Sources
  <2>3. \A s \in S : track[s] = "local"
    BY DEF LinkInv
  <2>4. /\ \A s \in S : Ends(box'[s]) /\ box'[s].stopped = box[s].stopped
        /\ \A s \in Sinks \ S : box'[s] = box[s]
    BY <2>1, <2>2, Puts
  <2> QED BY <2>1, <2>3, <2>4
<1>10. ASSUME NEW x \in Listening, Deliver(x) PROVE LifeInv'
  <2>1. /\ delivered[x] + 1 \in 1..MaxData /\ UNCHANGED <<track, stopped, reachable, alive>>
        /\ box' = [s \in Sinks |-> IF s \in lists[x] THEN Put(box[s], delivered[x] + 1)
                                   ELSE box[s]]
    BY <1>0, <1>10, DeliveredStep DEF Deliver, Sources, Listening
  <2>2. lists[x] \in SUBSET Sinks /\ \A s \in lists[x] : track[s] # "none"
    BY DEF TypeOK, LinkInv, Listening
  <2>3. /\ \A s \in lists[x] : Ends(box'[s]) /\ box'[s].stopped = box[s].stopped
        /\ \A s \in Sinks \ lists[x] : box'[s] = box[s]
    BY <2>1, <2>2, Puts
  <2> QED BY <2>1, <2>2, <2>3
<1>11. CASE SenderAdded \/ SenderRemoved
  BY <1>11 DEF SenderAdded, SenderRemoved
<1>12. CASE UNCHANGED vars
  BY <1>12 DEF vars
<1> QED BY <1>2, <1>3, <1>4, <1>5, <1>6, <1>7, <1>8, <1>9, <1>10, <1>11, <1>12, Cases

After(f, d) == [i \in 1..(d - f) |-> f + i]

(* What one sink was sent, one delivery later.                             *)
LEMMA HearsOneMore ==
  ASSUME NEW f \in Nat, NEW d \in Nat, f <= d
  PROVE  Append(After(f, d), d + 1) = After(f, d + 1)
<1> DEFINE old == After(f, d)
           new == After(f, d + 1)
<1>1. d - f \in Nat /\ d + 1 - f = d - f + 1
  OBVIOUS
<1>2. old \in Seq(Nat) /\ Len(old) = d - f /\ new \in Seq(Nat) /\ Len(new) = d - f + 1
  BY <1>1 DEF After
<1>3. \A i \in 1 .. Len(new) : Append(old, d + 1)[i] = new[i]
  <2> TAKE i \in 1 .. Len(new)
  <2>1. CASE i \in 1 .. Len(old)
    BY <1>1, <1>2, <2>1 DEF After
  <2>2. CASE i = Len(old) + 1
    BY <1>1, <1>2, <2>2 DEF After
  <2> QED BY <1>1, <1>2, <2>1, <2>2
<1>4. Append(old, d + 1) \in Seq(Nat) /\ Len(Append(old, d + 1)) = Len(new)
  BY <1>1, <1>2
<1> HIDE DEF old, new
<1>5. Append(old, d + 1) = new
  BY <1>2, <1>3, <1>4
<1> QED BY <1>5 DEF old, new

(* No step takes anything from a sink that listens.                        *)
LEMMA HeardStep ==
  TypeOK /\ LinkInv /\ LifeInv /\ PushedInv /\ HeardInv /\ [Next]_vars => HeardInv'
<1> SUFFICES ASSUME TypeOK, LinkInv, LifeInv, PushedInv, HeardInv, [Next]_vars PROVE HeardInv'
  OBVIOUS
<1>0. /\ track \in [Sinks -> Sources \cup {"none", "null"}]
      /\ box \in [Sinks -> BoxType(1..MaxData)]
      /\ delivered \in [Sources -> 0..MaxData] /\ from \in [Sinks -> 0..MaxData]
      /\ Listening \subseteq Sources /\ "local" \in Sources \ Listening
      /\ "null" \notin Listening
  BY DEF TypeOK, Sources, Listening
<1> USE DEF HeardInv, sourceVars, sinkVars
<1>1. ASSUME NEW s \in Sinks, \A t \in Sinks \ {s} : track'[t] = track[t],
             track'[s] \in Listening =>
               /\ box'[s].sent = <<>>
               /\ from'[s] = delivered[track'[s]],
             \A t \in Sinks \ {s} : from'[t] = from[t],
             box' = box, delivered' = delivered
      PROVE HeardInv'
  <2> SUFFICES ASSUME NEW t \in Sinks, NEW x \in Listening, track'[t] = x
               PROVE  from'[t] <= delivered'[x] /\ Heard(t, x)'
    OBVIOUS
  <2>1. CASE t = s
    <3>1. from'[t] = delivered[x] /\ delivered[x] \in Nat
      BY <1>0, <1>1, <2>1, MaxDataAssumption
    <3>2. [i \in 1..(delivered[x] - from'[t]) |-> from'[t] + i] = <<>>
      BY <3>1
    <3> QED BY <1>1, <2>1, <3>1, <3>2 DEF Heard
  <2>2. CASE t # s
    BY <1>1, <2>2 DEF Heard
  <2> QED BY <2>1, <2>2
<1>2. ASSUME NEW s \in Sinks, NewSink(s) PROVE HeardInv'
  <2>1. PICK x \in IF s \in AudioSinks THEN {"local", "remote"} ELSE {"video"} :
          Construct(s, x) /\ from' = [from EXCEPT ![s] = delivered[x]]
    BY <1>2 DEF NewSink
  <2> QED BY <1>0, <1>1, <2>1 DEF Construct, LifeInv
<1>3. ASSUME NEW s \in Sinks, RefuseSink(s) PROVE HeardInv'
  BY <1>0, <1>1, <1>3 DEF RefuseSink, Construct
<1>4. ASSUME NEW s \in Sinks, Stop(s) PROVE HeardInv'
  <2>1. UNCHANGED <<from, delivered>> /\ \A t \in Sinks : box'[t].sent = box[t].sent
    <3>1. box' = [box EXCEPT ![s] = Stopped(box[s])] /\ Stopped(box[s]).sent = box[s].sent
      BY <1>0, <1>4, BoxSteps DEF Stop, LifeInv
    <3> QED BY <1>0, <1>4, <3>1 DEF Stop
  <2>2. \A t \in Sinks : track'[t] = track[t] \/ track'[t] = "null"
    BY <1>0, <1>4 DEF Stop, Detach
  <2> QED BY <1>0, <2>1, <2>2 DEF Heard
<1>5. ASSUME NEW s \in Sinks, Forget(s) \/ Collect(s) PROVE HeardInv'
  BY <1>5 DEF Forget, Collect, Heard
<1>6. ASSUME NEW s \in Sinks, LoopTurn(s) \/ LoopHandled(s) PROVE HeardInv'
  <2>1. \A t \in Sinks : box'[t].sent = box[t].sent
    BY <1>0, <1>6, Turns DEF Turned
  <2>2. UNCHANGED <<delivered, track, from>>
    BY <1>6, Turns
  <2> QED BY <2>1, <2>2 DEF Heard
<1>7. CASE OnData
  <2>1. \A x \in Listening : delivered'[x] = delivered[x]
    BY <1>0, <1>7, DeliveredStep DEF OnData
  <2> QED BY <1>7, <2>1 DEF OnData, Heard
<1>8. CASE PushData
  <2> DEFINE S == {s \in Sinks : s = pushing}
  <2>1. /\ box' = [s \in Sinks |-> IF s \in S THEN Put(box[s], delivered["local"]) ELSE box[s]]
        /\ UNCHANGED <<track, from, delivered>>
    BY <1>8 DEF PushData
  <2>2. delivered["local"] \in 1..MaxData
    BY <1>0, <1>8, MaxDataAssumption DEF PushData, PushedInv
  <2>3. \A s \in S : track[s] \notin Listening
    BY <1>0 DEF LinkInv
  <2>4. \A s \in Sinks \ S : box'[s] = box[s]
    BY <2>1, <2>2, Puts
  <2> QED BY <2>1, <2>3, <2>4 DEF Heard
<1>9. ASSUME NEW y \in Listening, Deliver(y) PROVE HeardInv'
  <2>1. /\ UNCHANGED <<track, from>>
        /\ delivered[y] + 1 \in 1..MaxData /\ delivered'[y] = delivered[y] + 1
        /\ \A x \in Listening \ {y} : delivered'[x] = delivered[x]
        /\ box' = [s \in Sinks |-> IF s \in lists[y] THEN Put(box[s], delivered[y] + 1)
                                   ELSE box[s]]
    BY <1>0, <1>9, DeliveredStep DEF Deliver
  <2>2. lists[y] \in SUBSET Sinks /\ \A s \in Sinks : s \in lists[y] <=> track[s] = y
    BY DEF TypeOK, LinkInv, Listening
  <2>3. /\ \A s \in lists[y] : box'[s].sent = Append(box[s].sent, delivered[y] + 1)
        /\ \A s \in Sinks \ lists[y] : box'[s] = box[s]
    BY <2>1, <2>2, Puts
  <2> SUFFICES ASSUME NEW s \in Sinks, NEW x \in Listening, track'[s] = x
               PROVE  from'[s] <= delivered'[x] /\ Heard(s, x)'
    OBVIOUS
  <2>4. from[s] \in Nat /\ delivered[x] \in Nat /\ from[s] <= delivered[x] /\ Heard(s, x)
    BY <1>0, <2>1, MaxDataAssumption
  <2>5. CASE x = y
    <3>1. box'[s].sent = Append(box[s].sent, delivered[x] + 1)
      BY <2>1, <2>2, <2>3, <2>5
    <3>2. box[s].sent = After(from[s], delivered[x])
      BY <2>4 DEF Heard, After
    <3>3. box'[s].sent = After(from[s], delivered[x] + 1)
      BY <2>4, <3>1, <3>2, HearsOneMore
    <3>4. from'[s] = from[s] /\ delivered'[x] = delivered[x] + 1
      BY <2>1, <2>5
    <3>5. box'[s].sent = After(from'[s], delivered'[x])
      BY <3>3, <3>4
    <3>6. Heard(s, x)'
      BY <3>5 DEF Heard, After
    <3> QED BY <2>4, <3>4, <3>6
  <2>6. CASE x # y
    BY <2>1, <2>2, <2>3, <2>4, <2>6 DEF Heard
  <2> QED BY <2>5, <2>6
<1>10. CASE SenderAdded \/ SenderRemoved
  BY <1>10 DEF SenderAdded, SenderRemoved, Heard
<1>11. CASE UNCHANGED vars
  BY <1>11 DEF vars, Heard
<1> QED BY <1>2, <1>3, <1>4, <1>5, <1>6, <1>7, <1>8, <1>9, <1>10, <1>11, Cases

(* PushData pushes what has been delivered.                                *)
LEMMA PushedStep == TypeOK /\ LifeInv /\ PushedInv /\ [Next]_vars => PushedInv'
<1> SUFFICES ASSUME TypeOK, LifeInv, PushedInv, [Next]_vars PROVE PushedInv'
  OBVIOUS
<1> USE DEF PushedInv, sourceVars, sinkVars, Free
<1>0. delivered \in [Sources -> 0..MaxData] /\ "local" \in Sources \ Listening
  BY DEF TypeOK, Sources, Listening
<1>1. ASSUME NEW s \in Sinks, NewSink(s) \/ RefuseSink(s) PROVE PushedInv'
  BY <1>1 DEF NewSink, RefuseSink, Construct
<1>2. ASSUME NEW s \in Sinks, Stop(s) \/ Forget(s) \/ Collect(s) PROVE PushedInv'
  BY <1>2 DEF Stop, Forget, Collect
<1>3. ASSUME NEW s \in Sinks, LoopTurn(s) \/ LoopHandled(s) PROVE PushedInv'
  BY <1>3, Turns
<1>4. CASE OnData
  BY <1>0, <1>4, DeliveredStep DEF OnData
<1>5. CASE PushData
  BY <1>5 DEF PushData
<1>6. ASSUME NEW x \in Listening, Deliver(x) PROVE PushedInv'
  <2>1. x \in Sources /\ x # "local" /\ UNCHANGED pushing /\ More(x)
    BY <1>0, <1>6 DEF Deliver, Sources, Listening
  <2> QED BY <1>0, <2>1, DeliveredStep
<1>7. CASE SenderAdded \/ SenderRemoved
  BY <1>7 DEF SenderAdded, SenderRemoved
<1>8. CASE UNCHANGED vars
  BY <1>8 DEF vars
<1> QED BY <1>1, <1>2, <1>3, <1>4, <1>5, <1>6, <1>7, <1>8, Cases
----------------------------------------------------------------------------
IInv == TypeOK /\ LinkInv /\ LifeInv /\ PushedInv /\ HeardInv

(* Of the first state.                                                     *)
LEMMA Start == Init => IInv
<1> SUFFICES ASSUME Init PROVE IInv
  OBVIOUS
<1>1. NewBox \in BoxType(1..MaxData) /\ Ends(NewBox) /\ ~NewBox.stopped /\ NewBox.sent = <<>>
  BY DEF NewBox, BoxType, Ends
<1>2. TypeOK
  <2>1. box \in [Sinks -> BoxType(1..MaxData)]
    BY <1>1 DEF Init
  <2>2. stopped \in [Sinks -> BOOLEAN] /\ reachable \in [Sinks -> BOOLEAN]
        /\ alive \in [Sinks -> BOOLEAN] /\ crashed \in BOOLEAN
    BY Zenon DEF Init
  <2>3. /\ delivered \in [Sources -> 0..MaxData] /\ from \in [Sinks -> 0..MaxData]
        /\ single \in AudioSinks \cup {Sender, None}
        /\ lists \in [{"remote", "video"} -> SUBSET Sinks]
        /\ pushing \in AudioSinks \cup {Sender, None, "idle"} /\ sender \in {"new", "added", "gone"}
        /\ js \in Sinks \cup {None} /\ track \in [Sinks -> Sources \cup {"none", "null"}]
    BY MaxDataAssumption DEF Init
  <2> QED BY <2>1, <2>2, <2>3 DEF TypeOK
<1>3. LinkInv
  BY SinksAssumption DEF Init, LinkInv, Listening
<1>4. LifeInv
  BY <1>1 DEF Init, LifeInv, Sources
<1>5. HeardInv /\ PushedInv
  BY DEF Init, HeardInv, PushedInv, Listening
<1> QED BY <1>2, <1>3, <1>4, <1>5 DEF IInv

(* The invariant is inductive.                                             *)
LEMMA Inductive == IInv /\ [Next]_vars => IInv'
  BY TypeStep, LinkStep, LifeStep, PushedStep, HeardStep DEF IInv

(* So it holds in every state.                                             *)
LEMMA Invariant == SafeSpec => []IInv
<1>1. Init => IInv
  BY Start
<1>2. IInv /\ [Next]_vars => IInv'
  BY Inductive
<1> QED BY <1>1, <1>2, PTL DEF SafeSpec

(* Types; the sources keep the addresses of sinks that exist, whose loops  *)
(* have not closed; and a sink of a video track or of a received audio     *)
(* track is sent all that its source delivers, once, in order.             *)
THEOREM SinksCorrect == SafeSpec => []SinksInv
<1>1. IInv => SinksInv
  <2> SUFFICES ASSUME IInv PROVE SinksInv
    OBVIOUS
  <2>1. SinksExist
    <3> SUFFICES ASSUME NEW s \in Listed PROVE alive[s] /\ ~box[s].closed
      BY DEF SinksExist
    <3>1. s \in Sinks /\ track[s] \in Sources
      BY DEF Listed, IInv, TypeOK, LinkInv, Listening, Sources
    <3> QED BY <3>1 DEF IInv, LifeInv, Ends
  <2>2. HearsEverything
    BY DEF HearsEverything, IInv, HeardInv, Listening
  <2> QED BY <2>1, <2>2 DEF SinksInv, IInv
<1> QED BY <1>1, Invariant, PTL

(* Once stop has returned, nothing more is queued for the sink.            *)
THEOREM StoppedIsQuiet == SafeSpec => QuietOnceStopped
<1> DEFINE Quiet == \A s \in Sinks : stopped[s] => box'[s].sent = box[s].sent
<1>1. IInv /\ [Next]_vars => [Quiet]_vars
  <2> SUFFICES ASSUME IInv, [Next]_vars, NEW s \in Sinks, stopped[s]
               PROVE  box'[s].sent = box[s].sent
    OBVIOUS
  <2>0. /\ TypeOK /\ LinkInv /\ LifeInv /\ PushedInv
        /\ box \in [Sinks -> BoxType(1..MaxData)] /\ box[s] \in BoxType(1..MaxData)
        /\ delivered \in [Sources -> 0..MaxData]
        /\ track[s] = "null" /\ s # pushing /\ \A x \in Listening : s \notin lists[x]
    BY DEF IInv, TypeOK, LifeInv, LinkInv, Listening
  <2> USE DEF sourceVars, sinkVars
  <2>1. ASSUME NEW t \in Sinks, NewSink(t) \/ RefuseSink(t) \/ Forget(t) \/ Collect(t)
        PROVE  box'[s].sent = box[s].sent
    BY <2>1 DEF NewSink, RefuseSink, Construct, Forget, Collect
  <2>2. ASSUME NEW t \in Sinks, Stop(t) PROVE box'[s].sent = box[s].sent
    <3>1. box' = [box EXCEPT ![t] = Stopped(box[t])] /\ Stopped(box[t]).sent = box[t].sent
      BY <2>0, <2>2, BoxSteps DEF Stop, LifeInv
    <3> QED BY <2>0, <3>1
  <2>3. ASSUME NEW t \in Sinks, LoopTurn(t) \/ LoopHandled(t) PROVE box'[s].sent = box[s].sent
    BY <2>0, <2>3, Turns DEF Turned
  <2>4. CASE OnData \/ SenderAdded \/ SenderRemoved \/ UNCHANGED vars
    BY <2>4 DEF OnData, SenderAdded, SenderRemoved, vars
  <2>5. CASE PushData
    BY <2>0, <2>5 DEF PushData
  <2>6. ASSUME NEW x \in Listening, Deliver(x) PROVE box'[s].sent = box[s].sent
    BY <2>0, <2>6 DEF Deliver
  <2> QED BY <2>1, <2>2, <2>3, <2>4, <2>5, <2>6, Cases
<1> QED BY <1>1, Invariant, PTL DEF SafeSpec, QuietOnceStopped

(* Whatever a step does to a loop is a step of a Mailbox.                  *)
THEOREM SinksAreMailboxes == SafeSpec => AreMailboxes
<1> DEFINE Mail == \A s \in Sinks : Box(s)!Next \/ UNCHANGED box[s]
<1>1. IInv /\ [Next]_vars => [Mail]_vars
  <2> SUFFICES ASSUME IInv, [Next]_vars, NEW s \in Sinks
               PROVE  Box(s)!Next \/ UNCHANGED box[s]
    OBVIOUS
  <2>0. /\ TypeOK /\ LifeInv /\ PushedInv
        /\ box \in [Sinks -> BoxType(1..MaxData)] /\ box[s] \in BoxType(1..MaxData)
        /\ Ends(box[s])
    BY DEF IInv, TypeOK, LifeInv
  <2> USE DEF BoxType, Ends, sourceVars, sinkVars, Box!Next, Box!Send, Box!Receive, Box!Done,
              Box!Stop, Box!Notice, Box!Close, Box!Waiting, Box!NextItem
  <2>1. ASSUME NEW v \in 1..MaxData, box'[s] = Put(box[s], v) PROVE Box(s)!Next
    BY <2>0, <2>1 DEF Put
  <2>2. ASSUME NEW t \in Sinks, Stop(t) PROVE Box(s)!Next \/ UNCHANGED box[s]
    BY <2>0, <2>2 DEF Stop, Stopped
  <2>3. ASSUME NEW t \in Sinks, NewSink(t) \/ RefuseSink(t) \/ Forget(t) \/ Collect(t)
        PROVE  Box(s)!Next \/ UNCHANGED box[s]
    BY <2>3 DEF NewSink, RefuseSink, Construct, Forget, Collect
  <2>4. ASSUME NEW t \in Sinks, LoopTurn(t) \/ LoopHandled(t)
        PROVE  Box(s)!Next \/ UNCHANGED box[s]
    <3>1. ASSUME LoopTake(s), MayTake(box[s]) PROVE Box(s)!Next
      BY <2>0, <3>1 DEF LoopTake, Turn, MayTake, Take, Waiting
    <3>2. ASSUME LoopNotice(s) PROVE Box(s)!Next
      BY <2>0, <3>2 DEF LoopNotice, Turn, MayNotice, Noticed
    <3>3. ASSUME LoopClose(s) PROVE Box(s)!Next
      BY <2>0, <3>3 DEF LoopClose, Turn, MayClose, Closed
    <3>4. ASSUME LoopHandled(s) PROVE Box(s)!Next \/ UNCHANGED box[s]
      BY <2>0, <3>4 DEF LoopHandled, Turn, Handled
    <3>5. CASE t # s
      BY <2>0, <2>4, <3>5 DEF LoopTurn, LoopTake, LoopNotice, LoopClose, LoopHandled, Turn
    <3> QED BY <2>4, <3>1, <3>2, <3>3, <3>4, <3>5 DEF LoopTurn, LoopTake
  <2>5. CASE OnData \/ SenderAdded \/ SenderRemoved \/ UNCHANGED vars
    BY <2>5 DEF OnData, SenderAdded, SenderRemoved, vars
  <2>6. CASE PushData
    <3>1. delivered["local"] \in 1..MaxData
      BY <2>0, <2>6, MaxDataAssumption DEF PushData, PushedInv, TypeOK, Sources
    <3>2. box'[s] = Put(box[s], delivered["local"]) \/ box'[s] = box[s]
      BY <2>6 DEF PushData
    <3> QED BY <2>1, <3>1, <3>2
  <2>7. ASSUME NEW x \in Listening, Deliver(x) PROVE Box(s)!Next \/ UNCHANGED box[s]
    <3>1. delivered[x] + 1 \in 1..MaxData
      BY <2>0, <2>7, DeliveredStep DEF Deliver, TypeOK, Sources, Listening
    <3>2. box'[s] = Put(box[s], delivered[x] + 1) \/ box'[s] = box[s]
      BY <2>7 DEF Deliver
    <3> QED BY <2>1, <3>1, <3>2
  <2> QED BY <2>2, <2>3, <2>4, <2>5, <2>6, <2>7, Cases
<1> QED BY <1>1, Invariant, PTL DEF SafeSpec, AreMailboxes
=============================================================================
