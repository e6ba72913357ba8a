---------------------------- MODULE Tracks_proofs ----------------------------
(***************************************************************************)
(* For any tracks, wrappers and streams: libwebrtc observes through live   *)
(* wrappers only, a track never has two wrappers, and a source holds the   *)
(* tracks that it has made.                                                *)
(*                                                                         *)
(* The first part is about the operations of BidiMap alone, for any keys   *)
(* and any values; Tracks and Wrappers stand for them.                     *)
(***************************************************************************)
EXTENDS Tracks, TLAPS

(***************************************************************************)
(* The inductive invariant.  An address is a wrapper's as long as it has a *)
(* track; V8 collects only a wrapper whose loop has closed, which is one   *)
(* that has ended and so does not observe any more.                        *)
(***************************************************************************)
LifeInv ==
  \A w \in Wrappers :
    /\ object[w] = "free" <=> track[w] = None
    /\ w \in reachable => object[w] = "live"
    /\ object[w] = "free" => box[w] = NewBox
    /\ object[w] = "dead" => box[w].closed

(* A loop without a turn under way closes after the stop it has noticed,   *)
(* and stop was called if the wrapper has ended.                           *)
Rests(b, e) ==
  /\ ~b.busy
  /\ b.closed => b.noticed
  /\ b.noticed => b.stopped
  /\ b.stopped <=> e

LoopInv == \A w \in Wrappers : Rests(box[w], ended[w])

(* A track that has a wrapper, or is in a stream, has been made.  So a new *)
(* track has no wrapper, and Wrap makes room for none.                     *)
BornInv ==
  /\ \A w \in Wrappers : track[w] # None => state[track[w]] # "none"
  /\ \A s \in Streams : \A t \in content[s] : state[t] # "none"

Inv == TracksInv /\ OneWrapper /\ LifeInv /\ LoopInv /\ BornInv

----------------------------------------------------------------------------
(* BidiMap and Wrap                                                        *)

(* The empty maps mirror each other (BidiMap::BidiMap, clear).             *)
THEOREM EmptyMirrored ==
  Wrap!Empty \in Wrap!BidiMaps /\ Wrap!Mirrored(Wrap!Empty)
  BY NoneAssumption DEF NoneAssumption, Wrap!Empty, Wrap!BidiMaps, Wrap!Mirrored

(* erase of a key and of its value (BidiMap::remove, reverseRemove).       *)
LEMMA EraseMirrored ==
  ASSUME NEW m \in Wrap!BidiMaps, Wrap!Mirrored(m),
         NEW k \in Tracks, NEW v \in Wrappers, m.value[k] = v
  PROVE  /\ Wrap!Erase(m, k, v) \in Wrap!BidiMaps /\ Wrap!Mirrored(Wrap!Erase(m, k, v))
         /\ ~Wrap!Has(Wrap!Erase(m, k, v), k) /\ ~Wrap!ReverseHas(Wrap!Erase(m, k, v), v)
<1> DEFINE e == Wrap!Erase(m, k, v)
<1>1. /\ e.value = [m.value EXCEPT ![k] = None]
      /\ e.key = [m.key EXCEPT ![v] = None]
      /\ e \in Wrap!BidiMaps
  BY DEF Wrap!Erase, Wrap!BidiMaps
<1>2. Wrap!Mirrored(e)
  BY <1>1, NoneAssumption DEF NoneAssumption, Wrap!Mirrored, Wrap!BidiMaps
<1>3. ~Wrap!Has(e, k) /\ ~Wrap!ReverseHas(e, v)
  BY <1>1 DEF Wrap!Has, Wrap!ReverseHas, Wrap!BidiMaps
<1> QED BY <1>1, <1>2, <1>3

(* remove takes out a key and the value it had, and nothing else           *)
(* (BidiMap::remove).                                                      *)
THEOREM RemoveMirrored ==
  ASSUME NEW m \in Wrap!BidiMaps, Wrap!Mirrored(m), NEW k \in Tracks
  PROVE  Wrap!Remove(m, k) \in Wrap!BidiMaps /\ Wrap!Mirrored(Wrap!Remove(m, k)) /\ ~Wrap!Has(Wrap!Remove(m, k), k)
<1>1. CASE Wrap!Has(m, k)
  <2>1. m.value[k] \in Wrappers
    BY <1>1 DEF Wrap!Has, Wrap!BidiMaps
  <2> QED BY <1>1, <2>1, EraseMirrored DEF Wrap!Remove
<1>2. CASE ~Wrap!Has(m, k)
  BY <1>2 DEF Wrap!Remove
<1> QED BY <1>1, <1>2

(* So does reverseRemove, by which a wrapper that is released leaves the   *)
(* map (BidiMap::reverseRemove, Wrap::Release).                            *)
THEOREM ReverseRemoveMirrored ==
  ASSUME NEW m \in Wrap!BidiMaps, Wrap!Mirrored(m), NEW v \in Wrappers
  PROVE  /\ Wrap!ReverseRemove(m, v) \in Wrap!BidiMaps /\ Wrap!Mirrored(Wrap!ReverseRemove(m, v))
         /\ ~Wrap!ReverseHas(Wrap!ReverseRemove(m, v), v)
<1>1. CASE Wrap!ReverseHas(m, v)
  <2>1. m.key[v] \in Tracks
    BY <1>1 DEF Wrap!ReverseHas, Wrap!BidiMaps
  <2>2. m.value[m.key[v]] = v
    BY <2>1 DEF Wrap!Mirrored
  <2> QED BY <1>1, <2>1, <2>2, EraseMirrored DEF Wrap!ReverseRemove
<1>2. CASE ~Wrap!ReverseHas(m, v)
  BY <1>2 DEF Wrap!ReverseRemove
<1> QED BY <1>1, <1>2

(* To write a pair keeps the maps mirrored if the key has no other value   *)
(* and the value no other key (BidiMap::set, reverseSet).                  *)
LEMMA WriteMirrored ==
  ASSUME NEW m \in Wrap!BidiMaps, Wrap!Mirrored(m), NEW k \in Tracks, NEW v \in Wrappers,
         m.value[k] \in {v, None}, m.key[v] \in {k, None}
  PROVE  /\ Wrap!Write(m, k, v) \in Wrap!BidiMaps /\ Wrap!Mirrored(Wrap!Write(m, k, v))
         /\ Wrap!Write(m, k, v).value[k] = v
<1> DEFINE w == Wrap!Write(m, k, v)
<1>1. /\ w.value = [m.value EXCEPT ![k] = v]
      /\ w.key = [m.key EXCEPT ![v] = k]
      /\ w \in Wrap!BidiMaps
  BY DEF Wrap!Write, Wrap!BidiMaps
<1>2. ASSUME NEW i \in Tracks, NEW j \in Wrappers
      PROVE  w.value[i] = j <=> w.key[j] = i
  <2>1. (m.value[i] = j <=> m.key[j] = i) /\ (m.value[k] = j <=> m.key[j] = k)
        /\ (m.value[i] = v <=> m.key[v] = i)
    BY DEF Wrap!Mirrored
  <2>2. w.value[i] = (IF i = k THEN v ELSE m.value[i])
    BY <1>1 DEF Wrap!BidiMaps
  <2>3. w.key[j] = (IF j = v THEN k ELSE m.key[j])
    BY <1>1 DEF Wrap!BidiMaps
  <2> QED BY <2>1, <2>2, <2>3, NoneAssumption DEF NoneAssumption
<1>3. w.value[k] = v
  BY <1>1 DEF Wrap!BidiMaps
<1> QED BY <1>1, <1>2, <1>3 DEF Wrap!Mirrored

(* set makes room for the value only: the maps still mirror each other     *)
(* exactly if the key had no value, or this one (BidiMap::set).            *)
THEOREM SetMirrored ==
  ASSUME NEW m \in Wrap!BidiMaps, Wrap!Mirrored(m), NEW k \in Tracks, NEW v \in Wrappers
  PROVE  Wrap!Mirrored(Wrap!Set(m, k, v)) <=> m.value[k] \in {v, None}
<1> DEFINE r == Wrap!ReverseRemove(m, v)
           w == Wrap!Set(m, k, v)
<1>1. r \in Wrap!BidiMaps /\ Wrap!Mirrored(r) /\ r.key[v] = None
  BY ReverseRemoveMirrored DEF Wrap!ReverseHas
<1>2. r.value[k] = (IF m.value[k] = v THEN None ELSE m.value[k])
  <2>1. CASE Wrap!ReverseHas(m, v)
    <3>1. m.key[v] \in Tracks /\ m.value[m.key[v]] = v
      BY <2>1 DEF Wrap!ReverseHas, Wrap!BidiMaps, Wrap!Mirrored
    <3>2. r.value = [m.value EXCEPT ![m.key[v]] = None]
      BY <2>1 DEF Wrap!ReverseRemove, Wrap!Erase
    <3>3. m.value[k] = v <=> m.key[v] = k
      BY DEF Wrap!Mirrored
    <3> QED BY <3>1, <3>2, <3>3 DEF Wrap!BidiMaps
  <2>2. CASE ~Wrap!ReverseHas(m, v)
    <3>1. m.value[k] # v
      BY <2>2, NoneAssumption DEF NoneAssumption, Wrap!Mirrored, Wrap!ReverseHas
    <3> QED BY <2>2, <3>1 DEF Wrap!ReverseRemove
  <2> QED BY <2>1, <2>2
<1>3. ASSUME m.value[k] \in {v, None}
      PROVE  Wrap!Mirrored(w)
  BY <1>1, <1>2, <1>3, WriteMirrored DEF Wrap!Set
<1>4. ASSUME m.value[k] \notin {v, None}, Wrap!Mirrored(w)
      PROVE  FALSE
  <2> DEFINE old == m.value[k]
  <2>1. old \in Wrappers /\ old # v /\ r.value[k] = old
    BY <1>2, <1>4 DEF Wrap!BidiMaps
  <2>2. r.key[old] = k
    BY <1>1, <2>1 DEF Wrap!Mirrored
  <2>3. w.value[k] = v /\ w.key[old] = k
    BY <1>1, <2>1, <2>2 DEF Wrap!Set, Wrap!Write, Wrap!BidiMaps
  <2> QED BY <1>4, <2>1, <2>3 DEF Wrap!Mirrored
<1> QED BY <1>3, <1>4

(* computeIfAbsent, by which Wrap::GetOrCreate registers a wrapper, keeps  *)
(* the maps mirrored and the key is found afterwards, whatever was there   *)
(* (BidiMap::computeIfAbsent).                                             *)
THEOREM ComputeIfAbsentMirrored ==
  ASSUME NEW m \in Wrap!BidiMaps, Wrap!Mirrored(m), NEW k \in Tracks, NEW v \in Wrappers
  PROVE  /\ Wrap!ComputeIfAbsent(m, k, v) \in Wrap!BidiMaps
         /\ Wrap!Mirrored(Wrap!ComputeIfAbsent(m, k, v))
         /\ Wrap!Has(Wrap!ComputeIfAbsent(m, k, v), k)
<1>1. CASE Wrap!Has(m, k)
  BY <1>1 DEF Wrap!ComputeIfAbsent
<1>2. CASE ~Wrap!Has(m, k)
  <2> DEFINE r == Wrap!ReverseRemove(m, v)
             w == Wrap!Write(r, k, v)
  <2>1. r \in Wrap!BidiMaps /\ Wrap!Mirrored(r) /\ r.key[v] = None
    BY ReverseRemoveMirrored DEF Wrap!ReverseHas
  <2>2. r.value[k] = None
    <3>1. m.value[k] = None
      BY <1>2 DEF Wrap!Has
    <3>2. r.value[k] \in {m.value[k], None}
      BY DEF Wrap!ReverseRemove, Wrap!Erase, Wrap!BidiMaps
    <3> QED BY <3>1, <3>2
  <2>3. w \in Wrap!BidiMaps /\ Wrap!Mirrored(w) /\ w.value[k] = v
    BY <2>1, <2>2, WriteMirrored
  <2>4. Wrap!ComputeIfAbsent(m, k, v) = w
    BY <1>2 DEF Wrap!ComputeIfAbsent, Wrap!Set
  <2> QED BY <2>3, <2>4, NoneAssumption DEF NoneAssumption, Wrap!Has
<1> QED BY <1>1, <1>2

(* reverseComputeIfAbsent is the same the other way round                  *)
(* (BidiMap::reverseComputeIfAbsent).                                      *)
THEOREM ReverseComputeIfAbsentMirrored ==
  ASSUME NEW m \in Wrap!BidiMaps, Wrap!Mirrored(m), NEW k \in Tracks, NEW v \in Wrappers
  PROVE  /\ Wrap!ReverseComputeIfAbsent(m, v, k) \in Wrap!BidiMaps
         /\ Wrap!Mirrored(Wrap!ReverseComputeIfAbsent(m, v, k))
         /\ Wrap!ReverseHas(Wrap!ReverseComputeIfAbsent(m, v, k), v)
<1>1. CASE Wrap!ReverseHas(m, v)
  BY <1>1 DEF Wrap!ReverseComputeIfAbsent
<1>2. CASE ~Wrap!ReverseHas(m, v)
  <2> DEFINE r == Wrap!Remove(m, k)
             w == Wrap!Write(r, k, v)
  <2>1. r \in Wrap!BidiMaps /\ Wrap!Mirrored(r) /\ r.value[k] = None
    BY RemoveMirrored DEF Wrap!Has
  <2>2. r.key[v] = None
    <3>1. m.key[v] = None
      BY <1>2 DEF Wrap!ReverseHas
    <3>2. r.key[v] \in {m.key[v], None}
      BY DEF Wrap!Remove, Wrap!Erase, Wrap!BidiMaps
    <3> QED BY <3>1, <3>2
  <2>3. w \in Wrap!BidiMaps /\ Wrap!Mirrored(w) /\ w.value[k] = v
    BY <2>1, <2>2, WriteMirrored
  <2>4. w.key[v] = k
    BY <2>3 DEF Wrap!Mirrored
  <2>5. Wrap!ReverseComputeIfAbsent(m, v, k) = w
    BY <1>2 DEF Wrap!ReverseComputeIfAbsent, Wrap!ReverseSet
  <2> QED BY <2>3, <2>4, <2>5, NoneAssumption DEF NoneAssumption, Wrap!ReverseHas
<1> QED BY <1>1, <1>2

(* reverse gives two maps that mirror each other again (BidiMap::reverse). *)
THEOREM ReverseMirrored ==
  ASSUME NEW m \in Wrap!BidiMaps, Wrap!Mirrored(m)
  PROVE  \A k \in Tracks, v \in Wrappers :
           Wrap!Reverse(m).value[v] = k <=> Wrap!Reverse(m).key[k] = v
  BY DEF Wrap!Reverse, Wrap!Mirrored

----------------------------------------------------------------------------
(* What the steps of a wrapper's loop do to it.                            *)
Boxes == BoxType({"changed"})

(* A new loop, and one that is stopped at once.                            *)
LEMMA NewBoxes ==
  /\ NewBox \in Boxes /\ Rests(NewBox, FALSE)
  /\ Stopped(NewBox) \in Boxes /\ Rests(Stopped(NewBox), TRUE)
<1> USE DEF Boxes, BoxType, Rests
<1>1. NewBox \in Boxes /\ Rests(NewBox, FALSE)
  BY DEF NewBox
<1>2. Stopped(NewBox) \in Boxes /\ Rests(Stopped(NewBox), TRUE)
  <2>1. NewBox.busy = FALSE /\ NewBox.noticed = FALSE /\ NewBox.closed = FALSE
    BY DEF NewBox
  <2>2. Stopped(NewBox) = [NewBox EXCEPT !.stopped = TRUE, !.noticed = FALSE]
    BY <2>1 DEF Stopped
  <2> QED BY <1>1, <2>1, <2>2
<1> QED BY <1>1, <1>2

(* The steps of a loop that may be taken at any time.                      *)
LEMMA BoxSteps ==
  ASSUME NEW b \in Boxes, NEW e \in BOOLEAN, Rests(b, e)
  PROVE  /\ Put(b, "changed") \in Boxes /\ Rests(Put(b, "changed"), e)
         /\ Put(b, "changed").closed = b.closed
         /\ Stopped(b) \in Boxes /\ Rests(Stopped(b), TRUE)
         /\ Stopped(b).closed = b.closed
<1> USE DEF Boxes, BoxType, Rests
<1>1. /\ Put(b, "changed") \in Boxes /\ Rests(Put(b, "changed"), e)
      /\ Put(b, "changed").closed = b.closed
  <2>1. Append(b.sent, "changed") \in Seq({"changed"})
    OBVIOUS
  <2> QED BY <2>1 DEF Put
<1>2. /\ Stopped(b) \in Boxes /\ Rests(Stopped(b), TRUE)
      /\ Stopped(b).closed = b.closed
  <2>1. (b.noticed \/ b.busy) \in BOOLEAN
    OBVIOUS
  <2> QED BY <2>1 DEF Stopped
<1> QED BY <1>1, <1>2

(* Its turns.  A loop that has closed takes none, nor does a new one.      *)
LEMMA BoxTurns ==
  ASSUME NEW b \in Boxes, NEW e \in BOOLEAN, Rests(b, e)
  PROVE  /\ MayTake(b) => /\ Handled(Take(b)) \in Boxes /\ Rests(Handled(Take(b)), e)
                          /\ Handled(Stopped(Take(b))) \in Boxes
                          /\ Rests(Handled(Stopped(Take(b))), TRUE)
         /\ MayNotice(b) => Noticed(b) \in Boxes /\ Rests(Noticed(b), e)
         /\ MayClose(b) => Closed(b) \in Boxes /\ Rests(Closed(b), e)
         /\ MayTake(b) \/ MayNotice(b) \/ MayClose(b) => ~b.closed /\ b # NewBox
<1> USE DEF Boxes, BoxType, Rests
<1>1. ASSUME MayTake(b)
      PROVE  /\ Handled(Take(b)) \in Boxes /\ Rests(Handled(Take(b)), e)
             /\ Handled(Stopped(Take(b))) \in Boxes
             /\ Rests(Handled(Stopped(Take(b))), TRUE)
  <2> DEFINE taken == Append(b.received, b.sent[Len(b.received) + 1])
  <2>1. Len(b.received) + 1 \in 1 .. Len(b.sent)
    BY <1>1 DEF MayTake, Waiting
  <2>2. taken \in Seq({"changed"})
    BY <2>1
  <2>3. Take(b) = [b EXCEPT !.received = taken, !.busy = TRUE, !.noticed = b.stopped]
    BY DEF Take
  <2> HIDE DEF taken
  <2>4. /\ Take(b) \in Boxes /\ Take(b).busy = TRUE /\ Take(b).closed = b.closed
        /\ Take(b).noticed = b.stopped /\ Take(b).stopped = b.stopped
    BY <2>2, <2>3
  <2>5. b.closed = FALSE
    BY <1>1 DEF MayTake
  <2>6. Handled(Take(b)) \in Boxes /\ Rests(Handled(Take(b)), e)
    BY <2>4, <2>5 DEF Handled
  <2>7. (Take(b).noticed \/ Take(b).busy) = TRUE
    BY <2>4
  <2>8. Stopped(Take(b)) = [Take(b) EXCEPT !.stopped = TRUE, !.noticed = TRUE]
    BY <2>7 DEF Stopped
  <2>9. Handled(Stopped(Take(b))) \in Boxes /\ Rests(Handled(Stopped(Take(b))), TRUE)
    BY <2>4, <2>5, <2>8 DEF Handled
  <2> QED BY <2>6, <2>9
<1>2. ASSUME MayNotice(b) PROVE Noticed(b) \in Boxes /\ Rests(Noticed(b), e)
  BY <1>2 DEF MayNotice, Noticed
<1>3. ASSUME MayClose(b) PROVE Closed(b) \in Boxes /\ Rests(Closed(b), e)
  BY <1>3 DEF MayClose, Closed
<1>4. ASSUME MayTake(b) \/ MayNotice(b) \/ MayClose(b) PROVE ~b.closed /\ b # NewBox
  <2>1. NewBox.sent = <<>> /\ NewBox.received = <<>> /\ ~NewBox.stopped /\ ~NewBox.noticed
    BY DEF NewBox
  <2> QED BY <1>4, <2>1 DEF MayTake, Waiting, MayNotice, MayClose
<1> QED BY <1>1, <1>2, <1>3, <1>4

----------------------------------------------------------------------------
(* What the invariant says of one wrapper and its track.                   *)
LEMMA OfWrapper ==
  ASSUME Inv, NEW w \in Wrappers
  PROVE  /\ box[w] \in Boxes /\ ended[w] \in BOOLEAN /\ Rests(box[w], ended[w])
         /\ object[w] # "free" => track[w] \in Tracks /\ state[track[w]] # "none"
         /\ object[w] = "free" => map.key[w] = None
<1> USE DEF Inv, TracksInv, TypeOK
<1>1. box[w] \in Boxes /\ ended[w] \in BOOLEAN /\ Rests(box[w], ended[w])
  BY DEF Boxes, LoopInv
<1>2. ASSUME object[w] # "free" PROVE track[w] \in Tracks /\ state[track[w]] # "none"
  BY <1>2 DEF LifeInv, BornInv
<1>3. ASSUME object[w] = "free" PROVE map.key[w] = None
  BY <1>3 DEF LifeInv, OneWrapper
<1> QED BY <1>1, <1>2, <1>3

(* Who observes a track.                                                   *)
Observes(w, t) == object[w] = "live" /\ track[w] = t /\ ~ended[w]

(* The same of ObserversExist, wrapper by wrapper.                         *)
LEMMA ObserversAre ==
  ASSUME observers \in [Tracks -> SUBSET Wrappers]
  PROVE  ObserversExist <=> \A t \in Tracks, w \in Wrappers :
                              w \in observers[t] <=> Observes(w, t)
<1>1. ASSUME NEW t \in Tracks
      PROVE  observers[t] = {w \in Wrappers : Observes(w, t)}
               <=> \A w \in Wrappers : w \in observers[t] <=> Observes(w, t)
  <2>1. observers[t] \subseteq Wrappers
    OBVIOUS
  <2> QED BY <2>1
<1> QED BY <1>1 DEF ObserversExist, Observes

----------------------------------------------------------------------------
(* The steps of libwebrtc and of the streams                               *)

States == {"none", "live", "ended"}

(* What a step may do to the tracks and the streams.                       *)
TracksGrow ==
  /\ state' \in [Tracks -> States] /\ remote' \subseteq Tracks
  /\ content' \in [Streams -> SUBSET Tracks] /\ changes' \in 0..MaxChanges
  /\ \A t \in Tracks : state[t] # "none" => state'[t] # "none"
  /\ \A s \in Streams : \A t \in content'[s] : state'[t] # "none"

(* A step of the tracks and streams alone.                                 *)
LEMMA ContentStep ==
  ASSUME Inv, TracksGrow, UNCHANGED <<observers, wrapperVars, sourceVars, late>>
  PROVE  Inv'
<1> USE DEF Inv, TracksInv, wrapperVars, sourceVars
<1>1. TypeOK'
  BY DEF TypeOK, TracksGrow, States
<1>2. ObserversExist' /\ SourceTracksHeld' /\ OneWrapper'
  BY DEF ObserversExist, SourceTracksHeld, OneWrapper
<1>3. LifeInv' /\ LoopInv'
  BY DEF LifeInv, LoopInv
<1>4. BornInv'
  BY DEF BornInv, TracksGrow, TypeOK
<1> QED BY <1>1, <1>2, <1>3, <1>4

(* A bounded change.                                                       *)
LEMMA ChangeBounded ==
  ASSUME changes \in 0..MaxChanges, Change
  PROVE  changes' \in 0..MaxChanges
  BY MaxChangesAssumption DEF MaxChangesAssumption, Change

(* A received track is new, and put into one stream.                       *)
LEMMA ReceiveTrackStep ==
  ASSUME Inv, NEW t \in Tracks, ReceiveTrack(t)
  PROVE  Inv'
<1> USE DEF Inv, TracksInv, TypeOK, ReceiveTrack
<1>1. PICK s \in Streams : content' = [content EXCEPT ![s] = @ \cup {t}]
  OBVIOUS
<1>2. state' = [state EXCEPT ![t] = "live"]
  OBVIOUS
<1>3. TracksGrow
  BY <1>1, <1>2 DEF TracksGrow, States, BornInv
<1> QED BY <1>3, ContentStep

(* Only a track that the program has is added, and that has been made.     *)
LEMMA AddRemoveStep ==
  ASSUME Inv, NEW s \in Streams, NEW w \in Wrappers, AddTrack(s, w) \/ RemoveTrack(s, w)
  PROVE  Inv'
<1> USE DEF Inv, TracksInv, TypeOK, AddTrack, RemoveTrack
<1>1. track[w] \in Tracks /\ state[track[w]] # "none"
  BY OfWrapper DEF LifeInv
<1>2. content' \in [Streams -> SUBSET Tracks]
  BY <1>1
<1>3. \A r \in Streams : content'[r] \subseteq content[r] \cup {track[w]}
  BY <1>1
<1>4. TracksGrow
  BY <1>1, <1>2, <1>3, ChangeBounded DEF TracksGrow, States, BornInv
<1> QED BY <1>4, ContentStep

(* The tracks of the new stream are new, one for each.                     *)
LEMMA CloneStreamStep ==
  ASSUME Inv, NEW s \in Streams, NEW s2 \in Streams, CloneStream(s, s2)
  PROVE  Inv'
<1> USE DEF Inv, TracksInv, TypeOK
<1> DEFINE Clones(f) == {f[t] : t \in content[s]}
<1>1. PICK f \in [content[s] -> {t \in Tracks : state[t] = "none"}] :
        /\ \A t, t2 \in content[s] : f[t] = f[t2] => t = t2
        /\ \E st \in [content[s] -> {"live", "ended"}] :
             /\ \A t \in content[s] : st[t] \in StatesOfClone(t)
             /\ state' = [t2 \in Tracks |-> IF \E t \in content[s] : f[t] = t2
                                         THEN st[CHOOSE t \in content[s] : f[t] = t2]
                                         ELSE state[t2]]
        /\ remote' = remote \cup RemoteClones(f)
        /\ content' = [content EXCEPT ![s2] = {f[t] : t \in content[s]}]
  BY DEF CloneStream
<1>2. PICK st \in [content[s] -> {"live", "ended"}] :
        /\ \A t \in content[s] : st[t] \in StatesOfClone(t)
        /\ state' = [t2 \in Tracks |-> IF \E t \in content[s] : f[t] = t2
                                    THEN st[CHOOSE t \in content[s] : f[t] = t2]
                                    ELSE state[t2]]
  BY <1>1
<1>3. content[s] \subseteq Tracks /\ Clones(f) \subseteq Tracks
  OBVIOUS
<1>4. ASSUME NEW u \in Tracks
      PROVE  IF u \in Clones(f) THEN state'[u] \in {"live", "ended"}
                                ELSE state'[u] = state[u]
  <2>1. CASE u \in Clones(f)
    <3> DEFINE o == CHOOSE t \in content[s] : f[t] = u
    <3>1. o \in content[s] /\ \E t \in content[s] : f[t] = u
      BY <2>1
    <3>2. state'[u] = st[o]
      BY <1>2, <3>1
    <3> QED BY <2>1, <3>1, <3>2
  <2>2. CASE u \notin Clones(f)
    <3>1. ~ \E t \in content[s] : f[t] = u
      BY <2>2
    <3> QED BY <1>2, <2>2, <3>1
  <2> QED BY <2>1, <2>2
<1>5. state' \in [Tracks -> States]
  BY <1>2, <1>4 DEF States
<1>6. remote' \subseteq Tracks
  BY <1>1, <1>3 DEF RemoteClones
<1>7. content' \in [Streams -> SUBSET Tracks]
  BY <1>1, <1>3
<1>8. ASSUME NEW r \in Streams, NEW t \in content'[r] PROVE state'[t] # "none"
  <2>1. t \in Clones(f) \/ t \in content[r]
    BY <1>1, <1>8
  <2>2. t \in Tracks
    BY <1>3, <2>1
  <2> QED BY <1>4, <2>1, <2>2 DEF BornInv
<1>9. TracksGrow
  BY <1>4, <1>5, <1>6, <1>7, <1>8 DEF TracksGrow, CloneStream
<1> QED BY <1>9, ContentStep DEF CloneStream

----------------------------------------------------------------------------
(* The steps that tell the observers, and those of one loop                *)

(* Who is told is live, and takes it as it is.                             *)
LEMMA ChangedStep ==
  ASSUME Inv, TracksGrow, NEW t \in Tracks, Changed(t),
         UNCHANGED <<observers, object, track, ended, created, reachable, map,
                     sourceVars, late>>
  PROVE  Inv'
<1> USE DEF Inv, TracksInv, sourceVars
<1>1. ASSUME NEW w \in Wrappers
      PROVE  /\ box'[w] \in Boxes /\ Rests(box'[w], ended[w])
             /\ object[w] # "live" => box'[w] = box[w]
             /\ box'[w].closed = box[w].closed
  <2>1. w \in observers[t] => object[w] = "live"
    BY DEF ObserversExist
  <2>2. box'[w] = IF w \in observers[t] THEN Put(box[w], "changed") ELSE box[w]
    BY DEF Changed
  <2> QED BY <2>1, <2>2, OfWrapper, BoxSteps
<1>2. box' \in [Wrappers -> Boxes]
  <2>1. DOMAIN box' = Wrappers /\ box' = [w \in Wrappers |-> box'[w]]
    BY DEF Changed
  <2> QED BY <1>1, <2>1
<1>3. TypeOK'
  BY <1>2 DEF TypeOK, TracksGrow, States, Boxes
<1>4. ObserversExist' /\ SourceTracksHeld' /\ OneWrapper'
  BY DEF ObserversExist, SourceTracksHeld, OneWrapper
<1>5. LifeInv' /\ LoopInv'
  BY <1>1 DEF LifeInv, LoopInv
<1>6. BornInv'
  BY DEF BornInv, TracksGrow, TypeOK
<1> QED BY <1>3, <1>4, <1>5, <1>6

(* The end of a received track.                                            *)
LEMMA EndTrackStep ==
  ASSUME Inv, NEW t \in Tracks, EndTrack(t)
  PROVE  Inv'
<1>1. TracksGrow
  BY DEF Inv, TracksInv, TypeOK, BornInv, EndTrack, TracksGrow, States
<1> QED BY <1>1, ChangedStep DEF EndTrack

(* The program sets enabled.                                               *)
LEMMA SetEnabledStep ==
  ASSUME Inv, NEW w \in Wrappers, SetEnabled(w)
  PROVE  Inv'
<1>1. track[w] \in Tracks
  BY OfWrapper DEF Inv, LifeInv, SetEnabled
<1>2. TracksGrow
  BY ChangeBounded DEF Inv, TracksInv, TypeOK, BornInv, SetEnabled, TracksGrow, States
<1> QED BY <1>1, <1>2, ChangedStep DEF SetEnabled

(* One loop goes on, and its wrapper stops or goes on as before.           *)
LEMMA OneBoxStep ==
  ASSUME Inv, NEW w \in Wrappers, object[w] = "live", NEW b \in Boxes,
         box' = [box EXCEPT ![w] = b],
         \/ Stop(w) /\ Rests(b, TRUE)
         \/ UNCHANGED <<observers, ended>> /\ Rests(b, ended[w]),
         UNCHANGED <<state, remote, content, object, track, created, reachable, map,
                     sourceVars, changes, late>>
  PROVE  Inv'
<1> USE DEF Inv, TracksInv, sourceVars
<1>1. track[w] \in Tracks
  BY OfWrapper
<1>2. \A v \in Wrappers : box'[v] = IF v = w THEN b ELSE box[v]
  BY DEF TypeOK
<1>3. /\ observers' \in [Tracks -> SUBSET Wrappers] /\ ended' \in [Wrappers -> BOOLEAN]
      /\ Rests(b, ended'[w]) /\ \A v \in Wrappers \ {w} : ended'[v] = ended[v]
      /\ \A t \in Tracks, v \in Wrappers :
           v \in observers'[t] <=> v \in observers[t] /\ ~(v = w /\ t = track[w] /\ ended'[w])
  <2>1. CASE Stop(w) /\ Rests(b, TRUE)
    BY <1>1, <2>1 DEF TypeOK, Stop
  <2>2. CASE UNCHANGED <<observers, ended>> /\ Rests(b, ended[w])
    BY <2>2 DEF TypeOK, ObserversExist
  <2> QED BY <2>1, <2>2
<1>4. TypeOK'
  BY <1>3 DEF TypeOK, Boxes
<1>5. ObserversExist'
  <2> SUFFICES ASSUME NEW t \in Tracks, NEW v \in Wrappers
               PROVE  v \in observers'[t] <=> object'[v] = "live" /\ track'[v] = t /\ ~ended'[v]
    BY <1>3 DEF ObserversExist
  <2>1. v \in observers[t] <=> object[v] = "live" /\ track[v] = t /\ ~ended[v]
    BY DEF ObserversExist
  <2>2. ended[w] => ended'[w]
    BY <1>3 DEF Stop, TypeOK
  <2> QED BY <1>3, <2>1, <2>2
<1>6. SourceTracksHeld' /\ OneWrapper' /\ BornInv'
  BY DEF SourceTracksHeld, OneWrapper, BornInv
<1>7. LifeInv' /\ LoopInv'
  BY <1>2, <1>3 DEF LifeInv, LoopInv
<1> QED BY <1>4, <1>5, <1>6, <1>7

(* stop, by the program.                                                   *)
LEMMA JsStopStep ==
  ASSUME Inv, NEW w \in Wrappers, JsStop(w)
  PROVE  Inv'
<1>1. Stopped(box[w]) \in Boxes /\ Rests(Stopped(box[w]), TRUE)
  BY OfWrapper, BoxSteps
<1>2. box' = [box EXCEPT ![w] = Stopped(box[w])]
  BY DEF JsStop
<1> QED BY <1>1, <1>2, OneBoxStep DEF JsStop

(* Only the loop of a live wrapper has a turn left.                        *)
LEMMA LoopTurnStep ==
  ASSUME Inv, NEW w \in Wrappers, LoopTurn(w)
  PROVE  Inv'
<1> DEFINE b == box[w]
<1>1. b \in Boxes /\ ended[w] \in BOOLEAN /\ Rests(b, ended[w])
  BY OfWrapper
<1>2. MayTake(b) \/ MayNotice(b) \/ MayClose(b)
  BY DEF LoopTurn, LoopEvent, LoopNotice, LoopClose
<1>3. object[w] = "live"
  BY <1>1, <1>2, BoxTurns DEF Inv, TracksInv, TypeOK, LifeInv
<1>4. CASE LoopEvent(w)
  <2>1. MayTake(b)
    BY <1>4 DEF LoopEvent
  <2>2. /\ Handled(Take(b)) \in Boxes /\ Rests(Handled(Take(b)), ended[w])
        /\ Handled(Stopped(Take(b))) \in Boxes /\ Rests(Handled(Stopped(Take(b))), TRUE)
    BY <1>1, <2>1, BoxTurns
  <2>3. CASE state[track[w]] = "ended"
    BY <1>3, <1>4, <2>2, <2>3, OneBoxStep DEF LoopEvent, Turn
  <2>4. CASE state[track[w]] # "ended"
    BY <1>3, <1>4, <2>2, <2>4, OneBoxStep DEF LoopEvent, Turn
  <2> QED BY <2>3, <2>4
<1>5. CASE LoopNotice(w)
  <2>1. Noticed(b) \in Boxes /\ Rests(Noticed(b), ended[w])
    BY <1>1, <1>5, BoxTurns DEF LoopNotice
  <2> QED BY <1>3, <1>5, <2>1, OneBoxStep DEF LoopNotice, Turn
<1>6. CASE LoopClose(w)
  <2>1. Closed(b) \in Boxes /\ Rests(Closed(b), ended[w])
    BY <1>1, <1>6, BoxTurns DEF LoopClose
  <2> QED BY <1>3, <1>6, <2>1, OneBoxStep DEF LoopClose, Turn
<1> QED BY <1>4, <1>5, <1>6 DEF LoopTurn

----------------------------------------------------------------------------
(* New wrappers                                                            *)

(* The steps of a new wrapper of a track that has none: its track has been *)
(* made by now, the address was free, and who observes has not ended.      *)
LEMMA NewWrapperStep ==
  ASSUME Inv, NEW t \in Tracks, NEW w \in Wrappers, NEW stop \in BOOLEAN,
         NewWrapper(t, w, stop), TracksGrow, state'[t] # "none", ~Wrap!Has(map, t),
         made' \subseteq made \cup {w}, source' = source
  PROVE  Inv'
<1> USE DEF Inv, TracksInv, NewWrapper
<1>1. /\ \A v \in Wrappers \ {w} : /\ object'[v] = object[v] /\ track'[v] = track[v]
                                   /\ box'[v] = box[v] /\ ended'[v] = ended[v]
      /\ object'[w] = "live" /\ track'[w] = t /\ ended'[w] = stop
      /\ box'[w] = IF stop THEN Stopped(NewBox) ELSE NewBox
      /\ object' \in [Wrappers -> {"free", "live", "dead"}]
      /\ track' \in [Wrappers -> Tracks \cup {None}]
      /\ ended' \in [Wrappers -> BOOLEAN]
  BY DEF TypeOK
<1>2. box'[w] \in Boxes /\ Rests(box'[w], stop)
  BY <1>1, NewBoxes
<1>3. box' \in [Wrappers -> Boxes]
  BY <1>1, <1>2 DEF TypeOK, Boxes
<1>4. map \in Wrap!BidiMaps /\ Wrap!Mirrored(map) /\ map.key[w] = None
  BY OfWrapper DEF TypeOK, OneWrapper
<1>5. map' = Wrap!Write(map, t, w)
  BY <1>4 DEF Wrap!ComputeIfAbsent, Wrap!Set, Wrap!ReverseRemove, Wrap!ReverseHas
<1>6. map' \in Wrap!BidiMaps /\ Wrap!Mirrored(map')
  BY <1>4, <1>5, WriteMirrored DEF Wrap!Has
<1>7. \A v \in Wrappers : map'.key[v] = track'[v]
  <2>1. map'.key = [map.key EXCEPT ![w] = t]
    BY <1>5 DEF Wrap!Write
  <2> QED BY <1>1, <1>4, <2>1 DEF Wrap!BidiMaps, OneWrapper
<1>8. observers' \in [Tracks -> SUBSET Wrappers]
  BY DEF TypeOK
<1>9. ObserversExist'
  <2> SUFFICES ASSUME NEW u \in Tracks, NEW v \in Wrappers
               PROVE  v \in observers'[u] <=> object'[v] = "live" /\ track'[v] = u /\ ~ended'[v]
    BY <1>8 DEF ObserversExist
  <2>1. v \in observers[u] <=> object[v] = "live" /\ track[v] = u /\ ~ended[v]
    BY DEF ObserversExist
  <2>2. v \in observers'[u] <=> v \in observers[u] \/ (u = t /\ v = w /\ ~stop)
    BY DEF TypeOK
  <2> QED BY <1>1, <2>1, <2>2
<1>10. TypeOK'
  BY <1>1, <1>3, <1>6, <1>8 DEF TypeOK, TracksGrow, States, Boxes
<1>11. SourceTracksHeld' /\ OneWrapper'
  BY <1>1, <1>6, <1>7 DEF SourceTracksHeld, OneWrapper
<1>12. LifeInv' /\ LoopInv'
  BY <1>1, <1>2, NoneAssumption DEF LifeInv, LoopInv, NoneAssumption
<1>13. BornInv'
  <2> SUFFICES ASSUME NEW v \in Wrappers, track'[v] # None
               PROVE  state'[track'[v]] # "none"
    BY DEF BornInv, TracksGrow
  <2>1. CASE v = w
    BY <1>1, <2>1
  <2>2. CASE v # w
    BY <1>1, <2>2 DEF BornInv, TracksGrow, TypeOK
  <2> QED BY <2>1, <2>2
<1> QED BY <1>9, <1>10, <1>11, <1>12, <1>13

(* A track that is new has no wrapper.                                     *)
LEMMA NewHasNone ==
  ASSUME Inv, NEW t \in Tracks, state[t] = "none"
  PROVE  ~Wrap!Has(map, t)
<1> SUFFICES ASSUME Wrap!Has(map, t) PROVE FALSE
  OBVIOUS
<1>1. map \in Wrap!BidiMaps /\ Wrap!Mirrored(map) /\ map.value[t] # None
  BY DEF Inv, TracksInv, TypeOK, OneWrapper, Wrap!Has
<1>2. map.value[t] \in Wrappers
  BY <1>1 DEF Wrap!BidiMaps
<1>3. map.key[map.value[t]] = t
  BY <1>1, <1>2 DEF Wrap!Mirrored
<1> QED BY <1>2, <1>3, NoneAssumption DEF Inv, OneWrapper, BornInv, NoneAssumption

(* A new track, by createTrack or clone.                                   *)
LEMMA NewTrackStep ==
  ASSUME Inv, NEW t \in Tracks, NEW w \in Wrappers, NEW st \in {"live", "ended"},
         NEW stop \in BOOLEAN, NewTrack(t, w, st, stop),
         remote' \subseteq Tracks, made' \subseteq made \cup {w}, source' = source
  PROVE  Inv'
<1>1. state' = [state EXCEPT ![t] = st] /\ state[t] = "none"
  BY DEF NewTrack
<1>2. TracksGrow /\ state'[t] # "none"
  BY <1>1 DEF NewTrack, Inv, TracksInv, TypeOK, BornInv, TracksGrow, States
<1> QED BY <1>1, <1>2, NewHasNone, NewWrapperStep DEF NewTrack

(* createTrack of a source.                                                *)
LEMMA CreateTrackStep ==
  ASSUME Inv, NEW t \in Tracks, NEW w \in Wrappers, CreateTrack(t, w)
  PROVE  Inv'
<1>1. remote' \subseteq Tracks /\ made' \subseteq made \cup {w} /\ source' = source
  BY DEF CreateTrack, Inv, TracksInv, TypeOK
<1> QED BY <1>1, NewTrackStep DEF CreateTrack

(* A clone is of a track that has been made, and is new itself.            *)
LEMMA CloneStep ==
  ASSUME Inv, NEW t \in Tracks, NEW w \in Wrappers, NEW w2 \in Wrappers, Clone(w, t, w2)
  PROVE  Inv'
<1> USE DEF Inv, TracksInv, TypeOK
<1>1. state[track[w]] \in {"live", "ended"} /\ ended[w] \in BOOLEAN
  BY OfWrapper DEF Clone, LifeInv
<1>2. PICK st \in StatesOfClone(track[w]) : NewTrack(t, w2, st, ended[w])
  BY DEF Clone
<1>3. st \in {"live", "ended"}
  BY <1>1, <1>2 DEF StatesOfClone
<1>4. RemoteClones([u \in {track[w]} |-> t]) \subseteq Tracks
  BY DEF RemoteClones
<1>5. remote' \subseteq Tracks /\ made' \subseteq made \cup {w2} /\ source' = source
  BY <1>4 DEF Clone, sourceVars
<1> QED BY <1>1, <1>2, <1>3, <1>5, NewTrackStep

(* The program gets the wrapper of a track, or a new one.                  *)
LEMMA GetOrCreateStep ==
  ASSUME Inv, NEW s \in Streams, NEW t \in Tracks, GetOrCreate(s, t)
  PROVE  Inv'
<1> USE DEF Inv, TracksInv, sourceVars
<1>1. TracksGrow /\ state'[t] # "none"
  BY DEF GetOrCreate, TypeOK, BornInv, TracksGrow, States
<1>2. CASE Wrap!Has(map, t)
  <2>1. map.value[t] \in Wrappers
    BY <1>2 DEF TypeOK, Wrap!Has, Wrap!BidiMaps
  <2>2. /\ object[map.value[t]] = "live" /\ reachable' = reachable \cup {map.value[t]}
        /\ UNCHANGED <<state, remote, content, observers, object, track, ended, box,
                       created, map, made, source, changes, late>>
    BY <1>2 DEF GetOrCreate
  <2>3. TypeOK'
    BY <2>1, <2>2 DEF TypeOK
  <2>4. ObserversExist' /\ SourceTracksHeld' /\ OneWrapper'
    BY <2>2 DEF ObserversExist, SourceTracksHeld, OneWrapper
  <2>5. LifeInv' /\ LoopInv' /\ BornInv'
    BY <2>2 DEF LifeInv, LoopInv, BornInv
  <2> QED BY <2>3, <2>4, <2>5
<1>3. CASE ~Wrap!Has(map, t)
  <2>1. PICK w \in Wrappers : NewWrapper(t, w, FALSE)
    BY <1>3 DEF GetOrCreate
  <2>2. made' \subseteq made \cup {w} /\ source' = source
    BY DEF GetOrCreate
  <2> QED BY <1>1, <1>3, <2>1, <2>2, NewWrapperStep
<1> QED BY <1>2, <1>3

----------------------------------------------------------------------------
(* The end of wrappers and of the source                                   *)

(* The program forgets a wrapper.                                          *)
LEMMA ForgetStep ==
  ASSUME Inv, NEW w \in Wrappers, Forget(w)
  PROVE  Inv'
<1> USE DEF Inv, TracksInv, Forget, libwebrtcVars, sourceVars
<1>1. TypeOK'
  BY DEF TypeOK
<1>2. ObserversExist' /\ SourceTracksHeld' /\ OneWrapper'
  BY DEF ObserversExist, SourceTracksHeld, OneWrapper
<1>3. LifeInv' /\ LoopInv' /\ BornInv'
  BY DEF LifeInv, LoopInv, BornInv
<1> QED BY <1>1, <1>2, <1>3

(* What V8 collects has a loop that has closed, so it has ended.           *)
LEMMA CollectStep ==
  ASSUME Inv, NEW w \in Wrappers, Collect(w)
  PROVE  Inv'
<1> USE DEF Inv, TracksInv, Collect, libwebrtcVars, sourceVars
<1>1. TypeOK'
  BY DEF TypeOK
<1>2. ended[w]
  BY OfWrapper DEF Rests
<1>3. /\ \A v \in Wrappers \ {w} : object'[v] = object[v]
      /\ object'[w] = "dead"
  BY DEF TypeOK
<1>4. ObserversExist'
  <2> SUFFICES ASSUME NEW t \in Tracks, NEW v \in Wrappers
               PROVE  v \in observers'[t] <=> object'[v] = "live" /\ track'[v] = t /\ ~ended'[v]
    BY <1>1 DEF ObserversExist, TypeOK
  <2>1. v \in observers[t] <=> object[v] = "live" /\ track[v] = t /\ ~ended[v]
    BY DEF ObserversExist
  <2> QED BY <1>2, <1>3, <2>1
<1>5. SourceTracksHeld' /\ OneWrapper'
  BY <1>3 DEF SourceTracksHeld, OneWrapper, TypeOK
<1>6. LifeInv' /\ LoopInv' /\ BornInv'
  BY <1>3 DEF LifeInv, LoopInv, BornInv
<1> QED BY <1>1, <1>4, <1>5, <1>6

(* Finalize takes the wrapper out of the map, and its address is free.     *)
LEMMA FinalizeStep ==
  ASSUME Inv, NEW w \in Wrappers, Finalize(w)
  PROVE  Inv'
<1> USE DEF Inv, TracksInv, Finalize, Free, libwebrtcVars, sourceVars
<1>1. /\ \A v \in Wrappers \ {w} : /\ object'[v] = object[v] /\ track'[v] = track[v]
                                   /\ box'[v] = box[v] /\ ended'[v] = ended[v]
      /\ object'[w] = "free" /\ track'[w] = None /\ box'[w] = NewBox /\ ended'[w] = FALSE
  BY DEF TypeOK
<1>2. NewBox \in Boxes /\ Rests(NewBox, FALSE)
  BY NewBoxes
<1>3. map \in Wrap!BidiMaps /\ Wrap!Mirrored(map) /\ map.key[w] \in Tracks
  BY OfWrapper DEF TypeOK, OneWrapper
<1>4. map' = Wrap!Erase(map, map.key[w], w)
  BY <1>3, NoneAssumption DEF Wrap!ReverseRemove, Wrap!ReverseHas, NoneAssumption
<1>5. map' \in Wrap!BidiMaps /\ Wrap!Mirrored(map')
  BY <1>3, ReverseRemoveMirrored
<1>6. \A v \in Wrappers : map'.key[v] = track'[v]
  <2>1. map'.key = [map.key EXCEPT ![w] = None]
    BY <1>4 DEF Wrap!Erase
  <2> QED BY <1>1, <1>3, <2>1 DEF Wrap!BidiMaps, OneWrapper
<1>7. TypeOK'
  BY <1>2, <1>5 DEF TypeOK, Boxes
<1>8. ObserversExist'
  <2> SUFFICES ASSUME NEW t \in Tracks, NEW v \in Wrappers
               PROVE  v \in observers'[t] <=> object'[v] = "live" /\ track'[v] = t /\ ~ended'[v]
    BY <1>7 DEF ObserversExist, TypeOK
  <2>1. v \in observers[t] <=> object[v] = "live" /\ track[v] = t /\ ~ended[v]
    BY DEF ObserversExist
  <2> QED BY <1>1, <2>1
<1>9. SourceTracksHeld' /\ OneWrapper'
  BY <1>1, <1>5, <1>6 DEF SourceTracksHeld, OneWrapper, TypeOK
<1>10. LifeInv' /\ LoopInv'
  BY <1>1, <1>2 DEF LifeInv, LoopInv
<1>11. BornInv'
  BY <1>1 DEF BornInv
<1> QED BY <1>7, <1>8, <1>9, <1>10, <1>11

(* The source gives its tracks back.                                       *)
LEMMA FinalizeSourceStep ==
  ASSUME Inv, FinalizeSource
  PROVE  Inv'
<1> USE DEF Inv, TracksInv, FinalizeSource, libwebrtcVars
<1>1. TypeOK'
  BY DEF TypeOK
<1>2. ObserversExist' /\ SourceTracksHeld' /\ OneWrapper'
  BY DEF ObserversExist, SourceTracksHeld, OneWrapper
<1>3. LifeInv' /\ LoopInv' /\ BornInv'
  BY DEF LifeInv, LoopInv, BornInv
<1> QED BY <1>1, <1>2, <1>3

----------------------------------------------------------------------------
(* The invariant holds in the beginning.                                   *)
LEMMA InitInv == Init => Inv
<1> SUFFICES ASSUME Init PROVE Inv
  OBVIOUS
<1> USE DEF Init
<1>1. NewBox \in Boxes /\ Rests(NewBox, FALSE)
  BY NewBoxes
<1>2. map \in Wrap!BidiMaps /\ Wrap!Mirrored(map)
  BY EmptyMirrored
<1>3. TypeOK
  BY <1>1, <1>2, MaxChangesAssumption DEF TypeOK, Boxes, MaxChangesAssumption
<1>4. ObserversExist /\ SourceTracksHeld
  BY DEF ObserversExist, SourceTracksHeld
<1>5. OneWrapper
  BY <1>2 DEF OneWrapper, Wrap!Empty
<1>6. LifeInv /\ LoopInv /\ BornInv
  BY <1>1 DEF LifeInv, LoopInv, BornInv
<1> QED BY <1>3, <1>4, <1>5, <1>6 DEF Inv, TracksInv

(* Every step keeps it.                                                    *)
LEMMA NextInv == Inv /\ [Next]_vars => Inv'
<1> SUFFICES ASSUME Inv, [Next]_vars PROVE Inv'
  OBVIOUS
<1>1. CASE \E t \in Tracks : ReceiveTrack(t) \/ EndTrack(t)
  BY <1>1, ReceiveTrackStep, EndTrackStep
<1>2. CASE \E t \in Tracks, w \in Wrappers : CreateTrack(t, w)
  BY <1>2, CreateTrackStep
<1>3. CASE \E t \in Tracks, w, w2 \in Wrappers : Clone(w, t, w2)
  BY <1>3, CloneStep
<1>4. CASE \E s \in Streams, t \in Tracks : GetOrCreate(s, t)
  BY <1>4, GetOrCreateStep
<1>5. CASE \E s \in Streams, w \in Wrappers : AddTrack(s, w) \/ RemoveTrack(s, w)
  BY <1>5, AddRemoveStep
<1>6. CASE \E s, s2 \in Streams : CloneStream(s, s2)
  BY <1>6, CloneStreamStep
<1>7. CASE \E w \in Wrappers :
             JsStop(w) \/ SetEnabled(w) \/ LoopTurn(w) \/ Forget(w) \/ Collect(w) \/ Finalize(w)
  BY <1>7, JsStopStep, SetEnabledStep, LoopTurnStep, ForgetStep, CollectStep, FinalizeStep
<1>8. CASE FinalizeSource
  BY <1>8, FinalizeSourceStep
<1>9. CASE UNCHANGED vars
  <2> USE <1>9 DEF vars, libwebrtcVars, wrapperVars, sourceVars, Inv, TracksInv
  <2>1. TypeOK'
    BY DEF TypeOK
  <2>2. ObserversExist' /\ SourceTracksHeld' /\ OneWrapper'
    BY DEF ObserversExist, SourceTracksHeld, OneWrapper
  <2>3. LifeInv' /\ LoopInv' /\ BornInv'
    BY DEF LifeInv, LoopInv, BornInv
  <2> QED BY <2>1, <2>2, <2>3
<1> QED BY <1>1, <1>2, <1>3, <1>4, <1>5, <1>6, <1>7, <1>8, <1>9 DEF Next

(* The state of the tracks and their wrappers is always as it should be.   *)
LEMMA TracksInvariant == SafeSpec => []Inv
  BY InitInv, NextInv, PTL DEF SafeSpec

(* Types; a track calls only wrappers that exist, and all that have not    *)
(* ended (MediaStreamTrack's RegisterObserver and Stop); the tracks that a *)
(* source keeps the address of are there until it gives them back          *)
(* (RTCVideoSource, RTCAudioSource).                                       *)
THEOREM TracksCorrect == SafeSpec => []TracksInv
<1>1. Inv => TracksInv
  BY DEF Inv
<1> QED BY <1>1, TracksInvariant, PTL

(* A track has one wrapper at most, and Wrap finds that one, whatever V8   *)
(* has collected and whichever addresses are used again                    *)
(* (MediaStreamTrack::wrap, Wrap::GetOrCreate, Wrap::Release).             *)
THEOREM WrapperIsOne == SafeSpec => []OneWrapper
<1>1. Inv => OneWrapper
  BY DEF Inv
<1> QED BY <1>1, TracksInvariant, PTL
=============================================================================
