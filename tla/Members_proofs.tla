--------------------------- MODULE Members_proofs ---------------------------
(***************************************************************************)
(* For any number of peer connections, transceivers and tracks: no wrapper *)
(* has a pointer to what is gone, no member of an open peer connection has *)
(* a second wrapper, a wrapper has its reference while it is in a map of   *)
(* its peer connection and no longer, the maps settle on what libwebrtc    *)
(* has, and the tracks outlive those who use them.                         *)
(***************************************************************************)
EXTENDS Members, FiniteSetTheorems, SequenceTheorems, TLAPS

(***************************************************************************)
(* The inductive invariant.  What carries it is that nothing makes a       *)
(* wrapper for a peer connection whose own loop has ended: its events are  *)
(* gone and it is closed, so that the owner of a new wrapper is alive; and *)
(* that the last event that waits, if any waits, is the one that settles.  *)
(***************************************************************************)

(* The events es of p are about its transceivers, and the last one settles. *)
Announces(p, es) ==
  /\ \A i \in 1..Len(es) : es[i] # Members => owner[es[i]] = p
  /\ es # <<>> => es[Len(es)] = Members

JingleOK ==
  /\ unified \in BOOLEAN
  /\ owner \in [Transceivers -> Pcs \cup {None}]
  /\ jSenders \subseteq Transceivers /\ jReceivers \subseteq Transceivers
  /\ sending \in [Transceivers -> Tracks \cup {None}]
  /\ \A x \in Transceivers : owner[x] = None => x \notin jSenders \cup jReceivers
  /\ unified => jSenders = jReceivers

EventsOK ==
  /\ events \in [Pcs -> Seq(Transceivers \cup {Members})]
  /\ \A p \in Pcs : Announces(p, events[p])

(* A peer connection unreferences its own tracks at the end.               *)
MapsOK ==
  /\ tracks \in [Pcs -> SUBSET Tracks] /\ externals \in [Pcs -> SUBSET Tracks]
  /\ uncovered \subseteq Tracks
  /\ \A p \in Pcs : tracks[p] \subseteq uncovered

CountsOK ==
  /\ trackRefs \in [AllTracks -> Nat]
  /\ loop \in [AllTracks -> {"none", "open", "stopped", "ended"}]

(* What is in a map has its reference, and is kept by it.                  *)
WrappersOK ==
  /\ mapped \subseteq exists \cap Mirrors
  /\ mirrorRefs = [m \in Mirrors |-> IF m \in mapped THEN 1 ELSE 0]
  /\ senderTrack \in [Transceivers -> Tracks \cup {None}]
  /\ linked \subseteq Transceivers
  /\ exists \subseteq Pcs \cup Mirrors
  /\ pcLoop \subseteq exists
  /\ \A m \in exists \ Pcs : owner[m[2]] \in Pcs
  /\ PointersValid

(* Whoever could get a new wrapper has its own loop.                       *)
LoopsOK ==
  /\ closed \subseteq Pcs /\ pcLoop \subseteq Pcs
  /\ \A p \in Pcs \ pcLoop : p \in closed /\ events[p] = <<>>

FlagsOK == dropped \in BOOLEAN /\ asserted \in BOOLEAN /\ crashed \in BOOLEAN

(* Close has left nothing in the maps, and nothing comes back.             *)
ClosedEmpty ==
  \A m \in mapped : unified \/ m[1] # "receiver" => ~Released(owner[m[2]])

Settled(p) ==
  \A x \in Owned(p) : <<GoneKind, x>> \in mapped <=> x \in jReceivers
AllSettled == \A p \in Pcs \ closed : events[p] = <<>> => Settled(p)

Inv ==
  /\ JingleOK /\ EventsOK /\ MapsOK /\ CountsOK /\ WrappersOK /\ LoopsOK /\ FlagsOK
  /\ ClosedEmpty /\ AllSettled /\ TracksOutlive

----------------------------------------------------------------------------
(* What it implies                                                         *)

(* The types, the pointers, and the one wrapper.                           *)
LEMMA InvMembers == Inv /\ SameMember => MembersInv
<1> SUFFICES ASSUME Inv, SameMember PROVE MembersInv
  OBVIOUS
<1> USE DEF Inv
<1>1. mirrorRefs \in [Mirrors -> 0..1] /\ exists \subseteq Pcs \cup Mirrors
      /\ mapped \subseteq Mirrors
  BY DEF WrappersOK
<1>2. asserted \in BOOLEAN /\ crashed \in BOOLEAN /\ dropped \in BOOLEAN
  BY DEF FlagsOK
<1>3. TypeOK
  BY <1>1, <1>2 DEF TypeOK, JingleOK, EventsOK, MapsOK, CountsOK, WrappersOK, LoopsOK
<1> QED BY <1>3 DEF MembersInv, WrappersOK

(* The references of the wrappers.                                         *)
LEMMA InvBalanced == Inv => MirrorsBalanced
  BY DEF Inv, WrappersOK, ClosedEmpty, MirrorsBalanced

(* The transceivers that the maps have.                                    *)
LEMMA InvSettled == Inv => MirrorsSettled
<1> SUFFICES ASSUME Inv, NEW p \in Pcs \ closed, events[p] = <<>>
             PROVE  {m[2] : m \in MappedOf(p) \cap Of(GoneKind, Transceivers)}
                      = Owned(p) \cap jReceivers
  BY DEF MirrorsSettled
<1>1. Settled(p) /\ mapped \subseteq Mirrors
  BY DEF Inv, AllSettled, WrappersOK
<1>2. GoneKind \in Kinds
  BY DEF GoneKind, Kinds
<1>3. ASSUME NEW x \in Owned(p) \cap jReceivers
      PROVE  x \in {m[2] : m \in MappedOf(p) \cap Of(GoneKind, Transceivers)}
  <2>1. <<GoneKind, x>> \in MappedOf(p) \cap Of(GoneKind, Transceivers)
    BY <1>1 DEF Settled, Owned, MappedOf, Of
  <2> QED BY <2>1
<1>4. ASSUME NEW m \in MappedOf(p) \cap Of(GoneKind, Transceivers)
      PROVE  m[2] \in Owned(p) \cap jReceivers
  <2>1. m = <<GoneKind, m[2]>> /\ m[2] \in Owned(p) /\ m \in mapped
    BY DEF MappedOf, Of, Owned
  <2> QED BY <1>1, <2>1 DEF Settled
<1> QED BY <1>3, <1>4

----------------------------------------------------------------------------
(* Counting                                                                *)

One(b) == IF b THEN 1 ELSE 0
Takers(t) == {p \in Pcs : t \in externals[p]}

(* Two sets of peer connections that differ in one element at most.        *)
LEMMA Counted ==
  ASSUME NEW A \in SUBSET Pcs, NEW B \in SUBSET Pcs, NEW x \in Pcs,
         \A y \in Pcs \ {x} : y \in A <=> y \in B
  PROVE  /\ Cardinality(A) \in Nat /\ Cardinality(B) \in Nat
         /\ Cardinality(B) = Cardinality(A) + One(x \in B) - One(x \in A)
<1> DEFINE C == A \ {x}
<1>1. IsFiniteSet(A) /\ IsFiniteSet(B)
  BY PcsAssumption, FS_Subset DEF PcsAssumption
<1>2. Cardinality(A) \in Nat /\ Cardinality(B) \in Nat
  BY <1>1, FS_CardinalityType
<1>3. C = B \ {x}
  OBVIOUS
<1>4. /\ Cardinality(C) = IF x \in A THEN Cardinality(A) - 1 ELSE Cardinality(A)
      /\ Cardinality(C) = IF x \in B THEN Cardinality(B) - 1 ELSE Cardinality(B)
  BY <1>1, <1>3, FS_RemoveElement
<1> QED BY <1>2, <1>4 DEF One

(* One peer connection takes tracks, or lets go of them.                   *)
LEMMA TakersChange ==
  ASSUME NEW p \in Pcs, \A q \in Pcs \ {p} : externals'[q] = externals[q], NEW t
  PROVE  /\ Cardinality(Takers(t)) \in Nat /\ Cardinality(Takers(t)') \in Nat
         /\ Cardinality(Takers(t)')
              = Cardinality(Takers(t)) + One(t \in externals'[p]) - One(t \in externals[p])
<1> DEFINE A == {q \in Pcs : t \in externals[q]}
           B == {q \in Pcs : t \in externals'[q]}
<1>1. A \in SUBSET Pcs /\ B \in SUBSET Pcs
  OBVIOUS
<1>2. \A q \in Pcs \ {p} : q \in A <=> q \in B
  OBVIOUS
<1>3. (p \in A <=> t \in externals[p]) /\ (p \in B <=> t \in externals'[p])
  OBVIOUS
<1>4. Takers(t) = A /\ Takers(t)' = B
  BY DEF Takers
<1> HIDE DEF A, B
<1>5. /\ Cardinality(A) \in Nat /\ Cardinality(B) \in Nat
      /\ Cardinality(B) = Cardinality(A) + One(p \in B) - One(p \in A)
  BY <1>1, <1>2, Counted
<1>6. One(p \in A) = One(t \in externals[p]) /\ One(p \in B) = One(t \in externals'[p])
  BY <1>3 DEF One
<1> QED BY <1>4, <1>5, <1>6

(* The number of those who have taken a track.                             *)
LEMMA TakersCount == \A t : Cardinality(Takers(t)) \in Nat
<1> SUFFICES ASSUME NEW t PROVE Cardinality(Takers(t)) \in Nat
  OBVIOUS
<1>1. Takers(t) \in SUBSET Pcs
  BY DEF Takers
<1> QED BY <1>1, PcsAssumption, FS_Subset, FS_CardinalityType DEF PcsAssumption

(* The tracks that nobody unreferences keep what they have.                *)
LEMMA OutliveStays ==
  ASSUME TracksOutlive, uncovered \subseteq uncovered', externals' = externals,
         \A t \in Tracks \ uncovered' : trackRefs'[t] = trackRefs[t] /\ loop'[t] = loop[t]
  PROVE  TracksOutlive'
<1>1. \A t \in Tracks \ uncovered' : t \in Tracks \ uncovered
  OBVIOUS
<1> QED BY <1>1 DEF TracksOutlive

----------------------------------------------------------------------------
(* createOrUpdateTransceiver, createOrUpdateSender, createOrUpdateReceiver *)

(* The parts of the wrappers ms are among them.                            *)
Complete(ms) ==
  \A m \in ms : m[1] = "transceiver" => {<<"sender", m[2]>>, <<"receiver", m[2]>>} \subseteq ms

(* All three wrappers of some transceivers, or only one of them.           *)
LEMMA WholeComplete ==
  ASSUME NEW X \in SUBSET Transceivers
  PROVE  /\ Whole(X) \in SUBSET Mirrors /\ Complete(Whole(X))
         /\ \A m \in Whole(X) : m[2] \in X
         /\ \A x \in X, kind \in Kinds : <<kind, x>> \in Whole(X)
<1>1. Whole(X) \in SUBSET Mirrors /\ \A m \in Whole(X) : m[2] \in X
  BY DEF Whole, Mirrors
<1>2. \A x \in X, kind \in Kinds : <<kind, x>> \in Whole(X)
  BY DEF Whole
<1>3. Complete(Whole(X))
  BY <1>1, <1>2 DEF Complete, Kinds
<1> QED BY <1>1, <1>2, <1>3

(* The same of one kind.                                                   *)
LEMMA PartComplete ==
  ASSUME NEW X \in SUBSET Transceivers, NEW kind \in {"sender", "receiver"}
  PROVE  /\ Of(kind, X) \in SUBSET Mirrors /\ Complete(Of(kind, X))
         /\ \A m \in Of(kind, X) : m[1] = kind /\ m[2] \in X
         /\ \A x \in X : <<kind, x>> \in Of(kind, X)
  BY DEF Of, Mirrors, Kinds, Complete

(* Those that are let go of lose the reference they have, the new ones get *)
(* one; all of them have an owner that is alive, and so have their parts.  *)
LEMMA WrappersStep ==
  ASSUME Inv, NEW p \in pcLoop, NEW gone \in SUBSET mapped, NEW ms \in SUBSET Mirrors,
         gone \cap ms = {}, Complete(ms), \A m \in ms : owner'[m[2]] = p,
         mapped' = (mapped \ gone) \cup ms, exists' = exists \cup ms,
         mirrorRefs' = [m \in Mirrors |-> CASE m \in ms \ mapped -> mirrorRefs[m] + 1
                                           [] m \in gone -> mirrorRefs[m] - 1
                                           [] OTHER -> mirrorRefs[m]],
         \A x \in Transceivers : owner[x] # None => owner'[x] = owner[x],
         senderTrack' \in [Transceivers -> Tracks \cup {None}],
         linked' \subseteq Transceivers, UNCHANGED pcLoop
  PROVE  WrappersOK'
<1> USE DEF Inv, WrappersOK
<1>1. p \in Pcs /\ p \in exists /\ p \notin Mirrors
  BY PcsAssumption DEF LoopsOK, PcsAssumption
<1>2. mapped' \subseteq exists' \cap Mirrors /\ exists' \subseteq Pcs \cup Mirrors
      /\ pcLoop' \subseteq exists'
  OBVIOUS
<1>3. mirrorRefs' = [m \in Mirrors |-> IF m \in mapped' THEN 1 ELSE 0]
  <2>1. ASSUME NEW m \in Mirrors
        PROVE  (CASE m \in ms \ mapped -> mirrorRefs[m] + 1
                  [] m \in gone -> mirrorRefs[m] - 1
                  [] OTHER -> mirrorRefs[m]) = IF m \in mapped' THEN 1 ELSE 0
    <3>1. mirrorRefs[m] = IF m \in mapped THEN 1 ELSE 0
      OBVIOUS
    <3>2. m \in mapped' <=> (m \in mapped /\ m \notin gone) \/ m \in ms
      OBVIOUS
    <3>3. CASE m \in ms \ mapped
      BY <3>1, <3>2, <3>3
    <3>4. CASE m \in gone
      BY <3>1, <3>2, <3>4
    <3>5. CASE m \notin gone /\ m \notin ms \ mapped
      BY <3>1, <3>2, <3>5
    <3> QED BY <3>3, <3>4, <3>5
  <2> QED BY <2>1
<1>4. ASSUME NEW m \in exists' \ Pcs
      PROVE  /\ owner'[m[2]] \in Pcs /\ owner'[m[2]] \in exists'
             /\ m[1] = "transceiver"
                  => {<<"sender", m[2]>>, <<"receiver", m[2]>>} \subseteq exists'
  <2>1. CASE m \in ms
    BY <1>1, <2>1 DEF Complete
  <2>2. CASE m \in exists
    <3>1. m \in Mirrors /\ m[2] \in Transceivers /\ owner[m[2]] \in Pcs
      BY <2>2 DEF Mirrors
    <3>2. owner'[m[2]] = owner[m[2]]
      BY <3>1, NoneAssumption DEF NoneAssumption
    <3> QED BY <2>2, <3>1, <3>2 DEF PointersValid
  <2> QED BY <2>1, <2>2
<1> QED BY <1>2, <1>3, <1>4 DEF PointersValid

(* The program's tracks are not touched: a new track is a receiver's.      *)
LEMMA CreateOrUpdateStep ==
  ASSUME Inv, NEW p \in pcLoop, NEW gone \in SUBSET mapped, NEW ms \in SUBSET Mirrors,
         gone \cap ms = {}, Complete(ms), \A m \in ms : owner'[m[2]] = p,
         NEW refs \in [AllTracks -> Nat], CreateOrUpdate(gone, ms, refs),
         \A x \in Transceivers : owner[x] # None => owner'[x] = owner[x],
         sending' \in [Transceivers -> Tracks \cup {None}],
         tracks' \in [Pcs -> SUBSET Tracks], externals' \in [Pcs -> SUBSET Tracks],
         UNCHANGED pcLoop
  PROVE  /\ WrappersOK' /\ CountsOK' /\ asserted' \in BOOLEAN
         /\ mapped' = (mapped \ gone) \cup ms
         /\ \A t \in Tracks : trackRefs'[t] = refs[t] /\ loop'[t] = loop[t]
<1> DEFINE S == {m[2] : m \in ms \cap Of("sender", Transceivers)}
           T == {m[2] : m \in (ms \ mapped) \cap Of("transceiver", Transceivers)}
           R == {m[2] : m \in ms \cap Of("receiver", Transceivers)}
           newTracks == {x \in R : loop[x] = "none"}
<1>1. /\ mapped' = (mapped \ gone) \cup ms /\ exists' = exists \cup ms
      /\ mirrorRefs' = [m \in Mirrors |-> CASE m \in ms \ mapped -> mirrorRefs[m] + 1
                                           [] m \in gone -> mirrorRefs[m] - 1
                                           [] OTHER -> mirrorRefs[m]]
      /\ senderTrack' = [x \in Transceivers |->
           IF x \in S THEN Known(owner'[x], sending'[x]) ELSE senderTrack[x]]
      /\ asserted' = (asserted \/ \E x \in S : senderTrack'[x] # sending'[x])
      /\ linked' = linked \cup T
      /\ trackRefs' = [t \in AllTracks |-> IF t \in newTracks THEN 2 ELSE refs[t]]
      /\ loop' = [t \in AllTracks |-> IF t \in newTracks THEN "open" ELSE loop[t]]
  BY DEF CreateOrUpdate
<1>2. S \subseteq Transceivers /\ T \subseteq Transceivers /\ newTracks \subseteq Transceivers
      /\ \A x \in S : owner'[x] = p
  BY DEF Of
<1> HIDE DEF S, T, newTracks
<1>3. senderTrack' \in [Transceivers -> Tracks \cup {None}]
  <2>1. ASSUME NEW x \in S PROVE Known(owner'[x], sending'[x]) \in Tracks \cup {None}
    <3>1. tracks'[p] \subseteq Tracks /\ externals'[p] \subseteq Tracks
      BY DEF Inv, LoopsOK
    <3> QED BY <1>2, <2>1, <3>1 DEF Known
  <2>2. senderTrack \in [Transceivers -> Tracks \cup {None}]
    BY DEF Inv, WrappersOK
  <2> QED BY <1>1, <2>1, <2>2
<1>4. linked' \subseteq Transceivers
  BY <1>1, <1>2 DEF Inv, WrappersOK
<1>5. WrappersOK'
  BY <1>1, <1>3, <1>4, WrappersStep
<1>6. CountsOK'
  <2>1. loop \in [AllTracks -> {"none", "open", "stopped", "ended"}]
    BY DEF Inv, CountsOK
  <2>2. loop' \in [AllTracks -> {"none", "open", "stopped", "ended"}]
    BY <1>1, <2>1
  <2>3. trackRefs' \in [AllTracks -> Nat]
    BY <1>1
  <2> QED BY <2>2, <2>3 DEF CountsOK
<1>7. asserted' \in BOOLEAN
  BY <1>1
<1>8. ASSUME NEW t \in Tracks PROVE trackRefs'[t] = refs[t] /\ loop'[t] = loop[t]
  <2>1. t \notin newTracks /\ t \in AllTracks
    BY <1>2, NoneAssumption DEF NoneAssumption, AllTracks
  <2> QED BY <1>1, <2>1
<1> QED BY <1>1, <1>5, <1>6, <1>7, <1>8

(* A peer connection that is open gets wrappers: nothing of one that is    *)
(* closed comes back.                                                      *)
LEMMA OpenGets ==
  ASSUME Inv, NEW p \in Pcs \ closed, NEW gone \in SUBSET mapped,
         NEW ms \in SUBSET Mirrors, mapped' = (mapped \ gone) \cup ms,
         \A m \in ms : owner'[m[2]] = p,
         \A x \in Transceivers : owner[x] # None => owner'[x] = owner[x],
         UNCHANGED <<unified, closed>>,
         \A q \in closed : tracks'[q] = tracks[q] /\ externals'[q] = externals[q]
  PROVE  ClosedEmpty'
<1> SUFFICES ASSUME NEW m \in mapped', unified' \/ m[1] # "receiver"
             PROVE  ~Released(owner[m[2]])'
  BY DEF ClosedEmpty
<1>1. CASE m \in ms
  BY <1>1 DEF Released
<1>2. CASE m \in mapped
  <2>1. m \in exists \ Pcs /\ m[2] \in Transceivers
    BY <1>2, PcsAssumption DEF Inv, WrappersOK, Mirrors, PcsAssumption
  <2>2. owner[m[2]] \in Pcs /\ owner[m[2]] # None
    BY <2>1, NoneAssumption DEF Inv, WrappersOK, NoneAssumption
  <2>3. owner'[m[2]] = owner[m[2]] /\ ~Released(owner[m[2]])
    BY <1>2, <2>1, <2>2 DEF Inv, ClosedEmpty
  <2> QED BY <2>3 DEF Released
<1> QED BY <1>1, <1>2

----------------------------------------------------------------------------
(* What the program calls                                                  *)

(* A transceiver has one owner for ever.                                   *)
OwnersKept == \A x \in Transceivers : owner[x] # None => owner'[x] = owner[x]

(* The events are about the same transceivers.                             *)
LEMMA EventsStay ==
  ASSUME Inv, OwnersKept, UNCHANGED events
  PROVE  EventsOK'
<1> SUFFICES ASSUME NEW p \in Pcs PROVE Announces(p, events[p])'
  BY DEF EventsOK, Inv
<1>1. Announces(p, events[p]) /\ events[p] \in Seq(Transceivers \cup {Members})
  BY DEF EventsOK, Inv
<1>2. ASSUME NEW i \in 1..Len(events[p]), events[p][i] # Members
      PROVE  owner'[events[p][i]] = p
  <2>1. events[p][i] \in Transceivers /\ owner[events[p][i]] = p
    BY <1>1, <1>2 DEF Announces
  <2> QED BY <2>1, NoneAssumption DEF OwnersKept, NoneAssumption
<1> QED BY <1>1, <1>2 DEF Announces

(* What gets a wrapper is what libwebrtc has, and nothing else is new.     *)
LEMMA SettledMore ==
  ASSUME Inv, NEW ms \in SUBSET Mirrors, mapped' = mapped \cup ms, OwnersKept,
         UNCHANGED <<unified, closed>>,
         \A q \in Pcs \ closed : events'[q] = <<>> => events[q] = <<>>,
         jReceivers \subseteq jReceivers',
         \A y \in Transceivers :
           /\ <<GoneKind, y>> \in ms => y \in jReceivers'
           /\ y \in jReceivers' => y \in jReceivers \/ <<GoneKind, y>> \in ms
  PROVE  AllSettled'
<1> SUFFICES ASSUME NEW q \in Pcs \ closed, events'[q] = <<>>,
                    NEW y \in Transceivers, owner'[y] = q
             PROVE  <<GoneKind, y>> \in mapped' <=> y \in jReceivers'
  BY DEF AllSettled, Settled, Owned, GoneKind
<1>1. CASE owner[y] = None
  <2>1. y \notin jReceivers
    BY <1>1 DEF Inv, JingleOK
  <2>2. <<GoneKind, y>> \notin mapped
    <3> SUFFICES ASSUME <<GoneKind, y>> \in mapped PROVE FALSE
      OBVIOUS
    <3>1. <<GoneKind, y>> \in exists \ Pcs
      BY PcsAssumption DEF Inv, WrappersOK, PcsAssumption
    <3>2. owner[y] \in Pcs
      BY <3>1 DEF Inv, WrappersOK
    <3> QED BY <1>1, <3>2, NoneAssumption DEF NoneAssumption
  <2> QED BY <2>1, <2>2
<1>2. CASE owner[y] # None
  <2>1. owner[y] = q
    BY <1>2 DEF OwnersKept
  <2>2. Settled(q)
    BY DEF Inv, AllSettled
  <2>3. <<GoneKind, y>> \in mapped <=> y \in jReceivers
    BY <2>1, <2>2 DEF Settled, Owned
  <2> QED BY <2>3
<1> QED BY <1>1, <1>2

(* A handler of an open peer connection that creates and updates.          *)
LEMMA Created ==
  ASSUME Inv, NEW p \in Pcs \ closed, NEW gone \in SUBSET mapped,
         NEW ms \in SUBSET Mirrors, gone \cap ms = {}, Complete(ms),
         \A m \in ms : owner'[m[2]] = p,
         NEW refs \in [AllTracks -> Nat], CreateOrUpdate(gone, ms, refs), OwnersKept,
         UNCHANGED <<unified, closed, pcLoop, dropped, crashed>>,
         \A q \in closed : /\ tracks'[q] = tracks[q] /\ externals'[q] = externals[q]
                           /\ events'[q] = events[q],
         JingleOK', EventsOK', MapsOK', AllSettled',
         \A t \in Tracks \ uncovered' :
           refs[t] >= (IF loop[t] = "ended" THEN 1 ELSE 2) + Cardinality(Takers(t)')
  PROVE  Inv'
<1>1. p \in pcLoop
  BY DEF Inv, LoopsOK
<1>2. /\ WrappersOK' /\ CountsOK' /\ asserted' \in BOOLEAN
      /\ mapped' = (mapped \ gone) \cup ms
      /\ \A t \in Tracks : trackRefs'[t] = refs[t] /\ loop'[t] = loop[t]
  BY <1>1, CreateOrUpdateStep DEF OwnersKept, JingleOK, MapsOK
<1>3. ClosedEmpty'
  BY <1>2, OpenGets DEF OwnersKept
<1>4. TracksOutlive'
  <2> SUFFICES ASSUME NEW t \in Tracks \ uncovered'
               PROVE  trackRefs'[t] >= (IF loop'[t] = "ended" THEN 1 ELSE 2)
                                         + Cardinality(Takers(t)')
    BY DEF TracksOutlive, Takers
  <2> QED BY <1>2
<1>5. LoopsOK'
  BY DEF Inv, LoopsOK
<1>6. FlagsOK'
  BY <1>2 DEF Inv, FlagsOK
<1> QED BY <1>2, <1>3, <1>4, <1>5, <1>6 DEF Inv

(* The peer connections that take no track.                                *)
LEMMA CoveredStays ==
  ASSUME Inv, UNCHANGED externals, uncovered \subseteq uncovered'
  PROVE  \A t \in Tracks \ uncovered' :
           trackRefs[t] >= (IF loop[t] = "ended" THEN 1 ELSE 2) + Cardinality(Takers(t)')
<1> SUFFICES ASSUME NEW t \in Tracks \ uncovered'
             PROVE  trackRefs[t] >= (IF loop[t] = "ended" THEN 1 ELSE 2)
                                      + Cardinality(Takers(t)')
  OBVIOUS
<1>1. Takers(t)' = Takers(t) /\ t \in Tracks \ uncovered
  BY DEF Takers
<1>2. trackRefs[t] >= (IF loop[t] = "ended" THEN 1 ELSE 2) + Cardinality(Takers(t))
  BY <1>1 DEF Inv, TracksOutlive, Takers
<1> QED BY <1>1, <1>2

(* addTrack's reference is for the map it puts the track in.               *)
LEMMA ExternalRefsCover ==
  ASSUME Inv, NEW p \in Pcs, NEW t \in Tracks, UNCHANGED uncovered,
         externals' = IF t \in tracks[p] THEN externals
                      ELSE [externals EXCEPT ![p] = @ \cup {t}]
  PROVE  /\ externals' \in [Pcs -> SUBSET Tracks]
         /\ \A q \in Pcs \ {p} : externals'[q] = externals[q]
         /\ ExternalRefs(p, t) \in [AllTracks -> Nat]
         /\ \A u \in Tracks \ uncovered' :
              ExternalRefs(p, t)[u] >= (IF loop[u] = "ended" THEN 1 ELSE 2)
                                         + Cardinality(Takers(u)')
<1>1. /\ externals' \in [Pcs -> SUBSET Tracks]
      /\ \A q \in Pcs \ {p} : externals'[q] = externals[q]
      /\ externals'[p] = IF t \in tracks[p] THEN externals[p] ELSE externals[p] \cup {t}
  BY DEF Inv, MapsOK
<1>2. t \in AllTracks /\ trackRefs \in [AllTracks -> Nat]
  BY DEF AllTracks, Inv, CountsOK
<1>3. ExternalRefs(p, t) \in [AllTracks -> Nat]
  BY <1>2 DEF ExternalRefs
<1>4. ASSUME NEW u \in Tracks \ uncovered
      PROVE  ExternalRefs(p, t)[u] >= (IF loop[u] = "ended" THEN 1 ELSE 2)
                                        + Cardinality(Takers(u)')
  <2> DEFINE base == IF loop[u] = "ended" THEN 1 ELSE 2
             before == Cardinality(Takers(u))
             after == Cardinality(Takers(u)')
             more == One(u \in externals'[p])
             less == One(u \in externals[p])
  <2>1. trackRefs[u] >= base + before /\ trackRefs[u] \in Nat /\ base \in Nat
    BY <1>2 DEF Inv, TracksOutlive, Takers, AllTracks
  <2>2. before \in Nat /\ after \in Nat
        /\ after = before + more - less
    BY <1>1, TakersChange
  <2>3. u \notin tracks[p]
    BY DEF Inv, MapsOK
  <2>4. more \in 0..1 /\ less \in 0..1
    BY DEF One
  <2> HIDE DEF base, before, after
  <2> SUFFICES ExternalRefs(p, t)[u] >= base + after
    BY DEF base, after
  <2>5. CASE u = t
    <3>1. ExternalRefs(p, t)[u] = trackRefs[u] + 1
      BY <1>2, <2>3, <2>5 DEF ExternalRefs
    <3> HIDE DEF more, less
    <3> QED BY <2>1, <2>2, <2>4, <3>1
  <2>6. CASE u # t
    <3>1. ExternalRefs(p, t)[u] = trackRefs[u]
      BY <1>2, <2>6 DEF ExternalRefs
    <3>2. more = less
      BY <1>1, <2>6 DEF One
    <3> HIDE DEF more, less
    <3> QED BY <2>1, <2>2, <2>4, <3>1, <3>2
  <2> QED BY <2>5, <2>6
<1> QED BY <1>1, <1>3, <1>4

(* A transceiver that libwebrtc makes, or uses again.                      *)
LEMMA FreshStep ==
  ASSUME Inv, NEW p \in Pcs, NEW x \in Transceivers, NEW t \in Tracks \cup {None},
         Fresh(p, x, t) \/ Reuse(p, x, t), UNCHANGED unified
  PROVE  /\ JingleOK' /\ OwnersKept /\ owner'[x] = p
         /\ jReceivers \subseteq jReceivers' /\ jReceivers' \subseteq jReceivers \cup {x}
         /\ IF unified THEN x \in jReceivers' ELSE jReceivers' = jReceivers
<1> USE DEF Inv, JingleOK, OwnersKept
<1>1. CASE Fresh(p, x, t)
  <2>1. /\ owner[x] = None /\ owner' = [owner EXCEPT ![x] = p]
        /\ jSenders' = jSenders \cup {x}
        /\ jReceivers' = IF unified THEN jReceivers \cup {x} ELSE jReceivers
        /\ sending' = [sending EXCEPT ![x] = t]
    BY <1>1 DEF Fresh
  <2> QED BY <2>1, NoneAssumption DEF NoneAssumption
<1>2. CASE Reuse(p, x, t)
  <2>1. /\ unified /\ x \in jSenders /\ owner[x] = p
        /\ sending' = [sending EXCEPT ![x] = t] /\ UNCHANGED <<owner, jSenders, jReceivers>>
    BY <1>2 DEF Reuse
  <2> QED BY <2>1
<1> QED BY <1>1, <1>2

(* The wrappers of it that the call creates or updates.                    *)
LEMMA WrapsTransceiver ==
  ASSUME NEW x \in Transceivers, NEW kind \in {"sender", "receiver"},
         NEW ms, ms = IF unified THEN Whole({x}) ELSE Of(kind, {x})
  PROVE  /\ ms \in SUBSET Mirrors /\ Complete(ms) /\ \A m \in ms : m[2] = x
         /\ \A y \in Transceivers :
              <<GoneKind, y>> \in ms <=> y = x /\ (unified \/ kind = "receiver")
<1>1. {x} \in SUBSET Transceivers
  OBVIOUS
<1>2. CASE unified
  BY <1>1, <1>2, WholeComplete DEF GoneKind, Kinds
<1>3. CASE ~unified
  BY <1>1, <1>3, PartComplete DEF GoneKind
<1> QED BY <1>2, <1>3

(* The same wrappers, maps and events.                                     *)
LEMMA SameMembers ==
  ASSUME Inv,
         UNCHANGED <<unified, owner, jSenders, jReceivers, events, closed, mapped,
                     mirrorRefs, linked, exists, pcLoop>>,
         sending' \in [Transceivers -> Tracks \cup {None}],
         senderTrack' \in [Transceivers -> Tracks \cup {None}]
  PROVE  /\ JingleOK' /\ EventsOK' /\ WrappersOK' /\ LoopsOK' /\ AllSettled'
         /\ (\A q \in closed : tracks'[q] = tracks[q] /\ externals'[q] = externals[q])
              => ClosedEmpty'
<1> USE DEF Inv
<1>1. JingleOK' /\ LoopsOK'
  BY DEF JingleOK, LoopsOK
<1>2. EventsOK'
  BY EventsStay DEF OwnersKept
<1>3. WrappersOK'
  BY DEF WrappersOK, PointersValid
<1>4. AllSettled'
  BY DEF AllSettled, Settled, Owned, GoneKind
<1>5. ASSUME \A q \in closed : tracks'[q] = tracks[q] /\ externals'[q] = externals[q]
      PROVE  ClosedEmpty'
  BY <1>5 DEF ClosedEmpty, Released
<1> QED BY <1>1, <1>2, <1>3, <1>4, <1>5

(* addTrack, whether libwebrtc refuses the track or not.                   *)
LEMMA AddTrackStep ==
  ASSUME Inv, NEW p \in Pcs, NEW t \in Tracks, AddTrack(p, t)
  PROVE  Inv'
<1>1. /\ p \in Pcs \ closed
      /\ externals' = IF t \in tracks[p] THEN externals
                      ELSE [externals EXCEPT ![p] = @ \cup {t}]
      /\ UNCHANGED <<unified, events, closed, tracks, uncovered, dropped, pcLoop, crashed>>
  BY DEF AddTrack
<1>2. /\ externals' \in [Pcs -> SUBSET Tracks]
      /\ \A q \in Pcs \ {p} : externals'[q] = externals[q]
      /\ ExternalRefs(p, t) \in [AllTracks -> Nat]
      /\ \A u \in Tracks \ uncovered' :
           ExternalRefs(p, t)[u] >= (IF loop[u] = "ended" THEN 1 ELSE 2)
                                      + Cardinality(Takers(u)')
  BY <1>1, ExternalRefsCover
<1>3. MapsOK'
  BY <1>1, <1>2 DEF Inv, MapsOK
<1>4. \A q \in closed : /\ tracks'[q] = tracks[q] /\ externals'[q] = externals[q]
                        /\ events'[q] = events[q]
  BY <1>1, <1>2 DEF Inv, LoopsOK
<1>5. CASE \E x \in jSenders : owner[x] = p /\ sending[x] = t
  <2>1. /\ trackRefs' = ExternalRefs(p, t)
        /\ UNCHANGED <<owner, jSenders, jReceivers, sending, mapped, mirrorRefs, senderTrack,
                       linked, asserted, loop, exists>>
    BY <1>5 DEF AddTrack, mirrorVars
  <2>2. JingleOK' /\ EventsOK' /\ WrappersOK' /\ LoopsOK' /\ AllSettled' /\ ClosedEmpty'
    BY <1>1, <1>4, <2>1, SameMembers DEF Inv, JingleOK, WrappersOK
  <2>3. TracksOutlive'
    BY <1>2, <2>1 DEF TracksOutlive, Takers
  <2>4. CountsOK' /\ FlagsOK'
    BY <1>1, <1>2, <2>1 DEF Inv, CountsOK, FlagsOK
  <2> QED BY <1>3, <2>2, <2>3, <2>4 DEF Inv
<1>6. CASE ~\E x \in jSenders : owner[x] = p /\ sending[x] = t
  <2>1. PICK x \in Transceivers :
          /\ Fresh(p, x, t) \/ Reuse(p, x, t)
          /\ CreateOrUpdate({}, IF unified THEN Whole({x}) ELSE Of("sender", {x}),
                            ExternalRefs(p, t))
    BY <1>6 DEF AddTrack
  <2> DEFINE ms == IF unified THEN Whole({x}) ELSE Of("sender", {x})
  <2>2. /\ JingleOK' /\ OwnersKept /\ owner'[x] = p
        /\ jReceivers \subseteq jReceivers' /\ jReceivers' \subseteq jReceivers \cup {x}
        /\ IF unified THEN x \in jReceivers' ELSE jReceivers' = jReceivers
    BY <1>1, <2>1, FreshStep
  <2>3. /\ ms \in SUBSET Mirrors /\ Complete(ms) /\ \A m \in ms : m[2] = x
        /\ \A y \in Transceivers : <<GoneKind, y>> \in ms <=> y = x /\ unified
    <3> DEFINE kind == "sender"
    <3>1. kind \in {"sender", "receiver"} /\ kind # "receiver"
          /\ ms = IF unified THEN Whole({x}) ELSE Of(kind, {x})
      OBVIOUS
    <3> HIDE DEF kind, ms
    <3> QED BY <3>1, WrapsTransceiver
  <2>4. CreateOrUpdate({}, ms, ExternalRefs(p, t)) /\ mapped' = mapped \cup ms
    BY <2>1 DEF CreateOrUpdate
  <2> HIDE DEF ms
  <2>5. AllSettled'
    BY <1>1, <2>2, <2>3, <2>4, SettledMore
  <2>6. EventsOK'
    BY <1>1, <2>2, EventsStay
  <2> QED BY <1>1, <1>2, <1>3, <1>4, <2>2, <2>3, <2>4, <2>5, <2>6, Created
<1> QED BY <1>5, <1>6

(* addTransceiver: the track it is given is not covered from then on.      *)
LEMMA AddTransceiverStep ==
  ASSUME Inv, NEW p \in Pcs, NEW t \in Tracks \cup {None}, AddTransceiver(p, t)
  PROVE  Inv'
<1>1. /\ p \in Pcs \ closed /\ unified
      /\ IF t = None THEN UNCHANGED <<tracks, uncovered>>
         ELSE /\ tracks' = [tracks EXCEPT ![p] = @ \cup {t}]
              /\ uncovered' = uncovered \cup {t}
      /\ UNCHANGED <<unified, events, closed, externals, dropped, pcLoop, crashed>>
  BY DEF AddTransceiver
<1>2. /\ MapsOK' /\ uncovered \subseteq uncovered'
      /\ \A q \in Pcs \ {p} : tracks'[q] = tracks[q]
  BY <1>1 DEF Inv, MapsOK
<1>3. \A q \in closed : /\ tracks'[q] = tracks[q] /\ externals'[q] = externals[q]
                        /\ events'[q] = events[q]
  BY <1>1, <1>2 DEF Inv, LoopsOK
<1>4. trackRefs \in [AllTracks -> Nat]
      /\ \A u \in Tracks \ uncovered' :
           trackRefs[u] >= (IF loop[u] = "ended" THEN 1 ELSE 2) + Cardinality(Takers(u)')
  BY <1>1, <1>2, CoveredStays DEF Inv, CountsOK
<1>5. ASSUME NEW x \in Transceivers,
             Fresh(p, x, t) /\ CreateOrUpdate({}, Whole({x}), trackRefs)
      PROVE  Inv'
  <2> DEFINE ms == Whole({x})
  <2>1. /\ JingleOK' /\ OwnersKept /\ owner'[x] = p
        /\ jReceivers \subseteq jReceivers' /\ jReceivers' \subseteq jReceivers \cup {x}
        /\ x \in jReceivers'
    BY <1>1, <1>5, FreshStep
  <2>2. /\ ms \in SUBSET Mirrors /\ Complete(ms) /\ \A m \in ms : m[2] = x
        /\ \A y \in Transceivers : <<GoneKind, y>> \in ms <=> y = x
    BY <1>1, WrapsTransceiver
  <2>3. CreateOrUpdate({}, ms, trackRefs) /\ mapped' = mapped \cup ms
    BY <1>5 DEF CreateOrUpdate
  <2> HIDE DEF ms
  <2>4. AllSettled'
    BY <1>1, <2>1, <2>2, <2>3, SettledMore
  <2>5. EventsOK'
    BY <1>1, <2>1, EventsStay
  <2> QED BY <1>1, <1>2, <1>3, <1>4, <2>1, <2>2, <2>3, <2>4, <2>5, Created
<1>6. CASE UNCHANGED <<owner, jSenders, jReceivers, sending, mirrorVars, trackRefs, loop, exists>>
  <2>1. UNCHANGED <<owner, jSenders, jReceivers, sending, mapped, mirrorRefs, senderTrack,
                    linked, asserted, trackRefs, loop, exists>>
    BY <1>6 DEF mirrorVars
  <2>2. JingleOK' /\ EventsOK' /\ WrappersOK' /\ LoopsOK' /\ AllSettled' /\ ClosedEmpty'
    BY <1>1, <1>3, <2>1, SameMembers DEF Inv, JingleOK, WrappersOK
  <2>3. TracksOutlive'
    BY <1>4, <2>1 DEF TracksOutlive, Takers
  <2>4. CountsOK' /\ FlagsOK'
    BY <1>1, <1>2, <1>4, <2>1 DEF Inv, CountsOK, FlagsOK, MapsOK
  <2> QED BY <1>2, <2>2, <2>3, <2>4 DEF Inv
<1> QED BY <1>5, <1>6 DEF AddTransceiver

(* removeTrack updates the wrappers, crashes, or in plan B lets go of one. *)
LEMMA RemoveTrackStep ==
  ASSUME Inv, NEW x \in Transceivers, RemoveTrack(x)
  PROVE  Inv'
<1> DEFINE p == owner[x]
<1>1. /\ p \in Pcs \ closed /\ <<"sender", x>> \in mapped /\ x \in jSenders
      /\ sending' = [sending EXCEPT ![x] = None]
      /\ UNCHANGED <<unified, owner, jReceivers, events, closed, tracks, externals, uncovered,
                     dropped, pcLoop>>
  BY DEF RemoveTrack, Inv, JingleOK
<1> HIDE DEF p
<1>2. sending' \in [Transceivers -> Tracks \cup {None}]
  BY <1>1 DEF Inv, JingleOK
<1>3. MapsOK' /\ OwnersKept /\ p = owner[x]
  BY <1>1 DEF Inv, MapsOK, OwnersKept, p
<1>4. CASE /\ unified /\ CreateOrUpdate({}, Whole({x}), trackRefs)
           /\ UNCHANGED <<jSenders, crashed>>
  <2> DEFINE ms == Whole({x})
  <2>1. /\ ms \in SUBSET Mirrors /\ Complete(ms) /\ \A m \in ms : m[2] = x
        /\ \A y \in Transceivers : <<GoneKind, y>> \in ms <=> y = x
    BY <1>4, WrapsTransceiver
  <2>2. CreateOrUpdate({}, ms, trackRefs) /\ mapped' = mapped \cup ms
    BY <1>4 DEF CreateOrUpdate
  <2> HIDE DEF ms
  <2>3. x \in jReceivers /\ JingleOK'
    BY <1>1, <1>2, <1>4 DEF Inv, JingleOK
  <2>4. AllSettled'
    BY <1>1, <1>3, <2>1, <2>2, <2>3, SettledMore
  <2>5. EventsOK'
    BY <1>1, <1>3, EventsStay
  <2>6. trackRefs \in [AllTracks -> Nat]
        /\ \A u \in Tracks \ uncovered' :
             trackRefs[u] >= (IF loop[u] = "ended" THEN 1 ELSE 2) + Cardinality(Takers(u)')
    BY <1>1, CoveredStays DEF Inv, CountsOK
  <2> QED BY <1>1, <1>3, <1>4, <2>1, <2>2, <2>3, <2>4, <2>5, <2>6, Created
<1>5. CASE /\ crashed' = TRUE /\ UNCHANGED <<jSenders, mirrorVars, trackRefs, loop, exists>>
  <2> USE <1>5 DEF mirrorVars
  <2>1. JingleOK' /\ EventsOK' /\ WrappersOK' /\ LoopsOK' /\ AllSettled' /\ ClosedEmpty'
    BY <1>1, <1>2, SameMembers DEF Inv, WrappersOK
  <2>2. TracksOutlive'
    BY <1>1, OutliveStays DEF Inv
  <2>3. CountsOK' /\ FlagsOK'
    BY <1>1 DEF Inv, CountsOK, FlagsOK
  <2> QED BY <1>3, <2>1, <2>2, <2>3 DEF Inv
<1>6. CASE /\ ~unified
           /\ jSenders' = jSenders \ {x}
           /\ mapped' = mapped \ {<<"sender", x>>}
           /\ mirrorRefs' = [mirrorRefs EXCEPT ![<<"sender", x>>] = @ - 1]
           /\ senderTrack' = [senderTrack EXCEPT ![x] = None]
           /\ UNCHANGED <<linked, asserted, trackRefs, loop, exists, crashed>>
  <2>1. JingleOK'
    BY <1>1, <1>2, <1>6 DEF Inv, JingleOK
  <2>2. EventsOK'
    BY <1>1, <1>3, EventsStay
  <2>3. WrappersOK'
    <3>1. mapped' \subseteq exists' \cap Mirrors
      BY <1>6 DEF Inv, WrappersOK
    <3>2. mirrorRefs' = [m \in Mirrors |-> IF m \in mapped' THEN 1 ELSE 0]
      <4>1. <<"sender", x>> \in Mirrors /\ mirrorRefs[<<"sender", x>>] = 1
        BY <1>1 DEF Inv, WrappersOK
      <4>2. mirrorRefs = [m \in Mirrors |-> IF m \in mapped THEN 1 ELSE 0]
        BY DEF Inv, WrappersOK
      <4>3. \A m \in Mirrors : mirrorRefs'[m] = IF m \in mapped' THEN 1 ELSE 0
        BY <1>6, <4>1, <4>2
      <4>4. mirrorRefs' = [m \in Mirrors |-> mirrorRefs'[m]]
        BY <1>6, <4>2
      <4> QED BY <4>3, <4>4
    <3>3. senderTrack' \in [Transceivers -> Tracks \cup {None}]
      BY <1>6 DEF Inv, WrappersOK
    <3> QED BY <1>1, <1>6, <3>1, <3>2, <3>3 DEF Inv, WrappersOK, PointersValid
  <2>4. LoopsOK' /\ CountsOK' /\ FlagsOK'
    BY <1>1, <1>6 DEF Inv, LoopsOK, CountsOK, FlagsOK
  <2>5. ClosedEmpty'
    BY <1>1, <1>6 DEF Inv, ClosedEmpty, Released
  <2>6. AllSettled'
    BY <1>1, <1>6 DEF Inv, AllSettled, Settled, Owned, GoneKind
  <2>7. TracksOutlive'
    BY <1>1, <1>6, OutliveStays DEF Inv
  <2> QED BY <1>3, <2>1, <2>2, <2>3, <2>4, <2>5, <2>6, <2>7 DEF Inv
<1> QED BY <1>4, <1>5, <1>6 DEF RemoveTrack

(* replaceTrack.                                                           *)
LEMMA ReplaceTrackStep ==
  ASSUME Inv, NEW x \in Transceivers, NEW t \in Tracks \cup {None}, ReplaceTrack(x, t)
  PROVE  Inv'
<1> USE DEF trackVars, lifeVars
<1>1. /\ sending' = [sending EXCEPT ![x] = t] /\ senderTrack' = [senderTrack EXCEPT ![x] = t]
      /\ UNCHANGED <<unified, owner, jSenders, jReceivers, events, closed, mapped,
                     mirrorRefs, linked, asserted, tracks, externals, trackRefs, uncovered,
                     loop, dropped, exists, pcLoop, crashed>>
  BY DEF ReplaceTrack
<1>2. /\ sending' \in [Transceivers -> Tracks \cup {None}]
      /\ senderTrack' \in [Transceivers -> Tracks \cup {None}]
  BY <1>1 DEF Inv, JingleOK, WrappersOK
<1>3. JingleOK' /\ EventsOK' /\ WrappersOK' /\ LoopsOK' /\ AllSettled' /\ ClosedEmpty'
  BY <1>1, <1>2, SameMembers
<1>4. TracksOutlive'
  BY <1>1, OutliveStays DEF Inv
<1>5. CountsOK' /\ FlagsOK' /\ MapsOK'
  BY <1>1 DEF Inv, CountsOK, FlagsOK, MapsOK
<1> QED BY <1>3, <1>4, <1>5 DEF Inv

(* Any other method, and the program's letting go.                         *)
LEMMA UseStep ==
  ASSUME Inv, crashed' \in BOOLEAN, dropped' \in BOOLEAN,
         UNCHANGED <<jingleVars, closed, mirrorVars, trackVars, exists, pcLoop>>
  PROVE  Inv'
<1> USE DEF jingleVars, mirrorVars, trackVars
<1>1. JingleOK' /\ EventsOK' /\ WrappersOK' /\ LoopsOK' /\ AllSettled' /\ ClosedEmpty'
  BY SameMembers DEF Inv, JingleOK, WrappersOK
<1>2. TracksOutlive'
  BY OutliveStays DEF Inv
<1>3. CountsOK' /\ FlagsOK' /\ MapsOK'
  BY DEF Inv, CountsOK, FlagsOK, MapsOK
<1> QED BY <1>1, <1>2, <1>3 DEF Inv

(* getTransceivers, getSenders and getReceivers.                           *)
LEMMA GetMembersStep ==
  ASSUME Inv, NEW p \in Pcs, NEW kind \in Kinds, GetMembers(p, kind)
  PROVE  Inv'
<1> DEFINE X == Owned(p) \cap (IF kind = "receiver" THEN jReceivers ELSE jSenders)
           ms == IF kind # "transceiver" THEN Of(kind, X)
                 ELSE IF unified THEN Whole(X) ELSE {}
<1>1. /\ p \in Pcs \ closed
      /\ UNCHANGED <<unified, owner, jSenders, jReceivers, sending, events, closed, tracks,
                     externals, uncovered, dropped, pcLoop, crashed>>
      /\ CreateOrUpdate({}, ms, trackRefs)
  BY DEF GetMembers, jingleVars
<1>2. X \in SUBSET Transceivers /\ \A x \in X : owner[x] = p
  BY DEF Owned
<1>3. X \subseteq IF kind = "receiver" THEN jReceivers ELSE jSenders
  OBVIOUS
<1> HIDE DEF X
<1>4. /\ ms \in SUBSET Mirrors /\ Complete(ms) /\ \A m \in ms : m[2] \in X
      /\ \A y \in Transceivers : <<GoneKind, y>> \in ms => y \in jReceivers
  <2>1. CASE kind # "transceiver"
    <3>1. ms = Of(kind, X) /\ kind \in {"sender", "receiver"}
      <4>1. ms = Of(kind, X)
        BY <2>1
      <4>2. kind \in {"sender", "receiver"}
        BY <2>1 DEF Kinds
      <4> QED BY <4>1, <4>2
    <3>2. /\ Of(kind, X) \in SUBSET Mirrors /\ Complete(Of(kind, X))
          /\ \A m \in Of(kind, X) : m[1] = kind /\ m[2] \in X
      BY <1>2, <3>1, PartComplete
    <3>3. ASSUME NEW y \in Transceivers, <<GoneKind, y>> \in Of(kind, X) PROVE y \in jReceivers
      <4>1. GoneKind = kind /\ y \in X
        BY <3>2, <3>3
      <4>2. kind = "receiver"
        BY <2>1, <4>1, <3>1 DEF GoneKind
      <4> QED BY <1>3, <4>1, <4>2
    <3> QED BY <3>1, <3>2, <3>3
  <2>2. CASE kind = "transceiver" /\ unified
    <3>1. ms = Whole(X) /\ jSenders = jReceivers
      BY <2>2 DEF Inv, JingleOK
    <3>2. /\ Whole(X) \in SUBSET Mirrors /\ Complete(Whole(X))
          /\ \A m \in Whole(X) : m[2] \in X
      BY <1>2, WholeComplete
    <3>3. X \subseteq jReceivers
      BY <1>3, <2>2, <3>1
    <3> QED BY <3>1, <3>2, <3>3
  <2>3. CASE kind = "transceiver" /\ ~unified
    BY <2>3 DEF Complete
  <2> QED BY <2>1, <2>2, <2>3
<1>5. CreateOrUpdate({}, ms, trackRefs) /\ mapped' = mapped \cup ms
  BY <1>1 DEF CreateOrUpdate
<1> HIDE DEF ms
<1>6. OwnersKept /\ \A m \in ms : owner'[m[2]] = p
  BY <1>1, <1>2, <1>4 DEF OwnersKept
<1>7. AllSettled'
  BY <1>1, <1>4, <1>5, <1>6, SettledMore
<1>8. EventsOK'
  BY <1>1, <1>6, EventsStay
<1>9. JingleOK' /\ MapsOK'
  BY <1>1 DEF Inv, JingleOK, MapsOK
<1>10. trackRefs \in [AllTracks -> Nat]
       /\ \A u \in Tracks \ uncovered' :
            trackRefs[u] >= (IF loop[u] = "ended" THEN 1 ELSE 2) + Cardinality(Takers(u)')
  BY <1>1, CoveredStays DEF Inv, CountsOK
<1> QED BY <1>1, <1>4, <1>5, <1>6, <1>7, <1>8, <1>9, <1>10, Created

----------------------------------------------------------------------------
(* Descriptions and events                                                 *)

(* What is appended settles, and what is about a transceiver is its own.   *)
LEMMA AnnouncesMore ==
  ASSUME Inv, NEW p \in Pcs, NEW x \in Transceivers, owner'[x] = p, OwnersKept,
         NEW es, es = Append(events[p], x) \/ es = events[p],
         NEW fs, fs = Append(es, Members)
  PROVE  Announces(p, fs)' /\ fs \in Seq(Transceivers \cup {Members}) /\ fs # <<>>
<1> DEFINE E == Transceivers \cup {Members}
<1>1. events[p] \in Seq(E) /\ Announces(p, events[p])
  BY DEF Inv, EventsOK
<1>2. x \in E /\ Members \in E
  OBVIOUS
<1> HIDE DEF E
<1>3. ASSUME NEW i \in 1..Len(events[p]), events[p][i] # Members
      PROVE  owner'[events[p][i]] = p
  <2>1. events[p][i] \in Transceivers /\ owner[events[p][i]] = p
    BY <1>1, <1>3 DEF Announces, E
  <2> QED BY <2>1, NoneAssumption DEF OwnersKept, NoneAssumption
<1>4. es \in Seq(E) /\ \A i \in 1..Len(es) : es[i] # Members => owner'[es[i]] = p
  <2>1. CASE es = events[p]
    BY <1>1, <1>3, <2>1
  <2>2. CASE es = Append(events[p], x)
    <3>1. es \in Seq(E) /\ Len(es) = Len(events[p]) + 1
          /\ \A i \in 1..Len(es) : es[i] = IF i <= Len(events[p]) THEN events[p][i] ELSE x
      BY <1>1, <1>2, <2>2, AppendProperties
    <3>2. Len(events[p]) \in Nat
      BY <1>1, LenProperties
    <3> QED BY <1>3, <3>1, <3>2
  <2> QED BY <2>1, <2>2
<1>5. fs \in Seq(E) /\ Len(fs) = Len(es) + 1 /\ Len(es) \in Nat
      /\ \A i \in 1..Len(fs) : fs[i] = IF i <= Len(es) THEN es[i] ELSE Members
  BY <1>2, <1>4, AppendProperties, LenProperties
<1>6. fs[Len(fs)] = Members /\ fs # <<>>
  BY <1>5
<1>7. \A i \in 1..Len(fs) : fs[i] # Members => owner'[fs[i]] = p
  BY <1>4, <1>5
<1> QED BY <1>5, <1>6, <1>7 DEF Announces, E

(* A description makes or removes a transceiver; what waits will settle it. *)
LEMMA ApplyDescriptionStep ==
  ASSUME Inv, NEW p \in Pcs, ApplyDescription(p)
  PROVE  Inv'
<1> USE DEF mirrorVars, trackVars, lifeVars
<1>1. /\ p \notin closed
      /\ UNCHANGED <<unified, sending, closed, mapped, mirrorRefs, senderTrack, linked,
                     asserted, tracks, externals, trackRefs, uncovered, loop, dropped, exists,
                     pcLoop, crashed>>
  BY DEF ApplyDescription
<1>2. PICK x \in Transceivers : DescriptionAdds(p, x) \/ DescriptionRemoves(p, x)
  BY DEF ApplyDescription
<1>3. /\ JingleOK' /\ OwnersKept /\ owner'[x] = p
      /\ \A y \in Transceivers \ {x} :
           owner'[y] = owner[y] /\ (y \in jReceivers' <=> y \in jReceivers)
      /\ owner[x] \in {None, p}
  <2>1. CASE DescriptionAdds(p, x)
    <3>1. /\ owner[x] = None /\ owner' = [owner EXCEPT ![x] = p]
          /\ jReceivers' = jReceivers \cup {x}
          /\ jSenders' = IF unified THEN jSenders \cup {x} ELSE jSenders
      BY <2>1 DEF DescriptionAdds
    <3> QED BY <1>1, <3>1, NoneAssumption DEF Inv, JingleOK, OwnersKept, NoneAssumption
  <2>2. CASE DescriptionRemoves(p, x)
    <3>1. /\ owner[x] = p /\ owner' = owner
          /\ jReceivers' = jReceivers \ {x}
          /\ jSenders' = IF unified THEN jSenders \ {x} ELSE jSenders
      BY <2>2 DEF DescriptionRemoves
    <3> QED BY <1>1, <3>1 DEF Inv, JingleOK, OwnersKept
  <2> QED BY <1>2, <2>1, <2>2
<1>4. \E es, fs : /\ es = Append(events[p], x) \/ es = events[p]
                  /\ fs = Append(es, Members) /\ events' = [events EXCEPT ![p] = fs]
  <2>1. events[p] \in Seq(Transceivers \cup {Members})
    BY DEF Inv, EventsOK
  <2>2. events[p] \o <<x>> \o <<Members>> = Append(Append(events[p], x), Members)
        /\ events[p] \o <<>> \o <<Members>> = Append(events[p], Members)
    BY <2>1
  <2>3. CASE DescriptionAdds(p, x)
    <3>1. \/ events' = [events EXCEPT ![p] = events[p] \o <<x>> \o <<Members>>]
          \/ events' = [events EXCEPT ![p] = events[p] \o <<>> \o <<Members>>]
      BY <2>3 DEF DescriptionAdds
    <3> QED BY <2>2, <3>1
  <2>4. CASE DescriptionRemoves(p, x)
    BY <2>4 DEF DescriptionRemoves
  <2> QED BY <1>2, <2>3, <2>4
<1>5. PICK es, fs : /\ es = Append(events[p], x) \/ es = events[p]
                    /\ fs = Append(es, Members) /\ events' = [events EXCEPT ![p] = fs]
  BY <1>4
<1>6. Announces(p, fs)' /\ fs \in Seq(Transceivers \cup {Members}) /\ fs # <<>>
  BY <1>3, <1>5, AnnouncesMore
<1>7. /\ events' \in [Pcs -> Seq(Transceivers \cup {Members})] /\ events'[p] = fs
      /\ \A q \in Pcs \ {p} : events'[q] = events[q]
  BY <1>5, <1>6 DEF Inv, EventsOK
<1>8. EventsOK'
  <2>1. ASSUME NEW q \in Pcs \ {p} PROVE Announces(q, events[q])'
    <3>1. events[q] \in Seq(Transceivers \cup {Members}) /\ Announces(q, events[q])
      BY DEF Inv, EventsOK
    <3>2. ASSUME NEW i \in 1..Len(events[q]), events[q][i] # Members
          PROVE  owner'[events[q][i]] = q
      <4>1. events[q][i] \in Transceivers /\ owner[events[q][i]] = q
        BY <3>1, <3>2 DEF Announces
      <4> QED BY <4>1, <1>3, NoneAssumption DEF OwnersKept, NoneAssumption
    <3> QED BY <1>7, <3>1, <3>2 DEF Announces
  <2>2. Announces(p, events[p])'
    BY <1>6, <1>7 DEF Announces
  <2> QED BY <1>7, <2>1, <2>2 DEF EventsOK
<1>9. WrappersOK'
  <2>1. \A m \in exists \ Pcs : m[2] \in Transceivers /\ owner'[m[2]] = owner[m[2]]
    <3> SUFFICES ASSUME NEW m \in exists \ Pcs
                 PROVE  m[2] \in Transceivers /\ owner'[m[2]] = owner[m[2]]
      OBVIOUS
    <3>1. m[2] \in Transceivers /\ owner[m[2]] \in Pcs
      BY DEF Inv, WrappersOK, Mirrors
    <3> QED BY <3>1, <1>3, NoneAssumption DEF OwnersKept, NoneAssumption
  <2> QED BY <1>1, <2>1 DEF Inv, WrappersOK, PointersValid
<1>10. ClosedEmpty'
  <2> SUFFICES ASSUME NEW m \in mapped, unified \/ m[1] # "receiver"
               PROVE  ~Released(owner[m[2]])'
    BY <1>1 DEF ClosedEmpty
  <2>1. m \in exists \ Pcs /\ m[2] \in Transceivers
    BY PcsAssumption DEF Inv, WrappersOK, Mirrors, PcsAssumption
  <2>2. owner[m[2]] \in Pcs
    BY <2>1 DEF Inv, WrappersOK
  <2>3. owner'[m[2]] = owner[m[2]]
    BY <1>3, <2>1, <2>2, NoneAssumption DEF OwnersKept, NoneAssumption
  <2> QED BY <1>1, <2>3 DEF Inv, ClosedEmpty, Released
<1>11. AllSettled'
  <2> SUFFICES ASSUME NEW q \in Pcs \ closed, events'[q] = <<>>,
                      NEW y \in Transceivers, owner'[y] = q
               PROVE  <<GoneKind, y>> \in mapped <=> y \in jReceivers'
    BY <1>1 DEF AllSettled, Settled, Owned, GoneKind
  <2>1. q # p
    BY <1>6, <1>7
  <2>2. y # x /\ owner[y] = q /\ events[q] = <<>>
    BY <1>3, <1>7, <2>1
  <2>3. <<GoneKind, y>> \in mapped <=> y \in jReceivers
    BY <2>2 DEF Inv, AllSettled, Settled, Owned
  <2> QED BY <1>3, <2>2, <2>3
<1>12. LoopsOK'
  BY <1>1, <1>7 DEF Inv, LoopsOK
<1>13. TracksOutlive'
  BY <1>1, OutliveStays DEF Inv
<1>14. MapsOK' /\ CountsOK' /\ FlagsOK'
  BY <1>1 DEF Inv, MapsOK, CountsOK, FlagsOK
<1> QED BY <1>3, <1>8, <1>9, <1>10, <1>11, <1>12, <1>13, <1>14 DEF Inv

(* The loop takes the first event: one that settles is the last that is    *)
(* owed, and after one about a transceiver there is another.               *)
LEMMA ReceiveStep ==
  ASSUME Inv, NEW p \in Pcs, NEW what, Receive(p, what)
  PROVE  /\ p \in pcLoop /\ JingleOK' /\ EventsOK' /\ MapsOK' /\ OwnersKept
         /\ what # Members => /\ what \in Transceivers /\ owner[what] = p
                              /\ events'[p] # <<>>
         /\ \A q \in Pcs \ {p} : events'[q] = events[q]
         /\ UNCHANGED <<unified, owner, jSenders, jReceivers, sending, closed, tracks,
                        externals, uncovered, dropped, pcLoop>>
<1> DEFINE E == Transceivers \cup {Members}
           es == events[p]
<1>1. /\ es # <<>> /\ what = Head(es) /\ events' = [events EXCEPT ![p] = Tail(es)]
      /\ UNCHANGED <<unified, owner, jSenders, jReceivers, sending, closed, tracks,
                     externals, uncovered, dropped, pcLoop>>
  BY DEF Receive
<1>2. events \in [Pcs -> Seq(E)] /\ es \in Seq(E) /\ Announces(p, es)
  BY DEF Inv, EventsOK
<1>3. p \in pcLoop
  BY <1>1 DEF Inv, LoopsOK
<1>4. JingleOK' /\ MapsOK' /\ OwnersKept
  BY <1>1 DEF Inv, JingleOK, MapsOK, OwnersKept
<1> HIDE DEF E, es
<1>5. /\ Tail(es) \in Seq(E) /\ Len(es) \in Nat \ {0} /\ Len(Tail(es)) = Len(es) - 1
      /\ \A i \in 1..Len(Tail(es)) : Tail(es)[i] = es[i + 1]
      /\ Head(es) = es[1]
  <2>1. Len(es) \in Nat \ {0}
    BY <1>1, <1>2, EmptySeq, LenProperties
  <2> QED BY <1>1, <1>2, <2>1, HeadTailProperties
<1>6. /\ \A i \in 1..Len(Tail(es)) : Tail(es)[i] # Members => owner'[Tail(es)[i]] = p
      /\ Tail(es) # <<>> => Tail(es)[Len(Tail(es))] = Members
  <2>1. \A i \in 1..Len(es) : es[i] # Members => owner[es[i]] = p
    BY <1>2 DEF Announces
  <2>2. es[Len(es)] = Members
    BY <1>1, <1>2 DEF Announces
  <2>3. ASSUME NEW i \in 1..Len(Tail(es)), Tail(es)[i] # Members
        PROVE  owner'[Tail(es)[i]] = p
    <3>1. i + 1 \in 1..Len(es) /\ Tail(es)[i] = es[i + 1]
      BY <1>5
    <3> QED BY <1>1, <2>1, <2>3, <3>1
  <2>4. ASSUME Tail(es) # <<>> PROVE Tail(es)[Len(Tail(es))] = Members
    <3>1. Len(Tail(es)) # 0
      BY <1>5, <2>4, EmptySeq
    <3>2. Len(Tail(es)) \in 1..Len(Tail(es)) /\ Len(Tail(es)) + 1 = Len(es)
      BY <1>5, <3>1
    <3> QED BY <1>5, <2>2, <3>2
  <2> QED BY <2>3, <2>4
<1>7. /\ events' \in [Pcs -> Seq(E)] /\ events'[p] = Tail(es)
      /\ \A q \in Pcs \ {p} : events'[q] = events[q]
  BY <1>1, <1>2, <1>5
<1>8. EventsOK'
  <2>1. ASSUME NEW q \in Pcs \ {p} PROVE Announces(q, events[q])'
    BY <1>1, <1>7 DEF Inv, EventsOK, Announces
  <2>2. Announces(p, events[p])'
    BY <1>6, <1>7 DEF Announces
  <2> QED BY <1>7, <2>1, <2>2 DEF EventsOK, E
<1>9. ASSUME what # Members
      PROVE  what \in Transceivers /\ owner[what] = p /\ events'[p] # <<>>
  <2>1. what = es[1] /\ 1 \in 1..Len(es)
    BY <1>1, <1>5
  <2>2. what \in E /\ owner[what] = p
    BY <1>2, <1>9, <2>1 DEF Announces
  <2>3. es[Len(es)] = Members
    BY <1>1, <1>2 DEF Announces
  <2>4. Len(es) # 1
    BY <1>9, <2>1, <2>3
  <2>5. Tail(es) # <<>>
    <3>1. Len(Tail(es)) # 0
      BY <1>5, <2>4
    <3>2. Len(<<>>) = 0
      OBVIOUS
    <3> QED BY <3>1, <3>2
  <2> QED BY <1>7, <1>9, <2>2, <2>5 DEF E
<1> QED BY <1>1, <1>3, <1>4, <1>7, <1>8, <1>9

(* A peer connection that is closed does nothing with it, or crashes.      *)
LEMMA IgnoreStep ==
  ASSUME Inv, NEW p \in closed, NEW what, Receive(p, what), crashed' \in BOOLEAN,
         UNCHANGED <<mirrorVars, trackRefs, loop, exists>>
  PROVE  Inv'
<1> USE DEF mirrorVars
<1>0. p \in Pcs
  BY DEF Inv, LoopsOK
<1>1. /\ p \in pcLoop /\ JingleOK' /\ EventsOK' /\ MapsOK'
      /\ \A q \in Pcs \ {p} : events'[q] = events[q]
      /\ UNCHANGED <<unified, owner, jSenders, jReceivers, sending, closed, tracks,
                     externals, uncovered, dropped, pcLoop>>
  BY <1>0, ReceiveStep
<1>2. WrappersOK'
  BY <1>1 DEF Inv, WrappersOK, PointersValid
<1>3. ClosedEmpty'
  BY <1>1 DEF Inv, ClosedEmpty, Released
<1>4. AllSettled'
  BY <1>1 DEF Inv, AllSettled, Settled, Owned, GoneKind
<1>5. LoopsOK'
  BY <1>1 DEF Inv, LoopsOK
<1>6. TracksOutlive'
  BY <1>1, OutliveStays DEF Inv
<1>7. CountsOK' /\ FlagsOK'
  BY <1>1 DEF Inv, CountsOK, FlagsOK
<1> QED BY <1>1, <1>2, <1>3, <1>4, <1>5, <1>6, <1>7 DEF Inv

(* OnTrack and OnAddTrack settle nothing: another event is to come.        *)
LEMMA OnTrackSettles ==
  ASSUME Inv, NEW p \in Pcs, NEW x \in Transceivers, owner[x] = p, events'[p] # <<>>,
         \A q \in Pcs \ {p} : events'[q] = events[q],
         UNCHANGED <<unified, owner, jReceivers, closed>>,
         NEW ms, \A m \in ms : m[2] = x, mapped' = mapped \cup ms
  PROVE  AllSettled'
<1> SUFFICES ASSUME NEW q \in Pcs \ closed, events'[q] = <<>>,
                    NEW y \in Transceivers, owner[y] = q
             PROVE  <<GoneKind, y>> \in mapped' <=> y \in jReceivers
  BY DEF AllSettled, Settled, Owned, GoneKind
<1>1. q # p /\ events[q] = <<>> /\ y # x
  OBVIOUS
<1>2. <<GoneKind, y>> \notin ms
  BY <1>1
<1> QED BY <1>1, <1>2 DEF Inv, AllSettled, Settled, Owned

(* OnTrack, and OnAddTrack which goes on after Close.                      *)
LEMMA OnTrackStep ==
  ASSUME Inv, NEW p \in Pcs, NEW x \in Transceivers, OnTrack(p, x)
  PROVE  Inv'
<1>1. Receive(p, x) /\ x # Members
  BY NoneAssumption DEF OnTrack, NoneAssumption
<1>2. /\ p \in pcLoop /\ JingleOK' /\ EventsOK' /\ MapsOK' /\ OwnersKept
      /\ owner[x] = p /\ events'[p] # <<>>
      /\ \A q \in Pcs \ {p} : events'[q] = events[q]
      /\ UNCHANGED <<unified, owner, jSenders, jReceivers, sending, closed, tracks,
                     externals, uncovered, dropped, pcLoop>>
  BY <1>1, ReceiveStep
<1>3. trackRefs \in [AllTracks -> Nat]
      /\ \A u \in Tracks \ uncovered' :
           trackRefs[u] >= (IF loop[u] = "ended" THEN 1 ELSE 2) + Cardinality(Takers(u)')
  BY <1>2, CoveredStays DEF Inv, CountsOK
<1>4. CASE p \notin closed
  <2> DEFINE kind == "receiver"
             ms == IF unified THEN Whole({x}) ELSE Of(kind, {x})
  <2>1. CreateOrUpdate({}, ms, trackRefs) /\ mapped' = mapped \cup ms /\ UNCHANGED crashed
    BY <1>4 DEF OnTrack, CreateOrUpdate
  <2>2. kind \in {"sender", "receiver"}
        /\ ms = IF unified THEN Whole({x}) ELSE Of(kind, {x})
    OBVIOUS
  <2> HIDE DEF kind, ms
  <2>3. ms \in SUBSET Mirrors /\ Complete(ms) /\ \A m \in ms : m[2] = x
    BY <2>2, WrapsTransceiver
  <2>4. AllSettled'
    BY <1>2, <2>1, <2>3, OnTrackSettles
  <2>5. \A q \in closed : /\ tracks'[q] = tracks[q] /\ externals'[q] = externals[q]
                          /\ events'[q] = events[q]
    BY <1>2, <1>4 DEF Inv, LoopsOK
  <2> QED BY <1>2, <1>3, <1>4, <2>1, <2>3, <2>4, <2>5, Created
<1>5. CASE p \in closed /\ ~unified /\ UNCHANGED crashed
           /\ CreateOrUpdate({}, Of("receiver", {x}), trackRefs)
  <2> DEFINE kind == "receiver"
             ms == Of(kind, {x})
             gone == {}
  <2>1. CreateOrUpdate(gone, ms, trackRefs)
    BY <1>5
  <2>2. kind \in {"sender", "receiver"} /\ {x} \in SUBSET Transceivers
    OBVIOUS
  <2> HIDE DEF kind
  <2>3. /\ ms \in SUBSET Mirrors /\ Complete(ms)
        /\ \A m \in ms : m[1] = kind /\ m[2] \in {x}
    BY <2>2, PartComplete
  <2>3a. gone \in SUBSET mapped /\ gone \cap ms = {} /\ mapped \ gone = mapped
    OBVIOUS
  <2> HIDE DEF ms, gone
  <2>4. \A m \in ms : m[2] = x /\ owner'[m[2]] = p
    BY <1>2, <2>3
  <2>5. /\ WrappersOK' /\ CountsOK' /\ asserted' \in BOOLEAN
        /\ mapped' = mapped \cup ms
        /\ \A t \in Tracks : trackRefs'[t] = trackRefs[t] /\ loop'[t] = loop[t]
    BY <1>2, <1>3, <2>1, <2>3, <2>3a, <2>4, CreateOrUpdateStep DEF OwnersKept, JingleOK, MapsOK
  <2>6. AllSettled'
    BY <1>2, <2>4, <2>5, OnTrackSettles
  <2>7. ClosedEmpty'
    BY <1>2, <1>5, <2>3, <2>5 DEF Inv, ClosedEmpty, Released, kind
  <2>8. LoopsOK'
    BY <1>2 DEF Inv, LoopsOK
  <2>9. TracksOutlive'
    BY <1>2, <2>5, OutliveStays DEF Inv
  <2>10. FlagsOK'
    BY <1>2, <1>5, <2>5 DEF Inv, FlagsOK
  <2> QED BY <1>2, <2>5, <2>6, <2>7, <2>8, <2>9, <2>10 DEF Inv
<1>6. CASE p \in closed /\ crashed' = ~unified
           /\ UNCHANGED <<mirrorVars, trackRefs, loop, exists>>
  <2>1. crashed' \in BOOLEAN
    BY <1>6
  <2> QED BY <1>1, <1>6, <2>1, IgnoreStep
<1> QED BY <1>4, <1>5, <1>6 DEF OnTrack

(* processStateChanges lets go of what libwebrtc no longer has, and wraps  *)
(* what it has: then the peer connection has settled.                      *)
LEMMA OnSetDescriptionCompleteStep ==
  ASSUME Inv, NEW p \in Pcs, OnSetDescriptionComplete(p)
  PROVE  Inv'
<1>1. Receive(p, Members) /\ UNCHANGED crashed
  BY DEF OnSetDescriptionComplete
<1>2. /\ p \in pcLoop /\ JingleOK' /\ EventsOK' /\ MapsOK' /\ OwnersKept
      /\ \A q \in Pcs \ {p} : events'[q] = events[q]
      /\ UNCHANGED <<unified, owner, jSenders, jReceivers, sending, closed, tracks,
                     externals, uncovered, dropped, pcLoop>>
  BY <1>1, ReceiveStep
<1>3. CASE p \in closed
  <2>1. UNCHANGED <<mirrorVars, trackRefs, loop, exists>>
    BY <1>3 DEF OnSetDescriptionComplete
  <2>2. crashed' \in BOOLEAN
    BY <1>1 DEF Inv, FlagsOK
  <2> QED BY <1>1, <1>3, <2>1, <2>2, IgnoreStep
<1>4. CASE p \notin closed
  <2> DEFINE X == Owned(p) \cap jReceivers
             kind == "receiver"
             ms == IF unified THEN Whole(X) ELSE Of(kind, X)
             gone == Gone(p)
  <2>1. CreateOrUpdate(gone, ms, trackRefs) /\ mapped' = (mapped \ gone) \cup ms
    BY <1>4 DEF OnSetDescriptionComplete, ProcessStateChanges, CreateOrUpdate
  <2>2. X \in SUBSET Transceivers /\ kind = "receiver"
        /\ \A y \in Transceivers : y \in X <=> owner[y] = p /\ y \in jReceivers
    BY DEF Owned
  <2>3. /\ gone \in SUBSET mapped
        /\ \A m \in mapped : m \in gone <=> /\ m[1] = GoneKind /\ owner[m[2]] = p
                                            /\ m[2] \notin jReceivers
    BY DEF Gone, MappedOf
  <2> HIDE DEF X, gone, kind
  <2>4. /\ ms \in SUBSET Mirrors /\ Complete(ms) /\ \A m \in ms : m[2] \in X
        /\ \A x \in X : <<GoneKind, x>> \in ms
    <3>1. CASE unified
      BY <2>2, <3>1, WholeComplete DEF GoneKind, Kinds
    <3>2. CASE ~unified
      BY <2>2, <3>2, PartComplete DEF GoneKind
    <3> QED BY <3>1, <3>2
  <2> HIDE DEF ms
  <2>5. gone \cap ms = {} /\ \A m \in ms : owner'[m[2]] = p
    BY <1>2, <2>2, <2>3, <2>4
  <2>6. AllSettled'
    <3> SUFFICES ASSUME NEW q \in Pcs \ closed, events'[q] = <<>>,
                        NEW y \in Transceivers, owner[y] = q
                 PROVE  <<GoneKind, y>> \in mapped' <=> y \in jReceivers
      BY <1>2 DEF AllSettled, Settled, Owned, GoneKind
    <3> DEFINE m == <<GoneKind, y>>
    <3>1. m[1] = GoneKind /\ m[2] = y
      OBVIOUS
    <3>2. CASE q = p
      <4>1. CASE y \in jReceivers
        BY <2>1, <2>2, <2>4, <3>2, <4>1
      <4>2. CASE y \notin jReceivers
        <5>1. m \notin ms
          BY <2>2, <2>4, <3>1, <4>2
        <5>2. m \in mapped => m \in gone
          BY <2>3, <3>1, <3>2, <4>2
        <5> QED BY <2>1, <4>2, <5>1, <5>2
      <4> QED BY <4>1, <4>2
    <3>3. CASE q # p
      <4>1. m \notin ms /\ m \notin gone
        BY <2>2, <2>3, <2>4, <3>1, <3>3
      <4>2. m \in mapped <=> y \in jReceivers
        BY <1>2, <3>3 DEF Inv, AllSettled, Settled, Owned
      <4> QED BY <2>1, <4>1, <4>2
    <3> QED BY <3>2, <3>3
  <2>7. \A q \in closed : /\ tracks'[q] = tracks[q] /\ externals'[q] = externals[q]
                          /\ events'[q] = events[q]
    BY <1>2, <1>4 DEF Inv, LoopsOK
  <2>8. trackRefs \in [AllTracks -> Nat]
        /\ \A u \in Tracks \ uncovered' :
             trackRefs[u] >= (IF loop[u] = "ended" THEN 1 ELSE 2) + Cardinality(Takers(u)')
    BY <1>2, CoveredStays DEF Inv, CountsOK
  <2> QED BY <1>1, <1>2, <1>4, <2>1, <2>3, <2>4, <2>5, <2>6, <2>7, <2>8, Created
<1> QED BY <1>3, <1>4

----------------------------------------------------------------------------
(* The end                                                                 *)

(* What Close leaves alone, and the wrappers it lets go of.                *)
LEMMA ClosedMembers ==
  ASSUME Inv, NEW p \in Pcs, NEW gone \in SUBSET MappedOf(p),
         closed' = closed \cup {p}, mapped' = mapped \ gone,
         mirrorRefs' = [m \in Mirrors |->
                          IF m \in gone THEN mirrorRefs[m] - 1 ELSE mirrorRefs[m]],
         UNCHANGED <<jingleVars, senderTrack, linked, asserted, lifeVars, crashed>>
  PROVE  JingleOK' /\ EventsOK' /\ WrappersOK' /\ LoopsOK' /\ FlagsOK' /\ AllSettled'
<1> USE DEF jingleVars, lifeVars
<1>1. gone \subseteq mapped /\ \A m \in gone : owner[m[2]] = p
  BY DEF MappedOf
<1>2. JingleOK' /\ LoopsOK' /\ FlagsOK'
  BY DEF Inv, JingleOK, LoopsOK, FlagsOK
<1>3. EventsOK'
  BY EventsStay DEF OwnersKept
<1>4. WrappersOK'
  <2>1. mirrorRefs' = [m \in Mirrors |-> IF m \in mapped' THEN 1 ELSE 0]
    <3>1. ASSUME NEW m \in Mirrors
          PROVE  (IF m \in gone THEN mirrorRefs[m] - 1 ELSE mirrorRefs[m])
                   = IF m \in mapped' THEN 1 ELSE 0
      <4>1. mirrorRefs[m] = IF m \in mapped THEN 1 ELSE 0
        BY DEF Inv, WrappersOK
      <4> QED BY <1>1, <4>1
    <3> QED BY <3>1
  <2> QED BY <2>1 DEF Inv, WrappersOK, PointersValid
<1>5. AllSettled'
  <2> SUFFICES ASSUME NEW q \in Pcs \ closed', events[q] = <<>>,
                      NEW y \in Transceivers, owner[y] = q
               PROVE  <<GoneKind, y>> \in mapped' <=> y \in jReceivers
    BY DEF AllSettled, Settled, Owned, GoneKind
  <2>1. q # p /\ q \notin closed
    OBVIOUS
  <2>2. <<GoneKind, y>> \notin gone
    BY <1>1, <2>1
  <2> QED BY <2>1, <2>2 DEF Inv, AllSettled, Settled, Owned
<1> QED BY <1>2, <1>3, <1>4, <1>5

(* The three ways Close goes: a count of its own tracks has run out, one   *)
(* of the others has, or none, and then everything is let go of.           *)
LEMMA CloseStep ==
  ASSUME Inv, NEW p \in Pcs, Close(p)
  PROVE  Inv'
<1> DEFINE own == tracks[p]
           ext == externals[p]
           left(t) == IF t \in own THEN trackRefs[t] - 1 ELSE trackRefs[t]
           ownFails == \E t \in own : trackRefs[t] = 0
           extFails == \E t \in ext : left(t) = 0
<1>1. /\ closed' = closed \cup {p}
      /\ loop' = [t \in AllTracks |->
           IF p \notin closed /\ unified /\ t \in own /\ loop[t] = "open"
           THEN "stopped" ELSE loop[t]]
      /\ UNCHANGED <<jingleVars, senderTrack, linked, asserted, lifeVars, crashed>>
      /\ UNCHANGED <<owner, unified>>
  BY DEF Close, jingleVars
<1>2. /\ own \subseteq Tracks /\ own \subseteq uncovered /\ ext \subseteq Tracks
      /\ uncovered \subseteq Tracks
      /\ tracks \in [Pcs -> SUBSET Tracks] /\ externals \in [Pcs -> SUBSET Tracks]
      /\ \A q \in Pcs : tracks[q] \subseteq uncovered
  BY DEF Inv, MapsOK
<1>3. trackRefs \in [AllTracks -> Nat] /\ Tracks \subseteq AllTracks
  BY DEF Inv, CountsOK, AllTracks
<1>4. /\ loop' \in [AllTracks -> {"none", "open", "stopped", "ended"}]
      /\ \A t \in Tracks \ uncovered : loop'[t] = loop[t]
  <2>1. loop \in [AllTracks -> {"none", "open", "stopped", "ended"}]
    BY DEF Inv, CountsOK
  <2> HIDE DEF own
  <2> QED BY <1>1, <1>2, <1>3, <2>1
<1>5. \A m \in mapped : owner[m[2]] \in Pcs
  BY PcsAssumption DEF Inv, WrappersOK, PcsAssumption
<1>6. CASE /\ ownFails
           /\ \E done \in SUBSET {t \in own : trackRefs[t] > 0} :
                trackRefs' = Dereferenced(done)
           /\ UNCHANGED <<tracks, externals, uncovered, mapped, mirrorRefs>>
  <2>1. JingleOK' /\ EventsOK' /\ WrappersOK' /\ LoopsOK' /\ FlagsOK' /\ AllSettled'
    <3> DEFINE gone == {}
    <3>1. gone \in SUBSET MappedOf(p) /\ mapped' = mapped \ gone
          /\ mirrorRefs' = [m \in Mirrors |->
                              IF m \in gone THEN mirrorRefs[m] - 1 ELSE mirrorRefs[m]]
      BY <1>6 DEF Inv, WrappersOK
    <3> HIDE DEF gone
    <3> QED BY <1>1, <3>1, ClosedMembers
  <2>2. /\ trackRefs' \in [AllTracks -> Nat]
        /\ \A t \in Tracks \ uncovered : trackRefs'[t] = trackRefs[t]
    <3>1. PICK done \in SUBSET {t \in own : trackRefs[t] > 0} :
            trackRefs' = Dereferenced(done)
      BY <1>6
    <3>2. \A t \in done : trackRefs[t] > 0 /\ t \in own
      OBVIOUS
    <3> HIDE DEF own
    <3> QED BY <1>2, <1>3, <3>1, <3>2 DEF Dereferenced
  <2>3. TracksOutlive'
    BY <1>4, <1>6, <2>2, OutliveStays DEF Inv
  <2>4. ClosedEmpty'
    <3>1. tracks'[p] # {}
      BY <1>6
    <3> QED BY <1>1, <1>5, <1>6, <3>1 DEF Inv, ClosedEmpty, Released
  <2>5. MapsOK' /\ CountsOK'
    BY <1>4, <1>6, <2>2 DEF Inv, MapsOK, CountsOK
  <2> QED BY <2>1, <2>3, <2>4, <2>5 DEF Inv
<1>7. CASE /\ ~ownFails /\ extFails
           /\ tracks' = [tracks EXCEPT ![p] = {}]
           /\ \E done \in SUBSET {t \in ext : left(t) > 0} :
                trackRefs' = [t \in AllTracks |-> IF t \in done THEN left(t) - 1 ELSE left(t)]
           /\ uncovered' = uncovered \cup ext
           /\ UNCHANGED <<externals, mapped, mirrorRefs>>
  <2>1. JingleOK' /\ EventsOK' /\ WrappersOK' /\ LoopsOK' /\ FlagsOK' /\ AllSettled'
    <3> DEFINE gone == {}
    <3>1. gone \in SUBSET MappedOf(p) /\ mapped' = mapped \ gone
          /\ mirrorRefs' = [m \in Mirrors |->
                              IF m \in gone THEN mirrorRefs[m] - 1 ELSE mirrorRefs[m]]
      BY <1>7 DEF Inv, WrappersOK
    <3> HIDE DEF gone
    <3> QED BY <1>1, <3>1, ClosedMembers
  <2>2. \A t \in AllTracks : left(t) \in Nat /\ (t \notin own => left(t) = trackRefs[t])
    <3>1. \A t \in own : trackRefs[t] # 0
      BY <1>7
    <3> HIDE DEF own
    <3> QED BY <1>3, <3>1
  <2>3. /\ trackRefs' \in [AllTracks -> Nat]
        /\ \A t \in Tracks \ uncovered' : trackRefs'[t] = trackRefs[t]
    <3>1. PICK done \in SUBSET {t \in ext : left(t) > 0} :
            trackRefs' = [t \in AllTracks |-> IF t \in done THEN left(t) - 1 ELSE left(t)]
      BY <1>7
    <3>2. \A t \in done : left(t) > 0 /\ t \in ext
      OBVIOUS
    <3>3. uncovered' = uncovered \cup ext
      BY <1>7
    <3> HIDE DEF own, ext, left
    <3>4. \A t \in AllTracks : trackRefs'[t] \in Nat
      BY <2>2, <3>1, <3>2
    <3>5. \A t \in Tracks \ uncovered' : trackRefs'[t] = trackRefs[t]
      BY <1>2, <1>3, <2>2, <3>1, <3>2, <3>3
    <3> QED BY <3>1, <3>4, <3>5
  <2>4. TracksOutlive'
    BY <1>4, <1>7, <2>3, OutliveStays DEF Inv
  <2>5. /\ tracks' \in [Pcs -> SUBSET Tracks] /\ \A q \in Pcs : tracks'[q] \subseteq tracks[q]
        /\ \A q \in Pcs \ {p} : tracks'[q] = tracks[q]
    BY <1>2, <1>7
  <2>6. ClosedEmpty'
    <3>1. externals'[p] # {}
      BY <1>7
    <3> QED BY <1>1, <1>5, <1>7, <2>5, <3>1 DEF Inv, ClosedEmpty, Released
  <2>7. MapsOK'
    BY <1>2, <1>7, <2>5 DEF MapsOK
  <2>8. CountsOK'
    BY <1>4, <2>3 DEF CountsOK
  <2> QED BY <2>1, <2>4, <2>6, <2>7, <2>8 DEF Inv
<1>8. CASE /\ ~ownFails /\ ~extFails
           /\ tracks' = [tracks EXCEPT ![p] = {}]
           /\ externals' = [externals EXCEPT ![p] = {}]
           /\ trackRefs' = [t \in AllTracks |-> IF t \in ext THEN left(t) - 1 ELSE left(t)]
           /\ CloseMirrors(p)
           /\ UNCHANGED uncovered
  <2>1. JingleOK' /\ EventsOK' /\ WrappersOK' /\ LoopsOK' /\ FlagsOK' /\ AllSettled'
    <3> DEFINE gone == MappedOf(p)
    <3>1. gone \in SUBSET MappedOf(p) /\ mapped' = mapped \ gone
          /\ mirrorRefs' = [m \in Mirrors |->
                              IF m \in gone THEN mirrorRefs[m] - 1 ELSE mirrorRefs[m]]
      BY <1>8 DEF CloseMirrors
    <3> HIDE DEF gone
    <3> QED BY <1>1, <3>1, ClosedMembers
  <2>2. \A t \in AllTracks : left(t) \in Nat /\ (t \notin own => left(t) = trackRefs[t])
    <3>1. \A t \in own : trackRefs[t] # 0
      BY <1>8
    <3> HIDE DEF own
    <3> QED BY <1>3, <3>1
  <2>3. \A t \in ext : left(t) # 0
    BY <1>8
  <2>4. /\ trackRefs' \in [AllTracks -> Nat]
        /\ \A t \in Tracks \ uncovered : trackRefs'[t] = trackRefs[t] - One(t \in ext)
    <3>1. trackRefs' = [t \in AllTracks |-> IF t \in ext THEN left(t) - 1 ELSE left(t)]
      BY <1>8
    <3> HIDE DEF own, ext, left
    <3>2. \A t \in AllTracks : trackRefs'[t] \in Nat
      BY <2>2, <2>3, <3>1
    <3>3. \A t \in Tracks \ uncovered : trackRefs'[t] = trackRefs[t] - One(t \in ext)
      BY <1>2, <1>3, <2>2, <3>1 DEF One
    <3> QED BY <3>1, <3>2, <3>3
  <2>5. /\ tracks' \in [Pcs -> SUBSET Tracks] /\ \A q \in Pcs : tracks'[q] \subseteq tracks[q]
        /\ \A q \in Pcs \ {p} : tracks'[q] = tracks[q]
        /\ externals' \in [Pcs -> SUBSET Tracks] /\ externals'[p] = {}
        /\ \A q \in Pcs \ {p} : externals'[q] = externals[q]
    BY <1>2, <1>8
  <2>6. TracksOutlive'
    <3> SUFFICES ASSUME NEW t \in Tracks \ uncovered
                 PROVE  trackRefs'[t] >= (IF loop'[t] = "ended" THEN 1 ELSE 2)
                                           + Cardinality(Takers(t)')
      BY <1>8 DEF TracksOutlive, Takers
    <3> DEFINE base == IF loop[t] = "ended" THEN 1 ELSE 2
               before == Cardinality(Takers(t))
               after == Cardinality(Takers(t)')
               more == One(t \in externals'[p])
               less == One(t \in externals[p])
    <3>1. trackRefs[t] >= base + before /\ trackRefs[t] \in Nat /\ base \in Nat
      BY <1>3 DEF Inv, TracksOutlive, Takers
    <3>2. before \in Nat /\ after \in Nat /\ after = before + more - less
      BY <2>5, TakersChange
    <3>3. more = 0 /\ less \in 0..1
      BY <2>5 DEF One
    <3>4. trackRefs'[t] = trackRefs[t] - less
      BY <2>4
    <3>5. base = IF loop'[t] = "ended" THEN 1 ELSE 2
      BY <1>4
    <3> HIDE DEF base, before, after, more, less
    <3>6. trackRefs'[t] >= base + after
      BY <3>1, <3>2, <3>3, <3>4
    <3> QED BY <3>5, <3>6 DEF after
  <2>7. ClosedEmpty'
    <3>1. \A m \in mapped' : m \in mapped /\ owner[m[2]] # p
      BY <1>8 DEF CloseMirrors, MappedOf
    <3> QED BY <1>1, <1>5, <2>5, <3>1 DEF Inv, ClosedEmpty, Released
  <2>8. MapsOK'
    BY <1>2, <1>8, <2>5 DEF MapsOK
  <2>9. CountsOK'
    BY <1>4, <2>4 DEF CountsOK
  <2> QED BY <2>1, <2>6, <2>7, <2>8, <2>9 DEF Inv
<1>9. CloseReferences(p)
  BY DEF Close
<1> QED BY <1>6, <1>7, <1>8, <1>9 DEF CloseReferences

(* A track is stopped.                                                     *)
LEMMA StopTrackStep ==
  ASSUME Inv, NEW t \in AllTracks, StopTrack(t)
  PROVE  Inv'
<1> USE DEF jingleVars, mirrorVars, lifeVars
<1>1. /\ loop[t] = "open" /\ loop' = [loop EXCEPT ![t] = "stopped"]
      /\ UNCHANGED <<unified, owner, jSenders, jReceivers, sending, events, closed, mapped,
                     mirrorRefs, senderTrack, linked, asserted, tracks, externals, trackRefs,
                     uncovered, dropped, exists, pcLoop, crashed>>
  BY DEF StopTrack
<1>2. JingleOK' /\ EventsOK' /\ WrappersOK' /\ LoopsOK' /\ AllSettled' /\ ClosedEmpty'
  BY <1>1, SameMembers DEF Inv, JingleOK, WrappersOK
<1>3. CountsOK' /\ FlagsOK' /\ MapsOK'
  BY <1>1 DEF Inv, CountsOK, FlagsOK, MapsOK
<1>4. \A u \in Tracks : loop'[u] = "ended" <=> loop[u] = "ended"
  BY <1>1 DEF Inv, CountsOK, AllTracks
<1>5. TracksOutlive'
  <2> SUFFICES ASSUME NEW u \in Tracks \ uncovered
               PROVE  trackRefs[u] >= (IF loop'[u] = "ended" THEN 1 ELSE 2)
                                        + Cardinality(Takers(u))
    BY <1>1 DEF TracksOutlive, Takers
  <2> QED BY <1>4 DEF Inv, TracksOutlive, Takers
<1> QED BY <1>2, <1>3, <1>5 DEF Inv

(* The loop of a track ends, with the reference it has held.               *)
LEMMA TrackDidStopStep ==
  ASSUME Inv, NEW t \in AllTracks, TrackDidStop(t)
  PROVE  Inv'
<1> USE DEF jingleVars, mirrorVars, lifeVars
<1>1. /\ loop[t] = "stopped" /\ loop' = [loop EXCEPT ![t] = "ended"]
      /\ \/ trackRefs[t] > 0 /\ trackRefs' = Dereferenced({t}) /\ UNCHANGED crashed
         \/ trackRefs[t] = 0 /\ crashed' = TRUE /\ UNCHANGED trackRefs
      /\ UNCHANGED <<unified, owner, jSenders, jReceivers, sending, events, closed, mapped,
                     mirrorRefs, senderTrack, linked, asserted, tracks, externals, uncovered,
                     dropped, exists, pcLoop>>
  BY DEF TrackDidStop
<1>2. JingleOK' /\ EventsOK' /\ WrappersOK' /\ LoopsOK' /\ AllSettled' /\ ClosedEmpty'
  BY <1>1, SameMembers DEF Inv, JingleOK, WrappersOK
<1>3. trackRefs \in [AllTracks -> Nat]
      /\ loop \in [AllTracks -> {"none", "open", "stopped", "ended"}]
  BY DEF Inv, CountsOK
<1>4. trackRefs' = [u \in AllTracks |->
                      IF u = t /\ trackRefs[t] > 0 THEN trackRefs[u] - 1 ELSE trackRefs[u]]
  <2>1. CASE trackRefs[t] > 0 /\ trackRefs' = Dereferenced({t})
    BY <2>1 DEF Dereferenced
  <2>2. CASE trackRefs[t] = 0 /\ UNCHANGED trackRefs
    BY <1>3, <2>2
  <2> QED BY <1>1, <2>1, <2>2
<1>5. CountsOK'
  <2>1. trackRefs' \in [AllTracks -> Nat]
    BY <1>3, <1>4
  <2> QED BY <1>1, <1>3, <2>1 DEF CountsOK
<1>6. FlagsOK' /\ MapsOK'
  BY <1>1 DEF Inv, FlagsOK, MapsOK
<1>7. TracksOutlive'
  <2> SUFFICES ASSUME NEW u \in Tracks \ uncovered
               PROVE  trackRefs'[u] >= (IF loop'[u] = "ended" THEN 1 ELSE 2)
                                         + Cardinality(Takers(u))
    BY <1>1 DEF TracksOutlive, Takers
  <2> DEFINE n == Cardinality(Takers(u))
  <2>1. n \in Nat /\ u \in AllTracks
    BY TakersCount DEF AllTracks
  <2>2. trackRefs[u] >= (IF loop[u] = "ended" THEN 1 ELSE 2) + n
    BY DEF Inv, TracksOutlive, Takers
  <2> HIDE DEF n
  <2> SUFFICES trackRefs'[u] >= (IF loop'[u] = "ended" THEN 1 ELSE 2) + n
    BY DEF n
  <2>3. CASE u = t
    BY <1>1, <1>3, <1>4, <2>1, <2>2, <2>3
  <2>4. CASE u # t
    BY <1>1, <1>3, <1>4, <2>1, <2>2, <2>4
  <2> QED BY <2>3, <2>4
<1> QED BY <1>2, <1>5, <1>6, <1>7 DEF Inv

(* The loop of a peer connection ends: what waits is forgotten.            *)
LEMMA PcDidStopStep ==
  ASSUME Inv, NEW p \in Pcs, PcDidStop(p)
  PROVE  Inv'
<1> USE DEF mirrorVars, trackVars
<1>1. /\ p \in closed /\ pcLoop' = pcLoop \ {p} /\ events' = [events EXCEPT ![p] = <<>>]
      /\ UNCHANGED <<unified, owner, jSenders, jReceivers, sending, closed, mapped,
                     mirrorRefs, senderTrack, linked, asserted, tracks, externals, trackRefs,
                     uncovered, loop, dropped, exists, crashed>>
  BY DEF PcDidStop
<1>2. /\ events' \in [Pcs -> Seq(Transceivers \cup {Members})] /\ events'[p] = <<>>
      /\ \A q \in Pcs \ {p} : events'[q] = events[q]
  BY <1>1 DEF Inv, EventsOK
<1>3. EventsOK'
  <2>1. ASSUME NEW q \in Pcs \ {p} PROVE Announces(q, events[q])'
    BY <1>1, <1>2 DEF Inv, EventsOK, Announces
  <2>2. Announces(p, events[p])'
    BY <1>2 DEF Announces
  <2> QED BY <1>2, <2>1, <2>2 DEF EventsOK
<1>4. JingleOK' /\ MapsOK' /\ CountsOK' /\ FlagsOK'
  BY <1>1 DEF Inv, JingleOK, MapsOK, CountsOK, FlagsOK
<1>5. WrappersOK'
  BY <1>1 DEF Inv, WrappersOK, PointersValid
<1>6. LoopsOK'
  BY <1>1, <1>2 DEF Inv, LoopsOK
<1>7. ClosedEmpty'
  BY <1>1 DEF Inv, ClosedEmpty, Released
<1>8. AllSettled'
  BY <1>1, <1>2 DEF Inv, AllSettled, Settled, Owned, GoneKind
<1>9. TracksOutlive'
  BY <1>1, OutliveStays DEF Inv
<1> QED BY <1>3, <1>4, <1>5, <1>6, <1>7, <1>8, <1>9 DEF Inv

(* What is collected is in no map, and no live wrapper points to it.       *)
LEMMA CollectStep ==
  ASSUME Inv, NEW o \in Pcs \cup Mirrors, Collect(o)
  PROVE  Inv'
<1> USE DEF jingleVars, mirrorVars, trackVars
<1>1. /\ o \in exists /\ ~Kept(o) /\ exists' = exists \ {o}
      /\ UNCHANGED <<unified, owner, jSenders, jReceivers, sending, events, closed, mapped,
                     mirrorRefs, senderTrack, linked, asserted, tracks, externals, trackRefs,
                     uncovered, loop, dropped, pcLoop, crashed>>
  BY DEF Collect
<1>2. JingleOK' /\ MapsOK' /\ CountsOK' /\ FlagsOK' /\ LoopsOK'
  BY <1>1 DEF Inv, JingleOK, MapsOK, CountsOK, FlagsOK, LoopsOK
<1>3. EventsOK'
  BY <1>1, EventsStay DEF OwnersKept
<1>4. WrappersOK'
  <2>1. o \notin mapped
    <3> SUFFICES ASSUME o \in mapped PROVE FALSE
      OBVIOUS
    <3>1. o \in Mirrors /\ mirrorRefs[o] = 1
      BY DEF Inv, WrappersOK
    <3> QED BY <1>1, <3>1 DEF Kept
  <2>2. o \notin pcLoop /\ \A m \in exists \ Pcs : o \notin HeldBy(m)
    BY <1>1 DEF Kept
  <2>3. ASSUME NEW m \in exists' \ Pcs
        PROVE  /\ owner[m[2]] \in exists'
               /\ m[1] = "transceiver"
                    => {<<"sender", m[2]>>, <<"receiver", m[2]>>} \subseteq exists'
    <3>1. m \in exists \ Pcs
      BY <1>1
    <3>2. /\ owner[m[2]] \in exists
          /\ m[1] = "transceiver"
               => {<<"sender", m[2]>>, <<"receiver", m[2]>>} \subseteq exists
      BY <3>1 DEF Inv, WrappersOK, PointersValid
    <3>3. owner[m[2]] # o
      BY <2>2, <3>1 DEF HeldBy
    <3>4. m[1] = "transceiver" => <<"sender", m[2]>> # o /\ <<"receiver", m[2]>> # o
      BY <2>2, <3>1 DEF HeldBy
    <3> QED BY <1>1, <3>2, <3>3, <3>4
  <2>4. PointersValid'
    BY <1>1, <2>3 DEF PointersValid
  <2> QED BY <1>1, <2>1, <2>2, <2>4 DEF Inv, WrappersOK
<1>5. ClosedEmpty'
  BY <1>1 DEF Inv, ClosedEmpty, Released
<1>6. AllSettled'
  BY <1>1 DEF Inv, AllSettled, Settled, Owned, GoneKind
<1>7. TracksOutlive'
  BY <1>1, OutliveStays DEF Inv
<1> QED BY <1>2, <1>3, <1>4, <1>5, <1>6, <1>7 DEF Inv

----------------------------------------------------------------------------

(* At first there are peer connections and the program's tracks.           *)
LEMMA InitInv == Init => Inv
<1> SUFFICES ASSUME Init PROVE Inv
  OBVIOUS
<1> USE DEF Init
<1>1. JingleOK /\ MapsOK /\ LoopsOK /\ FlagsOK
  BY DEF JingleOK, MapsOK, LoopsOK, FlagsOK
<1>2. EventsOK
  BY DEF EventsOK, Announces
<1>3. CountsOK
  BY DEF CountsOK
<1>4. WrappersOK
  BY DEF WrappersOK, PointersValid
<1>5. ClosedEmpty /\ AllSettled
  BY DEF ClosedEmpty, AllSettled, Settled, Owned
<1>6. TracksOutlive
  <2> SUFFICES ASSUME NEW t \in Tracks
               PROVE  trackRefs[t] >= (IF loop[t] = "ended" THEN 1 ELSE 2)
                                        + Cardinality(Takers(t))
    BY DEF TracksOutlive, Takers
  <2>1. Cardinality(Takers(t)) = 0
    <3>1. Takers(t) = {}
      BY DEF Takers
    <3> QED BY <3>1, FS_EmptySet
  <2>2. trackRefs[t] = 2 /\ loop[t] = "open"
    BY DEF AllTracks
  <2> QED BY <2>1, <2>2
<1> QED BY <1>1, <1>2, <1>3, <1>4, <1>5, <1>6 DEF Inv

(* Every step of the program, of libwebrtc and of V8.                      *)
LEMMA NextInv == Inv /\ [Next]_vars => Inv'
<1> SUFFICES ASSUME Inv, [Next]_vars PROVE Inv'
  OBVIOUS
<1>1. ASSUME NEW p \in Pcs, NEW t \in Tracks, AddTrack(p, t) PROVE Inv'
  BY <1>1, AddTrackStep
<1>2. ASSUME NEW p \in Pcs, NEW t \in Tracks \cup {None}, AddTransceiver(p, t) PROVE Inv'
  BY <1>2, AddTransceiverStep
<1>3. ASSUME NEW x \in Transceivers, RemoveTrack(x) PROVE Inv'
  BY <1>3, RemoveTrackStep
<1>4. ASSUME NEW x \in Transceivers, NEW t \in Tracks \cup {None}, ReplaceTrack(x, t)
      PROVE  Inv'
  BY <1>4, ReplaceTrackStep
<1>5. ASSUME NEW m \in Mirrors, UseMember(m) PROVE Inv'
  <2>1. crashed' \in BOOLEAN
    BY <1>5 DEF UseMember
  <2>2. dropped' \in BOOLEAN
    BY <1>5 DEF UseMember, lifeVars, Inv, FlagsOK
  <2> QED BY <1>5, <2>1, <2>2, UseStep DEF UseMember, lifeVars
<1>6. ASSUME NEW p \in Pcs, NEW kind \in Kinds, GetMembers(p, kind) PROVE Inv'
  BY <1>6, GetMembersStep
<1>7. ASSUME NEW p \in Pcs, ApplyDescription(p) PROVE Inv'
  BY <1>7, ApplyDescriptionStep
<1>8. ASSUME NEW p \in Pcs, NEW x \in Transceivers, OnTrack(p, x) PROVE Inv'
  BY <1>8, OnTrackStep
<1>9. ASSUME NEW p \in Pcs, OnSetDescriptionComplete(p) PROVE Inv'
  BY <1>9, OnSetDescriptionCompleteStep
<1>10. ASSUME NEW p \in Pcs, Close(p) PROVE Inv'
  BY <1>10, CloseStep
<1>11. ASSUME NEW t \in AllTracks, StopTrack(t) \/ TrackDidStop(t) PROVE Inv'
  BY <1>11, StopTrackStep, TrackDidStopStep
<1>12. ASSUME NEW p \in Pcs, PcDidStop(p) PROVE Inv'
  BY <1>12, PcDidStopStep
<1>13. CASE Drop
  BY <1>13, UseStep DEF Drop, Inv, FlagsOK
<1>14. ASSUME NEW o \in Pcs \cup Mirrors, Collect(o) PROVE Inv'
  BY <1>14, CollectStep
<1>15. CASE UNCHANGED vars
  BY <1>15, UseStep DEF vars, lifeVars, Inv, FlagsOK
<1>16. CASE Next
  BY <1>1, <1>2, <1>3, <1>4, <1>5, <1>6, <1>7, <1>8, <1>9, <1>10, <1>11, <1>12, <1>13,
     <1>14, <1>16 DEF Next
<1> QED BY <1>15, <1>16

(* The invariant, of every behaviour.                                      *)
LEMMA AlwaysInv == Spec => []Inv
<1>1. Init => Inv
  BY InitInv
<1>2. Inv /\ [Next]_vars => Inv'
  BY NextInv
<1> QED BY <1>1, <1>2, PTL DEF Spec

----------------------------------------------------------------------------

(* One wrapper for one member                                              *)

(* The wrappers gone leave the maps and those of ms get there; no member   *)
(* that had a wrapper comes back to libwebrtc.                             *)
LEMMA SameMemberKept ==
  ASSUME SameMember, NEW gone, NEW ms,
         mapped' = (mapped \ gone) \cup ms, exists' \subseteq exists \cup ms,
         \A m \in exists \ Pcs : Current(m)' => Current(m) /\ m \notin gone
  PROVE  SameMember'
<1> SUFFICES ASSUME NEW m \in exists' \ Pcs, Current(m)' PROVE m \in mapped'
  BY DEF SameMember
<1>1. CASE m \in ms
  BY <1>1
<1>2. CASE m \in exists
  BY <1>2 DEF SameMember
<1> QED BY <1>1, <1>2

(* A wrapper has an owner, so a transceiver that has none has no wrapper.  *)
LEMMA WrappersOwned ==
  ASSUME Inv, NEW m \in exists \ Pcs
  PROVE  m \in Mirrors /\ m[2] \in Transceivers /\ owner[m[2]] \in Pcs /\ owner[m[2]] # None
  BY NoneAssumption DEF NoneAssumption, Inv, WrappersOK, Mirrors

(* What libwebrtc does to a transceiver x: it is born, or it stays, or it  *)
(* goes.  Then no wrapper but those of x sees a change.                    *)
Born(x, p) ==
  /\ owner[x] = None
  /\ owner' = [owner EXCEPT ![x] = p]
  /\ jSenders' \subseteq jSenders \cup {x} /\ jReceivers' \subseteq jReceivers \cup {x}
LEMMA BornCurrent ==
  ASSUME Inv, NEW x \in Transceivers, NEW p \in Pcs, Born(x, p), closed' = closed,
         NEW m \in exists \ Pcs, Current(m)'
  PROVE  Current(m)
<1>1. m[2] \in Transceivers /\ m[2] # x
  BY WrappersOwned DEF Born
<1>2. owner \in [Transceivers -> Pcs \cup {None}]
  BY DEF Inv, JingleOK
<1>3. owner'[m[2]] = owner[m[2]]
  BY <1>1, <1>2 DEF Born
<1> QED BY <1>1, <1>3 DEF Current, Underlying, Born

LEMMA SomeoneElse ==
  ASSUME owner' = owner, closed \subseteq closed', jSenders' \subseteq jSenders,
         jReceivers' \subseteq jReceivers, NEW m, Current(m)'
  PROVE  Current(m)
  BY DEF Current, Underlying

(* Each action keeps it.                                                   *)
LEMMA SameMemberStep == Inv /\ SameMember /\ [Next]_vars => SameMember'
<1> SUFFICES ASSUME Inv, SameMember, [Next]_vars PROVE SameMember'
  OBVIOUS
<1> USE DEF jingleVars, mirrorVars, trackVars, lifeVars
<1>0. ASSUME UNCHANGED <<owner, jSenders, jReceivers, closed, mapped>>,
             exists' \subseteq exists
      PROVE  SameMember'
  BY <1>0 DEF SameMember, Current, Underlying
<1>1. ASSUME NEW p \in Pcs, NEW x \in Transceivers, NEW t, NEW ms, NEW refs,
             Fresh(p, x, t) \/ Reuse(p, x, t), closed' = closed,
             CreateOrUpdate({}, ms, refs)
      PROVE  SameMember'
  <2>1. mapped' = (mapped \ {}) \cup ms /\ exists' = exists \cup ms
    BY <1>1 DEF CreateOrUpdate
  <2>2. ASSUME NEW m \in exists \ Pcs, Current(m)' PROVE Current(m)
    <3>1. CASE Fresh(p, x, t)
      <4>1. Born(x, p)
        BY <3>1 DEF Fresh, Born
      <4> QED BY <1>1, <2>2, <4>1, BornCurrent
    <3>2. CASE Reuse(p, x, t)
      BY <1>1, <2>2, <3>2, SomeoneElse DEF Reuse
    <3> QED BY <1>1, <3>1, <3>2
  <2> QED BY <2>1, <2>2, SameMemberKept
<1>2. ASSUME NEW p \in Pcs, NEW t \in Tracks, AddTrack(p, t) PROVE SameMember'
  <2>1. CASE \E x \in jSenders : owner[x] = p /\ sending[x] = t
    BY <1>0, <1>2, <2>1 DEF AddTrack
  <2>2. CASE ~ \E x \in jSenders : owner[x] = p /\ sending[x] = t
    BY <1>1, <1>2, <2>2 DEF AddTrack
  <2> QED BY <2>1, <2>2
<1>3. ASSUME NEW p \in Pcs, NEW t \in Tracks \cup {None}, AddTransceiver(p, t)
      PROVE  SameMember'
  <2>1. CASE \E x \in Transceivers :
               Fresh(p, x, t) /\ CreateOrUpdate({}, Whole({x}), trackRefs)
    BY <1>1, <1>3, <2>1 DEF AddTransceiver
  <2>2. CASE UNCHANGED <<owner, jSenders, jReceivers, sending, mirrorVars, trackRefs, loop, exists>>
    BY <1>0, <1>3, <2>2 DEF AddTransceiver
  <2> QED BY <1>3, <2>1, <2>2 DEF AddTransceiver
<1>4. ASSUME NEW x \in Transceivers, RemoveTrack(x) PROVE SameMember'
  <2>1. ASSUME NEW m, Current(m)' PROVE Current(m)
    BY <1>4, <2>1, SomeoneElse DEF RemoveTrack
  <2>2. CASE unified /\ x \in linked
    <3>1. mapped' = (mapped \ {}) \cup Whole({x}) /\ exists' = exists \cup Whole({x})
      BY <1>4, <2>2 DEF RemoveTrack, CreateOrUpdate
    <3> QED BY <2>1, <3>1, SameMemberKept
  <2>3. CASE unified /\ x \notin linked
    BY <1>0, <1>4, <2>3 DEF RemoveTrack
  <2>4. CASE ~unified
    <3>1. /\ mapped' = (mapped \ {<<"sender", x>>}) \cup {} /\ exists' \subseteq exists \cup {}
          /\ jSenders' = jSenders \ {x}
      BY <1>4, <2>4 DEF RemoveTrack
    <3>2. ~Current(<<"sender", x>>)'
      BY <3>1 DEF Current, Underlying
    <3> QED BY <2>1, <3>1, <3>2, SameMemberKept
  <2>5. unified \in BOOLEAN
    BY DEF Inv, JingleOK
  <2> QED BY <2>2, <2>3, <2>4, <2>5
<1>5. ASSUME NEW p \in Pcs, NEW kind \in Kinds, GetMembers(p, kind) PROVE SameMember'
  <2>1. PICK ms : mapped' = (mapped \ {}) \cup ms /\ exists' = exists \cup ms
    BY <1>5 DEF GetMembers, CreateOrUpdate
  <2>2. ASSUME NEW m, Current(m)' PROVE Current(m)
    BY <1>5, <2>2, SomeoneElse DEF GetMembers
  <2> QED BY <2>1, <2>2, SameMemberKept
<1>6. ASSUME NEW p \in Pcs, ApplyDescription(p) PROVE SameMember'
  <2>1. /\ mapped' = (mapped \ {}) \cup {} /\ exists' \subseteq exists \cup {}
        /\ closed' = closed
    BY <1>6 DEF ApplyDescription
  <2>2. ASSUME NEW m \in exists \ Pcs, Current(m)' PROVE Current(m)
    <3>1. ASSUME NEW x \in Transceivers, DescriptionAdds(p, x) PROVE Current(m)
      <4>1. Born(x, p)
        BY <3>1 DEF DescriptionAdds, Born
      <4> QED BY <2>1, <2>2, <4>1, BornCurrent
    <3>2. ASSUME NEW x \in Transceivers, DescriptionRemoves(p, x) PROVE Current(m)
      BY <2>1, <2>2, <3>2, SomeoneElse DEF DescriptionRemoves
    <3> QED BY <1>6, <3>1, <3>2 DEF ApplyDescription
  <2> QED BY <2>1, <2>2, SameMemberKept
<1>7. ASSUME NEW p \in Pcs, NEW what, Receive(p, what)
      PROVE  \A m : Current(m)' => Current(m)
  BY <1>7, SomeoneElse DEF Receive
<1>8. ASSUME NEW p \in Pcs, NEW x \in Transceivers, OnTrack(p, x) PROVE SameMember'
  <2>1. Receive(p, x)
    BY <1>8 DEF OnTrack
  <2>2. PICK ms : mapped' = (mapped \ {}) \cup ms /\ exists' = exists \cup ms
    <3>1. CASE \E ms, refs : CreateOrUpdate({}, ms, refs)
      BY <3>1 DEF CreateOrUpdate
    <3>2. CASE UNCHANGED <<mapped, exists>>
      <4>1. mapped' = (mapped \ {}) \cup {} /\ exists' = exists \cup {}
        BY <3>2
      <4> QED BY <4>1
    <3> QED BY <1>8, <3>1, <3>2 DEF OnTrack
  <2> QED BY <1>7, <2>1, <2>2, SameMemberKept
<1>9. ASSUME NEW p \in Pcs, OnSetDescriptionComplete(p) PROVE SameMember'
  <2>1. Receive(p, Members)
    BY <1>9 DEF OnSetDescriptionComplete
  <2>2. CASE p \in closed
    BY <1>0, <1>9, <2>1, <2>2 DEF OnSetDescriptionComplete, Receive
  <2>3. CASE p \notin closed
    <3>1. PICK ms : /\ mapped' = (mapped \ Gone(p)) \cup ms
                    /\ exists' = exists \cup ms
      BY <1>9, <2>3 DEF OnSetDescriptionComplete, ProcessStateChanges, CreateOrUpdate
    <3>2. ASSUME NEW m \in Gone(p) PROVE ~Current(m)'
      <4>1. m[1] = GoneKind /\ m[2] \notin jReceivers
        BY DEF Gone
      <4>2. m[2] \notin jReceivers' /\ (unified => m[2] \notin jSenders')
        BY <2>1, <4>1 DEF Receive, Inv, JingleOK
      <4> QED BY <4>1, <4>2 DEF GoneKind, Current, Underlying
    <3> QED BY <1>7, <2>1, <3>1, <3>2, SameMemberKept
  <2> QED BY <2>2, <2>3
<1>10. ASSUME NEW p \in Pcs, Close(p) PROVE SameMember'
  <2>1. /\ closed' = closed \cup {p} /\ UNCHANGED <<owner, jSenders, jReceivers, exists>>
        /\ mapped' = mapped \/ mapped' = mapped \ MappedOf(p)
    BY <1>10 DEF Close, CloseReferences, CloseMirrors
  <2>2. ASSUME NEW m, Current(m)' PROVE Current(m) /\ m \notin MappedOf(p)
    <3>1. Current(m)
      BY <2>1, <2>2, SomeoneElse
    <3>2. owner[m[2]] # p
      BY <2>1, <2>2 DEF Current
    <3> QED BY <3>1, <3>2 DEF MappedOf
  <2>3. CASE mapped' = mapped
    BY <2>1, <2>2, <2>3 DEF SameMember
  <2>4. CASE mapped' = mapped \ MappedOf(p)
    <3>1. mapped' = (mapped \ MappedOf(p)) \cup {} /\ exists' \subseteq exists \cup {}
      BY <2>1, <2>4
    <3> QED BY <2>2, <3>1, SameMemberKept
  <2> QED BY <2>1, <2>3, <2>4
<1>11. ASSUME \/ \E x \in Transceivers, t \in Tracks \cup {None} : ReplaceTrack(x, t)
              \/ \E m \in Mirrors : UseMember(m)
              \/ \E t \in AllTracks : StopTrack(t) \/ TrackDidStop(t)
              \/ \E p \in Pcs : PcDidStop(p)
              \/ Drop
              \/ \E o \in Pcs \cup Mirrors : Collect(o)
              \/ UNCHANGED vars
       PROVE  SameMember'
  <2>1. UNCHANGED <<owner, jSenders, jReceivers, closed, mapped>> /\ exists' \subseteq exists
    BY <1>11 DEF ReplaceTrack, UseMember, StopTrack, TrackDidStop, PcDidStop, Drop, Collect,
                 vars
  <2> QED BY <1>0, <2>1
<1> QED BY <1>2, <1>3, <1>4, <1>5, <1>6, <1>8, <1>9, <1>10, <1>11 DEF Next

(* At first no member has a wrapper.                                       *)
LEMMA AlwaysSame == Spec => [](Inv /\ SameMember)
<1>1. Init => Inv /\ SameMember
  BY InitInv DEF Init, SameMember
<1>2. Inv /\ SameMember /\ [Next]_vars => Inv' /\ SameMember'
  BY NextInv, SameMemberStep
<1> QED BY <1>1, <1>2, PTL DEF Spec

----------------------------------------------------------------------------

(* The types; no transceiver, sender or receiver that points to a wrapper  *)
(* or a peer connection that has been collected (rtc_rtp_transceiver.cc,   *)
(* rtc_rtp_sender.cc, rtc_rtp_receiver.cc); and one wrapper for one member *)
(* of an open peer connection (rtc_peer_connection.cc).                    *)
THEOREM MembersCorrect == Spec => []MembersInv
  BY AlwaysSame, InvMembers, PTL

(* A wrapper has one reference while it is in a map of its peer connection *)
(* and none afterwards; a Close that has run to its end leaves nothing     *)
(* there, and what comes later puts nothing back, except that OnAddTrack   *)
(* of plan B may put a receiver there (rtc_peer_connection.cc).            *)
THEOREM MirrorsAreBalanced == Spec => []MirrorsBalanced
  BY AlwaysInv, InvBalanced, PTL

(* When no event waits, the maps of an open peer connection have what      *)
(* libwebrtc has (processStateChangesUnifiedPlan, -PlanB).                 *)
THEOREM MirrorsSettle == Spec => []MirrorsSettled
  BY AlwaysInv, InvSettled, PTL

(* A track outlives its loop, its creator and each peer connection that    *)
(* took it from addTrack, whatever the order in which they stop, close and *)
(* let go of it.                                                           *)
THEOREM TracksAreOutlived == Spec => []TracksOutlive
<1>1. Inv => TracksOutlive
  BY DEF Inv
<1> QED BY <1>1, AlwaysInv, PTL
=============================================================================
