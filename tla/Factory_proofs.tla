--------------------------- MODULE Factory_proofs ---------------------------
(***************************************************************************)
(* For any number of peer connections, streams, sources, tracks and        *)
(* factories: the count is what is owed and what has been forgotten, the   *)
(* JavaScript references of the factory are those of the addresses kept of *)
(* it, there is one factory, and JavaScript's thread alone lets go of it.  *)
(***************************************************************************)
EXTENDS Factory, FiniteSetTheorems, TLAPS

(***************************************************************************)
(* The inductive invariant.  What carries it is that the two Init          *)
(* functions forget a reference each before anything else can run: from    *)
(* then on no Release is the last, and the first factory stays.            *)
(***************************************************************************)
CountInv ==
  /\ lost >= loaded
  /\ default = Null <=> references = 0
  /\ \A f \in Factories : lostRefs[f] # 0 => f = default

(* What is new owes nothing and keeps nothing, and nothing is made before  *)
(* the module is loaded.                                                   *)
HolderInv ==
  /\ \A p \in Pcs : IF pc[p].state = "new" THEN pc[p].factory = Null ELSE loaded = 2
  /\ \A s \in Streams :
       /\ IF stream[s].state = "new" THEN stream[s].factory = Null /\ ~stream[s].release
                                     ELSE loaded = 2
       /\ stream[s].state = "half" => stream[s].factory # Null /\ stream[s].release
  /\ \A v \in Sources : source[v] # "new" => loaded = 2

(* The call under way is for a stream in this state.                       *)
For(state, kinds) ==
  /\ call.holder \in Streams
  /\ stream[call.holder].state = state
  /\ call.kind \in kinds

(* Which call is under way, and what it is about.                          *)
CallInv ==
  /\ call.op = "receiver" => loaded = 0
  /\ call.op = "sender" => loaded = 1
  /\ call.op \notin {"none", "receiver", "sender"} => loaded = 2
  /\ call.op = "pc" => call.holder \in Pcs /\ pc[call.holder].state = "new"
  /\ call.op \in {"video", "media"} => For("new", {"kept"})
  /\ call.op = "source" /\ call.holder # Null => For("new", {"kept"})
  /\ call.op \in {"stream", "member"} => For("new", Kinds)
  /\ call.op \in {"second", "impl"} => For("half", {"own"})
  /\ call.kind \in {"given", "kept"} /\ call.op # "media" => call.given # Null

CountsInv == ReleasesCovered /\ AddressesHeld /\ CountInv

Inv == FactoryInv /\ CountsInv /\ HolderInv /\ CallInv

----------------------------------------------------------------------------
(* Counting                                                                *)

One(b) == IF b THEN 1 ELSE 0

(* Two parts of a finite set that differ in one element at most.           *)
LEMMA Counted ==
  ASSUME NEW S, IsFiniteSet(S), NEW A \in SUBSET S, NEW B \in SUBSET S, NEW x \in S,
         \A y \in S \ {x} : y \in A <=> y \in B
  PROVE  /\ Cardinality(A) \in Nat /\ Cardinality(B) \in Nat
         /\ Cardinality(B) = Cardinality(A) + One(x \in B) - One(x \in A)
<1> DEFINE C == A \ {x}
<1>1. IsFiniteSet(A) /\ IsFiniteSet(B)
  BY FS_Subset
<1>2. Cardinality(A) \in Nat /\ Cardinality(B) \in Nat
  BY <1>1, FS_CardinalityType
<1>3. C = B \ {x}
  OBVIOUS
<1>4. /\ Cardinality(C) = IF x \in A THEN Cardinality(A) - 1 ELSE Cardinality(A)
      /\ Cardinality(C) = IF x \in B THEN Cardinality(B) - 1 ELSE Cardinality(B)
  BY <1>1, <1>3, FS_RemoveElement
<1> QED BY <1>2, <1>4 DEF One

(* The parts of Holders and Users are finite.                              *)
LEMMA Finite ==
  /\ IsFiniteSet(Holders) /\ IsFiniteSet(Streams) /\ IsFiniteSet(Users)
  BY HoldersAssumption, FS_Subset DEF HoldersAssumption, Holders

(* Who owes a Release.                                                     *)
LEMMA OwingIs ==
  /\ Owing \in SUBSET Holders
  /\ \A p \in Pcs : p \in Owing <=> pc[p].factory # Null
  /\ \A s \in Streams : s \in Owing <=> stream[s].release
  /\ \A v \in Sources : v \in Owing <=> source[v] = "live"
  BY HoldersAssumption DEF HoldersAssumption, Owing, Holders

(* One that owes more or less than before.                                 *)
LEMMA OwingChanges ==
  ASSUME NEW x \in Holders,
         \A p \in Pcs \ {x} : pc'[p].factory = pc[p].factory,
         \A s \in Streams \ {x} : stream'[s].release = stream[s].release,
         \A v \in Sources \ {x} : source'[v] = "live" <=> source[v] = "live"
  PROVE  /\ Cardinality(Owing) \in Nat /\ Cardinality(Owing') \in Nat
         /\ Cardinality(Owing') = Cardinality(Owing) + One(x \in Owing') - One(x \in Owing)
<1>1. Owing' \in SUBSET Holders
  BY DEF Owing, Holders
<1>2. ASSUME NEW y \in Holders \ {x} PROVE y \in Owing <=> y \in Owing'
  BY <1>2 DEF Owing
<1>3. \A y \in Holders \ {x} : y \in Owing <=> y \in Owing'
  BY <1>2
<1> QED BY <1>1, <1>3, Finite, OwingIs, Counted

(* A stream that keeps another address, or none.                           *)
LEMMA StreamsKeep ==
  ASSUME NEW s \in Streams, \A t \in Streams \ {s} : stream'[t] = stream[t],
         NEW f \in Factories
  PROVE  /\ Cardinality({t \in Streams : stream[t].factory = f}) \in Nat
         /\ Cardinality({t \in Streams : stream'[t].factory = f}) \in Nat
         /\ Cardinality({t \in Streams : stream'[t].factory = f})
              = Cardinality({t \in Streams : stream[t].factory = f})
                + One(stream'[s].factory = f) - One(stream[s].factory = f)
<1> DEFINE A == {t \in Streams : stream[t].factory = f}
           B == {t \in Streams : stream'[t].factory = f}
<1>1. A \in SUBSET Streams /\ B \in SUBSET Streams
  OBVIOUS
<1>3. \A t \in Streams \ {s} : t \in A <=> t \in B
  OBVIOUS
<1>4. (s \in A <=> stream[s].factory = f) /\ (s \in B <=> stream'[s].factory = f)
  OBVIOUS
<1> HIDE DEF A, B
<1>5. /\ Cardinality(A) \in Nat /\ Cardinality(B) \in Nat
      /\ Cardinality(B) = Cardinality(A) + One(s \in B) - One(s \in A)
  BY <1>1, <1>3, Finite, Counted
<1>6. One(s \in B) = One(stream'[s].factory = f) /\ One(s \in A) = One(stream[s].factory = f)
  BY <1>4 DEF One
<1> QED BY <1>5, <1>6 DEF A, B

(* The same of a track, channel or transport.                              *)
LEMMA UsersKeep ==
  ASSUME NEW u \in Users, \A t \in Users \ {u} : user'[t] = user[t], NEW f \in Factories
  PROVE  /\ Cardinality({t \in Users : user[t] = f}) \in Nat
         /\ Cardinality({t \in Users : user'[t] = f}) \in Nat
         /\ Cardinality({t \in Users : user'[t] = f})
              = Cardinality({t \in Users : user[t] = f}) + One(user'[u] = f) - One(user[u] = f)
<1> DEFINE A == {t \in Users : user[t] = f}
           B == {t \in Users : user'[t] = f}
<1>1. A \in SUBSET Users /\ B \in SUBSET Users
  OBVIOUS
<1>3. \A t \in Users \ {u} : t \in A <=> t \in B
  OBVIOUS
<1>4. (u \in A <=> user[u] = f) /\ (u \in B <=> user'[u] = f)
  OBVIOUS
<1> HIDE DEF A, B
<1>5. /\ Cardinality(A) \in Nat /\ Cardinality(B) \in Nat
      /\ Cardinality(B) = Cardinality(A) + One(u \in B) - One(u \in A)
  BY <1>1, <1>3, Finite, Counted
<1>6. One(u \in B) = One(user'[u] = f) /\ One(u \in A) = One(user[u] = f)
  BY <1>4 DEF One
<1> QED BY <1>5, <1>6 DEF A, B

(* All the sizes are numbers.                                              *)
LEMMA Sizes ==
  /\ Cardinality(Owing) \in Nat
  /\ \A f \in Factories :
       /\ Cardinality({s \in Streams : stream[s].factory = f}) \in Nat
       /\ Cardinality({u \in Users : user[u] = f}) \in Nat
       /\ Cardinality({s \in Streams : stream'[s].factory = f}) \in Nat
       /\ Cardinality({u \in Users : user'[u] = f}) \in Nat
<1>1. ASSUME NEW S, IsFiniteSet(S), NEW A \in SUBSET S PROVE Cardinality(A) \in Nat
  BY <1>1, FS_Subset, FS_CardinalityType
<1>2. Cardinality(Owing) \in Nat
  BY <1>1, Finite, OwingIs
<1>3. ASSUME NEW f \in Factories
      PROVE  /\ Cardinality({s \in Streams : stream[s].factory = f}) \in Nat
             /\ Cardinality({u \in Users : user[u] = f}) \in Nat
             /\ Cardinality({s \in Streams : stream'[s].factory = f}) \in Nat
             /\ Cardinality({u \in Users : user'[u] = f}) \in Nat
  <2>1. /\ {s \in Streams : stream[s].factory = f} \in SUBSET Streams
        /\ {u \in Users : user[u] = f} \in SUBSET Users
        /\ {s \in Streams : stream'[s].factory = f} \in SUBSET Streams
        /\ {u \in Users : user'[u] = f} \in SUBSET Users
    OBVIOUS
  <2> QED BY <1>1, <2>1, Finite
<1> QED BY <1>2, <1>3

(* Every address, one by one.                                              *)
Known ==
  /\ call.given \in {default, Null}
  /\ \A p \in Pcs : pc[p].factory \in {default, Null}
  /\ \A u \in Users : user[u] \in {default, Null}
  /\ \A s \in Streams : stream[s].factory \in {default, Null}

(* This is what OneFactory says of them.                                   *)
LEMMA AddressesKnown ==
  /\ Addresses \subseteq {default, Null} <=> Known
  /\ Addresses' \subseteq {default', Null} <=> Known'
<1>1. Addresses \subseteq {default, Null} <=> Known
  BY DEF Addresses, Held, Known
<1>2. Addresses' \subseteq {default', Null} <=> Known'
  BY DEF Addresses, Held, Known
<1> QED BY <1>1, <1>2

(* The types, but for refs.                                                *)
OtherTypes ==
  /\ references \in Nat /\ lost \in Nat
  /\ default \in Factories \cup {Null}
  /\ past \subseteq Factories
  /\ DOMAIN refs = Factories /\ refs = [f \in Factories |-> refs[f]]
  /\ lostRefs \in [Factories -> Nat]
  /\ loaded \in 0..2
  /\ call \in [op : Ops, kind : Kinds, holder : Holders \cup {Null},
               given : Factories \cup {Null}]
  /\ pc \in [Pcs -> [state : PcStates, factory : Factories \cup {Null}]]
  /\ stream \in [Streams -> [state : StreamStates, factory : Factories \cup {Null},
                            release : BOOLEAN]]
  /\ source \in [Sources -> SourceStates]
  /\ user \in [Users -> Factories \cup {Null}]

(* Every step is shown to keep these; what is counted is a number then.    *)
LEMMA Together ==
  ASSUME OtherTypes', foreign' = FALSE, Known', call'.op \in Takers => default' # Null,
         ReleasesCovered', AddressesHeld', CountInv', HolderInv', CallInv'
  PROVE  Inv'
<1>1. refs' \in [Factories -> Nat]
  <2>1. ASSUME NEW f \in Factories PROVE refs'[f] \in Nat
    <3>1. lostRefs'[f] \in Nat
      BY DEF OtherTypes
    <3>2. (IF f = default' THEN 1 ELSE 0) \in Nat
      OBVIOUS
    <3> DEFINE ss == Cardinality({s \in Streams : stream'[s].factory = f})
               us == Cardinality({u \in Users : user'[u] = f})
    <3>3. ss \in Nat /\ us \in Nat
      BY Sizes
    <3>4. refs'[f] = (IF f = default' THEN 1 ELSE 0) + lostRefs'[f] + ss + us
      BY DEF AddressesHeld
    <3> HIDE DEF ss, us
    <3> QED BY <3>1, <3>2, <3>3, <3>4
  <2> QED BY <2>1 DEF OtherTypes
<1>2. TypeOK'
  BY <1>1 DEF TypeOK, OtherTypes
<1> QED BY <1>2, AddressesKnown DEF Inv, FactoryInv, OneFactory, NeverForeign, CountsInv

(* What the invariant says, in the same form.                              *)
LEMMA Apart ==
  ASSUME Inv
  PROVE  /\ TypeOK /\ OtherTypes /\ foreign = FALSE /\ Known
         /\ call.op \in Takers => default # Null
         /\ ReleasesCovered /\ AddressesHeld /\ CountInv /\ HolderInv /\ CallInv
<1> USE DEF Inv, FactoryInv, CountsInv
<1>1. TypeOK /\ OtherTypes
  BY DEF TypeOK, OtherTypes
<1>2. Known /\ foreign = FALSE /\ (call.op \in Takers => default # Null)
  BY AddressesKnown DEF OneFactory, NeverForeign, TypeOK
<1> QED BY <1>1, <1>2

(* The addresses stay where they are.                                      *)
LEMMA AddressesStay ==
  ASSUME AddressesHeld, \A f \in Factories : refs'[f] = refs[f],
         UNCHANGED <<default, lostRefs, user>>,
         \A s \in Streams : stream'[s].factory = stream[s].factory
  PROVE  AddressesHeld'
<1> SUFFICES ASSUME NEW f \in Factories
             PROVE  refs'[f] = (IF f = default' THEN 1 ELSE 0) + lostRefs'[f]
                                + Cardinality({s \in Streams : stream'[s].factory = f})
                                + Cardinality({u \in Users : user'[u] = f})
  BY DEF AddressesHeld
<1>1. {s \in Streams : stream'[s].factory = f} = {s \in Streams : stream[s].factory = f}
  OBVIOUS
<1>2. {u \in Users : user'[u] = f} = {u \in Users : user[u] = f}
  OBVIOUS
<1> QED BY <1>1, <1>2 DEF AddressesHeld

(* Those who owe stay the same.                                            *)
LEMMA OwingStays ==
  ASSUME \A p \in Pcs : pc'[p].factory = pc[p].factory,
         \A s \in Streams : stream'[s].release = stream[s].release,
         \A v \in Sources : source'[v] = "live" <=> source[v] = "live"
  PROVE  Cardinality(Owing') = Cardinality(Owing)
<1>1. Owing' = Owing
  BY DEF Owing
<1> QED BY <1>1

----------------------------------------------------------------------------
(* GetOrCreateDefault and Release                                          *)

(* The first half of GetOrCreateDefault: the first one of all finds that   *)
(* nothing has been forgotten and nobody keeps an address.                 *)
LEMMA TakeStep ==
  ASSUME Inv, NEW next, Take(next), call.op \notin Takers, next.op \in Takers,
         next.given \in {call.given, Null}, UNCHANGED <<loaded, pc, stream, user>>,
         \A v \in Sources : source'[v] = "live" <=> source[v] = "live",
         source' \in [Sources -> SourceStates],
         next \in [op : Ops, kind : Kinds, holder : Holders \cup {Null},
                   given : Factories \cup {Null}],
         HolderInv', CallInv'
  PROVE  Inv'
<1> USE Apart
<1>1. /\ references' = references + 1 /\ call' = next /\ UNCHANGED <<lost, lostRefs>>
      /\ foreign' = FALSE
  BY DEF Take, lostVars
<1>2. Cardinality(Owing') = Cardinality(Owing)
  BY OwingStays
<1>3. ReleasesCovered'
  BY <1>1, <1>2, Sizes DEF ReleasesCovered, OtherTypes
<1>4. CASE references = 0
  <2>1. PICK f \in Factories \ past : default' = f /\ past' = past \cup {f}
                                      /\ refs' = [refs EXCEPT ![f] = 1]
    BY <1>4 DEF Take
  <2>2. default = Null /\ f # Null
    BY <1>4, <2>1, HoldersAssumption DEF CountInv, HoldersAssumption
  <2>3. ASSUME NEW g \in Factories
        PROVE  /\ {s \in Streams : stream'[s].factory = g} = {}
               /\ {u \in Users : user'[u] = g} = {} /\ refs[g] = 0 /\ lostRefs[g] = 0
    <3>1. g # Null
      BY HoldersAssumption DEF HoldersAssumption
    <3>2. /\ {s \in Streams : stream'[s].factory = g} = {}
          /\ {u \in Users : user'[u] = g} = {}
      BY <2>2, <3>1 DEF Known
    <3>3. /\ {s \in Streams : stream[s].factory = g} = {}
          /\ {u \in Users : user[u] = g} = {}
      BY <2>2, <3>1 DEF Known
    <3>4. lostRefs[g] = 0
      BY <2>2, <3>1 DEF CountInv
    <3>5. refs[g] = (IF g = default THEN 1 ELSE 0) + lostRefs[g]
                      + Cardinality({}) + Cardinality({})
      BY <3>3 DEF AddressesHeld
    <3>6. refs[g] = 0
      BY <2>2, <3>1, <3>4, <3>5, FS_EmptySet
    <3> QED BY <3>2, <3>4, <3>6
  <2>4. AddressesHeld'
    <3> SUFFICES ASSUME NEW g \in Factories
                 PROVE  refs'[g] = (IF g = default' THEN 1 ELSE 0) + lostRefs'[g]
                                     + Cardinality({s \in Streams : stream'[s].factory = g})
                                     + Cardinality({u \in Users : user'[u] = g})
      BY DEF AddressesHeld
    <3>1. refs'[g] = IF g = f THEN 1 ELSE 0
      BY <2>1, <2>3 DEF OtherTypes
    <3>2. lostRefs'[g] = 0
      BY <1>1, <2>3
    <3>3. /\ Cardinality({s \in Streams : stream'[s].factory = g}) = 0
          /\ Cardinality({u \in Users : user'[u] = g}) = 0
      BY <2>3, FS_EmptySet
    <3> QED BY <2>1, <3>1, <3>2, <3>3
  <2>5. CountInv'
    BY <1>1, <2>1, <2>2, <2>3, <1>4 DEF CountInv, OtherTypes
  <2>6. Known' /\ default' # Null
    BY <1>1, <2>1, <2>2 DEF Known
  <2>7. OtherTypes'
    <3>1. DOMAIN refs' = Factories /\ refs' = [g \in Factories |-> refs'[g]]
      BY <2>1 DEF OtherTypes
    <3>2. default' \in Factories \cup {Null} /\ past' \subseteq Factories
          /\ references' \in Nat /\ lost' \in Nat
      BY <1>1, <2>1 DEF OtherTypes
    <3> QED BY <1>1, <3>1, <3>2 DEF OtherTypes
  <2> QED BY <1>1, <1>3, <2>4, <2>5, <2>6, <2>7, Together
<1>5. CASE references # 0
  <2>1. UNCHANGED <<default, past, refs>>
    BY <1>5 DEF Take
  <2>2. AddressesHeld'
    BY <1>1, <2>1, AddressesStay
  <2>3. default # Null /\ CountInv'
    BY <1>1, <1>5, <2>1 DEF CountInv, OtherTypes
  <2>4. Known'
    BY <1>1, <2>1 DEF Known
  <2>5. OtherTypes'
    BY <1>1, <2>1 DEF OtherTypes
  <2> QED BY <1>1, <1>3, <2>1, <2>2, <2>3, <2>4, <2>5, Together
<1> QED BY <1>4, <1>5

(* Once the module is loaded a Release that is owed is not the last one.   *)
LEMMA DropStep ==
  ASSUME Inv, NEW f, NEW n \in Nat, NEW release \in BOOLEAN, Drop(f, n, release),
         release => loaded = 2 /\ (call.op \in Takers \/ \E x \in Holders : x \in Owing)
  PROVE  /\ references' = references - One(release) /\ references' \in Nat
         /\ references' = 0 <=> references = 0
         /\ UNCHANGED <<default, past>>
         /\ \A g \in Factories : refs'[g] = refs[g] - (IF g = f THEN n ELSE 0)
         /\ DOMAIN refs' = Factories /\ refs' = [g \in Factories |-> refs'[g]]
<1> USE Apart
<1>1. release => references >= 3
  <2> SUFFICES ASSUME release PROVE references >= 3
    OBVIOUS
  <2>1. lost >= 2 /\ lost \in Nat /\ references \in Nat
    BY DEF CountInv, OtherTypes
  <2>2. CASE call.op \in Takers
    BY <2>1, <2>2, Sizes DEF ReleasesCovered
  <2>3. CASE \E x \in Holders : x \in Owing
    <3>1. IsFiniteSet(Owing) /\ Owing # {}
      BY <2>3, Finite, OwingIs, FS_Subset
    <3>2. Cardinality(Owing) >= 1
      BY <3>1, Sizes, FS_EmptySet
    <3> QED BY <2>1, <3>2, Sizes DEF ReleasesCovered
  <2> QED BY <2>2, <2>3
<1>2. references \in Nat /\ ~(release /\ references = 1)
  BY <1>1 DEF OtherTypes
<1>3. references' = IF release THEN references - 1 ELSE references
  BY DEF Drop
<1>4. UNCHANGED <<default, past>>
  BY <1>2 DEF Drop
<1>5. refs' = [g \in Factories |-> refs[g] - ((IF g = f THEN n ELSE 0) + 0)]
  <2>1. refs' = [g \in Factories |-> refs[g] - ((IF g = f THEN n ELSE 0)
                   + (IF (release /\ references = 1) /\ g = default THEN 1 ELSE 0))]
    BY DEF Drop
  <2>2. \A g \in Factories :
          (IF (release /\ references = 1) /\ g = default THEN 1 ELSE 0) = 0
    BY <1>2
  <2> QED BY <2>1, <2>2
<1>6. \A g \in Factories : refs'[g] = refs[g] - (IF g = f THEN n ELSE 0)
  BY <1>5
<1> QED BY <1>1, <1>2, <1>3, <1>4, <1>5, <1>6 DEF One

----------------------------------------------------------------------------
(* Functions that ask for the factory                                      *)

CallType == [op : Ops, kind : Kinds, holder : Holders \cup {Null},
             given : Factories \cup {Null}]

(* A call that begins is in no other.                                      *)
LEMMA BeginStep ==
  ASSUME Inv, NEW next \in CallType, Begin(next), next.op \in Takers, next.given = Null,
         UNCHANGED <<loaded, pc, stream, user>>,
         \A v \in Sources : source'[v] = "live" <=> source[v] = "live",
         source' \in [Sources -> SourceStates], HolderInv', CallInv'
  PROVE  Inv'
<1>1. call.op \notin Takers /\ Take(next)
  BY DEF Begin, NoCall, Call, Takers
<1> QED BY <1>1, TakeStep DEF CallType

(* The two Init functions, the two getCapabilities and createTrack.        *)
LEMMA BeginPlain ==
  ASSUME Inv,
         \/ InitReceiver \/ InitSender
         \/ GetReceiverCapabilities \/ GetSenderCapabilities \/ CreateTrack
  PROVE  Inv'
<1> USE DEF holderVars
<1>1. PICK op \in {"receiver", "sender", "read", "capabilities", "createTrack"} :
        /\ Begin(Call(op, "own", Null, Null)) /\ UNCHANGED holderVars
        /\ IF op = "receiver" THEN loaded = 0
           ELSE IF op = "sender" THEN loaded = 1 ELSE loaded = 2
  BY DEF InitReceiver, InitSender, GetReceiverCapabilities, GetSenderCapabilities,
         CreateTrack, BeginLoaded
<1> DEFINE next == Call(op, "own", Null, Null)
<1>2. next \in CallType /\ next.op \in Takers /\ next.given = Null /\ next.op = op
      /\ next.kind = "own"
  BY DEF CallType, Call, Ops, Takers, Kinds
<1>3. call' = next
  BY <1>1 DEF Begin, Take
<1> HIDE DEF next
<1>4. CallInv'
  BY <1>1, <1>2, <1>3 DEF CallInv
<1>5. HolderInv'
  BY <1>1, Apart DEF HolderInv
<1>6. source' \in [Sources -> SourceStates]
  BY <1>1, Apart DEF OtherTypes
<1> QED BY <1>1, <1>2, <1>4, <1>5, <1>6, BeginStep DEF next

(* The constructor of RTCPeerConnection.                                   *)
LEMMA NewPcStep ==
  ASSUME Inv, NEW p \in Pcs, NewPc(p)
  PROVE  Inv'
<1> DEFINE next == Call("pc", "own", p, Null)
<1>1. /\ pc[p].state = "new" /\ loaded = 2 /\ Begin(next)
      /\ UNCHANGED <<loaded, pc, stream, source, user>>
  BY DEF NewPc, BeginLoaded, holderVars
<1>2. next \in CallType /\ next.op \in Takers /\ next.given = Null /\ next.op = "pc"
      /\ next.kind = "own" /\ next.holder = p
  BY DEF CallType, Call, Ops, Takers, Kinds, Holders
<1>3. call' = next
  BY <1>1 DEF Begin, Take
<1> HIDE DEF next
<1>4. CallInv'
  BY <1>1, <1>2, <1>3 DEF CallInv
<1>5. HolderInv'
  BY <1>1, Apart DEF HolderInv
<1>6. source' \in [Sources -> SourceStates]
  BY <1>1, Apart DEF OtherTypes
<1> QED BY <1>1, <1>2, <1>4, <1>5, <1>6, BeginStep

(* getUserMedia and getDisplayMedia.                                       *)
LEMMA GetUserMediaStep ==
  ASSUME Inv, NEW s \in Streams, GetUserMedia(s)
  PROVE  Inv'
<1> DEFINE next == Call("media", "kept", s, Null)
<1>1. /\ stream[s].state = "new" /\ loaded = 2 /\ Begin(next)
      /\ UNCHANGED <<loaded, pc, stream, source, user>>
  BY DEF GetUserMedia, BeginLoaded, holderVars
<1>2. next \in CallType /\ next.op \in Takers /\ next.given = Null /\ next.op = "media"
      /\ next.kind = "kept" /\ next.holder = s
  BY DEF CallType, Call, Ops, Takers, Kinds, Holders
<1>3. call' = next
  BY <1>1 DEF Begin, Take
<1> HIDE DEF next
<1>4. CallInv'
  BY <1>1, <1>2, <1>3 DEF CallInv, For
<1>5. HolderInv'
  BY <1>1, Apart DEF HolderInv
<1>6. source' \in [Sources -> SourceStates]
  BY <1>1, Apart DEF OtherTypes
<1> QED BY <1>1, <1>2, <1>4, <1>5, <1>6, BeginStep

(* A source, for the program or for getUserMedia.                          *)
LEMMA NewSourceStep ==
  ASSUME Inv, NEW v \in Sources, NewSource(v)
  PROVE  Inv'
<1> USE Apart
<1>1. /\ source[v] = "new" /\ source' = [source EXCEPT ![v] = "making"]
      /\ UNCHANGED <<loaded, pc, stream, user>>
  BY DEF NewSource, SetSource
<1>2. /\ source' \in [Sources -> SourceStates]
      /\ \A w \in Sources : source'[w] = "live" <=> source[w] = "live"
  BY <1>1 DEF OtherTypes, SourceStates
<1>3. ASSUME loaded = 2 PROVE HolderInv'
  BY <1>1, <1>3 DEF HolderInv
<1>4. CASE loaded = 2 /\ Begin(Call("source", "own", Null, Null))
  <2> DEFINE next == Call("source", "own", Null, Null)
  <2>1. next \in CallType /\ next.op \in Takers /\ next.given = Null /\ next.op = "source"
        /\ next.kind = "own" /\ next.holder = Null
    BY DEF CallType, Call, Ops, Takers, Kinds
  <2>2. Begin(next) /\ call' = next
    BY <1>4 DEF Begin, Take
  <2> HIDE DEF next
  <2>3. CallInv'
    BY <1>1, <1>4, <2>1, <2>2 DEF CallInv
  <2> QED BY <1>1, <1>2, <1>3, <1>4, <2>1, <2>2, <2>3, BeginStep
<1>5. CASE call.op = "video" /\ Take([call EXCEPT !.op = "source"])
  <2> DEFINE next == [call EXCEPT !.op = "source"]
  <2>1. next \in CallType /\ next.op \in Takers /\ next.given = call.given
        /\ next.op = "source" /\ next.kind = call.kind /\ next.holder = call.holder
    BY DEF CallType, OtherTypes, Ops, Takers
  <2>2. Take(next) /\ call' = next /\ call.op \notin Takers
    BY <1>5 DEF Take, Takers
  <2> HIDE DEF next
  <2>3. CallInv'
    BY <1>1, <1>5, <2>1, <2>2 DEF CallInv, For
  <2>4. loaded = 2
    BY <1>5 DEF CallInv
  <2> QED BY <1>1, <1>2, <1>3, <2>1, <2>2, <2>3, <2>4, TakeStep DEF CallType
<1> QED BY <1>4, <1>5 DEF NewSource

(* The two Impls of a MediaStream.                                         *)
LEMMA TakeMemberStep ==
  ASSUME Inv, TakeMember
  PROVE  Inv'
<1> USE Apart
<1>1. PICK op \in {"member", "impl"} :
        /\ call.op = IF op = "member" THEN "stream" ELSE "second"
        /\ Take([call EXCEPT !.op = op]) /\ UNCHANGED holderVars
  BY DEF TakeMember
<1> DEFINE next == [call EXCEPT !.op = op]
<1>2. next \in CallType /\ next.op \in Takers /\ next.given = call.given
      /\ next.op = op /\ next.kind = call.kind /\ next.holder = call.holder
  BY DEF CallType, OtherTypes, Ops, Takers
<1>3. Take(next) /\ call' = next /\ call.op \notin Takers
  BY <1>1 DEF Take, Takers
<1> HIDE DEF next
<1>4. UNCHANGED <<loaded, pc, stream, source, user>>
  BY <1>1 DEF holderVars
<1>5. CallInv'
  BY <1>1, <1>2, <1>3, <1>4 DEF CallInv, For
<1>6. HolderInv' /\ source' \in [Sources -> SourceStates]
  BY <1>4 DEF HolderInv, OtherTypes
<1> QED BY <1>2, <1>3, <1>4, <1>5, <1>6, TakeStep DEF CallType

----------------------------------------------------------------------------
(* Functions that forget the reference, or give it back                    *)

(* No call: what is under way is over.                                     *)
LEMMA Idle ==
  /\ NoCall \in CallType /\ NoCall.op = "none" /\ NoCall.kind = "own"
  /\ NoCall.holder = Null /\ NoCall.given = Null /\ "none" \notin Takers
  BY DEF NoCall, Call, CallType, Ops, Takers, Kinds

(* A reference that is forgotten is counted as lost, not any more as the   *)
(* call's.                                                                 *)
LEMMA LoseStep ==
  ASSUME Inv, call.op \in Takers, NEW next \in CallType, call' = next,
         next.op \notin Takers, next.given \in {default, Null}, lost' = lost + 1,
         UNCHANGED <<countVars, lostRefs, pc, stream, source, user, foreign>>,
         loaded' \in 0..2, loaded' \in {loaded, loaded + 1}, loaded' >= loaded,
         HolderInv', CallInv'
  PROVE  Inv'
<1> USE Apart DEF countVars
<1>1. ReleasesCovered'
  BY OwingStays, Sizes DEF ReleasesCovered, OtherTypes
<1>2. AddressesHeld'
  BY AddressesStay
<1>3. CountInv'
  BY DEF CountInv, OtherTypes
<1>4. Known'
  BY DEF Known
<1>5. OtherTypes'
  BY DEF OtherTypes, CallType
<1> QED BY <1>1, <1>2, <1>3, <1>4, <1>5, Together

(* Init of RTCRtpReceiver and of RTCRtpSender, and the sender's            *)
(* getCapabilities, which do not release.                                  *)
LEMMA NeverReleased ==
  ASSUME Inv, ReceiverLoaded \/ SenderLoaded \/ SenderCapabilities
  PROVE  Inv'
<1> USE Apart, Idle DEF Returns, holderVars
<1>1. call' = NoCall /\ lost' = lost + 1
      /\ UNCHANGED <<countVars, lostRefs, pc, stream, source, user, foreign>>
  BY DEF ReceiverLoaded, SenderLoaded, SenderCapabilities
<1>2. call.op \in Takers
  BY DEF ReceiverLoaded, SenderLoaded, SenderCapabilities, Takers
<1>3. loaded' \in 0..2 /\ loaded' \in {loaded, loaded + 1} /\ loaded' >= loaded
      /\ (loaded = 2 => loaded' = 2)
  <2>1. CASE ReceiverLoaded
    BY <2>1 DEF ReceiverLoaded, CallInv
  <2>2. CASE SenderLoaded
    BY <2>2 DEF SenderLoaded, CallInv
  <2>3. CASE SenderCapabilities
    BY <2>3 DEF SenderCapabilities, OtherTypes
  <2> QED BY <2>1, <2>2, <2>3
<1>4. HolderInv'
  BY <1>1, <1>3 DEF HolderInv
<1>5. CallInv'
  BY <1>1 DEF CallInv
<1> QED BY <1>1, <1>2, <1>3, <1>4, <1>5, LoseStep

(* getUserMedia's own.                                                     *)
LEMMA MediaBegunStep ==
  ASSUME Inv, NEW s \in Streams, MediaBegun(s)
  PROVE  Inv'
<1> USE Apart DEF holderVars
<1>1. PICK op \in {"video", "stream"} : Returns("media", Call(op, "kept", s, default))
  BY DEF MediaBegun
<1> DEFINE next == Call(op, "kept", s, default)
<1>2. next \in CallType /\ next.op = op /\ next.kind = "kept" /\ next.holder = s
      /\ next.given = default /\ next.op \notin Takers
  BY DEF CallType, Call, Ops, Kinds, Holders, Takers, OtherTypes
<1>3. call.op = "media" /\ call' = next
  BY <1>1 DEF Returns
<1> HIDE DEF next
<1>4. call.op \in Takers /\ loaded = 2 /\ stream[s].state = "new" /\ default # Null
      /\ UNCHANGED <<loaded, pc, stream, source, user>>
  BY <1>3 DEF MediaBegun, CallInv, For, Takers
<1>5. CallInv'
  BY <1>2, <1>3, <1>4 DEF CallInv, For, Kinds
<1>6. HolderInv'
  BY <1>4 DEF HolderInv
<1>7. loaded' \in 0..2 /\ loaded' \in {loaded, loaded + 1} /\ loaded' >= loaded
  BY <1>4
<1> QED BY <1>2, <1>3, <1>4, <1>5, <1>6, <1>7, LoseStep DEF MediaBegun

(* getCapabilities of the receiver, which does.                            *)
LEMMA ReceiverCapabilitiesStep ==
  ASSUME Inv, ReceiverCapabilities
  PROVE  Inv'
<1> USE Apart, Idle DEF holderVars, lostVars
<1>1. /\ call.op = "read" /\ call' = NoCall /\ Drop(Null, 0, TRUE)
      /\ UNCHANGED <<loaded, pc, stream, source, user, lost, lostRefs, foreign>>
  BY DEF ReceiverCapabilities, Returns, Release
<1>2. loaded = 2 /\ call.op \in Takers
  BY <1>1 DEF CallInv, Takers
<1>3. /\ references' = references - 1 /\ references' \in Nat
      /\ references' = 0 <=> references = 0
      /\ UNCHANGED <<default, past>>
      /\ \A g \in Factories : refs'[g] = refs[g] - (IF g = Null THEN 0 ELSE 0)
      /\ DOMAIN refs' = Factories /\ refs' = [g \in Factories |-> refs'[g]]
  BY <1>1, <1>2, DropStep DEF One
<1>4. \A g \in Factories : refs'[g] = refs[g]
  BY <1>3 DEF TypeOK
<1>5. ReleasesCovered'
  BY <1>1, <1>2, <1>3, OwingStays, Sizes DEF ReleasesCovered, OtherTypes
<1>6. AddressesHeld'
  BY <1>1, <1>3, <1>4, AddressesStay
<1>7. CountInv' /\ HolderInv'
  BY <1>1, <1>3 DEF CountInv, HolderInv
<1>8. CallInv' /\ Known'
  BY <1>1, <1>3 DEF CallInv, Known
<1>9. OtherTypes'
  BY <1>1, <1>3 DEF OtherTypes, CallType
<1> QED BY <1>1, <1>5, <1>6, <1>7, <1>8, <1>9, Together

----------------------------------------------------------------------------
(* RTCPeerConnection                                                       *)

(* The reference goes to the peer connection; it had none.                 *)
LEMMA PcMadeStep ==
  ASSUME Inv, NEW p \in Pcs, PcMade(p)
  PROVE  Inv'
<1> USE Apart, Idle DEF countVars, lostVars
<1>1. PICK st \in {"open", "failed"} : SetPc(p, st, default)
  BY DEF PcMade
<1>2. /\ call.op = "pc" /\ call.holder = p /\ call' = NoCall
      /\ pc' = [pc EXCEPT ![p] = [state |-> st, factory |-> default]]
      /\ UNCHANGED <<references, default, past, refs, loaded, stream, source, user, lost,
                     lostRefs, foreign>>
  BY <1>1 DEF PcMade, Returns, SetPc
<1>3. call.op \in Takers /\ pc[p].state = "new" /\ pc[p].factory = Null /\ loaded = 2
      /\ default # Null
  BY <1>2 DEF CallInv, HolderInv, Takers
<1>4. pc' \in [Pcs -> [state : PcStates, factory : Factories \cup {Null}]]
      /\ pc'[p].factory = default /\ pc'[p].state = st
      /\ \A q \in Pcs \ {p} : pc'[q] = pc[q]
  BY <1>2 DEF OtherTypes, PcStates
<1>5. Cardinality(Owing') = Cardinality(Owing) + 1
  <2>1. p \in Holders /\ p \notin Owing /\ p \in Owing'
    BY <1>2, <1>3, <1>4, OwingIs DEF Holders, Owing
  <2>2. Cardinality(Owing') = Cardinality(Owing) + One(p \in Owing') - One(p \in Owing)
    BY <1>2, <1>4, <2>1, OwingChanges
  <2> QED BY <2>1, <2>2, Sizes DEF One
<1>6. ReleasesCovered'
  BY <1>2, <1>3, <1>5, Sizes DEF ReleasesCovered, OtherTypes
<1>7. AddressesHeld'
  BY <1>2, AddressesStay
<1>8. CountInv' /\ CallInv'
  BY <1>2 DEF CountInv, CallInv
<1>9. HolderInv' /\ Known'
  BY <1>2, <1>3, <1>4 DEF HolderInv, Known
<1>10. OtherTypes'
  BY <1>2, <1>4 DEF OtherTypes, CallType
<1> QED BY <1>2, <1>6, <1>7, <1>8, <1>9, <1>10, Together

(* A peer connection lets go of what it has, if it has anything.           *)
LEMMA LetGoStep ==
  ASSUME Inv, NEW p \in Pcs, pc[p].state # "new", NEW st \in PcStates \ {"new"},
         SetPc(p, st, Null), Drop(Null, 0, pc[p].factory # Null),
         UNCHANGED <<lostVars, loaded, stream, source, user, call, foreign>>
  PROVE  Inv'
<1> USE Apart DEF lostVars
<1> DEFINE release == pc[p].factory # Null
<1>1. loaded = 2 /\ release \in BOOLEAN /\ p \in Holders /\ (p \in Owing <=> release)
  BY OwingIs DEF HolderInv, Holders
<1>2. Drop(Null, 0, release)
  OBVIOUS
<1> HIDE DEF release
<1>3. release => \E x \in Holders : x \in Owing
  BY <1>1
<1>4. /\ references' = references - One(release) /\ references' \in Nat
      /\ references' = 0 <=> references = 0
      /\ UNCHANGED <<default, past>>
      /\ \A g \in Factories : refs'[g] = refs[g] - (IF g = Null THEN 0 ELSE 0)
      /\ DOMAIN refs' = Factories /\ refs' = [g \in Factories |-> refs'[g]]
  BY <1>1, <1>2, <1>3, DropStep
<1>5. pc' \in [Pcs -> [state : PcStates, factory : Factories \cup {Null}]]
      /\ pc'[p].factory = Null /\ pc'[p].state = st
      /\ \A q \in Pcs \ {p} : pc'[q] = pc[q]
  BY DEF OtherTypes, SetPc
<1>6. Cardinality(Owing') = Cardinality(Owing) - One(release)
  <2>1. p \notin Owing'
    BY <1>5, HoldersAssumption DEF Owing, HoldersAssumption
  <2>2. Cardinality(Owing') = Cardinality(Owing) + One(p \in Owing') - One(p \in Owing)
    BY <1>1, <1>5, OwingChanges
  <2>3. One(p \in Owing) = One(release) /\ One(p \in Owing') = 0 /\ One(release) \in Int
    BY <1>1, <2>1 DEF One
  <2> QED BY <2>2, <2>3, Sizes
<1>7. ReleasesCovered'
  <2>1. One(release) \in Int
    BY DEF One
  <2> QED BY <1>4, <1>6, <2>1, Sizes DEF ReleasesCovered, OtherTypes
<1>8. AddressesHeld'
  <2>1. \A g \in Factories : refs'[g] = refs[g]
    BY <1>4 DEF TypeOK
  <2> QED BY <1>4, <2>1, AddressesStay
<1>9. CountInv' /\ Known'
  BY <1>4, <1>5 DEF CountInv, Known
<1>10. HolderInv'
  BY <1>1, <1>5 DEF HolderInv
<1>11. CallInv'
  BY <1>5 DEF CallInv, For
<1>12. OtherTypes'
  BY <1>4, <1>5 DEF OtherTypes
<1> QED BY <1>4, <1>7, <1>8, <1>9, <1>10, <1>11, <1>12, Together

(* close, close again, and the end of the object.                          *)
LEMMA ClosePcStep ==
  ASSUME Inv, NEW p \in Pcs, ClosePc(p) \/ FinalizePc(p)
  PROVE  Inv'
<1>1. CASE ClosePc(p)
  <2>1. "closed" \in PcStates \ {"new"} /\ pc[p].state # "new"
    BY <1>1 DEF PcStates, ClosePc
  <2> QED BY <1>1, <2>1, LetGoStep DEF ClosePc
<1>2. CASE FinalizePc(p)
  <2>1. "gone" \in PcStates \ {"new"} /\ pc[p].state # "new"
    BY <1>2 DEF PcStates, FinalizePc
  <2> QED BY <1>2, <2>1, LetGoStep DEF FinalizePc
<1> QED BY <1>1, <1>2

(* A constructor that throws before it has asked.                          *)
LEMMA RefusePcStep ==
  ASSUME Inv, NEW p \in Pcs, RefusePc(p)
  PROVE  Inv'
<1> USE Apart DEF countVars, lostVars
<1>1. /\ pc' = [pc EXCEPT ![p] = [state |-> "failed", factory |-> Null]]
      /\ pc[p].state = "new" /\ pc[p].factory = Null /\ loaded = 2 /\ call = NoCall
      /\ UNCHANGED <<references, default, past, refs, loaded, stream, source, user, call,
                     lost, lostRefs, foreign>>
  BY DEF RefusePc, SetPc, HolderInv
<1>2. /\ pc' \in [Pcs -> [state : PcStates, factory : Factories \cup {Null}]]
      /\ pc'[p].factory = Null /\ pc'[p].state = "failed"
      /\ \A q \in Pcs : pc'[q].factory = pc[q].factory
      /\ \A q \in Pcs \ {p} : pc'[q] = pc[q]
  BY <1>1 DEF OtherTypes, PcStates
<1>3. ReleasesCovered'
  BY <1>1, <1>2, OwingStays DEF ReleasesCovered
<1>4. AddressesHeld'
  BY <1>1, AddressesStay
<1>5. CountInv' /\ Known'
  BY <1>1, <1>2 DEF CountInv, Known
<1>6. HolderInv'
  BY <1>1, <1>2 DEF HolderInv
<1>7. CallInv'
  BY <1>1, Idle DEF CallInv
<1>8. OtherTypes'
  BY <1>1, <1>2 DEF OtherTypes
<1> QED BY <1>1, <1>3, <1>4, <1>5, <1>6, <1>7, <1>8, Together

----------------------------------------------------------------------------
(* The sources of media                                                    *)

(* The reference goes to the source.                                       *)
LEMMA SourceMadeStep ==
  ASSUME Inv, NEW v \in Sources, SourceMade(v)
  PROVE  Inv'
<1> USE Apart, Idle DEF countVars, lostVars
<1> DEFINE next == IF call.holder = Null THEN NoCall ELSE [call EXCEPT !.op = "stream"]
<1>1. /\ call.op = "source" /\ call' = next /\ source[v] = "making"
      /\ source' = [source EXCEPT ![v] = "live"]
      /\ UNCHANGED <<references, default, past, refs, loaded, pc, stream, user, lost,
                     lostRefs, foreign>>
  BY DEF SourceMade, Returns, SetSource
<1>2. call.op \in Takers /\ loaded = 2
  BY <1>1 DEF CallInv, Takers
<1>3. next \in CallType /\ next.op \notin Takers /\ next.given \in {call.given, Null}
  BY <1>1 DEF CallType, OtherTypes, Ops, Takers
<1>5. CallInv'
  <2>1. CASE call.holder = Null
    BY <1>1, <2>1 DEF CallInv
  <2>2. CASE call.holder # Null
    <3>1. /\ next.op = "stream" /\ next.kind = call.kind /\ next.holder = call.holder
          /\ next.given = call.given
      BY <2>2 DEF OtherTypes
    <3> HIDE DEF next
    <3> QED BY <1>1, <1>2, <2>2, <3>1 DEF CallInv, For, Kinds
  <2> QED BY <2>1, <2>2
<1> HIDE DEF next
<1>6. source' \in [Sources -> SourceStates] /\ source'[v] = "live"
      /\ \A w \in Sources \ {v} : source'[w] = source[w]
  BY <1>1 DEF OtherTypes, SourceStates
<1>7. Cardinality(Owing') = Cardinality(Owing) + 1
  <2>1. v \in Holders /\ v \notin Owing /\ v \in Owing'
    BY <1>1, <1>6, OwingIs DEF Holders, Owing
  <2>2. Cardinality(Owing') = Cardinality(Owing) + One(v \in Owing') - One(v \in Owing)
    BY <1>1, <1>6, <2>1, OwingChanges
  <2> QED BY <2>1, <2>2, Sizes DEF One
<1>8. ReleasesCovered'
  BY <1>1, <1>2, <1>3, <1>7, Sizes DEF ReleasesCovered, OtherTypes
<1>9. AddressesHeld'
  BY <1>1, AddressesStay
<1>10. CountInv' /\ Known'
  BY <1>1, <1>3 DEF CountInv, Known
<1>11. HolderInv'
  BY <1>1, <1>2, <1>6 DEF HolderInv
<1>12. OtherTypes'
  BY <1>1, <1>3, <1>6 DEF OtherTypes, CallType
<1> QED BY <1>1, <1>3, <1>5, <1>8, <1>9, <1>10, <1>11, <1>12, Together

(* Release by the thread that destroys the source, whatever JavaScript is  *)
(* in: it is never the last, so no other thread lets go of the factory.    *)
LEMMA DestroySourceStep ==
  ASSUME Inv, NEW v \in Sources, DestroySource(v)
  PROVE  Inv'
<1> USE Apart DEF lostVars
<1>1. /\ source[v] = "live" /\ source' = [source EXCEPT ![v] = "gone"]
      /\ Drop(Null, 0, TRUE)
      /\ UNCHANGED <<loaded, pc, stream, user, call, lost, lostRefs>>
  BY DEF DestroySource, SetSource, Release
<1>2. v \in Holders /\ v \in Owing /\ loaded = 2
  BY <1>1, OwingIs DEF Holders, HolderInv
<1>3. /\ references' = references - 1 /\ references' \in Nat
      /\ references' = 0 <=> references = 0
      /\ UNCHANGED <<default, past>>
      /\ \A g \in Factories : refs'[g] = refs[g] - (IF g = Null THEN 0 ELSE 0)
      /\ DOMAIN refs' = Factories /\ refs' = [g \in Factories |-> refs'[g]]
  BY <1>1, <1>2, DropStep DEF One
<1>4. source' \in [Sources -> SourceStates] /\ source'[v] = "gone"
      /\ \A w \in Sources \ {v} : source'[w] = source[w]
  BY <1>1 DEF OtherTypes, SourceStates
<1>5. Cardinality(Owing') = Cardinality(Owing) - 1
  <2>1. v \notin Owing'
    BY <1>4, HoldersAssumption DEF Owing, HoldersAssumption
  <2>2. Cardinality(Owing') = Cardinality(Owing) + One(v \in Owing') - One(v \in Owing)
    BY <1>1, <1>2, <1>4, OwingChanges
  <2> QED BY <1>2, <2>1, <2>2, Sizes DEF One
<1>6. ReleasesCovered'
  BY <1>1, <1>3, <1>5, Sizes DEF ReleasesCovered, OtherTypes
<1>7. foreign' = FALSE
  <2>1. references # 1
    BY <1>3 DEF OtherTypes
  <2> QED BY <2>1 DEF DestroySource
<1>8. AddressesHeld'
  <2>1. \A g \in Factories : refs'[g] = refs[g]
    BY <1>3 DEF TypeOK
  <2> QED BY <1>1, <1>3, <2>1, AddressesStay
<1>9. CountInv' /\ Known'
  BY <1>1, <1>3 DEF CountInv, Known
<1>10. HolderInv' /\ CallInv'
  BY <1>1, <1>2 DEF HolderInv, CallInv, For
<1>11. OtherTypes'
  BY <1>1, <1>3, <1>4 DEF OtherTypes
<1> QED BY <1>1, <1>3, <1>6, <1>7, <1>8, <1>9, <1>10, <1>11, Together

----------------------------------------------------------------------------
(* Tracks, channels and transports                                         *)

(* One more address is kept, and one more reference.                       *)
LEMMA UserKeeps ==
  ASSUME Inv, NEW u \in Users, NEW f \in Factories, user[u] = Null,
         user' = [user EXCEPT ![u] = f], Keep(f),
         UNCHANGED <<default, lostRefs, stream>>
  PROVE  AddressesHeld' /\ DOMAIN refs' = Factories /\ refs' = [g \in Factories |-> refs'[g]]
<1> USE Apart
<1>1. refs' = [refs EXCEPT ![f] = @ + 1]
  BY DEF Keep
<1>2. \A g \in Factories : refs'[g] = refs[g] + One(f = g)
  BY <1>1 DEF TypeOK, One
<1>3. AddressesHeld'
  <2> SUFFICES ASSUME NEW g \in Factories
               PROVE  refs'[g] = (IF g = default' THEN 1 ELSE 0) + lostRefs'[g]
                                  + Cardinality({s \in Streams : stream'[s].factory = g})
                                  + Cardinality({t \in Users : user'[t] = g})
    BY DEF AddressesHeld
  <2> DEFINE us == Cardinality({t \in Users : user[t] = g})
             us2 == Cardinality({t \in Users : user'[t] = g})
             ss == Cardinality({s \in Streams : stream[s].factory = g})
             ss2 == Cardinality({s \in Streams : stream'[s].factory = g})
  <2>1. us \in Nat /\ us2 = us + One(f = g) - One(user[u] = g)
    <3>1. user'[u] = f /\ \A t \in Users \ {u} : user'[t] = user[t]
      BY DEF TypeOK
    <3>2. us \in Nat /\ us2 = us + One(user'[u] = g) - One(user[u] = g)
      BY <3>1, UsersKeep
    <3> QED BY ONLY <3>1, <3>2
  <2>2. One(user[u] = g) = 0
    BY HoldersAssumption DEF One, HoldersAssumption
  <2>3. ss2 = ss /\ ss \in Nat
    BY Sizes
  <2>4. refs[g] = (IF g = default THEN 1 ELSE 0) + lostRefs[g] + ss + us
    BY DEF AddressesHeld
  <2>5. (IF g = default THEN 1 ELSE 0) \in Nat /\ lostRefs[g] \in Nat /\ One(f = g) \in Nat
    BY DEF OtherTypes, One
  <2> HIDE DEF us, us2, ss, ss2
  <2> SUFFICES refs'[g] = (IF g = default THEN 1 ELSE 0) + lostRefs[g] + ss2 + us2
    BY DEF ss2, us2
  <2> QED BY <1>2, <2>1, <2>2, <2>3, <2>4, <2>5
<1>4. DOMAIN refs' = Factories /\ refs' = [g \in Factories |-> refs'[g]]
  BY <1>1 DEF OtherTypes
<1> QED BY <1>3, <1>4

(* The constructor of one, with the factory of its maker.                  *)
LEMMA NewUserStep ==
  ASSUME Inv, NEW u \in Users, NewUser(u)
  PROVE  Inv'
<1> USE Apart DEF lostVars
<1>1. PICK f \in Held \ {Null} : user' = [user EXCEPT ![u] = f] /\ Keep(f)
  BY DEF NewUser
<1>2. /\ user[u] = Null
      /\ UNCHANGED <<references, default, past, lost, lostRefs, loaded, pc, stream, source,
                     call, foreign>>
  BY DEF NewUser
<1>3. f = default /\ f \in Factories
  BY <1>1 DEF Held, Known, OtherTypes
<1>4. AddressesHeld' /\ DOMAIN refs' = Factories /\ refs' = [g \in Factories |-> refs'[g]]
  BY <1>1, <1>2, <1>3, UserKeeps
<1>5. ReleasesCovered'
  BY <1>2, OwingStays DEF ReleasesCovered
<1>6. CountInv' /\ HolderInv' /\ CallInv'
  BY <1>2 DEF CountInv, HolderInv, CallInv, For
<1>7. Known' /\ OtherTypes'
  BY <1>1, <1>2, <1>3, <1>4 DEF Known, OtherTypes
<1> QED BY <1>2, <1>4, <1>5, <1>6, <1>7, Together

(* createTrack of a source forgets its reference.                          *)
LEMMA TrackCreatedStep ==
  ASSUME Inv, NEW u \in Users, TrackCreated(u)
  PROVE  Inv'
<1> USE Apart, Idle
<1>1. /\ user[u] = Null /\ user' = [user EXCEPT ![u] = default] /\ Keep(default)
      /\ lost' = lost + 1 /\ call.op = "createTrack" /\ call' = NoCall
      /\ UNCHANGED <<references, default, past, lostRefs, loaded, pc, stream, source, foreign>>
  BY DEF TrackCreated, Returns
<1>2. call.op \in Takers /\ default # Null /\ default \in Factories
  BY <1>1 DEF Takers, OtherTypes
<1>3. AddressesHeld' /\ DOMAIN refs' = Factories /\ refs' = [g \in Factories |-> refs'[g]]
  BY <1>1, <1>2, UserKeeps
<1>4. ReleasesCovered'
  BY <1>1, <1>2, OwingStays, Sizes DEF ReleasesCovered, OtherTypes
<1>5. CountInv' /\ HolderInv' /\ CallInv'
  BY <1>1 DEF CountInv, HolderInv, CallInv, OtherTypes
<1>6. Known' /\ OtherTypes'
  BY <1>1, <1>2, <1>3 DEF Known, OtherTypes, CallType
<1> QED BY <1>1, <1>3, <1>4, <1>5, <1>6, Together

(* Its end: the address goes with the reference.                           *)
LEMMA FinalizeUserStep ==
  ASSUME Inv, NEW u \in Users, FinalizeUser(u)
  PROVE  Inv'
<1> USE Apart DEF lostVars
<1>1. /\ user[u] # Null /\ user' = [user EXCEPT ![u] = Null] /\ Drop(user[u], 1, FALSE)
      /\ UNCHANGED <<loaded, pc, stream, source, call, lost, lostRefs, foreign>>
  BY DEF FinalizeUser
<1>2. /\ references' = references /\ UNCHANGED <<default, past>>
      /\ \A g \in Factories : refs'[g] = refs[g] - (IF g = user[u] THEN 1 ELSE 0)
      /\ DOMAIN refs' = Factories /\ refs' = [g \in Factories |-> refs'[g]]
  <2>1. /\ references' = references - One(FALSE)
        /\ UNCHANGED <<default, past>>
        /\ \A g \in Factories : refs'[g] = refs[g] - (IF g = user[u] THEN 1 ELSE 0)
        /\ DOMAIN refs' = Factories /\ refs' = [g \in Factories |-> refs'[g]]
    BY ONLY <1>1, Inv, DropStep
  <2> QED BY <2>1 DEF One, OtherTypes
<1>3. AddressesHeld'
  <2> SUFFICES ASSUME NEW g \in Factories
               PROVE  refs'[g] = (IF g = default' THEN 1 ELSE 0) + lostRefs'[g]
                                  + Cardinality({s \in Streams : stream'[s].factory = g})
                                  + Cardinality({t \in Users : user'[t] = g})
    BY DEF AddressesHeld
  <2> DEFINE us == Cardinality({t \in Users : user[t] = g})
             us2 == Cardinality({t \in Users : user'[t] = g})
             ss == Cardinality({s \in Streams : stream[s].factory = g})
             ss2 == Cardinality({s \in Streams : stream'[s].factory = g})
  <2>1. us \in Nat /\ us2 = us + One(Null = g) - One(user[u] = g)
    <3>1. user'[u] = Null /\ \A t \in Users \ {u} : user'[t] = user[t]
      BY <1>1 DEF TypeOK
    <3>2. us \in Nat /\ us2 = us + One(user'[u] = g) - One(user[u] = g)
      BY <3>1, UsersKeep
    <3> QED BY ONLY <3>1, <3>2
  <2>2. One(Null = g) = 0 /\ One(user[u] = g) = (IF g = user[u] THEN 1 ELSE 0)
    BY HoldersAssumption DEF One, HoldersAssumption
  <2>3. ss2 = ss /\ ss \in Nat
    BY <1>1, Sizes
  <2>4. refs[g] = (IF g = default THEN 1 ELSE 0) + lostRefs[g] + ss + us
    BY DEF AddressesHeld
  <2>5. /\ (IF g = default THEN 1 ELSE 0) \in Nat /\ lostRefs[g] \in Nat
        /\ (IF g = user[u] THEN 1 ELSE 0) \in Nat
    BY DEF OtherTypes
  <2> HIDE DEF us, us2, ss, ss2
  <2> SUFFICES refs'[g] = (IF g = default THEN 1 ELSE 0) + lostRefs[g] + ss2 + us2
    BY <1>1, <1>2 DEF ss2, us2
  <2> QED BY <1>2, <2>1, <2>2, <2>3, <2>4, <2>5
<1>4. ReleasesCovered'
  BY <1>1, <1>2, OwingStays DEF ReleasesCovered
<1>5. CountInv' /\ HolderInv' /\ CallInv'
  BY <1>1, <1>2 DEF CountInv, HolderInv, CallInv, For
<1>6. Known' /\ OtherTypes'
  BY <1>1, <1>2 DEF Known, OtherTypes
<1>7. foreign' = FALSE /\ (call'.op \in Takers => default' # Null)
  BY <1>1, <1>2
<1> QED BY <1>3, <1>4, <1>5, <1>6, <1>7, Together


----------------------------------------------------------------------------
(* MediaStream                                                             *)

(* What a stream that is set owes.                                         *)
LEMMA StreamSet ==
  ASSUME Inv, NEW s \in Streams, NEW st \in StreamStates, NEW f \in Factories \cup {Null},
         NEW release \in BOOLEAN, SetStream(s, st, f, release), UNCHANGED <<pc, source>>
  PROVE  /\ stream' \in [Streams -> [state : StreamStates, factory : Factories \cup {Null},
                                     release : BOOLEAN]]
         /\ stream'[s].state = st /\ stream'[s].factory = f /\ stream'[s].release = release
         /\ \A t \in Streams \ {s} : stream'[t] = stream[t]
         /\ Cardinality(Owing') = Cardinality(Owing) + One(release) - One(stream[s].release)
<1> USE Apart
<1>1. /\ stream' \in [Streams -> [state : StreamStates, factory : Factories \cup {Null},
                                  release : BOOLEAN]]
      /\ stream'[s] = [state |-> st, factory |-> f, release |-> release]
      /\ \A t \in Streams \ {s} : stream'[t] = stream[t]
  BY DEF SetStream, OtherTypes
<1>2. stream'[s].state = st /\ stream'[s].factory = f /\ stream'[s].release = release
  BY <1>1
<1>3. s \in Holders /\ s \notin Pcs /\ s \notin Sources
  BY HoldersAssumption DEF Holders, HoldersAssumption
<1>4. (s \in Owing <=> stream[s].release) /\ (s \in Owing' <=> release)
  BY <1>2, <1>3 DEF Owing
<1>5. Cardinality(Owing') = Cardinality(Owing) + One(s \in Owing') - One(s \in Owing)
  BY <1>1, <1>3, OwingChanges
<1>6. One(s \in Owing') = One(release) /\ One(s \in Owing) = One(stream[s].release)
  BY <1>4 DEF One
<1> QED BY <1>1, <1>2, <1>5, <1>6

(* The references follow the address a stream keeps.                       *)
LEMMA StreamMoves ==
  ASSUME AddressesHeld, NEW s \in Streams, \A t \in Streams \ {s} : stream'[t] = stream[t],
         UNCHANGED <<default, user>>, lostRefs \in [Factories -> Nat],
         \A g \in Factories :
           /\ lostRefs'[g] \in Nat
           /\ refs'[g] = refs[g] + (lostRefs'[g] - lostRefs[g])
                         + One(stream'[s].factory = g) - One(stream[s].factory = g)
  PROVE  AddressesHeld'
<1> SUFFICES ASSUME NEW g \in Factories
             PROVE  refs'[g] = (IF g = default' THEN 1 ELSE 0) + lostRefs'[g]
                                + Cardinality({t \in Streams : stream'[t].factory = g})
                                + Cardinality({u \in Users : user'[u] = g})
  BY DEF AddressesHeld
<1> DEFINE us == Cardinality({u \in Users : user[u] = g})
           us2 == Cardinality({u \in Users : user'[u] = g})
           ss == Cardinality({t \in Streams : stream[t].factory = g})
           ss2 == Cardinality({t \in Streams : stream'[t].factory = g})
           more == One(stream'[s].factory = g)
           less == One(stream[s].factory = g)
<1>1. ss \in Nat /\ ss2 = ss + more - less
  BY StreamsKeep
<1>2. us2 = us /\ us \in Nat
  BY Sizes
<1>3. refs[g] = (IF g = default THEN 1 ELSE 0) + lostRefs[g] + ss + us
  BY DEF AddressesHeld
<1>4. /\ (IF g = default THEN 1 ELSE 0) \in Nat /\ lostRefs[g] \in Nat
      /\ lostRefs'[g] \in Nat /\ more \in Nat /\ less \in Nat
  BY DEF One
<1>5. refs'[g] = refs[g] + (lostRefs'[g] - lostRefs[g]) + more - less
  OBVIOUS
<1> HIDE DEF us, us2, ss, ss2, more, less
<1> SUFFICES refs'[g] = (IF g = default THEN 1 ELSE 0) + lostRefs'[g] + ss2 + us2
  BY DEF ss2, us2
<1> QED BY <1>1, <1>2, <1>3, <1>4, <1>5

(* The constructor, and MediaStream::Create.                               *)
LEMMA NewStreamStep ==
  ASSUME Inv, NEW s \in Streams, NewStream(s)
  PROVE  Inv'
<1> USE Apart DEF countVars, lostVars, holderVars
<1>1. PICK kind \in Kinds, f \in Held \cup {Null} :
        /\ f = Null <=> kind \in {"invalid", "own"}
        /\ call' = Call("stream", kind, s, f)
  BY DEF NewStream
<1>2. /\ loaded = 2 /\ stream[s].state = "new"
      /\ UNCHANGED <<references, default, past, refs, loaded, pc, stream, source, user, lost,
                     lostRefs, foreign>>
      /\ call = NoCall
  BY DEF NewStream
<1>3. f \in {default, Null}
  BY DEF Held, Known
<1>4. /\ call' \in CallType /\ call'.op = "stream" /\ call'.kind = kind
      /\ call'.holder = s /\ call'.given = f
  BY <1>1, <1>3 DEF Call, CallType, Ops, Holders, OtherTypes
<1>5. ReleasesCovered'
  BY <1>2, <1>4, Idle, OwingStays DEF ReleasesCovered, Takers
<1>6. AddressesHeld'
  BY <1>2, AddressesStay
<1>7. CountInv' /\ HolderInv' /\ Known'
  BY <1>2, <1>3, <1>4 DEF CountInv, HolderInv, Known
<1>8. CallInv'
  BY <1>1, <1>2, <1>4 DEF CallInv, For
<1>9. OtherTypes'
  BY <1>2, <1>4 DEF OtherTypes, CallType
<1>10. call'.op \notin Takers
  BY <1>4 DEF Takers
<1> QED BY <1>2, <1>5, <1>6, <1>7, <1>8, <1>9, <1>10, Together

(* The default member: the reference goes to the stream.                   *)
LEMMA MemberOnlyStep ==
  ASSUME Inv, NEW s \in Streams, MemberOnly(s)
  PROVE  Inv'
<1> USE Apart, Idle DEF lostVars
<1> DEFINE own == call.kind = "own"
           next == IF own THEN [call EXCEPT !.op = "second"] ELSE NoCall
           st == IF own THEN "half" ELSE "failed"
<1>1. /\ call.op = "member" /\ call.holder = s /\ call' = next
      /\ SetStream(s, st, default, TRUE) /\ refs' = [refs EXCEPT ![default] = @ + 1]
      /\ UNCHANGED <<references, default, past, lost, lostRefs, loaded, pc, source, user,
                     foreign>>
  BY DEF MemberOnly, Returns, Keep
<1>2. /\ call.op \in Takers /\ loaded = 2 /\ stream[s].state = "new" /\ default # Null
      /\ default \in Factories /\ stream[s].factory = Null /\ stream[s].release = FALSE
  BY <1>1 DEF CallInv, For, Takers, OtherTypes, HolderInv
<1>3. st \in StreamStates /\ st # "new" /\ (st = "half" <=> own) /\ default \in Factories \cup {Null}
  BY <1>2 DEF StreamStates
<1>4. /\ next \in CallType /\ next.op \notin Takers /\ next.given \in {call.given, Null}
      /\ next.op \in {"none", "second"} /\ (next.op = "second" => own)
      /\ next.kind = "own" /\ (own => next.holder = s)
  BY <1>1 DEF CallType, OtherTypes, Ops, Takers
<1> HIDE DEF next, st, own
<1>5. /\ stream' \in [Streams -> [state : StreamStates, factory : Factories \cup {Null},
                                  release : BOOLEAN]]
      /\ stream'[s].state = st /\ stream'[s].factory = default /\ stream'[s].release = TRUE
      /\ \A t \in Streams \ {s} : stream'[t] = stream[t]
      /\ Cardinality(Owing') = Cardinality(Owing) + One(TRUE) - One(stream[s].release)
  BY ONLY <1>1, <1>3, Inv, StreamSet
<1>6. Cardinality(Owing') = Cardinality(Owing) + 1
  BY <1>2, <1>5, Sizes DEF One
<1>7. ReleasesCovered'
  BY <1>1, <1>2, <1>4, <1>6, Sizes DEF ReleasesCovered, OtherTypes
<1>8. AddressesHeld'
  <2>1. ASSUME NEW g \in Factories
        PROVE  /\ lostRefs'[g] \in Nat
               /\ refs'[g] = refs[g] + (lostRefs'[g] - lostRefs[g])
                             + One(stream'[s].factory = g) - One(stream[s].factory = g)
    <3>1. refs'[g] = refs[g] + (IF g = default THEN 1 ELSE 0) /\ refs[g] \in Nat
      BY <1>1 DEF TypeOK
    <3>2. lostRefs'[g] = lostRefs[g] /\ lostRefs[g] \in Nat
      BY <1>1 DEF TypeOK
    <3>3. One(stream[s].factory = g) = 0
      BY <1>2, HoldersAssumption DEF One, HoldersAssumption
    <3>4. One(stream'[s].factory = g) = IF g = default THEN 1 ELSE 0
      BY <1>5 DEF One
    <3> QED BY <3>1, <3>2, <3>3, <3>4
  <2> QED BY <1>1, <1>5, <2>1, StreamMoves DEF TypeOK
<1>9. CountInv' /\ HolderInv'
  BY <1>1, <1>2, <1>3, <1>5 DEF CountInv, HolderInv
<1>10. Known'
  BY <1>1, <1>4, <1>5 DEF Known
<1>11. CallInv'
  BY <1>1, <1>2, <1>3, <1>4, <1>5 DEF CallInv, For
<1>12. OtherTypes'
  <2>1. DOMAIN refs' = Factories /\ refs' = [g \in Factories |-> refs'[g]]
    BY <1>1 DEF OtherTypes
  <2> QED BY <1>1, <1>4, <1>5, <2>1 DEF OtherTypes, CallType
<1> QED BY <1>1, <1>4, <1>7, <1>8, <1>9, <1>10, <1>11, <1>12, Together

(* A stream made with somebody's factory: the member's reference and the   *)
(* address it kept are forgotten, and the stream owes nothing.             *)
LEMMA MemberReplacedStep ==
  ASSUME Inv, NEW s \in Streams, MemberReplaced(s)
  PROVE  Inv'
<1> USE Apart, Idle
<1> DEFINE st == IF call.kind = "kept" THEN "kept" ELSE "made"
           f == call.given
<1>1. /\ call.op = "member" /\ call.holder = s /\ call' = NoCall
      /\ call.kind \in {"given", "kept"} /\ SetStream(s, st, f, FALSE) /\ lost' = lost + 1
      /\ refs' = [g \in Factories |-> refs[g] + (IF g = default THEN 1 ELSE 0)
                                              + (IF g = f THEN 1 ELSE 0)]
      /\ lostRefs' = [lostRefs EXCEPT ![default] = @ + 1]
      /\ UNCHANGED <<references, default, past, loaded, pc, source, user, foreign>>
  BY DEF MemberReplaced, Returns, Lose
<1>2. /\ call.op \in Takers /\ loaded = 2 /\ stream[s].state = "new" /\ default # Null
      /\ default \in Factories /\ stream[s].factory = Null /\ stream[s].release = FALSE
      /\ f = default
  BY <1>1 DEF CallInv, For, Takers, OtherTypes, HolderInv, Known
<1>3. st \in StreamStates /\ st # "new" /\ st # "half" /\ f \in Factories \cup {Null}
  BY <1>2 DEF StreamStates
<1> HIDE DEF st, f
<1>4. /\ stream' \in [Streams -> [state : StreamStates, factory : Factories \cup {Null},
                                  release : BOOLEAN]]
      /\ stream'[s].state = st /\ stream'[s].factory = f /\ stream'[s].release = FALSE
      /\ \A t \in Streams \ {s} : stream'[t] = stream[t]
      /\ Cardinality(Owing') = Cardinality(Owing) + One(FALSE) - One(stream[s].release)
  BY ONLY <1>1, <1>3, Inv, StreamSet
<1>5. Cardinality(Owing') = Cardinality(Owing)
  BY <1>2, <1>4, Sizes DEF One
<1>6. ReleasesCovered'
  BY <1>1, <1>2, <1>5, Sizes DEF ReleasesCovered, OtherTypes
<1>7. lostRefs' \in [Factories -> Nat]
      /\ \A g \in Factories : lostRefs'[g] = lostRefs[g] + (IF g = default THEN 1 ELSE 0)
  BY <1>1, <1>2 DEF TypeOK
<1>8. AddressesHeld'
  <2>1. ASSUME NEW g \in Factories
        PROVE  /\ lostRefs'[g] \in Nat
               /\ refs'[g] = refs[g] + (lostRefs'[g] - lostRefs[g])
                             + One(stream'[s].factory = g) - One(stream[s].factory = g)
    <3>1. /\ refs'[g] = refs[g] + (IF g = default THEN 1 ELSE 0) + (IF g = f THEN 1 ELSE 0)
          /\ refs[g] \in Nat
      BY <1>1 DEF TypeOK
    <3>2. lostRefs'[g] = lostRefs[g] + (IF g = default THEN 1 ELSE 0) /\ lostRefs[g] \in Nat
          /\ lostRefs'[g] \in Nat
      BY <1>7 DEF TypeOK
    <3>3. One(stream[s].factory = g) = 0
      BY <1>2, HoldersAssumption DEF One, HoldersAssumption
    <3>4. One(stream'[s].factory = g) = IF g = f THEN 1 ELSE 0
      BY <1>4 DEF One
    <3> QED BY <3>1, <3>2, <3>3, <3>4
  <2> QED BY <1>1, <1>4, <2>1, StreamMoves DEF TypeOK
<1>9. CountInv'
  <2>1. lost' >= loaded' /\ (default' = Null <=> references' = 0)
    BY <1>1 DEF CountInv, OtherTypes
  <2>2. \A g \in Factories : lostRefs'[g] # 0 => g = default'
    BY <1>1, <1>7 DEF CountInv, OtherTypes
  <2> QED BY <2>1, <2>2 DEF CountInv
<1>10. HolderInv'
  BY <1>1, <1>2, <1>3, <1>4 DEF HolderInv
<1>11. Known' /\ CallInv'
  BY <1>1, <1>2, <1>4 DEF Known, CallInv
<1>12. OtherTypes'
  <2>1. DOMAIN refs' = Factories /\ refs' = [g \in Factories |-> refs'[g]]
    BY <1>1
  <2> QED BY <1>1, <1>4, <1>7, <2>1 DEF OtherTypes, CallType
<1> QED BY <1>1, <1>6, <1>8, <1>9, <1>10, <1>11, <1>12, Together

(* The second Impl of a stream made without one: the first is forgotten.   *)
LEMMA ImplReplacesStep ==
  ASSUME Inv, NEW s \in Streams, ImplReplaces(s)
  PROVE  Inv'
<1> USE Apart, Idle
<1> DEFINE st == "made"
<1>1. /\ call.op = "impl" /\ call.holder = s /\ call' = NoCall
      /\ SetStream(s, st, default, TRUE) /\ lost' = lost + 1
      /\ refs' = [refs EXCEPT ![default] = @ + 1]
      /\ lostRefs' = [lostRefs EXCEPT ![stream[s].factory] = @ + 1]
      /\ UNCHANGED <<references, default, past, loaded, pc, source, user, foreign>>
  BY DEF ImplReplaces, Returns, Lose, Keep
<1>2. /\ call.op \in Takers /\ loaded = 2 /\ stream[s].state = "half" /\ default # Null
      /\ default \in Factories /\ stream[s].factory = default /\ stream[s].release = TRUE
  BY <1>1 DEF CallInv, For, Takers, OtherTypes, HolderInv, Known
<1>3. st \in StreamStates /\ st \notin {"new", "half"} /\ default \in Factories \cup {Null}
  BY <1>2 DEF StreamStates
<1> HIDE DEF st
<1>4. /\ stream' \in [Streams -> [state : StreamStates, factory : Factories \cup {Null},
                                  release : BOOLEAN]]
      /\ stream'[s].state = st /\ stream'[s].factory = default
      /\ stream'[s].release = TRUE
      /\ \A t \in Streams \ {s} : stream'[t] = stream[t]
      /\ Cardinality(Owing') = Cardinality(Owing) + One(TRUE) - One(stream[s].release)
  <2>1. SetStream(s, st, default, TRUE) /\ UNCHANGED <<pc, source>>
    BY <1>1
  <2> QED BY ONLY <2>1, <1>3, Inv, StreamSet
<1>5. Cardinality(Owing') = Cardinality(Owing)
  BY <1>2, <1>4, Sizes DEF One
<1>6. ReleasesCovered'
  BY <1>1, <1>2, <1>5, Sizes DEF ReleasesCovered, OtherTypes
<1>7. lostRefs' \in [Factories -> Nat]
      /\ \A g \in Factories : lostRefs'[g] = lostRefs[g] + (IF g = default THEN 1 ELSE 0)
  BY <1>1, <1>2 DEF TypeOK
<1>8. AddressesHeld'
  <2>1. ASSUME NEW g \in Factories
        PROVE  /\ lostRefs'[g] \in Nat
               /\ refs'[g] = refs[g] + (lostRefs'[g] - lostRefs[g])
                             + One(stream'[s].factory = g) - One(stream[s].factory = g)
    <3>1. refs'[g] = refs[g] + (IF g = default THEN 1 ELSE 0) /\ refs[g] \in Nat
      BY <1>1 DEF TypeOK
    <3>2. lostRefs'[g] = lostRefs[g] + (IF g = default THEN 1 ELSE 0) /\ lostRefs[g] \in Nat
          /\ lostRefs'[g] \in Nat
      BY <1>7 DEF TypeOK
    <3>3. One(stream'[s].factory = g) = One(stream[s].factory = g)
          /\ One(stream[s].factory = g) \in Nat
      BY <1>2, <1>4 DEF One
    <3> QED BY <3>1, <3>2, <3>3
  <2> QED BY <1>1, <1>4, <2>1, StreamMoves DEF TypeOK
<1>9. CountInv'
  <2>1. lost' >= loaded' /\ (default' = Null <=> references' = 0)
    BY <1>1 DEF CountInv, OtherTypes
  <2>2. \A g \in Factories : lostRefs'[g] # 0 => g = default'
    BY <1>1, <1>7 DEF CountInv, OtherTypes
  <2> QED BY <2>1, <2>2 DEF CountInv
<1>10. HolderInv'
  BY <1>1, <1>2, <1>3, <1>4 DEF HolderInv
<1>11. Known' /\ CallInv'
  BY <1>1, <1>4 DEF Known, CallInv
<1>12. OtherTypes'
  <2>1. DOMAIN refs' = Factories /\ refs' = [g \in Factories |-> refs'[g]]
    BY <1>1 DEF OtherTypes
  <2> QED BY <1>1, <1>4, <1>7, <2>1 DEF OtherTypes, CallType
<1> QED BY <1>1, <1>6, <1>8, <1>9, <1>10, <1>11, <1>12, Together

(* ~Impl gives back what its stream has.                                   *)
LEMMA FinalizeStreamStep ==
  ASSUME Inv, NEW s \in Streams, FinalizeStream(s)
  PROVE  Inv'
<1> USE Apart DEF lostVars
<1> DEFINE release == stream[s].release
           f == stream[s].factory
<1>1. /\ stream[s].state \in {"made", "failed"} /\ SetStream(s, "gone", Null, FALSE)
      /\ Drop(f, 1, release) /\ call = NoCall
      /\ UNCHANGED <<loaded, pc, source, user, call, lost, lostRefs, foreign>>
  BY DEF FinalizeStream
<1>2. loaded = 2 /\ release \in BOOLEAN /\ s \in Holders /\ (release => s \in Owing)
  BY <1>1, OwingIs DEF HolderInv, Holders, OtherTypes
<1>3. "gone" \in StreamStates /\ Null \in Factories \cup {Null}
  BY DEF StreamStates
<1>4. /\ stream' \in [Streams -> [state : StreamStates, factory : Factories \cup {Null},
                                  release : BOOLEAN]]
      /\ stream'[s].state = "gone" /\ stream'[s].factory = Null /\ stream'[s].release = FALSE
      /\ \A t \in Streams \ {s} : stream'[t] = stream[t]
      /\ Cardinality(Owing') = Cardinality(Owing) + One(FALSE) - One(stream[s].release)
  BY ONLY <1>1, <1>3, Inv, StreamSet
<1> HIDE DEF release, f
<1>5. /\ references' = references - One(release) /\ references' \in Nat
      /\ references' = 0 <=> references = 0
      /\ UNCHANGED <<default, past>>
      /\ \A g \in Factories : refs'[g] = refs[g] - (IF g = f THEN 1 ELSE 0)
      /\ DOMAIN refs' = Factories /\ refs' = [g \in Factories |-> refs'[g]]
  BY <1>1, <1>2, DropStep
<1>6. Cardinality(Owing') = Cardinality(Owing) - One(release)
  BY <1>4, Sizes DEF One, release
<1>7. ReleasesCovered'
  <2>1. One(release) \in Int
    BY DEF One
  <2> QED BY <1>1, <1>5, <1>6, <2>1, Sizes DEF ReleasesCovered, OtherTypes
<1>8. AddressesHeld'
  <2>1. ASSUME NEW g \in Factories
        PROVE  /\ lostRefs'[g] \in Nat
               /\ refs'[g] = refs[g] + (lostRefs'[g] - lostRefs[g])
                             + One(stream'[s].factory = g) - One(stream[s].factory = g)
    <3>1. refs'[g] = refs[g] - (IF g = f THEN 1 ELSE 0) /\ refs[g] \in Nat
      BY <1>5 DEF TypeOK
    <3>2. lostRefs'[g] = lostRefs[g] /\ lostRefs[g] \in Nat
      BY <1>1 DEF TypeOK
    <3>3. One(stream'[s].factory = g) = 0
      BY <1>4, HoldersAssumption DEF One, HoldersAssumption
    <3>4. One(stream[s].factory = g) = IF g = f THEN 1 ELSE 0
      BY DEF One, f
    <3> QED BY <3>1, <3>2, <3>3, <3>4
  <2> QED BY <1>1, <1>4, <1>5, <2>1, StreamMoves DEF TypeOK
<1>9. CountInv' /\ HolderInv'
  BY <1>1, <1>2, <1>4, <1>5 DEF CountInv, HolderInv
<1>10. Known'
  BY <1>1, <1>4, <1>5 DEF Known
<1>11. CallInv'
  BY <1>1, Idle DEF CallInv
<1>12. OtherTypes'
  BY <1>1, <1>4, <1>5 DEF OtherTypes
<1>13. foreign' = FALSE /\ (call'.op \in Takers => default' # Null)
  BY <1>1, <1>5
<1> QED BY <1>7, <1>8, <1>9, <1>10, <1>11, <1>12, <1>13, Together

----------------------------------------------------------------------------
(* All of it                                                               *)

(* Nothing is loaded, and nobody has anything.                             *)
LEMMA InitInv == Init => Inv
<1> SUFFICES ASSUME Init PROVE Inv
  OBVIOUS
<1> USE DEF Init
<1>1. TypeOK
  <2>1. call \in [op : Ops, kind : Kinds, holder : Holders \cup {Null},
                  given : Factories \cup {Null}]
    BY Idle DEF CallType
  <2>2. pc \in [Pcs -> [state : PcStates, factory : Factories \cup {Null}]]
    BY DEF PcStates
  <2>3. stream \in [Streams -> [state : StreamStates, factory : Factories \cup {Null},
                                release : BOOLEAN]]
    BY DEF StreamStates
  <2>4. source \in [Sources -> SourceStates]
    BY DEF SourceStates
  <2>5. /\ references \in Nat /\ lost \in Nat /\ loaded \in 0..2
        /\ default \in Factories \cup {Null} /\ past \subseteq Factories
        /\ user \in [Users -> Factories \cup {Null}]
        /\ refs \in [Factories -> Nat] /\ lostRefs \in [Factories -> Nat]
    OBVIOUS
  <2>6. foreign \in BOOLEAN
    OBVIOUS
  <2> HIDE DEF Init
  <2> QED BY <2>1, <2>2, <2>3, <2>4, <2>5, <2>6 DEF TypeOK
<1>2. Known /\ NeverForeign /\ call.op \notin Takers
  BY Idle DEF Known, NeverForeign
<1>3. Owing = {}
  BY DEF Owing
<1>4. ReleasesCovered
  BY <1>2, <1>3, FS_EmptySet DEF ReleasesCovered
<1>5. AddressesHeld
  <2> SUFFICES ASSUME NEW g \in Factories
               PROVE  refs[g] = (IF g = default THEN 1 ELSE 0) + lostRefs[g]
                                 + Cardinality({s \in Streams : stream[s].factory = g})
                                 + Cardinality({u \in Users : user[u] = g})
    BY DEF AddressesHeld
  <2>1. g # Null
    BY HoldersAssumption DEF HoldersAssumption
  <2>2. {s \in Streams : stream[s].factory = g} = {} /\ {u \in Users : user[u] = g} = {}
    BY <2>1
  <2>3. refs[g] = (IF g = default THEN 1 ELSE 0) + lostRefs[g]
                    + Cardinality({}) + Cardinality({})
    BY <2>1, FS_EmptySet
  <2> QED BY <2>2, <2>3
<1>6. CountInv /\ HolderInv /\ CallInv
  BY Idle DEF CountInv, HolderInv, CallInv
<1> QED BY <1>1, <1>2, <1>4, <1>5, <1>6, AddressesKnown
        DEF Inv, FactoryInv, OneFactory, CountsInv

(* Nothing happens.                                                        *)
LEMMA StutterStep ==
  ASSUME Inv, UNCHANGED vars
  PROVE  Inv'
<1> USE Apart DEF vars, countVars, holderVars, lostVars
<1>1. ReleasesCovered'
  BY OwingStays DEF ReleasesCovered
<1>2. AddressesHeld'
  BY AddressesStay
<1>3. CountInv' /\ HolderInv' /\ CallInv'
  BY DEF CountInv, HolderInv, CallInv, For
<1>4. Known' /\ OtherTypes'
  BY DEF Known, OtherTypes
<1>5. foreign' = FALSE /\ (call'.op \in Takers => default' # Null)
  OBVIOUS
<1> QED BY <1>1, <1>2, <1>3, <1>4, <1>5, Together

(* Every step keeps the invariant.                                         *)
LEMMA NextInv == Inv /\ [Next]_vars => Inv'
<1> SUFFICES ASSUME Inv, [Next]_vars PROVE Inv'
  OBVIOUS
<1>1. CASE Load \/ Capabilities \/ CreateTrack \/ TakeMember
  BY <1>1, BeginPlain, NeverReleased, ReceiverCapabilitiesStep, TakeMemberStep
     DEF Load, Capabilities
<1>2. ASSUME NEW p \in Pcs, PeerConnection(p) PROVE Inv'
  BY <1>2, RefusePcStep, NewPcStep, PcMadeStep, ClosePcStep DEF PeerConnection
<1>3. ASSUME NEW v \in Sources, Source(v) PROVE Inv'
  BY <1>3, NewSourceStep, SourceMadeStep, DestroySourceStep DEF Source
<1>4. ASSUME NEW u \in Users, User(u) PROVE Inv'
  BY <1>4, NewUserStep, TrackCreatedStep, FinalizeUserStep DEF User
<1>5. ASSUME NEW s \in Streams, Stream(s) PROVE Inv'
  BY <1>5, GetUserMediaStep, MediaBegunStep, NewStreamStep, MemberOnlyStep,
     MemberReplacedStep, ImplReplacesStep, FinalizeStreamStep DEF Stream
<1>6. CASE UNCHANGED vars
  BY <1>6, StutterStep
<1> QED BY <1>1, <1>2, <1>3, <1>4, <1>5, <1>6 DEF Next

(* The invariant.                                                          *)
LEMMA AlwaysInv == Spec => []Inv
  BY InitInv, NextInv, PTL DEF Spec

(* Every factory anybody uses or keeps is the default one, the one the     *)
(* first half of GetOrCreateDefault counted, and no thread but JavaScript's *)
(* lets go of it, for any number of objects and of references.             *)
THEOREM FactoryCorrect == Spec => []FactoryInv
<1>1. Inv => FactoryInv
  BY DEF Inv
<1> QED BY <1>1, AlwaysInv, PTL

(* _references is what will be released, what is under way and what has    *)
(* been forgotten: Release's assertion, at any moment.                     *)
THEOREM ReleasesAreCovered == Spec => []ReleasesCovered
<1>1. Inv => ReleasesCovered
  BY DEF Inv, CountsInv
<1> QED BY <1>1, AlwaysInv, PTL

(* The JavaScript object of a factory has one reference for _default and   *)
(* one for each address that is kept of it: V8 never frees one in use.     *)
THEOREM AddressesAreHeld == Spec => []AddressesHeld
<1>1. Inv => AddressesHeld
  BY DEF Inv, CountsInv
<1> QED BY <1>1, AlwaysInv, PTL

(* Once the module is loaded there is a factory, the same for ever: the    *)
(* references that its two Init functions forget are never given back.     *)
THEOREM DefaultStays == Spec => [][loaded = 2 => default' = default /\ default # Null]_vars
<1>1. Inv /\ [Next]_vars => [loaded = 2 => default' = default /\ default # Null]_vars
  <2> SUFFICES ASSUME Inv, Next, loaded = 2 PROVE default' = default /\ default # Null
    OBVIOUS
  <2> USE Apart
  <2>1. lost >= 2 /\ lost \in Nat /\ references \in Nat /\ references = lost + Cardinality(Owing)
          + (IF call.op \in Takers THEN 1 ELSE 0)
    BY DEF CountInv, OtherTypes, ReleasesCovered
  <2>2. references >= 2 /\ default # Null
    BY <2>1, Sizes DEF CountInv
  <2>3. references # 0 /\ references # 1 /\ references \in Nat
    BY <2>1, <2>2, Sizes
  <2> HIDE Apart
  <2> USE DEF Take, Begin, BeginLoaded, Drop, Release, Returns, countVars
  <2>4. ASSUME Load \/ Capabilities \/ CreateTrack \/ TakeMember
        PROVE  default' = default
    BY <2>3, <2>4 DEF Load, InitReceiver, ReceiverLoaded, InitSender, SenderLoaded,
       Capabilities, GetReceiverCapabilities, ReceiverCapabilities, GetSenderCapabilities,
       SenderCapabilities, CreateTrack, TakeMember
  <2>5. ASSUME NEW p \in Pcs, PeerConnection(p) PROVE default' = default
    BY <2>3, <2>5 DEF PeerConnection, RefusePc, NewPc, PcMade, ClosePc, FinalizePc
  <2>6. ASSUME NEW v \in Sources, Source(v) PROVE default' = default
    BY <2>3, <2>6 DEF Source, NewSource, SourceMade, DestroySource
  <2>7. ASSUME NEW u \in Users, User(u) PROVE default' = default
    BY <2>3, <2>7 DEF User, NewUser, TrackCreated, FinalizeUser
  <2>8. ASSUME NEW s \in Streams, Stream(s) PROVE default' = default
    BY <2>3, <2>8 DEF Stream, GetUserMedia, MediaBegun, NewStream, MemberOnly,
       MemberReplaced, ImplReplaces, FinalizeStream
  <2> QED BY <2>2, <2>4, <2>5, <2>6, <2>7, <2>8 DEF Next
<1> QED BY <1>1, AlwaysInv, PTL DEF Spec
=============================================================================
