------------------------------ MODULE BidiMap ------------------------------
(***************************************************************************)
(* BidiMap (src/src/utilities/bidi_map.h), two maps that mirror each       *)
(* other, and Wrap (src/src/node/wrap.h), which keeps with one the wrapper *)
(* of every object of libwebrtc that has one.                              *)
(***************************************************************************)
CONSTANTS
  Keys,
  Values,
  Nothing  \* no key, no value

BidiMaps == [value : [Keys -> Values \cup {Nothing}], key : [Values -> Keys \cup {Nothing}]]

(* The constructor, and clear.                                             *)
Empty == [value |-> [k \in Keys |-> Nothing], key |-> [v \in Values |-> Nothing]]

Has(m, k) == m.value[k] # Nothing
ReverseHas(m, v) == m.key[v] # Nothing

Erase(m, k, v) == [m EXCEPT !.value[k] = Nothing, !.key[v] = Nothing]
Remove(m, k) == IF Has(m, k) THEN Erase(m, k, m.value[k]) ELSE m

(* Fault: the value is forgotten, its key not.                             *)
ReverseRemoveHalf(m, v) == IF ReverseHas(m, v) THEN [m EXCEPT !.key[v] = Nothing] ELSE m

ReverseRemove(m, v) == IF ReverseHas(m, v) THEN Erase(m, m.key[v], v) ELSE m

(* set makes room for the value, not for the key; reverseSet the other way *)
(* round.                                                                  *)
Write(m, k, v) == [m EXCEPT !.value[k] = v, !.key[v] = k]
Set(m, k, v) == Write(ReverseRemove(m, v), k, v)
ReverseSet(m, v, k) == Write(Remove(m, k), k, v)

(* What computeIfAbsent and reverseComputeIfAbsent leave behind, if the    *)
(* computation gives v, or k.                                              *)
ComputeIfAbsent(m, k, v) == IF Has(m, k) THEN m ELSE Set(m, k, v)
ReverseComputeIfAbsent(m, v, k) == IF ReverseHas(m, v) THEN m ELSE ReverseSet(m, v, k)

Reverse(m) == [value |-> m.key, key |-> m.value]

----------------------------------------------------------------------------
(* Each of the two maps is the inverse of the other.                       *)
Mirrored(m) ==
  \A k \in Keys, v \in Values : m.value[k] = v <=> m.key[v] = k
============================================================================
