----------------------------- MODULE Converters -----------------------------
(***************************************************************************)
(* Conversion between JavaScript values and C++ values: the table-driven   *)
(* part of src/src/converters and of the macros for dictionaries and       *)
(* enumerations.                                                           *)
(*                                                                         *)
(* A JavaScript value is a type tag and a content.  Numbers count halves,  *)
(* so that a fraction is an odd number; NaN has its own tag.  An object    *)
(* maps the names of its properties to values; a property whose getter     *)
(* throws has the tag "throws".  A typed array shows a part of its buffer. *)
(* Doubles near 2^63 and 2^64 have no halves and leave whole numbers out;  *)
(* those are converted here like the doubles around them.                  *)
(*                                                                         *)
(* A C++ type is a record, so that vectors, alternatives and dictionaries  *)
(* can hold types.  Integer types keep their widths; Bits gives the widths *)
(* of 32 and 64 bits a smaller value on an instance, in the same order.    *)
(***************************************************************************)
EXTENDS Integers, TLC, SequencesExt, Validation

CONSTANT Bits
ASSUME BitsAssumption ==
  /\ DOMAIN Bits = {8, 16, 32, 64}
  /\ \A w \in DOMAIN Bits : Bits[w] \in Nat
  /\ Bits[8] < Bits[16] /\ Bits[16] < Bits[32] /\ Bits[32] < Bits[64]

Undefined   == [t |-> "undefined", v |-> <<>>]
Null        == [t |-> "null", v |-> <<>>]
Symbol      == [t |-> "symbol", v |-> <<>>]
Throws      == [t |-> "throws", v |-> <<>>]
NaN         == [t |-> "nan", v |-> <<>>]
Bool(b)     == [t |-> "boolean", v |-> b]
Halves(n)   == [t |-> "number", v |-> n]
Num(n)      == Halves(2 * n)
Str(s)      == [t |-> "string", v |-> s]
Arr(s)      == [t |-> "array", v |-> s]
Obj(f)      == [t |-> "object", v |-> f]
Buffer(n)       == [t |-> "arraybuffer", v |-> n]
View(n, buffer) == [t |-> "typedarray", v |-> n, of |-> buffer]
Instance(class, x) == [t |-> "instance", v |-> x, of |-> class]

IsNumber(v) == v.t \in {"number", "nan"}
IsObject(v) == v.t \in {"object", "array", "function", "arraybuffer", "typedarray", "instance"}
Get(o, p)   == IF o.t = "object" /\ p \in DOMAIN o.v THEN o.v[p] ELSE Undefined

\* C++ types.
Scalar(k)        == [k |-> k]
Signed(w)        == [k |-> "int", w |-> w]
Unsigned(w)      == [k |-> "uint", w |-> w]
Vector(ty)       == [k |-> "vector", of |-> ty]
Alternative(l, r) == [k |-> "either", l |-> l, r |-> r]
Dict(name)       == [k |-> "dict", name |-> name]
\* An enumeration: its supported strings, in the order of the list, the strings it
\* knows but does not support, and its name in an error.
Enum(name, supported, unsupported) ==
  [k |-> "enum", name |-> name, supported |-> supported, unsupported |-> unsupported]

\* Members of a dictionary.
Required(type, name)     == [name |-> name, type |-> type, need |-> "required", default |-> <<>>]
Optional(type, name)     == [name |-> name, type |-> type, need |-> "optional", default |-> <<>>]
Default(type, name, d)   == [name |-> name, type |-> type, need |-> "default", default |-> Just(d)]

ToBoolean(v) ==
  CASE v.t = "boolean"                       -> v.v
    [] v.t = "number"                        -> v.v # 0
    [] v.t = "string"                        -> v.v # ""
    [] OTHER                                 -> v.t \notin {"undefined", "null", "nan"}

ToText(v) ==
  CASE v.t = "string"  -> v.v
    [] v.t = "number"  -> ToString(v.v \div 2)
    [] v.t = "boolean" -> ToString(v.v)
    [] OTHER           -> v.t

FromBool(v)   == Valid(ToBoolean(v))
FromDouble(v) == IF IsNumber(v) THEN Valid(v) ELSE Invalid(<<"Expected a double">>)
FromString(v) == IF v.t = "symbol" THEN Thrown ELSE Valid(ToText(v))
\* A string that is going to be taken apart: a sequence of tokens.
FromText(v)   == MapV(FromString(v), IF v.t = "string" THEN v.v ELSE <<ToText(v)>>)

\* What is left of a number of halves when its fraction is cut off.
Whole(n) == IF n < 0 THEN - ((- n) \div 2) ELSE n \div 2

\* The largest number that the comparison of a double with UINTw_MAX lets through.  As
\* a double, the largest number of 64 bits is one more than itself: 2^64.
\* Fault: so it is for every width.
FaultMostUnsigned(w) == 2 ^ Bits[w]
MostUnsigned(w) == IF w = 64 THEN 2 ^ Bits[w] ELSE 2 ^ Bits[w] - 1
MostSigned(w) == IF w = 64 THEN 2 ^ (Bits[w] - 1) ELSE 2 ^ (Bits[w] - 1) - 1

\* No comparison with NaN is true, so it gets through.  At 64 bits the static_cast of
\* NaN and of 2^64 is undefined: cast is what the build makes of it.  The other widths
\* are taken modulo 2^w from an integer in which NaN is zero.
FromUnsigned(w, v, cast) ==
  CASE v.t = "nan" -> Valid(IF w = 64 THEN cast ELSE 0)
    [] v.t = "number" /\ 0 <= v.v /\ v.v <= 2 * MostUnsigned(w) ->
         Valid(IF w = 64 /\ Whole(v.v) = 2 ^ Bits[w] THEN cast ELSE Whole(v.v) % 2 ^ Bits[w])
    [] OTHER -> Invalid(<<"Expected an unsigned integer">>)

\* 2^63 gets through as well; Int64Value gives the nearest integer of 64 bits.
FromSigned(w, v) ==
  LET largest == 2 ^ (Bits[w] - 1) - 1
  IN  CASE v.t = "nan" -> Valid(0)
        [] v.t = "number" /\ -2 * (largest + 1) <= v.v /\ v.v <= 2 * MostSigned(w) ->
             Valid(IF Whole(v.v) <= largest THEN Whole(v.v) ELSE largest)
        [] OTHER -> Invalid(<<"Expected an integer">>)

\* static_cast<int> of an unsigned 32-bit or 64-bit integer.
CastInt(n) ==
  LET m == n % (2 ^ Bits[32])
  IN  IF m < 2 ^ (Bits[32] - 1) THEN m ELSE m - 2 ^ Bits[32]

\* A double as an int.  It is undefined what becomes of a double that int does not hold.
DoubleToInt(d, cast) ==
  IF d.t = "number" /\ CastInt(Whole(d.v)) = Whole(d.v) THEN Whole(d.v) ELSE CastInt(cast)

FromObject(v) == IF IsObject(v) THEN Valid(v) ELSE Invalid(<<"Expected an object">>)
FromFunction(v) == IF v.t = "function" THEN Valid(v) ELSE Invalid(<<"Expected a function">>)

\* A wrapped object, by its class.
FromInstance(class, v) ==
  FlatMap(FromObject(v),
    IF v.t = "instance" /\ v.of = class THEN Valid(v.v) ELSE Invalid(<<"Not an instance of " \o class>>))

\* The whole buffer, whatever part of it the typed array shows.
FromArrayBuffer(v) ==
  CASE v.t = "typedarray"  -> Valid(v.of)
    [] v.t = "arraybuffer" -> Valid(v.v)
    [] OTHER               -> Invalid(<<"Expected an ArrayBuffer">>)

\* Fault: no error when the string is unknown.
FaultEnumFromString(e, s) ==
  CASE s \in ToSet(e.supported)   -> Valid(s)
    [] s \in ToSet(e.unsupported) -> Invalid(<<s>>)
    [] OTHER                      -> Invalid(<<>>)
EnumFromString(e, s) ==
  CASE s \in ToSet(e.supported)   -> Valid(s)
    [] s \in ToSet(e.unsupported) -> Invalid(<<s>>)
    [] OTHER                      -> Invalid(<<e.name>>)
FromEnum(e, v) == FlatMap(FromString(v), EnumFromString(e, ToText(v)))

\* An array is converted until its first bad element; results are those of its elements.
FromVector(v, results) ==
  LET bad == SelectInSeq(results, LAMBDA r : ~IsValid(r))
  IN  IF v.t # "array" THEN Invalid(<<"Expected an array">>)
      ELSE IF bad # 0 THEN results[bad]
      ELSE Valid([i \in DOMAIN results |-> results[i].value])

\* Both alternatives are tried; when neither fits, the errors are the second one's.
FromEither(l, r) ==
  IF "thrown" \in {l.is, r.is} THEN Thrown ELSE Or(MapV(l, Left(l.value)), MapV(r, Right(r.value)))

\* The property p of o, whose value is converted with the result r.
GetRequired(o, p, r) == IF Get(o, p).t = "throws" THEN Thrown ELSE r

\* Fault: only a property that is not there is left out.
FaultLeftOut(o, p) == p \notin DOMAIN o.v
LeftOut(o, p) == Get(o, p).t = "undefined"
GetOptional(o, p, r) ==
  CASE Get(o, p).t = "throws"    -> Thrown
    [] LeftOut(o, p)             -> Valid(Nothing)
    [] OTHER                     -> MapV(r, Just(r.value))

GetDefault(o, p, r, d) ==
  LET optional == GetOptional(o, p, r)
  IN  MapV(optional, FromMaybe(optional.value, d))

GetMember(o, m, r) ==
  CASE m.need = "required" -> GetRequired(o, m.name, r)
    [] m.need = "optional" -> GetOptional(o, m.name, r)
    [] m.need = "default"  -> GetDefault(o, m.name, r, m.default[1])

\* A dictionary: an object, its members in the order of the list, every error collected.
\* The function that makes (and may refuse) the C++ value is given the arguments bound.
FromDictionary(v, list, results) ==
  FlatMap(FromObject(v), Curried([i \in DOMAIN list |-> GetMember(v, list[i], results[i])]))

\* The arguments of a method, all errors collected.  The method throws, or rejects with,
\* the first of them.
Argument(info, i) == IF i \in DOMAIN info THEN info[i] ELSE Undefined
FromArguments(results) == Curried(results)

\* To JavaScript.  Properties are set one by one; what is Nothing here is left out.
SetAll(pairs) ==
  LET set == SelectSeq(pairs, LAMBDA p : IsJust(p[2]))
  IN  Obj([n \in {set[i][1] : i \in DOMAIN set} |->
             LET i == CHOOSE j \in DOMAIN set : set[j][1] = n IN set[i][2][1]])
ToVector(values) == Arr(values)
=============================================================================
