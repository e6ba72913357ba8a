----------------------------- MODULE Validation -----------------------------
(***************************************************************************)
(* The sum types of src/src/functional: Validation (a value or the errors  *)
(* that were found), Maybe and Either, and currying.  A C++ exception of   *)
(* N-API leaves a conversion altogether: that is the third outcome here.   *)
(*                                                                         *)
(* A curried function that has been applied to some arguments is the       *)
(* sequence of those arguments; the function itself is run when the last   *)
(* one has been bound.                                                     *)
(***************************************************************************)
EXTENDS Naturals, Sequences

Valid(v)     == [is |-> "valid", value |-> v, errors |-> <<>>]
Invalid(es)  == [is |-> "invalid", value |-> <<>>, errors |-> es]
Thrown       == [is |-> "thrown", value |-> <<>>, errors |-> <<>>]
IsValid(a)   == a.is = "valid"

\* What the function gives for a.value is b; if a is not valid, it is not called.
MapV(a, b)          == IF IsValid(a) THEN Valid(b) ELSE a
FlatMap(a, b)       == IF IsValid(a) THEN b ELSE a
Or(a, b)            == IF IsValid(a) THEN a ELSE b

\* Fault: the errors of the argument come before those collected so far.
FaultApply(f, a) ==
  IF "thrown" \in {f.is, a.is} THEN Thrown
  ELSE IF f.is = "invalid" THEN Invalid(a.errors \o f.errors)
  ELSE MapV(a, Append(f.value, a.value))

\* f * a: bind one more argument, or collect one more list of errors.
Apply(f, a) ==
  IF "thrown" \in {f.is, a.is} THEN Thrown
  ELSE IF f.is = "invalid" THEN Invalid(f.errors \o a.errors)
  ELSE MapV(a, Append(f.value, a.value))

\* curry(fn) % as[1] * as[2] * ...: the arguments bound, or every error.
Curried(as) ==
  LET bound[n \in 0 .. Len(as)] ==
        IF n = 0 THEN Valid(<<>>) ELSE Apply(bound[n - 1], as[n])
  IN  bound[Len(as)]

Nothing              == <<>>
Just(v)              == <<v>>
IsJust(m)            == m # <<>>
FromMaybe(m, d)      == IF IsJust(m) THEN m[1] ELSE d
MaybeMap(m, b)       == IF IsJust(m) THEN Just(b) ELSE m

Left(v)              == [right |-> FALSE, v |-> v]
Right(v)             == [right |-> TRUE, v |-> v]
FromLeft(e, d)       == IF e.right THEN d ELSE e.v
FromRight(e, d)      == IF e.right THEN e.v ELSE d
=============================================================================
