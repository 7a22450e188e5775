-------------------------------- MODULE Values --------------------------------
(***************************************************************************)
(* The values of a program, their truth and their order: Truthy and        *)
(* LessThan (pkg/vm/value.go, object.go, builtins.go).                     *)
(*                                                                         *)
(* A value is its type and what it holds.  A float is counted in quarters; *)
(* a text is the sequence of its characters, as numbers; a tuple holds     *)
(* values.  complex, bytes and what is told apart by its address only are  *)
(* left out.                                                               *)
(***************************************************************************)
EXTENDS Slices

IntValue(i)    == <<"int", i>>
FloatValue(q)  == <<"float", q>>
BoolValue(b)   == <<"bool", IF b THEN 1 ELSE 0>>
StringValue(s) == <<"str", s>>
NewTuple(vs)   == <<"tuple", vs>>
NoneVal        == <<"NoneType", 0>>

Type(v) == v[1]
Of(v)   == v[2]
IsInt(v) == Type(v) = "int"
IsStr(v) == Type(v) = "str"

IsNumber(v) == Type(v) \in {"int", "float", "bool"}

(* A number as a float, in quarters, and as an integer, towards zero.      *)
ToFloat(v) == IF Type(v) = "float" THEN Of(v) ELSE 4 * Of(v)

ToInt(v) == IF Type(v) = "float" THEN Truncate(Of(v), 4) ELSE Of(v)

Truthy(v) == CASE IsNumber(v) -> Of(v) # 0
               [] IsStr(v) \/ Type(v) = "tuple" -> Of(v) # <<>>
               [] Type(v) = "NoneType" -> FALSE

-------------------------------------------------------------------------------
(* The order of texts, by their first difference.                          *)
Before(s, t) ==
  \E n \in 0 .. Len(t) - 1 :
    /\ n <= Len(s)
    /\ SubSeq(s, 1, n) = SubSeq(t, 1, n)
    /\ n = Len(s) \/ (n < Len(s) /\ s[n + 1] < t[n + 1])

LessThan(v, w) ==
  \/ IsNumber(v) /\ IsNumber(w) /\ ToFloat(v) < ToFloat(w)
  \/ IsStr(v) /\ IsStr(w) /\ Before(Of(v), Of(w))
===============================================================================
