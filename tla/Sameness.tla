------------------------------- MODULE Sameness -------------------------------
(***************************************************************************)
(* What tells two values apart: Equals, HashKey and isIdentical            *)
(* (pkg/vm/value.go, object.go, vm.go).                                    *)
(***************************************************************************)
EXTENDS Values, TLC

(* v.Equals(w).  It is not symmetric: an integer is compared with a bool   *)
(* by its truth.                                                           *)
RECURSIVE Equals(_, _)
Equals(v, w) ==
  CASE IsInt(v) /\ Type(w) = "bool" -> Truthy(v) = Truthy(w)
    [] IsInt(v) /\ Type(w) # "bool" -> IsNumber(w) /\ ToFloat(v) = ToFloat(w)
    [] Type(v) = "float" -> Type(w) \in {"int", "float"} /\ ToFloat(v) = ToFloat(w)
    [] Type(v) = "bool" -> Type(w) \in {"int", "bool"} /\ Of(v) = Of(w)
    [] Type(v) = "tuple" -> /\ Type(w) = "tuple" /\ Len(Of(v)) = Len(Of(w))
                            /\ \A i \in DOMAIN Of(v) : Equals(Of(v)[i], Of(w)[i])
    [] OTHER -> v = w

isIdentical(v, w) == v = w

(* The keys of dicts and sets are texts.  Two characters matter in them: a *)
(* semicolon, and the four that the key of a text begins with.             *)
Semicolon == 0
Mark == 1
Letter(c) == CASE c = Semicolon -> ";" [] c = Mark -> "str:" [] OTHER -> ToString(c)

\* Mutant: without what a text begins and an element ends with.
RECURSIVE HashKeyRun(_)
HashKeyRun(v) ==
  CASE Type(v) = "tuple" ->
         <<"tuple:">> \o FlattenSeq([i \in DOMAIN Of(v) |-> HashKeyRun(Of(v)[i])])
    [] IsStr(v) -> [i \in DOMAIN Of(v) |-> Letter(Of(v)[i])]
    [] OTHER -> <<Type(v), ToString(Of(v))>>

RECURSIVE HashKey(_)
HashKey(v) ==
  CASE Type(v) = "tuple" ->
         <<"tuple:">> \o FlattenSeq([i \in DOMAIN Of(v) |-> Append(HashKey(Of(v)[i]), ";")])
    [] IsStr(v) -> <<"str:">> \o [i \in DOMAIN Of(v) |-> Letter(Of(v)[i])]
    [] OTHER -> <<Type(v), ToString(Of(v))>>
===============================================================================
