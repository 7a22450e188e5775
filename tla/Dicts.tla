-------------------------------- MODULE Dicts --------------------------------
(***************************************************************************)
(* Dicts and sets (DictObject, SetObject and FrozensetObject in            *)
(* pkg/vm/object.go) and their methods (callDictMethod and callSetMethod   *)
(* in builtins.go).  Both are maps from hash keys: of a dict to a key and  *)
(* a value, of a set to an element.                                        *)
(*                                                                         *)
(* The host goes through a map in any order, so what a method collects     *)
(* from one is a set here, of which a program sees some order.             *)
(***************************************************************************)
EXTENDS Sameness

Nothing == <<>>

(* A method gives back a value, and leaves its receiver as it is said.     *)
Gives(value, left) == [gives |-> value, left |-> left]
KeyError == <<"raises", "KeyError">>

-------------------------------------------------------------------------------
Has(d, key) == HashKey(key) \in DOMAIN d

Get(d, key) == d[HashKey(key)].value

\* Mutant: a pair of the same key stays.
SetDefaultOnly(d, key, value) == d @@ (HashKey(key) :> [key |-> key, value |-> value])

Set(d, key, value) == (HashKey(key) :> [key |-> key, value |-> value]) @@ d

Without(map, key) == [h \in DOMAIN map \ {HashKey(key)} |-> map[h]]

(* OpBuildDict, dict(), the comprehension's OpDictAdd: pair after pair.    *)
NewDict(pairs) == FoldLeft(LAMBDA d, p : Set(d, p[1], p[2]), Nothing, pairs)

Pairs(d) == {<<d[h].key, d[h].value>> : h \in DOMAIN d}

(* update and copy: the other's pairs, in any order, as their keys differ. *)
Updated(d, other) == [h \in DOMAIN other |-> other[h]] @@ d

callDictMethod(d, name, key, value, other) ==
  CASE name = "keys"   -> Gives({p[1] : p \in Pairs(d)}, d)
    [] name = "values" -> Gives({p[2] : p \in Pairs(d)}, d)
    [] name = "items"  -> Gives(Pairs(d), d)
    [] name = "get"    -> Gives(IF Has(d, key) THEN Get(d, key) ELSE NoneVal, d)
    [] name = "pop"    -> Gives(IF Has(d, key) THEN Get(d, key) ELSE KeyError, Without(d, key))
    [] name = "get or" -> Gives(IF Has(d, key) THEN Get(d, key) ELSE value, d)
    [] name = "pop or" -> Gives(IF Has(d, key) THEN Get(d, key) ELSE value, Without(d, key))
    [] name = "update" -> Gives(NoneVal, Updated(d, other))
    [] name = "setdefault" -> IF Has(d, key) THEN Gives(Get(d, key), d)
                              ELSE Gives(value, Set(d, key, value))
    [] name = "clear"  -> Gives(NoneVal, Nothing)
    [] name = "copy"   -> Gives(Pairs(Updated(Nothing, d)), d)
    [] name = "[]"     -> Gives(IF Has(d, key) THEN Get(d, key) ELSE KeyError, d)
    [] name = "set"    -> Gives(NoneVal, Set(d, key, value))
    [] name = "del"    -> Gives(NoneVal, Without(d, key))
    [] name = "in"     -> Gives(Has(d, key), d)
    [] name = "=="     -> Gives(/\ DOMAIN d = DOMAIN other
                                /\ \A h \in DOMAIN d : Equals(d[h].value, other[h].value), d)

DictMethods == {"keys", "values", "items", "get", "pop", "update", "setdefault", "clear",
                "copy", "[]", "set", "del", "in", "==", "get or", "pop or"}

-------------------------------------------------------------------------------
Add(s, element) == (HashKey(element) :> element) @@ s

(* OpBuildSet, set(), frozenset().                                         *)
NewSet(elements) == FoldLeft(LAMBDA s, e : Add(s, e), Nothing, elements)

Members(s) == {s[h] : h \in DOMAIN s}

Kept(s, Keeps(_)) == [h \in {k \in DOMAIN s : Keeps(k)} |-> s[h]]

(* The element that the host goes to first: the one given, if it is there. *)
FirstOf(s, element) ==
  IF HashKey(element) \in DOMAIN s THEN HashKey(element) ELSE CHOOSE h \in DOMAIN s : TRUE

(* The argument of a method is what it iterates over: other is a sequence. *)
callSetMethod(s, name, element, other) ==
  LET om == {HashKey(e) : e \in ToSet(other)}
      in(h) == h \in om
      out(h) == h \notin om
  IN  CASE name = "add"     -> Gives(NoneVal, Add(s, element))
        [] name = "remove"  -> IF HashKey(element) \in DOMAIN s
                               THEN Gives(NoneVal, Without(s, element)) ELSE Gives(KeyError, s)
        [] name = "discard" -> Gives(NoneVal, Without(s, element))
        [] name = "pop"     -> IF s = Nothing THEN Gives(KeyError, s)
                               ELSE Gives(s[FirstOf(s, element)], Without(s, s[FirstOf(s, element)]))
        [] name = "clear"   -> Gives(NoneVal, Nothing)
        [] name = "union"   -> Gives(Members(FoldLeft(Add, s, other)), s)
        [] name = "intersection" -> Gives(Members(Kept(s, in)), s)
        [] name = "difference"   -> Gives(Members(Kept(s, out)), s)
        [] name = "issubset"     -> Gives(DOMAIN s \subseteq om, s)
        [] name = "issuperset"   -> Gives(om \subseteq DOMAIN s, s)
        [] name = "in"           -> Gives(HashKey(element) \in DOMAIN s, s)
        [] name = "=="           -> Gives(DOMAIN s = DOMAIN NewSet(other), s)

SetMethods == {"add", "remove", "discard", "pop", "clear", "union", "intersection", "difference",
               "issubset", "issuperset", "in", "=="}
===============================================================================
