------------------------------- MODULE Sorting --------------------------------
(***************************************************************************)
(* min, max and sorted (builtins.go) of a list that is not empty.          *)
(***************************************************************************)
EXTENDS Values

(* A list of any values, of which what is compared has its type.           *)
IsRow(items) ==
  /\ items # <<>> /\ items \in Seq(ToSet(items))
  /\ \A v \in ToSet(items) : /\ IsNumber(v) => Of(v) \in Int
                             /\ IsStr(v) => Of(v) \in Seq(Int)

Precedes(v, w, reverse) == IF reverse THEN LessThan(w, v) ELSE LessThan(v, w)

(* min and max (reverse) keep the first that no later one precedes.        *)
Extreme(items, reverse) ==
  LET upTo[n \in 1 .. Len(items)] ==
        IF n = 1 THEN items[1]
        ELSE IF Precedes(items[n], upTo[n - 1], reverse) THEN items[n] ELSE upTo[n - 1]
  IN  upTo[Len(items)]

builtinMin(items) == Extreme(items, FALSE)
builtinMax(items) == Extreme(items, TRUE)

-------------------------------------------------------------------------------
\* Mutant: in front of what is equal, too.
BehindLess(sorted, v, reverse) ==
  {i \in 1 .. Len(sorted) : Precedes(sorted[i], v, reverse)}

(* sorted and sort: the host's stable sort, which for few elements puts    *)
(* one after the other in front of all that it is less than, from the end: *)
(* behind the last one that it does not precede.                           *)
Behind(sorted, v, reverse) ==
  {i \in 1 .. Len(sorted) : ~Precedes(v, sorted[i], reverse)}

InsertIn(sorted, v, reverse) ==
  InsertAt(sorted, Max(Behind(sorted, v, reverse) \cup {0}) + 1, v)

builtinSorted(items, reverse) ==
  LET upTo[n \in 0 .. Len(items)] ==
        IF n = 0 THEN <<>> ELSE InsertIn(upTo[n - 1], items[n], reverse)
  IN  upTo[Len(items)]
===============================================================================
