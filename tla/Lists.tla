-------------------------------- MODULE Lists --------------------------------
(***************************************************************************)
(* Lists, tuples and iterators in memory.  Each holds a Go slice: a window *)
(* on an array (ListObject.Elements, TupleObject.Elements,                 *)
(* IteratorObject.Items in pkg/vm/object.go).  Most operations give the    *)
(* object they make an array of its own; list(), tuple(), a starred target *)
(* and the iterator of a loop do not, and from then on several objects     *)
(* look at one array, in which the methods of a list move and overwrite    *)
(* elements in place.                                                      *)
(*                                                                         *)
(* An array that no object looks at is free again, and the slots of one    *)
(* that no object looks at are not told apart.                             *)
(***************************************************************************)
EXTENDS Slices, FiniteSets

CONSTANTS Objects,   \* bound: lists, tuples and iterators at a time, as numbers
          Arrays,    \* bound: arrays at a time, as numbers above 0
          Elems,     \* what may be an element, as numbers
          Nil,       \* a slot of an array that was never written
          MaxLen,    \* bound: elements of an object
          MaxSpare,  \* bound: slots that append allocates and does not need
          Bounds,    \* bound: the indices that are tried
          Cuts       \* bound: the slices that are tried, as <<start, end, step>>

ASSUME ListsAssumption ==
  /\ Objects \subseteq Nat
  /\ Arrays \subseteq Nat \ {0}
  /\ Elems \subseteq Int
  /\ Nil \notin Elems
  /\ MaxLen \in Nat
  /\ MaxSpare \in Nat
  /\ Bounds \subseteq Ints
  /\ None \notin Ints
  /\ Cuts \subseteq (Ints \cup {None}) \X (Ints \cup {None}) \X (Ints \cup {None})

VARIABLES kind, \* of an object: "list", "tuple" or "iterator"; "free" if there is none
          at,   \* its slice: array arr, from behind lo up to hi
          mem,  \* the arrays
          call, \* the operation carried out last, with its arguments
          kin   \* the objects it has shared an array with since it was made
                \* or last cleared or assigned a slice; only recorded here

vars == <<kind, at, mem, call, kin>>

(* A slice of no capacity, in no array.                                    *)
NoArray == 0
Nowhere == [arr |-> NoArray, lo |-> 0, hi |-> 0]

-------------------------------------------------------------------------------
(* What a slice shows, its length and its capacity.                        *)
Shown(s) == SubSeq(mem[s.arr], s.lo + 1, s.hi)
Length(s) == s.hi - s.lo
Cap(s) == Len(mem[s.arr]) - s.lo

Elements(o) == Shown(at[o])

IsList(o) == kind[o] = "list"
Live(o) == kind[o] # "free"

Unused == {a \in Arrays : \A o \in Objects : at[o].arr # a}
Least(S, x) == x \in S /\ \A y \in S : x <= y

(* A slice of its own, with the elements given and a capacity.             *)
Made(a, items, cap) ==
  IF cap = 0 THEN [mem |-> mem, at |-> Nowhere]
  ELSE [mem |-> [mem EXCEPT ![a] =
                   [i \in 1..cap |-> IF i <= Len(items) THEN items[i] ELSE Nil]],
        at |-> [arr |-> a, lo |-> 0, hi |-> Len(items)]]

Exactly(items) == {Made(a, items, Len(items)) : a \in {b \in Arrays : Least(Unused, b)}}

(* append(): behind the slice, if the array has room, whoever else looks   *)
(* at it; otherwise in a new array, of a capacity that is Go's choice.     *)
InPlace(s, items) ==
  [mem |-> [mem EXCEPT ![s.arr] =
              [i \in DOMAIN @ |-> IF i - s.hi \in DOMAIN items THEN items[i - s.hi] ELSE @[i]]],
   at |-> [s EXCEPT !.hi = @ + Len(items)]]

Elsewhere(items) ==
  {Made(a, items, Len(items) + spare) :
     a \in {b \in Arrays : Least(Unused, b)}, spare \in 0..MaxSpare}

append(s, items) ==
  IF Length(s) + Len(items) <= Cap(s) THEN {InPlace(s, items)}
  ELSE Elsewhere(Shown(s) \o items)

(* The first elements of a slice, with its whole capacity.                 *)
Cut(s, n) == [s EXCEPT !.hi = s.lo + n]

-------------------------------------------------------------------------------
Init ==
  /\ call = <<>>
  /\ kind = [o \in Objects |-> "free"]
  /\ at = [o \in Objects |-> Nowhere]
  /\ mem = [a \in Arrays \cup {NoArray} |-> <<>>]
  /\ kin = [o \in Objects |-> {o}]

(* What is left of the arrays when the slices are h.                       *)
Kept(m, h) ==
  [a \in DOMAIN m |->
     IF \A o \in Objects : h[o].arr # a THEN <<>>
     ELSE [i \in DOMAIN m[a] |->
             IF \E o \in Objects : h[o].arr = a /\ h[o].lo < i /\ i <= h[o].hi
             THEN m[a][i] ELSE Nil]]

(* Object o has slice r.at from now on, in arrays r.mem.                   *)
Holds(o, r) ==
  /\ at' = [at EXCEPT ![o] = r.at]
  /\ mem' = Kept(r.mem, at')

(* Kin is symmetric: o and its kin are each other's.                       *)
Alone(o) ==
  kin' = [p \in Objects |-> IF p = o THEN {o} ELSE kin[p] \ {o}]

Joins(p, o) ==
  kin' = [q \in Objects |-> IF q \in kin[o] \cup {p} THEN kin[o] \cup {p} ELSE kin[q]]

Changes(o, r) == Holds(o, r) /\ UNCHANGED <<kind, kin>>

(* A new object, with an array of its own or on that of o.                 *)
Appears(p, k) ==
  /\ Least({q \in Objects : ~Live(q)}, p)
  /\ kind' = [kind EXCEPT ![p] = k]

IsNew(p, k, items, rs) ==
  /\ Len(items) <= MaxLen
  /\ Appears(p, k)
  /\ \E r \in rs : Holds(p, r)
  /\ Alone(p)

Shares(p, k, o, s) ==
  /\ Live(o)
  /\ Appears(p, k)
  /\ Holds(p, [mem |-> mem, at |-> s])
  /\ Joins(p, o)

-------------------------------------------------------------------------------
(* The methods of a list.                                                  *)
AppendItem(o, x) ==
  /\ IsList(o) /\ Length(at[o]) < MaxLen
  /\ \E r \in append(at[o], <<x>>) : Changes(o, r)

(* An iterator is not used up by it; o may be p.                           *)
Extend(o, p) ==
  /\ IsList(o) /\ Live(p)
  /\ Length(at[o]) + Length(at[p]) <= MaxLen
  /\ \E r \in append(at[o], Elements(p)) : Changes(o, r)

(* The elements behind the one at i move up to it.                         *)
Without(o, i) ==
  \E r \in append(Cut(at[o], i), SubSeq(Elements(o), i + 2, Length(at[o]))) : Changes(o, r)

HasIndex(o, i) == FromEnd(i, Length(at[o])) \in 0 .. Length(at[o]) - 1

(* pop() is pop(-1).                                                       *)
Pop(o, i) ==
  /\ IsList(o) /\ HasIndex(o, i)
  /\ Without(o, FromEnd(i, Length(at[o])))

DeleteIndex(o, i) ==
  /\ IsList(o) /\ HasIndex(o, i)
  /\ Without(o, FromEnd(i, Length(at[o])))

RemoveValue(o, x) ==
  /\ IsList(o)
  /\ \E i \in DOMAIN Elements(o) :
       /\ Elements(o)[i] = x
       /\ \A j \in 1 .. i - 1 : Elements(o)[j] # x
       /\ Without(o, i - 1)

\* Mutant: what comes behind is not copied, and the new element is in it already.
InsertUncopied(o, i, x) ==
  LET j == InLength(FromEnd(i, Length(at[o])), Length(at[o]))
      seen == [Elements(o) EXCEPT ![j + 1] = x] IN
  /\ IsList(o) /\ Length(at[o]) < MaxLen
  /\ \E r \in append(Cut(at[o], j), <<x>> \o SubSeq(seen, j + 1, Length(at[o]))) :
       Changes(o, r)

(* What comes behind is copied before it is moved.                         *)
Insert(o, i, x) ==
  LET j == InLength(FromEnd(i, Length(at[o])), Length(at[o])) IN
  /\ IsList(o) /\ Length(at[o]) < MaxLen
  /\ \E r \in append(Cut(at[o], j), <<x>> \o SubSeq(Elements(o), j + 1, Length(at[o]))) :
       Changes(o, r)

SetIndex(o, i, x) ==
  /\ IsList(o) /\ HasIndex(o, i)
  /\ Changes(o, [mem |-> InPlace(Cut(at[o], FromEnd(i, Length(at[o]))), <<x>>).mem,
                 at |-> at[o]])

(* In the array, element by element.                                       *)
Overwrite(o, items) == Changes(o, InPlace(Cut(at[o], 0), items))

ReverseList(o) == IsList(o) /\ Overwrite(o, Reverse(Elements(o)))

(* The elements in ascending order.                                        *)
Sortings(s) ==
  {t \in [DOMAIN s -> ToSet(s)] :
     /\ \A i, j \in DOMAIN t : i < j => t[i] <= t[j]
     /\ \A x \in ToSet(s) : Cardinality({i \in DOMAIN s : s[i] = x}) =
                            Cardinality({i \in DOMAIN t : t[i] = x})}

Sort(o) == IsList(o) /\ \E t \in Sortings(Elements(o)) : Overwrite(o, t)

(* These two leave the array to those who share it.                        *)
Clear(o) ==
  /\ IsList(o)
  /\ Holds(o, [mem |-> mem, at |-> Nowhere])
  /\ Alone(o)
  /\ UNCHANGED kind

Replaced(o, b, p) ==
  SubSeq(Elements(o), 1, Low(b[1], Length(at[o]))) \o Elements(p)
    \o SubSeq(Elements(o), High(b[1], b[2], Length(at[o])) + 1, Length(at[o]))

(* The step is not looked at.                                              *)
SetSlice(o, b, p) ==
  /\ IsList(o) /\ Live(p)
  /\ Len(Replaced(o, b, p)) <= MaxLen
  /\ \E r \in Exactly(Replaced(o, b, p)) : Holds(o, r)
  /\ Alone(o)
  /\ UNCHANGED kind

-------------------------------------------------------------------------------
(* What makes an object of its own.  The loops that build a result one     *)
(* element after the other leave it with a capacity that is Go's choice.   *)
ByAppends(items) == IF items = <<>> THEN {Made(NoArray, <<>>, 0)} ELSE Elsewhere(items)

BuildList(p, items) == IsNew(p, "list", items, Exactly(items))
BuildTuple(p, items) == IsNew(p, "tuple", items, Exactly(items))

Copy(o, p) == IsList(o) /\ IsNew(p, "list", Elements(o), Exactly(Elements(o)))

Concatenate(o, q, p) ==
  /\ IsList(o) /\ IsList(q)
  /\ IsNew(p, "list", Elements(o) \o Elements(q), Exactly(Elements(o) \o Elements(q)))

Repeat(o, n, p) ==
  LET items == Times(Elements(o), n) IN
  IsList(o) /\ IsNew(p, "list", items, ByAppends(items))

\* Mutant: a slice of everything is the list.
SliceOrSelf(o, b, p) ==
  /\ kind[o] \in {"list", "tuple"}
  /\ IF b = <<None, None, None>>
     THEN Appears(p, kind[o]) /\ Holds(p, [mem |-> mem, at |-> at[o]]) /\ Alone(p)
     ELSE LET items == evalSlice(Elements(o), b[1], b[2], b[3])
          IN  IsNew(p, kind[o], items, ByAppends(items))

Slice(o, b, p) ==
  LET items == evalSlice(Elements(o), b[1], b[2], b[3]) IN
  /\ kind[o] \in {"list", "tuple"}
  /\ IsNew(p, kind[o], items, ByAppends(items))

(* sorted() makes a list, reversed() an iterator.                          *)
Sorted(o, p) ==
  Live(o) /\ \E t \in Sortings(Elements(o)) : IsNew(p, "list", t, Exactly(t))

Reversed(o, p) ==
  LET items == Reverse(Elements(o)) IN
  Live(o) /\ IsNew(p, "iterator", items, Exactly(items))

-------------------------------------------------------------------------------
(* What does not: list(), tuple(), a loop's iterator (OpGetIter), and the  *)
(* starred target of an assignment (OpUnpackRest).                         *)
builtinList(o, p) == Shares(p, "list", o, at[o])
builtinTuple(o, p) == Shares(p, "tuple", o, at[o])
GetIter(o, p) == Shares(p, "iterator", o, at[o])

\* Mutant: the elements behind the starred target are counted from its start.
UnpackRestShifted(o, before, after, p) ==
  /\ before + after <= Length(at[o])
  /\ Shares(p, "list", o, [at[o] EXCEPT !.lo = @ + before, !.hi = @ - after + before])

UnpackRest(o, before, after, p) ==
  /\ before + after <= Length(at[o])
  /\ Shares(p, "list", o, [arr |-> at[o].arr, lo |-> at[o].lo + before, hi |-> at[o].hi - after])

(* OpForIter and next(): an iterator gives its first element.              *)
ForIter(o) ==
  /\ kind[o] = "iterator" /\ Length(at[o]) > 0
  /\ Changes(o, [mem |-> mem, at |-> [at[o] EXCEPT !.lo = @ + 1]])

(* The program forgets an object.                                          *)
Forget(o) ==
  /\ Live(o)
  /\ kind' = [kind EXCEPT ![o] = "free"]
  /\ Holds(o, [mem |-> mem, at |-> Nowhere])
  /\ Alone(o)

-------------------------------------------------------------------------------
(* Each operation is recorded with its arguments.                          *)
Called(c) == call' = c

Mutate(o) ==
  \/ \E x \in Elems : AppendItem(o, x) /\ Called(<<"append", o, x>>)
  \/ \E x \in Elems : RemoveValue(o, x) /\ Called(<<"remove", o, x>>)
  \/ \E p \in Objects : Extend(o, p) /\ Called(<<"extend", o, p>>)
  \/ \E i \in Bounds : Pop(o, i) /\ Called(<<"pop", o, i>>)
  \/ \E i \in Bounds : DeleteIndex(o, i) /\ Called(<<"del", o, i>>)
  \/ \E i \in Bounds, x \in Elems : Insert(o, i, x) /\ Called(<<"insert", o, i, x>>)
  \/ \E i \in Bounds, x \in Elems : SetIndex(o, i, x) /\ Called(<<"set", o, i, x>>)
  \/ ReverseList(o) /\ Called(<<"reverse", o>>)
  \/ Sort(o) /\ Called(<<"sort", o>>)
  \/ Clear(o) /\ Called(<<"clear", o>>)
  \/ \E b \in Cuts, p \in Objects : SetSlice(o, b, p) /\ Called(<<"setslice", o, b, p>>)
  \/ ForIter(o) /\ Called(<<"next", o>>)
  \/ Forget(o) /\ Called(<<"forget", o>>)

Make(o, p) ==
  \/ Copy(o, p) /\ Called(<<"copy", o, p>>)
  \/ \E q \in Objects : Concatenate(o, q, p) /\ Called(<<"+", o, q, p>>)
  \/ \E n \in 0..2 : Repeat(o, n, p) /\ Called(<<"*", o, n, p>>)
  \/ \E b \in Cuts : Slice(o, b, p) /\ Called(<<"slice", o, b, p>>)
  \/ Sorted(o, p) /\ Called(<<"sorted", o, p>>)
  \/ Reversed(o, p) /\ Called(<<"reversed", o, p>>)

Share(o, p) ==
  \/ builtinList(o, p) /\ Called(<<"share", o, "list", p>>)
  \/ builtinTuple(o, p) /\ Called(<<"share", o, "tuple", p>>)
  \/ GetIter(o, p) /\ Called(<<"share", o, "iterator", p>>)
  \/ \E before, after \in 0..MaxLen :
       UnpackRest(o, before, after, p) /\ Called(<<"unpack", o, before, after, p>>)

Build(p) ==
  \E n \in 0..MaxLen : \E items \in [1..n -> Elems] :
    \/ BuildList(p, items) /\ Called(<<"build", p, "list", items>>)
    \/ BuildTuple(p, items) /\ Called(<<"build", p, "tuple", items>>)

Next == \E o \in Objects : Mutate(o) \/ Build(o) \/ \E p \in Objects : Make(o, p) \/ Share(o, p)

Spec == Init /\ [][Next]_vars

-------------------------------------------------------------------------------
Kinds == {"free", "list", "tuple", "iterator"}
Windows == [arr : Arrays \cup {NoArray}, lo : Nat, hi : Nat]
Memories == [Arrays \cup {NoArray} -> Seq(Elems \cup {Nil})]

(* In arrays m, slice s lies in its array and shows no slot that was not   *)
(* written.                                                                *)
Fits(m, s) ==
  /\ s.lo <= s.hi /\ s.hi <= Len(m[s.arr])
  /\ s.hi - s.lo <= MaxLen
  /\ \A i \in s.lo + 1 .. s.hi : m[s.arr][i] \in Elems

(* What is not in use is empty and has no kin; kin is mutual.              *)
TypeOK ==
  /\ kind \in [Objects -> Kinds]
  /\ at \in [Objects -> Windows]
  /\ mem \in Memories
  /\ mem[NoArray] = <<>>
  /\ kin \in [Objects -> SUBSET Objects]
  /\ \A o \in Objects :
       /\ Fits(mem, at[o])
       /\ kind[o] = "free" => at[o] = Nowhere /\ kin[o] = {o}
       /\ o \in kin[o]
       /\ \A p \in kin[o] : kin[p] = kin[o]

(* Objects that look at one array know of each other: the four operations  *)
(* that share arrays are the only ones, whatever was done since.           *)
SharersAreKin ==
  \A o, p \in Objects : at[o].arr = at[p].arr /\ at[o].arr # NoArray => p \in kin[o]

(* In one step only kin get other elements, and only one object gets more  *)
(* or fewer: an iterator stays in bounds, and goes on where it was, however *)
(* the list it goes through is changed meanwhile.                          *)
OnlyKinNotice ==
  [][\A o, p \in Objects :
       /\ Elements(o)' # Elements(o) /\ Elements(p)' # Elements(p) => p \in kin[o]
       /\ Length(at[o])' # Length(at[o]) /\ Length(at[p])' # Length(at[p]) => p = o]_vars

(* Lists in memory implement lists as a program thinks of them.            *)
C == INSTANCE ListsContract WITH contents <- [o \in Objects |-> Elements(o)]
ImplementsContract == C!Spec
===============================================================================
