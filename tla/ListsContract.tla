---------------------------- MODULE ListsContract ----------------------------
(***************************************************************************)
(* What lists, tuples and iterators promise to a program that does not     *)
(* know of arrays.  Each object has elements of its own, and an operation  *)
(* on one does to them what its name says.  Objects are kin that were made *)
(* from each other by list(), tuple(), iteration or a starred target: what *)
(* changes one may put other elements into its kin, though never more or   *)
(* fewer.  It changes nothing else.                                        *)
(***************************************************************************)
EXTENDS Slices

CONSTANTS Objects, Elems, MaxLen, Bounds, Cuts

VARIABLES kind, contents, kin, call

cvars == <<kind, contents, kin, call>>

Init ==
  /\ call = <<>>
  /\ kind = [o \in Objects |-> "free"]
  /\ contents = [o \in Objects |-> <<>>]
  /\ kin = [o \in Objects |-> {o}]

IsList(o) == kind[o] = "list"
Live(o) == kind[o] # "free"
Length(o) == Len(contents[o])

Leaves(p) == contents'[p] = contents[p]
Disturbs(p) == Len(contents'[p]) = Len(contents[p]) /\ ToSet(contents'[p]) \subseteq Elems

(* Object o has elements s, and knows who may notice.                      *)
Becomes(o, s) ==
  /\ contents'[o] = s
  /\ \A p \in Objects \ {o} : IF p \in kin[o] THEN Disturbs(p) ELSE Leaves(p)

Alone(o) == kin' = [p \in Objects |-> IF p = o THEN {o} ELSE kin[p] \ {o}]

Changes(o, s) == IsList(o) /\ UNCHANGED <<kind, kin>> /\ Becomes(o, s)

(* Object o has elements s that no other object knows of.                  *)
Renews(o, k, s) ==
  /\ kind' = [kind EXCEPT ![o] = k]
  /\ Alone(o)
  /\ contents' = [contents EXCEPT ![o] = s]

IsNew(p, k, s) == ~Live(p) /\ Renews(p, k, s)

Shares(p, k, o, s) ==
  /\ Live(o) /\ ~Live(p)
  /\ kind' = [kind EXCEPT ![p] = k]
  /\ contents' = [contents EXCEPT ![p] = s]
  /\ kin' = [q \in Objects |-> IF q \in kin[o] \cup {p} THEN kin[o] \cup {p} ELSE kin[q]]

-------------------------------------------------------------------------------
Place(o, i) == FromEnd(i, Length(o)) + 1

(* The elements of s in another order, and in ascending order.             *)
Arrangements(s) == {[i \in DOMAIN s |-> s[p[i]]] : p \in Bijection(DOMAIN s, DOMAIN s)}
Ascending(t) == \A i, j \in DOMAIN t : i < j => t[i] <= t[j]

AppendItem(o, x) == Changes(o, Append(contents[o], x))
Extend(o, p) == Changes(o, contents[o] \o contents[p])
Delete(o, i) == Place(o, i) \in DOMAIN contents[o] /\ Changes(o, RemoveAt(contents[o], Place(o, i)))
RemoveValue(o, x) ==
  /\ x \in ToSet(contents[o])
  /\ Changes(o, RemoveFirst(contents[o], x))
Insert(o, i, x) ==
  Changes(o, InsertAt(contents[o], InLength(FromEnd(i, Length(o)), Length(o)) + 1, x))
SetIndex(o, i, x) ==
  /\ Place(o, i) \in DOMAIN contents[o]
  /\ Changes(o, [contents[o] EXCEPT ![Place(o, i)] = x])
ReverseList(o) == Changes(o, Reverse(contents[o]))
Sort(o) == \E t \in Arrangements(contents[o]) : Ascending(t) /\ Changes(o, t)
Clear(o) == IsList(o) /\ Renews(o, "list", <<>>)
SetSlice(o, b, p) ==
  /\ IsList(o)
  /\ Renews(o, "list", SubSeq(contents[o], 1, Low(b[1], Length(o))) \o contents[p]
       \o SubSeq(contents[o], High(b[1], b[2], Length(o)) + 1, Length(o)))

Build(p, k, s) == IsNew(p, k, s)
Copy(o, p) == IsList(o) /\ IsNew(p, "list", contents[o])
Concatenate(o, q, p) == IsNew(p, "list", contents[o] \o contents[q])
Repeat(o, n, p) == IsNew(p, "list", Times(contents[o], n))
Slice(o, b, p) == IsNew(p, kind[o], evalSlice(contents[o], b[1], b[2], b[3]))
Sorted(o, p) ==
  \E t \in Arrangements(contents[o]) : Ascending(t) /\ IsNew(p, "list", t)
Reversed(o, p) == IsNew(p, "iterator", Reverse(contents[o]))

Share(o, k, p) == Shares(p, k, o, contents[o])
UnpackRest(o, before, after, p) ==
  /\ before + after <= Length(o)
  /\ Shares(p, "list", o, SubSeq(contents[o], before + 1, Length(o) - after))

ForIter(o) ==
  /\ kind[o] = "iterator" /\ contents[o] # <<>>
  /\ UNCHANGED <<kind, kin>>
  /\ contents' = [contents EXCEPT ![o] = Tail(@)]
Forget(o) == Live(o) /\ Renews(o, "free", <<>>)

-------------------------------------------------------------------------------
Called(c) == call' = c

Mutate(o) ==
  \/ \E x \in Elems : Called(<<"append", o, x>>) /\ AppendItem(o, x)
  \/ \E x \in Elems : Called(<<"remove", o, x>>) /\ RemoveValue(o, x)
  \/ \E p \in Objects : Called(<<"extend", o, p>>) /\ Extend(o, p)
  \/ \E i \in Bounds : (Called(<<"pop", o, i>>) \/ Called(<<"del", o, i>>)) /\ Delete(o, i)
  \/ \E i \in Bounds, x \in Elems : Called(<<"insert", o, i, x>>) /\ Insert(o, i, x)
  \/ \E i \in Bounds, x \in Elems : Called(<<"set", o, i, x>>) /\ SetIndex(o, i, x)
  \/ Called(<<"reverse", o>>) /\ ReverseList(o)
  \/ Called(<<"sort", o>>) /\ Sort(o)
  \/ Called(<<"clear", o>>) /\ Clear(o)
  \/ \E b \in Cuts, p \in Objects : Called(<<"setslice", o, b, p>>) /\ SetSlice(o, b, p)
  \/ Called(<<"next", o>>) /\ ForIter(o)
  \/ Called(<<"forget", o>>) /\ Forget(o)

Make(o, p) ==
  \/ Called(<<"copy", o, p>>) /\ Copy(o, p)
  \/ \E q \in Objects : Called(<<"+", o, q, p>>) /\ Concatenate(o, q, p)
  \/ \E n \in 0..2 : Called(<<"*", o, n, p>>) /\ Repeat(o, n, p)
  \/ \E b \in Cuts : Called(<<"slice", o, b, p>>) /\ Slice(o, b, p)
  \/ Called(<<"sorted", o, p>>) /\ Sorted(o, p)
  \/ Called(<<"reversed", o, p>>) /\ Reversed(o, p)
  \/ \E k \in {"list", "tuple", "iterator"} : Called(<<"share", o, k, p>>) /\ Share(o, k, p)
  \/ \E before, after \in 0..MaxLen :
       Called(<<"unpack", o, before, after, p>>) /\ UnpackRest(o, before, after, p)

BuildSome(p) ==
  \E k \in {"list", "tuple"}, n \in 0..MaxLen : \E s \in [1..n -> Elems] :
    Called(<<"build", p, k, s>>) /\ Build(p, k, s)

Next == \E o \in Objects : Mutate(o) \/ BuildSome(o) \/ \E p \in Objects : Make(o, p)

Spec == Init /\ [][Next]_cvars
===============================================================================
