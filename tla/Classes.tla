------------------------------ MODULE Classes -------------------------------
(***************************************************************************)
(* Classes with several bases: the order in which the classes an instance  *)
(* inherits from are searched (computeMRO in pkg/vm/object.go), the search *)
(* itself, and methods that call super() (builtinSuper in builtins.go).    *)
(*                                                                         *)
(* A class statement makes a new class of classes made before; neither its *)
(* bases nor its methods change afterwards (an assignment to an attribute  *)
(* of a class goes elsewhere).  An instance has one method called, which   *)
(* may call the method of the same name through super(), and so on.        *)
(***************************************************************************)
EXTENDS Integers, SequencesExt, Functions, FiniteSets

CONSTANTS Classes,    \* bound: the classes that may be made
          Methods,    \* names of methods
          MayHave,    \* bound: of each class, the methods it may have
          MaxBases,   \* bound: the bases of one class
          MaxDepth,   \* the frames a machine has for method calls
          SuperForms, \* how methods call super: a subset of Forms
          Nobody      \* no class

Forms == {"explicit", \* super(C, self), where C is the class it is written in
          "bare"}     \* super()

ASSUME ClassesAssumption ==
  /\ IsFiniteSet(Classes) /\ Nobody \notin Classes
  /\ MayHave \in [Classes -> SUBSET Methods]
  /\ MaxBases \in Nat
  /\ MaxDepth \in Nat \ {0}
  /\ SuperForms \subseteq Forms

VARIABLES made,    \* the classes made so far
          bases,   \* ClassObject.Bases
          mro,     \* ClassObject.MRO
          methods, \* the names in ClassObject.Methods
          self,    \* the class of the instance a method was called of
          name,    \* the name of that method
          chain,   \* the classes whose methods of that name are running,
                   \* each called by the one before through super
          forms    \* the forms of super used since; only recorded here

vars == <<made, bases, mro, methods, self, name, chain, forms>>

-------------------------------------------------------------------------------
(* computeMRO.  What is left of a sequence may be empty: the loop passes    *)
(* over it.  A head is good if it is in the tail of no sequence; the first *)
(* good one is taken, from all sequences that it is the head of.           *)
IsGood(x, seqs) == \A i \in DOMAIN seqs : \A j \in 2 .. Len(seqs[i]) : seqs[i][j] # x

\* Mutant: a head that must come behind another will do.
FirstAny(seqs) == SelectInSeq(seqs, LAMBDA s : s # <<>>)

FirstGood(seqs) == SelectInSeq(seqs, LAMBDA s : s # <<>> /\ IsGood(s[1], seqs))

Without(x, seqs) ==
  [i \in DOMAIN seqs |-> IF seqs[i] # <<>> /\ seqs[i][1] = x THEN Tail(seqs[i]) ELSE seqs[i]]

(* The loop, from the state it has after n iterations.  When no head is    *)
(* good it stops, without an error, with what it has.                      *)
MergeStep(m) ==
  LET i == FirstGood(m.seqs)
      x == m.seqs[i][1]
  IN  IF i = 0 THEN m
      ELSE [seqs |-> Without(x, m.seqs), result |-> Append(m.result, x)]

Merge(c, seqs) ==
  LET merged[n \in Nat] ==
        IF n = 0 THEN [seqs |-> seqs, result |-> <<c>>] ELSE MergeStep(merged[n - 1])
  IN  merged[Cardinality(Classes)].result

(* The bases' orders are computed anew from their bases, which have not    *)
(* changed since the same was done for their own MRO.                      *)
computeMRO(c, bs) ==
  IF bs = <<>> THEN <<c>>
  ELSE Merge(c, Append([i \in DOMAIN bs |-> mro[bs[i]]], bs))

-------------------------------------------------------------------------------
(* LookupMethod: the first class in the order that has the method.         *)
At(c, i) == IF i = 0 THEN Nobody ELSE mro[c][i]

LookupMethod(c, m) == At(c, SelectInSeq(mro[c], LAMBDA k : m \in methods[k]))

\* Mutant: the search begins at class k, not behind it.
LookupMethodStartingAt(c, m, k) ==
  LET skip == SelectInSeq(mro[c], LAMBDA j : j = k)
  IN  IF skip = 0 THEN Nobody
      ELSE At(c, SelectInSubSeq(mro[c], skip, Len(mro[c]), LAMBDA j : m \in methods[j]))

(* LookupMethodStartingAfter: the first one behind class k; none if class  *)
(* c does not inherit from k.                                              *)
LookupMethodStartingAfter(c, m, k) ==
  LET skip == SelectInSeq(mro[c], LAMBDA j : j = k)
  IN  IF skip = 0 THEN Nobody
      ELSE At(c, SelectInSubSeq(mro[c], skip + 1, Len(mro[c]), LAMBDA j : m \in methods[j]))

-------------------------------------------------------------------------------
Init ==
  /\ made = {}
  /\ bases = [c \in Classes |-> <<>>]
  /\ mro = [c \in Classes |-> <<>>]
  /\ methods = [c \in Classes |-> {}]
  /\ self = Nobody
  /\ name \in Methods
  /\ chain = <<>>
  /\ forms = {}

(* A class statement: OpMakeClass.  Bases may be repeated; a base that is  *)
(* not a class is dropped from the list, as if it had not been written.    *)
(* (A class made while a chain runs is no part of it: it is made before or *)
(* after it here.)                                                         *)
MakeClass(c, bs, ms) ==
  /\ chain = <<>>
  /\ c \notin made
  /\ made' = made \cup {c}
  /\ bases' = [bases EXCEPT ![c] = bs]
  /\ mro' = [mro EXCEPT ![c] = computeMRO(c, bs)]
  /\ methods' = [methods EXCEPT ![c] = ms]
  /\ UNCHANGED <<self, name, chain, forms>>

(* o.m(): the attribute of the instance is a bound method, called next (if *)
(* no field of the instance has the name, and no static or class method).  *)
(* If no class has it this is an AttributeError, and nothing runs.         *)
CallMethod(c, m) ==
  /\ chain = <<>>
  /\ c \in made
  /\ LookupMethod(c, m) # Nobody
  /\ self' = c
  /\ name' = m
  /\ chain' = <<LookupMethod(c, m)>>
  /\ UNCHANGED <<made, bases, mro, methods, forms>>

(* A method calls its namesake behind class k; not if there is none or no  *)
(* frame is left, which are errors the method may catch.                   *)
CallBehind(k) ==
  LET next == LookupMethodStartingAfter(self, name, k) IN
  /\ Len(chain) < MaxDepth
  /\ next # Nobody
  /\ chain' = Append(chain, next)
  /\ UNCHANGED <<made, bases, mro, methods, self, name>>

SuperExplicit ==
  /\ "explicit" \in SuperForms
  /\ chain # <<>>
  /\ CallBehind(Last(chain))
  /\ forms' = forms \cup {"explicit"}

(* super() without arguments knows the name of the running function and    *)
(* the class of its first argument: it starts behind the first class that  *)
(* has a method of that name, whichever class the function is of.          *)
SuperBare ==
  /\ "bare" \in SuperForms
  /\ chain # <<>>
  /\ CallBehind(LookupMethod(self, name))
  /\ forms' = forms \cup {"bare"}

(* The running method ends, by a return or by an exception. *)
Return ==
  /\ chain # <<>>
  /\ chain' = Front(chain)
  /\ self' = IF Len(chain) = 1 THEN Nobody ELSE self
  /\ forms' = IF Len(chain) = 1 THEN {} ELSE forms
  /\ UNCHANGED <<made, bases, mro, methods, name>>

Next ==
  \/ \E c \in Classes, bs \in BoundedSeq(made, MaxBases) :
       \E ms \in SUBSET MayHave[c] : MakeClass(c, bs, ms)
  \/ \E c \in Classes, m \in Methods : CallMethod(c, m)
  \/ SuperExplicit \/ SuperBare \/ Return

Spec == Init /\ [][Next]_vars

-------------------------------------------------------------------------------
(* What class c inherits from, itself included, by the class statements.   *)
Ancestors(c) ==
  LET up[n \in Nat] ==
        IF n = 0 THEN {c}
        ELSE {c} \cup UNION {ToSet(bases[k]) : k \in up[n - 1]}
  IN  up[Cardinality(Classes)]

(* No class is searched twice, each class is searched first itself, and    *)
(* only what it inherits from is searched; also when no order is right.    *)
MroIsOrder ==
  \A c \in made :
    /\ mro[c][1] = c
    /\ IsInjective(mro[c])
    /\ ToSet(mro[c]) \subseteq Ancestors(c)

(* The definition of C3: what must come before what in the order of c is   *)
(* c itself before all, its bases as they are written, and the order of    *)
(* each base as it is.  There is such an order exactly if no ancestor is   *)
(* left when, again and again, those that none left must precede are taken *)
(* away.                                                                   *)
Before(s, x, y) == \E i, j \in DOMAIN s : i < j /\ s[i] = x /\ s[j] = y

MustPrecede(c, x, y) ==
  \/ x = c /\ y # c
  \/ Before(bases[c], x, y)
  \/ \E b \in ToSet(bases[c]) : Before(mro[b], x, y)

Preceded(c, S) == {x \in S : \E y \in S : MustPrecede(c, y, x)}

Orderable(c) ==
  LET left[n \in Nat] == IF n = 0 THEN Ancestors(c) ELSE Preceded(c, left[n - 1])
  IN  left[Cardinality(Ancestors(c))] = {}

(* The classes that are orderable with all they inherit from. *)
Sound ==
  LET orderable == {c \in made : Orderable(c)}
  IN  {c \in made : Ancestors(c) \subseteq orderable}

(* Every class gets an order of search, and one that has an order by the   *)
(* definition gets one that keeps to it and leaves no ancestor out.        *)
MroIsC3 ==
  /\ MroIsOrder
  /\ \A c \in Sound :
       /\ ToSet(mro[c]) = Ancestors(c)
       /\ \A x, y \in Ancestors(c) : MustPrecede(c, x, y) => Before(mro[c], x, y)

(* The classes an instance of c has a method m from.                       *)
Having(c, m) == {a \in Ancestors(c) : m \in methods[a]}

(* Methods that all go on by super(C, self) run once each, those of        *)
(* classes that inherit before those they inherit from, and when there is  *)
(* none to go on with, every ancestor that has the method takes part.  By  *)
(* super() too, the method of the class itself is never entered again:     *)
(* what goes round, if anything does, are the methods it inherits.         *)
CooperationIsComplete ==
  /\ \A i \in DOMAIN chain : i > 1 => chain[i] # chain[1]
  /\ chain # <<>> /\ forms \subseteq {"explicit"} /\ self \in Sound =>
       /\ IsInjective(chain)
       /\ \A i, j \in DOMAIN chain : i < j => chain[i] \notin Ancestors(chain[j])
       /\ LookupMethodStartingAfter(self, name, Last(chain)) = Nobody =>
            ToSet(chain) = Having(self, name)
===============================================================================
