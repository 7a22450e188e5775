---------------------------- MODULE CallBinding -----------------------------
(***************************************************************************)
(* How the arguments of a call reach the parameters of a function: what    *)
(* the compiler notes of a parameter list (FunctionDef in compiler.go) and *)
(* callClosure in pkg/vm/vm.go, for every kind of callee that the machine  *)
(* calls with positional arguments only (OpCall) or with keywords too      *)
(* (OpMakeKwargs, OpCallKw).                                               *)
(*                                                                         *)
(* A signature is the list of parameters as they are written.  A call has  *)
(* a number of positional arguments and a set of keywords; OpCall is the   *)
(* case of none.  A value is told apart by where it comes from.            *)
(***************************************************************************)
EXTENDS Integers, SequencesExt, FiniteSets

CONSTANT Names \* of parameters and keywords

(* *args is a star, **kwargs stars.  A parameter is optional if it has a   *)
(* default value.                                                          *)
Kinds == {"plain", "star", "stars"}

IsSignature(s) ==
  /\ s \in Seq([name : Names, kind : Kinds, optional : BOOLEAN])
  /\ \A i, j \in DOMAIN s : i # j =>
       /\ s[i].name # s[j].name
       /\ s[i].kind = s[j].kind => s[i].kind = "plain"
  /\ \A i \in DOMAIN s : s[i].kind # "plain" => ~s[i].optional

Callees == {"function",  \* a closure
            "method",    \* a closure bound to an instance or a class
            "class",     \* a class whose __init__ is a closure
            "builtin"}   \* a function of the host

(* What a program calls: the parameters of the function, the number of     *)
(* positional arguments and the keywords that are written.                 *)
IsCall(c) ==
  /\ IsSignature(c.sig)
  /\ c.callee \in Callees
  /\ c.args \in Nat
  /\ c.keys \subseteq Names

-------------------------------------------------------------------------------
(* What the compiler notes.  The slot of a parameter is its place in the   *)
(* list, whatever its kind; default values are in the order of the list.   *)
Noted(s, places) ==
  LET upTo[n \in 0 .. Len(s)] ==
        IF n = 0 THEN <<>>
        ELSE IF n \in places THEN Append(upTo[n - 1], s[n]) ELSE upTo[n - 1]
  IN  upTo[Len(s)]

Plain(s) == {i \in DOMAIN s : s[i].kind = "plain"}

NumParameters(s) == Len(Noted(s, Plain(s)))
Defaults(s) == Noted(s, {i \in Plain(s) : s[i].optional})
DefaultCount(s) == Len(Defaults(s))
Has(s, kind) == \E i \in DOMAIN s : s[i].kind = kind

(* The values: positional argument i, the argument of keyword k, the       *)
(* default of parameter k; the tuple and the dict of what is left over.    *)
Arg(i) == <<"arg", i>>
Keyword(k) == <<"keyword", k>>
Default(k) == <<"default", k>>
Rest(is) == <<"rest", is>>
More(ks) == <<"more", ks>>
Nothing == <<"None">>

-------------------------------------------------------------------------------
(* callClosure.  The first NumParameters slots are filled by position, by  *)
(* the name that the list has at that place, or by a default value counted *)
(* from the last one; or the call is refused.                              *)
Missing == <<"missing">>

Fill(s, n, ks, i) ==
  LET required == NumParameters(s) - DefaultCount(s)
  IN  CASE i <= n -> Arg(i)
        [] i > n /\ s[i].name \in ks -> Keyword(s[i].name)
        [] i > n /\ s[i].name \notin ks /\ i > required ->
             Default(Defaults(s)[i - required].name)
        [] OTHER -> Missing

Filled(s, n, ks) ==
  [i \in DOMAIN s |-> IF i <= NumParameters(s) THEN Fill(s, n, ks, i) ELSE Nothing]

\* Mutant: the tuple has all arguments.
StarAll(s, n, slots) ==
  IF Has(s, "star") THEN [slots EXCEPT ![NumParameters(s) + 1] = Rest(1..n)] ELSE slots

(* The slot behind them is the star's.                                     *)
Star(s, n, slots) ==
  IF Has(s, "star")
  THEN [slots EXCEPT ![NumParameters(s) + 1] = Rest(NumParameters(s) + 1 .. n)]
  ELSE slots

(* The next one is the stars'; without stars every keyword that is the     *)
(* name of a parameter of any kind is stored in its slot, whatever is      *)
(* there, and the others are dropped.                                      *)
Stars(s, ks, slots) ==
  LET next  == NumParameters(s) + (IF Has(s, "star") THEN 2 ELSE 1)
      names == {s[i].name : i \in 1..NumParameters(s)}
  IN  IF Has(s, "stars") THEN [slots EXCEPT ![next] = More(ks \ names)]
      ELSE [i \in DOMAIN s |-> IF s[i].name \in ks THEN Keyword(s[i].name) ELSE slots[i]]

callClosure(s, n, ks) ==
  IF Missing \in ToSet(Filled(s, n, ks)) THEN [outcome |-> "missing", locals |-> <<>>]
  ELSE [outcome |-> "bound", locals |-> Stars(s, ks, Star(s, n, Filled(s, n, ks)))]

-------------------------------------------------------------------------------
(* executeCall, executeCallWithKw.  A bound method and a new instance      *)
(* whose __init__ is called have one more argument in front; only OpCall   *)
(* calls them.  A builtin gets the positional arguments, and its keywords  *)
(* are dropped.                                                            *)
executeCall(c) ==
  CASE c.callee = "function" -> callClosure(c.sig, c.args, c.keys)
    [] c.callee \in {"method", "class"} /\ c.keys = {} -> callClosure(c.sig, c.args + 1, {})
    [] c.callee \in {"method", "class"} /\ c.keys # {} ->
         [outcome |-> "unsupported", locals |-> <<>>]
    [] c.callee = "builtin" -> [outcome |-> "bound", locals |-> [i \in 1 .. c.args |-> Arg(i)]]

-------------------------------------------------------------------------------
(* What a call means.  The positional arguments there are, self included,  *)
(* and the parameters they may go to.                                      *)
Supplied(c) == IF c.callee \in {"method", "class"} THEN c.args + 1 ELSE c.args

Positional(s) ==
  {i \in DOMAIN s : s[i].kind = "plain" /\ \A j \in 1..i : s[j].kind = "plain"}

ByPosition(c, i) == i \in Positional(c.sig) /\ i <= Supplied(c)
ByKeyword(c, i) == i \in Plain(c.sig) /\ c.sig[i].name \in c.keys
PlainNames(c) == {c.sig[i].name : i \in Plain(c.sig)}

(* Every parameter has a value, none has two, and no argument is left that *)
(* nothing collects.                                                       *)
Valueless(c, i) == ~ByPosition(c, i) /\ ~ByKeyword(c, i) /\ ~c.sig[i].optional

Legal(c) ==
  /\ \A i \in Plain(c.sig) : ~Valueless(c, i) /\ ~(ByPosition(c, i) /\ ByKeyword(c, i))
  /\ Supplied(c) <= Cardinality(Positional(c.sig)) \/ Has(c.sig, "star")
  /\ c.keys \subseteq PlainNames(c) \/ Has(c.sig, "stars")

Meaning(c) ==
  [i \in DOMAIN c.sig |->
     CASE ByPosition(c, i) -> Arg(i)
       [] ByKeyword(c, i) -> Keyword(c.sig[i].name)
       [] i \in Plain(c.sig) /\ ~ByPosition(c, i) /\ ~ByKeyword(c, i) -> Default(c.sig[i].name)
       [] c.sig[i].kind = "star" -> Rest(Cardinality(Positional(c.sig)) + 1 .. Supplied(c))
       [] c.sig[i].kind = "stars" -> More(c.keys \ PlainNames(c))]

(* What is given to a plain parameter is meant for it: an argument in its  *)
(* place, one of its name, or its own default.                             *)
Meant(c, i, value) ==
  \/ ByPosition(c, i) /\ value = Arg(i)
  \/ ByKeyword(c, i) /\ value = Keyword(c.sig[i].name)
  \/ ~ByPosition(c, i) /\ c.sig[i].optional /\ value = Default(c.sig[i].name)

(* The signatures for which the code is meant: plain parameters, those     *)
(* without a default first; then a star; then stars.                       *)
Simple(s) ==
  \A i, j \in DOMAIN s : i < j =>
    CASE s[j].kind = "plain" -> s[i].kind = "plain" /\ (s[i].optional => s[j].optional)
      [] s[j].kind = "star" -> s[i].kind = "plain"
      [] s[j].kind = "stars" -> TRUE

(* A function with such a signature is not entered exactly if a parameter  *)
(* has no value, and no plain parameter is given what is another's; if the *)
(* call is legal, every parameter has what it should.                      *)
BoundAsDefined(c, result) ==
  Simple(c.sig) /\ c.callee # "builtin" /\ result.outcome \in {"bound", "missing"} =>
    /\ result.outcome = "missing" <=> \E i \in Plain(c.sig) : Valueless(c, i)
    /\ result.outcome = "bound" => \A i \in Plain(c.sig) : Meant(c, i, result.locals[i])
    /\ Legal(c) => result.outcome = "bound" /\ result.locals = Meaning(c)
===============================================================================
