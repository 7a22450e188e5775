------------------------------- MODULE Bytecode -------------------------------
(***************************************************************************)
(* What the compiler hands to the virtual machine: instructions, functions *)
(* and the constant values they load (pkg/bytecode, pkg/vm/object.go), and *)
(* the values the machine computes with.                                   *)
(*                                                                         *)
(* Data is abstracted: a value is its kind and a number, a name is its     *)
(* index in the table of names.  An instruction has one operand `a`, and a *)
(* value `v` when it loads a constant; positions count instructions, not   *)
(* bytes.                                                                  *)
(***************************************************************************)
EXTENDS Integers, Sequences

Exceptions == {"Exception", "NameError", "TypeError", "RecursionError", "ValueError",
               "AssertionError"}
Kinds == {"nil", "None", "bool", "num", "range", "list", "iter", "builtin"} \cup Exceptions

(* The values of a program with the functions fns; "fun" is a closure of   *)
(* the function with that number, and "nil" a stack slot never written.    *)
(* A list is known by its length.                                          *)
Values(fns) == [k : Kinds, n : Nat] \cup [k : {"fun"}, n : DOMAIN fns]

Nil == [k |-> "nil", n |-> 0]
None == [k |-> "None", n |-> 0]
Num(i) == [k |-> "num", n |-> i]
List(length) == [k |-> "list", n |-> length]
Fun(f) == [k |-> "fun", n |-> f]
Exc(type) == [k |-> type, n |-> 0]

Bool(b) == [k |-> "bool", n |-> IF b THEN 1 ELSE 0]

Truthy(v) == v.k # "None" /\ (v.k \in {"bool", "num", "range", "list"} => v.n # 0)

(* How many elements a value has to go through.                            *)
Elements(v) == IF v.k \in {"range", "list", "iter"} THEN v.n ELSE 0

(* What l.Equals(r) may be: a number on the left is compared with a bool's *)
(* truth, one on the right with its number; objects are equal if they are  *)
(* the same, lists if their elements are, which their kind and number do   *)
(* not tell.                                                               *)
Objects == {"iter", "builtin", "fun", "list"} \cup Exceptions

Equals(l, r) ==
  CASE l.k = "num" /\ r.k = "bool" -> {(l.n # 0) = (r.n # 0)}
    [] l.k = "bool" /\ r.k = "num" -> {l.n = r.n}
    [] l.k \in Objects /\ l = r -> IF l = List(0) THEN {TRUE} ELSE BOOLEAN
    [] OTHER -> {l = r}

(* The builtins, by their index, and ask(), a function the host registers  *)
(* as a global.                                                            *)
PrintName == 0
RangeName == 1
AskName == 2
Builtins == {PrintName, RangeName}
Native(b) == [k |-> "builtin", n |-> b]
HostGlobals == [x \in {AskName} |-> Native(x)]

Instrs(fns) == [op : STRING, a : Nat, v : Values(fns)]

(* A function: its instructions and the sizes of its frame.  Function 1 is *)
(* the module, which has no frame slots.                                   *)
IsUnit(u) ==
  LET fns == u.fns IN
  /\ fns \in Seq([code : Seq(Instrs(fns)), params : Nat, locals : Nat])
  /\ fns # <<>>
  /\ \A f \in DOMAIN fns :
       /\ fns[f].params <= fns[f].locals
       /\ \A i \in DOMAIN fns[f].code :
            /\ fns[f].code[i].op = "Closure" => fns[f].code[i].a \in DOMAIN fns
            /\ fns[f].code[i].op = "GetBuiltin" => fns[f].code[i].a \in Builtins
===============================================================================
