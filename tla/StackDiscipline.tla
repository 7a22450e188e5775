---------------------------- MODULE StackDiscipline ----------------------------
(***************************************************************************)
(* When the instructions of a program keep the operand stack and the       *)
(* handlers in order, in terms of the instructions alone: at every         *)
(* position there is a number of operands, and a list of the tries it is   *)
(* in, that every way to the position agrees on.  pkg/vm never checks      *)
(* this; pkg/compiler is trusted to emit only such code.                   *)
(*                                                                         *)
(* A table for a program is a record: t.at[f] is a function on those       *)
(* positions of function f that control may reach, and t.at[f][p] has      *)
(*   tries  the positions of the SetupExcepts whose tries p is in, the     *)
(*          innermost last                                                 *)
(*   h      how many operands there are, at least, above the height that   *)
(*          the innermost try goes back to, or above the locals            *)
(* and t.exact are the functions where h is the very number.               *)
(***************************************************************************)
EXTENDS VM

Innermost(tries) == tries[Len(tries)]

Entry(q, h, tries) == [pos |-> q, h |-> h, tries |-> tries]

(* The operands change, the tries do not.                                  *)
Straight(here, q, change) == Entry(q, here.h + change, here.tries)

(* Where the instruction at position p leads.  From a SetupExcept, also to *)
(* its handlers, with the exception on the stack.                          *)
LeadsTo(code, at, p) ==
  LET i == code[p + 1]
      here == at[p]
  IN
  CASE i.op \in {"Constant", "GetBuiltin", "Closure", "GetLocal", "GetGlobal", "Dup"} ->
         {Straight(here, p + 1, 1)}
    [] i.op \in {"Pop", "SetGlobal", "SetLocal", "Equal", "ListAppend"} ->
         {Straight(here, p + 1, -1)}
    [] i.op \in {"Not", "GetIter", "DeleteName"} -> {Straight(here, p + 1, 0)}
    [] i.op = "Assert" -> {Straight(here, p + 1, -2)}
    [] i.op = "BuildList" -> {Straight(here, p + 1, 1 - i.a)}
    [] i.op = "UnpackSequence" -> {Straight(here, p + 1, i.a - 1)}
    [] i.op = "Call" -> {Straight(here, p + 1, -i.a)}
    [] i.op = "Jump" -> {Straight(here, i.a, 0)}
    [] i.op = "JumpIfFalse" -> {Straight(here, p + 1, -1), Straight(here, i.a, -1)}
    [] i.op \in {"JumpIfFalseOrPop", "JumpIfTrueOrPop"} ->
         {Straight(here, p + 1, -1), Straight(here, i.a, 0)}
    [] i.op = "ForIter" -> {Straight(here, p + 1, 1), Straight(here, i.a, -1)}
    [] i.op = "SetupExcept" ->
         {Entry(p + 1, 0, Append(here.tries, p)), Straight(here, i.a, 1)}
    [] i.op = "PopExcept" /\ here.tries # <<>> ->
         LET try == at[Innermost(here.tries)] IN {Entry(p + 1, try.h + here.h, try.tries)}
    [] OTHER -> {}

(* The table has entry e of function f.                                    *)
Enters(t, f, e) ==
  LET at == t.at[f] IN
  /\ e.pos \in DOMAIN at
  /\ at[e.pos].tries = e.tries
  /\ at[e.pos].h <= e.h
  /\ f \in t.exact => at[e.pos].h = e.h

(* The innermost try of a position is one, and is itself in the others.    *)
TriesNest(code, at, p) ==
  at[p].tries # <<>> =>
    LET q == Innermost(at[p].tries) IN
    /\ q \in DOMAIN at /\ q < Len(code)
    /\ code[q + 1].op = "SetupExcept"
    /\ at[p].tries = Append(at[q].tries, q)

(* An instruction finds its operands inside the innermost try; no try is   *)
(* left by a return, or by the end of the code.                            *)
Behaves(code, t, f, p) ==
  LET here == t.at[f][p] IN
  IF p = Len(code) THEN here.tries = <<>>
  ELSE /\ TakenBy(code[p + 1]) <= here.h
       /\ code[p + 1].op \in {"ReturnValue", "ReturnNone"} => here.tries = <<>>
       /\ code[p + 1].op = "PopExcept" => here.tries # <<>>
       /\ \A e \in LeadsTo(code, t.at[f], p) : Enters(t, f, e)

Disciplined(u, t) ==
  /\ u.fns[1].locals = 0
  /\ \A f \in DOMAIN u.fns :
       /\ Enters(t, f, Entry(0, 0, <<>>))
       /\ \A p \in DOMAIN t.at[f] :
            /\ p \in 0..Len(u.fns[f].code)
            /\ t.at[f][p].h \in Nat /\ t.at[f][p].tries \in Seq(Nat)
            /\ TriesNest(u.fns[f].code, t.at[f], p)
            /\ Behaves(u.fns[f].code, t, f, p)

(* The module ends with no operand left.                                   *)
EndsEmpty(u, t) ==
  LET last == Len(u.fns[1].code) IN
  /\ 1 \in t.exact
  /\ last \in DOMAIN t.at[1] => t.at[1][last].h = 0

===============================================================================
