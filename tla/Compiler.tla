------------------------------- MODULE Compiler -------------------------------
(***************************************************************************)
(* The code generator of pkg/compiler/compiler.go for the statements that  *)
(* move control: what Compile emits for each node of the syntax tree, with *)
(* jump operands patched once their target is known, and the symbol table  *)
(* (symbol_table.go) as far as it tells locals from globals.               *)
(*                                                                         *)
(* A node is a tuple that begins with its kind.  Expressions:              *)
(*   <<"num", n>>, <<"name", x>>, <<"call", x, args>>, <<"not", e>>,       *)
(*   <<"and", e, e>>, <<"or", e, e>>, <<"ternary", test, e, e>>,           *)
(*   <<"list", elements>>, <<"comp", element, x, iterable, test>>,         *)
(*   <<"walrus", x, e>>                                                    *)
(* Statements:                                                             *)
(*   <<"expr", e>>, <<"set", x, e>>, <<"if", e, block, block>>,            *)
(*   <<"while", e, block>>, <<"for", x, e, block>>, <<"break">>,           *)
(*   <<"continue">>, <<"return", e>>, <<"return">>, <<"raise", e>>,        *)
(*   <<"try", block, handlers, block, block>>, <<"def", x, names, block>>, *)
(*   <<"match", e, cases>>, <<"unpack", names, e>>,                        *)
(*   <<"assert", e, message>>, <<"del", x>>, <<"raise", e, cause>>         *)
(* where a block is a sequence of statements, the else and finally of a    *)
(* try may be empty, and a handler is <<alias or NoName, block>>.  Only    *)
(* the module has defs, and a handler names no type.  A case is            *)
(* <<pattern, guard, block>>; the pattern _, no guard, no test and no      *)
(* message are <<>>.                                                       *)
(***************************************************************************)
EXTENDS Bytecode, SequencesExt

NoName == -1

Unpatched == 9999

(* The state of the compiler while it is in one scope: the instructions    *)
(* emitted, the locals by slot, the globals defined so far, the jumps of   *)
(* the innermost loop's breaks and continues, and the functions compiled.  *)
NewScope(params, inFn, globals, fns) ==
  [code |-> <<>>, locals |-> params, inFn |-> inFn, globals |-> globals,
   breaks |-> {}, continues |-> {}, fns |-> fns]

Emit(c, op, a) ==
  [c EXCEPT !.code = Append(@, [op |-> op, a |-> a, v |-> None])]

EmitConstant(c, v) ==
  [c EXCEPT !.code = Append(@, [op |-> "Constant", a |-> 0, v |-> v])]

(* The position of the next instruction, and of the last one.              *)
Here(c) == Len(c.code)
LastOf(c) == Len(c.code) - 1

changeOperand(c, positions, target) ==
  [c EXCEPT !.code = [i \in DOMAIN @ |->
     IF i - 1 \in positions THEN [@[i] EXCEPT !.a = target] ELSE @[i]]]

SlotOf(c, x) == CHOOSE i \in DOMAIN c.locals : c.locals[i] = x

IsLocal(c, x) == x \in ToSet(c.locals)

(* A name not defined yet becomes a local of the function, or a global of  *)
(* the module; in a function, one the module has defined stays global, and *)
(* so does its own name.  An assignment to a builtin makes a global that   *)
(* no load by that name reads.                                             *)
Define(c, x) ==
  CASE IsLocal(c, x) \/ x \in c.globals \cup Builtins -> c
    [] c.inFn -> [c EXCEPT !.locals = Append(@, x)]
    [] OTHER -> [c EXCEPT !.globals = @ \cup {x}]

loadSymbol(c, x) ==
  CASE IsLocal(c, x) -> Emit(c, "GetLocal", SlotOf(c, x) - 1)
    [] ~IsLocal(c, x) /\ x \in Builtins \ c.globals -> Emit(c, "GetBuiltin", x)
    [] OTHER -> Emit(c, "GetGlobal", x)

storeSymbol(c0, x) ==
  LET c == Define(c0, x) IN
  IF IsLocal(c, x) THEN Emit(c, "SetLocal", SlotOf(c, x) - 1)
  ELSE Emit(c, "SetGlobal", x)

EndsInReturn(c) ==
  c.code # <<>> /\ Last(c.code).op \in {"ReturnValue", "ReturnNone"}

RECURSIVE Compile(_, _), CompileAll(_, _)

(* Several nodes in turn.  (Here(c) is never negative: the test has TLC    *)
(* evaluate what one node emits before it goes on to the next.)            *)
CompileAll(c, nodes) ==
  IF nodes = <<>> \/ Here(c) < 0 THEN c
  ELSE CompileAll(Compile(Head(nodes), c), Tail(nodes))

CompileIf(c, test, consequence, alternative) ==
  LET c1 == Emit(Compile(test, c), "JumpIfFalse", Unpatched)
      c2 == Emit(CompileAll(c1, consequence), "Jump", Unpatched)
      c3 == CompileAll(changeOperand(c2, {LastOf(c1)}, Here(c2)), alternative)
  IN  changeOperand(c3, {LastOf(c2)}, Here(c3))

(* The right operand is left out when the left one decides.                *)
CompileLogic(c, op, left, right) ==
  LET c1 == Emit(Compile(left, c), op, Unpatched)
      c2 == Compile(right, c1)
  IN  changeOperand(c2, {LastOf(c1)}, Here(c2))

(* A loop has breaks and continues of its own while its body is compiled.  *)
EnterLoop(c) == [c EXCEPT !.breaks = {}, !.continues = {}]

\* mutant: continue leaves the loop, like break
LeaveLoopOnContinue(c, start, exit, outer) ==
  [changeOperand(c, {exit} \cup c.breaks \cup c.continues, Here(c)) EXCEPT
     !.breaks = outer.breaks, !.continues = outer.continues]

LeaveLoop(c, start, exit, outer) ==
  LET ended == changeOperand(c, {exit} \cup c.breaks, Here(c))
  IN  [changeOperand(ended, c.continues, start) EXCEPT
         !.breaks = outer.breaks, !.continues = outer.continues]

CompileWhile(c, test, body) ==
  LET c1 == Emit(Compile(test, EnterLoop(c)), "JumpIfFalse", Unpatched)
      c2 == Emit(CompileAll(c1, body), "Jump", Here(c))
  IN  LeaveLoop(c2, Here(c), LastOf(c1), c)

CompileForIn(c, target, iterable, body) ==
  LET c1 == Emit(Compile(iterable, EnterLoop(c)), "GetIter", 0)
      c2 == Emit(c1, "ForIter", Unpatched)
      c3 == Emit(CompileAll(storeSymbol(c2, target), body), "Jump", Here(c1))
  IN  LeaveLoop(c3, Here(c1), LastOf(c2), c)

(* The list lies under the iterator while it grows; the variable is one of *)
(* the scope the comprehension is in.                                      *)
CompileListComp(c, element, target, iterable, test) ==
  LET c1 == Emit(Compile(iterable, Emit(c, "BuildList", 0)), "GetIter", 0)
      c2 == Emit(c1, "ForIter", Unpatched)
      c3 == storeSymbol(c2, target)
      c4 == IF test = <<>> THEN c3 ELSE Emit(Compile(test, c3), "JumpIfFalse", Unpatched)
      c5 == Emit(Compile(element, c4), "ListAppend", 0)
      c6 == IF test = <<>> THEN c5 ELSE changeOperand(c5, {LastOf(c4)}, Here(c5))
      c7 == Emit(c6, "Jump", Here(c1))
  IN  changeOperand(c7, {LastOf(c2)}, Here(c7))

(* The body, then the else; then the handlers one after the other; then    *)
(* the finally, where the else and every handler jump to.                  *)
CompileTry(c, body, handlers, elseBody, finallyBody) ==
  LET c1 == Emit(c, "SetupExcept", Unpatched)
      c2 == Emit(CompileAll(c1, body), "PopExcept", 0)
      c3 == Emit(CompileAll(c2, elseBody), "Jump", Unpatched)
      c4 == changeOperand(c3, {LastOf(c1)}, Here(c3))
      handler(acc, h) ==
        LET entry == IF h[1] # NoName THEN storeSymbol(acc.c, h[1])
                     ELSE Emit(acc.c, "Pop", 0)
            done == Emit(CompileAll(entry, h[2]), "Jump", Unpatched)
        IN  [c |-> done, exits |-> acc.exits \cup {LastOf(done)}]
      all == FoldLeft(handler, [c |-> c4, exits |-> {LastOf(c3)}], handlers)
  IN  CompileAll(changeOperand(all.c, all.exits, Here(all.c)), finallyBody)

(* The subject stays below while the cases are tried on a copy of it.  A   *)
(* guard that fails goes back to the jump behind the comparison (but no    *)
(* text has a guard: Cases of Parser); a case that was run goes past the   *)
(* Pop of the subject.                                                     *)
CompileMatch(c, subject, cases) ==
  LET case(acc, k) ==
        LET tested == IF k[1] = <<>> THEN acc.c
                      ELSE Emit(Emit(Compile(k[1], Emit(acc.c, "Dup", 0)), "Equal", 0),
                                "JumpIfFalse", Unpatched)
            guarded == IF k[2] = <<>> THEN tested
                       ELSE Emit(Compile(k[2], tested), "JumpIfFalse",
                                 IF k[1] = <<>> THEN Unpatched ELSE LastOf(tested))
            next == CASE k[1] # <<>> -> {LastOf(tested)}
                      [] k[1] = <<>> /\ k[2] # <<>> -> {LastOf(guarded)}
                      [] OTHER -> {}
            done == Emit(CompileAll(guarded, k[3]), "Jump", Unpatched)
        IN  [c |-> changeOperand(done, next, Here(done)),
             exits |-> acc.exits \cup {LastOf(done)}]
      all == FoldLeft(case, [c |-> Compile(subject, c), exits |-> {}], cases)
      popped == Emit(all.c, "Pop", 0)
  IN  changeOperand(popped, all.exits, Here(popped))

(* The targets take the elements in turn, from the top of the stack down.  *)
CompileUnpack(c, targets, value) ==
  FoldLeft(storeSymbol, Emit(Compile(value, c), "UnpackSequence", Len(targets)), targets)

CompileWalrus(c, target, value) == storeSymbol(Emit(Compile(value, c), "Dup", 0), target)

\* what is raised and, maybe, its cause
CompileRaise(c, values) ==
  Emit(CompileAll(c, values), IF Len(values) = 2 THEN "RaiseFrom" ELSE "Raise", 0)

CompileAssert(c, test, message) ==
  LET c1 == Compile(test, c)
      c2 == IF message = <<>> THEN EmitConstant(c1, None) ELSE Compile(message, c1)
  IN  Emit(c2, "Assert", 0)

CompileDef(c, name, params, body) ==
  LET inner == CompileAll(NewScope(params, TRUE, c.globals \cup {name}, c.fns), body)
      closed == IF EndsInReturn(inner) THEN inner ELSE Emit(inner, "ReturnNone", 0)
      fn == [code |-> closed.code, params |-> Len(params), locals |-> Len(closed.locals)]
      \* function 1 is the module
      made == Emit([c EXCEPT !.fns = Append(@, fn)], "Closure", Len(c.fns) + 2)
  IN  storeSymbol(made, name)

Compile(node, c) ==
  CASE node[1] = "num" -> EmitConstant(c, Num(node[2]))
    [] node[1] = "name" -> loadSymbol(c, node[2])
    [] node[1] = "call" ->
         Emit(CompileAll(loadSymbol(c, node[2]), node[3]), "Call", Len(node[3]))
    [] node[1] = "not" -> Emit(Compile(node[2], c), "Not", 0)
    [] node[1] = "and" -> CompileLogic(c, "JumpIfFalseOrPop", node[2], node[3])
    [] node[1] = "or" -> CompileLogic(c, "JumpIfTrueOrPop", node[2], node[3])
    [] node[1] = "ternary" -> CompileIf(c, node[2], <<node[3]>>, <<node[4]>>)
    [] node[1] = "list" -> Emit(CompileAll(c, node[2]), "BuildList", Len(node[2]))
    [] node[1] = "comp" -> CompileListComp(c, node[2], node[3], node[4], node[5])
    [] node[1] = "walrus" -> CompileWalrus(c, node[2], node[3])
    [] node[1] = "expr" -> Emit(Compile(node[2], c), "Pop", 0)
    [] node[1] = "set" -> storeSymbol(Compile(node[3], c), node[2])
    [] node[1] = "if" -> CompileIf(c, node[2], node[3], node[4])
    [] node[1] = "while" -> CompileWhile(c, node[2], node[3])
    [] node[1] = "for" -> CompileForIn(c, node[2], node[3], node[4])
    [] node[1] = "break" ->
         [Emit(c, "Jump", Unpatched) EXCEPT !.breaks = @ \cup {Here(c)}]
    [] node[1] = "continue" ->
         [Emit(c, "Jump", Unpatched) EXCEPT !.continues = @ \cup {Here(c)}]
    [] node[1] = "return" /\ Len(node) = 1 -> Emit(c, "ReturnNone", 0)
    [] node[1] = "return" /\ Len(node) = 2 -> Emit(Compile(node[2], c), "ReturnValue", 0)
    [] node[1] = "raise" -> CompileRaise(c, Tail(node))
    [] node[1] = "try" -> CompileTry(c, node[2], node[3], node[4], node[5])
    [] node[1] = "assert" -> CompileAssert(c, node[2], node[3])
    [] node[1] = "del" -> Emit(c, "DeleteName", node[2])
    [] node[1] = "unpack" -> CompileUnpack(c, node[2], node[3])
    [] node[1] = "match" -> CompileMatch(c, node[2], node[3])
    [] node[1] = "def" -> CompileDef(c, node[2], node[3], node[4])

(* The compiled program, with the source it comes from.                    *)
UnitOf(program) ==
  LET c == CompileAll(NewScope(<<>>, FALSE, {}, <<>>), program)
  IN  [fns |-> <<[code |-> c.code, params |-> 0, locals |-> 0]>> \o c.fns,
       source |-> program]
===============================================================================
