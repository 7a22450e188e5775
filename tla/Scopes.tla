-------------------------------- MODULE Scopes --------------------------------
(***************************************************************************)
(* Names: how the compiler binds them (pkg/compiler/symbol_table.go, and   *)
(* the cases of Compile for identifiers, assignments, global, def and from *)
(* in compiler.go), and what the machine makes of variables and closures   *)
(* (OpConstant, OpGetGlobal to OpSetFree, OpClosure in pkg/vm/vm.go), in   *)
(* one program after the other on an engine (Execute, LoadModule in        *)
(* pkg/engine/engine.go).                                                  *)
(*                                                                         *)
(* A body is a sequence of statements:                                     *)
(*   <<"read", n>>      the program looks at the value of n                *)
(*   <<"set", n, t>>    n = t, for a value t                               *)
(*   <<"global", n>>                                                       *)
(*   <<"def", n, body>> a function without parameters                      *)
(*   <<"call", n>>      n()                                                *)
(*   <<"from", n, m>>   from m import n                                    *)
(* A program is the body of a module.  A session has inputs, programs that *)
(* are executed in this order, and modules, which may be imported and do   *)
(* not import themselves.                                                  *)
(***************************************************************************)
EXTENDS Integers, SequencesExt, Functions, TLC

Symbol(name, scope, index) == [name |-> name, scope |-> scope, index |-> index]
NoSymbol == Symbol("", "none", 0)

(* The tables of the bodies being compiled, the module's first.            *)
NewSymbolTable == [store |-> <<>>, numDefinitions |-> 0, free |-> <<>>, forced |-> {}]

Store(table, symbol) == [table EXCEPT !.store = (symbol.name :> symbol) @@ @]

(* The operations give the tables afterwards, and a symbol.                *)
With(tables, symbol) == [tables |-> tables, symbol |-> symbol]

DefineGlobal(tables, name) ==
  [tables EXCEPT ![Len(tables)].forced = @ \cup {name},
                 ![Len(tables)].store = [n \in DOMAIN @ \ {name} |-> @[n]]]

DefineFunctionName(tables, name) ==
  [tables EXCEPT ![Len(tables)] = Store(@, Symbol(name, "FUNCTION", 0))]

Define(tables, name) ==
  LET top == Last(tables)
      local == Symbol(name, IF Len(tables) = 1 THEN "GLOBAL" ELSE "LOCAL", top.numDefinitions)
      alias == Symbol(name, "GLOBAL", 0)
  IN  IF name \in top.forced
      THEN With([tables EXCEPT ![Len(tables)] = Store(@, alias)], alias)
      ELSE With([tables EXCEPT ![Len(tables)] =
                   Store([@ EXCEPT !.numDefinitions = @ + 1], local)], local)

DefineFree(tables, original) ==
  LET symbol == Symbol(original.name, "FREE", Len(Last(tables).free))
  IN  With([tables EXCEPT ![Len(tables)] =
              Store([@ EXCEPT !.free = Append(@, original)], symbol)], symbol)

(* A table asks the one around it, and keeps what is no global as free:    *)
(* what a function captures, the functions around it capture too.          *)
RECURSIVE Resolve(_, _)
Resolve(tables, name) ==
  LET top == Last(tables)
      out == Resolve(Front(tables), name)
  IN  CASE name \in top.forced /\ Len(tables) > 1 -> With(tables, Symbol(name, "GLOBAL", 0))
        [] ~(name \in top.forced /\ Len(tables) > 1) /\ name \in DOMAIN top.store ->
             With(tables, top.store[name])
        [] OTHER ->
             IF Len(tables) = 1 THEN With(tables, NoSymbol)
             ELSE IF out.symbol.scope \in {"none", "GLOBAL"}
                  THEN With(Append(out.tables, top), out.symbol)
                  ELSE DefineFree(Append(out.tables, top), out.symbol)

-------------------------------------------------------------------------------
(* The compiler: the tables, what a program's instructions refer to by its *)
(* place, and the instructions of the body.  A function is a constant too. *)
NewCompiler == [tables |-> <<NewSymbolTable>>, constants |-> <<>>, names |-> <<>>, code |-> <<>>]

emit(c, instruction) == [c EXCEPT !.code = Append(@, instruction)]
addConstant(c, v) == [c EXCEPT !.constants = Append(@, v)]
addName(c, name) == [c EXCEPT !.names = IF name \in ToSet(@) THEN @ ELSE Append(@, name)]

Place(names, name) == SelectInSeq(names, LAMBDA n : n = name) - 1

emitName(c, op, name) ==
  LET named == addName(c, name) IN emit(named, <<op, Place(named.names, name)>>)

(* What is found nowhere, and the name of the function itself, is looked   *)
(* up among the globals.                                                   *)
loadSymbol(c, s, name) ==
  CASE s.scope = "LOCAL" -> emit(c, <<"OpGetLocal", s.index>>)
    [] s.scope = "FREE" -> emit(c, <<"OpGetFree", s.index>>)
    [] OTHER -> emitName(c, "OpGetGlobal", name)

storeSymbol(c, s, name) ==
  CASE s.scope = "LOCAL" -> emit(c, <<"OpSetLocal", s.index>>)
    [] s.scope = "FREE" -> emit(c, <<"OpSetFree", s.index>>)
    [] OTHER -> emitName(c, "OpSetGlobal", name)

Load(c, name) ==
  LET r == Resolve(c.tables, name) IN loadSymbol([c EXCEPT !.tables = r.tables], r.symbol, name)

(* The target of an assignment or a def is defined if it is not resolved.  *)
Assign(c, name) ==
  LET r == Resolve(c.tables, name)
      target == IF r.symbol = NoSymbol THEN Define(r.tables, name) ELSE r
  IN  storeSymbol([c EXCEPT !.tables = target.tables], target.symbol, name)

RECURSIVE Compile(_, _)

(* FunctionDef: the values of the free symbols are loaded before the       *)
(* closure is made.                                                        *)
FunctionDef(c, name, body) ==
  LET inner == Compile([c EXCEPT !.tables = DefineFunctionName(Append(@, NewSymbolTable), name),
                                 !.code = <<>>], body)
      free  == Last(inner.tables).free
      fn    == [code |-> inner.code, numLocals |-> Last(inner.tables).numDefinitions]
      outer == FoldLeft(LAMBDA d, s : loadSymbol(d, s, s.name),
                        [inner EXCEPT !.tables = Front(@), !.code = c.code], free)
      made  == emit(addConstant(outer, <<"function", fn>>),
                    <<"OpClosure", Len(outer.constants), Len(free)>>)
  IN  Assign(made, name)

(* FromImport, of one name. *)
FromImport(c, name, module) ==
  LET imported == emit(emitName(c, "OpImport", module), <<"OpDup">>)
  IN  emit(Assign(emitName(imported, "OpGetAttr", name), name), <<"OpPop">>)

CompileStatement(c, s) ==
  CASE s[1] = "read" -> emit(Load(c, s[2]), <<"Print">>)
    [] s[1] = "set" -> Assign(emit(addConstant(c, s[3]), <<"OpConstant", Len(c.constants)>>), s[2])
    [] s[1] = "global" -> [c EXCEPT !.tables = DefineGlobal(@, s[2])]
    [] s[1] = "def" -> FunctionDef(c, s[2], s[3])
    [] s[1] = "call" -> emit(Load(c, s[2]), <<"OpCall">>)
    [] s[1] = "from" -> FromImport(c, s[2], s[3])

Compile(c, body) == FoldLeft(CompileStatement, c, body)

-------------------------------------------------------------------------------
(* The machine.  A call puts None into a local that gets no argument.  A   *)
(* closure is an object with free values of its own, at its index in       *)
(* closures.  Each loaded module has globals of its own, the inputs share  *)
(* the first.  A run that has failed does nothing more.                    *)
Vacant == <<"None">>
Closure(i) == <<"closure", i>>

Machine(modules) ==
  [globals |-> <<<<>>>>, closures |-> <<>>, stack |-> <<>>, seen |-> <<>>, failed |-> FALSE,
   modules |-> modules, exports |-> <<>>]

Push(m, v) == [m EXCEPT !.stack = Append(@, v)]
Pop(m) == [m EXCEPT !.stack = Front(@)]
Fail(m, what) == [m EXCEPT !.failed = TRUE, !.seen = Append(@, what)]

\* Mutant: the last value that was pushed is the first one.
CapturedBackwards(stack, n) == [i \in 1 .. n |-> stack[Len(stack) + 1 - i]]

(* OpClosure: the values, as they are now.                                 *)
Captured(stack, n) == [i \in 1 .. n |-> stack[Len(stack) - n + i]]

MakeClosure(m, fn, n) ==
  LET free == Captured(m.stack, n)
  IN  [m EXCEPT !.closures = Append(@, [fn |-> fn, free |-> free]),
                !.stack = Append(SubSeq(@, 1, Len(@) - n), Closure(Len(m.closures) + 1))]

(* What a machine was made with: a program's constants and names, and the  *)
(* globals.  Every function that it runs gets these.                       *)
Tables(c, home) == [constants |-> c.constants, names |-> c.names, home |-> home]

RECURSIVE Execute(_, _, _, _)

Main(m, program, home) ==
  LET unit == Compile(NewCompiler, program)
  IN  Execute([m EXCEPT !.stack = <<>>], Tables(unit, home), [code |-> unit.code, numLocals |-> 0], 0)

(* LoadModule: a module is run when it is first imported; its globals, as  *)
(* they are then, are what it exports.                                     *)
LoadModule(m, name) ==
  LET home == Len(m.globals) + 1
      ran  == Main([m EXCEPT !.globals = Append(@, <<>>)], m.modules[name], home)
  IN  CASE name \in DOMAIN m.exports -> Push(m, <<"module", name>>)
        [] name \notin DOMAIN m.exports \cup DOMAIN m.modules -> Fail(m, <<"ImportError">>)
        [] OTHER ->
             IF ran.failed THEN ran
             ELSE [ran EXCEPT !.exports = (name :> ran.globals[home]) @@ @,
                              !.stack = Append(m.stack, <<"module", name>>)]

(* Instructions with a constant or a name, at its place in the tables.     *)
OfConstant(m, i, v) ==
  CASE i[1] = "OpConstant" -> Push(m, v)
    [] i[1] = "OpClosure" ->
         IF v[1] = "function" THEN MakeClosure(m, v[2], i[3]) ELSE Fail(m, <<"RuntimeError">>)

OfName(m, home, i, name) ==
  CASE i[1] = "OpGetGlobal" ->
         IF name \in DOMAIN m.globals[home] THEN Push(m, m.globals[home][name])
         ELSE Fail(m, <<"NameError">>)
    [] i[1] = "OpSetGlobal" ->
         [Pop(m) EXCEPT !.globals[home] = (name :> Last(m.stack)) @@ @]
    [] i[1] = "OpImport" -> LoadModule(m, name)
    [] i[1] = "OpGetAttr" ->
         LET exports == m.exports[Last(m.stack)[2]] IN
         IF name \in DOMAIN exports THEN Push(Pop(m), exports[name])
         ELSE Fail(m, <<"AttributeError">>)

InTable(table, i) == i[2] < Len(table)

(* One instruction in a frame: the locals and the closure that runs (0 for *)
(* the program).                                                           *)
Step1(m, tables, f, i) ==
  LET top == Last(m.stack)
      At(k) == k + 1
      Out == Fail(m, <<"RuntimeError">>)
  IN  CASE i[1] \in {"OpConstant", "OpClosure"} ->
             [m |-> IF InTable(tables.constants, i) THEN OfConstant(m, i, tables.constants[At(i[2])]) ELSE Out,
              f |-> f]
        [] i[1] \in {"OpGetGlobal", "OpSetGlobal", "OpImport", "OpGetAttr"} ->
             [m |-> IF InTable(tables.names, i) THEN OfName(m, tables.home, i, tables.names[At(i[2])]) ELSE Out,
              f |-> f]
        [] i[1] = "OpGetLocal" -> [m |-> Push(m, f.locals[At(i[2])]), f |-> f]
        [] i[1] = "OpSetLocal" -> [m |-> Pop(m), f |-> [f EXCEPT !.locals[At(i[2])] = top]]
        [] i[1] = "OpGetFree" -> [m |-> Push(m, m.closures[f.cl].free[At(i[2])]), f |-> f]
        [] i[1] = "OpSetFree" ->
             [m |-> [Pop(m) EXCEPT !.closures[f.cl].free[At(i[2])] = top], f |-> f]
        [] i[1] = "OpDup" -> [m |-> Push(m, top), f |-> f]
        [] i[1] = "OpPop" -> [m |-> Pop(m), f |-> f]
        [] i[1] = "Print" -> [m |-> [Pop(m) EXCEPT !.seen = Append(@, top)], f |-> f]
        [] i[1] = "OpCall" ->
             [m |-> IF top[1] = "closure" THEN Execute(Pop(m), tables, m.closures[top[2]].fn, top[2])
                    ELSE Fail(m, <<"TypeError">>), f |-> f]

Execute(m, tables, fn, cl) ==
  FoldLeft(LAMBDA s, i : IF s.m.failed THEN s ELSE Step1(s.m, tables, s.f, i),
           [m |-> m, f |-> [locals |-> [k \in 1 .. fn.numLocals |-> Vacant], cl |-> cl]],
           fn.code).m

(* What the session sees: an input is run although another has failed.     *)
Run(session) ==
  FoldLeft(LAMBDA m, program : Main([m EXCEPT !.failed = FALSE], program, 1),
           Machine(session.modules), session.inputs).seen
===============================================================================
