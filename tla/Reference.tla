------------------------------- MODULE Reference -------------------------------
(***************************************************************************)
(* What the programs of Compiler mean: a structural evaluator that walks   *)
(* the syntax tree and knows nothing of stacks, frames, jumps or handlers. *)
(* It is the specification of the compiler and the machine together.  The  *)
(* answers of ask() are given.                                             *)
(*                                                                         *)
(* A state st records the globals, the locals, the functions defined, what *)
(* was printed, the answers left, the depth of calls, and how the last     *)
(* node ended, with a value: "next" (its value), "break", "continue",      *)
(* "return" or "raise".                                                    *)
(***************************************************************************)
EXTENDS Bytecode, SequencesExt

CONSTANTS NoName, MaxFrames

Ended(st, how, v) == [st EXCEPT !.how = how, !.val = v]
Value(st, v) == Ended(st, "next", v)
Throw(st, type) == Ended(st, "raise", Exc(type))
Going(st) == st.how = "next"

(* What comes next, if nothing has been thrown.                            *)
Then(st, next(_)) == IF Going(st) THEN next(st) ELSE st

Bind(env, x, v) == [y \in DOMAIN env \cup {x} |-> IF y = x THEN v ELSE env[y]]

(* In a function an assignment makes a local, in the module a global.      *)
Assign(st, x, v) ==
  IF st.depth > 1 THEN [st EXCEPT !.locals = Bind(@, x, v)]
  ELSE [st EXCEPT !.globals = Bind(@, x, v)]

Lookup(st, x) ==
  CASE x \in DOMAIN st.locals -> Value(st, st.locals[x])
    [] x \notin DOMAIN st.locals /\ x \in DOMAIN st.globals -> Value(st, st.globals[x])
    [] x \notin DOMAIN st.locals \cup DOMAIN st.globals /\ x \in Builtins ->
         Value(st, Native(x))
    [] OTHER -> Throw(st, "NameError")

RECURSIVE Eval(_, _), EvalAll(_, _, _), Stmt(_, _), Stmts(_, _),
          While(_, _, _), For(_, _, _, _), Match(_, _, _), ListComp(_, _, _, _, _, _)

(* The tuple of the values of the expressions, from left to right; vals    *)
(* are those of the ones before.                                           *)
EvalAll(exprs, vals, st) ==
  IF exprs = <<>> THEN Value(st, vals)
  ELSE Then(Eval(Head(exprs), st),
            LAMBDA s : EvalAll(Tail(exprs), Append(vals, s.val), s))

(* A test that is not there holds.                                         *)
Holds(test, st) == IF test = <<>> THEN Value(st, Num(1)) ELSE Eval(test, st)

(* The statements, in turn, until one does not end normally.               *)
Stmts(stmts, st) ==
  IF stmts = <<>> \/ ~Going(st) THEN st
  ELSE Stmts(Tail(stmts), Stmt(Head(stmts), st))

Block(stmts, st) == Stmts(stmts, Value(st, None))

NextAnswer(st) == IF st.answers = <<>> THEN "no" ELSE Head(st.answers)

Asked(st) == [st EXCEPT !.answers = IF @ = <<>> THEN @ ELSE Tail(@)]

Builtin(b, vals, st) ==
  CASE b = PrintName -> Value([st EXCEPT !.out = @ \o vals], None)
    [] b = RangeName ->
         IF Len(vals) = 1 /\ vals[1].k = "num"
           THEN Value(st, [k |-> "range", n |-> vals[1].n])
           ELSE Throw(st, "TypeError")
    [] b = AskName ->
         CASE NextAnswer(st) = "yes" -> Value(Asked(st), Num(1))
           [] NextAnswer(st) = "no" -> Value(Asked(st), Num(0))
           [] NextAnswer(st) = "raise" -> Throw(Asked(st), "ValueError")

(* The caller goes on with its own locals; a body that falls off its end   *)
(* returns None.                                                           *)
Returned(end, st) ==
  [end EXCEPT !.locals = st.locals, !.depth = st.depth,
     !.how = IF @ = "raise" THEN @ ELSE "next",
     !.val = IF end.how \in {"raise", "return"} THEN @ ELSE None]

(* A call runs the body with locals of its own.  The module counts among   *)
(* the active calls.                                                       *)
Invoke(d, vals, st) ==
  CASE Len(vals) < Len(d.params) -> Throw(st, "TypeError")
    [] Len(vals) >= Len(d.params) /\ st.depth >= MaxFrames -> Throw(st, "RecursionError")
    [] OTHER ->
         LET bound == [x \in ToSet(d.params) |->
                         vals[CHOOSE i \in DOMAIN d.params : d.params[i] = x]]
         IN  Returned(Block(d.body, [st EXCEPT !.locals = bound, !.depth = @ + 1]), st)

Apply(f, vals, st) ==
  CASE f.k = "builtin" -> Builtin(f.n, vals, st)
    [] f.k = "fun" -> Invoke(st.defs[f.n - 1], vals, st)
    [] OTHER -> Throw(st, "TypeError")

(* The elements of a comprehension, count of them so far, for the n values *)
(* of x left.                                                              *)
ListComp(element, x, n, test, count, st) ==
  IF n = 0 THEN Value(st, List(count))
  ELSE Then(Holds(test, Assign(st, x, Num(n))),
            LAMBDA t :
              IF ~Truthy(t.val) THEN ListComp(element, x, n - 1, test, count, t)
              ELSE Then(Eval(element, t),
                        LAMBDA v : ListComp(element, x, n - 1, test, count + 1, v)))

Eval(e, st) ==
  CASE e[1] = "num" -> Value(st, Num(e[2]))
    [] e[1] = "name" -> Lookup(st, e[2])
    [] e[1] = "call" -> \* the function first, then the arguments
         Then(EvalAll(<<<<"name", e[2]>>>> \o e[3], <<>>, st),
              LAMBDA all : Apply(Head(all.val), Tail(all.val), all))
    [] e[1] = "list" ->
         Then(EvalAll(e[2], <<>>, st), LAMBDA all : Value(all, List(Len(all.val))))
    [] e[1] = "not" ->
         Then(Eval(e[2], st), LAMBDA v : Value(v, Bool(~Truthy(v.val))))
    [] e[1] \in {"and", "or"} ->
         Then(Eval(e[2], st),
              LAMBDA v : IF Truthy(v.val) <=> e[1] = "and" THEN Eval(e[3], v) ELSE v)
    [] e[1] = "ternary" ->
         Then(Eval(e[2], st), LAMBDA v : Eval(IF Truthy(v.val) THEN e[3] ELSE e[4], v))
    [] e[1] = "walrus" ->
         Then(Eval(e[3], st), LAMBDA v : Assign(v, e[2], v.val))
    [] e[1] = "comp" ->
         Then(Eval(e[4], st), LAMBDA v : ListComp(e[2], e[3], Elements(v.val), e[5], 0, v))

(* After the body of a loop: go on with the next round, or leave.          *)
Round(st, again(_)) ==
  CASE st.how \in {"next", "continue"} -> again(Value(st, None))
    [] st.how = "break" -> Value(st, None)
    [] OTHER -> st

While(test, body, st) ==
  Then(Eval(test, st),
       LAMBDA t : IF Truthy(t.val) THEN Round(Block(body, t), LAMBDA b : While(test, body, b))
                  ELSE Value(t, None))

(* Over the n elements left, named n, n - 1, ..., 1.                       *)
For(x, n, body, st) ==
  IF n = 0 THEN Value(st, None)
  ELSE Round(Block(body, Assign(st, x, Num(n))), LAMBDA b : For(x, n - 1, body, b))

(* The block of the first case whose pattern equals the value and whose    *)
(* guard holds.  (Patterns are numbers here.)                              *)
Match(v, cases, st) ==
  IF cases = <<>> THEN Value(st, None)
  ELSE LET pattern == cases[1][1] IN
       Then(IF pattern = <<>> THEN Value(st, v) ELSE Eval(pattern, st),
            LAMBDA p :
              IF p.val # v THEN Match(v, Tail(cases), p)
              ELSE Then(Holds(cases[1][2], p),
                        LAMBDA g : IF Truthy(g.val) THEN Block(cases[1][3], g)
                                   ELSE Match(v, Tail(cases), g)))

(* What is raised becomes the exception; a value raised that is not one,   *)
(* its message.                                                            *)
Raised(v) == IF v.k \in Exceptions THEN v ELSE [k |-> "Exception", n |-> v.n]

(* An assertion's message is evaluated in any case.                        *)
Assertion(test, message, st) ==
  Then(EvalAll(IF message = <<>> THEN <<test>> ELSE <<test, message>>, <<>>, st),
       LAMBDA all :
         IF Truthy(all.val[1]) THEN Value(all, None)
         ELSE Ended(all, "raise",
                    [k |-> "AssertionError", n |-> IF message = <<>> THEN 0 ELSE all.val[2].n]))

(* The first name takes the first element.                                 *)
Unpack(names, v, st) ==
  LET assign(s, j) == Assign(s, names[j], Num(Len(names) - j + 1)) IN
  IF Elements(v) # Len(names) THEN Throw(st, "ValueError")
  ELSE FoldLeftDomain(assign, st, names)

(* A try: the else after a body that ends normally, the first handler      *)
(* after one that raises, and the finally after all of them, however they  *)
(* end; if the finally ends normally, that is how the statement ends.      *)
AfterBody(handlers, elseBody, b) ==
  CASE b.how = "next" -> Block(elseBody, b)
    [] b.how = "raise" /\ handlers # <<>> ->
         LET h == handlers[1] IN
         Block(h[2], IF h[1] = NoName THEN b ELSE Assign(b, h[1], b.val))
    [] OTHER -> b

Finally(body, end) == Then(Block(body, end), LAMBDA f : Ended(f, end.how, end.val))

Define(name, params, body, st) ==
  LET added == [st EXCEPT !.defs = Append(@, [params |-> params, body |-> body])]
  IN  Assign(added, name, Fun(Len(added.defs) + 1))

Stmt(s, st) ==
  CASE s[1] = "expr" -> Eval(s[2], st)
    [] s[1] = "set" -> Then(Eval(s[3], st), LAMBDA e : Assign(e, s[2], e.val))
    [] s[1] = "unpack" -> Then(Eval(s[3], st), LAMBDA e : Unpack(s[2], e.val, e))
    [] s[1] = "if" ->
         Then(Eval(s[2], st), LAMBDA e : Block(IF Truthy(e.val) THEN s[3] ELSE s[4], e))
    [] s[1] = "while" -> While(s[2], s[3], st)
    [] s[1] = "for" -> Then(Eval(s[3], st), LAMBDA e : For(s[2], Elements(e.val), s[4], e))
    [] s[1] \in {"break", "continue"} -> Ended(st, s[1], None)
    [] s[1] = "return" /\ Len(s) = 1 -> Ended(st, "return", None)
    [] s[1] = "return" /\ Len(s) = 2 ->
         Then(Eval(s[2], st), LAMBDA e : Ended(e, "return", e.val))
    [] s[1] = "raise" -> \* with its cause, or without
         Then(EvalAll(Tail(s), <<>>, st), LAMBDA all : Ended(all, "raise", Raised(all.val[1])))
    [] s[1] = "match" -> Then(Eval(s[2], st), LAMBDA e : Match(e.val, s[3], e))
    [] s[1] = "assert" -> Assertion(s[2], s[3], st)
    [] s[1] = "try" -> Finally(s[5], AfterBody(s[3], s[4], Block(s[2], st)))
    [] s[1] = "del" -> \* in the module
         [st EXCEPT !.globals = [x \in DOMAIN @ \ {s[2]} |-> @[x]]]
    [] s[1] = "def" -> Define(s[2], s[3], s[4], st)

(* How a whole program ends when ask() answers with answers.               *)
Run(program, answers) ==
  Block(program,
        [globals |-> HostGlobals, locals |-> [x \in {} |-> Nil], defs |-> <<>>,
         out |-> <<>>, answers |-> answers, depth |-> 1, how |-> "next", val |-> None])
===============================================================================
