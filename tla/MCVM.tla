--------------------------------- MODULE MCVM ---------------------------------
(***************************************************************************)
(* Source programs for the compiler and the machine, and what it means     *)
(* that the machine runs them as they are written.                         *)
(***************************************************************************)
EXTENDS StackDiscipline, FiniteSets

NoName == -1

C == INSTANCE Compiler
R == INSTANCE Reference

\* names
f == 10
x == 11
e == 12
i == 13
j0 == 14

call(name, args) == <<"call", name, args>>
say(v) == <<"expr", call(PrintName, <<v>>)>>
num(n) == <<"num", n>>
name(y) == <<"name", y>>
asks == call(AskName, <<>>)
if(then, else) == <<"if", asks, then, else>>
while(body) == <<"while", asks, body>>
for(body) == <<"for", i, call(RangeName, <<num(2)>>), body>>
try(body, hs, else, finally) == <<"try", body, hs, else, finally>>

(* Statements that end normally or raise.                                  *)
Steps == {say(num(1)), <<"expr", asks>>, <<"raise", num(2)>>,
          <<"expr", call(RangeName, <<>>)>>}

(* Tries about the blocks given: with a handler or two, an else and a      *)
(* finally.  What is raised in a handler or in an else is not excluded.    *)
Excepts == {<<<<NoName, <<say(num(3))>>>>>>,
             <<<<e, <<say(name(e))>>>>, <<NoName, <<say(num(4))>>>>>>}

Tries(blocks) ==
  {try(b, h, else, finally) :
     b \in blocks, h \in Excepts, else \in {<<>>, <<say(num(5))>>},
     finally \in {<<>>, <<say(num(6))>>}}

(* A handler that raises again or returns.                                 *)
Leaving == {try(<<s>>, <<<<e, <<out1>>>>>>, <<>>, <<>>) :
              s \in Steps, out1 \in {<<"raise", name(e)>>, <<"return", name(e)>>, <<"return">>}}

LoopsOver(blocks) == {while(b) : b \in blocks} \cup {for(b) : b \in blocks}

Blocks(stmts) == {<<s, say(name(x))>> : s \in stmts}

Jumps == {<<"break">>, <<"continue">>, <<"return", name(x)>>}

Bodies1 ==
  Steps \cup Tries({<<s>> : s \in Steps}) \cup Leaving
  \cup LoopsOver({<<if(<<j>>, <<>>), say(name(x))>> : j \in Jumps} \cup Blocks(Steps))

Inner == Tries({<<<<"expr", asks>>, say(name(x))>>}) \cup
         LoopsOver({<<if(<<j>>, <<>>), say(num(7))>> : j \in {<<"break">>, <<"continue">>}})

Rethrows == {try(<<s>>, <<<<e, <<<<"raise", name(e)>>>>>>>>, <<>>, <<>>) : s \in Steps}

Bodies2 ==
  Tries({<<r>> : r \in Rethrows}) \cup
  {try(<<s>>, h, <<t>>, <<>>) : s, t \in Steps, h \in Excepts} \cup
  {for(<<l, say(name(i))>>) :
     l \in {for(<<if(<<<<"continue">>>>, <<>>), say(num(7))>>),
            while(<<if(<<<<"break">>>>, <<>>), say(num(7))>>)}} \cup
  Tries(Blocks(Inner)) \cup {while(b) : b \in Blocks(Inner)} \cup
  {for(<<t, say(name(i))>>) : t \in Tries({<<<<"expr", asks>>>>})}

(* Matches: each case that applies prints; a pattern or a subject may      *)
(* raise.  No case has a guard: the parser takes its "if" for a part of    *)
(* the pattern.  None is in a loop: a case that was run leaves the subject *)
(* on the operand stack.                                                   *)
match(subject, cases) == <<"match", subject, cases>>

Matches ==
  {match(s, <<<<p, <<>>, <<say(num(3))>>>>, <<num(0), <<>>, <<t>>>>, <<<<>>, <<>>, <<say(num(4))>>>>>>) :
     s \in {asks, num(2)}, p \in {num(1), call(RangeName, <<>>)}, t \in Steps}

(* Expressions that jump, or loop, over the operands beneath them; any     *)
(* part of them may raise.                                                 *)
pair == call(RangeName, <<num(2)>>)
raises == call(RangeName, <<>>)
comp(element, over, test) == <<"comp", element, i, over, test>>

Expressions ==
  {<<op, l, r>> : op \in {"and", "or"}, l \in {asks, <<"list", <<>>>>}, r \in {asks, num(2), raises}}
  \cup {<<"ternary", asks, l, r>> : l, r \in {num(2), raises}}
  \cup {<<"not", asks>>, <<"not", <<"or", asks, asks>>>>, <<"list", <<asks, num(2)>>>>}
  \cup {<<"and", <<"walrus", j0, asks>>, name(j0)>>}
  \cup {comp(v, pair, t) : v \in {name(i), asks}, t \in {<<>>, asks}}
  \cup {comp(comp(asks, pair, <<>>), <<"list", <<num(2), asks>>>>, <<>>),
         comp(num(2), comp(num(3), pair, asks), name(i)), comp(raises, pair, asks)}

Unpackings == {<<"unpack", <<j0, x>>, v>> : v \in
  {pair, <<"list", <<num(1), asks>>>>, <<"ternary", asks, pair, num(2)>>, comp(num(1), pair, asks)}}

Causes == {<<"raise", num(2), v>> : v \in {num(1), raises}}

Assertions == {<<"assert", asks, m>> : m \in {<<>>, num(2), asks}}

(* An expression among the arguments of a call, and in a loop; a statement *)
(* in a try.                                                               *)
Bodies3 ==
  {try(<<<<"expr", call(PrintName, <<num(3), v, num(4)>>)>>>>, h, <<>>, <<>>) :
     v \in Expressions, h \in Excepts}
  \cup {for(<<<<"set", x, v>>, say(name(i))>>) : v \in Expressions}
  \cup Tries({<<s, say(name(x))>> : s \in Unpackings \cup Assertions \cup Causes})

(* The body in a function that a try of the module calls.                  *)
InFunction(body) ==
  <<<<"def", f, <<x>>, <<body, say(num(8))>>>>,
    try(<<say(call(f, <<num(9)>>))>>, <<<<e, <<say(name(e))>>>>>>, <<>>, <<>>),
    say(num(9))>>

(* The function calls itself, inside the body's block, while asked to.     *)
Again == if(<<<<"expr", call(f, <<num(1)>>)>>>>, <<>>)
Recursive == {InFunction(try(<<Again, s>>, <<<<e, <<say(name(e))>>>>>>, <<>>, fin)) :
                s \in Steps, fin \in {<<>>, <<say(num(6))>>}}
  \cup {InFunction(Again)}
  \cup {InFunction(<<"expr", call(f, args)>>) : args \in {<<num(1)>>, <<>>}}
  \cup {InFunction(<<"return", call(f, <<num(1), num(2)>>)>>)}

(* A function that ends in an else that returns.                           *)
FallsOff == {<<<<"def", f, <<x>>, <<if(<<s>>, <<<<"return", num(5)>>>>)>>>>,
               say(call(f, <<num(1)>>)), say(num(9))>> : s \in Steps}

(* The module itself, with no function and no handler around it.           *)
AtTop(body) == <<<<"set", x, num(1)>>, body, say(name(x)), say(name(f))>>

Deletions == {if(<<<<"del", x>>>>, <<<<"del", f>>>>), try(<<<<"del", x>>, say(name(x))>>, <<<<x, <<>>>>>>, <<>>, <<>>)}

Structured == {InFunction(b) : b \in Bodies1 \cup Bodies2 \cup Bodies3 \cup Matches}
                \cup Recursive \cup FallsOff
                \cup {AtTop(b) : b \in Deletions \cup Unpackings \cup Assertions}
                \cup {AtTop(say(v)) : v \in Expressions}
                \cup {AtTop(b) : b \in Steps \cup Tries({<<s>> : s \in Steps})}

StructuredUnits == {C!UnitOf(p) : p \in Structured}

(* Programs that never end, but for the host's context, and long ones      *)
(* without a jump.                                                         *)
forever(body) == <<<<"while", num(1), body>>>>
pass == <<"expr", num(0)>>
throw == <<"raise", num(2)>>

Endless == {
  forever(<<>>),
  forever(<<for(<<pass>>)>>),
  forever(<<try(<<throw>>, <<<<NoName, <<>>>>>>, <<>>, <<pass>>)>>),
  <<<<"def", f, <<x>>, <<try(<<<<"expr", call(f, <<num(1)>>)>>>>,
                           <<<<NoName, <<<<"expr", call(f, <<num(2)>>)>>>>>>>>, <<>>, <<>>)>>>>>>
    \o forever(<<try(<<<<"expr", call(f, <<num(1)>>)>>>>, <<<<NoName, <<>>>>>>, <<>>, <<>>)>>),
  [j \in 1..12 |-> pass]}

EndlessUnits == {C!UnitOf(p) : p \in Endless}

(* Programs that leave a try by a return, in its body or in its handler.   *)
ReturnInTry ==
  LET leave == <<"return", num(5)>> IN
  {InFunction(try(b, <<<<NoName, <<leave>>>>>>, <<>>, <<say(num(6))>>)) :
     b \in {<<leave>>, <<if(<<leave>>, <<say(num(1))>>)>>}}

ReturnInTryUnits == {C!UnitOf(p) : p \in ReturnInTry}

(* A return inside a try leaves its handler behind.  These programs then   *)
(* raise in the module, and the machine goes back to the function's frame, *)
(* with what has been pushed since over its locals and its iterator.       *)
Stale ==
  {<<<<"def", f, <<x>>, <<for(<<try(<<if(<<r>>, <<pass>>)>>, <<<<NoName, <<pass>>>>>>, <<>>, <<>>)>>)>>>>,
     <<"expr", call(f, <<num(1)>>)>>, <<"expr", call(PrintName, args)>>, throw>> :
     r \in {<<"return">>, <<"return", name(x)>>},
     args \in {<<>>, <<num(1), num(1)>>, <<num(1), call(f, <<num(1)>>)>>}}

(* Calls of what cannot be called, of what is not there, and too many of   *)
(* them for the stack.                                                     *)
Wrong == {AtTop(b) : b \in
  {<<"expr", call(x, <<>>)>>, <<"expr", call(f, <<>>)>>, while(<<<<"expr", call(x, <<>>)>>>>),
   <<"expr", call(PrintName, [j \in 1..7 |-> num(j)])>>,
   say(comp(comp(<<"list", <<num(1), num(2)>>>>, pair, <<>>), pair, <<>>)),
   <<"unpack", [j \in 1..7 |-> j0 + j], call(RangeName, <<num(7)>>)>>}}
  \cup {<<<<"def", f, <<x, i>>, <<<<"expr", call(PrintName, <<num(1), call(f, <<num(1), num(1)>>)>>)>>>>>>,
        <<"expr", call(f, <<num(1), num(1)>>)>>>>}

WildUnits == {C!UnitOf(p) : p \in Stale \cup Wrong \cup ReturnInTry \cup Endless}

-------------------------------------------------------------------------------
(* A table of heights for a program (see StackDiscipline): starting with   *)
(* what is known at the first instruction, the least that any way to a     *)
(* position brings, until nothing changes.                                 *)
RECURSIVE Meet(_, _), Sweep(_, _, _), Settle(_, _)

Meet(at, entries) ==
  IF entries = {} THEN at
  ELSE LET en == CHOOSE en \in entries : TRUE
           h == IF en.h < 0 THEN 0 ELSE en.h
           known == en.pos \in DOMAIN at
           rest == entries \ {en}
       IN  CASE known /\ at[en.pos].h <= h -> Meet(at, rest)
             [] known /\ at[en.pos].h > h -> Meet([at EXCEPT ![en.pos].h = h], rest)
             [] OTHER -> Meet([q \in DOMAIN at \cup {en.pos} |->
                                 IF q = en.pos THEN [h |-> h, tries |-> en.tries] ELSE at[q]],
                              rest)

Sweep(code, at, p) ==
  IF p = Len(code) THEN at
  ELSE Sweep(code, IF p \in DOMAIN at THEN Meet(at, LeadsTo(code, at, p)) ELSE at, p + 1)

Settle(code, at) ==
  LET swept == Sweep(code, at, 0) IN IF swept = at THEN at ELSE Settle(code, swept)

TableOf(u) ==
  LET start == [q \in {0} |-> [h |-> 0, tries |-> <<>>]]
      at == C!FoldLeft(LAMBDA tables, fn : Append(tables, Settle(fn.code, start)), <<>>, u.fns)
  IN  [at |-> at,
       exact |-> {g \in DOMAIN u.fns : \A q \in DOMAIN at[g] \ {Len(u.fns[g].code)} :
                    \A en \in LeadsTo(u.fns[g].code, at[g], q) : at[g][en.pos].h = en.h}]

(* The compiler's code keeps the discipline, unless a try is left by a     *)
(* return.                                                                 *)
ASSUME CompiledCodeIsDisciplined ==
  \A u \in StructuredUnits : LET t == TableOf(u) IN Disciplined(u, t) /\ EndsEmpty(u, t)

ASSUME ReturnsBreakTheDiscipline == \A u \in ReturnInTryUnits : ~Disciplined(u, TableOf(u))

-------------------------------------------------------------------------------
(* How the run ended, in the terms of the reference.                       *)
Ending == CASE status = "done" -> "next" [] status = "failed" -> "raise" [] OTHER -> status

(* Compiled and run, a program prints what its source says, consumes the   *)
(* same answers, and ends the same way: compiler.go and vm.go together     *)
(* implement the structure of the language.                                *)
RunsAsWritten ==
  Running \/
    LET r == R!Run(unit.source, answers) IN
    /\ out = r.out
    /\ r.answers = <<>>
    /\ Ending = r.how
    /\ Ending = "raise" => result = r.val

(* The finally of a try runs however the try is left: it is run as often   *)
(* as the source says.  (What TestFinallyAlwaysRuns is named for.)         *)
FinallyAlwaysRuns ==
  LET finals(printed) == {j \in DOMAIN printed : printed[j] = Num(6)} IN
  Running \/ Cardinality(finals(out)) = Cardinality(finals(R!Run(unit.source, answers).out))
===============================================================================
