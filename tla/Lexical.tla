------------------------------- MODULE Lexical -------------------------------
(***************************************************************************)
(* What names mean in the sessions of Scopes: a name belongs to the        *)
(* innermost function around it that assigns it, or else to the module; a  *)
(* function shares the variables of the functions around it, and of its    *)
(* own module, whoever calls it.                                           *)
(***************************************************************************)
EXTENDS Integers, Sequences, SequencesExt, Functions, FiniteSets, TLC

Of(body, what) == {body[i][2] : i \in {j \in DOMAIN body : body[j][1] \in what}}

Globals(body) == Of(body, {"global"})
Binding == {"set", "def", "from"}
Assigned(body) == Of(body, Binding)
Locals(body) == Assigned(body) \ Globals(body)

(* A variable has a cell; an environment says of the names it knows which  *)
(* cell they have, and 0 of a name that is the module's; which module's;   *)
(* and by which program it was made.                                       *)
Unset == <<"unset">>
Function(i) == <<"closure", i>>

(* strayed: a function that was given to another program was called there, *)
(* and did what takes its own program's constants, names or globals.       *)
Start(modules) ==
  [globals |-> <<<<>>>>, cells |-> <<>>, functions |-> <<>>, seen |-> <<>>, failed |-> FALSE,
   modules |-> modules, exports |-> <<>>, programs |-> 0, running |-> 0, strayed |-> FALSE]

Fails(st, what) == [st EXCEPT !.failed = TRUE, !.seen = Append(@, what)]

CellOf(env, n) == IF n \in DOMAIN env.cells THEN env.cells[n] ELSE 0

Value(st, env, n) ==
  IF CellOf(env, n) # 0 THEN st.cells[env.cells[n]]
  ELSE IF n \in DOMAIN st.globals[env.home] THEN st.globals[env.home][n] ELSE Unset

Assigns(st, env, n, v) ==
  IF CellOf(env, n) # 0 THEN [st EXCEPT !.cells[env.cells[n]] = v]
  ELSE [st EXCEPT !.globals[env.home] = (n :> v) @@ @]

Strays(st, env, s) ==
  /\ env.program # st.running
  /\ s[1] # "global"
  /\ s[1] \in Binding \/ CellOf(env, s[2]) = 0

RECURSIVE Performs(_, _, _)

(* A call makes new cells for the names that the function assigns.         *)
Enters(st, f) ==
  LET names == SetToSeq(Locals(f.body))
      size  == Len(st.cells)
      own   == [n \in Locals(f.body) |-> size + SelectInSeq(names, LAMBDA m : m = n)]
      env   == [f.env EXCEPT !.cells = own @@ [n \in Globals(f.body) |-> 0] @@ @]
  IN  Performs([st EXCEPT !.cells = @ \o [i \in DOMAIN names |-> Unset]], env, f.body)

(* A program is performed, for a module of the host or of an import.       *)
Program(st, home, body) ==
  LET number == st.programs + 1
  IN  Performs([st EXCEPT !.programs = number, !.running = number],
               [cells |-> <<>>, home |-> home, program |-> number], body)

(* A module is performed once.                                             *)
Loads(st, name) ==
  LET home == Len(st.globals) + 1
      done == Program([st EXCEPT !.globals = Append(@, <<>>)], home, st.modules[name])
  IN  IF name \in DOMAIN st.exports THEN st
      ELSE [done EXCEPT !.running = st.running,
                        !.exports = IF done.failed THEN @ ELSE (name :> done.globals[home]) @@ @]

Imports(st, env, n, name) ==
  LET loaded == Loads(st, name)
  IN  IF loaded.failed THEN loaded
      ELSE IF n \in DOMAIN loaded.exports[name]
           THEN Assigns(loaded, env, n, loaded.exports[name][n])
           ELSE Fails(loaded, <<"AttributeError">>)

Statement(before, env, s) ==
  LET st == [before EXCEPT !.strayed = @ \/ Strays(before, env, s)]
      v == Value(st, env, s[2])
  IN
  CASE s[1] = "set" -> Assigns(st, env, s[2], s[3])
    [] s[1] = "global" -> st
    [] s[1] = "def" ->
         Assigns([st EXCEPT !.functions = Append(@, [body |-> s[3], env |-> env])],
                 env, s[2], Function(Len(st.functions) + 1))
    [] s[1] = "from" -> Imports(st, env, s[2], s[3])
    [] s[1] \in {"read", "call"} /\ v = Unset -> Fails(st, <<"NameError">>)
    [] s[1] = "read" /\ v # Unset -> [st EXCEPT !.seen = Append(@, v)]
    [] s[1] = "call" /\ v # Unset ->
         IF v[1] = "closure" THEN Enters(st, st.functions[v[2]]) ELSE Fails(st, <<"TypeError">>)

Performs(st, env, body) ==
  FoldLeft(LAMBDA s, statement : IF s.failed THEN s ELSE Statement(s, env, statement), st, body)

Meaning(session) ==
  FoldLeft(LAMBDA st, body : Program([st EXCEPT !.failed = FALSE], 1, body),
           Start(session.modules), session.inputs)

-------------------------------------------------------------------------------
(* The bodies of a program, each with those around it: a chain of bodies   *)
(* from the module's, and of the places where each is defined in the one   *)
(* around it.                                                              *)
RECURSIVE Chains(_, _)
Chains(bodies, places) ==
  LET body == Last(bodies) IN
  {[bodies |-> bodies, places |-> places]}
    \cup UNION {Chains(Append(bodies, body[i][3]), Append(places, i)) :
                  i \in {j \in DOMAIN body : body[j][1] = "def"}}

(* The bodies a name belongs to, as their places.                          *)
Owners(program, n) ==
  LET chains == Chains(<<program>>, <<>>)
  IN  {c.places : c \in {d \in chains : n \in Locals(Last(d.bodies))}}
        \cup {<<>> : c \in {d \in chains : n \in Globals(Last(d.bodies))}}

NamesIn(program) ==
  UNION {Assigned(Last(c.bodies)) \cup Globals(Last(c.bodies)) : c \in Chains(<<program>>, <<>>)}

(* Of a function that uses a name of a function around it: every           *)
(* assignment of the name comes before the def.                            *)
KeepsWhatItCaptures(c) ==
  \A n \in Of(Last(c.bodies), {"read", "call"}), k \in 2 .. Len(c.bodies) - 1 :
    n \in Locals(c.bodies[k]) =>
      \A i \in DOMAIN c.bodies[k] :
        c.bodies[k][i][1] \in Binding /\ c.bodies[k][i][2] = n => i < c.places[k]

(* The sessions for which the compiler is meant.                           *)
RegularProgram(program) ==
  /\ \A n \in NamesIn(program) : Cardinality(Owners(program, n)) <= 1
  /\ \A c \in Chains(<<program>>, <<>>) : KeepsWhatItCaptures(c)

Regular(session) ==
  \A p \in ToSet(session.inputs) \cup Range(session.modules) : RegularProgram(p)
===============================================================================
