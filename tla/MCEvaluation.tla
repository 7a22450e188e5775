----------------------------- MODULE MCEvaluation -----------------------------
(***************************************************************************)
(* Evaluation with small questions of every kind.                          *)
(***************************************************************************)
EXTENDS Evaluation

CONSTANTS a, b, c, d, other

-------------------------------------------------------------------------------
(* Every list of up to four parameters.                                    *)
Named == <<a, b, c, d>>

Param(i) == [name : {Named[i]}, kind : B!Kinds, optional : BOOLEAN]

ListsOf(n) == {s \in [1 .. n -> UNION {Param(i) : i \in 1 .. n}] :
                 (\A i \in 1 .. n : s[i].name = Named[i]) /\ B!IsSignature(s)}

AllCalls == [sig : UNION {ListsOf(n) : n \in 0 .. 4}, callee : B!Callees,
             args : 0 .. 4, keys : SUBSET Names]

-------------------------------------------------------------------------------
(* Slices of up to three elements.                                         *)
AllCuts == (0 .. 3) \X (Ints \cup {None}) \X (Ints \cup {None}) \X (Ints \cup {None})

-------------------------------------------------------------------------------
(* All integers, some other numbers, texts and tuples.                     *)
Texts == {StringValue(s) : s \in {<<>>, <<2>>, <<3>>, <<2, 2>>, <<2, 3>>, <<Semicolon>>, <<2, Mark>>}}

SomeOperands ==
  {IntValue(i) : i \in Ints} \cup {FloatValue(q) : q \in {-8, -6, -2, 0, 2, 4, 6}}
    \cup {BoolValue(TRUE), BoolValue(FALSE), NoneVal} \cup Texts
    \cup {NewTuple(s) : s \in BoundedSeq({IntValue(2), StringValue(<<2>>), StringValue(<<2, 3>>),
                                          StringValue(<<3>>), FloatValue(8)}, 2)}

SomeRows ==
  BoundedSeq({IntValue(-1), IntValue(1), FloatValue(4), FloatValue(-6), StringValue(<<2>>),
              StringValue(<<2, 3>>), StringValue(<<3>>)}, 4) \ {<<>>}

-------------------------------------------------------------------------------
(* Keys that are easily taken for each other.                              *)
Keys == {StringValue(<<2>>), StringValue(<<2, 3>>), IntValue(2), FloatValue(8),
         NewTuple(<<StringValue(<<2>>), StringValue(<<3>>)>>), NewTuple(<<StringValue(<<2, 3>>)>>)}

KeyPairs == {<<k, IntValue(i)>> : k \in Keys, i \in 0 .. 1}

SomeMaps ==
  [dicts |-> [name : D!DictMethods, pairs : BoundedSeq(KeyPairs, 2), key : Keys, value : {IntValue(3)},
              other : {<<>>} \cup {<<p>> : p \in KeyPairs}],
   sets |-> [name : D!SetMethods, elements : BoundedSeq(Keys, 2), element : Keys,
             other : BoundedSeq(Keys, 1)]]

-------------------------------------------------------------------------------
(* A function h in a function g in a function f.                           *)
Token(i) == <<"token", i>>
Read(n) == <<"read", n>>
Put(n, i) == <<"set", n, Token(i)>>
Call0(n) == <<"call", n>>
Def(n, body) == <<"def", n, body>>
Optional(bodies) == {<<>>} \cup bodies
Joined(first, second) == {s \o t : s \in first, t \in second}

HBodies == {<<Read("a")>>, <<Read("b"), Read("a")>>, <<Read("b"), Put("b", 1)>>, <<Put("a", 1)>>, <<Read("g")>>}

GBodies ==
  Joined(Optional({<<<<"global", "a">>>>}),
  Joined(Optional({<<Read("a")>>, <<Read("b"), Read("a")>>, <<Put("a", 2)>>, <<Put("b", 2)>>}),
  Joined(Optional({<<Def("h", body), Call0("h")>> : body \in HBodies}),
         Optional({<<Read("a")>>}))))

FBodies ==
  Joined(Optional({<<<<"global", "g">>>>}),
  Joined(Optional({<<Put("a", 3)>>, <<Put("a", 3), Put("b", 4)>>}),
  Joined({<<Def("g", body)>> : body \in GBodies},
         {<<Call0("g")>>, <<Put("a", 5), Call0("g")>>, <<Read("a")>>})))

SomePrograms ==
  Joined(Optional({<<Put("b", 6)>>, <<Put("a", 7)>>, <<Put("a", 7), Put("b", 6)>>}),
  Joined({<<Def("f", body), Call0("f")>> : body \in FBodies},
         Optional({<<Call0("g"), Read("a")>>})))

Session(inputs, modules) == [inputs |-> inputs, modules |-> modules]

(* A function with something to capture, left for others to call.          *)
From(n) == <<"from", n, "m">>

InnerBodies ==
  Optional({<<Read("c")>>})
    \cup {<<Def("h", body), Call0("h")>> : body \in Optional({<<Read("c")>>})}

Makers ==
  Joined(Optional({<<Put("b", 1)>>}),
         {<<Def("f", <<<<"global", "g">>, Put("c", 2), Def("g", body)>>), Call0("f")>> :
            body \in Joined(Optional({<<Read("b")>>}), InnerBodies)})

(* And those who call it, and go on with names of their own.               *)
Users(n) ==
  Joined(Optional({<<Put("b", 3)>>, <<Def("d", <<>>), Call0("d")>>}),
         Joined({<<Call0(n)>>, <<Call0(n), Read("c")>>}, Optional({<<Read("b")>>})))

SomeSessions ==
  {Session(<<p>>, <<>>) : p \in SomePrograms}
    \cup {Session(<<p, q>>, <<>>) : p \in Makers, q \in Users("g")}
    \cup {Session(<<<<From("g")>> \o q>>, [m |-> p]) : p \in Makers, q \in Users("g")}
    \cup {Session(<<p, <<From("g"), Read("b")>>, <<From("f")>> \o q>>, [m |-> r]) :
             p \in Makers, q \in Users("g"), r \in Makers \cup {<<Read("b")>>}}

-------------------------------------------------------------------------------
(* An instruction of every operation that the compiler emits and that the  *)
(* machine reads as it is declared, before or behind a jump.               *)
Fit(width) == {0, Base ^ width - 1, 1}

Operations ==
  E!Indexed \cup E!Jumping \cup E!Calling \cup {"OpMakeClass", "OpPop", "OpAdd", "OpReturnValue"}

InstructionsOf(op) ==
  LET widths == E!OperandWidths(op)
  IN  {<<op, operands>> : operands \in {f \in [DOMAIN widths -> UNION {Fit(widths[i]) : i \in DOMAIN widths}] :
                            \A i \in DOMAIN widths : f[i] \in Fit(widths[i])}}

Instructions == UNION {InstructionsOf(op) : op \in Operations}

SomeListings ==
  {[instructions |-> <<i, <<jump, <<9999>>>>, j>>, jump |-> 2, target |-> t] :
     i \in Instructions, j \in Instructions, jump \in {"OpJump", "OpForIter"}, t \in {Base ^ 4 - 2}}

SomeMentions == BoundedSeq({"v", "w", "x", "y", "z"}, 5)
===============================================================================
