------------------------------ MODULE Evaluation ------------------------------
(***************************************************************************)
(* Computation, and the parts of the interpreter that are defined by       *)
(* operators that call themselves: each is asked one question, of a set of *)
(* them, and what it answers is compared with a definition of what the     *)
(* answer means.                                                           *)
(***************************************************************************)
EXTENDS Computation, Operators

CONSTANTS Operands, \* bound: the values that operators get
          Maps,     \* bound: methods of dicts and sets, see AskDict and AskSet
          Sessions  \* bound: of Scopes

D == INSTANCE Dicts
S == INSTANCE Scopes
L == INSTANCE Lexical

Operate == \E op \in ArithmeticOps, l, r \in Operands :
             Ask("operator", <<op, l, r>>, Arithmetic(op, l, r))

Compare == \E l, r \in Operands :
             Ask("comparison", <<l, r>>,
                 [op \in ComparisonOps |-> Comparison(op, l, r) = BoolValue(TRUE)])

AskDict == \E q \in Maps.dicts :
             Ask("dict", q, D!callDictMethod(D!NewDict(q.pairs), q.name, q.key, q.value,
                                             D!NewDict(q.other)))

AskSet == \E q \in Maps.sets :
            Ask("set", q, D!callSetMethod(D!NewSet(q.elements), q.name, q.element, q.other))

Scope == \E s \in Sessions : Ask("session", s, S!Run(s))

Others ==
  /\ asked = <<"nothing">>
  /\ \/ Operate \/ Compare
     \/ AskDict \/ AskSet \/ Scope

EvaluationNext == Next \/ Others

EvaluationSpec == Init /\ [][EvaluationNext]_vars

-------------------------------------------------------------------------------
(* Two integers: the result, where it is an integer.                       *)
FloorOf(l, r) == IF r > 0 THEN l \div r ELSE (-l) \div (-r)
BitOf(i, b) == (i \div 2 ^ b) % 2

Exact(op, l, r) ==
  CASE op = "+" -> l + r
    [] op = "-" -> l - r
    [] op = "*" -> l * r
    [] op = "//" -> FloorOf(l, r)
    [] op = "%" -> l - r * FloorOf(l, r)
    [] op = "<<" -> l * 2 ^ r
    [] op = ">>" -> l \div 2 ^ r

BitwiseAsDefined(op, l, r, result) ==
  \A b \in 0 .. Width - 1 :
    LET x == BitOf(l, b)
        y == BitOf(r, b)
    IN  BitOf(result, b) = CASE op = "&" -> x * y
                             [] op = "|" -> x + y - x * y
                             [] op = "^" -> (x + y) % 2

IntsAsDefined(op, l, r) ==
  CASE op \in {"/", "//", "%"} /\ r = 0 -> answer = Raises("ZeroDivisionError")
    [] op \in {"<<", ">>"} /\ r < 0 -> answer = Raises("ValueError")
    [] op \in {"&", "|", "^"} -> IsInt(answer) /\ BitwiseAsDefined(op, l, r, Of(answer))
    [] op = "/" /\ r # 0 -> answer = Quotient(4 * l, 4 * r)
    [] OTHER -> Exact(op, l, r) \in Ints => answer = IntValue(Exact(op, l, r))

(* A float is in what is added, subtracted or multiplied.                  *)
FloatsAsDefined(op, l, r) ==
  CASE op = "+" -> answer = FloatValue(ToFloat(l) + ToFloat(r))
    [] op = "-" -> answer = FloatValue(ToFloat(l) - ToFloat(r))
    [] op = "*" -> 4 * Of(answer) = ToFloat(l) * ToFloat(r)
    [] OTHER -> TRUE

TextsAsDefined(op, l, r) ==
  CASE op = "+" /\ IsStr(l) /\ IsStr(r) -> answer = StringValue(Of(l) \o Of(r))
    [] op = "*" /\ IsStr(l) /\ IsInt(r) ->
         /\ Len(Of(answer)) = Len(Of(l)) * (IF Of(r) > 0 THEN Of(r) ELSE 0)
         /\ \A i \in DOMAIN Of(answer) : i > Len(Of(l)) => Of(answer)[i] = Of(answer)[i - Len(Of(l))]
         /\ Of(r) > 0 => SubSeq(Of(answer), 1, Len(Of(l))) = Of(l)
    [] op \in {"-", "/", "&", "<<"} -> answer = Raises("TypeError")
    [] OTHER -> TRUE

(* Operators give the mathematical result wherever an integer can hold it, *)
(* and an exception exactly where there is none (evalAdd to evalMod, and   *)
(* the cases of the bit operators).                                        *)
ArithmeticAsDefined ==
  Asked("operator") =>
    LET op == Question[1]
        l == Question[2]
        r == Question[3]
    IN  CASE IsInt(l) /\ IsInt(r) -> IntsAsDefined(op, Of(l), Of(r))
          [] Type(l) = "float" /\ Type(r) \in {"int", "float"} -> FloatsAsDefined(op, l, r)
          [] IsStr(l) -> TextsAsDefined(op, l, r)
          [] OTHER -> TRUE

-------------------------------------------------------------------------------
(* A text without the two characters that keys are put together with.      *)
RECURSIVE Plain(_)
Plain(v) ==
  CASE IsStr(v) -> ToSet(Of(v)) \cap {Semicolon, Mark} = {}
    [] Type(v) = "tuple" -> \A i \in DOMAIN Of(v) : Plain(Of(v)[i])
    [] OTHER -> TRUE

(* Values of the same types all the way down.                              *)
RECURSIVE SameTypes(_, _)
SameTypes(l, r) ==
  /\ Type(l) = Type(r)
  /\ Type(l) = "tuple" /\ Len(Of(l)) = Len(Of(r)) =>
       \A i \in DOMAIN Of(l) : SameTypes(Of(l)[i], Of(r)[i])

(* The comparisons agree: of two numbers, or two texts, exactly one is the *)
(* case of less, equal and greater, and the others follow; what is the     *)
(* same is equal; and of two values of one type a dict makes one key       *)
(* exactly if they are equal (LessThan, Equals, HashKey).                  *)
ComparisonsAgree ==
  Asked("comparison") =>
    LET l == Question[1]
        r == Question[2]
    IN  /\ Ordered(l, r) =>
             /\ Cardinality({op \in {"<", "==", ">"} : answer[op]}) = 1
             /\ answer["<="] = (answer["<"] \/ answer["=="])
             /\ answer[">="] = (answer[">"] \/ answer["=="])
        /\ answer["!="] = ~answer["=="]
        /\ answer["is"] => answer["=="] /\ ~answer["is not"]
        /\ Plain(l) /\ Plain(r) /\ SameTypes(l, r) => (answer["=="] <=> HashKey(l) = HashKey(r))

-------------------------------------------------------------------------------
(* A dict as a map from keys to values, and what its methods mean.         *)
MapOf(pairs) ==
  LET place(k) == SelectLastInSeq(pairs, LAMBDA p : p[1] = k)
  IN  [k \in {pairs[i][1] : i \in DOMAIN pairs} |-> pairs[place(k)][2]]

Fits(d, m) == D!Pairs(d) = {<<k, m[k]>> : k \in DOMAIN m}

DictAsDefined(q) ==
  LET m == MapOf(q.pairs)
      added == MapOf(q.other)
      Has == q.key \in DOMAIN m
      GetOr(default) == IF Has THEN m[q.key] ELSE default
      gives == answer.gives
      Leaves(f) == Fits(answer.left, f)
  IN  CASE q.name = "get" -> gives = GetOr(NoneVal) /\ Leaves(m)
        [] q.name = "[]" -> gives = GetOr(D!KeyError) /\ Leaves(m)
        [] q.name = "in" -> gives = Has /\ Leaves(m)
        [] q.name = "pop" -> /\ gives = GetOr(D!KeyError)
                             /\ Leaves([k \in DOMAIN m \ {q.key} |-> m[k]])
        [] q.name = "get or" -> gives = GetOr(q.value) /\ Leaves(m)
        [] q.name = "pop or" -> /\ gives = GetOr(q.value)
                                /\ Leaves([k \in DOMAIN m \ {q.key} |-> m[k]])
        [] q.name = "del" -> Leaves([k \in DOMAIN m \ {q.key} |-> m[k]])
        [] q.name = "set" -> Leaves((q.key :> q.value) @@ m)
        [] q.name = "setdefault" -> gives = GetOr(q.value) /\ Leaves(m @@ (q.key :> q.value))
        [] q.name = "update" -> Leaves(added @@ m)
        [] q.name = "clear" -> Leaves(<<>>)
        [] q.name = "keys" -> gives = DOMAIN m /\ Leaves(m)
        [] q.name = "values" -> gives = {m[k] : k \in DOMAIN m} /\ Leaves(m)
        [] q.name \in {"items", "copy"} -> gives = {<<k, m[k]>> : k \in DOMAIN m} /\ Leaves(m)
        [] q.name = "==" -> gives = (m = added)

SetAsDefined(q) ==
  LET s == ToSet(q.elements)
      t == ToSet(q.other)
      gives == answer.gives
      left == D!Members(answer.left)
  IN  CASE q.name = "add" -> left = s \cup {q.element}
        [] q.name \in {"remove", "discard"} ->
             /\ left = s \ {q.element}
             /\ q.name = "remove" => (gives = D!KeyError <=> q.element \notin s)
        [] q.name = "pop" -> IF s = {} THEN gives = D!KeyError /\ left = {}
                             ELSE gives \in s /\ left = s \ {gives}
        [] q.name = "clear" -> left = {}
        [] q.name = "union" -> gives = s \cup t /\ left = s
        [] q.name = "intersection" -> gives = s \cap t /\ left = s
        [] q.name = "difference" -> gives = s \ t /\ left = s
        [] q.name = "issubset" -> gives = (s \subseteq t) /\ left = s
        [] q.name = "issuperset" -> gives = (t \subseteq s) /\ left = s
        [] q.name = "in" -> gives = (q.element \in s) /\ left = s
        [] q.name = "==" -> gives = (s = t) /\ left = s

(* Dicts and sets are the maps and the sets of the values put into them,   *)
(* although they are kept by texts that the values are written as          *)
(* (HashKey, callDictMethod, callSetMethod).                               *)
DictsAsDefined ==
  /\ Asked("dict") => DictAsDefined(Question)
  /\ Asked("set") => SetAsDefined(Question)

-------------------------------------------------------------------------------
(* Programs in which a name belongs to one body, and in which a function   *)
(* finds what it captures when it is defined, see the values that lexical  *)
(* scoping gives them, one after the other and by import; unless one calls *)
(* a function of another that needs what its own program was made with     *)
(* (SymbolTable, OpClosure, Run, Execute, LoadModule).                     *)
ScopesAsWritten ==
  Asked("session") /\ L!Regular(Question) =>
    LET meaning == L!Meaning(Question)
    IN  meaning.strayed \/ answer = meaning.seen
===============================================================================
