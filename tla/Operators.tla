------------------------------ MODULE Operators ------------------------------
(***************************************************************************)
(* What the instructions for operators make of their operands: the cases   *)
(* of Run and the functions evalAdd to evalMod in pkg/vm/vm.go, for        *)
(* numbers and texts.  An operation that fails gives the type of its       *)
(* exception.                                                              *)
(***************************************************************************)
EXTENDS Sameness, Bitwise

Raises(type) == <<"raises", type>>

(* A float that is the quotient of two.                                    *)
Quotient(n, d) == <<"quotient", <<n, d>>>>

-------------------------------------------------------------------------------
(* Only two ints give an int; a bool counts as a float.                    *)
evalAdd(l, r) ==
  CASE IsInt(l) /\ IsInt(r) -> IntValue(Wrap(Of(l) + Of(r)))
    [] IsNumber(l) /\ IsNumber(r) /\ ~(IsInt(l) /\ IsInt(r)) -> FloatValue(ToFloat(l) + ToFloat(r))
    [] IsStr(l) /\ IsStr(r) -> StringValue(Of(l) \o Of(r))
    [] OTHER -> Raises("TypeError")

evalSub(l, r) ==
  CASE IsInt(l) /\ IsInt(r) -> IntValue(Wrap(Of(l) - Of(r)))
    [] IsNumber(l) /\ IsNumber(r) /\ ~(IsInt(l) /\ IsInt(r)) -> FloatValue(ToFloat(l) - ToFloat(r))
    [] OTHER -> Raises("TypeError")

(* A text as often as a number says, whose fraction is dropped.            *)
Repeated(s, n) == StringValue(Times(s, IF n < 0 THEN 0 ELSE n))

evalMul(l, r) ==
  CASE IsInt(l) /\ IsInt(r) -> IntValue(Wrap(Of(l) * Of(r)))
    [] IsNumber(l) /\ IsNumber(r) /\ ~(IsInt(l) /\ IsInt(r)) ->
         FloatValue((ToFloat(l) * ToFloat(r)) \div 4)
    [] IsStr(l) /\ IsNumber(r) -> Repeated(Of(l), ToInt(r))
    [] IsNumber(l) /\ IsStr(r) -> Repeated(Of(r), ToInt(l))
    [] OTHER -> Raises("TypeError")

evalDiv(l, r) ==
  CASE ~IsNumber(l) \/ ~IsNumber(r) -> Raises("TypeError")
    [] IsNumber(l) /\ IsNumber(r) /\ ToFloat(r) = 0 -> Raises("ZeroDivisionError")
    [] OTHER -> Quotient(ToFloat(l), ToFloat(r))

(* What is no number counts as zero where one of the operands is none.     *)
OrZero(v) == IF IsNumber(v) THEN ToFloat(v) ELSE 0

\* Mutant: whether the division left something is not asked.
FloorDivOff(l, r) == IF (l < 0) # (r < 0) THEN Wrap(Quo(l, r) - 1) ELSE Quo(l, r)

(* Of two integers: (li^ri) < 0 says that their signs differ.              *)
FloorDiv(l, r) ==
  IF (l < 0) # (r < 0) /\ Wrap(Quo(l, r) * r) # l THEN Wrap(Quo(l, r) - 1) ELSE Quo(l, r)

(* Any two numbers are divided as integers.                                *)
evalFloorDiv(l, r) ==
  IF IsNumber(l) /\ IsNumber(r)
  THEN IF ToInt(r) = 0 THEN Raises("ZeroDivisionError")
       ELSE IntValue(FloorDiv(ToInt(l), ToInt(r)))
  ELSE IF OrZero(r) = 0 THEN Raises("ZeroDivisionError")
       ELSE FloatValue(0)

Modulo(l, r) ==
  LET m == Rem(l, r) IN IF m # 0 /\ (m < 0) # (r < 0) THEN Wrap(m + r) ELSE m

(* The remainder of floats keeps the sign of the left one.                 *)
evalMod(l, r) ==
  IF IsInt(l) /\ IsInt(r)
  THEN IF Of(r) = 0 THEN Raises("ZeroDivisionError") ELSE IntValue(Modulo(Of(l), Of(r)))
  ELSE IF OrZero(r) = 0 THEN Raises("ZeroDivisionError")
       ELSE FloatValue(Rem(OrZero(l), OrZero(r)))

-------------------------------------------------------------------------------
(* The bits of an integer.                                                 *)
Bits(i) == i % 2 ^ Width
OfBits(n) == Wrap(n)

OnInts(l, r, Op(_, _)) ==
  IF IsNumber(l) /\ IsNumber(r) THEN Op(ToInt(l), ToInt(r)) ELSE Raises("TypeError")

BitAnd(l, r) == LET op(i, j) == IntValue(OfBits(Bits(i) & Bits(j))) IN OnInts(l, r, op)
BitOr(l, r)  == LET op(i, j) == IntValue(OfBits(Bits(i) | Bits(j))) IN OnInts(l, r, op)
BitXor(l, r) == LET op(i, j) == IntValue(OfBits(Bits(i) ^^ Bits(j))) IN OnInts(l, r, op)
BitNot(v) == IF IsNumber(v) THEN IntValue(-ToInt(v) - 1) ELSE Raises("TypeError")

Shift(l, r, By(_, _)) ==
  LET op(i, j) == IF j < 0 THEN Raises("ValueError") ELSE IntValue(By(i, j))
  IN  OnInts(l, r, op)

LShift(l, r) == LET by(i, j) == Wrap(i * 2 ^ j) IN Shift(l, r, by)
RShift(l, r) == LET by(i, j) == i \div 2 ^ j IN Shift(l, r, by)

Minus(v) ==
  CASE IsInt(v) -> IntValue(Wrap(-Of(v)))
    [] Type(v) = "float" -> FloatValue(-Of(v))
    [] OTHER -> Raises("TypeError")

-------------------------------------------------------------------------------
(* Comparisons; each of the four goes through LessThan.                    *)
Less(l, r)         == BoolValue(LessThan(l, r))
Greater(l, r)      == BoolValue(LessThan(r, l))
LessEqual(l, r)    == BoolValue(~LessThan(r, l))
GreaterEqual(l, r) == BoolValue(~LessThan(l, r))
Equal(l, r)        == BoolValue(Equals(l, r))
NotEqual(l, r)     == BoolValue(~Equals(l, r))
Is(l, r)           == BoolValue(isIdentical(l, r))
IsNot(l, r)        == BoolValue(~isIdentical(l, r))
LogicalNot(v)      == BoolValue(~Truthy(v))

-------------------------------------------------------------------------------
(* The cases of Run.                                                       *)
Arithmetic(op, l, r) ==
  CASE op = "+"  -> evalAdd(l, r)
    [] op = "-"  -> evalSub(l, r)
    [] op = "*"  -> evalMul(l, r)
    [] op = "/"  -> evalDiv(l, r)
    [] op = "//" -> evalFloorDiv(l, r)
    [] op = "%"  -> evalMod(l, r)
    [] op = "&"  -> BitAnd(l, r)
    [] op = "|"  -> BitOr(l, r)
    [] op = "^"  -> BitXor(l, r)
    [] op = "<<" -> LShift(l, r)
    [] op = ">>" -> RShift(l, r)

Comparison(op, l, r) ==
  CASE op = "<"  -> Less(l, r)
    [] op = ">"  -> Greater(l, r)
    [] op = "<=" -> LessEqual(l, r)
    [] op = ">=" -> GreaterEqual(l, r)
    [] op = "==" -> Equal(l, r)
    [] op = "!=" -> NotEqual(l, r)
    [] op = "is" -> Is(l, r)
    [] op = "is not" -> IsNot(l, r)

ArithmeticOps == {"+", "-", "*", "/", "//", "%", "&", "|", "^", "<<", ">>"}
ComparisonOps == {"<", ">", "<=", ">=", "==", "!=", "is", "is not"}
===============================================================================
