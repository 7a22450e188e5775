------------------------------- MODULE Slices -------------------------------
(***************************************************************************)
(* Indices and slices (evalIndex, evalSlice and OpSetSlice in              *)
(* pkg/vm/vm.go), in two's complement integers of Width bits.              *)
(*                                                                         *)
(* A bound or a step of a slice that is not written is None.               *)
(***************************************************************************)
EXTENDS Integers, SequencesExt

CONSTANTS Width, \* of an integer; 64 in the program
          None   \* the value None

ASSUME SlicesAssumption == Width \in Nat \ {0}

MinInt == -(2 ^ (Width - 1))
MaxInt == 2 ^ (Width - 1) - 1
Ints == MinInt .. MaxInt

(* What is left of a result in Width bits.                                 *)
Wrap(i) == ((i - MinInt) % 2 ^ Width) + MinInt

(* Go's division goes towards zero; what remains has the sign of n.        *)
Truncate(n, d) ==
  LET q == (IF n < 0 THEN -n ELSE n) \div (IF d < 0 THEN -d ELSE d)
  IN  IF (n < 0) = (d < 0) THEN q ELSE -q

Quo(n, d) == Wrap(Truncate(n, d))
Rem(n, d) == n - d * Truncate(n, d)

(* An index counts from the end if it is negative.                         *)
FromEnd(i, length) == IF i < 0 THEN i + length ELSE i

-------------------------------------------------------------------------------
(* The bounds that evalSlice goes by.  A step of zero is a step of one.    *)
Step(step) == IF step \in {None, 0} THEN 1 ELSE step

\* Mutant: without a start, all slices begin at the first element.
StartAtFirst(start, step, length) == IF start # None THEN FromEnd(start, length) ELSE 0

Start(start, step, length) ==
  IF start # None THEN FromEnd(start, length)
  ELSE IF step > 0 THEN 0 ELSE length - 1

End(end, step, length) ==
  IF end # None THEN FromEnd(end, length)
  ELSE IF step > 0 THEN length ELSE -1

(* A loop from s in steps, as long as i is one that it goes on at: where   *)
(* it is after n rounds, and the values of i that it has found.  None that *)
(* ends goes through a value of i twice.                                   *)
Rounds == 2 ^ Width

Loop(s, step, finds, goes) ==
  LET go[n \in Nat] ==
        IF n = 0 THEN [i |-> s, found |-> <<>>]
        ELSE LET last == go[n - 1] IN
             IF last.i \notin goes THEN last
             ELSE [i |-> Wrap(last.i + step),
                   found |-> IF last.i \in finds THEN Append(last.found, last.i) ELSE last.found]
  IN  go[Rounds]

(* Lists, tuples and strings.                                              *)
Indices(length, start, end, step) ==
  LET st == Step(step)
      s == Start(start, st, length)
      e == End(end, st, length)
      goes == {i \in Ints : IF st > 0 THEN i < e /\ i < length ELSE i > e /\ i >= 0}
  IN  Loop(s, st, 0 .. length - 1, goes).found

(* bytes, bytearray and memoryview: the loop does not look at the length.  *)
BytesLoop(length, start, end, step) ==
  LET st == Step(step)
      e == End(end, st, length)
      goes == {i \in Ints : IF st > 0 THEN i < e ELSE i > e}
      loop == Loop(Start(start, st, length), st, 0 .. length - 1, goes)
  IN  [ends |-> loop.i \notin goes, found |-> loop.found]

evalSlice(items, start, end, step) ==
  LET is == Indices(Len(items), start, end, step)
  IN  [k \in DOMAIN is |-> items[is[k] + 1]]

(* OpSetSlice: the indices from Low up to High are replaced.               *)
InLength(i, length) == IF i < 0 THEN 0 ELSE IF i > length THEN length ELSE i

Low(start, length) == IF start = None THEN 0 ELSE InLength(FromEnd(start, length), length)

High(start, end, length) ==
  LET e == IF end = None THEN length ELSE FromEnd(end, length)
  IN  IF e < Low(start, length) THEN Low(start, length) ELSE InLength(e, length)

(* evalMul: a list n times over.                                           *)
Times(items, n) ==
  [i \in 1 .. n * Len(items) |-> items[((i - 1) % Len(items)) + 1]]
===============================================================================
