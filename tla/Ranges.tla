-------------------------------- MODULE Ranges --------------------------------
(***************************************************************************)
(* Ranges: what a loop over one goes through (RangeIterator in             *)
(* pkg/vm/object.go), the list of one (ExtractIterable in builtins.go),    *)
(* its length, its truth, and whether a number is in it, in integers of    *)
(* Width bits.                                                             *)
(***************************************************************************)
EXTENDS Slices

(* range(start, stop, step); a step of zero is refused.                    *)
Range3(start, stop, step) == [start |-> start, stop |-> stop, step |-> step]

builtinRange == {Range3(start, stop, step) :
                   start \in Ints, stop \in Ints, step \in Ints \ {0}}

(* Next of the iterator says whether the loop ends.                        *)
Ended(r, i) == (r.step > 0 /\ i >= r.stop) \/ (r.step < 0 /\ i <= r.stop)

Looped(r) ==
  Loop(r.start, r.step, Ints, {i \in Ints : ~Ended(r, i)}).found

Listed(r) ==
  Loop(r.start, r.step, Ints, {i \in Ints : IF r.step > 0 THEN i < r.stop ELSE i > r.stop}).found

\* Mutant: the last step that is not a full one is not counted.
LengthDown(r) ==
  LET n == Quo(Wrap(r.stop - r.start), r.step) IN IF n < 0 THEN 0 ELSE n

(* len: rounded up for steps upwards only.                                 *)
Length(r) ==
  LET n == Quo(Wrap(r.stop - r.start + r.step - 1), r.step) IN IF n < 0 THEN 0 ELSE n

InRange(r, i) ==
  IF r.step > 0
  THEN i >= r.start /\ i < r.stop /\ Rem(Wrap(i - r.start), r.step) = 0
  ELSE i <= r.start /\ i > r.stop /\ Rem(Wrap(r.start - i), Wrap(-r.step)) = 0

IsTrue(r) == IF r.step > 0 THEN r.start < r.stop ELSE r.start > r.stop
===============================================================================
