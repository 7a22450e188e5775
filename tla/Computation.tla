----------------------------- MODULE Computation -----------------------------
(***************************************************************************)
(* The parts of the interpreter that go through something one by one, keep *)
(* no state and are defined without operators that call themselves, so     *)
(* that what they answer can be proved: calls, slices, ranges, sorting,    *)
(* the encoding of instructions.  Each is asked one question, of a set of  *)
(* them, and its answer is compared with a definition of what it means;    *)
(* Evaluation adds the other parts.                                        *)
(***************************************************************************)
EXTENDS Ranges, Sorting, FiniteSets

CONSTANTS Names, \* of CallBinding
          Calls, \* bound: calls of CallBinding
          Cuts,  \* bound: slices, as <<length, start, end, step>>
          Rows,  \* bound: lists of values
          Base,  \* of Encoding
          Listings, \* bound: instructions, and the target of a jump among them
          Mentions  \* bound: the names that a program mentions, one by one

B == INSTANCE CallBinding
E == INSTANCE Encoding

(* What is written of instructions, of which a jump gets a target.         *)
Written(q) ==
  [i \in DOMAIN q.instructions |->
     [op |-> q.instructions[i][1],
      operands |-> IF i = q.jump THEN <<q.target>> ELSE q.instructions[i][2]]]

(* Operations that the machine reads as they are declared, with operands   *)
(* that fit; what the jump has at first need not.                          *)
IsListing(q) ==
  LET widths(i) == E!OperandWidths(q.instructions[i][1])
  IN  /\ q.instructions \in Seq((STRING \ E!Misread) \X Seq(Nat))
      /\ q.jump \in DOMAIN q.instructions /\ q.instructions[q.jump][1] \in E!Jumping
      /\ \A i \in DOMAIN q.instructions :
           /\ Len(q.instructions[i][2]) = Len(widths(i))
           /\ \A k \in DOMAIN widths(i) : E!Fits(Written(q)[i].operands[k], widths(i)[k])

ASSUME ComputationAssumption ==
  /\ \A c \in Calls : B!IsCall(c)
  /\ Cuts \subseteq (0 .. MaxInt) \X (Ints \cup {None}) \X (Ints \cup {None}) \X (Ints \cup {None})
  /\ \A items \in Rows : IsRow(items)
  /\ Base \in Nat \ {0, 1}
  /\ \A q \in Listings : IsListing(q)
  /\ \A q \in Mentions : q \in Seq(ToSet(q))

VARIABLES asked,  \* the part that was asked, and what
          answer

vars == <<asked, answer>>

Init == asked = <<"nothing">> /\ answer = <<>>

Ask(part, question, result) ==
  /\ asked' = <<part, question>>
  /\ answer' = result

Call == \E c \in Calls : Ask("call", c, B!executeCall(c))

Slice == \E c \in Cuts :
           Ask("slice", c, evalSlice([i \in 1 .. c[1] |-> i], c[2], c[3], c[4]))

Count == \E r \in builtinRange :
           Ask("range", r, [looped |-> Looped(r), listed |-> Listed(r), len |-> Length(r),
                            bool |-> IsTrue(r), in |-> {i \in Ints : InRange(r, i)}])

Sort == \E items \in Rows :
          Ask("row", items, [min |-> builtinMin(items), max |-> builtinMax(items),
                             sorted |-> builtinSorted(items, FALSE),
                             reverse |-> builtinSorted(items, TRUE)])

Emit == \E q \in Listings :
          LET program == E!Patched(q.instructions, q.jump, q.target)
          IN  Ask("instructions", q, [run |-> E!Run(program), listing |-> E!Listing(program)])

(* The machine looks up the names that its operands are places of.         *)
Mention == \E q \in Mentions :
             LET code == E!Mentioned(q)
                 run == E!Run(code.program)
             IN  Ask("names", q, [i \in DOMAIN run |-> code.names[run[i].operands[1] + 1]])

Next ==
  /\ asked = <<"nothing">>
  /\ Call \/ Slice \/ Count \/ Sort \/ Emit \/ Mention

Spec == Init /\ [][Next]_vars

-------------------------------------------------------------------------------
Asked(part) == asked[1] = part
Question == asked[2]

(* A function whose signature is written in the usual order is entered     *)
(* unless a parameter has no value; no plain parameter is given what is    *)
(* another's, and what a legal call binds is what it means (callClosure).  *)
BindsAsDefined == Asked("call") => B!BoundAsDefined(Question, answer)

-------------------------------------------------------------------------------
(* What a slice of so many elements means: the bounds are moved into the   *)
(* elements, and the indices are counted from the first, in steps.         *)
Clamp(i, low, high) == IF i < low THEN low ELSE IF i > high THEN high ELSE i

Meant(length, start, end, step) ==
  LET st == IF step = None THEN 1 ELSE step
      bound(i, default) ==
        IF i = None THEN default
        ELSE IF st > 0 THEN Clamp(FromEnd(i, length), 0, length)
        ELSE Clamp(FromEnd(i, length), -1, length - 1)
      s == bound(start, IF st > 0 THEN 0 ELSE length - 1)
      e == bound(end, IF st > 0 THEN length ELSE -1)
      count == Cardinality({k \in 0 .. length : IF st > 0 THEN s + k * st < e ELSE s + k * st > e})
  IN  [k \in 1 .. count |-> s + (k - 1) * st + 1]

(* A slice has the elements it means, for every step that is not zero, if  *)
(* its start is an index and no sum of an index and the step is too large  *)
(* for an integer (evalSlice).                                             *)
SlicesAsDefined ==
  Asked("slice") =>
    LET length == Question[1]
        start == Question[2]
        step == Question[4]
    IN  /\ start = None \/ start \in -length .. length - 1
        /\ step = None \/ (step # 0 /\ {length + step, -1 + step} \subseteq Ints)
        => answer = Meant(length, start, Question[3], step)

(* The numbers that a range means.                                         *)
Numbers(r) ==
  LET within(i) == IF r.step > 0 THEN i < r.stop ELSE i > r.stop
      count == Cardinality({k \in 0 .. 2 ^ Width : within(r.start + k * r.step)})
  IN  [k \in 1 .. count |-> r.start + (k - 1) * r.step]

(* A loop over a range, the list of it, its truth, its members and, for    *)
(* steps upwards, its length are all of the numbers it means, as long as   *)
(* what is computed on the way is an integer (RangeIterator, RangeObject). *)
RangesAsDefined ==
  Asked("range") =>
    LET r == Question
        numbers == Numbers(r)
        ends == numbers = <<>> \/ Last(numbers) + r.step \in Ints
    IN  /\ answer.bool <=> numbers # <<>>
        /\ ends => answer.looped = numbers /\ answer.listed = numbers
        /\ r.stop - r.start \in Ints /\ -r.step \in Ints => answer.in = ToSet(numbers)
        /\ r.step > 0 /\ r.stop - r.start \in Ints /\ r.stop - r.start + r.step - 1 \in Ints =>
             answer.len = Len(numbers)

-------------------------------------------------------------------------------
(* Two texts, or two numbers that are no bools.                            *)
Ordered(l, r) ==
  \/ IsStr(l) /\ IsStr(r)
  \/ Type(l) \in {"int", "float"} /\ Type(r) \in {"int", "float"}

Comparable(items) == \A i, j \in DOMAIN items : Ordered(items[i], items[j])

(* The same elements in another order; if they can be compared they        *)
(* ascend, or descend, and equal ones keep their order.                    *)
Sorts(items, result, reverse) ==
  \E order \in Surjection(DOMAIN items, DOMAIN items) :
    /\ result = [i \in DOMAIN items |-> items[order[i]]]
    /\ Comparable(items) => \A i, j \in DOMAIN items : i < j =>
         /\ ~Precedes(result[j], result[i], reverse)
         /\ order[i] < order[j] \/ Precedes(result[i], result[j], reverse)

(* The first of the elements that none precedes.                           *)
IsFirst(items, v, reverse) ==
  \E k \in DOMAIN items :
    /\ v = items[k]
    /\ \A j \in DOMAIN items : /\ ~Precedes(items[j], v, reverse)
                              /\ j < k => Precedes(v, items[j], reverse)

(* Lists of numbers, or of texts, are sorted in the order of LessThan, in  *)
(* either direction and without moving equal elements; min and max are the *)
(* first of the least and of the greatest elements; and a list of anything *)
(* keeps its elements (builtinSorted, builtinMin, builtinMax).             *)
SortsAsDefined ==
  Asked("row") =>
    LET items == Question
    IN  /\ Sorts(items, answer.sorted, FALSE)
        /\ Sorts(items, answer.reverse, TRUE)
        /\ Comparable(items) => /\ IsFirst(items, answer.min, FALSE)
                               /\ IsFirst(items, answer.max, TRUE)

-------------------------------------------------------------------------------
(* Instructions that are emitted and patched are what the machine then     *)
(* executes, one behind the other, and what the listing shows, if their    *)
(* operands fit; and each mention of a name reads that name, if not too    *)
(* many are mentioned (Make, changeOperand, addName, Run).                 *)
DecodesAsEmitted ==
  /\ Asked("instructions") => answer.run = Written(Question) /\ answer.listing = Written(Question)
  /\ Asked("names") /\ Cardinality(ToSet(Question)) <= Base * Base => answer = Question
===============================================================================
