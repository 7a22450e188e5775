------------------------------- MODULE Encoding -------------------------------
(***************************************************************************)
(* Instructions as bytes: the table of widths, Make and ReadOperands in    *)
(* pkg/bytecode/opcode.go, what the compiler emits, patches and numbers    *)
(* with them (compiler.go), and what each case of Run in pkg/vm/vm.go      *)
(* takes from the bytes.                                                   *)
(*                                                                         *)
(* A program is a sequence whose cells hold the name of an operation or a  *)
(* byte; its first cell has the position 0.                                *)
(***************************************************************************)
EXTENDS Integers, SequencesExt

CONSTANT Base \* the values of a byte; 256 in the program

Indexed == {"OpConstant", "OpGetGlobal", "OpSetGlobal", "OpGetLocal", "OpSetLocal", "OpGetFree",
            "OpSetFree", "OpGetBuiltin", "OpBuildList", "OpBuildTuple", "OpBuildDict",
            "OpBuildSet", "OpBuildString", "OpGetAttr", "OpSetAttr", "OpUnpackSequence",
            "OpGoSpawn", "OpMakeKwargs", "OpDeleteName", "OpImport", "OpDeleteAttr"}
Jumping == {"OpJump", "OpJumpIfFalse", "OpJumpIfTrue", "OpJumpIfFalseOrPop",
            "OpJumpIfTrueOrPop", "OpForIter", "OpSetupExcept"}
Calling == {"OpCall", "OpCallMethod", "OpClosure", "OpCallKw"}

(* definitions.  What has no operands is written as the one it is like.    *)
OperandWidths(op) ==
  CASE op \in Indexed \cup {"OpMakeProperty"} -> <<2>>
    [] op \in Jumping \cup {"OpSetupWith"} -> <<4>>
    [] op \in Calling \cup {"OpUnpackRest", "OpMakeGenerator"} -> <<2, 2>>
    [] op = "OpMakeClass" -> <<2, 2, 2>>
    [] OTHER -> <<>>

(* The bytes behind the operation that the machine reads as its operands,  *)
(* and goes past.                                                          *)
Reads(op) ==
  CASE op \in Indexed -> <<2>>
    [] op \in Jumping -> <<4>>
    [] op \in Calling -> <<2, 2>>
    [] op = "OpMakeClass" -> <<2, 2, 2>>
    [] op = "OpUnpackRest" -> <<1, 1>>
    [] OTHER -> <<>>

(* Of these the table and the machine say different things.                *)
Misread == {"OpMakeProperty", "OpSetupWith", "OpMakeGenerator", "OpUnpackRest"}

-------------------------------------------------------------------------------
(* What is left of an operand after so many of its lowest bytes.           *)
Shifted(operand, width) ==
  LET rest[n \in 0 .. width] == IF n = 0 THEN operand ELSE rest[n - 1] \div Base
  IN  rest

Fits(operand, width) == operand \in Nat /\ Shifted(operand, width)[width] = 0

\* Mutant: the other end first.
PutLittle(operand, width) == [k \in 1 .. width |-> Shifted(operand, width)[k - 1] % Base]

(* Big-endian: what does not fit in the width is cut off.                  *)
Put(operand, width) == [k \in 1 .. width |-> Shifted(operand, width)[width - k] % Base]

Uint(bytes) ==
  LET upTo[k \in 0 .. Len(bytes)] == IF k = 0 THEN 0 ELSE upTo[k - 1] * Base + bytes[k]
  IN  upTo[Len(bytes)]

(* How many bytes the first operands take.                                 *)
Offset(widths) ==
  LET upTo[n \in 0 .. Len(widths)] == IF n = 0 THEN 0 ELSE upTo[n - 1] + widths[n]
  IN  upTo

Total(widths) == Offset(widths)[Len(widths)]

(* An operand that is not given is zero.                                   *)
Make(op, operands) ==
  LET widths == OperandWidths(op)
      operand(i) == IF i \in DOMAIN operands THEN operands[i] ELSE 0
  IN  <<op>> \o FlattenSeq([i \in DOMAIN widths |-> Put(operand(i), widths[i])])

emit(program, op, operands) == program \o Make(op, operands)

replaceInstruction(program, pos, new) ==
  [k \in DOMAIN program |-> IF k - pos \in DOMAIN new THEN new[k - pos] ELSE program[k]]

(* The target of a jump is known after what it jumps over.                 *)
changeOperand(program, pos, operand) ==
  replaceInstruction(program, pos, Make(program[pos + 1], <<operand>>))

(* A name has one index.                                                   *)
addName(names, name) == IF name \in ToSet(names) THEN names ELSE Append(names, name)

IndexOf(names, name) == Min({i \in DOMAIN names : names[i] = name}) - 1

-------------------------------------------------------------------------------
(* An instruction at pos as it is read with these widths.                  *)
Decode(program, pos, widths) ==
  LET from(i) == pos + 2 + Offset(widths)[i - 1]
  IN  [op |-> program[pos + 1],
       operands |-> [i \in DOMAIN widths |->
                       Uint(SubSeq(program, from(i), from(i) + widths[i] - 1))]]

Widths(reader, op) == IF reader = "machine" THEN Reads(op) ELSE OperandWidths(op)

(* All of them, one behind the other: as Run meets them if nothing jumps,  *)
(* and as the listing (Instructions.String) shows them.                    *)
Walk(program, reader) ==
  LET go[n \in 0 .. Len(program)] ==
        IF n = 0 THEN [pos |-> 0, read |-> <<>>]
        ELSE LET last == go[n - 1] IN
             IF last.pos >= Len(program) THEN last
             ELSE LET widths == Widths(reader, program[last.pos + 1]) IN
                  [pos |-> last.pos + 1 + Total(widths),
                   read |-> Append(last.read, Decode(program, last.pos, widths))]
  IN  go[Len(program)].read

Run(program) == Walk(program, "machine")
Listing(program) == Walk(program, "listing")

-------------------------------------------------------------------------------
(* Instructions of which a jump gets its target at the end: what has been  *)
(* emitted after each of them, and with the target.                        *)
Emitted(instructions) ==
  LET upTo[n \in 0 .. Len(instructions)] ==
        IF n = 0 THEN <<>> ELSE emit(upTo[n - 1], instructions[n][1], instructions[n][2])
  IN  upTo

Patched(instructions, jump, target) ==
  LET emitted == Emitted(instructions)
  IN  changeOperand(emitted[Len(instructions)], Len(emitted[jump - 1]), target)

(* Names that are mentioned become operands.                               *)
Mentioned(mentions) ==
  LET upTo[n \in 0 .. Len(mentions)] ==
        IF n = 0 THEN [names |-> <<>>, program |-> <<>>]
        ELSE LET last == upTo[n - 1]
                 names == addName(last.names, mentions[n])
             IN  [names |-> names,
                  program |-> emit(last.program, "OpGetGlobal", <<IndexOf(names, mentions[n])>>)]
  IN  upTo[Len(mentions)]
===============================================================================
