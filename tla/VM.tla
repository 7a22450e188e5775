---------------------------------- MODULE VM ----------------------------------
(***************************************************************************)
(* The virtual machine of pkg/vm/vm.go while it runs one program: the loop *)
(* of VM.Run with the operand stack, the array of call frames, the stack   *)
(* of exception handlers, calls and returns, and the polling of the host's *)
(* context.  One action executes one instruction, whole.                   *)
(*                                                                         *)
(* Control is kept, data is abstracted (see Bytecode): what a program      *)
(* computes is replaced by `ask`, a function of the host that answers as   *)
(* it likes, and what it does by the builtin `print`.                      *)
(*                                                                         *)
(* A Go panic inside Run (stack overflow, an index out of range) is caught *)
(* by its deferred recover and ends the run: no handler of the program     *)
(* sees it, and nothing reads the machine's stacks afterwards.             *)
(***************************************************************************)
EXTENDS Bytecode

CONSTANTS StackSize, MaxFrames, \* the constants of that name (4096, 512)
          PollEvery,   \* the context is polled every so many instructions (1024)
          Units,       \* the compiled programs a behaviour may run
          Answers,     \* what ask() may answer: a subset of AllAnswers
          MaxAnswers,  \* bound: after so many answers ask() answers "no"
          Cancellable  \* whether the host may cancel the context

AllAnswers == {"yes", "no", "raise"}

ASSUME VMAssumption ==
  /\ StackSize \in Nat \ {0}
  /\ MaxFrames \in Nat \ {0}
  /\ PollEvery \in Nat \ {0}
  /\ Answers \subseteq AllAnswers /\ "no" \in Answers
  /\ MaxAnswers \in Nat
  /\ Cancellable \in BOOLEAN

ASSUME UnitsAssumption == \A u \in Units : IsUnit(u)

VARIABLES unit,       \* the program: its functions (and, for checks, its source)
          stack, sp,  \* the operand stack, with what was left above sp
          frames, frameIndex, \* the frames, with those already popped
          handlers,   \* exceptStack
          globals,    \* the globals that are set
          ticks,      \* insCount, modulo PollEvery
          ctxDone,    \* the host has cancelled the context
          late,       \* instructions begun since then; only recorded here
          status, result, \* how Run ended, and the exception it returned
          out,        \* what was printed
          answers     \* what ask() has answered

operands == <<stack, sp>>
calls == <<frames, frameIndex, handlers>>
env == <<globals, out, answers>>
outcome == <<status, result>>
vars == <<unit, operands, calls, env, outcome, ticks, ctxDone, late>>

NoFrame == [fn |-> 0, ip |-> 0, bp |-> 0]

Init ==
  /\ unit \in Units
  /\ stack = [i \in 0..(StackSize - 1) |-> Nil]
  /\ sp = 0
  /\ frames = [i \in 0..(MaxFrames - 1) |->
                 IF i = 0 THEN [fn |-> 1, ip |-> 0, bp |-> 0] ELSE NoFrame]
  /\ frameIndex = 1
  /\ handlers = <<>>
  /\ globals = HostGlobals
  /\ ticks = 0
  /\ ctxDone = FALSE
  /\ late = 0
  /\ status = "running"
  /\ result = None
  /\ out = <<>>
  /\ answers = <<>>

-------------------------------------------------------------------------------
(* The current instruction.                                                *)
currentFrame == frames[frameIndex - 1]
Code == unit.fns[currentFrame.fn].code
AtEnd == currentFrame.ip >= Len(Code)
instr == Code[currentFrame.ip + 1]

StackAt(i) == stack[sp - i]
Arguments == [i \in 1..instr.a |-> stack[sp - instr.a + i - 1]]
calleeIdx == sp - 1 - instr.a
callee == stack[calleeIdx]

(* How many values an instruction takes, reading or popping them.          *)
TakenBy(i) ==
  CASE i.op \in {"Pop", "SetGlobal", "SetLocal", "JumpIfFalse", "ReturnValue",
                 "GetIter", "ForIter", "Raise", "Dup", "Not", "JumpIfFalseOrPop",
                 "JumpIfTrueOrPop", "UnpackSequence"} -> 1
    [] i.op \in {"Equal", "Assert", "RaiseFrom"} -> 2
    [] i.op = "ListAppend" -> 3
    [] i.op = "BuildList" -> i.a
    [] i.op = "Call" -> i.a + 1
    [] OTHER -> 0

Takes == TakenBy(instr)

(* It leaves one more than it takes.                                       *)
Grows ==
  \/ instr.op \in {"Constant", "GetLocal", "GetBuiltin", "Closure", "Dup"}
  \/ instr.op = "BuildList" /\ instr.a = 0
  \/ instr.op = "GetGlobal" /\ instr.a \in DOMAIN globals \cup Builtins
  \/ instr.op = "ForIter" /\ Takes <= sp /\ StackAt(1).k = "iter" /\ StackAt(1).n > 0

LocalAt(a) == currentFrame.bp + a

(* A call of function f whose arguments can be bound.                      *)
Binds(f) == instr.a >= unit.fns[f].params

(* push, pop or an index into the stack panics.                            *)
Panics ==
  \/ Takes > sp
  \/ Grows /\ sp >= StackSize
  \/ instr.op \in {"GetLocal", "SetLocal"} /\ LocalAt(instr.a) >= StackSize
  \/ /\ instr.op \in {"JumpIfFalse", "Raise", "ForIter", "Not", "JumpIfFalseOrPop",
                      "JumpIfTrueOrPop"}
     /\ Takes <= sp /\ StackAt(1).k = "nil"
  \/ instr.op \in {"Equal", "Assert", "RaiseFrom"} /\ Takes <= sp /\ StackAt(2).k = "nil"
  \/ /\ instr.op = "UnpackSequence" /\ Takes <= sp
     /\ Elements(StackAt(1)) = instr.a /\ sp - 1 + instr.a > StackSize
  \/ /\ instr.op = "Call" /\ Takes <= sp
     /\ \/ callee.k = "nil"
        \/ /\ callee.k = "fun" /\ Binds(callee.n)
           /\ calleeIdx + unit.fns[callee.n].locals > StackSize

(* Run begins an iteration by counting it and, every PollEvery of them, by *)
(* looking at the context.                                                 *)
Running == status = "running"
\* mutant: the context is only looked at when a jump is next
PollDueAtJumps == ~AtEnd /\ instr.op = "Jump"

PollDue == (ticks + 1) % PollEvery = 0
Polled == ctxDone /\ PollDue

Tick ==
  /\ Running /\ ~Polled
  /\ ticks' = (ticks + 1) % PollEvery
  /\ late' = IF ctxDone THEN late + 1 ELSE late
  /\ UNCHANGED <<unit, ctxDone>>

Fetch(op) == Tick /\ ~AtEnd /\ instr.op = op /\ ~Panics

Goto(target) == frames' = [frames EXCEPT ![frameIndex - 1].ip = target]
NextIP == currentFrame.ip + 1

Advance == Goto(NextIP) /\ UNCHANGED <<frameIndex, handlers>>

Push(v) ==
  /\ stack' = [stack EXCEPT ![sp] = v]
  /\ sp' = sp + 1

Drop(n) == sp' = sp - n /\ UNCHANGED stack

(* Pop n values and push one.                                              *)
Replace(n, v) ==
  /\ stack' = [stack EXCEPT ![sp - n] = v]
  /\ sp' = sp - n + 1

Halt(how, exc) == status' = how /\ result' = exc

\* mutant: the operand stack keeps its height
UnwindKeepsStack(exc, s) ==
  \/ handlers = <<>> /\ Halt("failed", exc) /\ UNCHANGED <<operands, calls>>
  \/ /\ handlers # <<>>
     /\ LET h == handlers[Len(handlers)] IN
        /\ handlers' = SubSeq(handlers, 1, Len(handlers) - 1)
        /\ frameIndex' = h.frame
        /\ frames' = [frames EXCEPT ![frameIndex - 1].ip = NextIP,
                                    ![h.frame - 1].ip = h.target]
        /\ stack' = [s EXCEPT ![sp] = exc]
        /\ sp' = sp + 1
        /\ UNCHANGED outcome

(* handleException: the newest handler is removed, and the machine goes    *)
(* back to the frame and the stack height it was installed at, wherever it *)
(* is now; without a handler Run returns the exception.  s is the stack at *)
(* that moment.  The frame that raised has its ip past the instruction: if *)
(* the handler's is above it, it will go on from there.                    *)
Unwind(exc, s) ==
  \/ /\ handlers = <<>>
     /\ Halt("failed", exc)
     /\ UNCHANGED <<operands, calls>>
  \/ /\ handlers # <<>>
     /\ LET h == handlers[Len(handlers)] IN
        IF h.sp >= StackSize
          THEN Halt("panicked", None) /\ UNCHANGED <<operands, calls>>
          ELSE /\ handlers' = SubSeq(handlers, 1, Len(handlers) - 1)
               /\ frameIndex' = h.frame
               /\ frames' = [frames EXCEPT ![frameIndex - 1].ip = NextIP,
                                           ![h.frame - 1].ip = h.target]
               /\ stack' = [s EXCEPT ![h.sp] = exc]
               /\ sp' = h.sp + 1
               /\ UNCHANGED outcome

-------------------------------------------------------------------------------
(* The end of a run from outside.                                          *)
Cancel ==
  /\ Cancellable /\ Running /\ ~ctxDone
  /\ ctxDone' = TRUE
  /\ UNCHANGED <<unit, operands, calls, env, outcome, ticks, late>>

CancelAtPoll ==
  /\ Running /\ Polled
  /\ Halt("cancelled", None)
  /\ UNCHANGED <<unit, operands, calls, env, ticks, ctxDone, late>>

Panic ==
  /\ Tick /\ ~AtEnd /\ Panics
  /\ Halt("panicked", None)
  /\ UNCHANGED <<operands, calls, env>>

-------------------------------------------------------------------------------
(* Past the last instruction: the module ends; a function returns None to  *)
(* its caller.                                                             *)
EndModule ==
  /\ Tick /\ AtEnd /\ frameIndex = 1
  /\ Halt("done", None)
  /\ UNCHANGED <<operands, calls, env>>

(* A function's frame is popped; its result replaces the callee and its    *)
(* arguments.  A return from the module's frame ends the run.              *)
ReturnWith(v) ==
  /\ frameIndex' = frameIndex - 1
  /\ UNCHANGED <<frames, handlers, env>>
  /\ \/ /\ frameIndex = 1
        /\ Halt("done", None)
        /\ UNCHANGED operands
     \/ /\ frameIndex > 1
        /\ stack' = [stack EXCEPT ![currentFrame.bp] = v]
        /\ sp' = currentFrame.bp + 1
        /\ UNCHANGED outcome

EndFunction == Tick /\ AtEnd /\ frameIndex > 1 /\ ReturnWith(None)
ReturnValue == Fetch("ReturnValue") /\ ReturnWith(StackAt(1))
ReturnNone == Fetch("ReturnNone") /\ ReturnWith(None)

-------------------------------------------------------------------------------
(* Loads and stores.                                                       *)
Constant == Fetch("Constant") /\ Push(instr.v) /\ Advance /\ UNCHANGED <<env, outcome>>
GetBuiltin == Fetch("GetBuiltin") /\ Push(Native(instr.a)) /\ Advance /\ UNCHANGED <<env, outcome>>
Closure == Fetch("Closure") /\ Push(Fun(instr.a)) /\ Advance /\ UNCHANGED <<env, outcome>>
Pop == Fetch("Pop") /\ Drop(1) /\ Advance /\ UNCHANGED <<env, outcome>>

Dup == Fetch("Dup") /\ Push(StackAt(1)) /\ Advance /\ UNCHANGED <<env, outcome>>

Equal ==
  /\ Fetch("Equal")
  /\ \E equal \in Equals(StackAt(2), StackAt(1)) : Replace(2, Bool(equal))
  /\ Advance /\ UNCHANGED <<env, outcome>>

Not == Fetch("Not") /\ Replace(1, Bool(~Truthy(StackAt(1)))) /\ Advance /\ UNCHANGED <<env, outcome>>

BuildList ==
  /\ Fetch("BuildList")
  /\ Replace(instr.a, List(instr.a))
  /\ Advance /\ UNCHANGED <<env, outcome>>

(* A name that is no global may still be a builtin's.                      *)
Found(x) == IF x \in DOMAIN globals THEN globals[x] ELSE Native(x)

GetGlobal ==
  /\ Fetch("GetGlobal")
  /\ UNCHANGED env
  /\ \/ /\ instr.a \in DOMAIN globals \cup Builtins
        /\ Push(Found(instr.a)) /\ Advance /\ UNCHANGED outcome
     \/ /\ instr.a \notin DOMAIN globals \cup Builtins
        /\ Unwind(Exc("NameError"), stack)

SetGlobal ==
  /\ Fetch("SetGlobal")
  /\ globals' = [x \in DOMAIN globals \cup {instr.a} |->
                   IF x = instr.a THEN StackAt(1) ELSE globals[x]]
  /\ Drop(1) /\ Advance
  /\ UNCHANGED <<out, answers, outcome>>

(* Only a global is deleted, and one that is not there is no error.        *)
DeleteName ==
  /\ Fetch("DeleteName")
  /\ globals' = [x \in DOMAIN globals \ {instr.a} |-> globals[x]]
  /\ Advance /\ UNCHANGED <<operands, out, answers, outcome>>

GetLocal ==
  /\ Fetch("GetLocal")
  /\ Push(stack[LocalAt(instr.a)])
  /\ Advance /\ UNCHANGED <<env, outcome>>

SetLocal ==
  /\ Fetch("SetLocal")
  /\ stack' = [stack EXCEPT ![LocalAt(instr.a)] = StackAt(1)]
  /\ sp' = sp - 1
  /\ Advance /\ UNCHANGED <<env, outcome>>

-------------------------------------------------------------------------------
(* Jumps.  One that goes backwards looks at the context first.             *)
JumpTo(target, backwards) ==
  \/ /\ backwards /\ ctxDone
     /\ Halt("cancelled", None)
     /\ UNCHANGED calls
  \/ /\ ~(backwards /\ ctxDone)
     /\ Goto(target)
     /\ UNCHANGED <<frameIndex, handlers, outcome>>

Jump ==
  /\ Fetch("Jump")
  /\ JumpTo(instr.a, instr.a < NextIP)
  /\ UNCHANGED <<operands, env>>

JumpIfFalse ==
  /\ Fetch("JumpIfFalse")
  /\ Drop(1)
  /\ UNCHANGED env
  /\ \/ Truthy(StackAt(1)) /\ Advance /\ UNCHANGED outcome
     \/ ~Truthy(StackAt(1)) /\ JumpTo(instr.a, instr.a <= NextIP)

(* The operand stays when it decides, and goes when the other one is next. *)
JumpOrPop(op, jumps) ==
  /\ Fetch(op)
  /\ UNCHANGED env
  /\ \/ jumps /\ JumpTo(instr.a, instr.a <= NextIP) /\ UNCHANGED operands
     \/ ~jumps /\ Drop(1) /\ Advance /\ UNCHANGED outcome

JumpIfFalseOrPop == JumpOrPop("JumpIfFalseOrPop", ~Truthy(StackAt(1)))
JumpIfTrueOrPop == JumpOrPop("JumpIfTrueOrPop", Truthy(StackAt(1)))

(* Loops over an iterator that stays on the stack while the loop runs; an  *)
(* element is named by how many there were left with it.                   *)
GetIter ==
  /\ Fetch("GetIter")
  /\ Replace(1, [k |-> "iter", n |-> Elements(StackAt(1))])
  /\ Advance /\ UNCHANGED <<env, outcome>>

ForIter ==
  /\ Fetch("ForIter")
  /\ UNCHANGED env
  /\ \/ /\ StackAt(1).k = "iter" /\ StackAt(1).n > 0
        /\ stack' = [stack EXCEPT ![sp - 1].n = @ - 1, ![sp] = Num(StackAt(1).n)]
        /\ sp' = sp + 1
        /\ Advance /\ UNCHANGED outcome
     \/ /\ StackAt(1).k = "iter" /\ StackAt(1).n = 0
        /\ Drop(1)
        /\ Goto(instr.a) /\ UNCHANGED <<frameIndex, handlers, outcome>>
     \/ /\ StackAt(1).k # "iter"
        /\ Unwind(Exc("TypeError"), stack)

(* The list of a comprehension lies under the iterator and the element.    *)
ListAppend ==
  /\ Fetch("ListAppend")
  /\ stack' = [stack EXCEPT ![sp - 3] = IF @.k = "list" THEN List(@.n + 1) ELSE @]
  /\ sp' = sp - 1
  /\ Advance /\ UNCHANGED <<env, outcome>>

(* The elements replace the sequence, the first one on top.                *)
WithElements(count) ==
  [i \in 0..(StackSize - 1) |->
     IF i \in (sp - 1)..(sp + count - 2) THEN Num(i - sp + 2) ELSE stack[i]]

UnpackSequence ==
  /\ Fetch("UnpackSequence")
  /\ UNCHANGED env
  /\ \/ /\ Elements(StackAt(1)) = instr.a
        /\ stack' = WithElements(instr.a)
        /\ sp' = sp - 1 + instr.a
        /\ Advance /\ UNCHANGED outcome
     \/ /\ Elements(StackAt(1)) # instr.a
        /\ Unwind(Exc("ValueError"), stack)

-------------------------------------------------------------------------------
(* Calls.                                                                  *)
CallPrint ==
  /\ Fetch("Call")
  /\ callee.k = "builtin" /\ callee.n = PrintName
  /\ out' = out \o Arguments
  /\ Replace(Takes, None)
  /\ Advance /\ UNCHANGED <<globals, answers, outcome>>

CallRange ==
  /\ Fetch("Call")
  /\ callee.k = "builtin" /\ callee.n = RangeName
  /\ UNCHANGED env
  /\ \/ /\ instr.a = 1 /\ StackAt(1).k = "num"
        /\ Replace(Takes, [k |-> "range", n |-> StackAt(1).n])
        /\ Advance /\ UNCHANGED outcome
     \/ /\ ~(instr.a = 1 /\ StackAt(1).k = "num")
        /\ Unwind(Exc("TypeError"), stack)

(* Beyond the bound the answer is "no", and is not recorded.               *)
CallAsk ==
  /\ Fetch("Call")
  /\ callee.k = "builtin" /\ callee.n = AskName
  /\ UNCHANGED <<globals, out>>
  /\ \E answer \in Answers :
       /\ \/ Len(answers) < MaxAnswers /\ answers' = Append(answers, answer)
          \/ Len(answers) >= MaxAnswers /\ answer = "no" /\ UNCHANGED answers
       /\ \/ /\ answer # "raise"
             /\ Replace(Takes, Num(IF answer = "yes" THEN 1 ELSE 0))
             /\ Advance /\ UNCHANGED outcome
          \/ /\ answer = "raise"
             /\ Unwind(Exc("ValueError"), stack)

(* The frame of a call begins where the callee was: its parameters, then   *)
(* its other locals, all None.  Surplus arguments are dropped.             *)
Locals(f) ==
  [i \in calleeIdx..(calleeIdx + unit.fns[f].locals - 1) |->
     IF i - calleeIdx < unit.fns[f].params THEN stack[i + 1] ELSE None]

WithLocals(f) ==
  [i \in 0..(StackSize - 1) |->
     IF i \in DOMAIN Locals(f) THEN Locals(f)[i] ELSE stack[i]]

\* mutant: no limit on the depth of calls
CallClosureUnlimited ==
  /\ Fetch("Call")
  /\ callee.k = "fun" /\ Binds(callee.n)
  /\ stack' = WithLocals(callee.n)
  /\ sp' = calleeIdx + unit.fns[callee.n].locals
  /\ frames' = [frames EXCEPT ![frameIndex - 1].ip = NextIP,
                              ![frameIndex] = [fn |-> callee.n, ip |-> 0, bp |-> calleeIdx]]
  /\ frameIndex' = frameIndex + 1
  /\ UNCHANGED <<handlers, env, outcome>>

CallClosure ==
  /\ Fetch("Call")
  /\ callee.k = "fun" /\ Binds(callee.n)
  /\ frameIndex < MaxFrames
  /\ stack' = WithLocals(callee.n)
  /\ sp' = calleeIdx + unit.fns[callee.n].locals
  /\ frames' = [frames EXCEPT ![frameIndex - 1].ip = NextIP,
                              ![frameIndex] = [fn |-> callee.n, ip |-> 0, bp |-> calleeIdx]]
  /\ frameIndex' = frameIndex + 1
  /\ UNCHANGED <<handlers, env, outcome>>

(* The frame is refused after the locals were written.                     *)
CallTooDeep ==
  /\ Fetch("Call")
  /\ callee.k = "fun" /\ Binds(callee.n)
  /\ frameIndex >= MaxFrames
  /\ Unwind(Exc("RecursionError"), WithLocals(callee.n))
  /\ UNCHANGED env

CallRefused ==
  /\ Fetch("Call")
  /\ \/ callee.k \notin {"fun", "builtin"}
     \/ callee.k = "fun" /\ ~Binds(callee.n)
  /\ Unwind(Exc("TypeError"), stack)
  /\ UNCHANGED env

-------------------------------------------------------------------------------
(* Exceptions.                                                             *)
\* mutant: the frame after the current one, frameIndex being a count
SetupExceptNextFrame ==
  /\ Fetch("SetupExcept")
  /\ handlers' = Append(handlers, [frame |-> frameIndex + 1, sp |-> sp, target |-> instr.a])
  /\ Goto(NextIP)
  /\ UNCHANGED <<frameIndex, operands, env, outcome>>

SetupExcept ==
  /\ Fetch("SetupExcept")
  /\ handlers' = Append(handlers, [frame |-> frameIndex, sp |-> sp, target |-> instr.a])
  /\ Goto(NextIP)
  /\ UNCHANGED <<frameIndex, operands, env, outcome>>

\* mutant: the oldest handler goes
PopExceptOldest ==
  /\ Fetch("PopExcept")
  /\ handlers' = IF handlers = <<>> THEN handlers ELSE Tail(handlers)
  /\ Goto(NextIP)
  /\ UNCHANGED <<frameIndex, operands, env, outcome>>

PopExcept ==
  /\ Fetch("PopExcept")
  /\ handlers' = IF handlers = <<>> THEN handlers
                 ELSE SubSeq(handlers, 1, Len(handlers) - 1)
  /\ Goto(NextIP)
  /\ UNCHANGED <<frameIndex, operands, env, outcome>>

(* An exception is raised as it is; anything else becomes the message of a *)
(* new one.                                                                *)
Thrown(v) == IF v.k \in Exceptions THEN v ELSE [k |-> "Exception", n |-> v.n]

Raise ==
  /\ Fetch("Raise")
  /\ Unwind(Thrown(StackAt(1)), stack)
  /\ UNCHANGED env

(* The cause, on top, is noted in the exception, which is the same one.    *)
RaiseFrom ==
  /\ Fetch("RaiseFrom")
  /\ Unwind(Thrown(StackAt(2)), stack)
  /\ UNCHANGED env

(* Takes the condition and the message.                                    *)
Assert ==
  /\ Fetch("Assert")
  /\ UNCHANGED env
  /\ \/ Truthy(StackAt(2)) /\ Drop(2) /\ Advance /\ UNCHANGED outcome
     \/ /\ ~Truthy(StackAt(2))
        /\ Unwind([k |-> "AssertionError", n |-> StackAt(1).n], stack)

-------------------------------------------------------------------------------
Flow == EndModule \/ EndFunction \/ ReturnValue \/ ReturnNone
Branches == Jump \/ JumpIfFalse \/ JumpIfFalseOrPop \/ JumpIfTrueOrPop
Data == Constant \/ GetBuiltin \/ Closure \/ Pop \/ Dup \/ Equal \/ Not \/ BuildList
Names == GetGlobal \/ SetGlobal \/ DeleteName \/ GetLocal \/ SetLocal
Loops == GetIter \/ ForIter \/ ListAppend \/ UnpackSequence
Calls == CallPrint \/ CallRange \/ CallAsk \/ CallClosure \/ CallTooDeep \/ CallRefused
Handling == SetupExcept \/ PopExcept \/ Raise \/ RaiseFrom \/ Assert

Next ==
  \/ Cancel \/ CancelAtPoll \/ Panic
  \/ Flow \/ Branches \/ Data \/ Names \/ Loops \/ Calls \/ Handling

Spec == Init /\ [][Next]_vars

-------------------------------------------------------------------------------
(* Every variable has its type: neither stack leaves its array, whatever   *)
(* the instructions are, and a handler can always be gone back to.         *)
TypeOK ==
  /\ stack \in [0..(StackSize - 1) -> Values(unit.fns)]
  /\ sp \in 0..StackSize
  /\ frames \in [0..(MaxFrames - 1) ->
                   [fn : {0} \cup DOMAIN unit.fns, ip : Nat, bp : 0..(StackSize - 1)]]
  /\ frameIndex \in 0..MaxFrames
  /\ Running => frameIndex > 0
  /\ handlers \in Seq([frame : 1..MaxFrames, sp : 0..StackSize, target : Nat])
  /\ DOMAIN globals \subseteq Nat
  /\ \A x \in DOMAIN globals : globals[x] \in Values(unit.fns)
  /\ ticks \in 0..(PollEvery - 1)
  /\ ctxDone \in BOOLEAN
  /\ late \in Nat
  /\ status \in {"running", "done", "failed", "panicked", "cancelled"}
  /\ result \in Values(unit.fns)
  /\ out \in Seq(Values(unit.fns))
  /\ answers \in Seq(Answers) /\ Len(answers) <= MaxAnswers

(* The machine never executes a frame that no call has filled, even when   *)
(* an exception takes it back to a handler whose call has returned: every  *)
(* frame below frameIndex, or below a handler's, is that of a real call,   *)
(* and the lowest is the module's.                                         *)
FramesReal ==
  /\ \A i \in 0..(frameIndex - 1) : frames[i].fn # 0
  /\ \A j \in DOMAIN handlers : \A i \in 0..(handlers[j].frame - 1) : frames[i].fn # 0
  /\ frames[0].fn = 1

(* A cancelled context stops the program within PollEvery instructions,    *)
(* whatever they are.                                                      *)
CancelIsPrompt == late < PollEvery

(* The handlers are those of frames still active, the newest last, and     *)
(* none is above the operand stack.                                        *)
HandlersNest ==
  Running =>
    /\ \A j \in DOMAIN handlers :
         /\ handlers[j].frame <= frameIndex
         /\ handlers[j].sp <= sp
    /\ \A j \in DOMAIN handlers : \A i \in 1..(j - 1) :
         /\ handlers[i].frame <= handlers[j].frame
         /\ handlers[i].sp <= handlers[j].sp

(* The operands of a frame stay above its locals, and its locals above the *)
(* operands of its caller.                                                 *)
OperandsAboveLocals ==
  Running =>
    /\ sp >= currentFrame.bp + unit.fns[currentFrame.fn].locals
    /\ \A i \in 1..(frameIndex - 1) :
         frames[i].bp >= frames[i - 1].bp + unit.fns[frames[i - 1].fn].locals

(* What an instruction takes lies above the locals of its frame, and above *)
(* what any exception goes back to.                                        *)
TakesItsOwn ==
  Running /\ ~AtEnd =>
    /\ sp - Takes >= currentFrame.bp + unit.fns[currentFrame.fn].locals
    /\ \A j \in DOMAIN handlers : sp - Takes >= handlers[j].sp

(* While a try is on, its handler is, and what an exception goes back to   *)
(* is as the try has left it; no instruction takes what is not its own.    *)
StacksNest == HandlersNest /\ OperandsAboveLocals /\ TakesItsOwn

(* A program that ends by itself leaves nothing on the operand stack.      *)
LeavesNothing == status = "done" /\ frameIndex = 1 => sp = 0
===============================================================================
