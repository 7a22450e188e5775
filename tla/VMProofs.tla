-------------------------------- MODULE VMProofs --------------------------------
(***************************************************************************)
(* What the machine of VM guarantees whatever the program is: its stacks   *)
(* stay in their arrays, it only executes frames of real calls, and a      *)
(* cancelled context stops it in time.  The programs are any set Units of  *)
(* well-formed ones, not only what the compiler emits: handlers may be     *)
(* left behind by returns, and operands popped that were never pushed.     *)
(*                                                                         *)
(* The second part is about programs whose instructions keep the           *)
(* discipline of StackDiscipline.                                          *)
(***************************************************************************)
EXTENDS StackDiscipline, SequenceTheorems, TLAPS

Vals == Values(unit.fns)
Slots == 0..(StackSize - 1)
FrameRecord == [fn : {0} \cup DOMAIN unit.fns, ip : Nat, bp : Slots]
HandlerRecord == [frame : 1..MaxFrames, sp : 0..StackSize, target : Nat]

(* The parts of the inductive invariant, by the variables they are about.  *)
StackOK == stack \in [Slots -> Vals] /\ sp \in 0..StackSize

FramesOK ==
  /\ frames \in [0..(MaxFrames - 1) -> FrameRecord]
  /\ frameIndex \in 0..MaxFrames
  /\ handlers \in Seq(HandlerRecord)
  /\ FramesReal

EnvOK ==
  /\ DOMAIN globals \subseteq Nat
  /\ \A x \in DOMAIN globals : globals[x] \in Vals
  /\ out \in Seq(Vals)
  /\ answers \in Seq(Answers) /\ Len(answers) <= MaxAnswers

OutcomeOK ==
  /\ status \in {"running", "done", "failed", "panicked", "cancelled"}
  /\ result \in Vals
  /\ Running => frameIndex > 0

(* As many instructions at most have begun since the cancellation as since *)
(* the last poll.                                                          *)
Paced ==
  /\ ticks \in 0..(PollEvery - 1)
  /\ ctxDone \in BOOLEAN
  /\ late \in Nat
  /\ late <= ticks
  /\ ~ctxDone => late = 0

IInv == unit \in Units /\ StackOK /\ FramesOK /\ EnvOK /\ OutcomeOK /\ Paced

USE VMAssumption

LEMMA ValuesOfKinds ==
  ASSUME NEW fns
  PROVE  /\ Nil \in Values(fns)
         /\ None \in Values(fns)
         /\ \A n \in Nat : Num(n) \in Values(fns)
         /\ \A n \in Nat : [k |-> "range", n |-> n] \in Values(fns)
         /\ \A n \in Nat : [k |-> "iter", n |-> n] \in Values(fns)
         /\ \A n \in Nat : List(n) \in Values(fns)
         /\ \A b : Bool(b) \in Values(fns)
         /\ \A n \in Nat : Native(n) \in Values(fns)
         /\ \A n \in Nat : [k |-> "Exception", n |-> n] \in Values(fns)
         /\ \A n \in Nat : [k |-> "AssertionError", n |-> n] \in Values(fns)
         /\ \A type \in Exceptions : Exc(type) \in Values(fns)
         /\ \A f \in DOMAIN fns : Fun(f) \in Values(fns)
         /\ \A v \in Values(fns) : v.n \in Nat \/ v.k = "fun"
         /\ \A v \in Values(fns) : Elements(v) \in Nat
  BY DEF Values, Kinds, Exceptions, Nil, None, Num, Fun, Exc, Native, List, Bool, Elements

(* The functions of a program, whose frames are current.                   *)
LEMMA Programs ==
  ASSUME unit \in Units
  PROVE  /\ unit.fns \in Seq([code : Seq(Instrs(unit.fns)), params : Nat, locals : Nat])
         /\ DOMAIN unit.fns = 1..Len(unit.fns)
         /\ 1 \in DOMAIN unit.fns
         /\ \A f \in DOMAIN unit.fns :
              /\ unit.fns[f].code \in Seq(Instrs(unit.fns))
              /\ unit.fns[f].params \in Nat
              /\ unit.fns[f].locals \in Nat
              /\ unit.fns[f].params <= unit.fns[f].locals
              /\ \A i \in DOMAIN unit.fns[f].code :
                   unit.fns[f].code[i].op = "Closure" => unit.fns[f].code[i].a \in DOMAIN unit.fns
  <1>1. IsUnit(unit)
    BY UnitsAssumption
  <1>2. /\ unit.fns \in Seq([code : Seq(Instrs(unit.fns)), params : Nat, locals : Nat])
        /\ unit.fns # <<>>
    BY <1>1 DEF IsUnit
  <1>3. DOMAIN unit.fns = 1..Len(unit.fns) /\ Len(unit.fns) \in Nat /\ Len(unit.fns) # 0
    BY <1>2
  <1>4. \A f \in DOMAIN unit.fns :
          unit.fns[f] \in [code : Seq(Instrs(unit.fns)), params : Nat, locals : Nat]
    BY <1>2, <1>3, ElementOfSeq
  <1>5. \A f \in DOMAIN unit.fns :
          /\ unit.fns[f].params <= unit.fns[f].locals
          /\ \A i \in DOMAIN unit.fns[f].code :
               unit.fns[f].code[i].op = "Closure" => unit.fns[f].code[i].a \in DOMAIN unit.fns
    BY <1>1 DEF IsUnit
  <1>6. \A f \in DOMAIN unit.fns :
          /\ unit.fns[f].code \in Seq(Instrs(unit.fns))
          /\ unit.fns[f].params \in Nat
          /\ unit.fns[f].locals \in Nat
    BY <1>4
  <1>7. 1 \in DOMAIN unit.fns
    BY <1>3
  <1> QED BY <1>2, <1>3, <1>5, <1>6, <1>7

(* The initial states.                                                     *)
LEMMA Initially == Init => IInv
  <1> SUFFICES ASSUME Init PROVE IInv
    OBVIOUS
  <1>1. unit \in Units
    BY DEF Init
  <1>2. 1 \in DOMAIN unit.fns
    BY <1>1, Programs
  <1>3. StackOK
    BY ValuesOfKinds DEF Init, StackOK, Slots, Vals
  <1>4. frames \in [0..(MaxFrames - 1) -> FrameRecord] /\ frameIndex \in 0..MaxFrames
    BY <1>2 DEF Init, FrameRecord, Slots, NoFrame
  <1>5. handlers \in Seq(HandlerRecord) /\ FramesReal
    BY DEF Init, FramesReal
  <1>6. EnvOK
    BY ValuesOfKinds DEF Init, EnvOK, HostGlobals, AskName, Vals
  <1>7. OutcomeOK
    BY ValuesOfKinds DEF Init, OutcomeOK, Running, Vals
  <1>8. Paced
    BY DEF Init, Paced
  <1> QED BY <1>1, <1>3, <1>4, <1>5, <1>6, <1>7, <1>8 DEF IInv, FramesOK

-------------------------------------------------------------------------------
(* The current frame is that of a function, and its instruction, when it   *)
(* has one left, is well-formed.                                           *)
LEMMA Current ==
  ASSUME IInv, Running
  PROVE  /\ frameIndex \in 1..MaxFrames
         /\ currentFrame \in FrameRecord
         /\ currentFrame.fn \in DOMAIN unit.fns
         /\ currentFrame.bp \in Slots
         /\ NextIP \in Nat
         /\ ~AtEnd => instr \in Instrs(unit.fns)
         /\ ~AtEnd /\ instr.op = "Closure" => instr.a \in DOMAIN unit.fns
  <1>1. frameIndex \in 1..MaxFrames
    BY DEF IInv, OutcomeOK, FramesOK
  <1>2. frameIndex - 1 \in 0..(MaxFrames - 1) /\ frameIndex - 1 \in 0..(frameIndex - 1)
    BY <1>1
  <1>3. currentFrame \in FrameRecord
    BY <1>2 DEF IInv, FramesOK, currentFrame
  <1>4. currentFrame.fn # 0
    BY <1>2 DEF IInv, FramesOK, FramesReal, currentFrame
  <1>5. currentFrame.fn \in DOMAIN unit.fns /\ currentFrame.ip \in Nat
        /\ currentFrame.bp \in Slots
    BY <1>3, <1>4 DEF FrameRecord
  <1>6. Code \in Seq(Instrs(unit.fns))
    BY <1>5, Programs DEF IInv, Code
  <1>7. ASSUME ~AtEnd
        PROVE  currentFrame.ip + 1 \in DOMAIN Code
    BY <1>5, <1>6, <1>7 DEF AtEnd
  <1>8. ~AtEnd => instr \in Instrs(unit.fns)
    BY <1>6, <1>7 DEF instr
  <1>9. ~AtEnd /\ instr.op = "Closure" => instr.a \in DOMAIN unit.fns
    BY <1>5, <1>7, Programs DEF IInv, instr, Code
  <1> QED BY <1>1, <1>3, <1>5, <1>8, <1>9 DEF NextIP

(* An iteration of Run's loop is paced by the polls.                       *)
LEMMA TickKeeps ==
  ASSUME IInv, Tick
  PROVE  Paced' /\ unit' \in Units
  <1>1. CASE ticks + 1 = PollEvery
    <2>1. PollDue /\ (ticks + 1) % PollEvery = 0
      BY <1>1 DEF PollDue
    <2> QED BY <2>1 DEF Tick, Polled, IInv, Paced
  <1>2. CASE ticks + 1 # PollEvery
    <2>1. (ticks + 1) % PollEvery = ticks + 1
      BY <1>2 DEF IInv, Paced
    <2> QED BY <1>2, <2>1 DEF Tick, IInv, Paced
  <1> QED BY <1>1, <1>2

(* handleException goes back to a frame of a real call, at a height the    *)
(* stack has had.                                                          *)
LEMMA UnwindKeeps ==
  \A exc \in Vals : \A s \in [Slots -> Vals] :
    IInv /\ Running /\ Unwind(exc, s) /\ unit' = unit
      => StackOK' /\ FramesOK' /\ OutcomeOK'
  <1> SUFFICES ASSUME NEW exc \in Vals, NEW s \in [Slots -> Vals],
                      IInv, Running, Unwind(exc, s), unit' = unit
               PROVE  StackOK' /\ FramesOK' /\ OutcomeOK'
    OBVIOUS
  <1>1. StackOK /\ FramesOK /\ OutcomeOK /\ None \in Vals /\ Vals' = Vals
        /\ FrameRecord' = FrameRecord
    BY ValuesOfKinds DEF IInv, Vals, FrameRecord
  <1>2. ASSUME UNCHANGED <<operands, calls>>, status' \in {"failed", "panicked"},
               result' \in Vals
        PROVE  StackOK' /\ FramesOK' /\ OutcomeOK'
    <2>1. StackOK'
      BY <1>1, <1>2 DEF StackOK, operands
    <2>2. FramesOK'
      BY <1>1, <1>2 DEF FramesOK, FramesReal, calls
    <2> QED BY <1>1, <1>2, <2>1, <2>2 DEF OutcomeOK, Running
  <1>3. CASE handlers = <<>>
    BY <1>1, <1>2, <1>3 DEF Unwind, Halt
  <1>4. CASE handlers # <<>> /\ handlers[Len(handlers)].sp >= StackSize
    BY <1>1, <1>2, <1>4 DEF Unwind, Halt
  <1>5. CASE handlers # <<>> /\ ~(handlers[Len(handlers)].sp >= StackSize)
    <2> DEFINE h == handlers[Len(handlers)]
    <2>1. Len(handlers) \in DOMAIN handlers /\ handlers \in Seq(HandlerRecord)
      BY <1>1, <1>5 DEF FramesOK
    <2>2. /\ h \in HandlerRecord
          /\ h.frame \in 1..MaxFrames /\ h.sp \in Slots /\ h.target \in Nat
      <3>1. h \in HandlerRecord
        BY <2>1
      <3> QED BY <3>1, <1>5 DEF HandlerRecord, Slots
    <2>3. /\ handlers' = SubSeq(handlers, 1, Len(handlers) - 1)
          /\ frameIndex' = h.frame
          /\ UNCHANGED outcome
      BY <1>5 DEF Unwind
    <2>4. StackOK'
      <3>1. stack' = [s EXCEPT ![h.sp] = exc] /\ sp' = h.sp + 1
        BY <1>5 DEF Unwind
      <3>2. stack' \in [Slots -> Vals] /\ sp' \in 0..StackSize
        BY <2>2, <3>1 DEF Slots
      <3> QED BY <1>1, <3>2 DEF StackOK, Slots
    <2>a. frames' = [frames EXCEPT ![frameIndex - 1].ip = NextIP, ![h.frame - 1].ip = h.target]
      BY <1>5 DEF Unwind
    <2>5. frames' \in [0..(MaxFrames - 1) -> FrameRecord]
      BY <1>1, <2>2, <2>a, Current, ZenonT(60) DEF FramesOK, FrameRecord
    <2>6. \A i \in 0..(MaxFrames - 1) : frames'[i].fn = frames[i].fn
      BY <1>1, <2>2, <2>a DEF FramesOK, FrameRecord
    <2>7. handlers' \in Seq(HandlerRecord)
          /\ \A j \in DOMAIN handlers' : j \in DOMAIN handlers /\ handlers'[j] = handlers[j]
      BY <2>1, <2>3
    <2>8. FramesReal'
      <3>1. \A i \in 0..(frameIndex' - 1) : frames'[i].fn # 0
        BY <1>1, <2>1, <2>2, <2>3, <2>6, SMTT(60) DEF FramesOK, FramesReal
      <3>2. ASSUME NEW j \in DOMAIN handlers', NEW i \in 0..(handlers'[j].frame - 1)
            PROVE  frames'[i].fn # 0
        <4>1. handlers[j] \in HandlerRecord
          BY <2>1, <2>7
        <4>2. i \in 0..(handlers[j].frame - 1) /\ i \in 0..(MaxFrames - 1)
          BY <2>7, <4>1 DEF HandlerRecord
        <4> QED BY <1>1, <2>6, <2>7, <4>2 DEF FramesOK, FramesReal
      <3>3. frames'[0].fn = 1
        BY <1>1, <2>6 DEF FramesOK, FramesReal
      <3> QED BY <3>1, <3>2, <3>3 DEF FramesReal
    <2>9. FramesOK'
      BY <1>1, <2>2, <2>3, <2>5, <2>7, <2>8 DEF FramesOK
    <2> QED BY <1>1, <2>2, <2>3, <2>4, <2>9 DEF OutcomeOK, outcome, Running
  <1> QED BY <1>3, <1>4, <1>5

(* An ip may change to any position without harm.                          *)
LEMMA GotoKeeps ==
  \A target \in Nat :
    IInv /\ Running /\ Goto(target) /\ UNCHANGED <<unit, frameIndex, handlers>>
      => FramesOK'
  <1> SUFFICES ASSUME NEW target \in Nat, IInv, Running, Goto(target),
                      UNCHANGED <<unit, frameIndex, handlers>>
               PROVE  FramesOK'
    OBVIOUS
  <1>1. FramesOK /\ frameIndex - 1 \in 0..(MaxFrames - 1) /\ FrameRecord' = FrameRecord
    BY Current DEF IInv, FrameRecord
  <1>2. frames' = [frames EXCEPT ![frameIndex - 1].ip = target]
    BY DEF Goto
  <1>3. frames' \in [0..(MaxFrames - 1) -> FrameRecord]
    BY <1>1, <1>2 DEF FramesOK, FrameRecord
  <1>4. \A i \in 0..(MaxFrames - 1) : frames'[i].fn = frames[i].fn
    BY <1>1, <1>2 DEF FramesOK
  <1>5. \A j \in DOMAIN handlers : handlers[j].frame \in 1..MaxFrames
    <2>1. \A j \in DOMAIN handlers : handlers[j] \in HandlerRecord
      BY <1>1, ElementOfSeq DEF FramesOK
    <2> QED BY <2>1 DEF HandlerRecord
  <1>6. FramesReal'
    <2>1. \A i \in 0..(frameIndex' - 1) : frames'[i].fn # 0
      BY <1>1, <1>4 DEF FramesOK, FramesReal
    <2>2. ASSUME NEW j \in DOMAIN handlers', NEW i \in 0..(handlers'[j].frame - 1)
          PROVE  frames'[i].fn # 0
      <3>1. handlers' = handlers /\ j \in DOMAIN handlers
        OBVIOUS
      <3>2. i \in 0..(handlers[j].frame - 1) /\ i \in 0..(MaxFrames - 1)
        BY <1>5, <3>1
      <3> QED BY <1>1, <1>4, <3>1, <3>2 DEF FramesOK, FramesReal
    <2>3. frames'[0].fn = 1
      BY <1>1, <1>4 DEF FramesOK, FramesReal
    <2> QED BY <2>1, <2>2, <2>3 DEF FramesReal
  <1> QED BY <1>1, <1>3, <1>6 DEF FramesOK

(* What every instruction that does not panic can rely on.                 *)
LEMMA FetchGives ==
  ASSUME NEW op, IInv, Fetch(op)
  PROVE  /\ Running /\ ~AtEnd /\ instr.op = op
         /\ instr.a \in Nat /\ instr.v \in Vals
         /\ Takes <= sp
         /\ Grows => sp < StackSize
         /\ unit' = unit /\ unit' \in Units /\ Vals' = Vals /\ Paced'
  <1>1. Tick /\ ~AtEnd /\ instr.op = op /\ ~Panics
    BY DEF Fetch
  <1>2. Running /\ unit' = unit
    BY <1>1 DEF Tick
  <1>3. instr.a \in Nat /\ instr.v \in Vals
    BY <1>1, <1>2, Current DEF Instrs, Vals
  <1>4. Takes \in Nat /\ sp \in Nat
    <2>1. \A v : v \in Instrs(unit.fns) => v.a \in Nat
      BY DEF Instrs
    <2> QED BY <1>3 DEF Takes, TakenBy, IInv, StackOK
  <1>5. Takes <= sp
    BY <1>1, <1>4 DEF Panics
  <1>6. Grows => sp < StackSize
    BY <1>1, <1>4 DEF Panics
  <1> QED BY <1>1, <1>2, <1>3, <1>5, <1>6, TickKeeps DEF Vals

(* What is left alone keeps its part of the invariant.                     *)
LEMMA Unchanged ==
  ASSUME IInv, unit' = unit
  PROVE  /\ UNCHANGED operands => StackOK'
         /\ UNCHANGED calls => FramesOK'
         /\ UNCHANGED env => EnvOK'
         /\ UNCHANGED outcome /\ frameIndex' > 0 => OutcomeOK'
         /\ UNCHANGED <<outcome, frameIndex>> => OutcomeOK'
         /\ \A how \in {"done", "failed", "panicked", "cancelled"} : \A v \in Vals :
              Halt(how, v) => OutcomeOK'
  <1>1. Vals' = Vals /\ FrameRecord' = FrameRecord
    BY DEF Vals, FrameRecord
  <1>2. UNCHANGED operands => StackOK'
    BY <1>1 DEF IInv, StackOK, operands
  <1>3. UNCHANGED calls => FramesOK'
    BY <1>1 DEF IInv, FramesOK, FramesReal, calls
  <1>4. UNCHANGED env => EnvOK'
    BY <1>1 DEF IInv, EnvOK, env
  <1>5. UNCHANGED outcome /\ frameIndex' > 0 => OutcomeOK'
    BY <1>1 DEF IInv, OutcomeOK, outcome, Running
  <1>6. UNCHANGED <<outcome, frameIndex>> => OutcomeOK'
    BY <1>1 DEF IInv, OutcomeOK, outcome, Running
  <1>7. \A how \in {"done", "failed", "panicked", "cancelled"} : \A v \in Vals :
          Halt(how, v) => OutcomeOK'
    BY <1>1 DEF IInv, OutcomeOK, Halt, Running
  <1> QED BY <1>2, <1>3, <1>4, <1>5, <1>6, <1>7

(* Going on with the next instruction.                                     *)
LEMMA AdvanceKeeps ==
  ASSUME IInv, Running, Advance, unit' = unit
  PROVE  /\ FramesOK'
         /\ UNCHANGED outcome => OutcomeOK'
  <1>1. FramesOK'
    BY Current, GotoKeeps DEF Advance
  <1>2. frameIndex' = frameIndex
    BY DEF Advance
  <1> QED BY <1>1, <1>2, Unchanged

(* Writing the stack.                                                      *)
LEMMA PushKeeps ==
  \A v \in Vals : IInv /\ unit' = unit /\ sp < StackSize /\ Push(v) => StackOK'
  BY DEF IInv, StackOK, Push, Vals, Slots

LEMMA DropKeeps ==
  \A n \in Nat : IInv /\ unit' = unit /\ n <= sp /\ Drop(n) => StackOK'
  BY DEF IInv, StackOK, Drop, Vals, Slots

LEMMA ReplaceKeeps ==
  \A n \in Nat \ {0} : \A v \in Vals :
    IInv /\ unit' = unit /\ n <= sp /\ Replace(n, v) => StackOK'
  BY DEF IInv, StackOK, Replace, Vals, Slots

LEMMA Top ==
  ASSUME IInv
  PROVE  \A i \in 1..sp : StackAt(i) \in Vals
  BY DEF IInv, StackOK, StackAt, Slots

-------------------------------------------------------------------------------
LEMMA FromOutside ==
  ASSUME IInv, Cancel \/ CancelAtPoll \/ Panic
  PROVE  IInv'
  <1>1. unit' = unit /\ UNCHANGED <<operands, calls, env>>
    BY DEF Cancel, CancelAtPoll, Panic, Tick
  <1>2. StackOK' /\ FramesOK' /\ EnvOK'
    BY <1>1, Unchanged
  <1>3. None \in Vals
    BY ValuesOfKinds DEF Vals
  <1>4. OutcomeOK' /\ Paced'
    <2>1. CASE Cancel
      <3>1. UNCHANGED <<outcome, frameIndex>>
        BY <2>1 DEF Cancel, calls
      <3>2. Paced'
        BY <2>1 DEF Cancel, IInv, Paced
      <3> QED BY <1>1, <3>1, <3>2, Unchanged
    <2>2. CASE CancelAtPoll
      <3>1. Paced'
        BY <2>2 DEF CancelAtPoll, IInv, Paced
      <3>2. Halt("cancelled", None)
        BY <2>2 DEF CancelAtPoll
      <3> QED BY <1>1, <1>3, <3>1, <3>2, Unchanged
    <2>3. CASE Panic
      <3>1. Tick /\ Halt("panicked", None)
        BY <2>3 DEF Panic
      <3> QED BY <1>1, <1>3, <3>1, Unchanged, TickKeeps
    <2> QED BY <2>1, <2>2, <2>3
  <1> QED BY <1>1, <1>2, <1>4 DEF IInv

(* A return pops one frame, and writes the result where the callee was.    *)
LEMMA ReturnKeeps ==
  \A v \in Vals :
    IInv /\ Running /\ unit' = unit /\ ReturnWith(v)
      => StackOK' /\ FramesOK' /\ EnvOK' /\ OutcomeOK'
  <1> SUFFICES ASSUME NEW v \in Vals, IInv, Running, unit' = unit, ReturnWith(v)
               PROVE  StackOK' /\ FramesOK' /\ EnvOK' /\ OutcomeOK'
    OBVIOUS
  <1>1. frameIndex \in 1..MaxFrames /\ currentFrame.bp \in Slots /\ None \in Vals
    BY Current, ValuesOfKinds DEF Vals
  <1>2. frameIndex' = frameIndex - 1 /\ UNCHANGED <<frames, handlers, env>>
    BY DEF ReturnWith
  <1>3. FramesOK'
    <2>1. FrameRecord' = FrameRecord /\ FramesOK
      BY DEF FrameRecord, IInv
    <2> QED BY <1>1, <1>2, <2>1 DEF FramesOK, FramesReal
  <1>4. EnvOK'
    BY <1>2, Unchanged
  <1>5. CASE frameIndex = 1
    <2>1. Halt("done", None) /\ UNCHANGED operands
      BY <1>5 DEF ReturnWith
    <2> QED BY <1>1, <1>3, <1>4, <2>1, Unchanged
  <1>6. CASE frameIndex > 1
    <2>1. stack' = [stack EXCEPT ![currentFrame.bp] = v] /\ sp' = currentFrame.bp + 1
          /\ UNCHANGED outcome
      BY <1>6 DEF ReturnWith
    <2>2. StackOK'
      BY <1>1, <2>1 DEF IInv, StackOK, Slots, Vals
    <2>3. frameIndex' > 0
      BY <1>1, <1>2, <1>6
    <2> QED BY <1>3, <1>4, <2>1, <2>2, <2>3, Unchanged
  <1> QED BY <1>1, <1>5, <1>6

LEMMA FlowKeeps ==
  ASSUME IInv, Flow
  PROVE  IInv'
  <1>0. None \in Vals
    BY ValuesOfKinds DEF Vals
  <1>1. CASE EndModule
    <2>1. Tick /\ Halt("done", None) /\ UNCHANGED <<operands, calls, env>> /\ unit' = unit
      BY <1>1 DEF EndModule, Tick
    <2> QED BY <1>0, <2>1, TickKeeps, Unchanged DEF IInv
  <1>2. CASE EndFunction
    <2>1. Tick /\ Running /\ unit' = unit /\ ReturnWith(None)
      BY <1>2 DEF EndFunction, Tick
    <2> QED BY <1>0, <2>1, TickKeeps, ReturnKeeps DEF IInv
  <1>3. CASE ReturnValue
    <2>1. Fetch("ReturnValue") /\ ReturnWith(StackAt(1))
      BY <1>3 DEF ReturnValue
    <2>2. Running /\ unit' = unit /\ unit' \in Units /\ Paced' /\ Takes <= sp
          /\ instr.op = "ReturnValue"
      BY <2>1, FetchGives
    <2>3. StackAt(1) \in Vals
      BY <2>2, Top DEF Takes, TakenBy, IInv, StackOK
    <2> QED BY <2>1, <2>2, <2>3, ReturnKeeps DEF IInv
  <1>4. CASE ReturnNone
    <2>1. Fetch("ReturnNone") /\ ReturnWith(None)
      BY <1>4 DEF ReturnNone
    <2> QED BY <1>0, <2>1, FetchGives, ReturnKeeps DEF IInv
  <1> QED BY <1>1, <1>2, <1>3, <1>4 DEF Flow

(* A jump is taken, or the cancelled context ends the run instead.         *)
LEMMA BranchesKeep ==
  ASSUME IInv, Branches
  PROVE  IInv'
  <1>0. None \in Vals
    BY ValuesOfKinds DEF Vals
  <1>5. ASSUME Running, unit' = unit, instr.a \in Nat,
               \/ Halt("cancelled", None) /\ UNCHANGED calls
               \/ Goto(instr.a) /\ UNCHANGED <<frameIndex, handlers, outcome>>
        PROVE  FramesOK' /\ OutcomeOK'
    <2>1. CASE Halt("cancelled", None) /\ UNCHANGED calls
      BY <1>0, <1>5, <2>1, Unchanged
    <2>2. CASE Goto(instr.a) /\ UNCHANGED <<frameIndex, handlers, outcome>>
      BY <1>5, <2>2, GotoKeeps, Unchanged
    <2> QED BY <1>5, <2>1, <2>2
  <1>6. CASE Jump
    <2>1. Fetch("Jump") /\ JumpTo(instr.a, instr.a < NextIP) /\ UNCHANGED <<operands, env>>
      BY <1>6 DEF Jump
    <2>2. Running /\ unit' = unit /\ unit' \in Units /\ Paced' /\ instr.a \in Nat
      BY <2>1, FetchGives
    <2>3. FramesOK' /\ OutcomeOK'
      BY <1>5, <2>1, <2>2 DEF JumpTo
    <2> QED BY <2>1, <2>2, <2>3, Unchanged DEF IInv
  <1>7. CASE JumpIfFalse
    <2>1. Fetch("JumpIfFalse") /\ Drop(1) /\ UNCHANGED env
      BY <1>7 DEF JumpIfFalse
    <2>2. Running /\ unit' = unit /\ unit' \in Units /\ Paced' /\ instr.a \in Nat
          /\ Takes <= sp /\ instr.op = "JumpIfFalse"
      BY <2>1, FetchGives
    <2>3. StackOK'
      BY <2>1, <2>2, DropKeeps DEF Takes, TakenBy
    <2>4. CASE Advance /\ UNCHANGED outcome
      BY <2>1, <2>2, <2>3, <2>4, AdvanceKeeps, Unchanged DEF IInv
    <2>5. CASE JumpTo(instr.a, instr.a <= NextIP)
      <3>1. FramesOK' /\ OutcomeOK'
        BY <1>5, <2>2, <2>5 DEF JumpTo
      <3> QED BY <2>1, <2>2, <2>3, <3>1, Unchanged DEF IInv
    <2> QED BY <1>7, <2>4, <2>5 DEF JumpIfFalse
  <1>8. ASSUME NEW op \in {"JumpIfFalseOrPop", "JumpIfTrueOrPop"}, NEW jumps, JumpOrPop(op, jumps)
        PROVE  IInv'
    <2>1. Fetch(op) /\ UNCHANGED env
      BY <1>8 DEF JumpOrPop
    <2>2. Running /\ unit' = unit /\ unit' \in Units /\ Paced' /\ instr.a \in Nat
          /\ Takes <= sp /\ instr.op = op
      BY <2>1, FetchGives
    <2>3. CASE JumpTo(instr.a, instr.a <= NextIP) /\ UNCHANGED operands
      <3>1. FramesOK' /\ OutcomeOK'
        BY <1>5, <2>2, <2>3 DEF JumpTo
      <3> QED BY <2>1, <2>2, <2>3, <3>1, Unchanged DEF IInv
    <2>4. CASE Drop(1) /\ Advance /\ UNCHANGED outcome
      <3>1. StackOK'
        BY <2>2, <2>4, DropKeeps DEF Takes, TakenBy
      <3> QED BY <2>1, <2>2, <2>4, <3>1, AdvanceKeeps, Unchanged DEF IInv
    <2> QED BY <1>8, <2>3, <2>4 DEF JumpOrPop
  <1>9. CASE JumpIfFalseOrPop
    BY <1>8, <1>9 DEF JumpIfFalseOrPop
  <1>10. CASE JumpIfTrueOrPop
    BY <1>8, <1>10 DEF JumpIfTrueOrPop
  <1> QED BY <1>6, <1>7, <1>9, <1>10 DEF Branches

(* A global, unlike a local, may not be there.                             *)
LEMMA GetGlobalKeeps ==
  ASSUME IInv, GetGlobal
  PROVE  IInv'
  <1>1. Fetch("GetGlobal") /\ UNCHANGED env
    BY DEF GetGlobal
  <1>2. /\ Running /\ unit' = unit /\ unit' \in Units /\ Paced'
        /\ instr.op = "GetGlobal" /\ instr.a \in Nat /\ (Grows => sp < StackSize)
    BY <1>1, FetchGives
  <1>3. CASE /\ instr.a \in DOMAIN globals \cup Builtins
             /\ Push(Found(instr.a)) /\ Advance /\ UNCHANGED outcome
    <2>1. Found(instr.a) \in Vals
      BY <1>2, ValuesOfKinds DEF Found, Vals, IInv, EnvOK
    <2>2. sp < StackSize
      BY <1>2, <1>3 DEF Grows
    <2> QED BY <1>1, <1>2, <1>3, <2>1, <2>2, PushKeeps, AdvanceKeeps, Unchanged DEF IInv
  <1>4. CASE Unwind(Exc("NameError"), stack)
    <2>1. Exc("NameError") \in Vals /\ stack \in [Slots -> Vals]
      BY ValuesOfKinds DEF Vals, Exceptions, IInv, StackOK
    <2> QED BY <1>1, <1>2, <1>4, <2>1, UnwindKeeps, Unchanged DEF IInv
  <1> QED BY <1>3, <1>4 DEF GetGlobal

LEMMA SetGlobalKeeps ==
  ASSUME IInv, SetGlobal
  PROVE  IInv'
  <1>1. Fetch("SetGlobal") /\ Drop(1) /\ Advance /\ UNCHANGED <<out, answers, outcome>>
    BY DEF SetGlobal
  <1>2. /\ Running /\ unit' = unit /\ unit' \in Units /\ Paced' /\ Vals' = Vals
        /\ instr.op = "SetGlobal" /\ instr.a \in Nat /\ Takes <= sp
    BY <1>1, FetchGives
  <1>3. 1 <= sp /\ StackAt(1) \in Vals
    BY <1>2, Top DEF Takes, TakenBy, IInv, StackOK
  <1>4. StackOK'
    BY <1>1, <1>2, <1>3, DropKeeps
  <1>5. EnvOK'
    <2>1. globals' = [x \in DOMAIN globals \cup {instr.a} |->
                        IF x = instr.a THEN StackAt(1) ELSE globals[x]]
      BY DEF SetGlobal
    <2>2. DOMAIN globals' \subseteq Nat /\ \A x \in DOMAIN globals' : globals'[x] \in Vals
      BY <1>2, <1>3, <2>1 DEF IInv, EnvOK
    <2> QED BY <1>1, <1>2, <2>2 DEF IInv, EnvOK
  <1> QED BY <1>1, <1>2, <1>4, <1>5, AdvanceKeeps DEF IInv

LEMMA DeleteNameKeeps ==
  ASSUME IInv, DeleteName
  PROVE  IInv'
  <1>1. /\ Fetch("DeleteName") /\ Advance /\ UNCHANGED <<operands, out, answers, outcome>>
        /\ globals' = [x \in DOMAIN globals \ {instr.a} |-> globals[x]]
    BY DEF DeleteName
  <1>2. Running /\ unit' = unit /\ unit' \in Units /\ Paced' /\ Vals' = Vals
    BY <1>1, FetchGives
  <1>3. EnvOK'
    BY <1>1, <1>2 DEF IInv, EnvOK
  <1> QED BY <1>1, <1>2, <1>3, AdvanceKeeps, Unchanged DEF IInv

LEMMA DataKeeps ==
  ASSUME IInv, Data
  PROVE  IInv'
  <1>a. ASSUME NEW v \in Vals, Running, unit' = unit, unit' \in Units, Paced',
               Grows => sp < StackSize, instr.op \in {"Constant", "GetBuiltin", "Closure", "Dup"},
               Push(v), Advance, UNCHANGED <<env, outcome>>
        PROVE  IInv'
    <2>1. sp < StackSize
      BY <1>a DEF Grows
    <2> QED BY <1>a, <2>1, PushKeeps, AdvanceKeeps, Unchanged DEF IInv
  <1>b. CASE Constant
    <2>1. Fetch("Constant") /\ Push(instr.v) /\ Advance /\ UNCHANGED <<env, outcome>>
      BY <1>b DEF Constant
    <2> QED BY <1>a, <2>1, FetchGives
  <1>d. CASE GetBuiltin
    <2>1. Fetch("GetBuiltin") /\ Push(Native(instr.a)) /\ Advance /\ UNCHANGED <<env, outcome>>
      BY <1>d DEF GetBuiltin
    <2>2. instr.a \in Nat
      BY <2>1, FetchGives
    <2>3. Native(instr.a) \in Vals
      BY <2>2, ValuesOfKinds DEF Vals
    <2> QED BY <1>a, <2>1, <2>3, FetchGives
  <1>c. CASE Closure
    <2>1. Fetch("Closure") /\ Push(Fun(instr.a)) /\ Advance /\ UNCHANGED <<env, outcome>>
      BY <1>c DEF Closure
    <2>2. Running /\ ~AtEnd /\ instr.op = "Closure"
      BY <2>1, FetchGives
    <2>3. Fun(instr.a) \in Vals
      BY <2>2, Current, ValuesOfKinds DEF Vals
    <2> QED BY <1>a, <2>1, <2>3, FetchGives
  <1>2. CASE Pop
    <2>1. Fetch("Pop") /\ Drop(1) /\ Advance /\ UNCHANGED <<env, outcome>>
      BY <1>2 DEF Pop
    <2>2. Running /\ unit' = unit /\ unit' \in Units /\ Paced'
          /\ Takes <= sp /\ instr.op = "Pop"
      BY <2>1, FetchGives
    <2> QED BY <2>1, <2>2, DropKeeps, AdvanceKeeps, Unchanged DEF IInv, Takes, TakenBy
  <1>6. CASE Dup
    <2>1. Fetch("Dup") /\ Push(StackAt(1)) /\ Advance /\ UNCHANGED <<env, outcome>>
      BY <1>6 DEF Dup
    <2>2. Running /\ Takes <= sp /\ instr.op = "Dup"
      BY <2>1, FetchGives
    <2>3. StackAt(1) \in Vals
      BY <2>2, Top DEF Takes, TakenBy, IInv, StackOK
    <2> QED BY <1>a, <2>1, <2>3, FetchGives
  <1>7. CASE Equal
    <2>1. Fetch("Equal") /\ Advance /\ UNCHANGED <<env, outcome>>
      BY <1>7 DEF Equal
    <2>2. PICK b : Replace(2, Bool(b))
      BY <1>7 DEF Equal
    <2>3. Running /\ unit' = unit /\ unit' \in Units /\ Paced'
          /\ Takes <= sp /\ instr.op = "Equal"
      BY <2>1, FetchGives
    <2>4. Bool(b) \in Vals
      BY ValuesOfKinds DEF Vals
    <2>5. 2 <= sp
      BY <2>3 DEF Takes, TakenBy
    <2> QED BY <2>1, <2>2, <2>3, <2>4, <2>5, ReplaceKeeps, AdvanceKeeps, Unchanged DEF IInv
  <1>8. CASE Not
    <2>1. /\ Fetch("Not") /\ Replace(1, Bool(~Truthy(StackAt(1))))
          /\ Advance /\ UNCHANGED <<env, outcome>>
      BY <1>8 DEF Not
    <2>2. Running /\ unit' = unit /\ unit' \in Units /\ Paced'
          /\ Takes <= sp /\ instr.op = "Not"
      BY <2>1, FetchGives
    <2>3. Bool(~Truthy(StackAt(1))) \in Vals
      BY ValuesOfKinds DEF Vals
    <2>4. 1 <= sp
      BY <2>2 DEF Takes, TakenBy
    <2> QED BY <2>1, <2>2, <2>3, <2>4, ReplaceKeeps, AdvanceKeeps, Unchanged DEF IInv
  <1>9. CASE BuildList
    <2>1. /\ Fetch("BuildList") /\ Replace(instr.a, List(instr.a))
          /\ Advance /\ UNCHANGED <<env, outcome>>
      BY <1>9 DEF BuildList
    <2>2. /\ Running /\ unit' = unit /\ unit' \in Units /\ Paced' /\ instr.a \in Nat
          /\ Takes <= sp /\ instr.op = "BuildList" /\ (Grows => sp < StackSize)
      BY <2>1, FetchGives
    <2>3. List(instr.a) \in Vals
      BY <2>2, ValuesOfKinds DEF Vals
    <2>4. CASE instr.a = 0
      <3>1. sp < StackSize
        BY <2>2, <2>4 DEF Grows
      <3>2. Push(List(instr.a))
        BY <2>1, <2>4 DEF Replace, Push, IInv, StackOK
      <3> QED BY <2>1, <2>2, <2>3, <3>1, <3>2, PushKeeps, AdvanceKeeps, Unchanged DEF IInv
    <2>5. CASE instr.a # 0
      <3>1. instr.a <= sp
        BY <2>2 DEF Takes, TakenBy
      <3> QED BY <2>1, <2>2, <2>3, <2>5, <3>1, ReplaceKeeps, AdvanceKeeps, Unchanged DEF IInv
    <2> QED BY <2>4, <2>5
  <1> QED BY <1>b, <1>c, <1>d, <1>2, <1>6, <1>7, <1>8, <1>9 DEF Data

LEMMA NamesKeep ==
  ASSUME IInv, Names
  PROVE  IInv'
  <1>3. ASSUME Fetch("GetLocal") \/ Fetch("SetLocal")
        PROVE  LocalAt(instr.a) \in Slots
    <2>1. ~Panics /\ instr.op \in {"GetLocal", "SetLocal"}
      BY <1>3 DEF Fetch
    <2>2. Running /\ instr.a \in Nat
      BY <1>3, FetchGives
    <2>3. currentFrame.bp \in Slots
      BY <2>2, Current
    <2> QED BY <2>1, <2>2, <2>3 DEF Panics, LocalAt, Slots
  <1>4. CASE GetLocal
    <2>1. Fetch("GetLocal") /\ Push(stack[LocalAt(instr.a)]) /\ Advance
          /\ UNCHANGED <<env, outcome>>
      BY <1>4 DEF GetLocal
    <2>2. Running /\ unit' = unit /\ unit' \in Units /\ Paced'
          /\ (Grows => sp < StackSize) /\ instr.op = "GetLocal"
      BY <2>1, FetchGives
    <2>3. stack[LocalAt(instr.a)] \in Vals
      BY <1>3, <2>1 DEF IInv, StackOK
    <2>4. sp < StackSize
      BY <2>2 DEF Grows
    <2> QED BY <2>1, <2>2, <2>3, <2>4, PushKeeps, AdvanceKeeps, Unchanged DEF IInv
  <1>5. CASE SetLocal
    <2>1. Fetch("SetLocal") /\ Advance /\ UNCHANGED <<env, outcome>>
      BY <1>5 DEF SetLocal
    <2>2. Running /\ unit' = unit /\ unit' \in Units /\ Paced' /\ Vals' = Vals
          /\ Takes <= sp /\ instr.op = "SetLocal"
      BY <2>1, FetchGives
    <2>3. 1 <= sp /\ StackAt(1) \in Vals
      BY <2>2, Top DEF Takes, TakenBy, IInv, StackOK
    <2>4. StackOK'
      <3>1. stack' = [stack EXCEPT ![LocalAt(instr.a)] = StackAt(1)] /\ sp' = sp - 1
        BY <1>5 DEF SetLocal
      <3>2. StackOK
        BY DEF IInv
      <3>3. stack' \in [Slots -> Vals]
        BY <1>3, <2>1, <2>3, <3>1, <3>2 DEF StackOK
      <3>4. sp' \in 0..StackSize
        BY <2>3, <3>1, <3>2 DEF StackOK
      <3> QED BY <2>2, <3>3, <3>4 DEF StackOK, Slots
    <2> QED BY <2>1, <2>2, <2>4, AdvanceKeeps, Unchanged DEF IInv
  <1> QED BY <1>4, <1>5, GetGlobalKeeps, SetGlobalKeeps, DeleteNameKeeps DEF Names

LEMMA LoopsKeep ==
  ASSUME IInv, Loops
  PROVE  IInv'
  <1>1. CASE GetIter
    <2> DEFINE v == [k |-> "iter", n |-> Elements(StackAt(1))]
    <2>1. Fetch("GetIter") /\ Replace(1, v) /\ Advance /\ UNCHANGED <<env, outcome>>
      BY <1>1 DEF GetIter
    <2>2. Running /\ unit' = unit /\ unit' \in Units /\ Paced'
          /\ Takes <= sp /\ instr.op = "GetIter"
      BY <2>1, FetchGives
    <2>3. 1 <= sp /\ StackAt(1) \in Vals
      BY <2>2, Top DEF Takes, TakenBy, IInv, StackOK
    <2>4. v.n \in Nat
      BY <2>3, ValuesOfKinds DEF Vals
    <2>5. v \in Vals
      BY <2>4, ValuesOfKinds DEF Vals
    <2>6. StackOK'
      BY <2>1, <2>2, <2>3, <2>5, ReplaceKeeps
    <2> QED BY <2>1, <2>2, <2>6, AdvanceKeeps, Unchanged DEF IInv
  <1>2. CASE ForIter
    <2>1. Fetch("ForIter") /\ UNCHANGED env
      BY <1>2 DEF ForIter
    <2>2. /\ Running /\ unit' = unit /\ unit' \in Units /\ Paced' /\ Vals' = Vals
          /\ Takes <= sp /\ (Grows => sp < StackSize) /\ instr.op = "ForIter"
          /\ instr.a \in Nat
      BY <2>1, FetchGives
    <2>3. 1 <= sp /\ StackAt(1) \in Vals /\ StackOK
      BY <2>2, Top DEF Takes, TakenBy, IInv, StackOK
    <2>4. ASSUME StackAt(1).k = "iter", StackAt(1).n > 0,
                 stack' = [stack EXCEPT ![sp - 1].n = @ - 1, ![sp] = Num(StackAt(1).n)],
                 sp' = sp + 1, Advance, UNCHANGED outcome
          PROVE  IInv'
      <3>1. sp < StackSize
        BY <2>2, <2>4 DEF Grows
      <3>2. StackAt(1).n \in Nat /\ Num(StackAt(1).n) \in Vals
        BY <2>3, <2>4, ValuesOfKinds DEF Vals
      <3>3. [StackAt(1) EXCEPT !.n = @ - 1] \in Vals
        <4>1. StackAt(1) = [k |-> "iter", n |-> StackAt(1).n]
          BY <2>3, <2>4 DEF Vals, Values
        <4>2. [StackAt(1) EXCEPT !.n = @ - 1] = [k |-> "iter", n |-> StackAt(1).n - 1]
          BY <4>1
        <4> QED BY <2>4, <3>2, <4>2, ValuesOfKinds DEF Vals
      <3>4. stack' = [stack EXCEPT ![sp - 1] = [StackAt(1) EXCEPT !.n = @ - 1],
                                   ![sp] = Num(StackAt(1).n)]
        BY <2>4, <2>3, <3>1 DEF StackAt, StackOK, Slots
      <3>5. stack' \in [Slots -> Vals]
        BY <2>3, <3>2, <3>3, <3>4 DEF StackOK
      <3>6. StackOK'
        BY <2>2, <2>3, <2>4, <3>1, <3>5 DEF StackOK, Slots
      <3> QED BY <2>1, <2>2, <2>4, <3>6, AdvanceKeeps, Unchanged DEF IInv
    <2>5. ASSUME Drop(1), Goto(instr.a), UNCHANGED <<frameIndex, handlers, outcome>>
          PROVE  IInv'
      BY <2>1, <2>2, <2>3, <2>5, DropKeeps, GotoKeeps, Unchanged DEF IInv
    <2>6. CASE Unwind(Exc("TypeError"), stack)
      <3>1. Exc("TypeError") \in Vals /\ stack \in [Slots -> Vals]
        BY <2>3, ValuesOfKinds DEF Vals, Exceptions, StackOK
      <3> QED BY <2>1, <2>2, <2>6, <3>1, UnwindKeeps, Unchanged DEF IInv
    <2> QED BY <1>2, <2>4, <2>5, <2>6 DEF ForIter
  <1>3. CASE ListAppend
    <2> DEFINE grown == IF stack[sp - 3].k = "list" THEN List(stack[sp - 3].n + 1)
                        ELSE stack[sp - 3]
    <2>1. /\ Fetch("ListAppend") /\ sp' = sp - 1 /\ Advance /\ UNCHANGED <<env, outcome>>
          /\ stack' = [stack EXCEPT ![sp - 3] = IF @.k = "list" THEN List(@.n + 1) ELSE @]
      BY <1>3 DEF ListAppend
    <2>2. /\ Running /\ unit' = unit /\ unit' \in Units /\ Paced' /\ Vals' = Vals
          /\ Takes <= sp /\ instr.op = "ListAppend"
      BY <2>1, FetchGives
    <2>3. 3 <= sp /\ StackOK /\ sp - 3 \in Slots
      BY <2>2 DEF Takes, TakenBy, IInv, StackOK, Slots
    <2>4. stack[sp - 3] \in Vals
      BY <2>3 DEF StackOK
    <2>5. stack[sp - 3].k = "list" => stack[sp - 3].n \in Nat
      BY <2>4, ValuesOfKinds DEF Vals
    <2>6. grown \in Vals
      BY <2>4, <2>5, ValuesOfKinds DEF Vals
    <2>7. stack' = [stack EXCEPT ![sp - 3] = grown]
      BY <2>1, <2>3 DEF StackOK
    <2>8. StackOK'
      <3> HIDE DEF grown
      <3> QED BY <2>1, <2>2, <2>3, <2>6, <2>7 DEF StackOK, Slots
    <2> QED BY <2>1, <2>2, <2>8, AdvanceKeeps, Unchanged DEF IInv
  <1>4. CASE UnpackSequence
    <2>1. Fetch("UnpackSequence") /\ UNCHANGED env
      BY <1>4 DEF UnpackSequence
    <2>2. /\ Running /\ unit' = unit /\ unit' \in Units /\ Paced' /\ Vals' = Vals
          /\ Takes <= sp /\ instr.op = "UnpackSequence" /\ instr.a \in Nat /\ ~Panics
      BY <2>1, FetchGives DEF Fetch
    <2>3. 1 <= sp /\ StackOK /\ stack \in [Slots -> Vals] /\ sp \in 0..StackSize
      BY <2>2 DEF Takes, TakenBy, IInv, StackOK
    <2>4. ASSUME Elements(StackAt(1)) = instr.a, stack' = WithElements(instr.a),
                 sp' = sp - 1 + instr.a, Advance, UNCHANGED outcome
          PROVE  IInv'
      <3>1. sp - 1 + instr.a <= StackSize
        BY <2>2, <2>3, <2>4 DEF Panics
      <3>2. ASSUME NEW i \in Slots
            PROVE  WithElements(instr.a)[i] \in Vals
        <4>1. WithElements(instr.a)[i] =
                IF i \in (sp - 1)..(sp + instr.a - 2) THEN Num(i - sp + 2) ELSE stack[i]
          BY DEF WithElements, Slots
        <4>2. i \in (sp - 1)..(sp + instr.a - 2) => i - sp + 2 \in Nat
          BY <2>2, <2>3 DEF Slots
        <4> QED BY <2>3, <4>1, <4>2, ValuesOfKinds DEF Vals
      <3>3. WithElements(instr.a) \in [Slots -> Vals]
        BY <3>2 DEF WithElements, Slots
      <3>4. sp' \in 0..StackSize
        BY <2>2, <2>3, <2>4, <3>1
      <3>5. StackOK'
        BY <2>2, <2>4, <3>3, <3>4 DEF StackOK, Slots
      <3> QED BY <2>1, <2>2, <2>4, <3>5, AdvanceKeeps, Unchanged DEF IInv
    <2>5. CASE Unwind(Exc("ValueError"), stack)
      <3>1. Exc("ValueError") \in Vals
        BY ValuesOfKinds DEF Vals, Exceptions
      <3> QED BY <2>1, <2>2, <2>3, <2>5, <3>1, UnwindKeeps, Unchanged DEF IInv
    <2> QED BY <1>4, <2>4, <2>5 DEF UnpackSequence
  <1> QED BY <1>1, <1>2, <1>3, <1>4 DEF Loops

LEMMA HandlingKeeps ==
  ASSUME IInv, Handling
  PROVE  IInv'
  \* The list of handlers, and the ip, change; each handler has its frames.
  <1>1. ASSUME Running, unit' = unit, Goto(NextIP), frameIndex' = frameIndex,
               handlers' \in Seq(HandlerRecord),
               \A j \in DOMAIN handlers' :
                 \/ handlers'[j].frame = frameIndex
                 \/ \E m \in DOMAIN handlers : handlers'[j] = handlers[m]
        PROVE  FramesOK'
    <2>1. FramesOK /\ frameIndex \in 1..MaxFrames /\ FrameRecord' = FrameRecord /\ NextIP \in Nat
      BY <1>1, Current DEF IInv, FrameRecord
    <2>2. frames' = [frames EXCEPT ![frameIndex - 1].ip = NextIP]
      BY <1>1 DEF Goto
    <2>3. frames' \in [0..(MaxFrames - 1) -> FrameRecord]
      BY <2>1, <2>2 DEF FramesOK, FrameRecord
    <2>4. \A i \in 0..(MaxFrames - 1) : frames'[i].fn = frames[i].fn
      BY <2>1, <2>2 DEF FramesOK, FrameRecord
    <2>5. ASSUME NEW j \in DOMAIN handlers', NEW i \in 0..(handlers'[j].frame - 1)
          PROVE  frames'[i].fn # 0
      <3>1. handlers'[j] \in HandlerRecord
        BY <1>1, <2>5, ElementOfSeq
      <3>2. i \in 0..(MaxFrames - 1)
        BY <2>5, <3>1 DEF HandlerRecord
      <3>3. frames[i].fn # 0
        BY <1>1, <2>1, <2>5 DEF FramesOK, FramesReal
      <3> QED BY <2>4, <3>2, <3>3
    <2>6. FramesReal'
      <3>1. \A i \in 0..(frameIndex' - 1) : frames'[i].fn # 0
        BY <1>1, <2>1, <2>4 DEF FramesOK, FramesReal
      <3>2. frames'[0].fn = 1
        BY <2>1, <2>4 DEF FramesOK, FramesReal
      <3> QED BY <2>5, <3>1, <3>2 DEF FramesReal
    <2> QED BY <1>1, <2>1, <2>3, <2>6 DEF FramesOK
  <1>2. CASE SetupExcept
    <2> DEFINE h == [frame |-> frameIndex, sp |-> sp, target |-> instr.a]
    <2>1. /\ Fetch("SetupExcept") /\ handlers' = Append(handlers, h) /\ Goto(NextIP)
          /\ UNCHANGED <<frameIndex, operands, env, outcome>>
      BY <1>2 DEF SetupExcept
    <2>2. Running /\ unit' = unit /\ unit' \in Units /\ Paced' /\ instr.a \in Nat
      BY <2>1, FetchGives
    <2>3. h \in HandlerRecord /\ handlers \in Seq(HandlerRecord)
      BY <2>2, Current DEF HandlerRecord, IInv, StackOK, FramesOK
    <2>4. handlers' \in Seq(HandlerRecord) /\ \A j \in DOMAIN handlers' :
            handlers'[j].frame = frameIndex \/ \E m \in DOMAIN handlers : handlers'[j] = handlers[m]
      <3> HIDE DEF h
      <3>1. handlers' \in Seq(HandlerRecord) /\ \A j \in DOMAIN handlers' :
              handlers'[j] = h \/ \E m \in DOMAIN handlers : handlers'[j] = handlers[m]
        BY <2>1, <2>3
      <3>2. h.frame = frameIndex
        BY DEF h
      <3> QED BY <3>1, <3>2
    <2>5. FramesOK'
      BY <1>1, <2>1, <2>2, <2>4
    <2> QED BY <2>1, <2>2, <2>5, Unchanged DEF IInv
  <1>3. CASE PopExcept
    <2>1. /\ Fetch("PopExcept") /\ Goto(NextIP)
          /\ handlers' = IF handlers = <<>> THEN handlers
                         ELSE SubSeq(handlers, 1, Len(handlers) - 1)
          /\ UNCHANGED <<frameIndex, operands, env, outcome>>
      BY <1>3 DEF PopExcept
    <2>2. Running /\ unit' = unit /\ unit' \in Units /\ Paced'
      BY <2>1, FetchGives
    <2>3. handlers \in Seq(HandlerRecord)
      BY DEF IInv, FramesOK
    <2>4. handlers' \in Seq(HandlerRecord) /\ \A j \in DOMAIN handlers' :
            \E m \in DOMAIN handlers : handlers'[j] = handlers[m]
      BY <2>1, <2>3
    <2>5. FramesOK'
      BY <1>1, <2>1, <2>2, <2>4
    <2> QED BY <2>1, <2>2, <2>5, Unchanged DEF IInv
  <1>a. ASSUME NEW v \in Vals, unit \in Units
        PROVE  Thrown(v) \in Vals
    <2>1. v.n \in Nat
      BY <1>a, Programs DEF Vals, Values
    <2> QED BY <2>1, ValuesOfKinds DEF Vals, Thrown
  <1>4. CASE Raise
    <2>1. Fetch("Raise") /\ Unwind(Thrown(StackAt(1)), stack) /\ UNCHANGED env
      BY <1>4 DEF Raise
    <2>2. Running /\ unit' = unit /\ unit' \in Units /\ Paced'
          /\ Takes <= sp /\ instr.op = "Raise"
      BY <2>1, FetchGives
    <2>3. StackAt(1) \in Vals /\ stack \in [Slots -> Vals] /\ unit \in Units
      BY <2>2, Top DEF Takes, TakenBy, IInv, StackOK
    <2>4. Thrown(StackAt(1)) \in Vals
      BY <1>a, <2>3
    <2> QED BY <2>1, <2>2, <2>3, <2>4, UnwindKeeps, Unchanged DEF IInv
  <1>6. CASE RaiseFrom
    <2>1. Fetch("RaiseFrom") /\ Unwind(Thrown(StackAt(2)), stack) /\ UNCHANGED env
      BY <1>6 DEF RaiseFrom
    <2>2. Running /\ unit' = unit /\ unit' \in Units /\ Paced'
          /\ Takes <= sp /\ instr.op = "RaiseFrom"
      BY <2>1, FetchGives
    <2>3. StackAt(2) \in Vals /\ stack \in [Slots -> Vals] /\ unit \in Units
      BY <2>2, Top DEF Takes, TakenBy, IInv, StackOK
    <2>4. Thrown(StackAt(2)) \in Vals
      BY <1>a, <2>3
    <2> QED BY <2>1, <2>2, <2>3, <2>4, UnwindKeeps, Unchanged DEF IInv
  <1>5. CASE Assert
    <2> DEFINE exc == [k |-> "AssertionError", n |-> StackAt(1).n]
    <2>1. Fetch("Assert") /\ UNCHANGED env
      BY <1>5 DEF Assert
    <2>2. Running /\ unit' = unit /\ unit' \in Units /\ Paced'
          /\ Takes <= sp /\ instr.op = "Assert"
      BY <2>1, FetchGives
    <2>3. 2 <= sp /\ StackAt(1) \in Vals /\ stack \in [Slots -> Vals] /\ unit \in Units
      BY <2>2, Top DEF Takes, TakenBy, IInv, StackOK
    <2>4. CASE Drop(2) /\ Advance /\ UNCHANGED outcome
      BY <2>1, <2>2, <2>3, <2>4, DropKeeps, AdvanceKeeps, Unchanged DEF IInv
    <2>5. CASE Unwind(exc, stack)
      <3>1. StackAt(1).n \in Nat
        BY <2>3, Programs DEF Vals, Values
      <3>2. exc \in Vals
        BY <3>1, ValuesOfKinds DEF Vals
      <3> QED BY <2>1, <2>2, <2>3, <2>5, <3>2, UnwindKeeps, Unchanged DEF IInv
    <2> QED BY <1>5, <2>4, <2>5 DEF Assert
  <1> QED BY <1>2, <1>3, <1>4, <1>5, <1>6 DEF Handling

-------------------------------------------------------------------------------
(* An instruction Call: the callee and its arguments are on the stack.     *)
LEMMA CallGives ==
  ASSUME IInv, Fetch("Call")
  PROVE  /\ Running /\ unit' = unit /\ unit \in Units /\ unit' \in Units
         /\ Vals' = Vals /\ Paced' /\ StackOK /\ stack \in [Slots -> Vals]
         /\ instr.a \in Nat /\ Takes = instr.a + 1 /\ Takes \in Nat \ {0} /\ Takes <= sp
         /\ calleeIdx \in Slots /\ callee \in Vals /\ calleeIdx + instr.a < sp
  <1>1. /\ Running /\ unit' = unit /\ unit' \in Units /\ Vals' = Vals /\ Paced'
        /\ instr.op = "Call" /\ instr.a \in Nat /\ Takes <= sp
    BY FetchGives
  <1>2. StackOK /\ stack \in [Slots -> Vals] /\ sp \in 0..StackSize
    BY DEF IInv, StackOK
  <1>3. Takes = instr.a + 1
    BY <1>1 DEF Takes, TakenBy
  <1>4. calleeIdx \in Slots /\ calleeIdx + instr.a < sp
    BY <1>1, <1>2, <1>3 DEF calleeIdx, Slots
  <1>5. callee \in Vals
    BY <1>2, <1>4 DEF callee
  <1> QED BY <1>1, <1>2, <1>3, <1>4, <1>5

(* A call that raises leaves the invariant to handleException.             *)
LEMMA CallRaises ==
  \A type \in Exceptions : \A s \in [Slots -> Vals] :
    IInv /\ Fetch("Call") /\ Unwind(Exc(type), s) => StackOK' /\ FramesOK' /\ OutcomeOK'
  <1> SUFFICES ASSUME NEW type \in Exceptions, NEW s \in [Slots -> Vals],
                      IInv, Fetch("Call"), Unwind(Exc(type), s)
               PROVE  StackOK' /\ FramesOK' /\ OutcomeOK'
    OBVIOUS
  <1>1. Exc(type) \in Vals
    BY ValuesOfKinds DEF Vals
  <1> QED BY <1>1, CallGives, UnwindKeeps

(* A call that returns a value at once: a builtin's.                       *)
LEMMA CallReturns ==
  \A v \in Vals :
    IInv /\ Fetch("Call") /\ Replace(Takes, v) /\ Advance /\ UNCHANGED outcome
      => StackOK' /\ FramesOK' /\ OutcomeOK'
  <1> SUFFICES ASSUME NEW v \in Vals, IInv, Fetch("Call"), Replace(Takes, v), Advance,
                      UNCHANGED outcome
               PROVE  StackOK' /\ FramesOK' /\ OutcomeOK'
    OBVIOUS
  <1> QED BY CallGives, ReplaceKeeps, AdvanceKeeps

(* The locals of a call whose arguments are bound.                         *)
LEMMA LocalsKept ==
  ASSUME IInv, Fetch("Call"), callee.k = "fun", Binds(callee.n)
  PROVE  /\ callee.n \in DOMAIN unit.fns /\ callee.n # 0
         /\ WithLocals(callee.n) \in [Slots -> Vals]
         /\ calleeIdx + unit.fns[callee.n].locals \in 0..StackSize
  <1>1. /\ unit \in Units /\ stack \in [Slots -> Vals] /\ sp \in 0..StackSize
        /\ instr.a \in Nat /\ calleeIdx \in Slots /\ callee \in Vals
        /\ calleeIdx + instr.a < sp
    BY CallGives DEF StackOK
  <1>2. callee.n \in DOMAIN unit.fns /\ callee.n # 0
    <2>1. callee.n \in DOMAIN unit.fns
      BY <1>1 DEF Vals, Values, Kinds, Exceptions
    <2> QED BY <1>1, <2>1, Programs, SMTT(60)
  <1> DEFINE params == unit.fns[callee.n].params
             locals == unit.fns[callee.n].locals
  <1>3. params \in Nat /\ locals \in Nat
    BY <1>1, <1>2, Programs
  <1>4. params <= instr.a
    BY <1>3 DEF Binds
  <1>5. calleeIdx + locals <= StackSize
    <2>1. ~Panics /\ instr.op = "Call" /\ Takes <= sp
      BY FetchGives DEF Fetch
    <2>2. ~(calleeIdx + locals > StackSize)
      BY <2>1 DEF Panics
    <2> QED BY <1>1, <1>3, <2>2 DEF Slots
  <1>6. ASSUME NEW i \in Slots
        PROVE  WithLocals(callee.n)[i] \in Vals
    <2>1. WithLocals(callee.n)[i] = IF i \in DOMAIN Locals(callee.n)
                                      THEN Locals(callee.n)[i] ELSE stack[i]
      BY DEF WithLocals, Slots
    <2>2. CASE i \in DOMAIN Locals(callee.n)
      <3>1. i \in calleeIdx..(calleeIdx + locals - 1)
        BY <2>2 DEF Locals
      <3>2. Locals(callee.n)[i] = IF i - calleeIdx < params THEN stack[i + 1] ELSE None
        BY <3>1 DEF Locals
      <3>3. i - calleeIdx < params => i + 1 \in Slots
        <4>1. i \in Int /\ calleeIdx \in Int /\ i + 1 > 0
          BY <1>1, <3>1 DEF Slots
        <4>2. i - calleeIdx < params => i + 1 < sp
          <5> HIDE DEF params
          <5> QED BY <1>1, <1>3, <1>4, <4>1
        <4> QED BY <1>1, <4>1, <4>2, VMAssumption DEF Slots
      <3>4. None \in Vals
        BY ValuesOfKinds DEF Vals
      <3> QED BY <1>1, <2>1, <2>2, <3>2, <3>3, <3>4
    <2>3. CASE i \notin DOMAIN Locals(callee.n)
      BY <1>1, <2>1, <2>3
    <2> QED BY <2>2, <2>3
  <1>7. WithLocals(callee.n) \in [Slots -> Vals]
    BY <1>6 DEF WithLocals, Slots
  <1>8. calleeIdx + locals \in 0..StackSize
    <2>1. calleeIdx \in Nat
      BY <1>1 DEF Slots
    <2> HIDE DEF locals
    <2> QED BY <1>3, <1>5, <2>1, VMAssumption
  <1> QED BY <1>2, <1>7, <1>8

(* A call fills the frame above the current one.                           *)
LEMMA CallClosureKeeps ==
  ASSUME IInv, CallClosure
  PROVE  IInv'
  <1> DEFINE new == [fn |-> callee.n, ip |-> 0, bp |-> calleeIdx]
  <1>1. /\ Fetch("Call") /\ callee.k = "fun" /\ Binds(callee.n)
        /\ frameIndex < MaxFrames
        /\ stack' = WithLocals(callee.n)
        /\ sp' = calleeIdx + unit.fns[callee.n].locals
        /\ frames' = [frames EXCEPT ![frameIndex - 1].ip = NextIP, ![frameIndex] = new]
        /\ frameIndex' = frameIndex + 1
        /\ UNCHANGED <<handlers, env, outcome>>
    BY DEF CallClosure
  <1>2. /\ Running /\ unit' = unit /\ unit' \in Units /\ Vals' = Vals /\ Paced'
        /\ calleeIdx \in Slots
    BY <1>1, CallGives
  <1>3. callee.n \in DOMAIN unit.fns /\ callee.n # 0
    BY <1>1, LocalsKept
  <1>4. StackOK'
    <2>1. stack' \in [Slots -> Vals] /\ sp' \in 0..StackSize
      BY <1>1, LocalsKept
    <2> QED BY <1>2, <2>1 DEF StackOK, Slots
  <1>5. FramesOK /\ frameIndex \in 1..MaxFrames /\ NextIP \in Nat
        /\ FrameRecord' = FrameRecord
    BY <1>2, Current DEF IInv, FrameRecord
  <1>6. new \in FrameRecord /\ new.fn # 0
    BY <1>2, <1>3 DEF FrameRecord
  <1>a. frameIndex < MaxFrames /\ frameIndex' = frameIndex + 1 /\ handlers' = handlers
    BY <1>1
  <1> HIDE DEF new
  <1>7. frames' \in [0..(MaxFrames - 1) -> FrameRecord]
    <2>1. frameIndex - 1 \in 0..(MaxFrames - 1)
      BY <1>5
    <2>2. frames[frameIndex - 1] \in FrameRecord
      BY <1>5, <2>1 DEF FramesOK
    <2>3. [frames[frameIndex - 1] EXCEPT !.ip = NextIP] \in FrameRecord
      BY <1>5, <2>2 DEF FrameRecord
    <2> QED BY <1>1, <1>5, <1>6, <2>3 DEF FramesOK
  <1>8. ASSUME NEW i \in 0..(MaxFrames - 1)
        PROVE  frames'[i].fn = IF i = frameIndex THEN new.fn ELSE frames[i].fn
    BY <1>1, <1>5 DEF FramesOK, FrameRecord
  <1>9. FramesReal'
    <2>1. ASSUME NEW i \in 0..(frameIndex' - 1)
          PROVE  frames'[i].fn # 0
      <3>1. i \in 0..(MaxFrames - 1) /\ (i = frameIndex \/ i \in 0..(frameIndex - 1))
        BY <1>5, <1>a
      <3>2. i \in 0..(frameIndex - 1) => frames[i].fn # 0
        BY <1>5 DEF FramesOK, FramesReal
      <3> QED BY <1>6, <1>8, <3>1, <3>2
    <2>2. ASSUME NEW j \in DOMAIN handlers', NEW i \in 0..(handlers'[j].frame - 1)
          PROVE  frames'[i].fn # 0
      <3>1. handlers' = handlers /\ j \in DOMAIN handlers
        BY <1>1
      <3>2. handlers[j] \in HandlerRecord
        BY <1>5, <3>1, ElementOfSeq DEF FramesOK
      <3>3. i \in 0..(MaxFrames - 1) /\ i \in 0..(handlers[j].frame - 1)
        BY <3>1, <3>2 DEF HandlerRecord
      <3>4. frames[i].fn # 0
        BY <1>5, <3>1, <3>3 DEF FramesOK, FramesReal
      <3> QED BY <1>6, <1>8, <3>3, <3>4
    <2>3. frames'[0].fn = 1
      BY <1>5, <1>8 DEF FramesOK, FramesReal
    <2> QED BY <2>1, <2>2, <2>3 DEF FramesReal
  <1>10. FramesOK'
    <2>1. frameIndex' \in 0..MaxFrames
      BY <1>5, <1>a
    <2>2. handlers' \in Seq(HandlerRecord) /\ HandlerRecord' = HandlerRecord
      BY <1>5, <1>a DEF FramesOK, HandlerRecord
    <2> QED BY <1>5, <1>7, <1>9, <2>1, <2>2 DEF FramesOK
  <1> QED BY <1>1, <1>2, <1>4, <1>5, <1>10, Unchanged DEF IInv

LEMMA CallsKeep ==
  ASSUME IInv, Calls
  PROVE  IInv'
  <1>0. None \in Vals
    BY ValuesOfKinds DEF Vals
  <1>1. CASE CallPrint
    <2>1. /\ Fetch("Call") /\ out' = out \o Arguments /\ Replace(Takes, None)
          /\ Advance /\ UNCHANGED <<globals, answers, outcome>>
      BY <1>1 DEF CallPrint
    <2>2. /\ unit' \in Units /\ Vals' = Vals /\ Paced' /\ stack \in [Slots -> Vals]
          /\ instr.a \in Nat /\ instr.a < sp /\ sp \in 0..StackSize
      BY <2>1, CallGives DEF StackOK
    <2>3. Arguments \in Seq(Vals)
      <3>1. \A i \in 1..instr.a : sp - instr.a + i - 1 \in Slots
        BY <2>2 DEF Slots
      <3>2. Arguments \in [1..instr.a -> Vals]
        BY <2>2, <3>1 DEF Arguments
      <3> QED BY <2>2, <3>2
    <2>4. EnvOK'
      BY <2>1, <2>2, <2>3 DEF IInv, EnvOK
    <2> QED BY <1>0, <2>1, <2>2, <2>4, CallReturns DEF IInv
  <1>2. CASE CallRange
    <2>1. Fetch("Call") /\ UNCHANGED env
      BY <1>2 DEF CallRange
    <2>2. /\ unit' = unit /\ unit' \in Units /\ Paced' /\ EnvOK'
          /\ stack \in [Slots -> Vals]
      BY <2>1, CallGives, Unchanged
    <2>3. ASSUME instr.a = 1, StackAt(1).k = "num",
                 Replace(Takes, [k |-> "range", n |-> StackAt(1).n]),
                 Advance, UNCHANGED outcome
          PROVE  IInv'
      <3>1. 1 \in 1..sp
        BY <2>1, CallGives DEF StackOK
      <3>2. StackAt(1) \in Vals
        BY <3>1, Top
      <3>3. [k |-> "range", n |-> StackAt(1).n] \in Vals
        BY <2>3, <3>2, ValuesOfKinds DEF Vals
      <3> QED BY <2>1, <2>2, <2>3, <3>3, CallReturns DEF IInv
    <2>4. CASE Unwind(Exc("TypeError"), stack)
      BY <2>1, <2>2, <2>4, CallRaises DEF IInv, Exceptions
    <2> QED BY <1>2, <2>3, <2>4 DEF CallRange
  <1>3. CASE CallAsk
    <2>1. Fetch("Call") /\ UNCHANGED <<globals, out>>
      BY <1>3 DEF CallAsk
    <2>2. /\ unit' = unit /\ unit' \in Units /\ Vals' = Vals /\ Paced'
          /\ stack \in [Slots -> Vals]
      BY <2>1, CallGives
    <2>3. PICK answer \in Answers :
            /\ \/ Len(answers) < MaxAnswers /\ answers' = Append(answers, answer)
               \/ Len(answers) >= MaxAnswers /\ answer = "no" /\ UNCHANGED answers
            /\ \/ /\ answer # "raise"
                  /\ Replace(Takes, Num(IF answer = "yes" THEN 1 ELSE 0))
                  /\ Advance /\ UNCHANGED outcome
               \/ /\ answer = "raise"
                  /\ Unwind(Exc("ValueError"), stack)
      BY <1>3 DEF CallAsk
    <2>4. EnvOK'
      <3>1. answers \in Seq(Answers) /\ Len(answers) <= MaxAnswers
        BY DEF IInv, EnvOK
      <3>2. answers' \in Seq(Answers) /\ Len(answers') <= MaxAnswers
        BY <2>3, <3>1
      <3> QED BY <2>1, <2>2, <3>2 DEF IInv, EnvOK
    <2>5. CASE answer # "raise"
      <3>1. Num(IF answer = "yes" THEN 1 ELSE 0) \in Vals
        BY ValuesOfKinds DEF Vals
      <3> QED BY <2>1, <2>2, <2>3, <2>4, <2>5, <3>1, CallReturns DEF IInv
    <2>6. CASE answer = "raise"
      BY <2>1, <2>2, <2>3, <2>4, <2>6, CallRaises DEF IInv, Exceptions
    <2> QED BY <2>5, <2>6
  <1>4. CASE CallTooDeep
    <2>1. /\ Fetch("Call") /\ callee.k = "fun" /\ Binds(callee.n)
          /\ Unwind(Exc("RecursionError"), WithLocals(callee.n)) /\ UNCHANGED env
      BY <1>4 DEF CallTooDeep
    <2>2. WithLocals(callee.n) \in [Slots -> Vals]
      BY <2>1, LocalsKept
    <2> QED BY <2>1, <2>2, CallGives, CallRaises, Unchanged DEF IInv, Exceptions
  <1>5. CASE CallRefused
    <2>1. Fetch("Call") /\ Unwind(Exc("TypeError"), stack) /\ UNCHANGED env
      BY <1>5 DEF CallRefused
    <2> QED BY <2>1, CallGives, CallRaises, Unchanged DEF IInv, Exceptions
  <1> QED BY <1>1, <1>2, <1>3, <1>4, <1>5, CallClosureKeeps DEF Calls

-------------------------------------------------------------------------------
LEMMA Inductive == IInv /\ [Next]_vars => IInv'
  <1> SUFFICES ASSUME IInv, [Next]_vars PROVE IInv'
    OBVIOUS
  <1>1. CASE UNCHANGED vars
    <2>1. unit' = unit /\ UNCHANGED <<operands, calls, env, outcome, ticks, ctxDone, late>>
      BY <1>1 DEF vars
    <2>2. StackOK' /\ FramesOK' /\ EnvOK'
      BY <2>1, Unchanged
    <2>3. OutcomeOK'
      BY <2>1, Unchanged DEF calls
    <2>4. Paced'
      BY <2>1 DEF IInv, Paced
    <2> QED BY <2>1, <2>2, <2>3, <2>4 DEF IInv
  <1>2. CASE Next
    BY <1>2, FromOutside, FlowKeeps, BranchesKeep, DataKeeps, NamesKeep, LoopsKeep, CallsKeep, HandlingKeeps DEF Next
  <1> QED BY <1>1, <1>2

(* Whatever well-formed program it runs, the machine keeps the type of     *)
(* every variable: sp and every index it uses stay inside the two arrays,  *)
(* and an exception never unwinds to a frame or a height out of them.      *)
THEOREM Typing == Spec => []TypeOK
  <1>1. IInv => TypeOK
    BY DEF IInv, StackOK, FramesOK, EnvOK, OutcomeOK, Paced, TypeOK, Vals, Slots,
           FrameRecord, HandlerRecord
  <1> QED BY <1>1, Initially, Inductive, PTL DEF Spec

(* The machine never executes a frame no call has filled, although returns *)
(* leave handlers behind and an exception may go back to a frame above the *)
(* one that raises it.                                                     *)
THEOREM FramesAreReal == Spec => []FramesReal
  <1>1. IInv => FramesReal
    BY DEF IInv, FramesOK
  <1> QED BY <1>1, Initially, Inductive, PTL DEF Spec

(* A cancelled context stops every program within PollEvery instructions.  *)
THEOREM CancelsPromptly == Spec => []CancelIsPrompt
  <1>1. IInv => CancelIsPrompt
    BY DEF IInv, Paced, CancelIsPrompt
  <1> QED BY <1>1, Initially, Inductive, PTL DEF Spec

-------------------------------------------------------------------------------
(***************************************************************************)
(* What the machine guarantees a program whose instructions keep the       *)
(* discipline of StackDiscipline: handlers are those of tries that are on, *)
(* what an exception goes back to is as the try has left it, no            *)
(* instruction takes an operand that is not its frame's own, and a program *)
(* that ends has nothing left on the stack.                                *)
(*                                                                         *)
(* The invariant places every handler: base[i] of them belong to the first *)
(* i frames, in the order of the tries that the table lists for where each *)
(* frame is.                                                               *)
(***************************************************************************)

(* Frames are counted from 1, as handlers count them.  A frame that has    *)
(* called another will find its result on top.                             *)
FnOf(i) == frames[i - 1].fn
HereOf(t, i) == t.at[FnOf(i)][frames[i - 1].ip]
Bottom(i) == frames[i - 1].bp + unit.fns[FnOf(i)].locals
Height(i) == IF i = frameIndex THEN sp ELSE frames[i].bp + 1

(* What the innermost of the first k tries of a frame goes back to.        *)
Floor(base, i, k) == IF k = 0 THEN Bottom(i) ELSE handlers[base[i - 1] + k].sp

Over(t, f, h, floor, height) ==
  /\ floor + h <= height
  /\ f \in t.exact => height = floor + h

(* A handler is that of the try set up at position q, inside k others.     *)
HandlerFits(t, base, i, k, q) ==
  LET hd == handlers[base[i - 1] + k + 1] IN
  /\ q \in DOMAIN t.at[FnOf(i)] /\ q < Len(unit.fns[FnOf(i)].code)
  /\ hd.frame = i
  /\ hd.target = unit.fns[FnOf(i)].code[q + 1].a
  /\ Bottom(i) <= hd.sp
  /\ Over(t, FnOf(i), t.at[FnOf(i)][q].h, Floor(base, i, k), hd.sp)

FrameFits(t, base, i) ==
  LET here == HereOf(t, i) IN
  /\ frames[i - 1].ip \in DOMAIN t.at[FnOf(i)]
  /\ base[i] = base[i - 1] + Len(here.tries)
  /\ Over(t, FnOf(i), here.h, Floor(base, i, Len(here.tries)), Height(i))
  /\ i < frameIndex => Floor(base, i, Len(here.tries)) <= frames[i].bp
  /\ \A k \in 0..(Len(here.tries) - 1) : HandlerFits(t, base, i, k, here.tries[k + 1])

HandlersFit(base) ==
  /\ base \in [0..frameIndex -> Nat]
  /\ base[0] = 0 /\ base[frameIndex] = Len(handlers)
  /\ \A i, n \in 0..frameIndex : n <= i => base[n] <= base[i]
  /\ \A j \in DOMAIN handlers :
       /\ handlers[j].frame \in 1..frameIndex
       /\ base[handlers[j].frame - 1] < j /\ j <= base[handlers[j].frame]
       /\ \A i \in 1..(j - 1) :
            /\ handlers[i].frame <= handlers[j].frame
            /\ handlers[i].sp <= handlers[j].sp
       /\ \A i \in handlers[j].frame..(frameIndex - 1) : handlers[j].sp <= frames[i].bp

Fits(t, base) ==
  /\ frames[0].bp = 0
  /\ HandlersFit(base)
  /\ \A i \in 1..frameIndex : FrameFits(t, base, i)

Kept(t) == Running => \E base : Fits(t, base)

Given(t, base) ==
  IInv /\ Running /\ Disciplined(unit, t) /\ Fits(t, base)

USE VMAssumption

-------------------------------------------------------------------------------
(* The types of what the invariant speaks of.                              *)
LEMMA Frames ==
  ASSUME NEW t, NEW base, Given(t, base)
  PROVE  /\ frameIndex \in 1..MaxFrames
         /\ DOMAIN frames = 0..(MaxFrames - 1)
         /\ sp \in Nat
         /\ handlers \in Seq(HandlerRecord) /\ Len(handlers) \in Nat
         /\ DOMAIN handlers = 1..Len(handlers)
         /\ \A j \in DOMAIN handlers :
              /\ handlers[j].sp \in Nat /\ handlers[j].frame \in Nat \ {0}
              /\ handlers[j].target \in Nat
         /\ \A i \in 0..(MaxFrames - 1) : frames[i].bp \in Nat /\ frames[i].ip \in Nat
         /\ \A i \in 1..frameIndex :
              /\ i - 1 \in 0..(MaxFrames - 1)
              /\ FnOf(i) \in DOMAIN unit.fns
              /\ unit.fns[FnOf(i)].locals \in Nat
              /\ Bottom(i) \in Nat
              /\ Height(i) \in Nat
              /\ frames[i - 1].ip \in DOMAIN t.at[FnOf(i)]
  <1>1. frameIndex \in 1..MaxFrames
    BY Current DEF Given
  <1>2. frames \in [0..(MaxFrames - 1) -> FrameRecord] /\ handlers \in Seq(HandlerRecord)
        /\ sp \in Nat
    BY DEF Given, IInv, FramesOK, StackOK
  <1>3. \A i \in 0..(MaxFrames - 1) : frames[i].bp \in Nat /\ frames[i].ip \in Nat
    BY <1>2 DEF FrameRecord, Slots
  <1>4. \A j \in DOMAIN handlers :
          /\ handlers[j].sp \in Nat /\ handlers[j].frame \in Nat \ {0}
          /\ handlers[j].target \in Nat
    <2>1. \A j \in DOMAIN handlers : handlers[j] \in HandlerRecord
      BY <1>2, ElementOfSeq
    <2> QED BY <2>1 DEF HandlerRecord
  <1>5. ASSUME NEW i \in 1..frameIndex
        PROVE  /\ i - 1 \in 0..(MaxFrames - 1)
               /\ FnOf(i) \in DOMAIN unit.fns
               /\ unit.fns[FnOf(i)].locals \in Nat
               /\ Bottom(i) \in Nat
               /\ Height(i) \in Nat
               /\ frames[i - 1].ip \in DOMAIN t.at[FnOf(i)]
    <2>1. i - 1 \in 0..(MaxFrames - 1) /\ i - 1 \in 0..(frameIndex - 1)
      BY <1>1
    <2>2. FnOf(i) \in DOMAIN unit.fns
      <3>1. frames[i - 1].fn # 0 /\ frames[i - 1] \in FrameRecord
        BY <1>2, <2>1 DEF Given, IInv, FramesOK, FramesReal
      <3> QED BY <3>1 DEF FrameRecord, FnOf
    <2>3. unit.fns[FnOf(i)].locals \in Nat
      BY <2>2, Programs DEF Given, IInv
    <2>4. Height(i) \in Nat
      <3>1. i # frameIndex => i \in 0..(MaxFrames - 1)
        BY <1>1
      <3> QED BY <1>2, <1>3, <3>1 DEF Height
    <2>5. frames[i - 1].ip \in DOMAIN t.at[FnOf(i)]
      BY DEF Given, Fits, FrameFits
    <2> QED BY <1>3, <2>1, <2>2, <2>3, <2>4, <2>5 DEF Bottom
  <1> QED BY <1>1, <1>2, <1>3, <1>4, <1>5

(* What the discipline says of a position in the table.                    *)
LEMMA Tables ==
  ASSUME NEW t, NEW u, Disciplined(u, t), NEW f \in DOMAIN u.fns, NEW p \in DOMAIN t.at[f]
  PROVE  /\ p \in 0..Len(u.fns[f].code)
         /\ t.at[f][p].h \in Nat /\ t.at[f][p].tries \in Seq(Nat)
         /\ Len(t.at[f][p].tries) \in Nat
         /\ DOMAIN t.at[f][p].tries = 1..Len(t.at[f][p].tries)
         /\ TriesNest(u.fns[f].code, t.at[f], p)
         /\ Behaves(u.fns[f].code, t, f, p)
  BY DEF Disciplined

TriesAt(t, i, q) == t.at[FnOf(i)][q].tries

(* A frame fits at its next position if the first of its tries, and their  *)
(* handlers, are the ones that are left.                                   *)
LEMMA FrameMoves ==
  ASSUME NEW t, NEW base, NEW base1, NEW i \in Nat \ {0}, NEW q, NEW n \in Nat,
         Given(t, base), unit' = unit, i \in 1..frameIndex, base[i - 1] \in Nat,
         frames'[i - 1].fn = FnOf(i), frames'[i - 1].bp = frames[i - 1].bp,
         frames'[i - 1].ip = q, q \in DOMAIN t.at[FnOf(i)],
         n = Len(TriesAt(t, i, q)), n <= Len(HereOf(t, i).tries),
         \A k \in 0..(n - 1) : TriesAt(t, i, q)[k + 1] = HereOf(t, i).tries[k + 1],
         base1[i - 1] = base[i - 1], base1[i] = base[i - 1] + n,
         \A k \in 1..n : handlers'[base[i - 1] + k] = handlers[base[i - 1] + k],
         Over(t, FnOf(i), t.at[FnOf(i)][q].h, Floor(base, i, n), Height(i)'),
         i < frameIndex' => Floor(base, i, n) <= frames'[i].bp
  PROVE  FrameFits(t, base1, i)'
  <1>1. FnOf(i)' = FnOf(i) /\ Bottom(i)' = Bottom(i) /\ HereOf(t, i)' = t.at[FnOf(i)][q]
    BY DEF FnOf, Bottom, HereOf, Given
  <1>2. \A k \in 0..n : Floor(base1, i, k)' = Floor(base, i, k)
    BY <1>1 DEF Floor
  <1>0. Len(HereOf(t, i).tries) \in Nat
    BY Frames, Tables DEF HereOf, Given
  <1>3. ASSUME NEW k \in 0..(n - 1), NEW p, p = TriesAt(t, i, q)[k + 1]
        PROVE  HandlerFits(t, base1, i, k, p)'
    <2>1. HandlerFits(t, base, i, k, p)
      <3>1. k \in 0..(Len(HereOf(t, i).tries) - 1)
        BY <1>0
      <3> QED BY <1>3, <3>1 DEF Given, Fits, FrameFits
    <2>2. handlers'[base1[i - 1] + k + 1] = handlers[base[i - 1] + k + 1]
      <3>1. k + 1 \in 1..n /\ base[i - 1] + (k + 1) = base[i - 1] + k + 1
        OBVIOUS
      <3> QED BY <3>1
    <2>3. Floor(base1, i, k)' = Floor(base, i, k)
      BY <1>2
    <2> QED BY <1>1, <2>1, <2>2, <2>3 DEF HandlerFits, Given
  <1>4. Floor(base1, i, n)' = Floor(base, i, n)
    BY <1>2
  <1>5. Over(t, FnOf(i)', t.at[FnOf(i)][q].h, Floor(base1, i, n)', Height(i)')
    BY <1>1, <1>4
  <1>6. HereOf(t, i)'.tries = TriesAt(t, i, q) /\ TriesAt(t, i, q)' = TriesAt(t, i, q)
    BY <1>1 DEF TriesAt
  <1>7. \A k \in 0..(n - 1) : HandlerFits(t, base1, i, k, HereOf(t, i).tries[k + 1])'
    BY <1>3, <1>6 DEF HandlerFits
  <1> QED BY <1>1, <1>4, <1>5, <1>6, <1>7 DEF FrameFits

(* A frame that stays where it is.                                         *)
LEMMA FrameStays ==
  ASSUME NEW t, NEW base, NEW base1, NEW i \in Nat \ {0},
         Given(t, base), unit' = unit, i \in 1..frameIndex, base[i - 1] \in Nat,
         frames'[i - 1].fn = FnOf(i), frames'[i - 1].bp = frames[i - 1].bp,
         frames'[i - 1].ip = frames[i - 1].ip,
         base1[i - 1] = base[i - 1], base1[i] = base[i],
         \A j \in (base[i - 1] + 1)..base[i] : handlers'[j] = handlers[j],
         Height(i)' = Height(i),
         i < frameIndex' => i < frameIndex /\ frames'[i].bp = frames[i].bp
  PROVE  FrameFits(t, base1, i)'
  <1>0. PICK q, n : q = frames[i - 1].ip /\ n = Len(HereOf(t, i).tries)
    OBVIOUS
  <1>1. /\ q \in DOMAIN t.at[FnOf(i)] /\ base[i] = base[i - 1] + n
        /\ Over(t, FnOf(i), t.at[FnOf(i)][q].h, Floor(base, i, n), Height(i)')
        /\ i < frameIndex => Floor(base, i, n) <= frames[i].bp
    BY <1>0 DEF Given, Fits, FrameFits, HereOf
  <1>2. n \in Nat /\ TriesAt(t, i, q) = HereOf(t, i).tries
    BY <1>0, <1>1, Frames, Tables DEF TriesAt, HereOf, Given
  <1>3. \A k \in 1..n : handlers'[base[i - 1] + k] = handlers[base[i - 1] + k]
    <2>1. \A k \in 1..n : base[i - 1] + k \in (base[i - 1] + 1)..base[i]
      BY <1>1, <1>2
    <2> QED BY <2>1
  <1>4. /\ frames'[i - 1].ip = q /\ base1[i] = base[i - 1] + n
        /\ i < frameIndex' => Floor(base, i, n) <= frames'[i].bp
    BY <1>0, <1>1
  <1>5. n = Len(TriesAt(t, i, q)) /\ n <= Len(HereOf(t, i).tries)
        /\ \A k \in 0..(n - 1) : TriesAt(t, i, q)[k + 1] = HereOf(t, i).tries[k + 1]
    BY <1>0, <1>2
  <1> QED BY <1>1, <1>2, <1>3, <1>4, <1>5, FrameMoves

(* The first g frames, the last of them with n handlers in all.            *)
Cut(base, g, n) == [i \in 0..g |-> IF i = g THEN n ELSE base[i]]

(* Frames and handlers are only given up from the end.                     *)
LEMMA CutFits ==
  ASSUME NEW t, NEW base, NEW g, NEW n, Given(t, base), unit' = unit,
         g \in 1..frameIndex, n \in 0..Len(handlers), base[g - 1] <= n, n <= base[g],
         \A j \in 1..n : handlers[j].frame <= g,
         frameIndex' = g, handlers' \in Seq(HandlerRecord), Len(handlers') = n,
         \A j \in 1..n : handlers'[j] = handlers[j],
         \A i \in 0..(g - 1) : frames'[i].bp = frames[i].bp /\ frames'[i].fn = frames[i].fn,
         \A i \in 0..(g - 2) : frames'[i].ip = frames[i].ip,
         FrameFits(t, Cut(base, g, n), g)'
  PROVE  Fits(t, Cut(base, g, n))'
  <1> DEFINE base1 == Cut(base, g, n)
  <1>1. frameIndex \in 1..MaxFrames /\ DOMAIN handlers = 1..Len(handlers) /\ Len(handlers) \in Nat
    BY Frames
  <1>2. HandlersFit(base)
    BY DEF Given, Fits
  <1>a. base \in [0..frameIndex -> Nat] /\ base[0] = 0
        /\ \A i, m \in 0..frameIndex : m <= i => base[m] <= base[i]
    BY <1>2 DEF HandlersFit
  <1>3. base1 \in [0..g -> Nat] /\ base1[g] = n /\ \A i \in 0..(g - 1) : base1[i] = base[i]
    BY <1>1, <1>a DEF Cut
  <1>b. \A i \in 0..(g - 1) : base1[i] <= n /\ base[i] <= n
    BY <1>1, <1>3, <1>a
  <1> HIDE DEF base1
  <1>4. HandlersFit(base1)'
    <2>1. base1[0] = 0 /\ base1[frameIndex'] = Len(handlers')
      BY <1>1, <1>3, <1>a
    <2>2. \A i, m \in 0..g : m <= i => base1[m] <= base1[i]
      <3> TAKE i, m \in 0..g
      <3>1. CASE i = g
        BY <1>1, <1>3, <1>b, <3>1
      <3>2. CASE i # g
        <4>1. m <= i => i \in 0..(g - 1) /\ m \in 0..(g - 1) /\ i \in 0..frameIndex /\ m \in 0..frameIndex
          BY <1>1, <3>2
        <4> QED BY <1>3, <1>a, <4>1
      <3> QED BY <3>1, <3>2
    <2>3. ASSUME NEW j \in 1..n
          PROVE  /\ handlers'[j].frame \in 1..g
                 /\ base1[handlers'[j].frame - 1] < j /\ j <= base1[handlers'[j].frame]
                 /\ \A i \in 1..(j - 1) :
                      /\ handlers'[i].frame <= handlers'[j].frame
                      /\ handlers'[i].sp <= handlers'[j].sp
                 /\ \A i \in handlers'[j].frame..(g - 1) : handlers'[j].sp <= frames'[i].bp
      <3>1. j \in DOMAIN handlers /\ handlers'[j] = handlers[j] /\ handlers[j].frame <= g
        BY <1>1
      <3>2. /\ handlers[j].frame \in 1..frameIndex
            /\ base[handlers[j].frame - 1] < j /\ j <= base[handlers[j].frame]
            /\ \A i \in 1..(j - 1) :
                 /\ handlers[i].frame <= handlers[j].frame
                 /\ handlers[i].sp <= handlers[j].sp
            /\ \A i \in handlers[j].frame..(frameIndex - 1) : handlers[j].sp <= frames[i].bp
        BY <1>2, <3>1 DEF HandlersFit
      <3>3. \A i \in 1..(j - 1) : handlers'[i] = handlers[i]
        BY <1>1
      <3>4. handlers[j].frame \in 1..g /\ handlers[j].frame - 1 \in 0..(g - 1)
        BY <1>1, <3>1, <3>2
      <3>5. base1[handlers[j].frame - 1] < j
        BY <1>3, <3>2, <3>4
      <3>6. j <= base1[handlers[j].frame]
        <4>1. CASE handlers[j].frame = g
          BY <1>3, <4>1
        <4>2. CASE handlers[j].frame # g
          <5>1. handlers[j].frame \in 0..(g - 1)
            BY <1>1, <3>4, <4>2
          <5> QED BY <1>3, <3>2, <5>1
        <4> QED BY <4>1, <4>2
      <3>7. \A i \in handlers[j].frame..(g - 1) : handlers[j].sp <= frames'[i].bp
        <4>1. \A i \in handlers[j].frame..(g - 1) :
                i \in handlers[j].frame..(frameIndex - 1) /\ i \in 0..(g - 1)
          BY <1>1, <3>4
        <4> QED BY <3>2, <4>1
      <3> QED BY <3>1, <3>2, <3>3, <3>4, <3>5, <3>6, <3>7
    <2>4. DOMAIN handlers' = 1..n
      OBVIOUS
    <2> QED BY <1>3, <2>1, <2>2, <2>3, <2>4 DEF HandlersFit
  <1>5. ASSUME NEW i \in 1..(g - 1)
        PROVE  FrameFits(t, base1, i)'
    <2>1. /\ i \in Nat \ {0} /\ i \in 1..frameIndex /\ i < frameIndex /\ i < frameIndex'
          /\ i - 1 \in 0..(g - 2) /\ i - 1 \in 0..(g - 1) /\ i \in 0..(g - 1)
          /\ i - 1 \in 0..frameIndex /\ i \in 0..frameIndex
      BY <1>1
    <2>2. /\ frames'[i - 1].fn = FnOf(i) /\ frames'[i - 1].bp = frames[i - 1].bp
          /\ frames'[i - 1].ip = frames[i - 1].ip /\ frames'[i].bp = frames[i].bp
      BY <2>1 DEF FnOf
    <2>3. base1[i - 1] = base[i - 1] /\ base1[i] = base[i] /\ base[i - 1] \in Nat
          /\ base[i] \in Nat /\ base[i] <= n
      BY <1>3, <1>a, <1>b, <2>1
    <2>4. \A j \in (base[i - 1] + 1)..base[i] : handlers'[j] = handlers[j]
      BY <2>3
    <2>5. Height(i)' = Height(i)
      BY <2>1, <2>2 DEF Height
    <2> QED BY <2>1, <2>2, <2>3, <2>4, <2>5, FrameStays
  <1>6. frames'[0].bp = 0
    BY <1>1 DEF Given, Fits
  <1>7. ASSUME NEW i \in 1..frameIndex'
        PROVE  FrameFits(t, base1, i)'
    <2>1. i = g \/ i \in 1..(g - 1)
      BY <1>1
    <2>2. FrameFits(t, base1, g)'
      BY DEF base1
    <2> QED BY <1>5, <2>1, <2>2
  <1>8. Fits(t, base1)'
    BY <1>4, <1>6, <1>7 DEF Fits
  <1> QED BY <1>8 DEF base1

-------------------------------------------------------------------------------
(* Where the current frame is, and what is below it.                       *)
Here(t) == t.at[currentFrame.fn][currentFrame.ip]
Ground(t, base) == Floor(base, frameIndex, Len(Here(t).tries))
LeadsHere(t) == LeadsTo(Code, t.at[currentFrame.fn], currentFrame.ip)

LEMMA Standing ==
  ASSUME NEW t, NEW base, Given(t, base)
  PROVE  /\ FnOf(frameIndex) = currentFrame.fn /\ HereOf(t, frameIndex) = Here(t)
         /\ currentFrame.fn \in DOMAIN unit.fns
         /\ currentFrame.ip \in DOMAIN t.at[currentFrame.fn]
         /\ Here(t).h \in Nat /\ Here(t).tries \in Seq(Nat) /\ Len(Here(t).tries) \in Nat
         /\ base[frameIndex - 1] \in Nat /\ base[frameIndex] = Len(handlers)
         /\ Len(handlers) = base[frameIndex - 1] + Len(Here(t).tries)
         /\ Ground(t, base) \in Nat
         /\ Over(t, currentFrame.fn, Here(t).h, Ground(t, base), sp)
         /\ \A j \in DOMAIN handlers : handlers[j].sp <= Ground(t, base)
         /\ Bottom(frameIndex) <= Ground(t, base)
         /\ AtEnd => Here(t).tries = <<>> /\ currentFrame.ip = Len(Code)
         /\ ~AtEnd =>
              /\ currentFrame.ip < Len(Code)
              /\ Takes <= Here(t).h
              /\ instr.op \in {"ReturnValue", "ReturnNone"} => Here(t).tries = <<>>
              /\ instr.op = "PopExcept" => Here(t).tries # <<>>
              /\ \A e \in LeadsHere(t) : Enters(t, currentFrame.fn, e)
  <1> DEFINE fi == frameIndex
             n == Len(Here(t).tries)
  <1>1. fi \in 1..MaxFrames /\ DOMAIN handlers = 1..Len(handlers) /\ Len(handlers) \in Nat
    BY Frames
  <1>2. FnOf(fi) = currentFrame.fn /\ HereOf(t, fi) = Here(t) /\ frames[fi - 1] = currentFrame
    BY DEF FnOf, HereOf, Here, currentFrame
  <1>3. currentFrame.fn \in DOMAIN unit.fns /\ currentFrame.ip \in DOMAIN t.at[currentFrame.fn]
    BY <1>1, <1>2, Frames
  <1>4. Here(t).h \in Nat /\ Here(t).tries \in Seq(Nat) /\ n \in Nat
        /\ currentFrame.ip \in 0..Len(Code)
        /\ Behaves(Code, t, currentFrame.fn, currentFrame.ip)
    BY <1>3, Tables DEF Here, Given, Code
  <1>5. base \in [0..fi -> Nat] /\ base[fi] = Len(handlers)
    BY DEF Given, Fits, HandlersFit
  <1>6. base[fi - 1] \in Nat
    BY <1>1, <1>5
  <1>7. FrameFits(t, base, fi)
    BY <1>1 DEF Given, Fits
  <1>8. Len(handlers) = base[fi - 1] + n /\ Over(t, currentFrame.fn, Here(t).h, Ground(t, base), sp)
    BY <1>2, <1>5, <1>7 DEF FrameFits, Ground, Height
  <1>9. /\ Ground(t, base) \in Nat /\ Bottom(fi) <= Ground(t, base)
        /\ \A j \in DOMAIN handlers : handlers[j].sp <= Ground(t, base)
    <2>1. Bottom(fi) \in Nat
      BY <1>1, Frames
    <2>2. CASE n = 0
      <3>1. Ground(t, base) = Bottom(fi)
        BY <2>2 DEF Ground, Floor
      <3>2. ASSUME NEW j \in DOMAIN handlers
            PROVE  handlers[j].sp <= Bottom(fi)
        <4>1. /\ handlers[j].frame \in 1..fi /\ base[handlers[j].frame - 1] < j
              /\ \A i \in handlers[j].frame..(fi - 1) : handlers[j].sp <= frames[i].bp
          BY DEF Given, Fits, HandlersFit
        <4>2. handlers[j].frame # fi
          BY <1>1, <1>6, <1>8, <2>2, <4>1
        <4>3. fi - 1 \in handlers[j].frame..(fi - 1)
          BY <1>1, <4>1, <4>2
        <4>4. handlers[j].sp <= frames[fi - 1].bp
          BY <4>1, <4>3
        <4>5. handlers[j].sp \in Nat /\ frames[fi - 1].bp \in Nat /\ unit.fns[FnOf(fi)].locals \in Nat
          BY <1>1, Frames
        <4> QED BY <4>4, <4>5 DEF Bottom
      <3> QED BY <2>1, <3>1, <3>2
    <2>3. CASE n # 0
      <3>1. Ground(t, base) = handlers[Len(handlers)].sp /\ Len(handlers) \in DOMAIN handlers
        BY <1>1, <1>4, <1>6, <1>8, <2>3 DEF Ground, Floor
      <3>2. handlers[Len(handlers)].sp \in Nat
        BY <3>1, Frames
      <3>3. Bottom(fi) <= handlers[Len(handlers)].sp
        <4>1. n - 1 \in 0..(n - 1)
          BY <1>4, <2>3
        <4>2. HandlerFits(t, base, fi, n - 1, HereOf(t, fi).tries[(n - 1) + 1])
          BY <1>2, <1>7, <4>1 DEF FrameFits
        <4>3. base[fi - 1] + (n - 1) + 1 = Len(handlers)
          BY <1>4, <1>6, <1>8
        <4> QED BY <4>2, <4>3 DEF HandlerFits
      <3>4. \A j \in DOMAIN handlers : handlers[j].sp <= handlers[Len(handlers)].sp
        <4> TAKE j \in DOMAIN handlers
        <4>1. j = Len(handlers) \/ j \in 1..(Len(handlers) - 1)
          BY <1>1
        <4>2. \A i \in 1..(Len(handlers) - 1) : handlers[i].sp <= handlers[Len(handlers)].sp
          BY <3>1 DEF Given, Fits, HandlersFit
        <4> QED BY <3>2, <4>1, <4>2
      <3> QED BY <3>1, <3>2, <3>3, <3>4
    <2> QED BY <2>2, <2>3
  <1>10. AtEnd => Here(t).tries = <<>> /\ currentFrame.ip = Len(Code)
    <2>1. Len(Code) \in Nat
      BY <1>3, Programs, SMTT(60) DEF Code, Given, IInv
    <2> QED BY <1>4, <2>1 DEF AtEnd, Behaves, Here
  <1>11. ASSUME ~AtEnd
         PROVE  /\ currentFrame.ip < Len(Code)
                /\ Takes <= Here(t).h
                /\ instr.op \in {"ReturnValue", "ReturnNone"} => Here(t).tries = <<>>
                /\ instr.op = "PopExcept" => Here(t).tries # <<>>
                /\ \A e \in LeadsHere(t) : Enters(t, currentFrame.fn, e)
    <2>1. Len(Code) \in Nat
      BY <1>3, Programs, SMTT(60) DEF Code, Given, IInv
    <2>2. currentFrame.ip # Len(Code) /\ currentFrame.ip < Len(Code)
      BY <1>4, <1>11, <2>1 DEF AtEnd
    <2> QED BY <1>4, <2>2 DEF Behaves, Here, LeadsHere, instr, Takes
  <1> QED BY <1>2, <1>3, <1>4, <1>5, <1>6, <1>8, <1>9, <1>10, <1>11

(* What an assignment to the ip of the current frame leaves alone.         *)
LEMMA OnlyIP ==
  ASSUME NEW t, NEW base, NEW q \in Nat, Given(t, base), Goto(q)
  PROVE  /\ \A i \in 0..(MaxFrames - 1) :
              frames'[i].bp = frames[i].bp /\ frames'[i].fn = frames[i].fn
         /\ \A i \in 0..(frameIndex - 2) : frames'[i].ip = frames[i].ip
         /\ frames'[frameIndex - 1].ip = q
  <1>1. frames' = [frames EXCEPT ![frameIndex - 1].ip = q]
    BY DEF Goto
  <1>2. frames \in [0..(MaxFrames - 1) -> FrameRecord] /\ frameIndex \in 1..MaxFrames
    BY Frames DEF Given, IInv, FramesOK
  <1>3. \A i \in 0..(MaxFrames - 1) : frames[i] \in FrameRecord
    BY <1>2
  <1>4. \A i \in 0..(MaxFrames - 1) :
          frames'[i] = IF i = frameIndex - 1 THEN [frames[i] EXCEPT !.ip = q] ELSE frames[i]
    BY <1>1, <1>2
  <1>5. \A i \in 0..(frameIndex - 2) : i \in 0..(MaxFrames - 1) /\ i # frameIndex - 1
    BY <1>2
  <1>6. frameIndex - 1 \in 0..(MaxFrames - 1)
    BY <1>2
  <1> QED BY <1>3, <1>4, <1>5, <1>6 DEF FrameRecord

(* Going on in the same frame, with the same handlers.                     *)
LEMMA StraightOn ==
  ASSUME NEW t, NEW base, NEW q \in Nat, NEW change \in Int,
         Given(t, base), unit' = unit, ~AtEnd, Straight(Here(t), q, change) \in LeadsHere(t),
         Goto(q), UNCHANGED <<frameIndex, handlers>>, sp' = sp + change
  PROVE  \E b : Fits(t, b)'
  <1>1. PICK g : g = frameIndex
    OBVIOUS
  <1>2. PICK n : n = Len(handlers)
    OBVIOUS
  <1>3. /\ g \in 1..frameIndex /\ g \in 1..MaxFrames /\ n \in 0..Len(handlers)
        /\ handlers' \in Seq(HandlerRecord) /\ sp \in Nat
        /\ DOMAIN handlers = 1..n
    BY <1>1, <1>2, Frames
  <1>4. Enters(t, currentFrame.fn, Straight(Here(t), q, change))
    BY Standing
  <1>5. /\ q \in DOMAIN t.at[currentFrame.fn]
        /\ t.at[currentFrame.fn][q].tries = Here(t).tries
        /\ Over(t, currentFrame.fn, t.at[currentFrame.fn][q].h, Ground(t, base), sp')
    <2>1. /\ q \in DOMAIN t.at[currentFrame.fn]
          /\ t.at[currentFrame.fn][q].tries = Here(t).tries
          /\ t.at[currentFrame.fn][q].h <= Here(t).h + change
          /\ currentFrame.fn \in t.exact => t.at[currentFrame.fn][q].h = Here(t).h + change
      BY <1>4 DEF Enters, Straight, Entry
    <2>2. t.at[currentFrame.fn][q].h \in Nat /\ Here(t).h \in Nat /\ Ground(t, base) \in Nat
      BY <2>1, Standing, Tables DEF Given
    <2>3. Over(t, currentFrame.fn, Here(t).h, Ground(t, base), sp)
      BY Standing
    <2>4. \A h, h1, ground \in Nat : \A f :
            Over(t, f, h, ground, sp) /\ h1 <= h + change /\ (f \in t.exact => h1 = h + change)
              => Over(t, f, h1, ground, sp')
      BY <1>3 DEF Over
    <2> QED BY <2>1, <2>2, <2>3, <2>4
  <1>6. FrameFits(t, Cut(base, g, n), g)'
    <2> DEFINE m == Len(Here(t).tries)
    <2>1. /\ base[g - 1] \in Nat /\ n = base[g - 1] + m /\ m \in Nat
          /\ FnOf(g) = currentFrame.fn /\ HereOf(t, g) = Here(t)
      BY <1>1, <1>2, Standing
    <2>2. Cut(base, g, n)[g - 1] = base[g - 1] /\ Cut(base, g, n)[g] = base[g - 1] + m
      BY <1>3, <2>1 DEF Cut
    <2>3. /\ frames'[g - 1].fn = FnOf(g) /\ frames'[g - 1].bp = frames[g - 1].bp
          /\ frames'[g - 1].ip = q
      BY <1>1, <1>3, OnlyIP DEF FnOf
    <2>4. TriesAt(t, g, q) = Here(t).tries
      BY <1>5, <2>1 DEF TriesAt
    <2>5. Over(t, FnOf(g), t.at[FnOf(g)][q].h, Floor(base, g, m), Height(g)')
      BY <1>1, <1>5, <2>1 DEF Ground, Height
    <2> HIDE DEF m
    <2>6. m = Len(TriesAt(t, g, q)) /\ m <= Len(HereOf(t, g).tries)
      BY <2>1, <2>4 DEF m
    <2>7. /\ g \in Nat \ {0} /\ q \in DOMAIN t.at[FnOf(g)] /\ ~(g < frameIndex')
          /\ \A k \in 0..(m - 1) : TriesAt(t, g, q)[k + 1] = HereOf(t, g).tries[k + 1]
          /\ \A k \in 1..m : handlers'[base[g - 1] + k] = handlers[base[g - 1] + k]
      BY <1>1, <1>3, <1>5, <2>1, <2>4
    <2> QED BY <1>3, <2>1, <2>2, <2>3, <2>5, <2>6, <2>7, FrameMoves
  <1>7. \A j \in 1..n : handlers[j].frame <= g
    BY <1>1, <1>3, SMTT(60) DEF Given, Fits, HandlersFit
  <1>8. base[g - 1] <= n /\ n <= base[g]
    BY <1>1, <1>2, <1>3, Standing
  <1>9. /\ \A i \in 0..(g - 1) : frames'[i].bp = frames[i].bp /\ frames'[i].fn = frames[i].fn
        /\ \A i \in 0..(g - 2) : frames'[i].ip = frames[i].ip
    BY <1>1, <1>3, OnlyIP
  <1>10. Fits(t, Cut(base, g, n))'
    BY <1>1, <1>2, <1>3, <1>6, <1>7, <1>8, <1>9, CutFits
  <1> QED BY <1>10

-------------------------------------------------------------------------------
LEMMA OneMore ==
  ASSUME NEW s \in Seq(Nat), NEW r \in Seq(Nat), NEW x, s = Append(r, x)
  PROVE  /\ Len(s) \in Nat \ {0} /\ Len(r) = Len(s) - 1
         /\ \A k \in 0..(Len(s) - 2) : r[k + 1] = s[k + 1]
         /\ s[Len(s)] = x /\ x \in Nat
  <1>1. Len(r) \in Nat /\ Len(s) = Len(r) + 1
    OBVIOUS
  <1>2. s[Len(s)] = x
    BY <1>1
  <1>3. Len(s) \in 1..Len(s)
    BY <1>1
  <1>4. x \in Nat
    BY <1>2, <1>3, ElementOfSeq
  <1>5. \A k \in 0..(Len(s) - 2) : r[k + 1] = s[k + 1]
    <2> TAKE k \in 0..(Len(s) - 2)
    <2>1. k + 1 \in 1..Len(r)
      BY <1>1
    <2> QED BY <2>1
  <1> QED BY <1>1, <1>2, <1>4, <1>5

(* Under the table at of the code, p's innermost try was opened at q: the  *)
(* tries open at q are the others.                                         *)
OpenedBy(code, at, p, q) ==
  /\ q \in DOMAIN at /\ q \in Nat /\ q < Len(code)
  /\ code[q + 1].op = "SetupExcept"
  /\ at[q].h \in Nat
  /\ at[p].tries[Len(at[p].tries)] = q
  /\ Len(at[p].tries) \in Nat \ {0}
  /\ Len(at[q].tries) = Len(at[p].tries) - 1
  /\ \A k \in 0..(Len(at[p].tries) - 2) : at[q].tries[k + 1] = at[p].tries[k + 1]

(* The innermost try of a position that is in some.                        *)
LEMMA InnermostTry ==
  ASSUME NEW t, NEW u, Disciplined(u, t), NEW f \in DOMAIN u.fns, NEW p \in DOMAIN t.at[f],
         t.at[f][p].tries # <<>>, NEW q, q = Innermost(t.at[f][p].tries)
  PROVE  OpenedBy(u.fns[f].code, t.at[f], p, q)
  <1> DEFINE at == t.at[f]
  <1>1. at[p].tries \in Seq(Nat) /\ TriesNest(u.fns[f].code, at, p)
    BY Tables
  <1>2. /\ q \in DOMAIN at /\ q < Len(u.fns[f].code)
        /\ u.fns[f].code[q + 1].op = "SetupExcept"
        /\ at[p].tries = Append(at[q].tries, q)
    BY <1>1 DEF TriesNest
  <1>3. at[q].h \in Nat /\ at[q].tries \in Seq(Nat)
    BY <1>2, Tables
  <1>4. PICK s, r : s = at[p].tries /\ r = at[q].tries
    OBVIOUS
  <1>5. s \in Seq(Nat) /\ r \in Seq(Nat) /\ s = Append(r, q)
    BY <1>1, <1>2, <1>3, <1>4
  <1>6. /\ Len(s) \in Nat \ {0} /\ Len(r) = Len(s) - 1
        /\ \A k \in 0..(Len(s) - 2) : r[k + 1] = s[k + 1]
        /\ s[Len(s)] = q /\ q \in Nat
    BY <1>5, OneMore
  <1> HIDE DEF at
  <1>7. /\ at[p].tries[Len(at[p].tries)] = q
        /\ Len(at[p].tries) \in Nat \ {0}
        /\ Len(at[q].tries) = Len(at[p].tries) - 1
        /\ \A k \in 0..(Len(at[p].tries) - 2) : at[q].tries[k + 1] = at[p].tries[k + 1]
    BY <1>4, <1>6
  <1> QED BY <1>2, <1>3, <1>6, <1>7 DEF at, OpenedBy

(* Frame g has the newest handler, of the last of its m tries, at q.       *)
Newest(t, base, g, m, q) ==
  /\ g \in 1..frameIndex /\ base[g] = Len(handlers)
  /\ m = Len(HereOf(t, g).tries) /\ HereOf(t, g).tries # <<>>
  /\ q = Innermost(HereOf(t, g).tries)

LEMMA NewestTry ==
  ASSUME NEW t, NEW base, NEW g, NEW m, NEW q, Given(t, base), Newest(t, base, g, m, q)
  PROVE  /\ g \in 1..MaxFrames /\ g \in 1..frameIndex /\ m \in Nat \ {0}
         /\ base[g - 1] \in Nat /\ Len(handlers) = base[g - 1] + m
         /\ FnOf(g) \in DOMAIN unit.fns /\ q \in DOMAIN t.at[FnOf(g)]
         /\ q \in Nat /\ q < Len(unit.fns[FnOf(g)].code)
         /\ unit.fns[FnOf(g)].code[q + 1].op = "SetupExcept"
         /\ Len(HereOf(t, g).tries) = m
         /\ Len(TriesAt(t, g, q)) = m - 1
         /\ \A k \in 0..(m - 2) : TriesAt(t, g, q)[k + 1] = HereOf(t, g).tries[k + 1]
         /\ handlers[Len(handlers)].target = unit.fns[FnOf(g)].code[q + 1].a
         /\ t.at[FnOf(g)][q].h \in Nat
         /\ Over(t, FnOf(g), t.at[FnOf(g)][q].h, Floor(base, g, m - 1), handlers[Len(handlers)].sp)
         /\ Floor(base, g, m) = handlers[Len(handlers)].sp
         /\ Floor(base, g, m - 1) \in Nat /\ handlers[Len(handlers)].sp \in Nat
  <1>1. PICK f, p : f = FnOf(g) /\ p = frames[g - 1].ip
    OBVIOUS
  <1>2. g \in 1..frameIndex /\ base[g] = Len(handlers)
    BY DEF Newest
  <1>3. /\ frameIndex \in 1..MaxFrames /\ f \in DOMAIN unit.fns /\ p \in DOMAIN t.at[f]
        /\ Len(handlers) \in Nat /\ Bottom(g) \in Nat
        /\ DOMAIN handlers = 1..Len(handlers)
        /\ \A j \in DOMAIN handlers : handlers[j].sp \in Nat
    BY <1>1, <1>2, Frames
  <1>4. HereOf(t, g) = t.at[f][p] /\ Disciplined(unit, t)
    BY <1>1 DEF HereOf, Given
  <1>5. m = Len(t.at[f][p].tries) /\ t.at[f][p].tries # <<>> /\ q = Innermost(t.at[f][p].tries)
    BY <1>4 DEF Newest
  <1>6. OpenedBy(unit.fns[f].code, t.at[f], p, q)
    BY <1>3, <1>4, <1>5, InnermostTry
  <1>7. m \in Nat \ {0}
    BY <1>5, <1>6 DEF OpenedBy
  <1>8. Len(t.at[f][q].tries) = m - 1
    BY <1>5, <1>6 DEF OpenedBy
  <1>9. \A k \in 0..(m - 2) : t.at[f][q].tries[k + 1] = t.at[f][p].tries[k + 1]
    BY <1>5, <1>6 DEF OpenedBy
  <1>10. t.at[f][p].tries[m] = q
    BY <1>5, <1>6 DEF OpenedBy
  <1>11. base \in [0..frameIndex -> Nat]
    BY DEF Given, Fits, HandlersFit
  <1>12. FrameFits(t, base, g)
    BY <1>2 DEF Given, Fits
  <1>13. base[g - 1] \in Nat
    BY <1>2, <1>3, <1>11
  <1>14. base[g] = base[g - 1] + m
    BY <1>4, <1>5, <1>12 DEF FrameFits
  <1>15. HandlerFits(t, base, g, m - 1, q)
    <2>1. \A k \in 0..(m - 1) : HandlerFits(t, base, g, k, t.at[f][p].tries[k + 1])
      BY <1>4, <1>5, <1>12 DEF FrameFits
    <2>2. m - 1 \in 0..(m - 1) /\ (m - 1) + 1 = m
      BY <1>7
    <2> QED BY <1>10, <2>1, <2>2
  <1>16. base[g - 1] + (m - 1) + 1 = Len(handlers) /\ base[g - 1] + m = Len(handlers)
    BY <1>2, <1>7, <1>13, <1>14
  <1>17. /\ handlers[Len(handlers)].target = unit.fns[FnOf(g)].code[q + 1].a
         /\ Over(t, FnOf(g), t.at[FnOf(g)][q].h, Floor(base, g, m - 1), handlers[Len(handlers)].sp)
    BY <1>15, <1>16 DEF HandlerFits
  <1>18. Floor(base, g, m) = handlers[Len(handlers)].sp
    BY <1>7, <1>16 DEF Floor
  <1>19. Len(handlers) \in 1..Len(handlers)
    BY <1>3, <1>7, <1>13, <1>16
  <1>20. handlers[Len(handlers)].sp \in Nat
    BY <1>3, <1>19
  <1>21. Floor(base, g, m - 1) \in Nat
    <2>1. m - 1 # 0 => base[g - 1] + (m - 1) \in 1..Len(handlers)
      BY <1>3, <1>7, <1>13, <1>16
    <2> QED BY <1>3, <2>1 DEF Floor
  <1>22. g \in 1..MaxFrames
    BY <1>2, <1>3
  <1>23. HereOf(t, g).tries = t.at[f][p].tries /\ TriesAt(t, g, q) = t.at[f][q].tries
    BY <1>1, <1>4 DEF TriesAt
  <1>24. /\ Len(HereOf(t, g).tries) = m
         /\ Len(TriesAt(t, g, q)) = m - 1
         /\ \A k \in 0..(m - 2) : TriesAt(t, g, q)[k + 1] = HereOf(t, g).tries[k + 1]
    BY <1>5, <1>8, <1>9, <1>23
  <1>25. /\ q \in DOMAIN t.at[f] /\ q \in Nat /\ q < Len(unit.fns[f].code)
         /\ unit.fns[f].code[q + 1].op = "SetupExcept" /\ t.at[f][q].h \in Nat
    BY <1>6 DEF OpenedBy
  <1> QED BY <1>1, <1>2, <1>3, <1>7, <1>13, <1>16, <1>17, <1>18, <1>20, <1>21, <1>22, <1>24, <1>25

(* The newest handler goes, and with it every frame above frame g, which   *)
(* goes on at p.                                                           *)
GoesBack(g, p) ==
  /\ frameIndex' = g /\ handlers' = SubSeq(handlers, 1, Len(handlers) - 1)
  /\ \A i \in 0..(g - 1) : frames'[i].bp = frames[i].bp /\ frames'[i].fn = frames[i].fn
  /\ \A i \in 0..(g - 2) : frames'[i].ip = frames[i].ip
  /\ frames'[g - 1].ip = p

(* No handler is above the frame of the newest one.                        *)
LEMMA NewestIsLast ==
  ASSUME NEW t, NEW base, NEW g, Given(t, base), g \in 1..frameIndex,
         base[g] = Len(handlers)
  PROVE  \A j \in DOMAIN handlers : handlers[j].frame <= g
  <1>1. frameIndex \in 1..MaxFrames /\ Len(handlers) \in Nat /\ DOMAIN handlers = 1..Len(handlers)
    BY Frames
  <1>2. TAKE j \in DOMAIN handlers
  <1>3. PICK f : f = handlers[j].frame
    OBVIOUS
  <1>4. f \in 1..frameIndex /\ base[f - 1] < j
    BY <1>3 DEF Given, Fits, HandlersFit
  <1>5. /\ base \in [0..frameIndex -> Nat]
        /\ \A i, n \in 0..frameIndex : n <= i => base[n] <= base[i]
    BY DEF Given, Fits, HandlersFit
  <1>6. ASSUME f > g PROVE FALSE
    <2>1. g \in 0..frameIndex /\ f - 1 \in 0..frameIndex /\ g <= f - 1
      BY <1>1, <1>4, <1>6
    <2>2. base[g] <= base[f - 1] /\ base[f - 1] \in Nat
      BY <1>5, <2>1
    <2> QED BY <1>1, <1>4, <2>2
  <1> QED BY <1>1, <1>3, <1>4, <1>6

LEMMA TryLeft ==
  ASSUME NEW t, NEW base, NEW g, NEW m, NEW q, NEW p, NEW h \in Int,
         Given(t, base), unit' = unit, Newest(t, base, g, m, q), GoesBack(g, p), sp' \in Nat,
         Enters(t, FnOf(g), Entry(p, h, TriesAt(t, g, q))),
         Over(t, FnOf(g), h, Floor(base, g, m - 1), sp')
  PROVE  \E b : Fits(t, b)'
  <1>1. PICK n : n = Len(handlers) - 1
    OBVIOUS
  <1>2. /\ frameIndex \in 1..MaxFrames /\ Len(handlers) \in Nat
        /\ handlers \in Seq(HandlerRecord) /\ DOMAIN handlers = 1..Len(handlers)
    BY Frames
  <1>3. /\ g \in 1..frameIndex /\ g \in 1..MaxFrames /\ m \in Nat \ {0}
        /\ base[g - 1] \in Nat /\ Len(handlers) = base[g - 1] + m
    BY NewestTry
  <1>4. base[g] = Len(handlers)
    BY DEF Newest
  <1>5. /\ n \in 0..Len(handlers) /\ base[g - 1] <= n /\ n <= base[g]
        /\ n = base[g - 1] + (m - 1) /\ m - 1 \in Nat
    <2>1. n = base[g - 1] + (m - 1) /\ m - 1 \in Nat /\ n = base[g] - 1
      BY <1>1, <1>3, <1>4
    <2>2. base[g - 1] <= n /\ n <= base[g] /\ n \in 0..base[g]
      BY <1>3, <1>4, <2>1, SMTT(60)
    <2> QED BY <1>4, <2>1, <2>2
  <1>6. /\ handlers' \in Seq(HandlerRecord) /\ Len(handlers') = n
        /\ \A j \in 1..n : handlers'[j] = handlers[j]
    <2>1. handlers' = SubSeq(handlers, 1, n)
      BY <1>1 DEF GoesBack
    <2>2. n \in 0..Len(handlers)
      BY <1>5
    <2> QED BY <1>2, <2>1, <2>2
  <1>7. \A j \in 1..n : handlers[j].frame <= g
    <2>1. \A j \in 1..n : j \in DOMAIN handlers
      BY <1>2, <1>5
    <2> QED BY <1>3, <1>4, <2>1, NewestIsLast
  <1>8. /\ p \in DOMAIN t.at[FnOf(g)] /\ TriesAt(t, g, p) = TriesAt(t, g, q)
        /\ Over(t, FnOf(g), t.at[FnOf(g)][p].h, Floor(base, g, m - 1), sp')
    <2>1. /\ p \in DOMAIN t.at[FnOf(g)]
          /\ t.at[FnOf(g)][p].tries = TriesAt(t, g, q)
          /\ t.at[FnOf(g)][p].h <= h
          /\ FnOf(g) \in t.exact => t.at[FnOf(g)][p].h = h
      BY DEF Enters, Entry
    <2>2. t.at[FnOf(g)][p].h \in Nat
      <3>1. FnOf(g) \in DOMAIN unit.fns
        BY NewestTry
      <3> QED BY <2>1, <3>1, Tables DEF Given
    <2>3. PICK floor \in Nat : floor = Floor(base, g, m - 1)
      BY NewestTry
    <2>4. PICK f, h1 : f = FnOf(g) /\ h1 = t.at[FnOf(g)][p].h
      OBVIOUS
    <2>5. Over(t, f, h1, floor, sp')
      <3>1. h1 \in Nat /\ h1 <= h /\ (f \in t.exact => h1 = h)
        BY <2>1, <2>2, <2>4
      <3>2. floor + h <= sp' /\ (f \in t.exact => sp' = floor + h)
        BY <2>3, <2>4 DEF Over
      <3> QED BY <2>3, <3>1, <3>2 DEF Over
    <2> QED BY <2>1, <2>3, <2>4, <2>5 DEF TriesAt
  <1>9. FrameFits(t, Cut(base, g, n), g)'
    <2>1. Cut(base, g, n)[g - 1] = base[g - 1] /\ Cut(base, g, n)[g] = base[g - 1] + (m - 1)
      <3>1. g - 1 \in 0..g /\ g \in 0..g /\ g - 1 # g
        BY <1>3
      <3>2. Cut(base, g, n)[g - 1] = base[g - 1] /\ Cut(base, g, n)[g] = n
        BY <3>1 DEF Cut
      <3> QED BY <1>5, <3>2
    <2>2. frameIndex' = g /\ g - 1 \in 0..(g - 1) /\ g \in Nat \ {0}
      BY <1>3 DEF GoesBack
    <2>3. /\ frames'[g - 1].fn = FnOf(g) /\ frames'[g - 1].bp = frames[g - 1].bp
          /\ frames'[g - 1].ip = p /\ Height(g)' = sp' /\ ~(g < frameIndex')
      BY <2>2 DEF FnOf, Height, GoesBack
    <2>4. /\ Len(TriesAt(t, g, q)) = m - 1 /\ Len(HereOf(t, g).tries) = m
          /\ \A k \in 0..(m - 2) : TriesAt(t, g, q)[k + 1] = HereOf(t, g).tries[k + 1]
      BY NewestTry
    <2>5. m - 1 <= Len(HereOf(t, g).tries) /\ m - 1 = Len(TriesAt(t, g, p))
      BY <1>3, <1>8, <2>4
    <2>6. \A k \in 0..((m - 1) - 1) : TriesAt(t, g, p)[k + 1] = HereOf(t, g).tries[k + 1]
      <3>1. (m - 1) - 1 = m - 2
        BY <1>3
      <3> QED BY <1>8, <2>4, <3>1
    <2>7. \A k \in 1..(m - 1) : handlers'[base[g - 1] + k] = handlers[base[g - 1] + k]
      <3>1. \A k \in 1..(m - 1) : base[g - 1] + k \in 1..n
        BY <1>3, <1>5
      <3> QED BY <1>6, <3>1
    <2>8. Over(t, FnOf(g), t.at[FnOf(g)][p].h, Floor(base, g, m - 1), Height(g)')
      BY <1>8, <2>3
    <2> QED BY <1>3, <1>5, <1>8, <2>1, <2>2, <2>3, <2>5, <2>6, <2>7, <2>8, FrameMoves, ZenonT(60)
  <1>10. Fits(t, Cut(base, g, n))'
    <2>1. /\ frameIndex' = g
          /\ \A i \in 0..(g - 1) : frames'[i].bp = frames[i].bp /\ frames'[i].fn = frames[i].fn
          /\ \A i \in 0..(g - 2) : frames'[i].ip = frames[i].ip
      BY DEF GoesBack
    <2> QED BY <1>3, <1>5, <1>6, <1>7, <1>9, <2>1, CutFits
  <1> QED BY <1>10

(* Where the handlers of a try begin.                                      *)
LEMMA SetupLeads ==
  ASSUME NEW t, NEW u, Disciplined(u, t), NEW f \in DOMAIN u.fns, NEW q \in DOMAIN t.at[f],
         q < Len(u.fns[f].code), u.fns[f].code[q + 1].op = "SetupExcept"
  PROVE  /\ Enters(t, f, Entry(u.fns[f].code[q + 1].a, t.at[f][q].h + 1, t.at[f][q].tries))
         /\ Enters(t, f, Entry(q + 1, 0, Append(t.at[f][q].tries, q)))
  <1> DEFINE i == u.fns[f].code[q + 1]
             here == t.at[f][q]
  <1>1. q \in 0..Len(u.fns[f].code) /\ Behaves(u.fns[f].code, t, f, q)
    BY Tables
  <1>2. q # Len(u.fns[f].code)
    OBVIOUS
  <1>3. \A e \in LeadsTo(u.fns[f].code, t.at[f], q) : Enters(t, f, e)
    BY <1>1, <1>2 DEF Behaves
  <1>4. LeadsTo(u.fns[f].code, t.at[f], q) =
          {Entry(q + 1, 0, Append(here.tries, q)), Straight(here, i.a, 1)}
    BY DEF LeadsTo
  <1> QED BY <1>3, <1>4 DEF Straight

(* The machine goes back to a try as it was set up.                        *)
LEMMA UnwindFits ==
  ASSUME NEW t, NEW base, NEW exc, NEW s, Given(t, base), unit' = unit, Running', Unwind(exc, s)
  PROVE  \E b : Fits(t, b)'
  <1>1. PICK hd : hd = handlers[Len(handlers)]
    OBVIOUS
  <1>2. PICK g, m : g = hd.frame /\ m = Len(HereOf(t, g).tries)
    OBVIOUS
  <1>3. PICK q : q = Innermost(HereOf(t, g).tries)
    OBVIOUS
  <1>a. PICK q0 : q0 = NextIP
    OBVIOUS
  <1>4. /\ handlers # <<>> /\ handlers' = SubSeq(handlers, 1, Len(handlers) - 1)
        /\ frameIndex' = g /\ sp' = hd.sp + 1
        /\ frames' = [frames EXCEPT ![frameIndex - 1].ip = q0, ![g - 1].ip = hd.target]
    BY <1>1, <1>2, <1>a DEF Unwind, Halt, Running
  <1>5. /\ frameIndex \in 1..MaxFrames /\ Len(handlers) \in Nat
        /\ handlers \in Seq(HandlerRecord) /\ DOMAIN handlers = 1..Len(handlers)
    BY Frames
  <1>6. Len(handlers) \in DOMAIN handlers
    BY <1>4, <1>5
  <1>7. g \in 1..frameIndex /\ base[g - 1] < Len(handlers) /\ Len(handlers) <= base[g]
    BY <1>1, <1>2, <1>6 DEF Given, Fits, HandlersFit
  <1>8. base[g] = Len(handlers) /\ base[g - 1] \in Nat
    <2>1. /\ base \in [0..frameIndex -> Nat] /\ base[frameIndex] = Len(handlers)
          /\ \A i, n \in 0..frameIndex : n <= i => base[n] <= base[i]
      BY DEF Given, Fits, HandlersFit
    <2>2. g \in 0..frameIndex /\ frameIndex \in 0..frameIndex /\ g <= frameIndex
          /\ g - 1 \in 0..frameIndex
      BY <1>5, <1>7
    <2>3. base[g] <= base[frameIndex] /\ base[g] \in Nat /\ base[g - 1] \in Nat
      BY <2>1, <2>2
    <2> QED BY <1>5, <1>7, <2>1, <2>3
  <1>9. HereOf(t, g).tries # <<>>
    <2>1. base[g] = base[g - 1] + m
      BY <1>2, <1>7 DEF Given, Fits, FrameFits
    <2>2. m # 0
      BY <1>7, <1>8, <2>1
    <2> QED BY <1>2, <2>2
  <1>10. Newest(t, base, g, m, q)
    BY <1>2, <1>3, <1>7, <1>8, <1>9 DEF Newest
  <1>11. GoesBack(g, hd.target)
    <2>1. frames \in [0..(MaxFrames - 1) -> FrameRecord]
      BY DEF Given, IInv, FramesOK
    <2>2. \A i \in 0..(MaxFrames - 1) : frames[i] \in FrameRecord
      BY <2>1
    <2>3. \A i \in 0..(g - 1) : i \in 0..(MaxFrames - 1)
      BY <1>5, <1>7
    <2>4. g - 1 \in 0..(MaxFrames - 1) /\ frameIndex - 1 \in 0..(MaxFrames - 1)
      BY <1>5, <1>7
    <2>5. frames'[g - 1].ip = hd.target
      BY <1>4, <2>1, <2>2, <2>4 DEF FrameRecord
    <2>6. \A i \in 0..(g - 1) : frames'[i].bp = frames[i].bp /\ frames'[i].fn = frames[i].fn
      BY <1>4, <2>1, <2>2, <2>3, <2>4 DEF FrameRecord
    <2>7. \A i \in 0..(g - 2) : frames'[i].ip = frames[i].ip
      <3>1. \A i \in 0..(g - 2) : i \in 0..(MaxFrames - 1) /\ i # g - 1 /\ i # frameIndex - 1
        BY <1>5, <1>7
      <3> QED BY <1>4, <2>1, <2>2, <2>4, <3>1 DEF FrameRecord
    <2> QED BY <1>4, <2>5, <2>6, <2>7 DEF GoesBack
  <1>12. PICK f : f = FnOf(g)
    OBVIOUS
  <1>13. PICK h : h = t.at[f][q].h + 1
    OBVIOUS
  <1>14. /\ f \in DOMAIN unit.fns /\ q \in DOMAIN t.at[f] /\ q < Len(unit.fns[f].code)
         /\ unit.fns[f].code[q + 1].op = "SetupExcept" /\ hd.target = unit.fns[f].code[q + 1].a
    <2>1. /\ FnOf(g) \in DOMAIN unit.fns /\ q \in DOMAIN t.at[FnOf(g)]
          /\ q < Len(unit.fns[FnOf(g)].code)
      BY <1>10, NewestTry
    <2>2. unit.fns[FnOf(g)].code[q + 1].op = "SetupExcept"
      BY <1>10, NewestTry
    <2>3. handlers[Len(handlers)].target = unit.fns[FnOf(g)].code[q + 1].a
      BY <1>10, NewestTry
    <2> QED BY <1>1, <1>12, <2>1, <2>2, <2>3
  <1>15. Enters(t, f, Entry(hd.target, h, t.at[f][q].tries))
    BY <1>13, <1>14, SetupLeads DEF Given
  <1>16. t.at[f][q].h \in Nat /\ hd.sp \in Nat /\ Floor(base, g, m - 1) \in Nat
         /\ Over(t, f, t.at[f][q].h, Floor(base, g, m - 1), hd.sp)
    BY <1>1, <1>10, <1>12, NewestTry
  <1>17. Over(t, f, h, Floor(base, g, m - 1), sp') /\ h \in Int /\ sp' \in Nat
    <2>1. \A floor, h1, height \in Nat :
            Over(t, f, h1, floor, height) => Over(t, f, h1 + 1, floor, height + 1)
      BY DEF Over
    <2>2. PICK floor, h1, height \in Nat :
            floor = Floor(base, g, m - 1) /\ h1 = t.at[f][q].h /\ height = hd.sp
      BY <1>16
    <2>3. Over(t, f, h1, floor, height)
      BY <1>16, <2>2
    <2>4. sp' = height + 1 /\ h = h1 + 1
      BY <1>4, <1>13, <2>2
    <2>5. Over(t, f, h, floor, sp') /\ h \in Int /\ sp' \in Nat
      BY <2>1, <2>3, <2>4
    <2> QED BY <2>2, <2>5
  <1>18. TriesAt(t, g, q) = t.at[f][q].tries
    BY <1>12 DEF TriesAt
  <1> QED BY <1>10, <1>11, <1>12, <1>15, <1>17, <1>18, TryLeft

LEMMA PopExceptFits ==
  ASSUME NEW t, NEW base, Given(t, base), unit' = unit,
         ~AtEnd, instr.op = "PopExcept", Goto(NextIP),
         handlers' = SubSeq(handlers, 1, Len(handlers) - 1), UNCHANGED <<frameIndex, sp>>
  PROVE  \E b : Fits(t, b)'
  <1>1. PICK g, m : g = frameIndex /\ m = Len(Here(t).tries)
    OBVIOUS
  <1>2. PICK f, p : f = currentFrame.fn /\ p = NextIP
    OBVIOUS
  <1>3. PICK q : q = Innermost(Here(t).tries)
    OBVIOUS
  <1>4. frameIndex \in 1..MaxFrames /\ sp \in Nat
    BY Frames
  <1>5. /\ FnOf(g) = f /\ HereOf(t, g) = Here(t) /\ base[g] = Len(handlers)
        /\ Here(t).tries # <<>> /\ Here(t).h \in Nat
        /\ Over(t, f, Here(t).h, Ground(t, base), sp)
    BY <1>1, <1>2, Standing
  <1>6. Newest(t, base, g, m, q)
    BY <1>1, <1>3, <1>4, <1>5 DEF Newest
  <1>7. GoesBack(g, p)
    <2>1. p \in Nat
      BY <1>2, <1>4, Frames DEF NextIP, currentFrame
    <2>2. /\ \A i \in 0..(MaxFrames - 1) :
               frames'[i].bp = frames[i].bp /\ frames'[i].fn = frames[i].fn
          /\ \A i \in 0..(g - 2) : frames'[i].ip = frames[i].ip
          /\ frames'[g - 1].ip = p
      BY <1>1, <1>2, <2>1, OnlyIP
    <2>3. \A i \in 0..(g - 1) : i \in 0..(MaxFrames - 1)
      BY <1>1, <1>4
    <2> QED BY <1>1, <2>2, <2>3 DEF GoesBack
  <1>8. PICK h0, h1 : h0 = t.at[f][q].h /\ h1 = Here(t).h
    OBVIOUS
  <1>9. Enters(t, f, Entry(p, h0 + h1, TriesAt(t, g, q)))
    <2>1. LeadsHere(t) = {Entry(p, h0 + h1, TriesAt(t, g, q))}
      <3>1. Code[currentFrame.ip + 1].op = "PopExcept"
        BY DEF instr
      <3>2. /\ t.at[f][currentFrame.ip] = Here(t) /\ p = currentFrame.ip + 1
            /\ TriesAt(t, g, q) = t.at[f][q].tries
        BY <1>2, <1>5 DEF Here, NextIP, TriesAt
      <3> QED BY <1>2, <1>3, <1>5, <1>8, <3>1, <3>2 DEF LeadsHere, LeadsTo
    <2> QED BY <1>2, <2>1, Standing
  <1>10. PICK hd : hd = handlers[Len(handlers)].sp
    OBVIOUS
  <1>11. h0 \in Nat /\ hd \in Nat /\ Floor(base, g, m - 1) \in Nat
         /\ Over(t, f, h0, Floor(base, g, m - 1), hd) /\ Ground(t, base) = hd
    <2>1. Ground(t, base) = Floor(base, g, m)
      BY <1>1 DEF Ground
    <2> QED BY <1>5, <1>6, <1>8, <1>10, <2>1, NewestTry
  <1>12. Over(t, f, h0 + h1, Floor(base, g, m - 1), sp') /\ h0 + h1 \in Int /\ sp' \in Nat
    <2>1. PICK floor \in Nat : floor = Floor(base, g, m - 1)
      BY <1>11
    <2>2. Over(t, f, h0, floor, hd) /\ Over(t, f, h1, hd, sp) /\ sp' = sp
      BY <1>5, <1>8, <1>11, <2>1
    <2>3. h0 \in Nat /\ h1 \in Nat /\ hd \in Nat
      BY <1>5, <1>8, <1>11
    <2>4. Over(t, f, h0 + h1, floor, sp') /\ sp' \in Nat
      BY <1>4, <2>2, <2>3 DEF Over
    <2> QED BY <2>1, <2>3, <2>4
  <1> QED BY <1>5, <1>6, <1>7, <1>9, <1>12, TryLeft

(* A call returns to the frame of its caller, all its tries left.          *)
LEMMA ReturnFits ==
  ASSUME NEW t, NEW base, Given(t, base), unit' = unit, Here(t).tries = <<>>, frameIndex > 1,
         frameIndex' = frameIndex - 1, UNCHANGED <<frames, handlers>>,
         sp' = currentFrame.bp + 1
  PROVE  \E b : Fits(t, b)'
  <1>1. PICK g, n : g = frameIndex - 1 /\ n = Len(handlers)
    OBVIOUS
  <1>2. /\ frameIndex \in 1..MaxFrames /\ n \in Nat
        /\ handlers \in Seq(HandlerRecord) /\ DOMAIN handlers = 1..n
    BY <1>1, Frames
  <1>3. g \in 1..frameIndex /\ g \in Nat \ {0} /\ g = frameIndex - 1
    BY <1>1, <1>2
  <1>4. /\ base \in [0..frameIndex -> Nat] /\ base[frameIndex] = n
        /\ \A i, k \in 0..frameIndex : k <= i => base[k] <= base[i]
    BY <1>1 DEF Given, Fits, HandlersFit
  <1>5. base[g] = n
    <2>1. Len(Here(t).tries) = 0
      OBVIOUS
    <2>2. n = base[frameIndex - 1] + Len(Here(t).tries) /\ base[frameIndex - 1] \in Nat
      BY <1>1, Standing
    <2> QED BY <1>3, <2>1, <2>2
  <1>6. base[g - 1] <= n /\ n <= base[g] /\ n \in 0..Len(handlers) /\ base[g - 1] \in Nat
    <2>1. g - 1 \in 0..frameIndex /\ g \in 0..frameIndex /\ g - 1 <= g
      BY <1>2, <1>3
    <2>2. base[g - 1] <= base[g] /\ base[g - 1] \in Nat
      BY <1>4, <2>1
    <2> QED BY <1>1, <1>2, <1>5, <2>2
  <1>7. \A j \in 1..n : handlers[j].frame <= g
    <2> TAKE j \in 1..n
    <2>1. handlers[j].frame \in 1..frameIndex /\ base[handlers[j].frame - 1] < j
      BY <1>2 DEF Given, Fits, HandlersFit
    <2>2. handlers[j].frame # frameIndex
      BY <1>2, <1>3, <1>5, <2>1
    <2> QED BY <1>2, <1>3, <2>1, <2>2
  <1>8. Cut(base, g, n)[g - 1] = base[g - 1] /\ Cut(base, g, n)[g] = base[g]
    BY <1>3, <1>5 DEF Cut
  <1>9. FrameFits(t, Cut(base, g, n), g)'
    <2>1. Height(g)' = Height(g)
      <3>1. Height(g)' = sp' /\ Height(g) = frames[g].bp + 1
        BY <1>3, <1>2 DEF Height
      <3>2. currentFrame = frames[g]
        BY <1>3 DEF currentFrame
      <3> QED BY <3>1, <3>2
    <2>2. /\ frames'[g - 1].fn = FnOf(g) /\ frames'[g - 1].bp = frames[g - 1].bp
          /\ frames'[g - 1].ip = frames[g - 1].ip /\ ~(g < frameIndex')
      BY <1>2, <1>3 DEF FnOf
    <2> QED BY <1>3, <1>6, <1>8, <2>1, <2>2, FrameStays
  <1>10. /\ frameIndex' = g /\ handlers' \in Seq(HandlerRecord) /\ Len(handlers') = n
         /\ \A j \in 1..n : handlers'[j] = handlers[j]
         /\ \A i \in 0..(g - 1) : frames'[i].bp = frames[i].bp /\ frames'[i].fn = frames[i].fn
         /\ \A i \in 0..(g - 2) : frames'[i].ip = frames[i].ip
    BY <1>1, <1>2
  <1>11. Fits(t, Cut(base, g, n))'
    BY <1>3, <1>6, <1>7, <1>9, <1>10, CutFits
  <1> QED BY <1>11

(* A try begins: a handler is added, for this frame and at this height.    *)
LEMMA SetupFits ==
  ASSUME NEW t, NEW base, Given(t, base), unit' = unit,
         ~AtEnd, instr.op = "SetupExcept", Goto(NextIP),
         handlers' = Append(handlers, [frame |-> frameIndex, sp |-> sp, target |-> instr.a]),
         UNCHANGED <<frameIndex, sp>>
  PROVE  \E b : Fits(t, b)'
  <1>1. PICK g, n, m : g = frameIndex /\ n = Len(handlers) /\ m = Len(Here(t).tries)
    OBVIOUS
  <1>2. PICK f, p : f = currentFrame.fn /\ p = currentFrame.ip
    OBVIOUS
  <1>3. PICK hd, a, top : /\ hd = [frame |-> g, sp |-> top, target |-> a]
                          /\ a = instr.a /\ top = sp
    OBVIOUS
  <1>4. /\ g \in 1..MaxFrames /\ g \in Nat \ {0} /\ top \in Nat /\ p \in Nat /\ n \in Nat
        /\ handlers \in Seq(HandlerRecord) /\ DOMAIN handlers = 1..n
        /\ \A j \in 1..n : handlers[j].sp \in Nat
    <2>1. g - 1 \in 0..(MaxFrames - 1)
      BY <1>1, Frames
    <2> QED BY <1>1, <1>2, <1>3, <2>1, Frames DEF currentFrame
  <1>5. /\ FnOf(g) = f /\ HereOf(t, g) = Here(t) /\ base[g] = n /\ base[g - 1] \in Nat
        /\ n = base[g - 1] + m /\ m \in Nat /\ Bottom(g) <= Ground(t, base)
        /\ Over(t, f, Here(t).h, Ground(t, base), sp) /\ f \in DOMAIN unit.fns
        /\ Here(t).h \in Nat /\ Ground(t, base) \in Nat /\ Here(t).tries \in Seq(Nat)
        /\ \A j \in 1..n : handlers[j].sp <= Ground(t, base)
    BY <1>1, <1>2, <1>4, Standing
  <1>6. Ground(t, base) = Floor(base, g, m) /\ t.at[f][p] = Here(t) /\ Bottom(g) \in Nat
    <2>1. g \in 1..frameIndex
      BY <1>1, <1>4
    <2> QED BY <1>1, <1>2, <2>1, Frames DEF Ground, Here
  <1>7. Ground(t, base) <= top
    BY <1>3, <1>4, <1>5 DEF Over
  <1>8. p \in DOMAIN t.at[f] /\ p < Len(unit.fns[f].code)
        /\ unit.fns[f].code[p + 1].op = "SetupExcept" /\ unit.fns[f].code[p + 1].a = a
    <2>1. currentFrame.ip < Len(Code)
      BY Standing
    <2> QED BY <1>2, <1>3, <2>1, Standing DEF instr, Code
  <1>9. Enters(t, f, Entry(p + 1, 0, Append(t.at[f][p].tries, p)))
    BY <1>5, <1>8, SetupLeads DEF Given
  <1>10. /\ p + 1 \in DOMAIN t.at[f]
         /\ t.at[f][p + 1].tries = Append(Here(t).tries, p)
         /\ t.at[f][p + 1].h = 0
    <2>1. /\ p + 1 \in DOMAIN t.at[f]
          /\ t.at[f][p + 1].tries = Append(Here(t).tries, p)
          /\ t.at[f][p + 1].h <= 0
      BY <1>6, <1>9 DEF Enters, Entry
    <2>2. t.at[f][p + 1].h \in Nat
      BY <1>5, <2>1, Tables DEF Given
    <2> QED BY <2>1, <2>2
  <1>11. PICK before, after : before = Here(t).tries /\ after = Append(before, p)
    OBVIOUS
  <1>12. /\ Len(after) = m + 1 /\ after[m + 1] = p
         /\ \A k \in 0..(m - 1) : after[k + 1] = before[k + 1]
    <2>1. before \in Seq(Nat) /\ Len(before) = m
      BY <1>1, <1>5, <1>11
    <2> QED BY <1>4, <1>11, <2>1
  <1>13. /\ handlers' = Append(handlers, hd) /\ Len(handlers') = n + 1
         /\ DOMAIN handlers' = 1..(n + 1) /\ handlers'[n + 1] = hd
         /\ \A j \in 1..n : handlers'[j] = handlers[j]
    BY <1>1, <1>3, <1>4
  <1>14. PICK base1 : base1 = Cut(base, g, n + 1)
    OBVIOUS
  <1>15. base \in [0..g -> Nat] /\ base[0] = 0
         /\ \A i, k \in 0..g : k <= i => base[k] <= base[i]
    BY <1>1 DEF Given, Fits, HandlersFit
  <1>16. /\ base1 \in [0..g -> Nat] /\ base1[g] = n + 1
         /\ \A i \in 0..(g - 1) : base1[i] = base[i] /\ base[i] <= n
    <2>1. \A i \in 0..(g - 1) : i \in 0..g /\ i <= g /\ i # g
      BY <1>4
    <2>2. \A i \in 0..(g - 1) : base[i] <= n
      BY <1>4, <1>5, <1>15, <2>1
    <2>3. base1 = [i \in 0..g |-> IF i = g THEN n + 1 ELSE base[i]]
      BY <1>14 DEF Cut
    <2> QED BY <1>4, <1>15, <2>1, <2>2, <2>3
  <1>17. /\ \A i \in 0..(MaxFrames - 1) :
              frames'[i].bp = frames[i].bp /\ frames'[i].fn = frames[i].fn
         /\ \A i \in 0..(g - 2) : frames'[i].ip = frames[i].ip
         /\ frames'[g - 1].ip = p + 1
    <2>1. NextIP = p + 1 /\ NextIP \in Nat
      BY <1>2, <1>4 DEF NextIP
    <2> QED BY <1>1, <2>1, OnlyIP
  <1>18. frameIndex' = g /\ sp' = top
    BY <1>1, <1>3
  <1>19. HandlersFit(base1)'
    <2>1. base1[0] = 0
      <3>1. 0 \in 0..(g - 1)
        BY <1>4
      <3> QED BY <1>15, <1>16, <3>1
    <2>2. \A i, k \in 0..g : k <= i => base1[k] <= base1[i]
      <3> TAKE i, k \in 0..g
      <3>1. CASE i = g
        <4>1. k = g \/ k \in 0..(g - 1)
          BY <1>4
        <4>2. k \in 0..(g - 1) => base1[k] <= n /\ base1[k] \in Nat
          BY <1>15, <1>16
        <4> QED BY <1>4, <1>16, <3>1, <4>1, <4>2
      <3>2. CASE i # g
        <4>1. k <= i => i \in 0..(g - 1) /\ k \in 0..(g - 1)
          BY <1>4, <3>2
        <4> QED BY <1>15, <1>16, <4>1
      <3> QED BY <3>1, <3>2
    <2>3. ASSUME NEW j \in 1..n
          PROVE  /\ handlers'[j].frame \in 1..g
                 /\ base1[handlers'[j].frame - 1] < j /\ j <= base1[handlers'[j].frame]
                 /\ \A i \in 1..(j - 1) :
                      /\ handlers'[i].frame <= handlers'[j].frame
                      /\ handlers'[i].sp <= handlers'[j].sp
                 /\ \A i \in handlers'[j].frame..(g - 1) : handlers'[j].sp <= frames'[i].bp
      <3>1. /\ handlers[j].frame \in 1..g
            /\ base[handlers[j].frame - 1] < j /\ j <= base[handlers[j].frame]
            /\ \A i \in 1..(j - 1) :
                 /\ handlers[i].frame <= handlers[j].frame
                 /\ handlers[i].sp <= handlers[j].sp
            /\ \A i \in handlers[j].frame..(g - 1) : handlers[j].sp <= frames[i].bp
        BY <1>1, <1>4 DEF Given, Fits, HandlersFit
      <3>2. handlers'[j] = handlers[j] /\ \A i \in 1..(j - 1) : handlers'[i] = handlers[i]
        BY <1>4, <1>13
      <3>3. base1[handlers[j].frame - 1] < j
        <4>1. handlers[j].frame - 1 \in 0..(g - 1)
          BY <1>4, <3>1
        <4> QED BY <1>16, <3>1, <4>1
      <3>4. j <= base1[handlers[j].frame]
        <4>1. CASE handlers[j].frame = g
          BY <1>4, <1>16, <4>1
        <4>2. CASE handlers[j].frame # g
          <5>1. handlers[j].frame \in 0..(g - 1)
            BY <1>4, <3>1, <4>2
          <5> QED BY <1>16, <3>1, <5>1
        <4> QED BY <4>1, <4>2
      <3>5. \A i \in handlers[j].frame..(g - 1) : handlers[j].sp <= frames'[i].bp
        <4>1. \A i \in handlers[j].frame..(g - 1) : i \in 0..(MaxFrames - 1)
          BY <1>4, <3>1
        <4> QED BY <1>17, <3>1, <4>1
      <3> QED BY <3>1, <3>2, <3>3, <3>4, <3>5
    <2>4. /\ hd.frame \in 1..g /\ base1[hd.frame - 1] < n + 1 /\ n + 1 <= base1[hd.frame]
          /\ \A i \in 1..n : handlers'[i].frame <= hd.frame /\ handlers'[i].sp <= hd.sp
          /\ \A i \in hd.frame..(g - 1) : hd.sp <= frames'[i].bp
      <3>1. hd.frame = g /\ hd.sp = top
        BY <1>3
      <3>2. base1[g - 1] < n + 1
        <4>1. g - 1 \in 0..(g - 1)
          BY <1>4
        <4>2. base1[g - 1] = base[g - 1] /\ base[g - 1] <= n
          BY <1>16, <4>1
        <4>3. base1[g - 1] \in Nat /\ n \in Nat
          BY <1>4, <1>5, <4>2
        <4> QED BY <4>2, <4>3
      <3>3. \A i \in 1..n : handlers'[i].frame <= g
        <4>1. \A i \in 1..n : handlers'[i].frame \in 1..g
          BY <2>3
        <4> QED BY <1>4, <4>1
      <3>4. \A i \in 1..n : handlers'[i].sp <= top
        <4>1. PICK ground \in Nat : ground = Ground(t, base)
          BY <1>5
        <4>2. \A i \in 1..n : handlers[i].sp \in Nat /\ handlers[i].sp <= ground
          BY <1>4, <1>5, <4>1
        <4>3. \A i \in 1..n : handlers[i].sp <= top
          BY <1>4, <1>7, <4>1, <4>2
        <4> QED BY <1>13, <4>3
      <3>5. g..(g - 1) = {}
        BY <1>4
      <3> QED BY <1>4, <1>16, <3>1, <3>2, <3>3, <3>4, <3>5
    <2>5. \A j \in 1..(n + 1) : j \in 1..n \/ j = n + 1
      BY <1>4
    <2>6. (n + 1) - 1 = n
      BY <1>4
    <2> QED BY <1>13, <1>16, <1>18, <2>1, <2>2, <2>3, <2>4, <2>5, <2>6 DEF HandlersFit
  <1>20. ASSUME NEW i \in 1..(g - 1)
         PROVE  FrameFits(t, base1, i)'
    <2>1. /\ i \in Nat \ {0} /\ i \in 1..frameIndex /\ i < frameIndex /\ i < frameIndex'
          /\ i - 1 \in 0..(g - 2) /\ i - 1 \in 0..(g - 1) /\ i \in 0..(g - 1)
          /\ i - 1 \in 0..(MaxFrames - 1) /\ i \in 0..(MaxFrames - 1) /\ i \in 0..g /\ i - 1 \in 0..g
      BY <1>1, <1>4, <1>18
    <2>2. /\ frames'[i - 1].fn = FnOf(i) /\ frames'[i - 1].bp = frames[i - 1].bp
          /\ frames'[i - 1].ip = frames[i - 1].ip /\ frames'[i].bp = frames[i].bp
      BY <1>17, <2>1 DEF FnOf
    <2>3. base1[i - 1] = base[i - 1] /\ base1[i] = base[i] /\ base[i - 1] \in Nat
          /\ base[i] \in Nat /\ base[i] <= n
      BY <1>15, <1>16, <2>1
    <2>4. \A j \in (base[i - 1] + 1)..base[i] : handlers'[j] = handlers[j]
      <3>1. \A j \in (base[i - 1] + 1)..base[i] : j \in 1..n
        BY <1>4, <2>3
      <3> QED BY <1>13, <3>1
    <2>5. Height(i)' = Height(i)
      BY <2>1, <2>2 DEF Height
    <2> QED BY <2>1, <2>2, <2>3, <2>4, <2>5, FrameStays
  <1>21. FrameFits(t, base1, g)'
    <2>1. /\ FnOf(g)' = f /\ Bottom(g)' = Bottom(g) /\ HereOf(t, g)' = t.at[f][p + 1]
          /\ frames'[g - 1].ip = p + 1 /\ Height(g)' = top
      <3>1. g - 1 \in 0..(MaxFrames - 1)
        BY <1>4
      <3>2. frames'[g - 1].fn = f /\ frames'[g - 1].bp = frames[g - 1].bp
        BY <1>1, <1>5, <1>17, <3>1 DEF FnOf
      <3> QED BY <1>5, <1>17, <1>18, <3>2 DEF FnOf, Bottom, HereOf, Height, Given
    <2>2. base1[g - 1] = base[g - 1] /\ base1[g - 1] + m = n
      <3>1. g - 1 \in 0..(g - 1)
        BY <1>4
      <3> QED BY <1>5, <1>16, <3>1
    <2>3. \A k \in 0..m : Floor(base1, g, k)' = Floor(base, g, k)
      <3> TAKE k \in 0..m
      <3>1. k # 0 => base[g - 1] + k \in 1..n
        BY <1>5
      <3> QED BY <1>13, <2>1, <2>2, <3>1 DEF Floor
    <2>4. Floor(base1, g, m + 1)' = top
      <3>1. base1[g - 1] + (m + 1) = n + 1 /\ m + 1 # 0
        BY <1>5, <2>2
      <3> QED BY <1>3, <1>13, <3>1 DEF Floor
    <2>5. ASSUME NEW k \in 0..(m - 1), NEW q, q = after[k + 1]
          PROVE  HandlerFits(t, base1, g, k, q)'
      <3>1. HandlerFits(t, base, g, k, q)
        <4>1. g \in 1..frameIndex /\ k \in 0..(Len(HereOf(t, g).tries) - 1)
          BY <1>1, <1>4, <1>5
        <4>2. q = HereOf(t, g).tries[k + 1]
          BY <1>5, <1>11, <1>12, <2>5
        <4> QED BY <4>1, <4>2 DEF Given, Fits, FrameFits
      <3>2. handlers'[base1[g - 1] + k + 1] = handlers[base[g - 1] + k + 1]
        <4>1. PICK j : j = base[g - 1] + k + 1
          OBVIOUS
        <4>2. j \in 1..n
          BY <1>5, <4>1, SMTT(60)
        <4>3. handlers'[j] = handlers[j]
          BY <1>13, <4>2
        <4> QED BY <2>2, <4>1, <4>3
      <3>3. Floor(base1, g, k)' = Floor(base, g, k)
        <4>1. k \in 0..m
          BY <1>5
        <4> QED BY <2>3, <4>1
      <3> QED BY <1>5, <2>1, <3>1, <3>2, <3>3 DEF HandlerFits, Given
    <2>6. HandlerFits(t, base1, g, m, p)'
      <3>1. handlers'[base1[g - 1] + m + 1] = hd
        BY <1>5, <1>13, <2>2
      <3>2. Floor(base1, g, m)' = Ground(t, base)
        BY <1>5, <1>6, <2>3
      <3>3. Bottom(g) <= top
        BY <1>4, <1>5, <1>6, <1>7
      <3>4. hd.frame = g /\ hd.target = a /\ hd.sp = top
        BY <1>3
      <3>5. Over(t, f, t.at[f][p].h, Ground(t, base), top)
        BY <1>3, <1>5, <1>6
      <3> QED BY <1>8, <2>1, <3>1, <3>2, <3>3, <3>4, <3>5 DEF HandlerFits, Given
    <2>7. \A k \in 0..m : HandlerFits(t, base1, g, k, after[k + 1])'
      <3> TAKE k \in 0..m
      <3>1. k \in 0..(m - 1) \/ k = m
        BY <1>5
      <3> QED BY <1>12, <2>5, <2>6, <3>1
    <2>8. Over(t, f, t.at[f][p + 1].h, top, top)
      BY <1>4, <1>10 DEF Over
    <2>9. HereOf(t, g)'.tries = after /\ Len(after) = m + 1 /\ (m + 1) - 1 = m
      BY <1>5, <1>10, <1>11, <1>12, <2>1
    <2>10. base1[g] = base1[g - 1] + Len(after)
      BY <1>5, <1>16, <2>2, <2>9
    <2>11. ~(g < frameIndex')
      BY <1>4, <1>18
    <2> QED BY <1>10, <2>1, <2>4, <2>7, <2>8, <2>9, <2>10, <2>11 DEF FrameFits, HandlerFits
  <1>22. Fits(t, base1)'
    <2>1. frames'[0].bp = 0
      <3>1. 0 \in 0..(MaxFrames - 1)
        OBVIOUS
      <3> QED BY <1>17, <3>1 DEF Given, Fits
    <2>2. \A i \in 1..frameIndex' : FrameFits(t, base1, i)'
      <3> TAKE i \in 1..frameIndex'
      <3>1. i \in 1..(g - 1) \/ i = g
        BY <1>4, <1>18
      <3> QED BY <1>20, <1>21, <3>1
    <2> QED BY <1>19, <2>1, <2>2 DEF Fits
  <1> QED BY <1>22

(* Where the instructions lead that leave the tries as they are.           *)
LEMMA Leads ==
  ASSUME NEW t
  PROVE  /\ instr.op \in {"Constant", "GetBuiltin", "Closure", "GetLocal", "GetGlobal", "Dup", "ForIter"}
              => Straight(Here(t), NextIP, 1) \in LeadsHere(t)
         /\ instr.op \in {"Pop", "SetGlobal", "SetLocal", "Equal", "ListAppend", "JumpIfFalse",
                          "JumpIfFalseOrPop", "JumpIfTrueOrPop"}
              => Straight(Here(t), NextIP, -1) \in LeadsHere(t)
         /\ instr.op \in {"Not", "GetIter", "DeleteName"}
              => Straight(Here(t), NextIP, 0) \in LeadsHere(t)
         /\ instr.op = "Assert" => Straight(Here(t), NextIP, -2) \in LeadsHere(t)
         /\ instr.op = "BuildList" => Straight(Here(t), NextIP, 1 - instr.a) \in LeadsHere(t)
         /\ instr.op = "UnpackSequence" => Straight(Here(t), NextIP, instr.a - 1) \in LeadsHere(t)
         /\ instr.op = "Call" => Straight(Here(t), NextIP, -instr.a) \in LeadsHere(t)
         /\ instr.op \in {"Jump", "JumpIfFalseOrPop", "JumpIfTrueOrPop"}
              => Straight(Here(t), instr.a, 0) \in LeadsHere(t)
         /\ instr.op \in {"JumpIfFalse", "ForIter"}
              => Straight(Here(t), instr.a, -1) \in LeadsHere(t)
  BY DEF LeadsHere, LeadsTo, Here, NextIP, instr

(* A call begins above everything its caller's tries go back to.           *)
LEMMA CallFits ==
  ASSUME NEW t, NEW base, Given(t, base), unit' = unit, CallClosure
  PROVE  \E b : Fits(t, b)'
  <1>1. PICK g, n, m : g = frameIndex /\ n = Len(handlers) /\ m = Len(Here(t).tries)
    OBVIOUS
  <1>2. PICK f, p, a : f = currentFrame.fn /\ p = NextIP /\ a = instr.a
    OBVIOUS
  <1>3. PICK c, bottom : c = callee.n /\ bottom = calleeIdx
    OBVIOUS
  <1>4. /\ Fetch("Call") /\ callee.k = "fun" /\ Binds(callee.n) /\ g < MaxFrames
        /\ sp' = bottom + unit.fns[c].locals
        /\ frames' = [frames EXCEPT ![g - 1].ip = p,
                                    ![g] = [fn |-> c, ip |-> 0, bp |-> bottom]]
        /\ frameIndex' = g + 1 /\ handlers' = handlers
    BY <1>1, <1>2, <1>3 DEF CallClosure
  <1>5. /\ ~AtEnd /\ instr.op = "Call" /\ a \in Nat /\ bottom \in Nat /\ bottom = sp - 1 - a
        /\ Takes = a + 1 /\ c \in DOMAIN unit.fns /\ unit.fns[c].locals \in Nat
    <2>1. /\ ~AtEnd /\ instr.op = "Call" /\ a \in Nat /\ bottom \in Nat /\ bottom = sp - 1 - a
          /\ Takes = a + 1
      BY <1>2, <1>3, <1>4, FetchGives, CallGives DEF Given, calleeIdx, Slots
    <2>2. c \in DOMAIN unit.fns
      BY <1>3, <1>4, LocalsKept DEF Given
    <2>3. unit.fns[c].locals \in Nat
      BY <2>2, Programs DEF Given, IInv
    <2> QED BY <2>1, <2>2, <2>3
  <1>6. /\ g \in 1..MaxFrames /\ g \in Nat \ {0} /\ sp \in Nat /\ p \in Nat /\ n \in Nat
        /\ handlers \in Seq(HandlerRecord) /\ DOMAIN handlers = 1..n
        /\ \A j \in 1..n : handlers[j].sp \in Nat
    <2>1. p \in Nat
      BY <1>2, Current DEF Given
    <2>2. g \in 1..MaxFrames /\ g \in Nat \ {0} /\ sp \in Nat /\ n \in Nat
      BY <1>1, Frames
    <2>3. handlers \in Seq(HandlerRecord) /\ DOMAIN handlers = 1..n
      BY <1>1, Frames
    <2>4. \A j \in 1..n : handlers[j].sp \in Nat
      BY <2>3, Frames
    <2> QED BY <2>1, <2>2, <2>3, <2>4
  <1>7. /\ FnOf(g) = f /\ HereOf(t, g) = Here(t) /\ base[g] = n /\ base[g - 1] \in Nat
        /\ n = base[g - 1] + m /\ m \in Nat
        /\ Over(t, f, Here(t).h, Ground(t, base), sp) /\ f \in DOMAIN unit.fns
        /\ Here(t).h \in Nat /\ Ground(t, base) \in Nat
        /\ \A j \in 1..n : handlers[j].sp <= Ground(t, base)
        /\ a + 1 <= Here(t).h
    BY <1>1, <1>2, <1>5, <1>6, Standing
  <1>8. PICK ground, h \in Nat : ground = Ground(t, base) /\ h = Here(t).h
    BY <1>7
  <1>9. ground <= bottom
    <2>1. ground + h <= sp
      BY <1>7, <1>8 DEF Over
    <2> QED BY <1>5, <1>6, <1>7, <1>8, <2>1
  <1>10. Ground(t, base) = Floor(base, g, m)
    BY <1>1 DEF Ground
  <1>11. /\ p \in DOMAIN t.at[f] /\ t.at[f][p].tries = Here(t).tries
         /\ Over(t, f, t.at[f][p].h, ground, bottom + 1)
    <2>1. Enters(t, f, Straight(Here(t), p, -a))
      <3>1. Straight(Here(t), p, -a) \in LeadsHere(t)
        BY <1>2, <1>5, Leads
      <3> QED BY <1>2, <1>5, <3>1, Standing
    <2>2. /\ p \in DOMAIN t.at[f] /\ t.at[f][p].tries = Here(t).tries
          /\ t.at[f][p].h <= h + (-a)
          /\ f \in t.exact => t.at[f][p].h = h + (-a)
      BY <1>8, <2>1 DEF Enters, Straight, Entry
    <2>3. PICK h1 : h1 = t.at[f][p].h
      OBVIOUS
    <2>4. h1 \in Nat
      BY <1>7, <2>2, <2>3, Tables DEF Given
    <2>5. Over(t, f, h, ground, sp)
      BY <1>7, <1>8
    <2>6. h1 <= h - a /\ (f \in t.exact => h1 = h - a) /\ bottom + 1 = sp - a
      BY <1>5, <1>6, <2>2, <2>3
    <2>7. Over(t, f, h1, ground, bottom + 1)
      BY <1>5, <1>6, <2>4, <2>5, <2>6 DEF Over
    <2> QED BY <2>2, <2>3, <2>7
  <1>12. /\ \A i \in 0..(g - 1) : frames'[i].bp = frames[i].bp /\ frames'[i].fn = frames[i].fn
         /\ \A i \in 0..(g - 2) : frames'[i].ip = frames[i].ip
         /\ frames'[g - 1].ip = p
         /\ frames'[g].fn = c /\ frames'[g].ip = 0 /\ frames'[g].bp = bottom
    <2>1. frames \in [0..(MaxFrames - 1) -> FrameRecord]
      BY DEF Given, IInv, FramesOK
    <2>2. \A i \in 0..(MaxFrames - 1) : frames[i] \in FrameRecord
      BY <2>1
    <2>3. \A i \in 0..(g - 1) : i \in 0..(MaxFrames - 1) /\ i # g
      BY <1>4, <1>6
    <2>4. \A i \in 0..(g - 2) : i \in 0..(MaxFrames - 1) /\ i # g /\ i # g - 1
      BY <1>4, <1>6
    <2>5. g - 1 \in 0..(MaxFrames - 1) /\ g \in 0..(MaxFrames - 1) /\ g - 1 # g
      BY <1>4, <1>6
    <2>6. \A i \in 0..(g - 1) : frames'[i].bp = frames[i].bp /\ frames'[i].fn = frames[i].fn
      BY <1>4, <2>1, <2>2, <2>3, <2>5 DEF FrameRecord
    <2>7. \A i \in 0..(g - 2) : frames'[i].ip = frames[i].ip
      BY <1>4, <2>1, <2>2, <2>4, <2>5 DEF FrameRecord
    <2>8. frames'[g - 1].ip = p
      BY <1>4, <2>1, <2>2, <2>5 DEF FrameRecord
    <2>9. frames'[g] = [fn |-> c, ip |-> 0, bp |-> bottom]
      BY <1>4, <2>1, <2>5
    <2> QED BY <2>6, <2>7, <2>8, <2>9
  <1>13. PICK base1 : base1 = Cut(base, g + 1, n)
    OBVIOUS
  <1>14. base \in [0..g -> Nat] /\ base[0] = 0
         /\ \A i, k \in 0..g : k <= i => base[k] <= base[i]
    BY <1>1 DEF Given, Fits, HandlersFit
  <1>15. /\ base1 \in [0..(g + 1) -> Nat] /\ base1[g + 1] = n
         /\ \A i \in 0..g : base1[i] = base[i] /\ base[i] <= n
    <2>1. \A i \in 0..g : i \in 0..(g + 1) /\ i <= g /\ i # g + 1
      BY <1>6
    <2>2. \A i \in 0..g : base[i] <= n
      BY <1>6, <1>7, <1>14, <2>1
    <2>3. base1 = [i \in 0..(g + 1) |-> IF i = g + 1 THEN n ELSE base[i]]
      BY <1>13 DEF Cut
    <2>4. \A i \in 0..(g + 1) : i = g + 1 \/ i \in 0..g
      BY <1>6
    <2>5. \A i \in 0..(g + 1) : base1[i] \in Nat
      BY <1>6, <1>14, <2>1, <2>3, <2>4
    <2>6. base1 \in [0..(g + 1) -> Nat]
      BY <2>3, <2>5
    <2> QED BY <1>6, <2>1, <2>2, <2>3, <2>6
  <1>16. HandlersFit(base1)'
    <2>1. base1[0] = 0
      BY <1>6, <1>14, <1>15
    <2>2. \A i, k \in 0..(g + 1) : k <= i => base1[k] <= base1[i]
      <3> TAKE i, k \in 0..(g + 1)
      <3>1. CASE i = g + 1
        <4>1. k = g + 1 \/ k \in 0..g
          BY <1>6
        <4>2. k \in 0..g => base1[k] <= n
          BY <1>15
        <4> QED BY <1>6, <1>15, <3>1, <4>1, <4>2
      <3>2. CASE i # g + 1
        <4>1. k <= i => i \in 0..g /\ k \in 0..g
          BY <1>6, <3>2
        <4> QED BY <1>14, <1>15, <4>1
      <3> QED BY <3>1, <3>2
    <2>3. ASSUME NEW j \in 1..n
          PROVE  /\ handlers[j].frame \in 1..(g + 1)
                 /\ base1[handlers[j].frame - 1] < j /\ j <= base1[handlers[j].frame]
                 /\ \A i \in 1..(j - 1) :
                      /\ handlers[i].frame <= handlers[j].frame
                      /\ handlers[i].sp <= handlers[j].sp
                 /\ \A i \in handlers[j].frame..g : handlers[j].sp <= frames'[i].bp
      <3>1. /\ handlers[j].frame \in 1..g
            /\ base[handlers[j].frame - 1] < j /\ j <= base[handlers[j].frame]
            /\ \A i \in 1..(j - 1) :
                 /\ handlers[i].frame <= handlers[j].frame
                 /\ handlers[i].sp <= handlers[j].sp
            /\ \A i \in handlers[j].frame..(g - 1) : handlers[j].sp <= frames[i].bp
        BY <1>1, <1>6 DEF Given, Fits, HandlersFit
      <3>2. handlers[j].frame - 1 \in 0..g /\ handlers[j].frame \in 0..g
            /\ handlers[j].frame \in 1..(g + 1)
        BY <1>6, <3>1
      <3>3. handlers[j].sp <= bottom
        <4>1. handlers[j].sp <= ground /\ handlers[j].sp \in Nat
          BY <1>6, <1>7, <1>8
        <4> QED BY <1>5, <1>9, <4>1
      <3>4. \A i \in handlers[j].frame..g : handlers[j].sp <= frames'[i].bp
        <4> TAKE i \in handlers[j].frame..g
        <4>1. CASE i = g
          BY <1>12, <3>3, <4>1
        <4>2. CASE i # g
          <5>1. i \in handlers[j].frame..(g - 1) /\ i \in 0..(g - 1)
            BY <1>6, <3>1, <4>2
          <5> QED BY <1>12, <3>1, <5>1
        <4> QED BY <4>1, <4>2
      <3> QED BY <1>15, <3>1, <3>2, <3>4
    <2>4. (g + 1) - 1 = g
      BY <1>6
    <2> QED BY <1>1, <1>4, <1>6, <1>15, <2>1, <2>2, <2>3, <2>4 DEF HandlersFit
  <1>17. ASSUME NEW i \in 1..(g - 1)
         PROVE  FrameFits(t, base1, i)'
    <2>1. /\ i \in Nat \ {0} /\ i \in 1..frameIndex /\ i < frameIndex /\ i < frameIndex'
          /\ i - 1 \in 0..(g - 2) /\ i - 1 \in 0..(g - 1) /\ i \in 0..(g - 1)
          /\ i \in 0..g /\ i - 1 \in 0..g
      <3>1. /\ i \in Nat \ {0} /\ i \in 1..g /\ i < g /\ i < g + 1
            /\ i - 1 \in 0..(g - 2) /\ i - 1 \in 0..(g - 1) /\ i \in 0..(g - 1)
            /\ i \in 0..g /\ i - 1 \in 0..g
        BY <1>6
      <3>2. frameIndex = g /\ frameIndex' = g + 1
        BY <1>1, <1>4
      <3> QED BY <3>1, <3>2
    <2>2. /\ frames'[i - 1].fn = FnOf(i) /\ frames'[i - 1].bp = frames[i - 1].bp
          /\ frames'[i - 1].ip = frames[i - 1].ip /\ frames'[i].bp = frames[i].bp
      BY <1>12, <2>1 DEF FnOf
    <2>3. base1[i - 1] = base[i - 1] /\ base1[i] = base[i] /\ base[i - 1] \in Nat
      BY <1>14, <1>15, <2>1
    <2>4. \A j \in (base[i - 1] + 1)..base[i] : handlers'[j] = handlers[j]
      BY <1>4
    <2>5. Height(i)' = Height(i)
      BY <2>1, <2>2 DEF Height
    <2> QED BY <2>1, <2>2, <2>3, <2>4, <2>5, FrameStays
  <1>18. FrameFits(t, base1, g)'
    <2>1. g - 1 \in 0..(g - 1) /\ g - 1 \in 0..g /\ g \in 0..g /\ g \in 1..frameIndex
      BY <1>1, <1>6
    <2>2. /\ frames'[g - 1].fn = FnOf(g) /\ frames'[g - 1].bp = frames[g - 1].bp
          /\ frames'[g - 1].ip = p
      BY <1>12, <2>1 DEF FnOf
    <2>3. base1[g - 1] = base[g - 1] /\ base1[g] = base[g - 1] + m
      BY <1>7, <1>15, <2>1
    <2>4. TriesAt(t, g, p) = Here(t).tries /\ p \in DOMAIN t.at[FnOf(g)]
      BY <1>7, <1>11 DEF TriesAt
    <2>5. m = Len(TriesAt(t, g, p)) /\ m <= Len(HereOf(t, g).tries)
          /\ \A k \in 0..(m - 1) : TriesAt(t, g, p)[k + 1] = HereOf(t, g).tries[k + 1]
      BY <1>1, <1>7, <2>4
    <2>6. Height(g)' = bottom + 1 /\ frames'[g].bp = bottom
      <3>1. g # frameIndex'
        BY <1>4, <1>6
      <3> QED BY <1>12, <3>1 DEF Height
    <2>7. Over(t, FnOf(g), t.at[FnOf(g)][p].h, Floor(base, g, m), Height(g)')
          /\ Floor(base, g, m) <= frames'[g].bp
      BY <1>7, <1>8, <1>9, <1>10, <1>11, <2>6
    <2>8. \A k \in 1..m : handlers'[base[g - 1] + k] = handlers[base[g - 1] + k]
      BY <1>4
    <2> QED BY <1>6, <1>7, <2>1, <2>2, <2>3, <2>4, <2>5, <2>7, <2>8, FrameMoves
  <1>19. FrameFits(t, base1, g + 1)'
    <2>1. (g + 1) - 1 = g /\ g + 1 = frameIndex'
      BY <1>4, <1>6
    <2>2. Enters(t, c, Entry(0, 0, <<>>))
      BY <1>5 DEF Given, Disciplined
    <2>3. 0 \in DOMAIN t.at[c] /\ t.at[c][0].tries = <<>> /\ t.at[c][0].h <= 0
      BY <2>2 DEF Enters, Entry
    <2>4. t.at[c][0].h = 0
      <3>1. t.at[c][0].h \in Nat
        BY <1>5, <2>3, Tables DEF Given
      <3> QED BY <2>3, <3>1
    <2>5. /\ FnOf(g + 1)' = c /\ Bottom(g + 1)' = bottom + unit.fns[c].locals
          /\ HereOf(t, g + 1)' = t.at[c][0] /\ Height(g + 1)' = sp'
      BY <1>12, <2>1 DEF FnOf, Bottom, HereOf, Height, Given
    <2>6. Len(t.at[c][0].tries) = 0 /\ 0..(0 - 1) = {}
      BY <2>3
    <2>7. Over(t, c, 0, Floor(base1, g + 1, 0)', sp')
      <3>1. Floor(base1, g + 1, 0)' = sp' /\ sp' \in Nat
        BY <1>4, <1>5, <2>5 DEF Floor
      <3> QED BY <3>1 DEF Over
    <2>8. base1[g + 1] = base1[g] + 0
      <3>1. g \in 0..g
        BY <1>6
      <3> QED BY <1>6, <1>7, <1>15, <3>1
    <2>9. ~(g + 1 < frameIndex') /\ frames'[g].ip = 0
      BY <1>6, <1>12, <2>1
    <2> QED BY <2>1, <2>3, <2>4, <2>5, <2>6, <2>7, <2>8, <2>9 DEF FrameFits
  <1>20. Fits(t, base1)'
    <2>1. frames'[0].bp = 0
      <3>1. 0 \in 0..(g - 1)
        BY <1>6
      <3> QED BY <1>12, <3>1 DEF Given, Fits
    <2>2. \A i \in 1..frameIndex' : FrameFits(t, base1, i)'
      <3> TAKE i \in 1..frameIndex'
      <3>1. i \in 1..(g - 1) \/ i = g \/ i = g + 1
        BY <1>4, <1>6
      <3> QED BY <1>17, <1>18, <1>19, <3>1
    <2> QED BY <1>16, <2>1, <2>2 DEF Fits
  <1> QED BY <1>20

-------------------------------------------------------------------------------
(* Going on with the next instruction, or with the one jumped to.          *)
LEMMA NextFits ==
  ASSUME NEW t, NEW base, NEW change \in Int, Given(t, base), unit' = unit, ~AtEnd, Advance,
         Straight(Here(t), NextIP, change) \in LeadsHere(t), sp' = sp + change
  PROVE  \E b : Fits(t, b)'
  <1>1. PICK q \in Nat : q = NextIP
    BY Current DEF Given
  <1>2. Goto(q) /\ UNCHANGED <<frameIndex, handlers>>
    BY <1>1 DEF Advance
  <1> QED BY <1>1, <1>2, StraightOn

LEMMA JumpFits ==
  ASSUME NEW t, NEW base, NEW change \in Int, Given(t, base), unit' = unit, ~AtEnd, Goto(instr.a),
         UNCHANGED <<frameIndex, handlers>>,
         Straight(Here(t), instr.a, change) \in LeadsHere(t), sp' = sp + change
  PROVE  \E b : Fits(t, b)'
  <1>1. PICK q : q = instr.a
    OBVIOUS
  <1>2. q \in Nat
    BY <1>1, Current DEF Given, Instrs
  <1> QED BY <1>1, <1>2, StraightOn

(* A conditional jump may also end the run.                                *)
LEMMA JumpToFits ==
  ASSUME NEW t, NEW base, NEW change \in Int, NEW backwards, Given(t, base), unit' = unit, ~AtEnd,
         JumpTo(instr.a, backwards), Running',
         Straight(Here(t), instr.a, change) \in LeadsHere(t), sp' = sp + change
  PROVE  \E b : Fits(t, b)'
  <1>1. Goto(instr.a) /\ UNCHANGED <<frameIndex, handlers>>
    BY DEF JumpTo, Halt, Running
  <1> QED BY <1>1, JumpFits

(* What every instruction says of its place.                               *)
LEMMA Fetched ==
  ASSUME NEW t, NEW base, NEW op, Given(t, base), Fetch(op)
  PROVE  ~AtEnd /\ instr.op = op /\ sp \in Nat /\ instr.a \in Nat
  BY FetchGives, Frames DEF Given

LEMMA DataFits ==
  ASSUME NEW t, NEW base, Given(t, base), unit' = unit, Data
  PROVE  \E b : Fits(t, b)'
  <1>1. CASE Constant
    BY <1>1, Fetched, Leads, NextFits DEF Constant, Push
  <1>2. CASE GetBuiltin
    BY <1>2, Fetched, Leads, NextFits DEF GetBuiltin, Push
  <1>3. CASE Closure
    BY <1>3, Fetched, Leads, NextFits DEF Closure, Push
  <1>4. CASE Pop
    <2>1. Fetch("Pop") /\ Advance /\ sp' = sp - 1
      BY <1>4 DEF Pop, Drop
    <2>2. sp' = sp + (-1) /\ ~AtEnd /\ instr.op = "Pop"
      BY <2>1, Fetched
    <2> QED BY <2>1, <2>2, Leads, NextFits
  <1>5. CASE Dup
    BY <1>5, Fetched, Leads, NextFits DEF Dup, Push
  <1>6. CASE Equal
    <2>1. Fetch("Equal") /\ Advance /\ sp' = sp - 2 + 1
      BY <1>6 DEF Equal, Replace
    <2>2. sp' = sp + (-1) /\ ~AtEnd /\ instr.op = "Equal"
      BY <2>1, Fetched
    <2> QED BY <2>1, <2>2, Leads, NextFits
  <1>7. CASE Not
    <2>1. Fetch("Not") /\ Advance /\ sp' = sp - 1 + 1
      BY <1>7 DEF Not, Replace
    <2>2. sp' = sp + 0 /\ ~AtEnd /\ instr.op = "Not"
      BY <2>1, Fetched
    <2> QED BY <2>1, <2>2, Leads, NextFits
  <1>8. CASE BuildList
    <2>1. Fetch("BuildList") /\ Advance /\ sp' = sp - instr.a + 1
      BY <1>8 DEF BuildList, Replace
    <2>2. PICK change : change = 1 - instr.a
      OBVIOUS
    <2>3. sp' = sp + change /\ change \in Int /\ ~AtEnd /\ instr.op = "BuildList"
      BY <2>1, <2>2, Fetched
    <2>4. Straight(Here(t), NextIP, change) \in LeadsHere(t)
      BY <2>2, <2>3, Leads
    <2> QED BY <2>1, <2>3, <2>4, NextFits
  <1> QED BY <1>1, <1>2, <1>3, <1>4, <1>5, <1>6, <1>7, <1>8 DEF Data

LEMMA NamesFit ==
  ASSUME NEW t, NEW base, Given(t, base), unit' = unit, Names, Running'
  PROVE  \E b : Fits(t, b)'
  <1>1. CASE GetGlobal
    <2>1. CASE instr.a \in DOMAIN globals \cup Builtins
      <3>1. Fetch("GetGlobal") /\ Advance /\ sp' = sp + 1
        BY <1>1, <2>1 DEF GetGlobal, Push
      <3> QED BY <3>1, Fetched, Leads, NextFits
    <2>2. CASE instr.a \notin DOMAIN globals \cup Builtins
      <3>1. Unwind(Exc("NameError"), stack)
        BY <1>1, <2>2 DEF GetGlobal
      <3> QED BY <3>1, UnwindFits
    <2> QED BY <2>1, <2>2
  <1>2. CASE SetGlobal
    <2>1. Fetch("SetGlobal") /\ Advance /\ sp' = sp - 1
      BY <1>2 DEF SetGlobal, Drop
    <2>2. sp' = sp + (-1) /\ ~AtEnd /\ instr.op = "SetGlobal"
      BY <2>1, Fetched
    <2> QED BY <2>1, <2>2, Leads, NextFits
  <1>3. CASE DeleteName
    <2>1. Fetch("DeleteName") /\ Advance /\ sp' = sp
      BY <1>3 DEF DeleteName, operands
    <2>2. sp' = sp + 0 /\ ~AtEnd /\ instr.op = "DeleteName"
      BY <2>1, Fetched
    <2> QED BY <2>1, <2>2, Leads, NextFits
  <1>4. CASE GetLocal
    <2>1. Fetch("GetLocal") /\ Advance /\ sp' = sp + 1
      BY <1>4 DEF GetLocal, Push
    <2> QED BY <2>1, Fetched, Leads, NextFits
  <1>5. CASE SetLocal
    <2>1. Fetch("SetLocal") /\ Advance /\ sp' = sp - 1
      BY <1>5 DEF SetLocal
    <2>2. sp' = sp + (-1) /\ ~AtEnd /\ instr.op = "SetLocal"
      BY <2>1, Fetched
    <2> QED BY <2>1, <2>2, Leads, NextFits
  <1> QED BY <1>1, <1>2, <1>3, <1>4, <1>5 DEF Names

LEMMA BranchesFit ==
  ASSUME NEW t, NEW base, Given(t, base), unit' = unit, Branches, Running'
  PROVE  \E b : Fits(t, b)'
  <1>1. CASE Jump
    <2>1. Fetch("Jump") /\ JumpTo(instr.a, instr.a < NextIP) /\ sp' = sp
      BY <1>1 DEF Jump, operands
    <2>2. sp' = sp + 0 /\ ~AtEnd /\ instr.op = "Jump"
      BY <2>1, Fetched
    <2>3. PICK backwards : backwards = (instr.a < NextIP)
      OBVIOUS
    <2> QED BY <2>1, <2>2, <2>3, Leads, JumpToFits
  <1>2. CASE JumpIfFalse
    <2>1. Fetch("JumpIfFalse") /\ sp' = sp - 1
      BY <1>2 DEF JumpIfFalse, Drop
    <2>2. sp' = sp + (-1) /\ ~AtEnd /\ instr.op = "JumpIfFalse"
      BY <2>1, Fetched
    <2>3. PICK backwards : backwards = (instr.a <= NextIP)
      OBVIOUS
    <2>4. Advance \/ JumpTo(instr.a, backwards)
      BY <1>2, <2>3 DEF JumpIfFalse
    <2> QED BY <2>2, <2>4, Leads, NextFits, JumpToFits
  <1>3. ASSUME NEW op \in {"JumpIfFalseOrPop", "JumpIfTrueOrPop"}, NEW jumps, JumpOrPop(op, jumps)
        PROVE  \E b : Fits(t, b)'
    <2>1. Fetch(op)
      BY <1>3 DEF JumpOrPop
    <2>2. ~AtEnd /\ instr.op = op /\ sp \in Nat
      BY <2>1, Fetched
    <2>3. PICK backwards : backwards = (instr.a <= NextIP)
      OBVIOUS
    <2>4. \/ JumpTo(instr.a, backwards) /\ sp' = sp
          \/ Advance /\ sp' = sp - 1
      BY <1>3, <2>3 DEF JumpOrPop, Drop, operands
    <2>5. CASE JumpTo(instr.a, backwards) /\ sp' = sp
      <3>1. sp' = sp + 0
        BY <2>2, <2>5
      <3> QED BY <2>2, <2>5, <3>1, Leads, JumpToFits
    <2>6. CASE Advance /\ sp' = sp - 1
      <3>1. sp' = sp + (-1)
        BY <2>2, <2>6
      <3> QED BY <2>2, <2>6, <3>1, Leads, NextFits
    <2> QED BY <2>4, <2>5, <2>6
  <1>4. CASE JumpIfFalseOrPop
    <2>1. PICK jumps : jumps = ~Truthy(StackAt(1))
      OBVIOUS
    <2> QED BY <1>3, <1>4, <2>1 DEF JumpIfFalseOrPop
  <1>5. CASE JumpIfTrueOrPop
    <2>1. PICK jumps : jumps = Truthy(StackAt(1))
      OBVIOUS
    <2> QED BY <1>3, <1>5, <2>1 DEF JumpIfTrueOrPop
  <1> QED BY <1>1, <1>2, <1>4, <1>5 DEF Branches

LEMMA LoopsFit ==
  ASSUME NEW t, NEW base, Given(t, base), unit' = unit, Loops, Running'
  PROVE  \E b : Fits(t, b)'
  <1>1. CASE GetIter
    <2>1. Fetch("GetIter") /\ Advance /\ sp' = sp - 1 + 1
      BY <1>1 DEF GetIter, Replace
    <2>2. sp' = sp + 0 /\ ~AtEnd /\ instr.op = "GetIter"
      BY <2>1, Fetched
    <2> QED BY <2>1, <2>2, Leads, NextFits
  <1>2. CASE ForIter
    <2>1. ~AtEnd /\ instr.op = "ForIter" /\ sp \in Nat
      BY <1>2, Fetched DEF ForIter
    <2>2. \/ Advance /\ sp' = sp + 1
          \/ Goto(instr.a) /\ UNCHANGED <<frameIndex, handlers>> /\ sp' = sp - 1
          \/ Unwind(Exc("TypeError"), stack)
      BY <1>2 DEF ForIter, Drop
    <2>3. CASE Advance /\ sp' = sp + 1
      BY <2>1, <2>3, Leads, NextFits
    <2>4. CASE Goto(instr.a) /\ UNCHANGED <<frameIndex, handlers>> /\ sp' = sp - 1
      <3>1. sp' = sp + (-1)
        BY <2>1, <2>4
      <3> QED BY <2>1, <2>4, <3>1, Leads, JumpFits
    <2> QED BY <2>2, <2>3, <2>4, UnwindFits
  <1>3. CASE ListAppend
    <2>1. Fetch("ListAppend") /\ Advance /\ sp' = sp - 1
      BY <1>3 DEF ListAppend
    <2>2. sp' = sp + (-1) /\ ~AtEnd /\ instr.op = "ListAppend"
      BY <2>1, Fetched
    <2> QED BY <2>1, <2>2, Leads, NextFits
  <1>4. CASE UnpackSequence
    <2>1. ~AtEnd /\ instr.op = "UnpackSequence" /\ sp \in Nat /\ instr.a \in Nat
      BY <1>4, Fetched DEF UnpackSequence
    <2>2. \/ Advance /\ sp' = sp - 1 + instr.a
          \/ Unwind(Exc("ValueError"), stack)
      BY <1>4 DEF UnpackSequence
    <2>3. CASE Advance /\ sp' = sp - 1 + instr.a
      <3>1. PICK change : change = instr.a - 1
        OBVIOUS
      <3>2. change \in Int /\ sp' = sp + change
        BY <2>1, <2>3, <3>1
      <3>3. Straight(Here(t), NextIP, change) \in LeadsHere(t)
        BY <2>1, <3>1, Leads
      <3> QED BY <2>1, <2>3, <3>2, <3>3, NextFits
    <2> QED BY <2>2, <2>3, UnwindFits
  <1> QED BY <1>1, <1>2, <1>3, <1>4 DEF Loops

(* A builtin leaves its result where the callee was.                       *)
LEMMA ReplacesCall ==
  ASSUME NEW t, NEW base, Given(t, base), unit' = unit, Fetch("Call"), NEW v,
         Replace(Takes, v), Advance
  PROVE  \E b : Fits(t, b)'
  <1>1. ~AtEnd /\ instr.op = "Call" /\ sp \in Nat /\ instr.a \in Nat /\ Takes = instr.a + 1
    BY Fetched, CallGives DEF Given
  <1>2. PICK change : change = -instr.a
    OBVIOUS
  <1>3. sp' = sp + change /\ change \in Int
    BY <1>1, <1>2 DEF Replace
  <1>4. Straight(Here(t), NextIP, change) \in LeadsHere(t)
    BY <1>1, <1>2, Leads
  <1> QED BY <1>1, <1>3, <1>4, NextFits

LEMMA CallsFit ==
  ASSUME NEW t, NEW base, Given(t, base), unit' = unit, Calls, Running'
  PROVE  \E b : Fits(t, b)'
  <1>1. CASE CallPrint
    BY <1>1, ReplacesCall DEF CallPrint
  <1>2. CASE CallRange
    <2>1. Fetch("Call")
      BY <1>2 DEF CallRange
    <2>2. \/ Replace(Takes, [k |-> "range", n |-> StackAt(1).n]) /\ Advance
          \/ Unwind(Exc("TypeError"), stack)
      BY <1>2 DEF CallRange
    <2> QED BY <2>1, <2>2, ReplacesCall, UnwindFits
  <1>3. CASE CallAsk
    <2>1. Fetch("Call")
      BY <1>3 DEF CallAsk
    <2>2. PICK answer \in Answers :
            \/ Replace(Takes, Num(IF answer = "yes" THEN 1 ELSE 0)) /\ Advance
            \/ Unwind(Exc("ValueError"), stack)
      BY <1>3 DEF CallAsk
    <2> QED BY <2>1, <2>2, ReplacesCall, UnwindFits
  <1>4. CASE CallClosure
    BY <1>4, CallFits
  <1>5. CASE CallTooDeep
    <2>1. Unwind(Exc("RecursionError"), WithLocals(callee.n))
      BY <1>5 DEF CallTooDeep
    <2> QED BY <2>1, UnwindFits
  <1>6. CASE CallRefused
    <2>1. Unwind(Exc("TypeError"), stack)
      BY <1>6 DEF CallRefused
    <2> QED BY <2>1, UnwindFits
  <1> QED BY <1>1, <1>2, <1>3, <1>4, <1>5, <1>6 DEF Calls

LEMMA HandlingFits ==
  ASSUME NEW t, NEW base, Given(t, base), unit' = unit, Handling, Running'
  PROVE  \E b : Fits(t, b)'
  <1>1. CASE SetupExcept
    <2>1. Fetch("SetupExcept") /\ sp' = sp
      BY <1>1 DEF SetupExcept, operands
    <2>2. /\ handlers' = Append(handlers, [frame |-> frameIndex, sp |-> sp, target |-> instr.a])
          /\ Goto(NextIP) /\ UNCHANGED frameIndex
      BY <1>1 DEF SetupExcept
    <2>3. ~AtEnd /\ instr.op = "SetupExcept"
      BY <2>1, Fetched
    <2> QED BY <2>1, <2>2, <2>3, SetupFits
  <1>2. CASE PopExcept
    <2>1. Fetch("PopExcept") /\ sp' = sp /\ Goto(NextIP) /\ UNCHANGED frameIndex
      BY <1>2 DEF PopExcept, operands
    <2>2. ~AtEnd /\ instr.op = "PopExcept"
      BY <2>1, Fetched
    <2>3. handlers # <<>>
      <3>1. Here(t).tries # <<>> /\ Here(t).tries \in Seq(Nat)
        BY <2>2, Standing
      <3>2. Len(Here(t).tries) \in Nat \ {0}
        BY <3>1
      <3>3. Len(handlers) = base[frameIndex - 1] + Len(Here(t).tries)
            /\ base[frameIndex - 1] \in Nat
        BY Standing
      <3>4. Len(handlers) # 0
        BY <3>2, <3>3
      <3> QED BY <3>4
    <2>4. handlers' = SubSeq(handlers, 1, Len(handlers) - 1)
      BY <1>2, <2>3 DEF PopExcept
    <2> QED BY <2>1, <2>2, <2>4, PopExceptFits
  <1>3. CASE Raise
    <2>1. Unwind(Thrown(StackAt(1)), stack)
      BY <1>3 DEF Raise
    <2> QED BY <2>1, UnwindFits
  <1>4. CASE RaiseFrom
    <2>1. Unwind(Thrown(StackAt(2)), stack)
      BY <1>4 DEF RaiseFrom
    <2> QED BY <2>1, UnwindFits
  <1>5. CASE Assert
    <2>1. ~AtEnd /\ instr.op = "Assert" /\ sp \in Nat
      BY <1>5, Fetched DEF Assert
    <2>2. \/ Advance /\ sp' = sp - 2
          \/ Unwind([k |-> "AssertionError", n |-> StackAt(1).n], stack)
      BY <1>5 DEF Assert, Drop
    <2>3. CASE Advance /\ sp' = sp - 2
      <3>1. sp' = sp + (-2)
        BY <2>1, <2>3
      <3> QED BY <2>1, <2>3, <3>1, Leads, NextFits
    <2> QED BY <2>2, <2>3, UnwindFits
  <1> QED BY <1>1, <1>2, <1>3, <1>4, <1>5 DEF Handling

LEMMA FlowFits ==
  ASSUME NEW t, NEW base, Given(t, base), unit' = unit, Flow, Running'
  PROVE  \E b : Fits(t, b)'
  <1>1. CASE EndModule
    BY <1>1 DEF EndModule, Halt, Running
  <1>2. ASSUME NEW v, ReturnWith(v), Here(t).tries = <<>>
        PROVE  \E b : Fits(t, b)'
    <2>1. /\ frameIndex > 1 /\ frameIndex' = frameIndex - 1 /\ UNCHANGED <<frames, handlers>>
          /\ sp' = currentFrame.bp + 1
      BY <1>2 DEF ReturnWith, Halt, Running
    <2> QED BY <1>2, <2>1, ReturnFits
  <1>3. CASE EndFunction
    <2>1. AtEnd /\ ReturnWith(None)
      BY <1>3 DEF EndFunction
    <2>2. Here(t).tries = <<>>
      BY <2>1, Standing
    <2> QED BY <1>2, <2>1, <2>2
  <1>4. CASE ReturnValue
    <2>1. ~AtEnd /\ instr.op = "ReturnValue" /\ ReturnWith(StackAt(1))
      BY <1>4, Fetched DEF ReturnValue
    <2>2. Here(t).tries = <<>>
      BY <2>1, Standing
    <2> QED BY <1>2, <2>1, <2>2
  <1>5. CASE ReturnNone
    <2>1. ~AtEnd /\ instr.op = "ReturnNone" /\ ReturnWith(None)
      BY <1>5, Fetched DEF ReturnNone
    <2>2. Here(t).tries = <<>>
      BY <2>1, Standing
    <2> QED BY <1>2, <2>1, <2>2
  <1> QED BY <1>1, <1>3, <1>4, <1>5 DEF Flow

-------------------------------------------------------------------------------
(* What the invariant does not speak of may change.                        *)
LEMMA Resting ==
  ASSUME NEW t, NEW base, Fits(t, base), UNCHANGED <<unit, sp, frames, frameIndex, handlers>>
  PROVE  Fits(t, base)'
  <1>1. \A i : /\ FnOf(i)' = FnOf(i) /\ HereOf(t, i)' = HereOf(t, i)
               /\ Bottom(i)' = Bottom(i) /\ Height(i)' = Height(i)
    BY DEF FnOf, HereOf, Bottom, Height
  <1>2. \A i, k : Floor(base, i, k)' = Floor(base, i, k)
    BY <1>1 DEF Floor
  <1>3. \A i, k, q : HandlerFits(t, base, i, k, q)' <=> HandlerFits(t, base, i, k, q)
    BY <1>1, <1>2 DEF HandlerFits
  <1>4. \A i : FrameFits(t, base, i)' <=> FrameFits(t, base, i)
    BY <1>1, <1>2, <1>3 DEF FrameFits
  <1>5. HandlersFit(base)' <=> HandlersFit(base)
    BY DEF HandlersFit
  <1> QED BY <1>4, <1>5 DEF Fits

LEMMA FitsAtFirst ==
  ASSUME NEW t, Init, Disciplined(unit, t)
  PROVE  \E b : Fits(t, b)
  <1>1. PICK base : base = [i \in 0..1 |-> 0]
    OBVIOUS
  <1>2. /\ unit \in Units /\ sp = 0 /\ frameIndex = 1 /\ handlers = <<>>
        /\ frames[0] = [fn |-> 1, ip |-> 0, bp |-> 0]
    BY DEF Init
  <1>3. 1 \in DOMAIN unit.fns /\ unit.fns[1].locals = 0
    BY <1>2, Programs DEF Disciplined
  <1>4. Enters(t, 1, Entry(0, 0, <<>>))
    BY <1>3 DEF Disciplined
  <1>5. 0 \in DOMAIN t.at[1] /\ t.at[1][0].tries = <<>> /\ t.at[1][0].h <= 0
    BY <1>4 DEF Enters, Entry
  <1>6. t.at[1][0].h = 0
    BY <1>3, <1>5, Tables
  <1>7. base \in [0..1 -> Nat] /\ base[0] = 0 /\ base[1] = 0
    BY <1>1
  <1>8. HandlersFit(base)
    BY <1>2, <1>7 DEF HandlersFit
  <1>9. FrameFits(t, base, 1)
    <2>1. /\ FnOf(1) = 1 /\ HereOf(t, 1) = t.at[1][0] /\ Bottom(1) = 0 /\ Height(1) = 0
          /\ frames[1 - 1].ip = 0
      BY <1>2, <1>3 DEF FnOf, HereOf, Bottom, Height
    <2>2. Len(t.at[1][0].tries) = 0 /\ 0..(0 - 1) = {}
      BY <1>5
    <2>3. Floor(base, 1, 0) = 0
      BY <2>1 DEF Floor
    <2>4. Over(t, 1, 0, 0, 0)
      BY DEF Over
    <2>5. base[1] = base[1 - 1] + 0
      BY <1>7
    <2>6. 0 \in DOMAIN t.at[1]
      BY <1>5
    <2> QED BY <1>2, <1>6, <2>1, <2>2, <2>3, <2>4, <2>5, <2>6 DEF FrameFits
  <1>10. Fits(t, base)
    BY <1>2, <1>8, <1>9 DEF Fits
  <1> QED BY <1>10

LEMMA SameUnit == [Next]_vars => unit' = unit
  BY DEF Next, vars, Cancel, CancelAtPoll, Panic, Flow, Branches, Data, Names, Loops, Calls,
         Handling, EndModule, EndFunction, ReturnValue, ReturnNone, Jump, JumpIfFalse,
         JumpIfFalseOrPop, JumpIfTrueOrPop, JumpOrPop, Constant, GetBuiltin, Closure, Pop, Dup,
         Equal, Not, BuildList, GetGlobal, SetGlobal, DeleteName, GetLocal, SetLocal, GetIter,
         ForIter, ListAppend, UnpackSequence, CallPrint, CallRange, CallAsk, CallClosure,
         CallTooDeep, CallRefused, SetupExcept, PopExcept, Raise, RaiseFrom, Assert, Fetch, Tick

LEMMA KeptByAll ==
  ASSUME NEW t, IInv, Disciplined(unit, t), Kept(t), [Next]_vars
  PROVE  Kept(t)'
  <1> SUFFICES ASSUME Running' PROVE \E b : Fits(t, b)'
    BY DEF Kept
  <1>1. unit' = unit
    BY SameUnit
  <1>2. CASE UNCHANGED vars \/ Cancel
    <2>1. UNCHANGED <<unit, operands, calls, outcome>>
      BY <1>2 DEF vars, Cancel
    <2>2. UNCHANGED <<unit, sp, frames, frameIndex, handlers>> /\ Running
      BY <2>1 DEF operands, calls, outcome, Running
    <2>3. PICK base : Fits(t, base)
      BY <2>2 DEF Kept
    <2> QED BY <2>2, <2>3, Resting
  <1>3. CASE CancelAtPoll \/ Panic
    BY <1>3 DEF CancelAtPoll, Panic, Halt, Running
  <1>4. CASE Flow \/ Branches \/ Data \/ Names \/ Loops \/ Calls \/ Handling
    <2>1. Running
      BY <1>4 DEF Flow, Branches, Data, Names, Loops, Calls,
         Handling, EndModule, EndFunction, ReturnValue, ReturnNone, Jump, JumpIfFalse,
         JumpIfFalseOrPop, JumpIfTrueOrPop, JumpOrPop, Constant, GetBuiltin, Closure, Pop, Dup,
         Equal, Not, BuildList, GetGlobal, SetGlobal, DeleteName, GetLocal, SetLocal, GetIter,
         ForIter, ListAppend, UnpackSequence, CallPrint, CallRange, CallAsk, CallClosure,
         CallTooDeep, CallRefused, SetupExcept, PopExcept, Raise, RaiseFrom, Assert, Fetch, Tick
    <2>2. PICK base : Fits(t, base)
      BY <2>1 DEF Kept
    <2>3. Given(t, base)
      BY <2>1, <2>2 DEF Given
    <2> QED BY <1>1, <1>4, <2>3, FlowFits, BranchesFit, DataFits, NamesFit, LoopsFit, CallsFit,
               HandlingFits
  <1> QED BY <1>2, <1>3, <1>4 DEF Next

-------------------------------------------------------------------------------
(* Programs with tables, one for each.                                     *)
DisciplinedBy(tables) == \A u \in Units : Disciplined(u, tables[u])

Invariant(tables) == IInv /\ Kept(tables[unit])

LEMMA InvariantKept ==
  ASSUME NEW tables, DisciplinedBy(tables)
  PROVE  /\ Init => Invariant(tables)
         /\ Invariant(tables) /\ [Next]_vars => Invariant(tables)'
  <1>1. ASSUME Init PROVE Invariant(tables)
    <2>1. IInv
      BY <1>1, Initially
    <2>2. PICK t : t = tables[unit]
      OBVIOUS
    <2>3. Disciplined(unit, t)
      BY <2>1, <2>2 DEF DisciplinedBy, IInv
    <2> QED BY <1>1, <2>1, <2>2, <2>3, FitsAtFirst DEF Invariant, Kept
  <1>2. ASSUME Invariant(tables), [Next]_vars PROVE Invariant(tables)'
    <2>1. IInv /\ Kept(tables[unit])
      BY <1>2 DEF Invariant
    <2>2. PICK t : t = tables[unit]
      OBVIOUS
    <2>3. Disciplined(unit, t) /\ Kept(t)
      BY <2>1, <2>2 DEF DisciplinedBy, IInv, Kept
    <2>4. IInv' /\ Kept(t)'
      BY <1>2, <2>1, <2>3, Inductive, KeptByAll
    <2>5. tables[unit'] = t
      BY <1>2, <2>2, SameUnit
    <2> QED BY <2>4, <2>5 DEF Invariant, Kept
  <1> QED BY <1>1, <1>2

LEMMA Within ==
  ASSUME NEW t, NEW base, Given(t, base)
  PROVE  StacksNest
  <1>1. /\ frameIndex \in 1..MaxFrames /\ sp \in Nat
        /\ DOMAIN handlers = 1..Len(handlers) /\ Len(handlers) \in Nat
        /\ \A j \in DOMAIN handlers : handlers[j].sp \in Nat
    BY Frames
  <1>2. PICK ground, h \in Nat : ground = Ground(t, base) /\ h = Here(t).h
    BY Standing
  <1>3. ground + h <= sp
    BY <1>2, Standing DEF Over
  <1>4. \A j \in DOMAIN handlers : handlers[j].sp <= ground
    BY <1>2, Standing
  <1>5. PICK bottom : bottom = Bottom(frameIndex)
    OBVIOUS
  <1>6. bottom \in Nat /\ bottom <= ground
        /\ bottom = currentFrame.bp + unit.fns[currentFrame.fn].locals
    <2>1. frameIndex \in 1..frameIndex /\ currentFrame = frames[frameIndex - 1]
      BY <1>1 DEF currentFrame
    <2>2. bottom \in Nat
      BY <1>5, <2>1, Frames
    <2>3. bottom <= ground
      BY <1>2, <1>5, Standing
    <2> QED BY <1>5, <2>1, <2>2, <2>3 DEF Bottom, FnOf
  <1>7. HandlersNest
    <2>1. \A j \in DOMAIN handlers :
            /\ handlers[j].frame \in 1..frameIndex
            /\ \A i \in 1..(j - 1) :
                 /\ handlers[i].frame <= handlers[j].frame
                 /\ handlers[i].sp <= handlers[j].sp
      BY DEF Given, Fits, HandlersFit
    <2>2. \A j \in DOMAIN handlers : handlers[j].frame <= frameIndex
      BY <1>1, <2>1
    <2>3. \A j \in DOMAIN handlers : handlers[j].sp <= sp
      BY <1>1, <1>2, <1>3, <1>4
    <2> QED BY <2>1, <2>2, <2>3 DEF HandlersNest
  <1>8. OperandsAboveLocals
    <2>1. sp >= bottom
      BY <1>1, <1>2, <1>3, <1>6
    <2>2. ASSUME NEW i \in 1..(frameIndex - 1)
          PROVE  frames[i].bp >= frames[i - 1].bp + unit.fns[frames[i - 1].fn].locals
      <3>1. i \in 1..frameIndex /\ i < frameIndex /\ i \in 0..(MaxFrames - 1)
        BY <1>1
      <3>2. FrameFits(t, base, i)
        BY <3>1 DEF Given, Fits
      <3>3. PICK m : m = Len(HereOf(t, i).tries)
        OBVIOUS
      <3>4. m \in Nat
        BY <3>1, <3>3, Frames, Tables DEF HereOf, Given
      <3>5. Floor(base, i, m) <= frames[i].bp
        BY <3>1, <3>2, <3>3 DEF FrameFits
      <3>6. Bottom(i) <= Floor(base, i, m)
        <4>1. Bottom(i) \in Nat
          BY <3>1, Frames
        <4>2. CASE m = 0
          BY <4>1, <4>2 DEF Floor
        <4>3. CASE m # 0
          <5>1. m - 1 \in 0..(m - 1)
            BY <3>4, <4>3
          <5>2. HandlerFits(t, base, i, m - 1, HereOf(t, i).tries[(m - 1) + 1])
            BY <3>2, <3>3, <5>1 DEF FrameFits
          <5>3. base[i - 1] \in Nat
            <6>1. i - 1 \in 0..frameIndex
              BY <1>1
            <6> QED BY <6>1 DEF Given, Fits, HandlersFit
          <5>4. base[i - 1] + (m - 1) + 1 = base[i - 1] + m
            BY <3>4, <5>3
          <5> QED BY <4>3, <5>2, <5>4 DEF HandlerFits, Floor
        <4> QED BY <4>2, <4>3
      <3>7. Bottom(i) <= frames[i].bp
        <4>1. Bottom(i) \in Nat /\ frames[i].bp \in Nat
          BY <3>1, Frames
        <4>2. Floor(base, i, m) \in Nat
          <5>1. m # 0 => base[i - 1] + m \in DOMAIN handlers
            <6>1. base[i] = base[i - 1] + m
              BY <3>2, <3>3 DEF FrameFits
            <6>2. i \in 0..frameIndex /\ i - 1 \in 0..frameIndex /\ frameIndex \in 0..frameIndex
                  /\ i <= frameIndex
              BY <1>1
            <6>3. base[i] \in Nat /\ base[i - 1] \in Nat /\ base[i] <= Len(handlers)
              BY <6>2 DEF Given, Fits, HandlersFit
            <6> QED BY <1>1, <3>4, <6>1, <6>3
          <5> QED BY <1>1, <4>1, <5>1 DEF Floor
        <4> QED BY <3>5, <3>6, <4>1, <4>2
      <3> QED BY <1>1, <3>1, <3>7, Frames DEF Bottom, FnOf
    <2> QED BY <1>6, <2>1, <2>2 DEF OperandsAboveLocals
  <1>9. TakesItsOwn
    <2> SUFFICES ASSUME ~AtEnd
                 PROVE  /\ sp - Takes >= bottom
                        /\ \A j \in DOMAIN handlers : sp - Takes >= handlers[j].sp
      BY <1>6 DEF TakesItsOwn
    <2>1. Takes <= h
      BY <1>2, Standing
    <2>2. Takes \in Nat
      <3>1. instr.a \in Nat
        BY Current DEF Given, Instrs
      <3> QED BY <3>1 DEF Takes, TakenBy
    <2>3. sp - Takes >= ground
      BY <1>1, <1>2, <1>3, <2>1, <2>2
    <2> QED BY <1>1, <1>2, <1>4, <1>6, <2>2, <2>3
  <1> QED BY <1>7, <1>8, <1>9 DEF StacksNest

(* While a program with a table runs, every handler is that of a try that  *)
(* is on, in a frame that is active, at a height within the operand stack, *)
(* the newest last, and each frame's locals and operands stay above those  *)
(* of its caller; and an instruction reads and pops only operands that are *)
(* its frame's, and above what an exception would go back to.              *)
THEOREM StacksAlwaysNest ==
  ASSUME NEW tables, DisciplinedBy(tables)
  PROVE  Spec => []StacksNest
  <1>1. Invariant(tables) => StacksNest
    BY Within DEF Invariant, Kept, Given, DisciplinedBy, IInv, StacksNest, HandlersNest,
                  OperandsAboveLocals, TakesItsOwn
  <1>2. (Init => Invariant(tables))
        /\ (Invariant(tables) /\ [Next]_vars => Invariant(tables)')
    BY InvariantKept
  <1> QED BY <1>1, <1>2, PTL DEF Spec

-------------------------------------------------------------------------------
(* Only the end of the module's code, or a return from it, which leaves no *)
(* frame, ends a run by itself.                                            *)
LEMMA EndsByItself ==
  ASSUME Running, [Next]_vars, status' = "done"
  PROVE  EndModule \/ frameIndex' = 0
  <1>1. \A exc, s : ~(Unwind(exc, s) /\ status' = "done")
    BY DEF Unwind, Halt, outcome, Running
  <1>2. ~UNCHANGED outcome /\ ~UNCHANGED vars
    BY DEF outcome, vars, Running
  <1>3. ASSUME NEW target, NEW backwards, JumpTo(target, backwards)
        PROVE  FALSE
    BY <1>2, <1>3 DEF JumpTo, Halt, outcome
  <1>4. ASSUME Flow PROVE EndModule \/ frameIndex' = 0
    BY <1>2, <1>4 DEF Flow, EndFunction, ReturnValue, ReturnNone, ReturnWith
  <1>5. ~(Cancel \/ CancelAtPoll \/ Panic)
    BY <1>2 DEF Cancel, CancelAtPoll, Panic, Halt
  <1>6. ~Branches
    BY <1>2, <1>3 DEF Branches, Jump, JumpIfFalse, JumpIfFalseOrPop, JumpIfTrueOrPop, JumpOrPop
  <1>7. ~Data
    BY <1>2 DEF Data, Constant, GetBuiltin, Closure, Pop, Dup, Equal, Not, BuildList
  <1>8. ~Names
    BY <1>1, <1>2 DEF Names, GetGlobal, SetGlobal, DeleteName, GetLocal, SetLocal
  <1>9. ~Loops
    BY <1>1, <1>2 DEF Loops, GetIter, ForIter, ListAppend, UnpackSequence
  <1>10. ~Calls
    BY <1>1, <1>2 DEF Calls, CallPrint, CallRange, CallAsk, CallClosure, CallTooDeep, CallRefused
  <1>11. ~Handling
    BY <1>1, <1>2 DEF Handling, SetupExcept, PopExcept, Raise, RaiseFrom, Assert
  <1> QED BY <1>2, <1>4, <1>5, <1>6, <1>7, <1>8, <1>9, <1>10, <1>11 DEF Next

LEMMA EmptyAtEnd ==
  ASSUME NEW t, NEW base, Given(t, base), EndsEmpty(unit, t), EndModule
  PROVE  sp = 0
  <1>1. AtEnd /\ frameIndex = 1
    BY DEF EndModule
  <1>2. frames[0].bp = 0 /\ frames[0].fn = 1 /\ currentFrame = frames[0]
    BY <1>1 DEF Given, Fits, IInv, FramesOK, FramesReal, currentFrame
  <1>3. Here(t).tries = <<>> /\ currentFrame.ip = Len(unit.fns[1].code)
        /\ currentFrame.ip \in DOMAIN t.at[1]
    BY <1>1, <1>2, Standing DEF Code
  <1>4. 1 \in t.exact /\ Here(t).h = 0
    BY <1>2, <1>3 DEF EndsEmpty, Here
  <1>5. Ground(t, base) = 0
    <2>1. Len(Here(t).tries) = 0
      BY <1>3
    <2>2. unit.fns[1].locals = 0
      BY DEF Given, Disciplined
    <2> QED BY <1>1, <1>2, <2>1, <2>2 DEF Ground, Floor, Bottom, FnOf
  <1>6. Over(t, 1, 0, 0, sp)
    BY <1>2, <1>4, <1>5, Standing
  <1> QED BY <1>4, <1>6 DEF Over

(* A program whose table says that the module ends with no operand leaves  *)
(* none: whatever it called and caught, nothing piles up on the stack.     *)
THEOREM NothingIsLeft ==
  ASSUME NEW tables, DisciplinedBy(tables), \A u \in Units : EndsEmpty(u, tables[u])
  PROVE  Spec => []LeavesNothing
  <1>1. Init => LeavesNothing
    BY DEF Init, LeavesNothing
  <1>2. ASSUME Invariant(tables), LeavesNothing, [Next]_vars
        PROVE  LeavesNothing'
    <2> SUFFICES ASSUME status' = "done", frameIndex' = 1 PROVE sp' = 0
      BY DEF LeavesNothing
    <2>1. CASE Running
      <3>1. EndModule
        BY <1>2, <2>1, EndsByItself
      <3>2. PICK t, base : t = tables[unit] /\ Fits(t, base)
        BY <1>2, <2>1 DEF Invariant, Kept
      <3>3. Given(t, base) /\ EndsEmpty(unit, t)
        BY <1>2, <2>1, <3>2 DEF Given, Invariant, DisciplinedBy, IInv
      <3>4. sp = 0
        BY <3>1, <3>3, EmptyAtEnd
      <3> QED BY <3>1, <3>4 DEF EndModule, operands
    <2>2. CASE ~Running
      <3>1. UNCHANGED vars
        BY <1>2, <2>2 DEF Next, Cancel, CancelAtPoll, Panic, Flow, Branches, Data, Names, Loops,
           Calls, Handling, EndModule, EndFunction, ReturnValue, ReturnNone, Jump, JumpIfFalse,
           JumpIfFalseOrPop, JumpIfTrueOrPop, JumpOrPop, Constant, GetBuiltin, Closure, Pop, Dup,
           Equal, Not, BuildList, GetGlobal, SetGlobal, DeleteName, GetLocal, SetLocal, GetIter,
           ForIter, ListAppend, UnpackSequence, CallPrint, CallRange, CallAsk, CallClosure,
           CallTooDeep, CallRefused, SetupExcept, PopExcept, Raise, RaiseFrom, Assert, Fetch, Tick
      <3> QED BY <1>2, <3>1 DEF vars, LeavesNothing, outcome, calls, operands
    <2> QED BY <2>1, <2>2
  <1>3. (Init => Invariant(tables))
        /\ (Invariant(tables) /\ [Next]_vars => Invariant(tables)')
    BY InvariantKept
  <1> QED BY <1>1, <1>2, <1>3, PTL DEF Spec
===============================================================================
