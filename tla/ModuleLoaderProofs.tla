------------------------- MODULE ModuleLoaderProofs -------------------------
(***************************************************************************)
(* Proofs about ModuleLoader, for any set of threads, any set of modules   *)
(* and any set of programs: the marks are locks on the modules' bodies,    *)
(* and what is in the cache has been loaded completely.                    *)
(***************************************************************************)
EXTENDS ModuleLoader, SequenceTheorems, WellFoundedInduction, TLAPS

-------------------------------------------------------------------------------
(* The inductive invariant.  That a body is run by one thread at a time    *)
(* rests on the marks; that the marks are taken away by their owners rests *)
(* on how the bodies nest: every body but the top one is in the middle of  *)
(* the import that the next one is.                                        *)

(* Body i of thread t is at the import that body i + 1 serves. *)
Importing(t, i) ==
  /\ stack[t][i].phase = "body"
  /\ stack[t][i].next <= Len(program.imports[stack[t][i].mod])
  /\ stack[t][i + 1].mod = program.imports[stack[t][i].mod][stack[t][i].next]

Nested(t) ==
  /\ Depth(t) >= 1
  /\ stack[t][1].mod = t
  /\ stack[t][1].phase = "body"
  /\ \A i \in Held(t) : stack[t][i].mod \in Modules
  /\ \A i \in 1..(Depth(t) - 1) : Importing(t, i)
  /\ call[t] # "none" => InBody(t) /\ ~AtEnd(t)

Nesting == \A t \in Threads : Nested(t)

LockInv == TypeOK /\ Nesting /\ MarksOwned /\ BodiesExclusive

USE DEF Depth, Held

-------------------------------------------------------------------------------
(* Lemmas about the stack of bodies of one thread. *)

(* Entering a body puts it on top and leaves the others. *)
LEMMA Pushed ==
  ASSUME NEW s \in Seq(Frame), NEW f \in Frame
  PROVE  /\ Append(s, f) \in Seq(Frame)
         /\ Len(Append(s, f)) = Len(s) + 1
         /\ \A i \in 1..Len(s) : Append(s, f)[i] = s[i]
         /\ Append(s, f)[Len(s) + 1] = f
  OBVIOUS

(* Going on in a body changes the top only. *)
LEMMA Changed ==
  ASSUME NEW s \in Seq(Frame), Len(s) >= 1, NEW f \in Frame
  PROVE  /\ [s EXCEPT ![Len(s)] = f] \in Seq(Frame)
         /\ Len([s EXCEPT ![Len(s)] = f]) = Len(s)
         /\ \A i \in 1..(Len(s) - 1) : [s EXCEPT ![Len(s)] = f][i] = s[i]
         /\ [s EXCEPT ![Len(s)] = f][Len(s)] = f
  <1>1. Len(s) \in 1..Len(s)
    BY LenProperties
  <1>2. QED
    BY <1>1, ExceptSeq

(* Leaving a body removes the top. *)
LEMMA Popped ==
  ASSUME NEW s \in Seq(Frame), Len(s) >= 1
  PROVE  /\ SubSeq(s, 1, Len(s) - 1) \in Seq(Frame)
         /\ Len(SubSeq(s, 1, Len(s) - 1)) = Len(s) - 1
         /\ \A i \in 1..(Len(s) - 1) : SubSeq(s, 1, Len(s) - 1)[i] = s[i]
  <1>1. SubSeq(s, 1, Len(s) - 1) \in Seq(Frame)
    OBVIOUS
  <1>2. Len(SubSeq(s, 1, Len(s) - 1)) = Len(s) - 1
    <2>1. PICK n \in Nat : n = Len(s) - 1
      BY LenProperties
    <2>2. \A i \in 1..n : s[i] \in Frame
      BY <2>1, ElementOfSeq
    <2>3. Len(SubSeq(s, 1, n)) = IF 1 <= n THEN n - 1 + 1 ELSE 0
      BY <2>2, SubSeqProperties
    <2>4. QED
      BY <2>1, <2>3
  <1>3. \A i \in 1..(Len(s) - 1) : SubSeq(s, 1, Len(s) - 1)[i] = s[i]
    BY <1>2
  <1>4. QED
    BY <1>1, <1>2, <1>3

(* The body a thread is in, and what it imports next. *)
LEMMA Current ==
  ASSUME TypeOK, Nesting, NEW t \in Threads
  PROVE  /\ stack[t] \in Seq(Frame) /\ Depth(t) \in Nat /\ Depth(t) >= 1
         /\ Top(t) \in Frame
         /\ Imports(t) \in Seq(Modules)
         /\ Depth(t) > 1 => Top(t).mod \in Modules
         /\ Depth(t) = 1 => Top(t).mod = t /\ Top(t).phase = "body"
         /\ ~AtEnd(t) => Wanted(t) \in Modules
  <1>1. stack[t] \in Seq(Frame) /\ Depth(t) \in Nat /\ Depth(t) >= 1
    BY DEF TypeOK, Nesting, Nested, Depth
  <1>2. Top(t) \in Frame
    BY <1>1, ElementOfSeq DEF Top, Depth
  <1>3. Imports(t) \in Seq(Modules)
    BY <1>2 DEF TypeOK, IsProgram, Imports, Frame
  <1>4. Depth(t) > 1 => Top(t).mod \in Modules
    BY <1>1 DEF Nesting, Nested, Held, Top
  <1>5. Depth(t) = 1 => Top(t).mod = t /\ Top(t).phase = "body"
    BY DEF Nesting, Nested, Top
  <1>6. ~AtEnd(t) => Wanted(t) \in Modules
    BY <1>2, <1>3, ElementOfSeq DEF AtEnd, Wanted, Frame
  <1>7. QED
    BY <1>1, <1>2, <1>3, <1>4, <1>5, <1>6

(* The bottom is the main program, in the middle of its body. *)
LEMMA Inner ==
  ASSUME TypeOK, Nesting, NEW t \in Threads, Top(t).phase # "body"
  PROVE  Depth(t) > 1
  <1>1. Len(stack[t]) # 1
    BY Current
  <1>2. Len(stack[t]) \in Nat /\ Len(stack[t]) >= 1
    BY Current
  <1>3. \A n \in Nat : n >= 1 => n = 1 \/ n > 1
    OBVIOUS
  <1>4. QED
    BY <1>1, <1>2, <1>3

-------------------------------------------------------------------------------
(* Types. *)
LEMMA TypeInit == Init => TypeOK
  BY LoaderAssumption DEF Init, TypeOK, Frame, Calls, Names

(* The three changes of a stack keep its type. *)
LEMMA StackTypes ==
  ASSUME TypeOK, Nesting, NEW t \in Threads
  PROVE  /\ \A g \in Frame : SetTop(t, g) \in [Threads -> Seq(Frame)]
         /\ \A g \in Frame : [stack EXCEPT ![t] = Append(@, g)] \in [Threads -> Seq(Frame)]
         /\ [stack EXCEPT ![t] = SubSeq(@, 1, Len(@) - 1)] \in [Threads -> Seq(Frame)]
  <1>1. stack \in [Threads -> Seq(Frame)] /\ stack[t] \in Seq(Frame) /\ Len(stack[t]) >= 1
    BY Current DEF TypeOK, Depth
  <1>2. ASSUME NEW g \in Frame PROVE SetTop(t, g) \in [Threads -> Seq(Frame)]
    BY <1>1, Changed DEF SetTop
  <1>3. ASSUME NEW g \in Frame
        PROVE [stack EXCEPT ![t] = Append(@, g)] \in [Threads -> Seq(Frame)]
    BY <1>1, Pushed
  <1>4. [stack EXCEPT ![t] = SubSeq(@, 1, Len(@) - 1)] \in [Threads -> Seq(Frame)]
    BY <1>1, Popped
  <1>5. QED
    BY <1>2, <1>3, <1>4

LEMMA TypeStep == TypeOK /\ Nesting /\ [Next]_vars => TypeOK'
  <1> SUFFICES ASSUME TypeOK, Nesting, [Next]_vars PROVE TypeOK'
    OBVIOUS
  <1>0. CASE UNCHANGED vars
    BY <1>0 DEF vars, TypeOK, IsProgram
  <1>1. ASSUME NEW t \in Threads, Step(t) PROVE TypeOK'
    <2>c. /\ Depth(t) > 1 => Top(t).mod \in Modules
          /\ Top(t) \in Frame
          /\ ~AtEnd(t) => Wanted(t) \in Modules
      BY Current
    <2>s. /\ \A g \in Frame : SetTop(t, g) \in [Threads -> Seq(Frame)]
          /\ \A g \in Frame : [stack EXCEPT ![t] = Append(@, g)] \in [Threads -> Seq(Frame)]
          /\ [stack EXCEPT ![t] = SubSeq(@, 1, Len(@) - 1)] \in [Threads -> Seq(Frame)]
      BY StackTypes
    <2>f. /\ [Top(t) EXCEPT !.phase = "body"] \in Frame
          /\ [Top(t) EXCEPT !.phase = "published"] \in Frame
          /\ [Top(t) EXCEPT !.next = @ + 1] \in Frame
      BY <2>c DEF Frame
    <2>1. CASE Import(t) \/ CacheHit(t) \/ CacheMiss(t) \/ Circular(t)
      BY <2>1 DEF TypeOK, IsProgram, Import, CacheHit, CacheMiss, Circular, Calls
    <2>2. CASE FailMain(t) \/ FinishMain(t)
      BY <2>2 DEF TypeOK, IsProgram, FailMain, FinishMain, Calls
    <2>3. CASE Mark(t)
      <3>1. Wanted(t) \in Modules
        BY <2>3, <2>c DEF Mark, Nesting, Nested
      <3>2. [mod |-> Wanted(t), next |-> 1, phase |-> "marked"] \in Frame
        BY <3>1 DEF Frame, Names
      <3>3. stack' \in [Threads -> Seq(Frame)]
        BY <3>2, <2>s, <2>3 DEF Mark, BeginLoad
      <3>4. QED
        BY <2>3, <3>1, <3>3 DEF TypeOK, IsProgram, Mark, BeginLoad, Calls
    <2>4. CASE Unloadable(t) \/ FailBody(t) \/ Unmark(t)
      BY <2>4, <2>s DEF TypeOK, IsProgram, Unloadable, FailBody, Unmark, Return, Calls
    <2>5. CASE StartBody(t)
      BY <2>5, <2>s, <2>f DEF TypeOK, IsProgram, StartBody
    <2>6. CASE Resume(t)
      BY <2>6, <2>s, <2>f DEF TypeOK, IsProgram, Resume, Calls
    <2>7. CASE Publish(t)
      <3>1. stack' \in [Threads -> Seq(Frame)]
        BY <2>7, <2>s, <2>f DEF Publish
      <3>2. objects' \in [Modules -> Nat]
        BY <2>7, <2>c DEF TypeOK, Publish
      <3>3. QED
        BY <2>7, <2>c, <3>1, <3>2 DEF TypeOK, IsProgram, Publish
    <2>8. QED
      BY <1>1, <2>1, <2>2, <2>3, <2>4, <2>5, <2>6, <2>7 DEF Step
  <1>2. QED
    BY <1>0, <1>1 DEF Next

-------------------------------------------------------------------------------
(* Nesting.  A thread's step leaves the stacks of the others alone. *)
LEMMA NestingInit == Init => Nesting
  BY DEF Init, Nesting, Nested, Depth, Held

LEMMA StackKept ==
  ASSUME Nesting, NEW u \in Threads, program' = program, stack'[u] = stack[u],
         call'[u] # "none" => (InBody(u) /\ ~AtEnd(u))'
  PROVE  Nested(u)'
  <1>1. Nested(u)
    BY DEF Nesting
  <1>2. \A i : Importing(u, i) => Importing(u, i)'
    BY DEF Importing
  <1>3. QED
    BY <1>1, <1>2 DEF Nested

LEMMA OthersNest ==
  ASSUME Nesting, NEW u \in Threads, program' = program,
         stack'[u] = stack[u], call'[u] = call[u], status'[u] = status[u]
  PROVE  Nested(u)'
  <1>1. call[u] # "none" => InBody(u) /\ ~AtEnd(u)
    BY DEF Nesting, Nested
  <1>2. InBody(u) /\ ~AtEnd(u) => (InBody(u) /\ ~AtEnd(u))'
    BY DEF InBody, AtEnd, Imports, Top
  <1>3. QED
    BY <1>1, <1>2, StackKept

(* A step within the top body, after which the thread is at an import if   *)
(* a call of LoadModule is under way.                                      *)
LEMMA WithinBody ==
  ASSUME TypeOK, Nesting, NEW t \in Threads, NEW f \in Frame,
         program' = program, stack'[t] = [stack[t] EXCEPT ![Len(stack[t])] = f],
         f.mod = Top(t).mod, Depth(t) = 1 => f.phase = "body",
         call'[t] # "none" => (InBody(t) /\ ~AtEnd(t))'
  PROVE  Nested(t)'
  <1>1. /\ stack[t] \in Seq(Frame) /\ Depth(t) \in Nat /\ Depth(t) >= 1
        /\ stack[t][1].mod = t
        /\ stack[t][1].phase = "body"
        /\ \A i \in Held(t) : stack[t][i].mod \in Modules
        /\ \A i \in 1..(Depth(t) - 1) : Importing(t, i)
    BY Current DEF Nesting, Nested
  <1>2. /\ Depth(t)' = Depth(t)
        /\ \A i \in 1..(Depth(t) - 1) : stack'[t][i] = stack[t][i]
        /\ stack'[t][Depth(t)] = f
    BY <1>1, Changed DEF Depth
  <1>3. \A i \in 1..Depth(t) : stack'[t][i].mod = stack[t][i].mod
    BY <1>1, <1>2 DEF Top
  <1>4. stack'[t][1].mod = t /\ stack'[t][1].phase = "body"
    BY <1>1, <1>2, <1>3
  <1>5. \A i \in Held(t)' : stack'[t][i].mod \in Modules
    BY <1>1, <1>2, <1>3 DEF Held
  <1>6. ASSUME NEW i \in 1..(Depth(t) - 1) PROVE Importing(t, i)'
    <2>1. i + 1 \in 1..Depth(t) /\ stack'[t][i] = stack[t][i]
      BY <1>1, <1>2
    <2>2. Importing(t, i) /\ stack'[t][i + 1].mod = stack[t][i + 1].mod
      BY <1>1, <1>3, <2>1
    <2>3. QED
      BY <2>1, <2>2 DEF Importing
  <1>7. QED
    BY <1>1, <1>2, <1>4, <1>5, <1>6 DEF Nested

(* Entering the body of the module that the top body imports. *)
LEMMA IntoBody ==
  ASSUME TypeOK, Nesting, NEW t \in Threads, NEW f \in Frame,
         InBody(t), ~AtEnd(t), f.mod = Wanted(t),
         program' = program, stack'[t] = Append(stack[t], f), call'[t] = "none"
  PROVE  Nested(t)'
  <1>1. /\ stack[t] \in Seq(Frame) /\ Depth(t) \in Nat /\ Depth(t) >= 1
        /\ stack[t][1].mod = t
        /\ stack[t][1].phase = "body"
        /\ \A i \in Held(t) : stack[t][i].mod \in Modules
        /\ \A i \in 1..(Depth(t) - 1) : Importing(t, i)
    BY Current DEF Nesting, Nested
  <1>2. /\ Depth(t)' = Depth(t) + 1
        /\ \A i \in 1..Depth(t) : stack'[t][i] = stack[t][i]
        /\ stack'[t][Depth(t) + 1] = f
    BY <1>1, Pushed DEF Depth
  <1>3. f.mod \in Modules
    BY Current
  <1>4. \A i \in Held(t)' : stack'[t][i].mod \in Modules
    BY <1>1, <1>2, <1>3 DEF Held
  <1>5. ASSUME NEW i \in 1..Depth(t) PROVE Importing(t, i)'
    <2>1. CASE i < Depth(t)
      <3>1. Importing(t, i) /\ stack'[t][i] = stack[t][i] /\ stack'[t][i + 1] = stack[t][i + 1]
        BY <1>1, <1>2, <2>1
      <3>2. QED
        BY <3>1 DEF Importing
    <2>2. CASE i = Depth(t)
      <3>1. stack'[t][i] = Top(t) /\ stack'[t][i + 1] = f
        BY <1>1, <1>2, <2>2 DEF Top
      <3>2. Top(t) \in Frame /\ Len(Imports(t)) \in Nat
        BY Current, LenProperties
      <3>3. QED
        BY <3>1, <3>2 DEF Importing, InBody, AtEnd, Imports, Wanted, Frame
    <2>3. QED
      BY <1>1, <2>1, <2>2
  <1>6. QED
    BY <1>1, <1>2, <1>4, <1>5 DEF Nested

(* Leaving a body: the one below is at the import that has just been served. *)
LEMMA OutOfBody ==
  ASSUME TypeOK, Nesting, NEW t \in Threads, Depth(t) > 1, status[t] = "running",
         program' = program, status'[t] = status[t],
         stack'[t] = SubSeq(stack[t], 1, Len(stack[t]) - 1)
  PROVE  Nested(t)'
  <1>1. /\ stack[t] \in Seq(Frame) /\ Depth(t) \in Nat /\ Depth(t) >= 1
        /\ stack[t][1].mod = t
        /\ stack[t][1].phase = "body"
        /\ \A i \in Held(t) : stack[t][i].mod \in Modules
        /\ \A i \in 1..(Depth(t) - 1) : Importing(t, i)
    BY Current DEF Nesting, Nested
  <1>2. /\ Depth(t)' = Depth(t) - 1
        /\ \A i \in 1..(Depth(t) - 1) : stack'[t][i] = stack[t][i]
    BY <1>1, Popped DEF Depth
  <1>3. \A i \in Held(t)' : stack'[t][i].mod \in Modules
    BY <1>1, <1>2 DEF Held
  <1>4. ASSUME NEW i \in 1..(Depth(t)' - 1) PROVE Importing(t, i)'
    <2>1. Importing(t, i) /\ stack'[t][i] = stack[t][i] /\ stack'[t][i + 1] = stack[t][i + 1]
      BY <1>1, <1>2
    <2>2. QED
      BY <2>1 DEF Importing
  <1>5. (InBody(t) /\ ~AtEnd(t))'
    <2>1. Importing(t, Depth(t) - 1) /\ stack'[t][Depth(t) - 1] = stack[t][Depth(t) - 1]
      BY <1>1, <1>2
    <2>2. Top(t)' = stack[t][Depth(t) - 1]
      BY <1>2, <2>1 DEF Top
    <2>3. Top(t)' \in Frame
      BY <1>1, <2>2, ElementOfSeq DEF Depth
    <2>4. program.imports[Top(t)'.mod] \in Seq(Modules)
      BY <2>3 DEF TypeOK, IsProgram, Frame
    <2>5. QED
      BY <2>1, <2>2, <2>3, <2>4, LenProperties DEF Importing, InBody, AtEnd, Imports, Frame
  <1>6. QED
    BY <1>1, <1>2, <1>3, <1>4, <1>5 DEF Nested

LEMMA NestingStep == TypeOK /\ Nesting /\ [Next]_vars => Nesting'
  <1> SUFFICES ASSUME TypeOK, Nesting, [Next]_vars PROVE Nesting'
    OBVIOUS
  <1>0. CASE UNCHANGED vars
    BY <1>0, OthersNest DEF vars, Nesting
  <1>1. ASSUME NEW t \in Threads, Step(t) PROVE Nesting'
    <2>o. ASSUME NEW u \in Threads, u # t PROVE Nested(u)'
      <3>1. /\ program' = program
            /\ stack'[u] = stack[u] /\ call'[u] = call[u] /\ status'[u] = status[u]
        BY <1>1, <2>o DEF Step, TypeOK, Import, CacheHit, CacheMiss, Circular, Mark, BeginLoad,
             Unloadable, StartBody, Resume, FailBody, FailMain, Publish, Unmark, FinishMain,
             Return, SetTop
      <3>2. QED
        BY <3>1, OthersNest
    <2>n. Nested(t) /\ Top(t) \in Frame
      BY Current DEF Nesting
    <2>1. CASE Import(t) \/ CacheHit(t) \/ CacheMiss(t) \/ Circular(t)
      <3>1. InBody(t) /\ ~AtEnd(t)
        BY <2>1, <2>n DEF Nested, Import, CacheHit, CacheMiss, Circular
      <3>2. program' = program /\ stack' = stack /\ status' = status
        BY <2>1 DEF Import, CacheHit, CacheMiss, Circular
      <3>3. (InBody(t) /\ ~AtEnd(t))'
        BY <3>1, <3>2 DEF InBody, AtEnd, Imports, Top
      <3>4. QED
        BY <2>o, <3>2, <3>3, StackKept DEF Nesting
    <2>2. CASE FailMain(t) \/ FinishMain(t)
      <3>1. program' = program /\ stack' = stack /\ call'[t] = "none"
        BY <2>2 DEF FailMain, FinishMain, TypeOK
      <3>2. QED
        BY <2>o, <3>1, StackKept DEF Nesting
    <2>3. CASE Mark(t)
      <3>1. InBody(t) /\ ~AtEnd(t)
        BY <2>3, <2>n DEF Nested, Mark
      <3>2. /\ program' = program
            /\ stack'[t] = Append(stack[t], [mod |-> Wanted(t), next |-> 1, phase |-> "marked"])
            /\ call'[t] = "none"
        BY <2>3 DEF Mark, BeginLoad, TypeOK
      <3>3. [mod |-> Wanted(t), next |-> 1, phase |-> "marked"] \in Frame
        BY <3>1, Current DEF Frame, Names
      <3>4. QED
        BY <2>o, <3>1, <3>2, <3>3, IntoBody DEF Nesting
    <2>4. CASE Unloadable(t) \/ FailBody(t) \/ Unmark(t)
      <3>1. Depth(t) > 1 /\ status[t] = "running"
        BY <2>4, <2>n, Current DEF Nested, Unloadable, FailBody, Unmark, Fails, InBody, Top
      <3>2. /\ program' = program /\ status' = status
            /\ stack'[t] = SubSeq(stack[t], 1, Len(stack[t]) - 1)
        BY <2>4 DEF Unloadable, FailBody, Unmark, Return, TypeOK
      <3>3. QED
        BY <2>o, <3>1, <3>2, OutOfBody DEF Nesting
    <2>5. CASE StartBody(t) \/ Resume(t) \/ Publish(t)
      <3>1. PICK f \in Frame : /\ f.mod = Top(t).mod
                               /\ Depth(t) = 1 => f.phase = "body"
                               /\ stack' = SetTop(t, f)
        <4>1. CASE StartBody(t)
          BY <4>1, <2>n DEF StartBody, Frame
        <4>2. CASE Resume(t)
          <5>1. [Top(t) EXCEPT !.next = @ + 1] \in Frame
            BY <2>n DEF Frame
          <5>2. QED
            BY <4>2, <2>n, <5>1 DEF Resume, InBody, Frame
        <4>3. CASE Publish(t)
          <5>1. [Top(t) EXCEPT !.phase = "published"] \in Frame
            BY <2>n DEF Frame
          <5>2. QED
            <6>1. Depth(t) # 1
              <7>1. Depth(t) > 1
                BY <4>3 DEF Publish
              <7>2. Depth(t) \in Nat
                BY Current
              <7>3. \A n \in Nat : n > 1 => n # 1
                OBVIOUS
              <7>4. QED
                BY <7>1, <7>2, <7>3
            <6>2. QED
              BY <4>3, <5>1, <2>n, <6>1 DEF Publish, Frame
        <4>4. QED
          BY <2>5, <4>1, <4>2, <4>3
      <3>2. program' = program /\ stack'[t] = [stack[t] EXCEPT ![Len(stack[t])] = f]
        BY <2>5, <3>1 DEF StartBody, Resume, Publish, SetTop, TypeOK
      <3>3. call'[t] = "none"
        BY <2>5, <2>n DEF StartBody, Resume, Publish, TypeOK, Nested, InBody
      <3>4. QED
        BY <2>o, <3>1, <3>2, <3>3, WithinBody DEF Nesting
    <2>6. QED
      BY <1>1, <2>1, <2>2, <2>3, <2>4, <2>5 DEF Step
  <1>2. QED
    BY <1>0, <1>1 DEF Next

-------------------------------------------------------------------------------
(* The marks.  In terms of what each thread holds, a step keeps the bodies *)
(* of every thread, or adds one to a thread together with its mark, or     *)
(* removes the last one together with its mark.                            *)

Owned(s, m) == \E u \in Threads : \E i \in 2..Len(s[u]) : m = s[u][i].mod

LEMMA OwnedMarks ==
  /\ MarksOwned <=> \A m : m \in loading <=> Owned(stack, m)
  /\ MarksOwned' <=> \A m : m \in loading' <=> Owned(stack', m)
  BY DEF MarksOwned, Owned

(* No body is entered or left. *)
LEMMA SameBodies ==
  ASSUME MarksOwned, BodiesExclusive, loading' = loading,
         \A u \in Threads : /\ Depth(u)' = Depth(u)
                            /\ \A i \in Held(u) : stack'[u][i].mod = stack[u][i].mod
  PROVE  MarksOwned' /\ BodiesExclusive'
  <1>1. MarksOwned'
    BY DEF MarksOwned
  <1>2. BodiesExclusive'
    BY DEF BodiesExclusive
  <1>3. QED
    BY <1>1, <1>2

(* A body is entered, whose module was not marked. *)
LEMMA BodyEntered ==
  ASSUME TypeOK, Nesting, MarksOwned, BodiesExclusive, NEW t \in Threads, NEW f \in Frame,
         f.mod \notin loading, loading' = loading \cup {f.mod},
         stack' = [stack EXCEPT ![t] = Append(@, f)]
  PROVE  MarksOwned' /\ BodiesExclusive'
  <1>1. /\ stack \in [Threads -> Seq(Frame)] /\ stack[t] \in Seq(Frame)
        /\ Len(stack[t]) \in Nat /\ Len(stack[t]) >= 1
    BY Current DEF TypeOK
  <1>2. \A u \in Threads \ {t} : stack'[u] = stack[u]
    BY <1>1
  <1>3. /\ Len(stack'[t]) = Len(stack[t]) + 1
        /\ \A i \in 1..Len(stack[t]) : stack'[t][i] = stack[t][i]
        /\ stack'[t][Len(stack[t]) + 1] = f
    BY <1>1, Pushed
  <1>4. \A i \in Held(t)' :
          \/ i \in Held(t) /\ stack'[t][i] = stack[t][i]
          \/ i = Len(stack[t]) + 1 /\ stack'[t][i] = f
    <2>0. Held(t)' = 2..(Len(stack[t]) + 1)
      BY <1>3
    <2>1. TAKE i \in Held(t)'
    <2>a. i \in 2..(Len(stack[t]) + 1)
      BY <2>0
    <2>2. CASE i = Len(stack[t]) + 1
      BY <1>3, <2>2
    <2>3. CASE i # Len(stack[t]) + 1
      <3>1. i \in 2..Len(stack[t])
        BY <1>1, <2>a, <2>3
      <3>2. QED
        BY <1>1, <1>3, <3>1
    <2>4. QED
      BY <2>2, <2>3
  <1>5. \A u \in Threads : \A i \in Held(u) : stack[u][i].mod # f.mod
    BY DEF MarksOwned
  <1>6. \A m : Owned(stack', m) <=> Owned(stack, m) \/ m = f.mod
    <2>1. ASSUME NEW m, Owned(stack', m) PROVE Owned(stack, m) \/ m = f.mod
      BY <1>2, <1>4, <2>1 DEF Owned
    <2>2. ASSUME NEW u \in Threads, NEW i \in Held(u)
          PROVE  i \in Held(u)' /\ stack'[u][i] = stack[u][i]
      BY <1>1, <1>2, <1>3
    <2>3. Len(stack[t]) + 1 \in Held(t)' /\ stack'[t][Len(stack[t]) + 1] = f
      BY <1>1, <1>3
    <2>4. QED
      BY <2>1, <2>2, <2>3 DEF Owned
  <1>7. MarksOwned'
    BY <1>6, OwnedMarks
  <1>8. BodiesExclusive'
    BY <1>2, <1>4, <1>5 DEF BodiesExclusive
  <1>9. QED
    BY <1>7, <1>8

(* The top body is left. *)
LEMMA BodyLeft ==
  ASSUME TypeOK, Nesting, MarksOwned, BodiesExclusive, NEW t \in Threads, Depth(t) > 1,
         loading' = loading \ {Top(t).mod},
         stack' = [stack EXCEPT ![t] = SubSeq(@, 1, Len(@) - 1)]
  PROVE  MarksOwned' /\ BodiesExclusive'
  <1>1. /\ stack \in [Threads -> Seq(Frame)] /\ stack[t] \in Seq(Frame)
        /\ Len(stack[t]) \in Nat /\ Len(stack[t]) >= 1
    BY Current DEF TypeOK
  <1>2. \A u \in Threads \ {t} : stack'[u] = stack[u]
    BY <1>1
  <1>3. /\ Len(stack'[t]) = Len(stack[t]) - 1
        /\ \A i \in 1..(Len(stack[t]) - 1) : stack'[t][i] = stack[t][i]
    BY <1>1, Popped
  <1>4. \A u \in Threads : \A i \in Held(u)' :
          i \in Held(u) /\ stack'[u][i] = stack[u][i] /\ stack[u][i].mod # Top(t).mod
    <2>1. ASSUME NEW i \in Held(t)' 
          PROVE  i \in Held(t) /\ stack'[t][i] = stack[t][i] /\ i # Len(stack[t])
      BY <1>1, <1>3
    <2>2. Len(stack[t]) \in Held(t)
      BY <1>1
    <2>3. QED
      BY <1>2, <2>1, <2>2 DEF BodiesExclusive, Top
  <1>5. \A u \in Threads : \A i \in Held(u) :
          i \in Held(u)' \/ stack[u][i].mod = Top(t).mod
    BY <1>1, <1>2, <1>3 DEF Top
  <1>6. BodiesExclusive'
    BY <1>4 DEF BodiesExclusive
  <1>7. MarksOwned'
    <2>1. ASSUME NEW m, Owned(stack', m) PROVE Owned(stack, m) /\ m # Top(t).mod
      BY <1>4, <2>1 DEF Owned
    <2>2. ASSUME NEW m, Owned(stack, m), m # Top(t).mod PROVE Owned(stack', m)
      BY <1>4, <1>5, <2>2 DEF Owned
    <2>3. QED
      BY <2>1, <2>2, OwnedMarks
  <1>8. QED
    BY <1>6, <1>7

LEMMA MarksStep ==
  TypeOK /\ Nesting /\ MarksOwned /\ BodiesExclusive /\ [Next]_vars
    => MarksOwned' /\ BodiesExclusive'
  <1> SUFFICES ASSUME TypeOK, Nesting, MarksOwned, BodiesExclusive, [Next]_vars
               PROVE  MarksOwned' /\ BodiesExclusive'
    OBVIOUS
  <1>0. CASE UNCHANGED vars
    BY <1>0, SameBodies DEF vars
  <1>1. ASSUME NEW t \in Threads, Step(t) PROVE MarksOwned' /\ BodiesExclusive'
    <2>n. Nested(t) /\ Top(t) \in Frame /\ stack[t] \in Seq(Frame)
      BY Current DEF Nesting
    <2>1. CASE Import(t) \/ CacheHit(t) \/ CacheMiss(t) \/ Circular(t) \/ FailMain(t)
                 \/ FinishMain(t)
      BY <2>1, SameBodies DEF Import, CacheHit, CacheMiss, Circular, FailMain, FinishMain
    <2>2. CASE Mark(t)
      <3>1. InBody(t) /\ ~AtEnd(t) /\ Wanted(t) \notin loading
        BY <2>2, <2>n DEF Nested, Mark
      <3> DEFINE f == [mod |-> Wanted(t), next |-> 1, phase |-> "marked"]
      <3>2. f \in Frame /\ f.mod = Wanted(t)
        BY <3>1, Current DEF Frame, Names
      <3>3. /\ loading' = loading \cup {f.mod}
            /\ stack' = [stack EXCEPT ![t] = Append(@, f)]
        BY <2>2 DEF Mark, BeginLoad
      <3>4. QED
        BY <3>1, <3>2, <3>3, BodyEntered
    <2>3. CASE Unloadable(t) \/ FailBody(t) \/ Unmark(t)
      <3>1. Depth(t) > 1
        BY <2>3, <2>n, Current DEF Nested, Unloadable, FailBody, Unmark, Fails, InBody, Top
      <3>2. /\ loading' = loading \ {Top(t).mod}
            /\ stack' = [stack EXCEPT ![t] = SubSeq(@, 1, Len(@) - 1)]
        BY <2>3 DEF Unloadable, FailBody, Unmark, Return
      <3>3. QED
        BY <3>1, <3>2, BodyLeft
    <2>4. CASE StartBody(t) \/ Resume(t) \/ Publish(t)
      <3>1. PICK f \in Frame : f.mod = Top(t).mod /\ stack' = SetTop(t, f)
        <4>1. /\ [Top(t) EXCEPT !.phase = "body"] \in Frame
              /\ [Top(t) EXCEPT !.phase = "published"] \in Frame
              /\ [Top(t) EXCEPT !.next = @ + 1] \in Frame
          BY <2>n DEF Frame
        <4>2. QED
          BY <2>4, <2>n, <4>1 DEF StartBody, Resume, Publish, Frame
      <3>2. /\ loading' = loading
            /\ \A u \in Threads \ {t} : stack'[u] = stack[u]
            /\ stack'[t] = [stack[t] EXCEPT ![Len(stack[t])] = f]
        BY <2>4, <3>1 DEF StartBody, Resume, Publish, SetTop, TypeOK
      <3>3. /\ Len(stack'[t]) = Len(stack[t])
            /\ \A i \in Held(t) : stack'[t][i].mod = stack[t][i].mod
        <4>1. Len(stack[t]) >= 1 /\ Len(stack[t]) \in Nat
          BY Current
        <4>2. /\ Len(stack'[t]) = Len(stack[t])
              /\ \A i \in 1..(Len(stack[t]) - 1) : stack'[t][i] = stack[t][i]
              /\ stack'[t][Len(stack[t])] = f
          BY <2>n, <3>2, <4>1, Changed
        <4>3. QED
          BY <3>1, <4>1, <4>2 DEF Top
      <3>4. QED
        BY <3>2, <3>3, SameBodies
    <2>5. QED
      BY <1>1, <2>1, <2>2, <2>3, <2>4 DEF Step
  <1>2. QED
    BY <1>0, <1>1 DEF Next

LEMMA LockInit == Init => LockInv
  <1>1. Init => MarksOwned /\ BodiesExclusive
    BY DEF Init, MarksOwned, BodiesExclusive
  <1>2. QED
    BY <1>1, TypeInit, NestingInit DEF LockInv

LEMMA Locking == Spec => []LockInv
  <1>1. LockInv /\ [Next]_vars => LockInv'
    BY TypeStep, NestingStep, MarksStep DEF LockInv
  <1>2. QED
    BY LockInit, <1>1, PTL DEF Spec

(* The type invariant of the loader. *)
THEOREM Typing == Spec => []TypeOK
  <1>1. LockInv => TypeOK
    BY DEF LockInv
  <1>2. QED
    BY Locking, <1>1, PTL

(* The mark of a module is a lock: however many threads import, a body is  *)
(* run by one of them at a time, and once.                                 *)
THEOREM BodiesAreExclusive == Spec => []BodiesExclusive
  <1>1. LockInv => BodiesExclusive
    BY DEF LockInv
  <1>2. QED
    BY Locking, <1>1, PTL

(* No path through LoadModule leaves a mark behind. *)
THEOREM MarksAreOwned == Spec => []MarksOwned
  <1>1. LockInv => MarksOwned
    BY DEF LockInv
  <1>2. QED
    BY Locking, <1>1, PTL

-------------------------------------------------------------------------------
(* The cache.  A body that is not done has in the cache what it has been   *)
(* through, unless it catches errors; a body in the phase "published" is   *)
(* in the cache itself, and so is what an import has just returned.        *)
Served(t, i) ==
  LET f == stack[t][i] IN
  /\ f.phase = "published" => f.mod \in cached
  /\ f.mod \notin program.catches =>
       \A k \in 1..(f.next - 1) :
         k <= Len(program.imports[f.mod]) => program.imports[f.mod][k] \in cached

CacheInv ==
  /\ CacheComplete
  /\ \A t \in Threads : \A i \in 1..Depth(t) : Served(t, i)
  /\ \A t \in Threads : call[t] = "ok" => Wanted(t) \in cached

LEMMA CacheInit == Init => CacheInv
  BY DEF Init, CacheInv, CacheComplete, Served

LEMMA CacheStep == TypeOK /\ Nesting /\ CacheInv /\ [Next]_vars => CacheInv'
  <1> SUFFICES ASSUME TypeOK, Nesting, CacheInv, [Next]_vars PROVE CacheInv'
    OBVIOUS
  <1>0. CASE UNCHANGED vars
    BY <1>0 DEF vars, CacheInv, CacheComplete, Served, Wanted, Imports, Top
  <1>1. ASSUME NEW t \in Threads, Step(t) PROVE CacheInv'
    <2>n. /\ Nested(t) /\ Top(t) \in Frame /\ stack[t] \in Seq(Frame)
          /\ Len(stack[t]) \in Nat /\ Len(stack[t]) >= 1
          /\ Imports(t) \in Seq(Modules) /\ Len(Imports(t)) \in Nat
      BY Current, LenProperties DEF Nesting
    <2>c. \A u \in Threads : \A i \in 1..Depth(u) : Served(u, i)
      BY DEF CacheInv
    <2>p. program' = program /\ cached \subseteq cached'
      BY <1>1 DEF Step, Import, CacheHit, CacheMiss, Circular, Mark, BeginLoad, Unloadable,
           StartBody, Resume, FailBody, FailMain, Publish, Unmark, FinishMain
    <2>k. \A u \in Threads : \A i, j :
            stack'[u][i] = stack[u][j] /\ Served(u, j) => Served(u, i)'
      BY <2>p DEF Served
    <2>o. ASSUME NEW u \in Threads, u # t
          PROVE  /\ \A i \in 1..Depth(u)' : Served(u, i)'
                 /\ (call[u] = "ok" => Wanted(u) \in cached)'
      <3>1. stack'[u] = stack[u] /\ call'[u] = call[u]
        BY <1>1, <2>o DEF Step, TypeOK, Import, CacheHit, CacheMiss, Circular, Mark, BeginLoad,
             Unloadable, StartBody, Resume, FailBody, FailMain, Publish, Unmark, FinishMain,
             Return, SetTop
      <3>2. \A i \in 1..Depth(u)' : Served(u, i)'
        BY <2>c, <2>k, <3>1
      <3>3. (call[u] = "ok" => Wanted(u) \in cached)'
        BY <2>p, <3>1 DEF CacheInv, Wanted, Imports, Top
      <3>4. QED
        BY <3>2, <3>3
    <2> SUFFICES /\ CacheComplete'
                 /\ \A i \in 1..Depth(t)' : Served(t, i)'
                 /\ (call[t] = "ok" => Wanted(t) \in cached)'
      BY <2>o DEF CacheInv
    <2>d. CASE ~Publish(t)
      <3>c. cached' = cached
        BY <1>1, <2>d DEF Step, Import, CacheHit, CacheMiss, Circular, Mark, BeginLoad,
           Unloadable, StartBody, Resume, FailBody, FailMain, Unmark, FinishMain
      <3>d. CacheComplete'
        BY <2>p, <3>c DEF CacheInv, CacheComplete
      <3>1. CASE Import(t) \/ CacheHit(t) \/ CacheMiss(t) \/ Circular(t) \/ FailMain(t)
                   \/ FinishMain(t)
        <4>1. stack' = stack
          BY <3>1 DEF Import, CacheHit, CacheMiss, Circular, FailMain, FinishMain
        <4>2. \A i \in 1..Depth(t)' : Served(t, i)'
          BY <2>c, <2>k, <4>1
        <4>3. call'[t] = "ok" => Wanted(t) \in cached
          BY <3>1 DEF TypeOK, CacheInv, Import, CacheHit, CacheMiss, Circular, FailMain, FinishMain
        <4>4. QED
          BY <2>p, <3>c, <3>d, <4>1, <4>2, <4>3 DEF Wanted, Imports, Top
      <3>2. CASE Mark(t)
        <4> DEFINE f == [mod |-> Wanted(t), next |-> 1, phase |-> "marked"]
        <4>1. stack'[t] = Append(stack[t], f) /\ call'[t] = "none"
          BY <3>2 DEF Mark, BeginLoad, TypeOK
        <4>2. f \in Frame
          BY <2>n, <3>2, Current DEF Frame, Names, Mark, Nested
        <4>3. /\ Len(stack'[t]) = Len(stack[t]) + 1
              /\ \A i \in 1..Len(stack[t]) : stack'[t][i] = stack[t][i]
              /\ stack'[t][Len(stack[t]) + 1] = f
          BY <2>n, <4>1, <4>2, Pushed
        <4>4. \A i : i = Len(stack[t]) + 1 => Served(t, i)'
          BY <4>3 DEF Served
        <4>5. ASSUME NEW i \in 1..Depth(t)' PROVE Served(t, i)'
          <5>1. i = Len(stack[t]) + 1 \/ i \in 1..Len(stack[t])
            BY <2>n, <4>3
          <5>2. QED
            BY <2>c, <2>k, <4>3, <4>4, <5>1
        <4>6. QED
          BY <3>d, <4>1, <4>5
      <3>3. CASE Unloadable(t) \/ FailBody(t) \/ Unmark(t)
        <4>1. stack'[t] = SubSeq(stack[t], 1, Len(stack[t]) - 1)
          BY <3>3 DEF Unloadable, FailBody, Unmark, Return, TypeOK
        <4>2. /\ Len(stack'[t]) = Len(stack[t]) - 1
              /\ \A i \in 1..(Len(stack[t]) - 1) : stack'[t][i] = stack[t][i]
          BY <2>n, <4>1, Popped
        <4>3. \A i \in 1..Depth(t)' : Served(t, i)'
          BY <2>n, <2>c, <2>k, <4>2
        <4>4. call'[t] = "ok" => Wanted(t)' \in cached
          <5>1. SUFFICES ASSUME Unmark(t) PROVE Wanted(t)' \in cached
            BY <3>3 DEF Unloadable, FailBody, Return, TypeOK
          <5>a. Top(t).phase = "published"
            BY <5>1 DEF Unmark
          <5>2. Depth(t) > 1
            BY <5>a, Inner
          <5>b. Served(t, Len(stack[t])) /\ Top(t) = stack[t][Len(stack[t])]
            BY <2>n, <2>c DEF Top
          <5>3. Top(t).mod \in cached
            BY <5>a, <5>b DEF Served
          <5>4. Importing(t, Len(stack[t]) - 1)
            BY <2>n, <5>2 DEF Nested
          <5>5. Wanted(t)' = Top(t).mod
            <6>1. Top(t)' = stack[t][Len(stack[t]) - 1]
              BY <2>n, <4>2, <5>2 DEF Top
            <6>2. (Len(stack[t]) - 1) + 1 = Len(stack[t])
              BY <2>n
            <6>3. QED
              BY <2>p, <5>b, <5>4, <6>1, <6>2 DEF Importing, Wanted, Imports
          <5>6. QED
            BY <5>3, <5>5
        <4>5. QED
          BY <3>c, <3>d, <4>3, <4>4
      <3>4. CASE StartBody(t) \/ Resume(t)
        <4>1. PICK f \in Frame : /\ stack'[t] = [stack[t] EXCEPT ![Len(stack[t])] = f]
                                 /\ f.mod = Top(t).mod /\ f.phase = "body"
                                 /\ \/ f.next = Top(t).next
                                    \/ f.next = Top(t).next + 1 /\ Resume(t)
          <5>1. CASE StartBody(t)
            <6>1. [Top(t) EXCEPT !.phase = "body"] \in Frame
              BY <2>n DEF Frame
            <6>2. QED
              BY <2>n, <5>1, <6>1 DEF StartBody, SetTop, TypeOK, Frame
          <5>2. CASE Resume(t)
            <6>1. [Top(t) EXCEPT !.next = @ + 1] \in Frame
              BY <2>n DEF Frame
            <6>2. QED
              BY <2>n, <5>2, <6>1 DEF Resume, InBody, SetTop, TypeOK, Frame
          <5>3. QED
            BY <3>4, <5>1, <5>2
        <4>2. /\ Len(stack'[t]) = Len(stack[t])
              /\ \A i \in 1..(Len(stack[t]) - 1) : stack'[t][i] = stack[t][i]
              /\ stack'[t][Len(stack[t])] = f
          BY <2>n, <4>1, Changed
        <4>3. Served(t, Len(stack[t]))'
          <5>1. Served(t, Len(stack[t])) /\ Top(t) = stack[t][Len(stack[t])]
            BY <2>n, <2>c DEF Top
          <5>2. CASE f.next = Top(t).next
            BY <2>p, <4>1, <4>2, <5>1, <5>2 DEF Served
          <5>3. CASE f.next = Top(t).next + 1 /\ Resume(t)
            <6>1. Top(t).mod \notin program.catches => Wanted(t) \in cached
              BY <5>3 DEF Resume, CacheInv
            <6>2. Top(t).next \in Nat
              BY <2>n DEF Frame
            <6>3. \A k \in 1..(f.next - 1) : k \in 1..(Top(t).next - 1) \/ k = Top(t).next
              BY <5>3, <6>2
            <6>4. QED
              BY <2>p, <3>c, <4>1, <4>2, <5>1, <6>1, <6>3 DEF Served, Wanted, Imports
          <5>4. QED
            BY <4>1, <5>2, <5>3
        <4>4. \A i \in 1..Depth(t)' : Served(t, i)'
          BY <2>n, <2>c, <2>k, <4>2, <4>3
        <4>5. call'[t] = "none"
          BY <2>n, <3>4 DEF StartBody, Resume, Nested, InBody, TypeOK
        <4>6. QED
          BY <3>d, <4>4, <4>5
      <3>5. QED
        BY <1>1, <2>d, <3>1, <3>2, <3>3, <3>4 DEF Step
    <2>e. CASE Publish(t)
      <3> DEFINE f == [Top(t) EXCEPT !.phase = "published"]
      <3>1. /\ cached' = cached \cup {Top(t).mod}
            /\ f \in Frame /\ f.mod = Top(t).mod /\ f.next = Top(t).next
            /\ stack'[t] = [stack[t] EXCEPT ![Len(stack[t])] = f]
            /\ call'[t] = "none"
        BY <2>e, <2>n DEF Publish, Frame, SetTop, TypeOK
      <3>2. /\ Len(stack'[t]) = Len(stack[t])
            /\ \A i \in 1..(Len(stack[t]) - 1) : stack'[t][i] = stack[t][i]
            /\ stack'[t][Len(stack[t])] = f
        BY <2>n, <3>1, Changed
      <3>3. Served(t, Len(stack[t])) /\ Top(t) = stack[t][Len(stack[t])]
        BY <2>n, <2>c DEF Top
      <3>4. Served(t, Len(stack[t]))'
        BY <2>p, <3>1, <3>2, <3>3 DEF Served
      <3>5. \A i \in 1..Depth(t)' : Served(t, i)'
        BY <2>n, <2>c, <2>k, <3>2, <3>4
      <3>6. /\ program.outcome[Top(t).mod] = "ok"
            /\ Top(t).mod \notin program.catches =>
                 \A i \in 1..Len(Imports(t)) : Imports(t)[i] \in cached
        <4>1. Top(t).next \in Nat /\ Top(t).next > Len(Imports(t))
              /\ program.outcome[Top(t).mod] = "ok"
          BY <2>e, <2>n DEF Publish, AtEnd, Frame
        <4>2. \A i \in 1..Len(Imports(t)) : i \in 1..(Top(t).next - 1)
          BY <2>n, <4>1
        <4>3. QED
          BY <2>n, <3>3, <4>1, <4>2 DEF Served, Imports
      <3>7. CacheComplete'
        BY <2>p, <3>1, <3>6 DEF CacheInv, CacheComplete, Imports
      <3>8. QED
        BY <3>1, <3>5, <3>7
    <2>f. QED
      BY <2>d, <2>e
  <1>2. QED
    BY <1>0, <1>1 DEF Next

(* What the cache has was loaded completely, whoever else was importing at *)
(* the time: its body succeeded and, unless it catches their errors, the   *)
(* modules it imports are in the cache as well.                            *)
THEOREM CacheIsComplete == Spec => []CacheComplete
  <1>1. CacheInv => CacheComplete
    BY DEF CacheInv
  <1>2. LockInv /\ CacheInv /\ [Next]_vars => CacheInv'
    BY CacheStep DEF LockInv
  <1>3. QED
    BY Locking, CacheInit, <1>1, <1>2, PTL DEF Spec

-------------------------------------------------------------------------------
(* One thread alone.  Nobody publishes a module between its look into the  *)
(* cache and its mark, so what it is in the middle of is not cached.       *)
Fresh(t) ==
  /\ \A m \in Modules : objects[m] <= 1 /\ (m \notin cached => objects[m] = 0)
  /\ \A i \in Held(t) : stack[t][i].phase # "published" => stack[t][i].mod \notin cached
  /\ call[t] = "missed" => Wanted(t) \notin cached

AloneInv == \A t \in Threads : OnlyImporter(t) => Fresh(t)

LEMMA AloneInit == Init => AloneInv
  BY DEF Init, AloneInv, Fresh

LEMMA SameProgram == [Next]_vars => program' = program
  BY DEF Next, vars, Step, Import, CacheHit, CacheMiss, Circular, Mark, BeginLoad, Unloadable,
     StartBody, Resume, FailBody, FailMain, Publish, Unmark, FinishMain

(* A thread that imports nothing does not leave its main program ...       *)
LEMMA InMain ==
  ASSUME NEW u \in Threads, LockInv, program.imports[u] = <<>>
  PROVE  Len(stack[u]) = 1 /\ AtEnd(u) /\ call[u] = "none"
  <1>1. TypeOK /\ Nesting /\ Nested(u)
    BY DEF LockInv, Nesting
  <1>2. /\ stack[u] \in Seq(Frame) /\ Len(stack[u]) \in Nat /\ Len(stack[u]) >= 1
        /\ stack[u][1] \in Frame /\ stack[u][1].mod = u
    BY <1>1, Current, ElementOfSeq DEF Nested
  <1>3. stack[u][1].next > Len(program.imports[u])
    BY <1>1, <1>2 DEF Frame
  <1>4. ~(1 \in 1..(Len(stack[u]) - 1))
    <2>1. stack[u][1].next \in Nat /\ Len(program.imports[u]) = 0
      BY <1>2 DEF Frame
    <2>2. ~Importing(u, 1)
      BY <1>2, <1>3, <2>1 DEF Importing
    <2>3. QED
      BY <1>1, <2>2 DEF Nested
  <1>5. Len(stack[u]) = 1
    <2>1. \A n \in Nat : n >= 1 /\ n # 1 => 1 \in 1..(n - 1)
      OBVIOUS
    <2>2. QED
      BY <1>2, <1>4, <2>1
  <1>6. AtEnd(u)
    BY <1>2, <1>3, <1>5 DEF Top, AtEnd, Imports
  <1>7. call[u] = "none"
    BY <1>1, <1>6 DEF Nested
  <1>8. QED
    BY <1>5, <1>6, <1>7

(* ... and nothing the loader keeps changes when it ends.                  *)
LEMMA OthersQuiet ==
  ASSUME NEW t \in Threads, NEW u \in Threads, u # t, LockInv, OnlyImporter(t), Step(u)
  PROVE  UNCHANGED <<cached, stack, objects>> /\ call'[t] = call[t] /\ status'[t] = status[t]
  <1>1. TypeOK /\ Nesting
    BY DEF LockInv
  <1>2. Len(stack[u]) = 1 /\ AtEnd(u) /\ call[u] = "none"
    BY InMain DEF OnlyImporter
  <1>3. Top(u).phase = "body"
    BY <1>1, <1>2, Current
  <1>4. FailMain(u) \/ FinishMain(u)
    BY <1>2, <1>3 DEF Step, Import, CacheHit, CacheMiss, Circular, Mark,
       Unloadable, StartBody, Resume, FailBody, Publish, Unmark
  <1>5. QED
    BY <1>1, <1>4 DEF FailMain, FinishMain, TypeOK

LEMMA AloneStep ==
  ASSUME NEW t \in Threads, LockInv, OnlyImporter(t), Fresh(t), [Next]_vars
  PROVE  Fresh(t)'
  <1>0. CASE UNCHANGED vars
    BY <1>0 DEF vars, Fresh, Wanted, Imports, Top
  <1>u. ASSUME NEW u \in Threads, u # t, Step(u) PROVE Fresh(t)'
    BY <1>u, OthersQuiet, SameProgram DEF Fresh, Wanted, Imports, Top
  <1>1. ASSUME Step(t) PROVE Fresh(t)'
    <2>l. t \in Threads /\ TypeOK /\ Nesting /\ BodiesExclusive
      BY DEF LockInv
    <2>n. /\ Nested(t) /\ Top(t) \in Frame /\ stack[t] \in Seq(Frame)
          /\ Len(stack[t]) \in Nat /\ Len(stack[t]) >= 1
      BY <2>l, Current DEF Nesting
    <2>h. \A i \in 2..Len(stack[t]) :
            stack[t][i].phase # "published" => stack[t][i].mod \notin cached
      BY <2>l DEF Fresh
    <2>p. program' = program
      BY <1>1 DEF Step, Import, CacheHit, CacheMiss, Circular, Mark, BeginLoad, Unloadable,
           StartBody, Resume, FailBody, FailMain, Publish, Unmark, FinishMain
    <2> SUFFICES /\ \A m \in Modules : /\ objects'[m] <= 1
                                       /\ m \notin cached' => objects'[m] = 0
                 /\ \A i \in 2..Len(stack'[t]) :
                      stack'[t][i].phase # "published" => stack'[t][i].mod \notin cached'
                 /\ call'[t] = "missed" => Wanted(t)' \notin cached'
      BY <2>l DEF Fresh
    <2>d. CASE ~Publish(t)
      <3>c. cached' = cached /\ objects' = objects
        BY <1>1, <2>d DEF Step, Import, CacheHit, CacheMiss, Circular, Mark, BeginLoad,
           Unloadable, StartBody, Resume, FailBody, FailMain, Unmark, FinishMain
      <3>o. \A m \in Modules : objects'[m] <= 1 /\ (m \notin cached' => objects'[m] = 0)
        BY <3>c DEF Fresh
      <3>1. CASE Import(t) \/ CacheHit(t) \/ CacheMiss(t) \/ Circular(t) \/ FailMain(t)
                   \/ FinishMain(t)
        <4>1. stack' = stack
          BY <3>1 DEF Import, CacheHit, CacheMiss, Circular, FailMain, FinishMain
        <4>2. call'[t] = "missed" => Wanted(t) \notin cached
          BY <3>1, <2>l DEF TypeOK, Fresh, Import, CacheHit, CacheMiss, Circular, FailMain,
             FinishMain
        <4>3. QED
          BY <2>h, <2>p, <3>c, <3>o, <4>1, <4>2 DEF Wanted, Imports, Top
      <3>2. CASE Mark(t)
        <4> DEFINE f == [mod |-> Wanted(t), next |-> 1, phase |-> "marked"]
        <4>1. /\ stack'[t] = Append(stack[t], f) /\ call'[t] = "none"
              /\ Wanted(t) \notin cached /\ InBody(t) /\ ~AtEnd(t)
          BY <3>2, <2>l, <2>n DEF Mark, BeginLoad, TypeOK, Fresh, Nested
        <4>2. f \in Frame
          BY <2>l, <4>1, Current DEF Frame, Names
        <4>3. /\ Len(stack'[t]) = Len(stack[t]) + 1
              /\ \A i \in 1..Len(stack[t]) : stack'[t][i] = stack[t][i]
              /\ stack'[t][Len(stack[t]) + 1] = f
          BY <2>n, <4>1, <4>2, Pushed
        <4>4. ASSUME NEW i \in 2..Len(stack'[t])
              PROVE  stack'[t][i].phase # "published" => stack'[t][i].mod \notin cached'
          <5>1. i = Len(stack[t]) + 1 \/ i \in 2..Len(stack[t])
            BY <2>n, <4>3
          <5>2. CASE i = Len(stack[t]) + 1
            BY <3>c, <4>1, <4>3, <5>2
          <5>3. CASE i \in 2..Len(stack[t])
            <6>1. i \in 1..Len(stack[t])
              BY <2>n, <5>3
            <6>2. stack'[t][i] = stack[t][i]
              BY <4>3, <6>1
            <6>3. QED
              BY <2>h, <3>c, <5>3, <6>2
          <5>4. QED
            BY <5>1, <5>2, <5>3
        <4>5. QED
          BY <3>o, <4>1, <4>4
      <3>3. CASE Unloadable(t) \/ FailBody(t) \/ Unmark(t)
        <4>1. stack'[t] = SubSeq(stack[t], 1, Len(stack[t]) - 1) /\ call'[t] # "missed"
          BY <3>3, <2>l DEF Unloadable, FailBody, Unmark, Return, TypeOK
        <4>2. /\ Len(stack'[t]) = Len(stack[t]) - 1
              /\ \A i \in 1..(Len(stack[t]) - 1) : stack'[t][i] = stack[t][i]
          BY <2>n, <4>1, Popped
        <4>3. \A i \in 2..Len(stack'[t]) :
                i \in 2..Len(stack[t]) /\ stack'[t][i] = stack[t][i]
          BY <2>n, <4>2
        <4>4. QED
          BY <2>h, <3>c, <3>o, <4>1, <4>3
      <3>4. CASE StartBody(t) \/ Resume(t)
        <4>1. PICK f \in Frame : /\ stack'[t] = [stack[t] EXCEPT ![Len(stack[t])] = f]
                                 /\ f.mod = Top(t).mod
                                 /\ Top(t).phase # "published"
          <5>1. CASE StartBody(t)
            <6>1. [Top(t) EXCEPT !.phase = "body"] \in Frame
              BY <2>n DEF Frame
            <6>2. QED
              BY <2>n, <2>l, <5>1, <6>1 DEF StartBody, SetTop, TypeOK, Frame
          <5>2. CASE Resume(t)
            <6>1. [Top(t) EXCEPT !.next = @ + 1] \in Frame
              BY <2>n DEF Frame
            <6>2. QED
              BY <2>n, <2>l, <5>2, <6>1 DEF Resume, InBody, SetTop, TypeOK, Frame
          <5>3. QED
            BY <3>4, <5>1, <5>2
        <4>2. /\ Len(stack'[t]) = Len(stack[t])
              /\ \A i \in 1..(Len(stack[t]) - 1) : stack'[t][i] = stack[t][i]
              /\ stack'[t][Len(stack[t])] = f
          BY <2>n, <4>1, Changed
        <4>3. ASSUME NEW i \in 2..Len(stack'[t])
              PROVE  stack'[t][i].mod \notin cached' \/ stack'[t][i].phase = "published"
          <5>1. i \in 2..Len(stack[t]) /\ (i = Len(stack[t]) \/ i \in 1..(Len(stack[t]) - 1))
            BY <2>n, <4>2
          <5>2. CASE i = Len(stack[t])
            <6>1. stack[t][i] = Top(t)
              BY <5>2 DEF Top
            <6>2. QED
              BY <2>h, <3>c, <4>1, <4>2, <5>1, <5>2, <6>1
          <5>3. CASE i \in 1..(Len(stack[t]) - 1)
            BY <2>h, <3>c, <4>2, <5>1, <5>3
          <5>4. QED
            BY <5>1, <5>2, <5>3
        <4>4. call'[t] = "none"
          BY <2>n, <2>l, <3>4 DEF StartBody, Resume, Nested, InBody, TypeOK
        <4>5. QED
          BY <3>o, <4>3, <4>4
      <3>5. QED
        BY <1>1, <2>d, <3>1, <3>2, <3>3, <3>4 DEF Step
    <2>e. CASE Publish(t)
      <3> DEFINE f == [Top(t) EXCEPT !.phase = "published"]
      <3>1. /\ cached' = cached \cup {Top(t).mod}
            /\ objects' = [objects EXCEPT ![Top(t).mod] = @ + 1]
            /\ f \in Frame /\ f.mod = Top(t).mod /\ f.phase = "published"
            /\ stack'[t] = [stack[t] EXCEPT ![Len(stack[t])] = f]
            /\ call'[t] = "none"
            /\ Len(stack[t]) > 1 /\ Top(t).phase = "body"
        BY <2>e, <2>l, <2>n DEF Publish, Frame, SetTop, TypeOK, InBody
      <3>2. /\ Len(stack'[t]) = Len(stack[t])
            /\ \A i \in 1..(Len(stack[t]) - 1) : stack'[t][i] = stack[t][i]
            /\ stack'[t][Len(stack[t])] = f
        BY <2>n, <3>1, Changed
      <3>3. Len(stack[t]) \in 2..Len(stack[t]) /\ Top(t) = stack[t][Len(stack[t])]
        BY <2>n, <3>1 DEF Top
      <3>4. Top(t).mod \in Modules /\ objects[Top(t).mod] = 0
        <4>1. Top(t).mod \in Modules
          BY <2>n, <3>3 DEF Nested
        <4>2. Top(t).mod \notin cached
          BY <2>h, <3>1, <3>3
        <4>3. QED
          BY <4>1, <4>2 DEF Fresh
      <3>5. \A m \in Modules : objects'[m] <= 1 /\ (m \notin cached' => objects'[m] = 0)
        <4>1. \A m \in Modules : m # Top(t).mod => objects'[m] = objects[m]
          BY <2>l, <3>1 DEF TypeOK
        <4>2. objects'[Top(t).mod] = 1
          BY <2>l, <3>1, <3>4 DEF TypeOK
        <4>3. QED
          BY <3>1, <4>1, <4>2 DEF Fresh
      <3>6. ASSUME NEW i \in 2..Len(stack'[t])
            PROVE  stack'[t][i].mod \notin cached' \/ stack'[t][i].phase = "published"
        <4>1. i \in 2..Len(stack[t]) /\ (i = Len(stack[t]) \/ i \in 1..(Len(stack[t]) - 1))
          BY <2>n, <3>2
        <4>2. CASE i = Len(stack[t])
          BY <3>1, <3>2, <4>2
        <4>3. CASE i \in 1..(Len(stack[t]) - 1) /\ i # Len(stack[t])
          <5>1. stack[t][i].mod # Top(t).mod
            BY <2>l, <3>3, <4>1, <4>3 DEF BodiesExclusive
          <5>2. QED
            BY <2>h, <3>1, <3>2, <4>1, <4>3, <5>1
        <4>4. QED
          BY <4>1, <4>2, <4>3
      <3>7. QED
        BY <3>1, <3>5, <3>6
    <2>f. QED
      BY <2>d, <2>e
  <1>2. QED
    BY <1>0, <1>1, <1>u DEF Next

LEMMA AlonePreserved == LockInv /\ AloneInv /\ [Next]_vars => AloneInv'
  <1> SUFFICES ASSUME LockInv, AloneInv, [Next]_vars, NEW t \in Threads, OnlyImporter(t)'
               PROVE  Fresh(t)'
    BY DEF AloneInv
  <1>1. OnlyImporter(t)
    BY SameProgram DEF OnlyImporter
  <1>2. QED
    BY <1>1, AloneStep DEF AloneInv

(* A thread that is the only one to import instantiates each module once,  *)
(* however its modules import one another and however they fail.           *)
THEOREM LoadedOnce == Spec => []PublishedOnce
  <1>1. AloneInv => PublishedOnce
    BY DEF AloneInv, Fresh, PublishedOnce
  <1>2. LockInv /\ AloneInv /\ [Next]_vars => AloneInv'
    BY AlonePreserved
  <1>3. QED
    BY Locking, AloneInit, <1>1, <1>2, PTL DEF Spec

-------------------------------------------------------------------------------
(* Which modules load.  Loadable is the value of a recursive definition: a *)
(* body that ends well with some modules ends well with more, so the       *)
(* definition has a solution, the union of all that is consistent with it. *)
LEMMA MoreIsLoadable ==
  ASSUME NEW x, NEW A, NEW B, A \subseteq B, EndsWell(x, A)
  PROVE  EndsWell(x, B)
  BY DEF EndsWell

LEMMA LoadableIs ==
  \A path \in SUBSET Modules :
    Loadable[path] = Std \cup {m \in Modules \ path : EndsWell(m, Loadable[path \cup {m}])}
  <1> DEFINE D == SUBSET Modules
             G(f) == [path \in D |->
                        Std \cup {m \in Modules \ path : EndsWell(m, f[path \cup {m}])}]
             Is(f) == f = G(f)
             Post(f) == f \in [D -> D] /\ \A p \in D : f[p] \subseteq G(f)[p]
             g == [p \in D |-> {m \in Modules : \E f \in [D -> D] : Post(f) /\ m \in f[p]}]
  <1>1. ASSUME NEW f, NEW h, \A p \in D : f[p] \subseteq h[p]
        PROVE  \A p \in D : G(f)[p] \subseteq G(h)[p]
    <2> SUFFICES ASSUME NEW p \in D, NEW m \in Modules \ p, EndsWell(m, f[p \cup {m}])
                 PROVE  EndsWell(m, h[p \cup {m}])
      OBVIOUS
    <2>1. f[p \cup {m}] \subseteq h[p \cup {m}]
      BY <1>1
    <2> QED BY <2>1, MoreIsLoadable
  <1>2. \A f : G(f) \in [D -> D]
    BY LoaderAssumption
  <1>3. g \in [D -> D]
    OBVIOUS
  <1>4. \A f : Post(f) => \A p \in D : f[p] \subseteq g[p]
    OBVIOUS
  <1> HIDE DEF G
  <1>5. \A p \in D : g[p] \subseteq G(g)[p]
    <2> SUFFICES ASSUME NEW p \in D, NEW m \in g[p] PROVE m \in G(g)[p]
      OBVIOUS
    <2>1. PICK f \in [D -> D] : Post(f) /\ m \in f[p]
      OBVIOUS
    <2>2. \A q \in D : f[q] \subseteq g[q]
      BY <1>4, <2>1
    <2> HIDE DEF g
    <2>3. G(f)[p] \subseteq G(g)[p]
      BY <1>1, <2>2
    <2> QED BY <2>1, <2>3
  <1> HIDE DEF g
  <1>6. Post(G(g))
    BY <1>1, <1>2, <1>5
  <1>7. \A p \in D : G(g)[p] \subseteq g[p]
    BY <1>4, <1>6
  <1>8. Is(g)
    <2>1. \A p \in D : G(g)[p] = g[p]
      BY <1>5, <1>7
    <2> QED BY <1>2, <1>3, <2>1
  <1>9. Is(Loadable)
    <2>1. Loadable = CHOOSE u : Is(u)
      BY DEF Loadable, G
    <2> HIDE DEF Is
    <2> QED BY <1>8, <2>1
  <1> QED BY <1>9 DEF G

LEMMA SameLoadable ==
  ASSUME program' = program
  PROVE  Loadable' = Loadable /\ \A x, A : EndsWell(x, A)' <=> EndsWell(x, A)
  <1>1. Loadable' = Loadable
    BY DEF Loadable, EndsWell
  <1>2. \A x, A : EndsWell(x, A)' <=> EndsWell(x, A)
    BY DEF EndsWell
  <1> QED BY <1>1, <1>2

-------------------------------------------------------------------------------
(* What the cache has is loadable.  A module is published after those that *)
(* it imports, which gives every module of the cache a rank above theirs.  *)
Ranked(r) ==
  \A m \in cached \ Std : m \notin program.catches =>
    \A i \in 1..Len(program.imports[m]) :
      program.imports[m][i] \in Std \/ r[program.imports[m][i]] < r[m]

RankInv ==
  \E r \in [Modules -> Nat] : \E n \in Nat : Ranked(r) /\ \A m \in cached \ Std : r[m] < n

LEMMA Least ==
  ASSUME NEW S \in SUBSET Nat, S # {}
  PROVE  \E m \in S : \A n \in S : m <= n
  <1>1. PICK m \in S : \A n \in S : <<n, m>> \notin OpToRel(<, Nat)
    BY NatLessThanWellFounded, WFMin, Zenon
  <1>2. \A n \in S : ~(n < m)
    BY <1>1 DEF OpToRel
  <1> QED BY <1>2

(* On a path none of whose cached modules has a rank as low as its own, a  *)
(* module of the cache loads: so do its imports, of lower rank.            *)
LEMMA CachedLoads ==
  ASSUME TypeOK, CacheComplete, RankInv
  PROVE  cached \subseteq Loadable[{}]
  <1>1. PICK r \in [Modules -> Nat] : Ranked(r)
    BY DEF RankInv
  <1> DEFINE Above(p, m) == \A q \in p : q \in cached \ Std => r[q] > r[m]
             Bad == {m \in cached : \E p \in SUBSET Modules : Above(p, m) /\ m \notin Loadable[p]}
  <1>2. SUFFICES ASSUME Bad # {} PROVE FALSE
    <2>1. \A m \in cached : Above({}, m)
      OBVIOUS
    <2> QED BY <2>1
  <1>c. cached \subseteq Modules
    BY DEF TypeOK
  <1> DEFINE S == {r[m] : m \in Bad}
  <1>3. S \in SUBSET Nat /\ S # {}
    BY <1>c, <1>2
  <1>4. PICK k \in S : \A n \in S : k <= n
    <2> HIDE DEF S
    <2> QED BY <1>3, Least
  <1>5. PICK m \in Bad : k = r[m]
    OBVIOUS
  <1>6. \A x \in Bad : r[m] <= r[x]
    BY <1>4, <1>5
  <1>7. m \in cached /\ m \in Modules
    BY <1>c
  <1>8. PICK p \in SUBSET Modules : Above(p, m) /\ m \notin Loadable[p]
    BY <1>5
  <1>9. Loadable[p] = Std \cup {x \in Modules \ p : EndsWell(x, Loadable[p \cup {x}])}
    BY LoadableIs
  <1> DEFINE q == p \cup {m}
  <1>10. m \notin Std /\ m \notin p
    <2>1. r[m] \in Nat
      BY <1>7
    <2> QED BY <1>7, <1>8, <1>9, <2>1
  <1>11. ~EndsWell(m, Loadable[q])
    BY <1>7, <1>8, <1>9, <1>10
  <1>12. q \in SUBSET Modules
    BY <1>7
  <1>13. Std \subseteq Loadable[q]
    BY <1>12, LoadableIs
  <1>14. program.outcome[m] = "ok" /\ m \notin program.catches
    BY <1>7, <1>10, <1>11 DEF CacheComplete, EndsWell
  <1>15. PICK i \in 1..Len(program.imports[m]) : program.imports[m][i] \notin Loadable[q]
    BY <1>11, <1>14 DEF EndsWell
  <1>16. PICK x : x = program.imports[m][i]
    OBVIOUS
  <1>17. x \in cached /\ x \in Modules
    BY <1>c, <1>7, <1>10, <1>14, <1>16 DEF CacheComplete
  <1>18. r[x] < r[m]
    BY <1>1, <1>7, <1>10, <1>13, <1>14, <1>15, <1>16 DEF Ranked
  <1>19. r[x] \in Nat /\ r[m] \in Nat
    BY <1>7, <1>17
  <1>20. Above(q, x)
    <2> SUFFICES ASSUME NEW y \in q, y \in cached \ Std PROVE r[y] > r[x]
      OBVIOUS
    <2>1. r[y] \in Nat
      BY <1>c
    <2>2. y = m \/ r[y] > r[m]
      BY <1>8
    <2> QED BY <1>18, <1>19, <2>1, <2>2
  <1>21. x \in Bad
    BY <1>12, <1>15, <1>16, <1>17, <1>20
  <1> QED BY <1>6, <1>18, <1>19, <1>21

(* A body that has come to its end has what it imports in the cache. *)
LEMMA AllServed ==
  ASSUME TypeOK, Nesting, CacheInv, NEW t \in Threads, AtEnd(t),
         Top(t).mod \notin program.catches
  PROVE  \A i \in 1..Len(Imports(t)) : Imports(t)[i] \in cached
  <1>1. /\ Top(t) \in Frame /\ Len(stack[t]) \in Nat /\ Len(stack[t]) >= 1
        /\ Len(Imports(t)) \in Nat
    BY Current, LenProperties
  <1>2. Served(t, Len(stack[t])) /\ Top(t) = stack[t][Len(stack[t])]
    BY <1>1 DEF CacheInv, Top
  <1>3. Top(t).next \in Nat /\ Top(t).next > Len(Imports(t))
    BY <1>1 DEF AtEnd, Frame
  <1>4. \A i \in 1..Len(Imports(t)) : i \in 1..(Top(t).next - 1)
    BY <1>1, <1>3
  <1> QED BY <1>2, <1>4 DEF Served, Imports

LEMMA RankStep ==
  TypeOK /\ Nesting /\ CacheInv /\ RankInv /\ [Next]_vars => RankInv'
  <1> SUFFICES ASSUME TypeOK, Nesting, CacheInv, RankInv, [Next]_vars PROVE RankInv'
    OBVIOUS
  <1>p. program' = program
    BY SameProgram
  <1>1. CASE cached' = cached
    BY <1>p, <1>1 DEF RankInv, Ranked
  <1>2. ASSUME NEW t \in Threads, Publish(t), cached' # cached PROVE RankInv'
    <2>1. PICK m : m = Top(t).mod
      OBVIOUS
    <2>2. cached' = cached \cup {m} /\ m \notin cached /\ AtEnd(t) /\ Depth(t) > 1
      BY <1>2, <2>1 DEF Publish
    <2>3. m \in Modules /\ cached \subseteq Modules
      BY <2>1, <2>2, Current DEF TypeOK
    <2>4. PICK r \in [Modules -> Nat] : \E n \in Nat : Ranked(r) /\ \A x \in cached \ Std : r[x] < n
      BY DEF RankInv
    <2>5. PICK n \in Nat : Ranked(r) /\ \A x \in cached \ Std : r[x] < n
      BY <2>4
    <2> DEFINE s == [r EXCEPT ![m] = n]
    <2>6. s \in [Modules -> Nat] /\ s[m] = n /\ \A x \in cached : s[x] = r[x]
      BY <2>2, <2>3
    <2> HIDE DEF s
    <2>7. \A x \in cached' \ Std : s[x] < n + 1
      <3>1. TAKE x \in cached' \ Std
      <3>2. CASE x = m
        BY <2>6, <3>2
      <3>3. CASE x # m
        <4>1. x \in cached \ Std /\ r[x] \in Nat
          BY <2>2, <2>3, <3>3
        <4> QED BY <2>5, <2>6, <4>1
      <3> QED BY <3>2, <3>3
    <2>8. ASSUME NEW x \in cached' \ Std, x \notin program.catches,
                 NEW i \in 1..Len(program.imports[x])
          PROVE  program.imports[x][i] \in Std \/ s[program.imports[x][i]] < s[x]
      <3>1. PICK y : y = program.imports[x][i]
        OBVIOUS
      <3>2. CASE x = m
        <4>1. y \in cached
          BY <2>1, <2>2, <2>8, <3>1, <3>2, AllServed DEF Imports
        <4> QED BY <2>5, <2>6, <3>1, <3>2, <4>1
      <3>3. CASE x # m
        <4>1. x \in cached \ Std
          BY <2>2, <3>3
        <4>2. y \in cached
          BY <2>8, <3>1, <4>1 DEF CacheInv, CacheComplete
        <4>3. y \in Std \/ r[y] < r[x]
          BY <2>5, <2>8, <3>1, <4>1 DEF Ranked
        <4> QED BY <2>6, <3>1, <4>1, <4>2, <4>3
      <3> QED BY <3>2, <3>3
    <2>9. Ranked(s)'
      BY <1>p, <2>8 DEF Ranked
    <2>10. n + 1 \in Nat
      OBVIOUS
    <2> QED BY <2>6, <2>7, <2>9, <2>10 DEF RankInv
  <1>3. cached' = cached \/ \E t \in Threads : Publish(t)
    BY DEF Next, vars, Step, Import, CacheHit, CacheMiss, Circular, Mark, BeginLoad, Unloadable,
       StartBody, Resume, FailBody, FailMain, Unmark, FinishMain
  <1> QED BY <1>1, <1>2, <1>3

(* A program that has run to its end went on with loadable modules only.   *)
DoneInv == \A t \in Threads : status[t] = "done" => EndsWell(t, Loadable[{}])

LEMMA DoneStep ==
  TypeOK /\ Nesting /\ CacheInv /\ RankInv /\ DoneInv /\ [Next]_vars => DoneInv'
  <1> SUFFICES ASSUME TypeOK, Nesting, CacheInv, RankInv, DoneInv, [Next]_vars,
                      NEW t \in Threads, status'[t] = "done"
               PROVE  EndsWell(t, Loadable[{}])
    BY SameProgram, SameLoadable DEF DoneInv
  <1>1. CASE status[t] = "done"
    BY <1>1 DEF DoneInv
  <1>2. CASE status[t] # "done"
    <2>1. FinishMain(t)
      BY <1>2 DEF TypeOK, Next, vars, Step, Import, CacheHit, CacheMiss, Circular, Mark,
         BeginLoad, Unloadable, StartBody, Resume, FailBody, FailMain, Publish, Unmark,
         FinishMain
    <2>2. Top(t).mod = t /\ AtEnd(t) /\ program.outcome[t] = "ok"
      BY <2>1, Current DEF FinishMain
    <2>3. cached \subseteq Loadable[{}]
      BY CachedLoads DEF CacheInv
    <2>4. t \notin program.catches =>
            \A i \in 1..Len(program.imports[t]) : program.imports[t][i] \in cached
      BY <2>2, AllServed DEF Imports
    <2> QED BY <2>2, <2>3, <2>4 DEF EndsWell
  <1> QED BY <1>1, <1>2

LEMMA LoadInit == Init => RankInv /\ DoneInv
  <1> SUFFICES ASSUME Init PROVE RankInv /\ DoneInv
    OBVIOUS
  <1>1. cached \ Std = {} /\ [m \in Modules |-> 0] \in [Modules -> Nat] /\ 0 \in Nat
    BY DEF Init
  <1>2. RankInv
    BY <1>1 DEF RankInv, Ranked
  <1>3. DoneInv
    BY DEF Init, DoneInv
  <1> QED BY <1>2, <1>3

-------------------------------------------------------------------------------
(* What fails is not loadable, for a thread alone: an import of what it is *)
(* in the middle of is circular, and a body that fails is not in the cache *)
(* and fails again on the same path.                                       *)
Path(t) == {stack[t][i].mod : i \in Held(t)}

FailInv(t) ==
  /\ call[t] \in {"circular", "error"} => Wanted(t) \notin Loadable[Path(t)]
  /\ status[t] = "failed" => ~EndsWell(t, Loadable[{}])

LEMMA NotLoadable ==
  ASSUME NEW path \in SUBSET Modules, NEW m, m \notin Std,
         m \in path \/ ~EndsWell(m, Loadable[path \cup {m}])
  PROVE  m \notin Loadable[path]
  <1>1. Loadable[path] = Std \cup {x \in Modules \ path : EndsWell(x, Loadable[path \cup {x}])}
    BY LoadableIs
  <1> QED BY <1>1

LEMMA BodyFails ==
  ASSUME TypeOK, Nesting, NEW t \in Threads, FailInv(t), Fails(t)
  PROVE  ~EndsWell(Top(t).mod, Loadable[Path(t)])
  <1>1. CASE program.outcome[Top(t).mod] = "raises"
    BY <1>1 DEF EndsWell
  <1>2. CASE call[t] \in {"circular", "error"} /\ Top(t).mod \notin program.catches
    <2>1. ~AtEnd(t) /\ Wanted(t) \notin Loadable[Path(t)]
      BY <1>2 DEF Nesting, Nested, FailInv
    <2>2. Top(t).next \in Nat \ {0} /\ Len(Imports(t)) \in Nat
      BY Current, LenProperties DEF Frame
    <2>3. Top(t).next \in 1..Len(Imports(t))
      BY <2>1, <2>2 DEF AtEnd
    <2> QED BY <1>2, <2>1, <2>3 DEF EndsWell, Wanted, Imports
  <1> QED BY <1>1, <1>2 DEF Fails

(* A body that is left is what the one below imports, on the path without it. *)
LEMMA LeftBody ==
  ASSUME TypeOK, Nesting, BodiesExclusive, NEW t \in Threads, Depth(t) > 1,
         program' = program, stack'[t] = SubSeq(stack[t], 1, Len(stack[t]) - 1)
  PROVE  /\ Top(t).mod \in Path(t)
         /\ Path(t)' = Path(t) \ {Top(t).mod}
         /\ Wanted(t)' = Top(t).mod
  <1>1. /\ stack[t] \in Seq(Frame) /\ Len(stack[t]) \in Nat /\ Len(stack[t]) > 1 /\ Nested(t)
    BY Current DEF Nesting
  <1>a. \A k \in Nat : k > 1 => k - 1 \in Nat /\ k - 1 >= 1 /\ (k - 1) + 1 = k
    OBVIOUS
  <1>2. PICK n \in Nat : n = Len(stack[t]) - 1 /\ n >= 1 /\ n + 1 = Len(stack[t])
    BY <1>1, <1>a
  <1>3. /\ Len(stack'[t]) = n
        /\ \A i \in 1..n : stack'[t][i] = stack[t][i]
    BY <1>1, <1>2, Popped
  <1>4. Top(t) = stack[t][n + 1] /\ Top(t)' = stack[t][n] /\ n + 1 \in 2..Len(stack[t])
    BY <1>2, <1>3 DEF Top
  <1>5. Wanted(t)' = Top(t).mod
    <2>1. Importing(t, n)
      BY <1>1, <1>2 DEF Nested
    <2> QED BY <1>4, <2>1 DEF Importing, Wanted, Imports
  <1>6. Path(t)' = {stack[t][i].mod : i \in 2..n}
    <2>1. \A i \in 2..n : stack'[t][i] = stack[t][i]
      BY <1>3
    <2>2. Path(t)' = {stack'[t][i].mod : i \in 2..n}
      BY <1>3 DEF Path
    <2> QED BY <2>1, <2>2
  <1>7. 2..Len(stack[t]) = (2..n) \cup {n + 1}
    BY <1>2
  <1>8. \A i \in 2..n : stack[t][i].mod # Top(t).mod
    <2>1. \A i \in 2..n : i \in 2..Len(stack[t]) /\ i # n + 1
      BY <1>2
    <2> QED BY <1>4, <2>1 DEF BodiesExclusive
  <1> QED BY <1>4, <1>5, <1>6, <1>7, <1>8 DEF Path

LEMMA FailStep ==
  ASSUME NEW t \in Threads, LockInv, OnlyImporter(t), Fresh(t), Std \subseteq cached,
         FailInv(t), [Next]_vars
  PROVE  FailInv(t)'
  <1>l. TypeOK /\ Nesting /\ MarksOwned /\ BodiesExclusive /\ Nested(t)
    BY DEF LockInv, Nesting
  <1>p. program' = program /\ Loadable' = Loadable /\ \A x, A : EndsWell(x, A)' <=> EndsWell(x, A)
    BY SameProgram, SameLoadable
  <1>0. ASSUME stack'[t] = stack[t], call'[t] = call[t], status'[t] = status[t]
        PROVE  FailInv(t)'
    BY <1>0, <1>p DEF FailInv, Path, Wanted, Imports, Top
  <1>u. ASSUME NEW u \in Threads, u # t, Step(u) PROVE FailInv(t)'
    BY <1>0, <1>u, OthersQuiet
  <1>m. Path(t) \in SUBSET Modules
    BY <1>l DEF Path, Nested
  <1>1. ASSUME Step(t) PROVE FailInv(t)'
    <2>s. SUFFICES /\ call'[t] \in {"circular", "error"} => Wanted(t)' \notin Loadable[Path(t)']
                   /\ status'[t] = "failed" => ~EndsWell(t, Loadable[{}])
      BY <1>p DEF FailInv
    <2>1. CASE Import(t) \/ CacheHit(t) \/ CacheMiss(t) \/ Mark(t) \/ Resume(t) \/ Unmark(t)
               \/ StartBody(t) \/ Publish(t) \/ FinishMain(t)
      <3>1. call'[t] \notin {"circular", "error"}
        BY <1>l, <2>1 DEF TypeOK, Nested, InBody, Import, CacheHit, CacheMiss, Mark, BeginLoad,
           Resume, Unmark, Return, StartBody, Publish, FinishMain
      <3>2. status'[t] \in {status[t], "done"}
        BY <1>l, <2>1 DEF TypeOK, Import, CacheHit, CacheMiss, Mark, BeginLoad,
           Resume, Unmark, StartBody, Publish, FinishMain
      <3> QED BY <3>1, <3>2 DEF FailInv
    <2>2. CASE Circular(t)
      <3>1. /\ Wanted(t) \in loading /\ Wanted(t) \notin cached
            /\ stack' = stack /\ status' = status
        BY <2>2 DEF Circular, Fresh
      <3>2. ASSUME NEW u \in Threads \ {t} PROVE 2..Len(stack[u]) = {}
        <4>1. Len(stack[u]) = 1
          BY InMain DEF OnlyImporter
        <4> QED BY <4>1
      <3>3. Wanted(t) \in Path(t)
        BY <1>l, <3>1, <3>2 DEF MarksOwned, Path
      <3>4. Wanted(t) \notin Loadable[Path(t)]
        BY <1>m, <3>1, <3>3, NotLoadable
      <3>5. Wanted(t)' = Wanted(t) /\ Path(t)' = Path(t)
        BY <1>p, <3>1 DEF Wanted, Imports, Top, Path
      <3> QED BY <3>1, <3>4, <3>5 DEF FailInv
    <2>3. CASE Unloadable(t) \/ FailBody(t)
      <3>1. Depth(t) > 1
        BY <1>l, <2>3, Inner DEF Unloadable, FailBody
      <3>2. stack'[t] = SubSeq(stack[t], 1, Len(stack[t]) - 1) /\ status' = status
        BY <1>l, <2>3 DEF Unloadable, FailBody, Return, TypeOK
      <3>3. /\ Top(t).mod \in Path(t)
            /\ Path(t)' = Path(t) \ {Top(t).mod}
            /\ Wanted(t)' = Top(t).mod
        BY <1>l, <1>p, <3>1, <3>2, LeftBody
      <3>4. Top(t).mod \notin Std
        <4>1. Top(t).phase # "published"
          BY <2>3 DEF Unloadable, FailBody, Fails, InBody
        <4>2. Len(stack[t]) \in 2..Len(stack[t])
          BY <1>l, <3>1, Current
        <4> QED BY <4>1, <4>2 DEF Fresh, Top
      <3>5. ~EndsWell(Top(t).mod, Loadable[Path(t)])
        <4>1. CASE Unloadable(t)
          BY <4>1 DEF Unloadable, EndsWell
        <4>2. CASE FailBody(t)
          BY <1>l, <4>2, BodyFails DEF FailBody
        <4> QED BY <2>3, <4>1, <4>2
      <3>6. /\ Path(t)' \cup {Top(t).mod} = Path(t)
            /\ Path(t)' \in SUBSET Modules
        BY <1>m, <3>3
      <3>7. Top(t).mod \notin Loadable[Path(t)']
        <4>1. PICK path \in SUBSET Modules : path = Path(t)'
          BY <3>6
        <4> QED BY <3>4, <3>5, <3>6, <4>1, NotLoadable
      <3> QED BY <3>2, <3>3, <3>7 DEF FailInv
    <2>4. CASE FailMain(t)
      <3>1. Top(t).mod = t /\ Path(t) = {}
        BY <1>l, <2>4, Current DEF FailMain, Path
      <3>2. ~EndsWell(t, Loadable[{}])
        BY <1>l, <2>4, <3>1, BodyFails DEF FailMain
      <3>3. call'[t] = "none"
        BY <1>l, <2>4 DEF FailMain, TypeOK
      <3> QED BY <3>2, <3>3
    <2> QED BY <1>1, <2>1, <2>2, <2>3, <2>4 DEF Step
  <1>v. CASE UNCHANGED vars
    BY <1>0, <1>v DEF vars
  <1> QED BY <1>1, <1>u, <1>v DEF Next

FailingInv ==
  /\ Std \subseteq cached
  /\ \A t \in Threads : OnlyImporter(t) => FailInv(t)

(* Cache, marks and the order of loading do not show.  A program goes on   *)
(* to its end only if all that it imports is loadable, whoever else is     *)
(* importing; and a program that imports alone fails only if its import    *)
(* graph says so.                                                          *)
THEOREM LoadsByGraph == Spec => []LoadsAsDefined
  <1>1. LockInv /\ CacheInv /\ [Next]_vars => CacheInv'
    BY CacheStep DEF LockInv
  <1>2. LockInv /\ AloneInv /\ [Next]_vars => AloneInv'
    BY AlonePreserved
  <1>3. LockInv /\ CacheInv /\ RankInv /\ DoneInv /\ [Next]_vars => RankInv' /\ DoneInv'
    BY RankStep, DoneStep DEF LockInv
  <1>4. Init => FailingInv
    BY DEF Init, FailingInv, FailInv
  <1>5. LockInv /\ AloneInv /\ FailingInv /\ [Next]_vars => FailingInv'
    <2> SUFFICES ASSUME LockInv, AloneInv, FailingInv, [Next]_vars PROVE FailingInv'
      OBVIOUS
    <2>1. cached \subseteq cached'
      BY DEF Next, vars, Step, Import, CacheHit, CacheMiss, Circular, Mark, BeginLoad,
         Unloadable, StartBody, Resume, FailBody, FailMain, Publish, Unmark, FinishMain
    <2>2. ASSUME NEW t \in Threads, OnlyImporter(t)' PROVE FailInv(t)'
      <3>1. OnlyImporter(t)
        BY <2>2, SameProgram DEF OnlyImporter
      <3> QED BY <3>1, FailStep DEF AloneInv, FailingInv
    <2> QED BY <2>1, <2>2 DEF FailingInv
  <1>6. DoneInv /\ FailingInv => LoadsAsDefined
    BY DEF DoneInv, FailingInv, FailInv, LoadsAsDefined
  <1> QED BY Locking, CacheInit, AloneInit, LoadInit, <1>1, <1>2, <1>3, <1>4, <1>5, <1>6, PTL
             DEF Spec
=============================================================================
