# Aethium, in TLA+

Aethium is a small Python-like scripting language in Go that is embedded in a
host program.  A host makes an `Engine`, gives it source text, and the engine
lexes, parses, compiles and runs it on a stack machine; the program may import
modules, start goroutines, talk over channels, and be cancelled by the host.
This directory holds TLA+ models of the parts that are hard to get right, the
TLC runs that check them on small instances, and TLAPS proofs about them for
every instance.

- [The system](#the-system): components, their state, what is hard about them
- [The modules](#the-modules): which model what, and how they map to the code
- [The runs](#the-runs): what is checked, with which bounds
- [The proofs](#the-proofs)
- [Where code and promises differ](#where-code-and-promises-differ)
- [What is not modelled](#what-is-not-modelled)
- [What could come next](#what-could-come-next)

To repeat a check: `tlc -config Channel.cfg Channel`; to repeat a proof:
`tlapm ChannelProofs.tla`.  PROJECT.json lists the runs, the mutants (an
operator behind a `Mutant` comment is the definition that follows it with a bug
put in, with which the run must fail), the lines every definition stands for,
and the hazards.

## The system

| component | state | operations | what is hard about it |
|---|---|---|---|
| channel (`ChannelObject`, pkg/vm/object.go) | a Go channel, a flag `closed`, a mutex | `Send`, `Recv`, `Close` | any number of goroutines; Send looks at the flag and sends after the unlock; parked goroutines |
| module loader (`Engine.LoadModule`, `OpImport`) | the cache `modules`, the marks `loading` | import | bodies import in turn; failures in the middle; two threads |
| goroutines (`OpGoSpawn`, `Engine.Wait...`, `Drain...`) | a WaitGroup and an error list per machine, `lastVM` | spawn, fail, end, wait, drain | goroutines that spawn goroutines; several hosts; machines within machines |
| machine (pkg/vm/vm.go) | operand stack, frames, `exceptStack`, globals, `insCount` | one per opcode | exceptions that cross calls; stacks at their limit; cancellation |
| machine's data operations and builtins (vm.go, builtins.go, value.go, object.go) | values, lists, dicts, iterators | arithmetic, comparison, indexing, slicing, methods of lists, dicts and sets | int64 at its ends; three notions of sameness; objects that look at one array |
| compiler (pkg/compiler) | scopes: instructions, symbol table, loop jumps | one per kind of syntax node | jumps patched by position, across nested loops and tries |
| calls and parameters (vm.go 1449-1693, compiler.go 854-932) | the slots of a call | a call, with or without keywords | slots counted from three sides; two dispatchers |
| classes (object.go, vm.go, builtins.go) | classes, `MRO`, instances | definition, lookup, `super` | merging the orders of several bases; finding out where `super()` stands |
| engine (pkg/engine) | `Config`, registered globals and functions, `lastVM` | Execute, ExecuteWithContext, SetGlobal, CallFunction | configuration changed during a run |
| bytecode (pkg/bytecode) | none | Make, ReadOperands | operands of fixed width; a jump is patched after what it jumps over |
| lexer (pkg/lexer) | position, line, indentation stack, brackets, tokens that are due | `NextToken` | layout that is tokens and layout that is not; reading on and going back |
| parser (pkg/parser, pkg/ast) | two tokens | one function per statement and per expression | where each function leaves the parser; binding powers |
| standard library (pkg/stdlib) | mostly none; `sync` wraps Go's | wrappers of Go's library | `sync` objects used from goroutines |
| ffi, repl, tooling, installer, editors | none worth the name | | input and output |

How they interact.  `Engine.Execute` lexes, parses and compiles the text, makes
a VM that shares the engine's globals, remembers it as `lastVM`, and runs it.
The VM calls back into the engine for an import (`importLoader`), and
`LoadModule` makes another VM for the module's body.  `go f(x)` makes a VM for
the goroutine that shares globals, WaitGroup and error list with its maker;
`map` and `filter` make one for the callback that shares less.  Goroutines meet
in channels, in the globals (under a mutex), and in shared objects (under
none).  The host waits for the goroutines of the last machine and drains their
errors.  A host cancels by the context it gave, which the VM polls.

What must hold, component by component:

- *channel*: nothing accepted is lost, doubled or reordered; a value is refused
  or delivered but not both; the Go channel is closed once (closing it again
  would panic); nobody sleeps although what it waits for is there; Close lets
  everybody out.
- *loader*: the program loads exactly if its import graph says so; marks are
  taken away on every path; the cache never holds a module that is not
  finished; importing ends on every graph, cyclic ones too.
- *goroutines*: the counter is the number of goroutines alive; when the wait
  returns, none is; the drain has every error, once.
- *machine*: it stays within its arrays; it runs frames of real calls only; the
  handler an exception goes to is one whose `try` is on; a cancelled program
  stops soon.
- *compiler and machine together*: a program does what its tree says.
- *calls*: every parameter has the argument that is meant for it, or its default.
- *classes*: the order of a class is the C3 order whenever there is one; methods
  that go on by `super` run once each, and all of them.
- *data*: an operation gives what its mathematical definition says as long as
  that is representable; dicts and sets are maps and sets of the values put into
  them; an object that is a copy does not notice what is done to the other.
- *names*: a function sees the values lexical scoping gives it, in the program
  that defines it; one kept for a later Execute, or imported, sees what it has
  captured.
- *bytecode*: what is emitted and patched is what is executed and listed.
- *lexer*: a token is what is written at its place, and reading makes nothing of
  what is behind the end; every INDENT has its DEDENT, at every end; a token's
  line is its line; every text has an end.
- *parser*: the tree is the one the text was written from, however it is laid out.

## The modules

```
 ChannelContract <--refines-- Channel <------ ChannelProofs
 ModuleLoader <-------------- MCModuleLoader
              <-------------- ModuleLoaderProofs
 Goroutines <---------------- GoroutinesProofs
 Bytecode <-- VM <-- StackDiscipline <-- VMProofs
                                     <-- MCVM  (with Compiler and Reference)
 Classes <------------------- MCClasses, ClassesProofs
 ListsContract <--refines-- Lists <--------- MCLists, ListsProofs
 Slices <-- Lists, Ranges, Values <-- Sorting, Sameness
 CallBinding, Ranges, Sorting, Encoding <-- Computation
 Computation <--------------- ComputationProofs <-- ListsProofs
 Sameness <-- Operators, Dicts
 Computation, Operators, Dicts, Scopes
            <-- Evaluation (with Lexical) <-- MCEvaluation
 Lexer, Parser <------------- MCFrontend
 Lexer <--------------------- LexerProofs
```

**ChannelContract** is the abstract specification: a queue of bounded capacity
that is open or closed; a message is accepted, delivered, or (capacity 0)
handed over.  **Channel** is object.go 768-828 with Go's channel underneath it
as the runtime implements it: a buffer, a queue of parked senders and one of
parked receivers.  Send is two actions, the check of the flag under the mutex
(`SendCheck`, `SendRefused`) and the send after the unlock (`SendHandOver`,
`SendBuffer`, `SendPark`, `SendPanic`), because others run in between; Close is
two, the flag and the Go close, both with the mutex held, so that a Send that
wants the flag waits and one that is past it does not.  Recv takes no lock.  A
message is a sender and a number.  The history variables (`accepted`,
`received`, `refused`, `killed`, ...) record and never constrain.

**ModuleLoader** is `LoadModule`, `OpImport` and the end of Execute, for threads
that are Execute calls or goroutines.  Each thread has a stack of the bodies it
is in the middle of.  The look into the cache (`CacheHit`, `CacheMiss`) and the
test and mark (`Circular`, `BeginLoad`) are separate actions because the code
takes two locks in turn; the publication and the deferred removal of the mark
are two more.  A body is its list of imports, its outcome, and whether it
catches the errors of its imports.  `Loadable` states which modules load as a
recursive function of the path of imports, without cache, marks or order.

**Goroutines** is `OpGoSpawn`, `WaitGoroutines`, `DrainGoroutineErrors` and the
engine's functions of the same names.  Every Execute has a WaitGroup and an
error list; which of them a goroutine shares depends on where it is spawned
(`SpawnFrom`).  A failing goroutine records its error and is counted down in
two steps, as the deferred calls are; the host reads `lastVM` at the wait and
again at the drain.

**Bytecode, VM** are the machine: one action per instruction, the bounds of its
two arrays, the array of frames with what popped calls left in it, handlers as
`handleException` finds them, the poll every `PollEvery` instructions and at
backward jumps.  A Go panic in the middle of an instruction ends the run with
status "panicked", which is what the deferred recover of `Run` makes of it.
What a program computes is `ask()`, a host function that answers 1, 0 or raises,
and what it shows is `print`.  Values keep kind and number; a list is its length.

**StackDiscipline** says when a program's instructions keep the operand stack and
the handlers in order.  A *table* gives, for each position of each function that
control may reach, how many operands there are above what the innermost try goes
back to, and which tries the position is in.  `Disciplined(u, t)` is that every
instruction finds its operands there, leads only to positions that the table has
with what it leaves, and that no return or end of code is inside a try; nothing
in it runs the program.  pkg/vm does not test this, pkg/compiler is trusted with
it.  MCVM computes tables (`TableOf`), and TLC evaluates two assumptions with
them: that every structured program as compiled is disciplined
(`CompiledCodeIsDisciplined`), and that those with a `return` inside a try, which
is the second disagreement below, are not (`ReturnsBreakTheDiscipline`).

**Compiler** is compiler.go for statements (match, unpacking, assert and del
included), calls, and the expressions that jump or loop over what lies on the
operand stack beneath them: and, or, the conditional expression, list
comprehensions.  It emits the same instructions, in the same order, with the same
patched jumps, scopes and loop lists.  **Reference** says what the same programs mean by structure alone,
without instructions, stack or jumps: a big-step evaluator of trees.  MCVM
compiles programs with the first, runs them on VM and compares with the second.

**Classes** is class statements one after the other (`MakeClass`: `computeMRO`,
its merge loop step by step), then a method called on an instance and what it
reaches by `super()` or `super(C, self)`: a chain of running methods.
`LookupMethod` and `LookupMethodStartingAfter` are the loops of object.go; what
`builtinSuper` takes for the class it is called from is its search for the name
of the running function.

**ListsContract** says what lists, tuples and iterators are to a program:
each has contents; a method changes those of its object, and of others only if
they share an array.  **Lists** is what they are: every object holds a Go slice,
a window on an array (`at`, `mem`), and most methods are an `append` to a cut of
it, which writes behind the cut when the array has room and makes an array of
its own when it has not.  How much room a new array has is Go's choice, and is a
choice here.  `list()`, `tuple()`, the iterator of a loop and the starred target
of an assignment look at the array of the object they are made from; `kin`
records which objects have done so, and constrains nothing.  `UnpackRest` is the
handler with the counts it is given; what the compiler gives it is below.

**Values** is what a value is, `Truthy` and `LessThan`, **Sameness** `Equals`,
`HashKey` and `isIdentical`, by type: ints, floats counted in quarters, bools,
strings, tuples, None.  **Sorting** is min, max and sorted: the stable sort of the
host is modelled as what it does with few elements, which is to put one after the
other behind the last that it does not precede.  (For values that can be compared a
stable sort has one result, however it gets there; for the others, for which the
order is none, only the rearrangement is promised.)  **Operators** is the
arithmetic, bitwise and comparing instructions with `evalAdd` to `evalMod`.  **Slices** is indices, slices and
slice assignment, **Ranges** is `range` in all the ways it is looked at (a loop,
a list, `len`, `in`, its truth), both in two's complement of `Width` bits.
**Dicts** is dicts and sets as maps from hash keys, with their methods.

**CallBinding** is one call: a parameter list of the compiler's making
(`parameters`, `defaultCount`, `varArgName`...), a callee (function, method,
class, builtin), how many arguments and which keywords; then the slots that
`callClosure`, `executeCall` and `executeCallWithKw` fill.  `Meaning` says by
declaration what each parameter should have.

**Scopes** is the symbol table, the cases of the compiler for names, assignments,
`global`, `def` and `from`, and the instructions for constants, variables and
closures, with the tables of constants and names that a program's instructions
refer to by place.  It runs sessions: the programs a host executes on one
engine, which share globals, and the modules they import, which have their own.
**Lexical** says by structure what such a session means, and whether a function
was called by another program and needed its own (`strayed`).  **Encoding** is `Make`
and `ReadOperands` with the table of widths, the compiler's `emit`, `addName`
and `changeOperand`, and the widths each case of `Run` reads, which the code
states a second time.

These ten are pure functions of the code.  **Computation** and **Evaluation**
put a question to one of them in a step, as the machine or the compiler would,
and record the answer; their invariants compare the answer with a definition that
is not the code's: floor division by its inequality, a bit by its position, a
slice or a range by how many of its places are before the end, a dict as the
function it stands for.  Computation asks about calls, slices, ranges, sorting
and encoding, whose loops are recursive functions on the naturals, so that its
properties are proved, too; Evaluation extends it by what needs recursive
operators, and its steps are those of Computation and more.

**Lexer** is lexer.go: `NextToken` in actions, one for each return and for each
round of its loops, on texts whose elements are the characters that matter to
the layout and, as units, words, numbers and operators.  Positions begin at 1,
those of the code at 0; as in `readChar`, nothing keeps them within the text.  An
escape in a string takes the element behind it whatever that is, the end
included, and `\x` takes two characters more: an operator may be both of them or
one (`AfterEscape`), and a longer word that begins with x is taken to bring them
itself.  So the position may be up to two behind the end (`Reach`).  **Parser** is
parser.go: recursive operators on a token sequence and a position, one for each
function and named like it, that return the syntax tree or stop at the first
error.  It is a pure function, so it is no state machine.  MCFrontend writes
texts from syntax trees, with as few brackets as the binding powers of
parser.go:14-65 ask for and in several layouts; what lexer and parser make of a
text has to be the tree it was written from.

## The runs

| run | what it asks | bounds |
|---|---|---|
| channel | exactly-once, order and wake-ups, with senders, receivers and closers in every order; Close releases everybody; the contract is implemented | 3 goroutines, capacities 0 and 1, 2 sends each |
| loader | a program loads if and only if the graph says so; the mark is a lock, and none is left; the cache is complete; importing ends | one importer: 2 modules, every graph with up to 2 imports each, every outcome, every choice of who catches; two importers: 2 modules and one of the library, up to 1 import each |
| goroutines | wait means all have ended, the drain has all errors, once; waits end | 2 hosts, 2 goroutines, all ways to spawn |
| goroutines_callback | *violated*: all failures are captured | 1 host, 2 goroutines |
| vm_structured | programs do what their tree says; stacks keep their discipline | programs of MCVM, 4 answers, stack 24, 4 frames |
| vm_any_program | arrays, frames and cancellation, whatever the program | programs of MCVM, stack 5, 3 frames, a poll every 6 |
| vm_finally | *violated*: a finally always runs | return inside try |
| classes | MROs are orders, and C3 orders if there is one; chains of super run each method once, and all of them | every hierarchy of 5 classes of up to 2 bases; of 4, with every choice of who has the method, and chains up to 5 deep that mix both forms of super |
| evaluation | calls bind, operators compute, comparisons agree, sorting sorts, slices, ranges, dicts, sets, scopes, sessions and encodings are what their definitions say | Width 4 (ints -8..7); parameter lists of up to 4 with every call of up to 4 arguments and any keywords; 3 elements a slice and every bound and step; every range; 6 keys that are easily taken for each other; nests of three functions over two names; sessions of up to three inputs and a module; listings of two instructions around a jump in bytes of one bit |
| lists | types; who shares an array; who notices a change; the contract is implemented | 2 objects, 3 arrays, 2 elements, up to 3 elements an object, indices -1..1, 4 slices |
| frontend | texts are parsed as what they were written from; types; tokens are what is written at their places; layout tokens are balanced; lines are counted | every expression of two operations; every statement in five layouts, and blocks in blocks; any three of 18 fragments |
| frontend_blocks | *violated*: every statement that is written is in the tree | a statement behind one with a block |

Why the bounds are enough.  *Channel*: two on one side and one on the other are
what a race over one slot needs, and a close by any of them; capacity 1 is full
and empty in turn, so a parked sender, a refill from it and a close that wakes
it all occur; two messages a sender make order visible.  *Loader*: two modules
give every shape of a cycle (self, mutual) and of a diamond closed by the main
program; a third adds the cache hit of a library module.  *Goroutines*: two of
each let a goroutine spawn while a host waits and the other executes, and one
fail before and one after.  The proofs remove these bounds for safety.  *VM*:
the stack of 24 is never full in vm_structured and the frames are (recursion to
`RecursionError`); in vm_any_program both are exhausted.  MaxAnswers bounds the
outcomes of a program's calls; after it `ask` says no, so loops end.  *Classes*:
five classes are what the smallest hierarchy needs whose bases have orders that
contradict each other without any class being wrong by itself; the proofs remove
the bound.  *Lists*: two objects are
a list and one that shares its array or does not; two elements tell places
apart; an array has room, in which an append writes where the other may look,
once one of them is shorter than it was.  A state is the arrays as the objects
see them (`View`): their numbers and the last call are not told apart.
The proofs remove the bounds.  *Evaluation*: with four bits
every pair of integers, every slice and every range is asked, the ones that
overflow included; four parameters are one without a default, one with, a star
and stars, in any order.  For calls, slices, ranges and sorting the proofs remove
these bounds, the width as well; nothing in the rest depends on the width.  The questions
about dicts have two pairs put in, which is what it takes to put one over the
other; a third of the sessions of several programs have no function that strays,
and in many of these it shows what it captured elsewhere.  *Frontend*: the
parser compares the powers of two neighbouring operators, so two operations,
each in either place of the other, meet every comparison; blocks two deep end
one and two at a time.

Fairness.  FairSpec of Channel has weak fairness of every goroutine's Send and
of the second half of its Close: Go's scheduler runs every goroutine that can
go on, and one that holds the mutex is such.  Nothing is assumed of Recv or of
calling Close, which are the program's choice; a parked goroutine takes no step
of its own, whoever wakes it does.  FairSpec of ModuleLoader has weak fairness
of every thread's steps (LoadModule never blocks: no lock is held while a body
runs).  FairSpec of Goroutines has it of the deferred Done and of the wait's
return, not of a goroutine's program, which may never end: WaitEnds says that
a wait that lasts has a goroutine or main program that still runs to blame.
VM needs none: CancelIsPrompt counts instructions.

Deadlock is not checked but in `lists`: in every other model a run ends, and a
program may park all its goroutines, which the code does nothing against.

## The proofs

All hold for every value of the constants that satisfies the named assumption
in the module that declares them.

*ChannelProofs* (assumption `ChannelAssumption`).  Two invariants.  `QueueInv`
(types, one close, parked queues, numbering, buffer within capacity) is
inductive: NoLostWakeup alone is not, since a receiver parks on the evidence of
an empty buffer and that the two parked queues are never both occupied has to
be known.  `FlowInv` relates what was accepted to what was received followed by
the buffer, and the order of each sender's numbers.  From them:
`Typing`, `ClosesOnce`, `WakeupsNotLost`, `FirstInFirstOut`, `SendersInOrder`,
and `Implementation`: every step of Channel is a step of ChannelContract or
leaves its state alone.  `EveryMessageHasOneFate` needs QueueInv beside OneFate,
since a message is taken from its sender wherever he is parked; the five sets it
is about become the variables of one relation (`Fates`), and each action moves
messages between two of them, or none.

*ModuleLoaderProofs*.  `LockInv` is types, nesting (what is above the bottom of
a thread's stack are distinct modules, each imported by the one below it),
MarksOwned and BodiesExclusive.  None of the last two is inductive without the
other, and both need the nesting: a mark is removed by whoever ends a body, so
one has to know that the body is on one stack only and once on that.
`CacheInv` adds to CacheComplete what makes it last while a body is under way:
the imports a body has behind it are in the cache.  `AloneInv` says of the only
importer that what it is in the middle of has not been published; from it
`LoadedOnce`, on any import graph.  `LoadsByGraph` is that cache, marks and order
do not show: LoadsAsDefined, for any number of threads and modules.  That a
program that ends is one that should needs ranks (`RankInv`): a module is
published after what it imports, so those of the cache can be numbered such that
imports have lower numbers, and then they are loadable in that order, each on any
path without lower ones (`CachedLoads`).  CacheComplete alone would allow a cache
of two modules that import each other.  That a program that fails alone is one
that should is `FailInv`: what the import under way has just failed to load is not
loadable on the path of bodies it is imported from.  The recursive function exists
because a body that ends well with some modules does so with more (`LoadableIs`);
no module need be finitely many imports away from another.

*GoroutinesProofs*.  `GroupInv` is types, WgCounts, that the goroutines counted
in a WaitGroup are finitely many (no assumption makes the goroutines of the
program finite), and that one not yet born has no group.  `HostInv(e)` is what
host e can rely on while others execute, spawn and drain: from it `WaitMeansDone`
and `DrainHasAll`.  `ErrorInv` says of a goroutine's error in which lists and
gifts it stands, place by place, that one that still runs has none, and that a
host that has not drained was given nothing: from it `ErrorsInOnePlace`, whose
counting is left to one lemma (`RecordsCounted`).

*VMProofs* (`VMAssumption`, `UnitsAssumption`: units are well formed, not that
the compiler made them).  `IInv` is the type of every variable, the fact that
each frame below `frameIndex` *or below a handler's frame* is one a call has
filled, and the pace of the poll (`late <= ticks`: no more
instructions have begun since the cancellation than since the last poll).  The second is the strengthening: the handler a
`return` inside a try leaves behind points at a frame that has been popped, and
what saves the machine from running garbage is that popping does not clear it.
From it: `Typing`, `FramesAreReal`, `CancelsPromptly` - with any program.

Its second half is about programs with a table (`DisciplinedBy(tables)`: the unit
and the table are `Disciplined`, a hypothesis of each theorem and not an
assumption of the module, since units without one exist and are run).  For such a
program `StacksAlwaysNest` and, if its table says that the module ends with no
operand, `NothingIsLeft`: whatever it calls, raises and catches.  The invariant
(`Kept`) places every handler: there is a function `base` such that `base[i]`
handlers are those of the first i frames, the handlers of a frame are those of the
tries the table lists for where it stands, in their order, and each goes back to
the height at which its try was set up, which the table's numbers relate to the
handler beneath it.  StacksNest alone is not inductive: that a handler's height is
within its frame does not say that the next PopExcept takes off the right one, nor
what a frame finds when an exception comes back to it from frames above.  Together
with the assumption that TLC evaluates the argument is: the compiler's output has
tables; what has a table nests, for every size of the stack and of the frames,
every limit of the poll, every answer.

*ListsProofs* (`ListsAssumption`).  The invariant is types and SharersAreKin.
That a slice of elements is of elements is `SliceTypes` of ComputationProofs,
taken through INSTANCE.  Types
say that every window lies in its array *and shows no slot that was never
written*; an append in place keeps that of the other objects only because it
writes elements, and of its own because it begins at the cut.  SharersAreKin
needs in turn that an array handed out is one no object looks at.  Each
operation is shown to be a step of one of four forms (`StepOf`: its object keeps
its array, takes a new one, appears alone, or appears on another's), and the
forms are what the invariant is proved for.  From it `TypeCorrect`,
`OnlyKinShare`, and `NoticedByKin`, by following one write through the windows.

`ListsAreAsPromised`: Lists implements ListsContract, where `contents` is what
the windows show.  What an operation leaves to its object is the view of the
slice and the arrays it makes (`View`): of a new array the elements it was made
of, of an append what was before the cut followed by what was appended, whether
there was room or not (`AppendView`), of a part of a window a part of the
sequence (`PartShows`).  The objects that look at another array are left alone,
the others keep their number of elements and show elements still
(`ContractChanges`).  The contract sorts by rearranging
(`Arrangements`, by a bijection of the indices), the module by counting: that
an ascending sequence with every value as often as before is an arrangement
needs one bijection for each value (`SortingIsArrangement`).  For a slice both
refer to evalSlice, whatever that finds; `SlicesFind` below says that it finds the
right elements.

*LexerProofs* (`LexerAssumption`: a text is of elements, the sets of elements are
told apart, and two words or numbers do not touch).  For every text.  `TypeInv`
is types, that the widths of the indentation stack ascend from none (`Nested`),
that a string is read from a quote before the position (`Quoted`), and that a
line begins in the text and in no string (`Started`).  From it `Typing`: the
position leaves the text by two at most, since only an escape that begins in the
text takes it out (`EscapeEnds`), and outside of strings nothing moves it on
from there.  `ReadInv` says why that does no harm: each token is what is written
at its place, those that are due being layout and errors only (`FromText`), and
when the position has left the text (`Left`) a string is being read, or what is
due or returned since its error is what the end stands for; from it
`ReadsTheText`.
`LayoutInv` adds what may be due (`Due`: a NEWLINE only first, an error only
last, nothing that ends the text), that nothing is left to read, no string open
and the stack undone when the text has ended (`Ended`), that whether the line
has a token is what the last token says, but for a NEWLINE that is due
(`Placed`), and that what was indented and not dedented, the tokens that are due
included, is what the stack has (`Balanced`).  Layout alone is not inductive: it
counts what has been returned, and between the lines much is only due; from them
`LayoutIsSound`.  `LineInv` gives its line to everything that has a
place: the position, the tokens, those that are due and the string under way
(`Counted`), unless the text has an end of a line in a string that is not
counted (`Uncounted`).  The lines are a sum over the elements passed
(`Breaks`), which is split where the lexer stopped in between; from it
`LinesAreCounted`.

*ClassesProofs* (`ClassesAssumption`: finitely many classes, no bound of the run
among them).  The operators of Classes speak of its variables; the lemmas speak
of parameters (the bases of all classes, their orders), so that they can be used
of the classes before and after a class statement.  Ancestors, the merge and the
definition of an order are functions on the naturals that are unfolded until
nothing is new; that they exist, and what they come to, is proved from the
well-foundedness of the naturals (`Induct`, `Iteration`), which needs no operator
as a parameter.  So `AncestryIs`: the ancestors are the least set with the class
and the bases of its members.  `Merging` is the invariant of the loop of computeMRO:
what is left of each sequence is its end, what is gone of it is in the result,
and the result keeps its order (`Keeps`).  The loop stops when no head is good
(`MergeEnds`), and then nothing is left unless what must precede what goes in a
circle (`NothingIsLeft`): a class that none that is left must precede is in no
tail, so it is a good head.  `IInv` is types, `OrdersInv` and `ChainInv`.
OrdersInv says that the classes made are closed under bases, that their orders
are orders, and that each whose ancestors all have a C3 order (`HasOrder`) is before all
that it inherits from, which MroIsC3 does not say but for its direct
constraints; without it a grandchild could not be shown to be before what its
parents are before.  ChainInv says where in the order that is searched the methods of a
chain are, and that while all go on by `super(C, self)` none was passed over:
that is what lets the last of them conclude that every ancestor has had its turn.
From them `OrdersOfSearch` and `Cooperation`.

*ComputationProofs* (`ComputationAssumption` and `SlicesAssumption`: what is asked
are calls, slices, lists that are not empty, instructions whose operands fit and
names; integers have at least one bit, and a byte has two values or more).  A loop is a
function on the naturals of which only the value after 2^Width rounds is looked
at.  That the function is the one its definition says (`RunExists`) is proved as
in ClassesProofs; `LoopFinds` then says of a loop what can be used: if the loop
goes on at its first count places s, s + step, s + 2 step, ... and not at the one
behind them, and none of these sums is cut off by the width, it has found those
of these places that are elements.  How many places are before the end is the least number that is
not (`HowMany`), which is what the definitions count, and there are at most
2^Width of them since they differ and are integers.  From it `SlicesFind`, by
cases of the sign of the step and of where the clamped bounds lie, and
`RangesCount`, where membership and length are about the division that rounds
towards zero instead: `Divides` has a remainder of zero exactly for the
multiples.  The powers of two come from counting subsets (`Powers`, `Doubled`),
because the provers know nothing else of `^`.

For calls the prefix function of `Noted` is determined in the same way
(`NotedIs`): when the noted places follow each other it is that piece of the list.  A signature in the usual order is plain parameters without a default,
then those with one, then the star, then the stars (`Shapes`), so the counts and
the list of defaults that the compiler notes are what `callClosure` takes them
for (`Parameters`).  `Binds` goes through the slots; the star's is behind the
plain ones and the stars' behind both (`SlotsAre`).  Each of the four kinds of callee then
is such a call or refused (`CallMeans`): `CallsBind`.

For sorting, `Before` is put as where two texts begin to differ (`BeforeIs`), from
which follow, by the least place where two of three differ, the two facts that make
LessThan an order of a list of numbers or of texts (`LessIsWeak`): no two elements precede each
other, and of three of which one precedes another the third is apart from one of
them.  An insertion puts a place behind those it does not precede
(`InsertedAt`), which keeps a list of places complete (`MoreIsOnto`) and, under
such an order, the list ascending with equal ones in their turn (`MoreIsInOrder`); so by
induction on the places put, `SortMeans`.  For elements that cannot be compared
only the first half holds, and is claimed.  The first of the least is what min has
found so far (`KeepStep`, `ExtremeMeans`).  From both `SortingSorts`.

For instructions, what the bytes of an operand add up to, from the front, is what
is left of it when as many bytes are taken away from the end (`UintIs`), so an
operand that fits is read as it was put.  Sequences that are put together are at
the sums of the lengths before them (`Joins`), operands in an instruction
(`MakeIs`) and instructions in a program (`LaidBySteps`).  `Laid` says this of a
program: that each instruction is where those before it end.  A patch of a jump keeps it, with
the jump's new target, because the new instruction is as long as the old one and
no other one is at its bytes (`LaidGrows`, `PatchedIs`).  A reader who takes the declared
widths goes from the beginning of one instruction to that of the next (`StepIs`, `WalkIs`),
and on all but the four operations of `Misread` the machine is one (`WidthsAgree`);
of these only OpUnpackRest has a case in `Run` and is emitted (see below).
The index of a name stays its place, since names are only added, behind the
others and once (`NamesStay`); so there are no more than are mentioned
(`FewNames`), and the indices fit.  From both `InstructionsDecode`.

Only model-checked: liveness (CloseReleasesAll, ImportsEnd, WaitEnds), which is
out of the prover's reach; what refers to recursive operators, or compares one
recursive definition with another (RunsAsWritten,
ParsesAsWritten, and what `evaluation` asks beyond Computation); and that the compiler's output has tables of depths and
handlers (`CompiledCodeIsDisciplined` of MCVM).
`CloseOnce`, `SenderOrder` and `WgCounts`, and the types of Channel,
ModuleLoader and Goroutines, are proved for every instance and are in no run.

## Where code and promises differ

Three disagreements have a run that shows them:

1. *A failed goroutine may go unreported* (`goroutines_callback`).  The machine
   that runs a `map` or `filter` callback has an error list of its own that
   nobody drains (vm.go:1705).
2. *A finally may be skipped* (`vm_finally`).  `return` inside a try compiles to
   a bare OpReturnValue (compiler.go:1125).
3. *A statement of one token behind a block is lost* (`frontend_blocks`), without
   an error (parser.go:286).  `break` behind an `if` is such a statement.

Others were met while modelling.  The models do what the code does.  The texts
and programs of `frontend` and `vm_structured` leave these shapes out, since
what they are compared with says what the language means.

In the lexer and the parser:

- `not a == b` is `(not a) == b`: the operand of `not` is parsed with the power
  of a sign, and the power LOGICAL_NOT is not used (parser.go:1154);
- `a if c else b if d else e` groups to the left (parser.go:1563);
- a guard of a case is always a syntax error: the pattern takes its `if`
  (parser.go:523);
- `return a, b` returns a and goes on with a tuple statement that is never
  reached; `for k, v in d` without brackets is an error;
- two statements may be on one line with nothing between them; comparisons do
  not chain; a comma behind the last parameter is an error (parser.go:414);
- an unknown character where a token is passed over (a parameter, the lines
  between cases, behind a block) is no error;
- a comment or a continuation between `not` and `in` makes them two words;
- an escaped end of line, or a lone `\r`, in a string is not counted as a line;
  `\x` takes the two characters behind it whatever they are (lexer.go:623-636), so
  that an end of line among them is not counted, and a quote among them does not
  end the string;
- an escape that the text ends in takes the position up to two characters behind
  the end (lexer.go:49, 636); the string is then an error, and nothing is made of
  what would be there.

In the compiler and the machine:

- `return`, `break` and `continue` inside a try leave its handler on
  exceptStack; a later exception goes to it (vm_any_program runs such programs);
- an exception in a handler or an else skips the finally;
- a match leaves its subject on the operand stack when one of its cases is run
  (compiler.go:851); a `for` around it then takes the subject for its iterator;
- a try with a finally and no except swallows the exception and leaves it on the
  operand stack;
- `break` out of a `for` leaves the iterator on the stack, so an enclosing `for`
  goes on with the wrong one;
- typed handlers never match, the last handler catches everything; a bare
  `raise` raises a new exception with the message "None";
- a stack overflow ends the run and is no exception of the language; too deep a
  recursion is one;
- an assignment in a function to a name the module has already defined is an
  assignment to the global; a closure captures the values its variables have
  when it is made, an assignment to one changes its own copy only, and
  `nonlocal` makes no difference (symbol_table.go:129-134); a nested function
  does not find itself; a global that has the name of a builtin is stored, but
  reading the name gives the builtin;
- a function knows its code, its captured values and its defaults, but not the
  tables of constants and names its code refers to, nor its globals (object.go:411,
  vm.go:341-347, 668-699, 904): the machine that calls it lends its own.  So a
  function kept from an earlier `Execute` (each line of the repl is one), or
  imported from a module of the user, that has a constant or a global name in it
  takes other constants, other names, or fails with an index out of range.
  TestUserModuleImportAeth (engine_test.go:886) imports functions of nothing but
  their parameters;
- `a, *b = seq` emits two operands of two bytes (opcode.go:201) of which the
  machine reads one byte each and goes past two (vm.go:1337-1339), so the counts
  are wrong and the rest is executed;
- an operand that does not fit in its width is cut off without an error;
- OpYield, OpSetupWith, OpWithCleanup, OpLoadClosure, OpMakeGenerator and
  OpPopBlock have no case in `Run`; README.md:15 promises generators;
- `a[i] += v` duplicates the wrong operand (compiler.go:598-607);
- the else of a `for` or a `while` is parsed (parser.go:574, 598) and left out of
  the code (compiler.go:688-754); TestForElse (engine_test.go:517) has none;
- `del x` in a function deletes the global x and leaves the local
  (compiler.go:789, vm.go:1163); deleting what is not there is no error;
- the variable of a comprehension is one of the scope around it, and the message
  of an assert is evaluated when the condition holds, too: Reference says so with
  the code;
- `raise x from y` of an instance keeps its class (vm.go:1366), `raise x` makes it
  an Exception (vm.go:1069);
- in a pattern, `_` within a tuple is a name that is not found
  (examples/oop.aeth:72);

In calls and classes:

- surplus positional arguments are dropped; parameters behind `*` are bound to
  the wrong slots (vm.go:1573, used in examples/oop.aeth:184); a keyword that
  names a parameter given by position replaces it, or is dropped if there is a
  `**`;
- classes and bound methods refuse keywords (vm.go:1691, used in
  examples/oop.aeth:218);
- a hierarchy without a C3 order gets a shorter one, without an error
  (object.go:503); of two definitions of a method in a class the first counts;
- `super()` goes on behind the first class of the instance's order that has a
  method of the running function's name, which in three levels is the class it
  is called from, again (builtins.go:171-187).  `super(C, self)` is right.

In the data operations:

- `//` takes both numbers as integers: `7.5 // 0.5` is a ZeroDivisionError; `%`
  of floats keeps the sign of the left one; `//` and `%` with what is no number
  count it as zero; the smallest int divided by -1 wraps; a bool in a sum makes
  it a float; `**` of ints goes through floats;
- `2 == True` is true and `True == 2` is not, `1.0 == True` is not either; values
  that have no order are all `<=` and `>=` each other;
- an int, a float and a bool that are equal are different keys; keys of tuples
  and frozensets collide when a text in them has `;` and what a key begins with;
  `-0.0` is a key of its own; deleting a key that is absent is no error;
- a slice that starts below the first element with a step of two or more takes
  the wrong ones; a step of zero is a step of one; with a huge step the index
  wraps; the loop over bytes does not look at the length, and so a bound far
  beyond it takes as many rounds;
- the length of a range with a step downwards is too small (builtins.go:217);
  near the ends of int64 a loop over a range goes round and does not end;
- `list()` and `tuple()` of a list look at its array: `a.sort()` sorts both,
  `a.append` may or may not; a tuple so made changes;
- `ExceptionGroup(msg, a)` keeps the array of the list `a` (builtins.go:132-138),
  and `.exceptions` makes a list on it (vm.go:1879); exception groups are not
  among the objects of Lists;
- `list(frozenset(...))` is empty.

In the engine:

- an import by two threads at the same time can fail as circular without a
  cycle: the set of modules being loaded is the engine's (engine.go:177);
- two threads that import a module one after the other's look into the cache
  run its body twice, and each has its own globals.

## What is not modelled

The methods of strings, conversions, complex numbers, bytes but for their
slices, powers.  Attributes of instances other than methods; properties,
decorators at run time.  The parser within f-strings.  Comprehensions
of dicts and sets, and assignment to indices and attributes, in the compiler.  `ExecuteWithContext`'s swap of the
engine's context and the other configuration.  Most of the standard library, the
foreign function registry, the repl, the linter and the installer are wrappers
of input and output.  Floats are exact quarters: rounding, NaN and infinities
are left out.  The machine's model (VM) has its own small set of values, so that
its programs and the data operations are checked apart.
The Go scheduler, garbage collector and memory model are taken as sequentially
consistent, which the mutexes and channels of these components justify; lists
and dicts shared between goroutines have no lock, and what a race on them does
is not modelled.

## What could come next

| what | checked against |
|---|---|
| Attributes: fields, static attributes and properties, in the order GetAttr looks | the order of the class |
| Engine: ExecuteWithContext, SetGlobal, CallFunction, composed with Goroutines and ModuleLoader | one host's calls do not show in another's |
| the worker pool of examples/concurrency.aeth on Channel and Goroutines | every job is done once, the pool ends |
| Mutex and WaitGroup of the library (stdlib.go 644-672) | the contracts of Go's |
| arithmetic and bits of any width, without the community module Bitwise, which cannot be used under a proof | ArithmeticAsDefined as a theorem |
