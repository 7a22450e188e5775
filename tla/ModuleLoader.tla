---------------------------- MODULE ModuleLoader ----------------------------
(***************************************************************************)
(* Importing user modules: OpImport in the VM and Engine.LoadModule in     *)
(* pkg/engine/engine.go.  The engine has one cache of modules and one set  *)
(* of modules being loaded; the threads that import are the main programs  *)
(* of concurrent Execute calls and the goroutines of `go` statements,      *)
(* which all reach the same Engine.                                        *)
(*                                                                         *)
(* LoadModule looks into the cache under one lock, releases it, then tests *)
(* and marks the module as being loaded under another, runs the module's   *)
(* body in a VM of its own (the body imports in turn), publishes the       *)
(* module object in the cache, and takes the mark away in a deferred call. *)
(* A module that is marked is reported as a circular import, whoever has   *)
(* marked it.                                                              *)
(*                                                                         *)
(* The calls nest: stack[t] holds the programs and bodies thread t is in   *)
(* the middle of, its main program at the bottom.  A body is abstracted to *)
(* its import statements, its outcome and whether it catches the errors of *)
(* its imports.                                                            *)
(***************************************************************************)
EXTENDS Integers, Sequences, FiniteSets

CONSTANTS Threads,   \* the threads that import
          Modules,   \* module names
          Std,       \* those the engine has in its cache from the start
          Programs   \* the main programs and module bodies to consider

Names == Threads \cup Modules

(* "missing": no file; "broken": does not parse or compile; "raises": its  *)
(* body ends with an uncaught error; "ok": its body runs to the end.       *)
Outcomes == {"ok", "missing", "broken", "raises"}

IsProgram(g) ==
  /\ g.imports \in [Names -> Seq(Modules)]
  /\ g.outcome \in [Names -> Outcomes]
  /\ g.catches \subseteq Names

ASSUME LoaderAssumption ==
  /\ Threads \cap Modules = {}
  /\ Std \subseteq Modules
  /\ \A g \in Programs : IsProgram(g)

VARIABLES program,  \* the programs and bodies; never changes
          cached,   \* Engine.modules: the modules in the cache
          loading,  \* Engine.loading: the modules marked as being loaded
          stack,    \* of each thread: the bodies it is in the middle of
          call,     \* of each thread: where the import at the top stands
          status,   \* of each thread: "running", "done" or "failed"
          objects   \* how many module objects were published for each name

vars == <<program, cached, loading, stack, call, status, objects>>

Frame   == [mod : Names, next : Nat \ {0}, phase : {"marked", "body", "published"}]
Calls   == {"none", "lookup", "missed", "ok", "circular", "error"}
Depth(t) == Len(stack[t])
Top(t)   == stack[t][Depth(t)]
Imports(t) == program.imports[Top(t).mod]
Wanted(t)  == Imports(t)[Top(t).next]
InBody(t)  == status[t] = "running" /\ Top(t).phase = "body"
AtEnd(t)   == Top(t).next > Len(Imports(t))

(* No other thread has an import statement in its main program. *)
OnlyImporter(t) == \A u \in Threads \ {t} : program.imports[u] = <<>>

SetTop(t, f) == [stack EXCEPT ![t] = [@ EXCEPT ![Len(@)] = f]]

(* LoadModule returns to its importer: the deferred call removes the mark. *)
Return(t, result) ==
  /\ loading' = loading \ {Top(t).mod}
  /\ stack' = [stack EXCEPT ![t] = SubSeq(@, 1, Len(@) - 1)]
  /\ call' = [call EXCEPT ![t] = result]

Init ==
  /\ program \in Programs
  /\ cached = Std
  /\ loading = {}
  /\ stack = [t \in Threads |-> << [mod |-> t, next |-> 1, phase |-> "body"] >>]
  /\ call = [t \in Threads |-> "none"]
  /\ status = [t \in Threads |-> "running"]
  /\ objects = [m \in Modules |-> 0]

-------------------------------------------------------------------------------
(* An import statement: OpImport calls LoadModule. *)
Import(t) ==
  /\ InBody(t)
  /\ call[t] = "none"
  /\ ~AtEnd(t)
  /\ call' = [call EXCEPT ![t] = "lookup"]
  /\ UNCHANGED <<program, cached, loading, stack, status, objects>>

(* LoadModule reads the cache under modulesMu. *)
CacheHit(t) ==
  /\ InBody(t)
  /\ call[t] = "lookup"
  /\ Wanted(t) \in cached
  /\ call' = [call EXCEPT ![t] = "ok"]
  /\ UNCHANGED <<program, cached, loading, stack, status, objects>>

CacheMiss(t) ==
  /\ InBody(t)
  /\ call[t] = "lookup"
  /\ Wanted(t) \notin cached
  /\ call' = [call EXCEPT ![t] = "missed"]
  /\ UNCHANGED <<program, cached, loading, stack, status, objects>>

\* Mutant: an import of a module being loaded waits for it.
CircularWaits(t) ==
  InBody(t) /\ call[t] = "missed" /\ Wanted(t) \in loading /\ UNCHANGED vars

(* LoadModule tests and sets the mark under loadingMu. *)
Circular(t) ==
  /\ InBody(t)
  /\ call[t] = "missed"
  /\ Wanted(t) \in loading
  /\ call' = [call EXCEPT ![t] = "circular"]
  /\ UNCHANGED <<program, cached, loading, stack, status, objects>>

BeginLoad(t) ==
  /\ loading' = loading \cup {Wanted(t)}
  /\ stack' = [stack EXCEPT ![t] =
                 Append(@, [mod |-> Wanted(t), next |-> 1, phase |-> "marked"])]
  /\ call' = [call EXCEPT ![t] = "none"]
  /\ UNCHANGED <<program, cached, status, objects>>

\* Mutant: the mark is set without being tested.
MarkUntested(t) ==
  InBody(t) /\ call[t] = "missed" /\ BeginLoad(t)

Mark(t) ==
  /\ InBody(t)
  /\ call[t] = "missed"
  /\ Wanted(t) \notin loading
  /\ BeginLoad(t)

(* No file with the module's name, or one that does not compile. *)
Unloadable(t) ==
  /\ status[t] = "running"
  /\ Top(t).phase = "marked"
  /\ program.outcome[Top(t).mod] \in {"missing", "broken"}
  /\ Return(t, "error")
  /\ UNCHANGED <<program, cached, status, objects>>

\* Mutant: the module is in the cache while its body runs.
StartBodyPublished(t) ==
  /\ status[t] = "running" /\ Top(t).phase = "marked"
  /\ program.outcome[Top(t).mod] \in {"ok", "raises"}
  /\ cached' = cached \cup {Top(t).mod}
  /\ stack' = SetTop(t, [Top(t) EXCEPT !.phase = "body"])
  /\ UNCHANGED <<program, loading, call, status, objects>>

StartBody(t) ==
  /\ status[t] = "running"
  /\ Top(t).phase = "marked"
  /\ program.outcome[Top(t).mod] \in {"ok", "raises"}
  /\ stack' = SetTop(t, [Top(t) EXCEPT !.phase = "body"])
  /\ UNCHANGED <<program, cached, loading, call, status, objects>>

(* The body goes on after an import: it succeeded, or the error is caught. *)
Resume(t) ==
  /\ InBody(t)
  /\ \/ call[t] = "ok"
     \/ call[t] \in {"circular", "error"} /\ Top(t).mod \in program.catches
  /\ stack' = SetTop(t, [Top(t) EXCEPT !.next = @ + 1])
  /\ call' = [call EXCEPT ![t] = "none"]
  /\ UNCHANGED <<program, cached, loading, status, objects>>

(* The body or the main program fails: an import failed and the error is   *)
(* not caught, or the rest of the body raises.                             *)
Fails(t) ==
  /\ InBody(t)
  /\ \/ call[t] \in {"circular", "error"} /\ Top(t).mod \notin program.catches
     \/ call[t] = "none" /\ AtEnd(t) /\ program.outcome[Top(t).mod] = "raises"

\* Mutant: a body that fails leaves its mark behind.
FailBodyKeepsMark(t) ==
  /\ Fails(t) /\ Depth(t) > 1
  /\ stack' = [stack EXCEPT ![t] = SubSeq(@, 1, Len(@) - 1)]
  /\ call' = [call EXCEPT ![t] = "error"]
  /\ UNCHANGED <<program, cached, loading, status, objects>>

\* Mutant: a body that fails is published all the same.
FailBodyPublishes(t) ==
  /\ Fails(t) /\ Depth(t) > 1
  /\ cached' = cached \cup {Top(t).mod}
  /\ Return(t, "error")
  /\ UNCHANGED <<program, status, objects>>

FailBody(t) ==
  /\ Fails(t)
  /\ Depth(t) > 1
  /\ Return(t, "error")
  /\ UNCHANGED <<program, cached, status, objects>>

FailMain(t) ==
  /\ Fails(t)
  /\ Depth(t) = 1
  /\ status' = [status EXCEPT ![t] = "failed"]
  /\ call' = [call EXCEPT ![t] = "none"]
  /\ UNCHANGED <<program, cached, loading, stack, objects>>

\* Mutant: the module object is returned but not put into the cache.
PublishUncached(t) ==
  /\ InBody(t) /\ call[t] = "none" /\ Depth(t) > 1 /\ AtEnd(t)
  /\ program.outcome[Top(t).mod] = "ok"
  /\ objects' = [objects EXCEPT ![Top(t).mod] = @ + 1]
  /\ stack' = SetTop(t, [Top(t) EXCEPT !.phase = "published"])
  /\ UNCHANGED <<program, cached, loading, call, status>>

(* The body has run to its end: the module object goes into the cache ... *)
Publish(t) ==
  /\ InBody(t)
  /\ call[t] = "none"
  /\ Depth(t) > 1
  /\ AtEnd(t)
  /\ program.outcome[Top(t).mod] = "ok"
  /\ cached' = cached \cup {Top(t).mod}
  /\ objects' = [objects EXCEPT ![Top(t).mod] = @ + 1]
  /\ stack' = SetTop(t, [Top(t) EXCEPT !.phase = "published"])
  /\ UNCHANGED <<program, loading, call, status>>

(* ... and then the deferred call takes the mark away. *)
Unmark(t) ==
  /\ status[t] = "running"
  /\ Top(t).phase = "published"
  /\ Return(t, "ok")
  /\ UNCHANGED <<program, cached, status, objects>>

FinishMain(t) ==
  /\ InBody(t)
  /\ call[t] = "none"
  /\ Depth(t) = 1
  /\ AtEnd(t)
  /\ program.outcome[t] = "ok"
  /\ status' = [status EXCEPT ![t] = "done"]
  /\ UNCHANGED <<program, cached, loading, stack, call, objects>>

Step(t) ==
  \/ Import(t) \/ CacheHit(t) \/ CacheMiss(t) \/ Circular(t) \/ Mark(t)
  \/ Unloadable(t) \/ StartBody(t) \/ Resume(t)
  \/ FailBody(t) \/ FailMain(t) \/ Publish(t) \/ Unmark(t) \/ FinishMain(t)

Next == \E t \in Threads : Step(t)

Spec == Init /\ [][Next]_vars

(* No step waits for another thread; the Go scheduler runs every thread. *)
FairSpec == Spec /\ \A t \in Threads : WF_vars(Step(t))

-------------------------------------------------------------------------------
TypeOK ==
  /\ IsProgram(program)
  /\ cached \subseteq Modules
  /\ loading \subseteq Modules
  /\ stack \in [Threads -> Seq(Frame)]
  /\ call \in [Threads -> Calls]
  /\ status \in [Threads -> {"running", "done", "failed"}]
  /\ objects \in [Modules -> Nat]

(* The modules thread t is in the middle of loading: all but the bottom. *)
Held(t) == 2..Depth(t)

(* A module's body is run by one thread, once, at a time: the mark is a    *)
(* lock on it.  Two threads inside the same body would fill one name with  *)
(* two sets of globals.                                                    *)
BodiesExclusive ==
  \A t, u \in Threads : \A i \in Held(t), j \in Held(u) :
    stack[t][i].mod = stack[u][j].mod => t = u /\ i = j

(* The marks are exactly the modules some thread is in the middle of: no   *)
(* path, an error among them, leaves one behind, which would make every    *)
(* later import of the module fail as circular.                            *)
MarksOwned ==
  loading = UNION {{stack[t][i].mod : i \in Held(t)} : t \in Threads}

(* The cache never holds a module whose own load failed: what is in it is  *)
(* loadable and, unless its body catches import errors, so is everything   *)
(* it imports, which is in the cache too.                                  *)
CacheComplete ==
  \A m \in cached \ Std :
    /\ program.outcome[m] = "ok"
    /\ m \notin program.catches =>
         \A i \in 1..Len(program.imports[m]) : program.imports[m][i] \in cached

(* Loading the same module again makes a second module object with its own *)
(* globals.  A thread that is the only one to import never does.           *)
PublishedOnce ==
  \A t \in Threads : OnlyImporter(t) => \A m \in Modules : objects[m] <= 1

(* Which modules load is a matter of the import graph alone.  A body ends  *)
(* well if it does not raise, and what it imports loads unless it catches  *)
(* the error; and on a path of imports those modules load that are not on  *)
(* the path already and whose body ends well on the path with them.        *)
EndsWell(x, loadable) ==
  /\ program.outcome[x] = "ok"
  /\ \/ x \in program.catches
     \/ \A i \in 1..Len(program.imports[x]) : program.imports[x][i] \in loadable

Loadable[path \in SUBSET Modules] ==
  Std \cup {m \in Modules \ path : EndsWell(m, Loadable[path \cup {m}])}

(* Cache, marks and order of loading do not show: a program that is alone  *)
(* in the engine ends well exactly if its import graph says so.  And with  *)
(* several the first half remains: a program never goes on with a module   *)
(* that could not be loaded.                                               *)
LoadsAsDefined ==
  \A t \in Threads :
    /\ status[t] = "done" => EndsWell(t, Loadable[{}])
    /\ status[t] = "failed" /\ OnlyImporter(t) => ~EndsWell(t, Loadable[{}])

(* Importing always comes to an end, on every import graph. *)
ImportsEnd == <>(\A t \in Threads : status[t] # "running")
==============================================================================
