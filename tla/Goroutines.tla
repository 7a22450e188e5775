----------------------------- MODULE Goroutines -----------------------------
(***************************************************************************)
(* Goroutines of the language (`go f(x)`, OpGoSpawn in pkg/vm/vm.go), the  *)
(* WaitGroup and the error list through which a host program follows them, *)
(* and the host's calls Execute, WaitGoroutines and DrainGoroutineErrors   *)
(* in pkg/engine/engine.go.                                                *)
(*                                                                         *)
(* Every Execute makes a machine with a WaitGroup and an error list.  A    *)
(* goroutine gets a VM of its own that shares both with the VM that        *)
(* spawned it.  Two VMs do not share them: the one a map() or filter()     *)
(* callback runs in (subVM) has a private error list, and the one a        *)
(* module's body runs in (LoadModule) has both of its own.  Nobody reads   *)
(* those, so they are all one value, Unread.                               *)
(*                                                                         *)
(* The engine remembers only the machine of the last Execute; a host that  *)
(* waits and drains asks for that one, once for each of the two.           *)
(***************************************************************************)
EXTENDS Integers, Sequences, FiniteSets

CONSTANTS Execs,   \* the calls of Execute, each followed by wait and drain
          Tasks,   \* bound: the goroutines that may be spawned
          Ways,    \* how programs spawn: a subset of SpawnWays
          Unread   \* a WaitGroup or error list that no host reaches

SpawnWays == {"direct",    \* by the program or by one of its goroutines
              "callback",  \* inside a function passed to map or filter
              "module"}    \* while the body of an imported module runs

ASSUME GoroutinesAssumption ==
  /\ Unread \notin Execs
  /\ Ways \subseteq SpawnWays

VARIABLES host,    \* of each call of Execute: how far its host thread is
          lastVM,  \* Engine.lastVM: the machine of the last Execute
          waits,   \* of each host thread: the machine it waits for
          state,   \* of each goroutine
          group,   \* of each goroutine: whose WaitGroup it is counted in
          list,    \* of each goroutine: whose error list it shares
          wg,      \* the counters of the WaitGroups
          errs,    \* the error lists; an error is named by its goroutine
          failures, \* which goroutines have failed; only recorded here
          drained  \* what each host thread was given by the drain

vars == <<host, lastVM, waits, state, group, list, wg, errs, failures, drained>>

Machines == Execs \cup {Unread}

HostStates == {"idle", "running", "returned", "waiting", "waited", "drained"}
TaskStates == {"unborn", "running", "failed", "ended", "done"}

Alive(t) == state[t] \in {"running", "failed", "ended"}

(* Where the error of goroutine t is recorded: in a list, or in what a     *)
(* host was given.                                                         *)
RecordsInLists(t) ==
  UNION {{<<m, i>> : i \in {j \in 1..Len(errs[m]) : errs[m][j] = t}} : m \in Machines}

RecordsDrained(t) ==
  UNION {{<<e, "host", i>> : i \in {j \in 1..Len(drained[e]) : drained[e][j] = t}} :
         e \in Execs}

Records(t) == RecordsInLists(t) \cup RecordsDrained(t)

(* Nobody but e has used the engine. *)
OnlyHost(e) == \A f \in Execs \ {e} : host[f] = "idle"

Given(t, e) == \E i \in 1..Len(drained[e]) : drained[e][i] = t

Init ==
  /\ host = [e \in Execs |-> "idle"]
  /\ lastVM = Unread
  /\ waits = [e \in Execs |-> Unread]
  /\ state = [t \in Tasks |-> "unborn"]
  /\ group = [t \in Tasks |-> Unread]
  /\ list = [t \in Tasks |-> Unread]
  /\ wg = [m \in Machines |-> 0]
  /\ errs = [m \in Machines |-> <<>>]
  /\ failures = {}
  /\ drained = [e \in Execs |-> <<>>]

-------------------------------------------------------------------------------
(* The host calls Execute: the new machine becomes the last one, under the *)
(* engine's mutex, before it runs; Execute returns when the main program   *)
(* ends, with goroutines still running.                                    *)
Execute(e) ==
  /\ host[e] = "idle"
  /\ host' = [host EXCEPT ![e] = "running"]
  /\ lastVM' = e
  /\ UNCHANGED <<waits, state, group, list, wg, errs, failures, drained>>

ExecuteReturns(e) ==
  /\ host[e] = "running"
  /\ host' = [host EXCEPT ![e] = "returned"]
  /\ UNCHANGED <<lastVM, waits, state, group, list, wg, errs, failures, drained>>

(* OpGoSpawn in a VM that shares group g and list l: the WaitGroup is      *)
(* incremented before the goroutine is started.                            *)
Spawn(t, g, l) ==
  /\ state[t] = "unborn"
  /\ state' = [state EXCEPT ![t] = "running"]
  /\ group' = [group EXCEPT ![t] = g]
  /\ list' = [list EXCEPT ![t] = l]
  /\ wg' = [wg EXCEPT ![g] = @ + 1]
  /\ UNCHANGED <<host, lastVM, waits, errs, failures, drained>>

(* What the VM that spawns shares, when it belongs to (g, l): everything,  *)
(* all but the error list, or nothing.                                     *)
SpawnFrom(t, g, l) ==
  \/ "direct" \in Ways /\ Spawn(t, g, l)
  \/ "callback" \in Ways /\ Spawn(t, g, Unread)
  \/ "module" \in Ways /\ Spawn(t, Unread, Unread)

SpawnByMain(e, t) ==
  /\ host[e] = "running"
  /\ SpawnFrom(t, e, e)

\* Mutant: a goroutine is counted only when the main program spawns it.
SpawnByTaskUncounted(u, t) ==
  /\ state[u] = "running" /\ state[t] = "unborn" /\ "direct" \in Ways
  /\ state' = [state EXCEPT ![t] = "running"]
  /\ group' = [group EXCEPT ![t] = group[u]]
  /\ list' = [list EXCEPT ![t] = list[u]]
  /\ UNCHANGED <<host, lastVM, waits, wg, errs, failures, drained>>

SpawnByTask(u, t) ==
  /\ state[u] = "running"
  /\ SpawnFrom(t, group[u], list[u])

\* Mutant: two goroutines that fail at once overwrite each other's error.
FailOverwrites(t) ==
  /\ state[t] = "running"
  /\ state' = [state EXCEPT ![t] = "failed"]
  /\ errs' = [errs EXCEPT ![list[t]] = <<t>>]
  /\ failures' = failures \cup {t}
  /\ UNCHANGED <<host, lastVM, waits, group, list, wg, drained>>

(* A goroutine ends: with an error, also from a recovered panic or a       *)
(* callee that is not a function, which it appends to its list under       *)
(* goroutineMu; or normally or by exit(), which is not recorded.           *)
Fail(t) ==
  /\ state[t] = "running"
  /\ state' = [state EXCEPT ![t] = "failed"]
  /\ errs' = [errs EXCEPT ![list[t]] = Append(@, t)]
  /\ failures' = failures \cup {t}
  /\ UNCHANGED <<host, lastVM, waits, group, list, wg, drained>>

Succeed(t) ==
  /\ state[t] = "running"
  /\ state' = [state EXCEPT ![t] = "ended"]
  /\ UNCHANGED <<host, lastVM, waits, group, list, wg, errs, failures, drained>>

\* Mutant: the deferred Done does not run after an error.
DoneUnlessFailed(t) ==
  /\ state[t] = "ended"
  /\ state' = [state EXCEPT ![t] = "done"]
  /\ wg' = [wg EXCEPT ![group[t]] = @ - 1]
  /\ UNCHANGED <<host, lastVM, waits, group, list, errs, failures, drained>>

(* The deferred Done, after the error is recorded. *)
Done(t) ==
  /\ state[t] \in {"failed", "ended"}
  /\ state' = [state EXCEPT ![t] = "done"]
  /\ wg' = [wg EXCEPT ![group[t]] = @ - 1]
  /\ UNCHANGED <<host, lastVM, waits, group, list, errs, failures, drained>>

-------------------------------------------------------------------------------
(* Engine.WaitAndDrainGoroutineErrors: reads lastVM and waits for it ...   *)
BeginWait(e) ==
  /\ host[e] = "returned"
  /\ host' = [host EXCEPT ![e] = "waiting"]
  /\ waits' = [waits EXCEPT ![e] = lastVM]
  /\ UNCHANGED <<lastVM, state, group, list, wg, errs, failures, drained>>

WaitReturns(e) ==
  /\ host[e] = "waiting"
  /\ wg[waits[e]] = 0
  /\ host' = [host EXCEPT ![e] = "waited"]
  /\ UNCHANGED <<lastVM, waits, state, group, list, wg, errs, failures, drained>>

\* Mutant: the errors are copied but the list is not emptied.
DrainKeeps(e) ==
  /\ host[e] = "waited"
  /\ host' = [host EXCEPT ![e] = "drained"]
  /\ drained' = [drained EXCEPT ![e] = errs[lastVM]]
  /\ UNCHANGED <<lastVM, waits, state, group, list, wg, errs, failures>>

(* ... then reads lastVM again, copies that machine's errors and empties   *)
(* its list, under goroutineMu.                                            *)
Drain(e) ==
  /\ host[e] = "waited"
  /\ host' = [host EXCEPT ![e] = "drained"]
  /\ drained' = [drained EXCEPT ![e] = errs[lastVM]]
  /\ errs' = [errs EXCEPT ![lastVM] = <<>>]
  /\ UNCHANGED <<lastVM, waits, state, group, list, wg, failures>>

Next ==
  \/ \E e \in Execs :
       \/ Execute(e) \/ ExecuteReturns(e)
       \/ BeginWait(e) \/ WaitReturns(e) \/ Drain(e)
       \/ \E t \in Tasks : SpawnByMain(e, t)
  \/ \E t \in Tasks :
       \/ Fail(t) \/ Succeed(t) \/ Done(t)
       \/ \E u \in Tasks : SpawnByTask(t, u)

Spec == Init /\ [][Next]_vars

(* A goroutine that has ended runs its deferred calls, and a Wait whose    *)
(* counter is zero returns.  Nothing obliges a goroutine to end.           *)
FairSpec ==
  /\ Spec
  /\ \A t \in Tasks : WF_vars(Done(t))
  /\ \A e \in Execs : WF_vars(WaitReturns(e))

-------------------------------------------------------------------------------
TypeOK ==
  /\ host \in [Execs -> HostStates]
  /\ lastVM \in Machines
  /\ waits \in [Execs -> Machines]
  /\ state \in [Tasks -> TaskStates]
  /\ group \in [Tasks -> Machines]
  /\ list \in [Tasks -> Machines]
  /\ wg \in [Machines -> Nat]
  /\ errs \in [Machines -> Seq(Tasks)]
  /\ failures \subseteq Tasks
  /\ drained \in [Execs -> Seq(Tasks)]

(* The counter of a WaitGroup is the number of goroutines counted in it    *)
(* that have not run their deferred Done: it is never negative, which      *)
(* would panic, and is zero exactly when none is left.                     *)
WgCounts ==
  \A m \in Machines : wg[m] = Cardinality({t \in Tasks : Alive(t) /\ group[t] = m})

(* The error of every goroutine that failed is in exactly one place, its   *)
(* list or what one host thread drained, and nothing else is; also when    *)
(* several host threads execute, wait and drain at the same time.          *)
ErrorsOnce ==
  \A t \in Tasks : Cardinality(Records(t)) = IF t \in failures THEN 1 ELSE 0

(* When Wait has returned to a host thread that waited for the machine of  *)
(* its own Execute, every goroutine counted in that machine's WaitGroup,   *)
(* at whatever depth it was spawned, is over.                              *)
WaitIsComplete ==
  \A e \in Execs :
    host[e] \in {"waited", "drained"} /\ waits[e] = e =>
      \A t \in Tasks : group[t] = e => state[t] = "done"

(* A host thread that has had the engine for itself is given the error of  *)
(* every goroutine that failed, of those that share its machine's list.    *)
DrainIsLossless ==
  \A e \in Execs :
    OnlyHost(e) /\ host[e] = "drained" => \A t \in failures : list[t] = e => Given(t, e)

(* A host thread that waits goes on once no goroutine and no main program  *)
(* is left that counts, or could be counted, in the WaitGroup it waits for. *)
WaitEnds ==
  \A e \in Execs :
    host[e] = "waiting" ~>
      \/ host[e] # "waiting"
      \/ host[waits[e]] = "running"
      \/ \E t \in Tasks : state[t] = "running" /\ group[t] = waits[e]

(* What the repository's test of goroutine errors expects: every goroutine *)
(* of the program that failed, and that Wait waited for, is among the      *)
(* errors drained.                                                         *)
AllFailuresCaptured ==
  \A e \in Execs :
    host[e] = "drained" => \A t \in failures : group[t] = e => Given(t, e)
==============================================================================
