-------------------------- MODULE GoroutinesProofs --------------------------
(***************************************************************************)
(* Proofs about Goroutines: the WaitGroup counts, for any number of hosts  *)
(* and goroutines; and what wait and drain promise a host.                 *)
(***************************************************************************)
EXTENDS Goroutines, FiniteSetTheorems, SequenceTheorems, TLAPS

-------------------------------------------------------------------------------
(* Types. *)
LEMMA SpawnTypes ==
  ASSUME TypeOK, NEW t \in Tasks, NEW g \in Machines, NEW l \in Machines, Spawn(t, g, l)
  PROVE  TypeOK'
  BY DEF TypeOK, Spawn, Machines, TaskStates

(* Whatever spawns, it is an unborn goroutine that runs from now on, in    *)
(* the group and on the list of its maker or where nobody reads.           *)
LEMMA Spawning ==
  ASSUME TypeOK, NEW t \in Tasks, NEW g \in Machines, NEW l \in Machines, SpawnFrom(t, g, l)
  PROVE  \E h, k \in Machines :
           /\ Spawn(t, h, k)
           /\ h = g \/ h = Unread
           /\ k = l \/ k = Unread
           /\ k # Unread => h = g /\ k = l
  BY DEF SpawnFrom, Machines

LEMMA TypeInit == Init => TypeOK
  BY DEF Init, TypeOK, Machines, HostStates, TaskStates

(* The kinds of step: a host's, a goroutine that starts, one that ends. *)
Host(e) == Execute(e) \/ ExecuteReturns(e) \/ BeginWait(e) \/ WaitReturns(e) \/ Drain(e)
Ends(t) == Fail(t) \/ Succeed(t) \/ Done(t)

LEMMA Steps ==
  ASSUME TypeOK, Next
  PROVE  \/ \E e \in Execs : Host(e)
         \/ \E t \in Tasks : Ends(t)
         \/ \E e \in Execs, t \in Tasks, h, k \in Machines :
              /\ host[e] = "running" /\ Spawn(t, h, k)
              /\ (h = e \/ h = Unread) /\ (k # Unread => h = e /\ k = e)
         \/ \E u, t \in Tasks, h, k \in Machines :
              /\ state[u] = "running" /\ Spawn(t, h, k)
              /\ (h = group[u] \/ h = Unread) /\ (k # Unread => h = group[u] /\ k = list[u])
  <1>1. CASE \E e \in Execs : Host(e)
    BY <1>1
  <1>2. CASE \E t \in Tasks : Ends(t)
    BY <1>2
  <1>3. ASSUME NEW e \in Execs, NEW t \in Tasks, SpawnByMain(e, t)
        PROVE  \E h, k \in Machines :
                 /\ host[e] = "running" /\ Spawn(t, h, k)
                 /\ (h = e \/ h = Unread) /\ (k # Unread => h = e /\ k = e)
    <2>1. e \in Machines /\ host[e] = "running" /\ SpawnFrom(t, e, e)
      BY <1>3 DEF SpawnByMain, Machines
    <2>2. QED
      BY <2>1, Spawning
  <1>4. ASSUME NEW u \in Tasks, NEW t \in Tasks, SpawnByTask(u, t)
        PROVE  \E h, k \in Machines :
                 /\ state[u] = "running" /\ Spawn(t, h, k)
                 /\ (h = group[u] \/ h = Unread) /\ (k # Unread => h = group[u] /\ k = list[u])
    <2>1. /\ group[u] \in Machines /\ list[u] \in Machines
          /\ state[u] = "running" /\ SpawnFrom(t, group[u], list[u])
      BY <1>4 DEF SpawnByTask, TypeOK
    <2>2. QED
      BY <2>1, Spawning
  <1>5. QED
    BY <1>1, <1>2, <1>3, <1>4 DEF Next, Host, Ends

-------------------------------------------------------------------------------
(* The WaitGroup.  The goroutines counted in it are finitely many, however *)
(* many there may be, since each was spawned by a step.                    *)
Counted(m) == {t \in Tasks : Alive(t) /\ group[t] = m}

GroupInv ==
  /\ TypeOK
  /\ WgCounts
  /\ \A m \in Machines : IsFiniteSet(Counted(m))
  /\ \A t \in Tasks : state[t] = "unborn" => group[t] = Unread /\ t \notin failures

LEMMA GroupInit == Init => GroupInv
  <1> SUFFICES ASSUME Init PROVE GroupInv
    OBVIOUS
  <1>1. TypeOK
    BY TypeInit
  <1>2. \A m \in Machines : Counted(m) = {}
    BY DEF Init, Counted, Alive
  <1>3. QED
    BY <1>1, <1>2, FS_EmptySet DEF GroupInv, WgCounts, Counted, Init, Machines

(* A step that changes neither who is alive nor the groups. *)
LEMMA SameGroups ==
  ASSUME GroupInv, TypeOK', wg' = wg, failures' = failures \/ \E t \in Tasks :
           state[t] # "unborn" /\ failures' = failures \cup {t},
         \A t \in Tasks : /\ group'[t] = group[t] /\ Alive(t)' = Alive(t)
                          /\ (state'[t] = "unborn") = (state[t] = "unborn")
  PROVE  GroupInv'
  <1>1. \A m \in Machines : Counted(m)' = Counted(m)
    BY DEF Counted
  <1>2. WgCounts'
    BY <1>1 DEF GroupInv, WgCounts, Counted
  <1>3. \A m \in Machines : IsFiniteSet(Counted(m)')
    BY <1>1 DEF GroupInv
  <1>4. \A t \in Tasks : state'[t] = "unborn" => group'[t] = Unread /\ t \notin failures'
    BY DEF GroupInv
  <1>5. QED
    BY <1>2, <1>3, <1>4 DEF GroupInv

LEMMA HostTypes ==
  ASSUME TypeOK, NEW e \in Execs, Host(e)
  PROVE  TypeOK' /\ UNCHANGED <<state, group, list, wg, failures>>
  <1>1. CASE Execute(e) \/ ExecuteReturns(e) \/ BeginWait(e) \/ WaitReturns(e)
    BY <1>1 DEF TypeOK, Machines, HostStates, Execute, ExecuteReturns, BeginWait, WaitReturns
  <1>2. CASE Drain(e)
    <2>1. errs[lastVM] \in Seq(Tasks)
      BY DEF TypeOK
    <2>2. errs' \in [Machines -> Seq(Tasks)] /\ drained' \in [Execs -> Seq(Tasks)]
      BY <1>2, <2>1 DEF Drain, TypeOK
    <2>3. QED
      BY <1>2, <2>2 DEF TypeOK, HostStates, Drain
  <1>3. QED
    BY <1>1, <1>2 DEF Host

LEMMA GroupStep == GroupInv /\ [Next]_vars => GroupInv'
  <1> SUFFICES ASSUME GroupInv, [Next]_vars PROVE GroupInv'
    OBVIOUS
  <1>t. TypeOK
    BY DEF GroupInv
  <1>0. CASE UNCHANGED vars
    BY <1>0, <1>t, SameGroups DEF vars, TypeOK, Alive
  <1>1. ASSUME NEW e \in Execs, Host(e) PROVE GroupInv'
    BY <1>1, <1>t, HostTypes, SameGroups DEF Alive
  <1>2. ASSUME NEW t \in Tasks, NEW h \in Machines, NEW k \in Machines, Spawn(t, h, k)
        PROVE  GroupInv'
    <2>1. TypeOK'
      BY <1>2, <1>t, SpawnTypes
    <2>2. /\ state[t] = "unborn" /\ state' = [state EXCEPT ![t] = "running"]
          /\ group' = [group EXCEPT ![t] = h] /\ wg' = [wg EXCEPT ![h] = @ + 1]
          /\ failures' = failures
      BY <1>2 DEF Spawn
    <2>3. t \notin Counted(h)
      BY <2>2 DEF Counted, Alive
    <2>4. Counted(h)' = Counted(h) \cup {t}
      BY <1>t, <2>2 DEF Counted, Alive, TypeOK
    <2>5. \A m \in Machines \ {h} : Counted(m)' = Counted(m)
      BY <1>t, <2>2 DEF Counted, Alive, TypeOK
    <2>6. /\ IsFiniteSet(Counted(h)') 
          /\ Cardinality(Counted(h)') = Cardinality(Counted(h)) + 1
      BY <2>3, <2>4, FS_AddElement DEF GroupInv
    <2>7. WgCounts'
      <3>1. wg'[h] = Cardinality(Counted(h)')
        BY <1>t, <2>2, <2>6 DEF GroupInv, WgCounts, Counted, TypeOK
      <3>2. \A m \in Machines \ {h} : wg'[m] = Cardinality(Counted(m)')
        BY <1>t, <2>2, <2>5 DEF GroupInv, WgCounts, Counted, TypeOK
      <3>3. QED
        BY <3>1, <3>2 DEF WgCounts, Counted
    <2>8. \A m \in Machines : IsFiniteSet(Counted(m)')
      BY <2>5, <2>6 DEF GroupInv
    <2>9. \A u \in Tasks : state'[u] = "unborn" => group'[u] = Unread /\ u \notin failures'
      BY <1>t, <2>2 DEF GroupInv, TypeOK
    <2>10. QED
      BY <2>1, <2>7, <2>8, <2>9 DEF GroupInv
  <1>3. ASSUME NEW t \in Tasks, Fail(t) \/ Succeed(t) PROVE GroupInv'
    <2>1. TypeOK'
      <3>1. CASE Fail(t)
        <4>1. list[t] \in Machines /\ errs[list[t]] \in Seq(Tasks)
          BY <1>t DEF TypeOK
        <4>2. errs' \in [Machines -> Seq(Tasks)]
          BY <1>t, <3>1, <4>1, AppendProperties DEF Fail, TypeOK
        <4>3. QED
          BY <1>t, <3>1, <4>2 DEF Fail, TypeOK, TaskStates
      <3>2. CASE Succeed(t)
        BY <1>t, <3>2 DEF Succeed, TypeOK, TaskStates
      <3>3. QED
        BY <1>3, <3>1, <3>2
    <2>2. /\ wg' = wg /\ group' = group /\ state[t] = "running"
          /\ state' = [state EXCEPT ![t] = IF Fail(t) THEN "failed" ELSE "ended"]
          /\ failures' = failures \/ failures' = failures \cup {t}
      BY <1>3 DEF Fail, Succeed
    <2>3. \A u \in Tasks : /\ Alive(u)' = Alive(u)
                           /\ (state'[u] = "unborn") = (state[u] = "unborn")
      BY <1>t, <2>2 DEF TypeOK, Alive
    <2>4. QED
      BY <2>1, <2>2, <2>3, SameGroups
  <1>4. ASSUME NEW t \in Tasks, Done(t) PROVE GroupInv'
    <2> DEFINE h == group[t]
    <2>2. /\ Alive(t) /\ state' = [state EXCEPT ![t] = "done"]
          /\ group' = group /\ wg' = [wg EXCEPT ![h] = @ - 1]
          /\ failures' = failures /\ h \in Machines
      BY <1>4, <1>t DEF Done, Alive, TypeOK
    <2>3. t \in Counted(h)
      BY <2>2 DEF Counted
    <2>4. Counted(h)' = Counted(h) \ {t}
      BY <1>t, <2>2 DEF Counted, Alive, TypeOK
    <2>5. \A m \in Machines \ {h} : Counted(m)' = Counted(m)
      BY <1>t, <2>2 DEF Counted, Alive, TypeOK
    <2>f. IsFiniteSet(Counted(h))
      BY <2>2 DEF GroupInv
    <2>6. /\ IsFiniteSet(Counted(h) \ {t})
          /\ Cardinality(Counted(h) \ {t}) = Cardinality(Counted(h)) - 1
      BY <2>3, <2>f, FS_RemoveElement
    <2>w. \A m \in Machines : wg[m] = Cardinality(Counted(m))
      BY DEF GroupInv, WgCounts, Counted
    <2>7. \A m \in Machines : wg'[m] = Cardinality(Counted(m)')
      <3>1. wg'[h] = Cardinality(Counted(h) \ {t})
        BY <1>t, <2>2, <2>6, <2>w DEF TypeOK
      <3>2. \A m \in Machines \ {h} : wg'[m] = Cardinality(Counted(m))
        BY <1>t, <2>2, <2>w DEF TypeOK
      <3>3. QED
        BY <2>2, <2>4, <2>5, <3>1, <3>2
    <2>8. \A m \in Machines : IsFiniteSet(Counted(m)')
      BY <2>2, <2>4, <2>5, <2>6 DEF GroupInv
    <2>1. TypeOK'
      <3>1. wg'[h] \in Nat
        BY <2>2, <2>4, <2>6, <2>7, FS_CardinalityType
      <3>2. wg' \in [Machines -> Nat]
        BY <1>t, <2>2, <3>1 DEF TypeOK
      <3>3. QED
        BY <1>t, <1>4, <3>2 DEF TypeOK, Done, TaskStates
    <2>9. \A u \in Tasks : state'[u] = "unborn" => group'[u] = Unread /\ u \notin failures'
      BY <1>t, <2>2 DEF GroupInv, TypeOK
    <2>10. QED
      BY <2>1, <2>7, <2>8, <2>9 DEF GroupInv, WgCounts, Counted
  <1>5. QED
    BY <1>0, <1>1, <1>2, <1>3, <1>4, <1>t, Steps DEF Ends

LEMMA Grouping == Spec => []GroupInv
  BY GroupInit, GroupStep, PTL DEF Spec

(* The type invariant; in particular, that no WaitGroup becomes negative,  *)
(* which would panic.                                                      *)
THEOREM Typing == Spec => []TypeOK
  <1>1. GroupInv => TypeOK
    BY DEF GroupInv
  <1>2. QED
    BY Grouping, <1>1, PTL

(* The counter of every WaitGroup is the number of goroutines that were    *)
(* spawned in it and have not run their deferred Done.                     *)
THEOREM CountersCount == Spec => []WgCounts
  <1>1. GroupInv => WgCounts
    BY DEF GroupInv
  <1>2. QED
    BY Grouping, <1>1, PTL

-------------------------------------------------------------------------------
(* What a host can rely on.  If the machine it waits for is its own, then  *)
(* when none of the goroutines counted there is left, none can be spawned  *)
(* there again: only the main program, which is over, or one of them could *)
(* do it.  And if nobody else has used the engine, the machines it waits   *)
(* for and drains are its own.                                             *)
Listed(t, e) == \E i \in 1..Len(errs[e]) : errs[e][i] = t

WaitedFor(e) == host[e] \in {"waited", "drained"} /\ waits[e] = e

HostInv(e) ==
  /\ GroupInv
  /\ \A t \in Tasks : list[t] = e => group[t] = e
  /\ \A t \in Tasks : state[t] = "unborn" => list[t] = Unread
  /\ WaitedFor(e) => \A t \in Tasks : group[t] = e => state[t] = "done"
  /\ OnlyHost(e) =>
       /\ host[e] # "idle" => lastVM = e
       /\ host[e] \in {"waiting", "waited", "drained"} => waits[e] = e
       /\ host[e] # "drained" => \A t \in failures : list[t] = e => Listed(t, e)
       /\ host[e] = "drained" => \A t \in failures : list[t] = e => Given(t, e)

LEMMA HostInit ==
  ASSUME NEW e \in Execs, Init
  PROVE  HostInv(e)
  BY GroupInit, GoroutinesAssumption DEF HostInv, WaitedFor, Init

(* Another host's step: the engine is no longer for one host alone. *)
LEMMA OtherHost ==
  ASSUME NEW e \in Execs, NEW f \in Execs, f # e, HostInv(e), Host(f), GroupInv'
  PROVE  HostInv(e)'
  <1>t. TypeOK /\ TypeOK'
    BY DEF HostInv, GroupInv
  <1>u. UNCHANGED <<state, group, list, wg, failures>>
    BY <1>t, HostTypes
  <1>1. host'[e] = host[e] /\ waits'[e] = waits[e]
    BY <1>t DEF TypeOK, Host, Execute, ExecuteReturns, BeginWait, WaitReturns, Drain
  <1>2. host'[f] # "idle"
    BY <1>t DEF TypeOK, Host, Execute, ExecuteReturns, BeginWait, WaitReturns, Drain
  <1>3. ~OnlyHost(e)'
    BY <1>2 DEF OnlyHost
  <1>4. QED
    BY <1>u, <1>1, <1>3 DEF HostInv, WaitedFor

(* Its own step. *)
LEMMA OwnStep ==
  ASSUME NEW e \in Execs, HostInv(e), Host(e), GroupInv'
  PROVE  HostInv(e)'
  <1>t. TypeOK /\ TypeOK'
    BY DEF HostInv, GroupInv
  <1>u. UNCHANGED <<state, group, list, wg, failures>>
    BY <1>t, HostTypes
  <1>o. OnlyHost(e)' => OnlyHost(e)
    BY <1>t DEF OnlyHost, TypeOK, Host, Execute, ExecuteReturns, BeginWait, WaitReturns, Drain
  <1>1. CASE Execute(e) \/ ExecuteReturns(e) \/ BeginWait(e)
    <2>1. host'[e] \notin {"waited", "drained"} /\ host[e] # "drained" /\ errs' = errs
      BY <1>1, <1>t DEF TypeOK, Execute, ExecuteReturns, BeginWait
    <2>2. OnlyHost(e)' => /\ host'[e] # "idle" => lastVM' = e
                          /\ host'[e] \in {"waiting", "waited", "drained"} => waits'[e] = e
      BY <1>1, <1>t, <1>o DEF HostInv, TypeOK, Execute, ExecuteReturns, BeginWait
    <2>3. QED
      BY <1>u, <1>o, <2>1, <2>2 DEF HostInv, WaitedFor, Listed
  <1>2. CASE WaitReturns(e)
    <2>1. host[e] = "waiting" /\ wg[waits[e]] = 0 /\ host' = [host EXCEPT ![e] = "waited"]
          /\ lastVM' = lastVM /\ waits' = waits /\ errs' = errs
      BY <1>2 DEF WaitReturns
    <2>2. host'[e] = "waited"
      BY <1>t, <2>1 DEF TypeOK
    <2>3. ASSUME waits[e] = e, NEW t \in Tasks, group[t] = e
          PROVE  state[t] = "done"
      <3>1. Counted(e) = {}
        <4>1. e \in Machines /\ wg[e] = 0
          BY <2>1, <2>3 DEF Machines
        <4>2. IsFiniteSet(Counted(e)) /\ Cardinality(Counted(e)) = 0
          BY <4>1 DEF HostInv, GroupInv, WgCounts, Counted
        <4>3. QED
          BY <4>2, FS_EmptySet
      <3>2. ~Alive(t)
        BY <2>3, <3>1 DEF Counted
      <3>3. state[t] # "unborn"
        BY <2>3, GoroutinesAssumption DEF HostInv, GroupInv
      <3>4. state[t] \in TaskStates
        BY <1>t DEF TypeOK
      <3>5. QED
        BY <3>2, <3>3, <3>4 DEF Alive, TaskStates
    <2>4. WaitedFor(e)' => \A t \in Tasks : group'[t] = e => state'[t] = "done"
      BY <1>u, <2>1, <2>3 DEF WaitedFor
    <2>5. QED
      BY <1>u, <1>o, <2>1, <2>2, <2>4 DEF HostInv, Listed
  <1>3. CASE Drain(e)
    <2>1. host[e] = "waited" /\ host' = [host EXCEPT ![e] = "drained"]
          /\ lastVM' = lastVM /\ waits' = waits
          /\ drained' = [drained EXCEPT ![e] = errs[lastVM]]
      BY <1>3 DEF Drain
    <2>2. host'[e] = "drained" /\ drained'[e] = errs[lastVM]
      BY <1>t, <2>1 DEF TypeOK
    <2>3. OnlyHost(e) => lastVM = e
      BY <2>1 DEF HostInv
    <2>4. OnlyHost(e)' => \A t \in failures' : list'[t] = e => Given(t, e)'
      BY <1>u, <1>o, <2>1, <2>2, <2>3 DEF HostInv, Listed, Given
    <2>5. QED
      BY <1>u, <1>o, <2>1, <2>2, <2>4 DEF HostInv, WaitedFor
  <1>4. QED
    BY <1>1, <1>2, <1>3 DEF Host

(* A goroutine ends, or is spawned in the host's group or elsewhere. *)
LEMMA GoroutineEnds ==
  ASSUME NEW e \in Execs, HostInv(e), GroupInv',
         NEW t \in Tasks, Ends(t)
  PROVE  HostInv(e)'
  <1>t. TypeOK /\ TypeOK'
    BY DEF HostInv, GroupInv
  <1>1. CASE Fail(t)
    <2>1. /\ state[t] = "running" /\ state' = [state EXCEPT ![t] = "failed"]
          /\ errs' = [errs EXCEPT ![list[t]] = Append(@, t)]
          /\ failures' = failures \cup {t}
          /\ UNCHANGED <<host, lastVM, waits, group, list, drained>>
      BY <1>1 DEF Fail
    <2>2. /\ e \in Machines /\ errs[e] \in Seq(Tasks) /\ errs'[e] \in Seq(Tasks)
          /\ list[t] \in Machines
      BY <1>t DEF TypeOK, Machines
    <2>3. errs'[e] = IF list[t] = e THEN Append(errs[e], t) ELSE errs[e]
      BY <1>t, <2>1, <2>2 DEF TypeOK
    <2>4. \A u \in Tasks : Listed(u, e) => Listed(u, e)'
      <3>1. CASE list[t] = e
        BY <2>2, <2>3, <3>1, AppendProperties DEF Listed
      <3>2. CASE list[t] # e
        BY <2>3, <3>2 DEF Listed
      <3>3. QED
        BY <3>1, <3>2
    <2>5. list[t] = e => Listed(t, e)'
      <3>1. SUFFICES ASSUME list[t] = e PROVE Listed(t, e)'
        OBVIOUS
      <3>2. errs'[e] = Append(errs[e], t)
        BY <2>3, <3>1
      <3>3. Len(errs'[e]) = Len(errs[e]) + 1 /\ errs'[e][Len(errs[e]) + 1] = t
        BY <2>2, <3>2, AppendProperties
      <3>4. Len(errs[e]) \in Nat
        BY <2>2, LenProperties
      <3>5. QED
        BY <3>3, <3>4 DEF Listed
    <2>6. list[t] = e => ~WaitedFor(e)
      BY <2>1 DEF HostInv
    <2>7. host'[e] # "drained" /\ OnlyHost(e)' =>
            \A u \in failures' : list'[u] = e => Listed(u, e)'
      BY <1>t, <2>1, <2>4, <2>5 DEF HostInv, TypeOK, OnlyHost
    <2>8. host'[e] = "drained" /\ OnlyHost(e)' =>
            \A u \in failures' : list'[u] = e => Given(u, e)'
      BY <2>1, <2>6 DEF HostInv, Given, OnlyHost, WaitedFor
    <2>9. \A u \in Tasks : /\ state'[u] = "unborn" => state[u] = "unborn"
                           /\ state[u] = "done" => state'[u] = "done"
      BY <1>t, <2>1 DEF TypeOK
    <2>10. QED
      BY <2>1, <2>7, <2>8, <2>9 DEF HostInv, OnlyHost, WaitedFor
  <1>2. CASE Succeed(t) \/ Done(t)
    <2>1. \A u \in Tasks : /\ state'[u] = "unborn" => state[u] = "unborn"
                           /\ state[u] = "done" => state'[u] = "done"
      BY <1>t, <1>2 DEF TypeOK, Succeed, Done
    <2>2. UNCHANGED <<host, lastVM, waits, group, list, errs, failures, drained>>
      BY <1>2 DEF Succeed, Done
    <2>3. QED
      BY <2>1, <2>2 DEF HostInv, Listed, Given, OnlyHost, WaitedFor
  <1>3. QED
    BY <1>1, <1>2 DEF Ends

LEMMA GoroutineStarts ==
  ASSUME NEW e \in Execs, HostInv(e), GroupInv',
         NEW t \in Tasks, NEW h \in Machines, NEW k \in Machines, Spawn(t, h, k),
         h = e => ~WaitedFor(e),
         k = e => h = e
  PROVE  HostInv(e)'
  <1>t. TypeOK /\ TypeOK'
    BY DEF HostInv, GroupInv
  <1>1. /\ state[t] = "unborn" /\ state' = [state EXCEPT ![t] = "running"]
        /\ group' = [group EXCEPT ![t] = h] /\ list' = [list EXCEPT ![t] = k]
        /\ UNCHANGED <<host, lastVM, waits, errs, failures, drained>>
    BY DEF Spawn
  <1>2. t \notin failures
    BY <1>1 DEF HostInv, GroupInv
  <1>3. \A u \in Tasks : u # t => /\ state'[u] = state[u] /\ group'[u] = group[u]
                                  /\ list'[u] = list[u]
    BY <1>t, <1>1 DEF TypeOK
  <1>4. state'[t] = "running" /\ group'[t] = h /\ list'[t] = k
    BY <1>t, <1>1 DEF TypeOK
  <1>5. failures \subseteq Tasks
    BY <1>t DEF TypeOK
  <1>6. QED
    BY <1>1, <1>2, <1>3, <1>4, <1>5 DEF HostInv, Listed, Given, OnlyHost, WaitedFor

LEMMA HostStep ==
  ASSUME NEW e \in Execs
  PROVE  HostInv(e) /\ [Next]_vars => HostInv(e)'
  <1> SUFFICES ASSUME HostInv(e), [Next]_vars PROVE HostInv(e)'
    OBVIOUS
  <1>g. GroupInv /\ GroupInv'
    BY GroupStep DEF HostInv
  <1>t. TypeOK /\ e # Unread
    BY <1>g, GoroutinesAssumption DEF GroupInv
  <1>0. CASE UNCHANGED vars
    BY <1>0, <1>g DEF vars, HostInv, Listed, Given, OnlyHost, WaitedFor
  <1>1. ASSUME NEW f \in Execs, Host(f) PROVE HostInv(e)'
    BY <1>1, <1>g, OwnStep, OtherHost
  <1>2. CASE \E t \in Tasks : Ends(t)
    BY <1>2, <1>g, GoroutineEnds
  <1>3. ASSUME NEW f \in Execs, NEW t \in Tasks, NEW h \in Machines, NEW k \in Machines,
               host[f] = "running", Spawn(t, h, k), h = f \/ h = Unread,
               k # Unread => h = f /\ k = f
        PROVE  HostInv(e)'
    <2>1. h = e => ~WaitedFor(e)
      BY <1>3, <1>t DEF WaitedFor
    <2>2. k = e => h = e
      BY <1>3, <1>t
    <2>3. QED
      BY <1>3, <1>g, <2>1, <2>2, GoroutineStarts
  <1>4. ASSUME NEW u \in Tasks, NEW t \in Tasks, NEW h \in Machines, NEW k \in Machines,
               state[u] = "running", Spawn(t, h, k), h = group[u] \/ h = Unread,
               k # Unread => h = group[u] /\ k = list[u]
        PROVE  HostInv(e)'
    <2>1. h = e => ~WaitedFor(e)
      BY <1>4, <1>t DEF HostInv
    <2>2. k = e => h = e
      BY <1>4, <1>t DEF HostInv
    <2>3. QED
      BY <1>4, <1>g, <2>1, <2>2, GoroutineStarts
  <1>5. QED
    BY <1>0, <1>1, <1>2, <1>3, <1>4, <1>t, Steps

LEMMA HostsRely == Spec => [](\A e \in Execs : HostInv(e))
  <1>1. Init => \A e \in Execs : HostInv(e)
    BY HostInit
  <1>2. (\A e \in Execs : HostInv(e)) /\ [Next]_vars => (\A e \in Execs : HostInv(e))'
    <2> SUFFICES ASSUME \A e \in Execs : HostInv(e), [Next]_vars, NEW e \in Execs
                 PROVE  HostInv(e)'
      OBVIOUS
    <2> QED
      BY HostStep
  <1>3. QED
    BY <1>1, <1>2, PTL DEF Spec

(* When WaitGoroutines has returned to a host that waited for its own      *)
(* machine, every goroutine counted for its program is over, however many  *)
(* there were, whoever spawned them and whatever other hosts do.           *)
THEOREM WaitMeansDone == Spec => []WaitIsComplete
  <1>1. (\A e \in Execs : HostInv(e)) => WaitIsComplete
    BY DEF HostInv, WaitIsComplete, WaitedFor
  <1>2. QED
    BY HostsRely, <1>1, PTL

(* A host that has had its engine for itself is given the error of every   *)
(* goroutine that failed and shares its machine's error list.              *)
THEOREM DrainHasAll == Spec => []DrainIsLossless
  <1>1. (\A e \in Execs : HostInv(e)) => DrainIsLossless
    BY DEF HostInv, DrainIsLossless
  <1>2. QED
    BY HostsRely, <1>1, PTL

-------------------------------------------------------------------------------
(* Errors.  Where the error of t stands: in the list of m, at i; in what   *)
(* the host e was given, at i.                                             *)
InList(t, m, i)  == i \in 1..Len(errs[m]) /\ errs[m][i] = t
InGiven(t, e, i) == i \in 1..Len(drained[e]) /\ drained[e][i] = t

(* It stands in one place at most, and somewhere if and only if t failed;  *)
(* a goroutine that can still fail has not, and what a host was given is   *)
(* overwritten by no second drain.                                         *)
OnePlace(t) ==
  /\ \A m, n \in Machines, i, j \in Nat : InList(t, m, i) /\ InList(t, n, j) => m = n /\ i = j
  /\ \A e, f \in Execs, i, j \in Nat : InGiven(t, e, i) /\ InGiven(t, f, j) => e = f /\ i = j
  /\ \A m \in Machines, e \in Execs, i, j \in Nat : ~(InList(t, m, i) /\ InGiven(t, e, j))
  /\ t \in failures <=> \/ \E m \in Machines, i \in Nat : InList(t, m, i)
                       \/ \E e \in Execs, i \in Nat : InGiven(t, e, i)

ErrorInv ==
  /\ GroupInv
  /\ \A t \in Tasks : OnePlace(t)
  /\ \A t \in Tasks : state[t] \in {"unborn", "running"} => t \notin failures
  /\ \A e \in Execs : host[e] # "drained" => drained[e] = <<>>

(* One place is one record.                                                *)
LEMMA RecordsCounted ==
  ASSUME TypeOK, NEW t \in Tasks, OnePlace(t)
  PROVE  Cardinality(Records(t)) = IF t \in failures THEN 1 ELSE 0
  <1> DEFINE Lists == RecordsInLists(t)
             Gifts == RecordsDrained(t)
  <1>r. Records(t) = Lists \cup Gifts
    BY DEF Records
  <1>n. /\ \A m \in Machines : Len(errs[m]) \in Nat
        /\ \A e \in Execs : Len(drained[e]) \in Nat
    BY DEF TypeOK
  <1>l. \A r \in Lists : \E m \in Machines, i \in Nat : InList(t, m, i) /\ r = <<m, i>>
    BY <1>n DEF InList, RecordsInLists
  <1>g. \A r \in Gifts : \E e \in Execs, i \in Nat : InGiven(t, e, i) /\ r = <<e, "host", i>>
    BY <1>n DEF InGiven, RecordsDrained
  <1>m. \A m \in Machines, i \in Nat : InList(t, m, i) => <<m, i>> \in Lists
    BY DEF InList, RecordsInLists
  <1>h. \A e \in Execs, i \in Nat : InGiven(t, e, i) => <<e, "host", i>> \in Gifts
    BY DEF InGiven, RecordsDrained
  <1> HIDE DEF Lists, Gifts
  <1>1. CASE t \notin failures
    <2>1. Lists = {} /\ Gifts = {}
      BY <1>1, <1>l, <1>g DEF OnePlace
    <2>2. QED
      BY <1>1, <1>r, <2>1, FS_EmptySet
  <1>2. CASE t \in failures
    <2>1. \E r : Lists \cup Gifts = {r}
      <3>1. CASE \E m \in Machines, i \in Nat : InList(t, m, i)
        <4>1. PICK m \in Machines, i \in Nat : InList(t, m, i)
          BY <3>1
        <4>2. Gifts = {}
          BY <4>1, <1>g DEF OnePlace
        <4>3. \A r \in Lists : r = <<m, i>>
          BY <4>1, <1>l DEF OnePlace
        <4>4. <<m, i>> \in Lists
          BY <4>1, <1>m
        <4>5. QED
          BY <4>2, <4>3, <4>4
      <3>2. CASE \E e \in Execs, i \in Nat : InGiven(t, e, i)
        <4>1. PICK e \in Execs, i \in Nat : InGiven(t, e, i)
          BY <3>2
        <4>2. Lists = {}
          BY <4>1, <1>l DEF OnePlace
        <4>3. \A r \in Gifts : r = <<e, "host", i>>
          BY <4>1, <1>g DEF OnePlace
        <4>4. <<e, "host", i>> \in Gifts
          BY <4>1, <1>h
        <4>5. QED
          BY <4>2, <4>3, <4>4
      <3>3. QED
        BY <1>2, <3>1, <3>2 DEF OnePlace
    <2>2. QED
      BY <1>2, <1>r, <2>1, FS_Singleton
  <1>3. QED
    BY <1>1, <1>2

LEMMA ErrorInit == Init => ErrorInv
  <1> SUFFICES ASSUME Init PROVE ErrorInv
    OBVIOUS
  <1>1. /\ \A t \in Tasks, m \in Machines, i \in Nat : ~InList(t, m, i)
        /\ \A t \in Tasks, e \in Execs, i \in Nat : ~InGiven(t, e, i)
    BY DEF Init, InList, InGiven
  <1>2. failures = {} /\ \A e \in Execs : drained[e] = <<>>
    BY DEF Init
  <1>3. QED
    BY <1>1, <1>2, GroupInit DEF ErrorInv, OnePlace

(* No error moves.                                                         *)
LEMMA ErrorsKept ==
  ASSUME ErrorInv, GroupInv', UNCHANGED <<errs, drained, failures>>,
         \A t \in Tasks : state'[t] \in {"unborn", "running"} =>
                           state[t] \in {"unborn", "running"},
         \A e \in Execs : host'[e] # "drained" => host[e] # "drained"
  PROVE  ErrorInv'
  BY DEF ErrorInv, OnePlace, InList, InGiven, Machines

LEMMA ErrorFound ==
  ASSUME ErrorInv, GroupInv', NEW t \in Tasks, Fail(t)
  PROVE  ErrorInv'
  <1>t. TypeOK
    BY DEF ErrorInv, GroupInv
  <1>1. /\ state[t] = "running" /\ state' = [state EXCEPT ![t] = "failed"]
        /\ errs' = [errs EXCEPT ![list[t]] = Append(@, t)]
        /\ failures' = failures \cup {t}
        /\ UNCHANGED <<host, drained>>
    BY DEF Fail
  <1> DEFINE l == list[t]
             k == Len(errs[l]) + 1
  <1>2. l \in Machines /\ errs[l] \in Seq(Tasks) /\ k \in Nat /\ k >= 1
    BY <1>t DEF TypeOK
  <1>3. errs'[l] = Append(errs[l], t) /\ \A m \in Machines : m # l => errs'[m] = errs[m]
    BY <1>t, <1>1, <1>2 DEF TypeOK
  <1>4. /\ Len(errs'[l]) = k /\ errs'[l][k] = t
        /\ \A i \in 1..Len(errs[l]) : errs'[l][i] = errs[l][i]
    BY <1>2, <1>3, AppendProperties
  <1> HIDE DEF l, k
  <1>5. ASSUME NEW u \in Tasks, NEW m \in Machines, NEW i \in Nat
        PROVE  InList(u, m, i)' <=> InList(u, m, i) \/ (u = t /\ m = l /\ i = k)
    <2>1. CASE m # l
      BY <2>1, <1>3 DEF InList
    <2>2. CASE m = l
      <3>1. k = Len(errs[l]) + 1 /\ Len(errs[l]) \in Nat
        BY <1>2 DEF k
      <3>2. QED
        BY <2>2, <1>4, <3>1 DEF InList
    <2>3. QED
      BY <2>1, <2>2
  <1>6. \A u \in Tasks, e \in Execs, i \in Nat : InGiven(u, e, i)' <=> InGiven(u, e, i)
    BY <1>1 DEF InGiven
  <1>7. t \notin failures /\ OnePlace(t)
    BY <1>1 DEF ErrorInv
  <1>8. OnePlace(t)'
    <2>1. /\ \A m \in Machines, i \in Nat : ~InList(t, m, i)
          /\ \A e \in Execs, i \in Nat : ~InGiven(t, e, i)
      BY <1>7 DEF OnePlace
    <2>2. \A m \in Machines, i \in Nat : InList(t, m, i)' <=> m = l /\ i = k
      BY <2>1, <1>5
    <2>3. \A e \in Execs, i \in Nat : ~InGiven(t, e, i)'
      BY <2>1, <1>6
    <2>4. t \in failures'
      BY <1>1
    <2>5. QED
      BY <2>2, <2>3, <2>4, <1>2 DEF OnePlace, Machines
  <1>9. ASSUME NEW u \in Tasks, u # t PROVE OnePlace(u)'
    <2>1. \A m \in Machines, i \in Nat : InList(u, m, i)' <=> InList(u, m, i)
      BY <1>5, <1>9
    <2>2. \A e \in Execs, i \in Nat : InGiven(u, e, i)' <=> InGiven(u, e, i)
      BY <1>6
    <2>3. u \in failures' <=> u \in failures
      BY <1>1, <1>9
    <2>4. OnePlace(u)
      BY DEF ErrorInv
    <2>5. QED
      BY <2>1, <2>2, <2>3, <2>4 DEF OnePlace, Machines
  <1>10. \A u \in Tasks : state'[u] \in {"unborn", "running"} => u \notin failures'
    BY <1>t, <1>1 DEF ErrorInv, TypeOK
  <1>11. QED
    BY <1>1, <1>8, <1>9, <1>10 DEF ErrorInv

LEMMA ErrorsGiven ==
  ASSUME ErrorInv, GroupInv', NEW e \in Execs, Drain(e)
  PROVE  ErrorInv'
  <1>t. TypeOK /\ lastVM \in Machines
    BY DEF ErrorInv, GroupInv, TypeOK
  <1>1. /\ host[e] = "waited" /\ host' = [host EXCEPT ![e] = "drained"]
        /\ drained' = [drained EXCEPT ![e] = errs[lastVM]]
        /\ errs' = [errs EXCEPT ![lastVM] = <<>>]
        /\ UNCHANGED <<state, failures>>
    BY DEF Drain
  <1>2. drained[e] = <<>>
    BY <1>1 DEF ErrorInv
  <1>3. /\ errs'[lastVM] = <<>> /\ \A m \in Machines : m # lastVM => errs'[m] = errs[m]
        /\ drained'[e] = errs[lastVM] /\ \A f \in Execs : f # e => drained'[f] = drained[f]
    BY <1>t, <1>1 DEF TypeOK
  <1>4. \A u \in Tasks, m \in Machines, i \in Nat :
          InList(u, m, i)' <=> InList(u, m, i) /\ m # lastVM
    <2> SUFFICES ASSUME NEW u \in Tasks, NEW m \in Machines, NEW i \in Nat
                 PROVE  InList(u, m, i)' <=> InList(u, m, i) /\ m # lastVM
      OBVIOUS
    <2>1. CASE m # lastVM
      BY <2>1, <1>3 DEF InList
    <2>2. CASE m = lastVM
      BY <2>2, <1>3 DEF InList
    <2>3. QED
      BY <2>1, <2>2
  <1>5. \A u \in Tasks, f \in Execs, i \in Nat :
          /\ f # e => (InGiven(u, f, i)' <=> InGiven(u, f, i))
          /\ f = e => (InGiven(u, f, i)' <=> InList(u, lastVM, i)) /\ ~InGiven(u, f, i)
    BY <1>2, <1>3 DEF InList, InGiven
  <1>6. ASSUME NEW u \in Tasks PROVE OnePlace(u)'
    <2>o. OnePlace(u)
      BY DEF ErrorInv
    <2>1. \A m, n \in Machines, i, j \in Nat :
            InList(u, m, i)' /\ InList(u, n, j)' => m = n /\ i = j
      BY <2>o, <1>4 DEF OnePlace
    <2>2. \A f, g \in Execs, i, j \in Nat :
            InGiven(u, f, i)' /\ InGiven(u, g, j)' => f = g /\ i = j
      BY <2>o, <1>t, <1>5 DEF OnePlace
    <2>3. \A m \in Machines, f \in Execs, i, j \in Nat :
            ~(InList(u, m, i)' /\ InGiven(u, f, j)')
      BY <2>o, <1>t, <1>4, <1>5 DEF OnePlace
    <2>4. (\E m \in Machines, i \in Nat : InList(u, m, i))
            \/ (\E f \in Execs, i \in Nat : InGiven(u, f, i))
          <=> (\E m \in Machines, i \in Nat : InList(u, m, i)')
            \/ (\E f \in Execs, i \in Nat : InGiven(u, f, i)')
      BY <1>t, <1>4, <1>5
    <2>5. QED
      BY <2>o, <2>1, <2>2, <2>3, <2>4, <1>1 DEF OnePlace, Machines
  <1>7. \A f \in Execs : host'[f] # "drained" => drained'[f] = <<>>
    BY <1>t, <1>1, <1>3 DEF ErrorInv, TypeOK
  <1>8. QED
    BY <1>1, <1>6, <1>7 DEF ErrorInv

LEMMA ErrorStep == ErrorInv /\ [Next]_vars => ErrorInv'
  <1> SUFFICES ASSUME ErrorInv, [Next]_vars PROVE ErrorInv'
    OBVIOUS
  <1>g. GroupInv'
    BY GroupStep DEF ErrorInv
  <1>t. TypeOK
    BY DEF ErrorInv, GroupInv
  <1>0. CASE UNCHANGED vars
    BY <1>0, <1>g, ErrorsKept DEF vars
  <1>1. ASSUME NEW e \in Execs, Host(e) PROVE ErrorInv'
    <2>1. CASE Drain(e)
      BY <2>1, <1>g, ErrorsGiven
    <2>2. CASE Execute(e) \/ ExecuteReturns(e) \/ BeginWait(e) \/ WaitReturns(e)
      <3>1. UNCHANGED <<errs, drained, failures, state>>
        BY <2>2 DEF Execute, ExecuteReturns, BeginWait, WaitReturns
      <3>2. \A f \in Execs : host'[f] # "drained" => host[f] # "drained"
        BY <2>2, <1>t DEF Execute, ExecuteReturns, BeginWait, WaitReturns, TypeOK
      <3>3. QED
        BY <3>1, <3>2, <1>g, ErrorsKept
    <2>3. QED
      BY <1>1, <2>1, <2>2 DEF Host
  <1>2. ASSUME NEW t \in Tasks, Ends(t) PROVE ErrorInv'
    <2>1. CASE Fail(t)
      BY <2>1, <1>g, ErrorFound
    <2>2. CASE Succeed(t) \/ Done(t)
      <3>1. UNCHANGED <<errs, drained, failures, host>>
        BY <2>2 DEF Succeed, Done
      <3>2. \A u \in Tasks : state'[u] \in {"unborn", "running"} =>
                              state[u] \in {"unborn", "running"}
        BY <2>2, <1>t DEF Succeed, Done, TypeOK
      <3>3. QED
        BY <3>1, <3>2, <1>g, ErrorsKept
    <2>3. QED
      BY <1>2, <2>1, <2>2 DEF Ends
  <1>3. ASSUME NEW t \in Tasks, NEW h \in Machines, NEW k \in Machines, Spawn(t, h, k)
        PROVE  ErrorInv'
    <2>1. UNCHANGED <<errs, drained, failures, host>>
      BY <1>3 DEF Spawn
    <2>2. \A u \in Tasks : state'[u] \in {"unborn", "running"} =>
                            state[u] \in {"unborn", "running"}
      BY <1>3, <1>t DEF Spawn, TypeOK
    <2>3. QED
      BY <2>1, <2>2, <1>g, ErrorsKept
  <1>4. QED
    BY <1>0, <1>1, <1>2, <1>3, <1>t, Steps

(* The error of every goroutine that failed is in exactly one place, and   *)
(* nothing else is, whatever hosts execute, wait and drain at once.        *)
THEOREM ErrorsInOnePlace == Spec => []ErrorsOnce
  <1>1. ErrorInv => ErrorsOnce
    BY RecordsCounted DEF ErrorInv, GroupInv, ErrorsOnce
  <1>2. QED
    BY ErrorInit, ErrorStep, <1>1, PTL DEF Spec
==============================================================================
