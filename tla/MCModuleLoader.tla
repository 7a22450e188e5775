--------------------------- MODULE MCModuleLoader ---------------------------
(***************************************************************************)
(* ModuleLoader on small sets of programs.                                 *)
(***************************************************************************)
EXTENDS ModuleLoader

(* Import lists of up to n of the modules in M. *)
Lists(M, n) == UNION {[1..k -> M] : k \in 0..n}

(* The modules of the program; those of the library are not loaded. *)
User == Modules \ Std

Program(main, body, out, catch) ==
  [imports |-> [x \in Names |-> IF x \in Threads THEN main[x]
                                ELSE IF x \in Std THEN <<>> ELSE body[x]],
   outcome |-> [x \in Names |-> IF x \in User THEN out[x] ELSE "ok"],
   catches |-> catch]

(* One thread imports: every import graph whose main program and bodies    *)
(* import up to two modules, with every outcome and every choice of which  *)
(* bodies catch the errors of their imports.                               *)
Importer == CHOOSE t \in Threads : TRUE

SequentialPrograms ==
  {Program([t \in Threads |-> IF t = Importer THEN main ELSE <<>>], body, out, catch) :
     main  \in Lists(User, 2),
     body  \in [User -> Lists(User, 2)],
     out   \in [User -> {"ok", "missing", "raises"}],
     catch \in SUBSET User}

(* All threads import: bodies that import up to one module, and mains that *)
(* import exactly one.                                                     *)
ConcurrentPrograms ==
  {Program(main, body, out, catch) :
     main  \in [Threads -> [1..1 -> Modules]],
     body  \in [User -> Lists(Modules, 1)],
     out   \in [User -> {"ok", "broken"}],
     catch \in SUBSET User}

AllPrograms == SequentialPrograms \cup ConcurrentPrograms
==============================================================================
