----------------------------- MODULE MCClasses ------------------------------
(***************************************************************************)
(* Classes on small hierarchies.  Classes are numbers and made in order.   *)
(***************************************************************************)
EXTENDS Classes

InOrder == \A c \in made : 1..c \subseteq made

(* A fifth class makes larger hierarchies, of classes without methods. *)
NotTheFifth == [c \in Classes |-> IF c = 5 THEN {} ELSE Methods]

FifthIsBare == InOrder /\ (5 \in made => \A c \in made : methods[c] = {})
==============================================================================
