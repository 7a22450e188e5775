------------------------------- MODULE MCLists -------------------------------
(* Values of Lists's constants, and what tells its states apart: neither   *)
(* the call that led to them nor which array an object looks at, only who  *)
(* else looks at it.                                                       *)
EXTENDS Lists

SmallBounds == -1 .. 1
SomeCuts == {<<None, None, None>>, <<1, None, None>>, <<None, -1, None>>, <<None, None, -1>>}

OnArray(a) == {o \in Objects : at[o].arr = a}

View ==
  <<kind, kin,
    [o \in Objects |-> <<at[o].lo, at[o].hi, OnArray(at[o].arr), mem[at[o].arr]>>]>>
===============================================================================
