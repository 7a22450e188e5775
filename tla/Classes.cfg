\* Every hierarchy of five classes of up to two bases; of four, every choice
\* of which have the method, and chains that mix super() and super(C, self).
CONSTANTS
  Classes = {1, 2, 3, 4, 5}
  Methods = {m}
  MayHave <- NotTheFifth
  MaxBases = 2
  MaxDepth = 5
  SuperForms = {"bare", "explicit"}
  Nobody = Nobody
SPECIFICATION Spec
CONSTRAINT FifthIsBare
INVARIANTS MroIsC3 CooperationIsComplete
\* Hierarchies are finite, and a program ends.
CHECK_DEADLOCK FALSE
