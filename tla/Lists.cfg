\* Two objects of up to three elements; spare room comes from deletions.
CONSTANTS
  Width = 3
  None = None
  Objects = {1, 2}
  Arrays = {1, 2, 3}
  Elems = {1, 2}
  Nil = Nil
  MaxLen = 3
  MaxSpare = 0
  Bounds <- SmallBounds
  Cuts <- SomeCuts
SPECIFICATION Spec
INVARIANTS TypeOK SharersAreKin
PROPERTIES ImplementsContract OnlyKinNotice
VIEW View
