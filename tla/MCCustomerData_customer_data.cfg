\* Two requests of a customer at a time, and a deletion.
SPECIFICATION Spec
CONSTANTS
  Requests = {r1, r2}
  Ids = {i1, i2, i3}
SYMMETRY Symmetry
INVARIANTS
  ErasureIsComplete
PROPERTIES
  DefaultIsReplaced
\* Every row there may be has been used up.
CHECK_DEADLOCK FALSE
