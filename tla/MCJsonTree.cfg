SPECIFICATION Spec
CONSTANTS
  a = a
  b = b
  c = c
  d = d
  NULL = NULL
  Nodes <- FourNodes
SYMMETRY Symmetry
INVARIANT TypeOK
INVARIANT JsonCheck
INVARIANT NothingDangling
PROPERTY ImplementsForest
