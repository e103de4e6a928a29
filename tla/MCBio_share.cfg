CONSTANTS
  p = p q = q
  Proc = {p, q}
  None = None
  x = x y = y
  Value = {x, y}
  Block = {1, 2, 3, 4}
  NBUF = 3
  MaxPins = 2
  Changing = {1, 2}
SPECIFICATION CacheSpec
VIEW Shape
SYMMETRY Symmetry
INVARIANTS RefsAreExact
PROPERTIES ImplementsBlockStore
CHECK_DEADLOCK FALSE
