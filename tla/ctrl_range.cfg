SPECIFICATION Spec
CONSTANTS
  Names = {x, y}
  Values = {Empty, v, w}
  Empty = Empty
  Zero = Zero
  MaxLines = 2
INVARIANTS
  IndexInRange
