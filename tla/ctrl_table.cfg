SPECIFICATION Spec
CONSTANTS
  Names = {x, y}
  Values = {Empty, v, w}
  Empty = Empty
  Zero = Zero
  MaxLines = 4
INVARIANTS
  TypeOK
  HeadersExtend
PROPERTIES
  RowMatchesHeader
