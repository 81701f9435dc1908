SPECIFICATION Spec
CONSTANTS
  f1 = f1
  f2 = f2
  left = left
  right = right
  Elements <- MCElements
  Kind <- MCKind
  Binding <- MCBinding
  Left = left
  Right = right
  Pointers = {f1, f2}
  Indices <- MCIndices
  Directions = {2}
  NULL = NULL
SYMMETRY Symmetric
INVARIANT TypeOK
INVARIANT NothingStuck
INVARIANT HeldIsDown
INVARIANT PointersAgree
INVARIANT GestureOver
