\* Every expression of two operations over x, y and z, and those with a third on
\* top, under every order of the greedy colouring.
SPECIFICATION Spec
CONSTANTS
  NaN = 5
  Scalar = {0, 1, 2, 3, 4, 5}
  Zero = 0
  One = 1
  MinusOne = 4
  Two = 2
  Eq <- MCEq
  Apply1 <- FieldApply1
  Apply2 <- FieldApply2
  UnaryOps = {"Neg", "Exp"}
  BinaryOps = {"Add", "Mul", "Div"}
  CommutativeMul = TRUE
  Name = {"x", "y", "z"}
  Models <- MCModels
  Points <- MCPoints
  Slope <- FieldSlope
  SlopeLeft <- FieldSlopeLeft
  SlopeRight <- FieldSlopeRight
  Bend <- FieldBend
  BendLeft <- FieldBendLeft
  BendMixed <- FieldBendMixed
  BendRight <- FieldBendRight
INVARIANTS ColumnsSeparate EntriesAreNodes PatternConservative HessianCorrect
CHECK_DEADLOCK FALSE
