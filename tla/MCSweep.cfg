\* Every expression of two operations over x, y and 2, differentiated from every
\* node, and again from each of its partials.
SPECIFICATION Spec
CONSTANTS
  NaN = 5
  Scalar = {0, 1, 2, 3, 4, 5}
  Zero = 0
  One = 1
  MinusOne = 4
  Two = 2
  Eq <- MCEq
  Apply1 <- FieldApply1
  Apply2 <- FieldApply2
  Slope <- FieldSlope
  SlopeLeft <- FieldSlopeLeft
  SlopeRight <- FieldSlopeRight
  UnaryOps = {"Neg", "Exp", "Sign"}
  BinaryOps = {"Add", "Mul", "Div", "Max"}
  CommutativeMul = TRUE
  Name = {"x", "y"}
  Models <- MCModels
  Points <- MCPoints
  MaxSweeps = 2
INVARIANTS TypeOK AdjointsAddUp GradientCorrect  SymbolicCorrect
CHECK_DEADLOCK FALSE
