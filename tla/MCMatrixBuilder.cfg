SPECIFICATION Spec
CONSTANTS
  NaN = 8
  Scalar = {0, 4, 5, 6, 7, 8}
  Zero = 0
  One = 5
  Eq <- MCEq
  Apply1 <- RingApply1
  Apply2 <- RingApply2
  UnaryOps = {"Neg"}
  BinaryOps = {"Mul", "Div"}
  CommutativeMul = FALSE
  Name = {"x", "y"}
  MaxNodes = 4
INVARIANTS RewritesSound
CHECK_DEADLOCK FALSE
