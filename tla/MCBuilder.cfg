SPECIFICATION Spec
CONSTANTS
  NaN = 3
  Scalar = {0, 1, 2, 3}
  Zero = 0
  One = 1
  Eq <- MCEq
  Apply1 <- FieldApply1
  Apply2 <- FieldApply2
  UnaryOps = {"Neg"}
  BinaryOps = {"Add", "Mul", "Div", "Pow", "Max"}
  CommutativeMul = TRUE
  Name = {"x", "y"}
  MaxNodes = 4
INVARIANTS Topological IdIsIdentity RewritesSound Rebuilds OperandOrderIrrelevant
PROPERTIES AppendOnly
CHECK_DEADLOCK FALSE
