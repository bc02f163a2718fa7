\* A gradient batch sized as the column queries say, after a Hessian batch.
SPECIFICATION Spec
CONSTANTS
  NaN = 5
  Scalar = {0, 1, 2, 3, 4, 5}
  Zero = 0
  One = 1
  MinusOne = 4
  Two = 2
  Eq <- MCEq
  Apply1 <- FieldApply1
  Apply2 <- FieldApply2
  UnaryOps = {"Neg"}
  BinaryOps = {"Add", "Mul", "Div"}
  CommutativeMul = TRUE
  Name = {"x", "y"}
  Givens <- MCGivens
  Positional <- MCPositional
  Named <- MCNamed
  Tables <- MCTables
  MaxGrowth = 1
  Undefined = Undefined
  Expansion <- MCExpansion
  OnSeries1 <- MCOnSeries1
  OnSeries2 <- MCOnSeries2
  Highest <- MCHighest
  Slope <- FieldSlope
  SlopeLeft <- FieldSlopeLeft
  SlopeRight <- FieldSlopeRight
  Bend <- FieldBend
  BendLeft <- FieldBendLeft
  BendMixed <- FieldBendMixed
  BendRight <- FieldBendRight
INVARIANTS SizedBatchRuns
CHECK_DEADLOCK FALSE
