\* Two calls in a row, over the caller's workspaces or storage of their own: every
\* function of one variable at every point, a graph on points of every length, a
\* lambda whose point does not fit the inline block.
SPECIFICATION Spec
CONSTANTS
  Scalars <- MCScalars
  Zero = 0
  One = 1
  Unwritten = Unwritten
  Calls <- MCCalls
  Arity <- MCArity
  Energy <- MCEnergy
  Value <- MCValue
  FirstAt <- MCSlope
  SecondAt <- MCBend
  Undefined = 11
  InlineCapacity = 2
  MaxCalls = 2
INVARIANTS DriverInv ProbeSeedsExact LeftClean EveryCellWritten WrittenIsRight
CHECK_DEADLOCK FALSE
