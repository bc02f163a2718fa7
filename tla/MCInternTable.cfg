\* Seven keys that collide and wrap around in different ways at capacities 2,
\* 4, 8 and 16.  NaN is one of them; the two zeros hash apart, above the largest
\* mask of the run.  The run stops when MaxNodes is reached.
SPECIFICATION FairSpec
CONSTANTS
  Key = {0, 32, 1, 3, 8, 9, 15}
  Hash <- MCHash
  Same <- MCSame
  NaN = 15
  PosZero = 0
  NegZero = 32
  InitialCapacity = 2
  Capacities = {2, 4, 8, 16}
  MaxNodes = 5
INVARIANTS IInv TableSound
PROPERTIES ImplementsInterner IdentityStable Returns
CHECK_DEADLOCK FALSE
