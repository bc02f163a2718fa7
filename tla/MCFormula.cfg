SPECIFICATION Spec
CONSTANTS
  Alphabet <- MCAlphabet
  Signs <- MCSigns
  Leaves <- MCLeaves
  Palette <- MCPalette
  SAdd <- FAdd
  SSub <- FSub
  SMul <- FMul
  SDiv <- FDiv
  SNeg <- FNeg
  SFn <- FFn
  SPower <- FPower
  SHypot <- FHypot
  SAtan2 <- FAtan2
  SLess <- FLess
  SEq <- FEq
  SIsZero <- FIsZero
  S <- Residue
  SLn10 <- Ln10
  SLog10e <- Log10e
  STwoInvSqrtPi <- TwoInvSqrtPi
INVARIANTS
  FoldingSound
  OnePassSuffices
  GradientsAgree
  HessiansAgree
  TaylorAgrees
  PointsByName
CHECK_DEADLOCK FALSE
