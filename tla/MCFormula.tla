----------------------------- MODULE MCFormula -----------------------------
(***************************************************************************)
(* Formulas of two symbols over the integers modulo 11.                    *)
(***************************************************************************)
EXTENDS Formula, Field11

MCAlphabet == <<"x", "y", "z">>
MCSigns ==
  <<"*", "+", "-", "/", "abs", "acos", "acosh", "asin", "asinh", "atan", "atan2", "atanh", "cbrt",
    "cos", "cosh", "erf", "exp", "hypot", "log", "log10", "max", "min", "pow", "sign", "sin",
    "sinh", "sqrt", "tan", "tanh">>

X == Variable("x", FALSE)
Y == Variable("y", FALSE)
Z == Variable("z", FALSE)
Two == Constant(2)
One == Lit(1)
Nought == Lit(0)

MCLeaves == {X}
Unary == {Named[n] : n \in DOMAIN Named} \cup {"sqrt", "cbrt", "abs", "-"}
MCPalette ==
  <<[functions |-> Unary,
     operators |-> {"+", "-", "*", "/", "pow", "atan2", "hypot", "max", "min"},
     operands |-> {Y, Two, One, Nought}],
    [functions |-> {"-", "sin", "sqrt", "abs"},
     operators |-> {"+", "-", "*", "/", "pow", "max"},
     operands |-> {X, Z, Two}]>>

(* What is divided by one stored constant and multiplied by another. *)
StoredPalette ==
  <<[functions |-> {}, operators |-> {"/"}, operands |-> {Y, Two}],
    [functions |-> {}, operators |-> {"*"}, operands |-> {Y, Constant(3)}]>>

(* A power that is 1 whatever its base: canonicalise folds the symbol away. *)
FoldedPalette ==
  <<[functions |-> {}, operators |-> {"pow"}, operands |-> {Nought, One}],
    [functions |-> {}, operators |-> {"*", "+"}, operands |-> {Y}]>>

-----------------------------------------------------------------------------
(* What analysis says of a formula: its value, gradient and Hessian, by the   *)
(* second-order chain rule.  live: some symbol is.                            *)
Symbol == {"x", "y", "z"}
Flat == [s \in Symbol |-> 0]
Even == [s, r \in Symbol |-> 0]
Still(v) == [v |-> v, g |-> Flat, h |-> Even, live |-> FALSE]

Chain1(v, f1, f2, a) ==
  [v |-> v,
   g |-> [s \in Symbol |-> FMul(f1, a.g[s])],
   h |-> [s, r \in Symbol |-> FAdd(FMul(f2, FMul(a.g[s], a.g[r])), FMul(f1, a.h[s, r]))],
   live |-> TRUE]
(* d: the partials <<f, fa, fb, faa, fab, fbb>>. *)
Chain2(d, a, b) ==
  [v |-> d[1],
   g |-> [s \in Symbol |-> FAdd(FMul(d[2], a.g[s]), FMul(d[3], b.g[s]))],
   h |-> [s, r \in Symbol |->
            FAdd(FAdd(FAdd(FMul(d[2], a.h[s, r]), FMul(d[3], b.h[s, r])),
                      FMul(d[5], FAdd(FMul(a.g[s], b.g[r]), FMul(b.g[s], a.g[r])))),
                 FAdd(FMul(d[4], FMul(a.g[s], a.g[r])), FMul(d[6], FMul(b.g[s], b.g[r]))))],
   live |-> TRUE]

Mean(a, b) ==
  [v |-> a.v, g |-> [s \in Symbol |-> Half(FAdd(a.g[s], b.g[s]))],
   h |-> [s, r \in Symbol |-> Half(FAdd(a.h[s, r], b.h[s, r]))],
   live |-> a.live \/ b.live]
Bent(jet) ==
  NaN \notin {jet.v} \cup {jet.g[s] : s \in Symbol} \cup {jet.h[s, r] : s, r \in Symbol}
(* Residues far enough apart to wrap round are in no order; and the branch not *)
(* taken is differentiated too.                                                *)
Ordered(a, b) == Bent(a) /\ Bent(b) /\ (FLess(a.v, b.v) <=> FLess(FSub(a.v, b.v), 0))
Taken(a, b, winner) == IF Ordered(a, b) THEN [winner EXCEPT !.live = a.live \/ b.live] ELSE Still(NaN)
Least(a, b) == Taken(a, b, IF FLess(a.v, b.v) THEN a ELSE b)
Most(a, b) == Taken(a, b, IF FLess(a.v, b.v) THEN b ELSE a)

Raised2(a, b, p) ==
  <<p, FMul(b, FPower(a, FSub(b, 1))), FMul(p, FFn("log", a)),
    FMul(FMul(b, FSub(b, 1)), FPower(a, FSub(b, 2))),
    FMul(FPower(a, FSub(b, 1)), FAdd(1, FMul(b, FFn("log", a)))),
    FMul(p, Squared(FFn("log", a)))>>
Distance(a, b, h) ==
  <<h, FDiv(a, h), FDiv(b, h), FDiv(Squared(b), Cubed(h)), FNeg(FDiv(FMul(a, b), Cubed(h))),
    FDiv(Squared(a), Cubed(h))>>
Angle(a, b, q) ==         \* q = a^2 + b^2
  <<FAtan2(a, b), FDiv(b, q), FNeg(FDiv(a, q)), FDiv(Multiple(-2, FMul(a, b)), Squared(q)),
    FDiv(FSub(Squared(a), Squared(b)), Squared(q)), FDiv(Multiple(2, FMul(a, b)), Squared(q))>>
Partials(op, a, b) ==
  CASE op = "+" -> <<FAdd(a, b), 1, 1, 0, 0, 0>>
    [] op = "-" -> <<FSub(a, b), 1, FNeg(1), 0, 0, 0>>
    [] op = "*" -> <<FMul(a, b), b, a, 0, 1, 0>>
    [] op = "/" -> <<FDiv(a, b), FInv(b), FNeg(FDiv(a, Squared(b))), 0, FNeg(FInv(Squared(b))),
                     Multiple(2, FDiv(a, Cubed(b)))>>
    [] op = "pow" -> Raised2(a, b, IF FPower(a, FSub(b, 1)) = NaN THEN NaN ELSE FPower(a, b))
    [] op = "hypot" -> Distance(a, b, FHypot(a, b))
    [] op = "atan2" -> Angle(a, b, Squared(FHypot(a, b)))

(* A constant is compared where the function is smooth: a dual has 0/0 there. *)
Jet1(op, a) ==
  CASE op = "sign" -> Still(IF a.v \in {0, NaN} THEN a.v ELSE IF FLess(0, a.v) THEN 1 ELSE P - 1)
    [] op = "-" -> IF a.live THEN Chain1(FNeg(a.v), P - 1, 0, a) ELSE Still(FNeg(a.v))
    [] OTHER -> IF a.live THEN Chain1(FFn(op, a.v), First1(op, a.v), Second1(op, a.v), a)
                ELSE Still(IF Second1(op, a.v) = NaN THEN NaN ELSE FFn(op, a.v))
JetOf(d, a, b) ==
  CASE a.live /\ b.live -> Chain2(d, a, b)
    [] a.live /\ ~b.live -> Chain1(d[1], d[2], d[4], a)
    [] ~a.live /\ b.live -> Chain1(d[1], d[3], IF d[4] = NaN THEN NaN ELSE d[6], b)
    [] OTHER -> Still(IF NaN \in {d[2], d[3], d[4]} THEN NaN ELSE d[1])
Jet2(op, a, b) ==
  CASE op = "max" -> IF FEq(a.v, b.v) THEN Mean(a, b) ELSE Most(a, b)
    [] op = "min" -> IF FEq(a.v, b.v) THEN Mean(a, b) ELSE Least(a, b)
    [] OTHER -> JetOf(Partials(op, a.v, b.v), a, b)

RECURSIVE Jet(_, _)
Jet(t, env) ==
  CASE t.op \in {"Lit", "Constant"} -> Still(t.value)
    [] t.op = "Variable" ->
         IF t.frozen THEN Still(env[t.label])
         ELSE [Still(env[t.label]) EXCEPT !.g[t.label] = 1, !.live = TRUE]
    [] Len(t.kids) = 1 -> Jet1(t.op, Jet(t.kids[1], env))
    [] Len(t.kids) = 2 -> Jet2(t.op, Jet(t.kids[1], env), Jet(t.kids[2], env))

Env(x, y) == [s \in {"x", "y", "z"} |-> CASE s = "x" -> x [] s = "y" -> y [] s = "z" -> 6]
Environments == {Env(3, 4), Env(0, 2), Env(2, 2)}
At(symbols, env) == [i \in DOMAIN symbols |-> env[symbols[i]]]

Sloped(jet) == NaN \notin {jet.v} \cup {jet.g[s] : s \in Symbol}

-----------------------------------------------------------------------------
(* A quotient by a stored constant may be cancelled by another: those are the   *)
(* subject of a run of their own.                                               *)
RECURSIVE DividesByStored(_)
DividesByStored(t) ==
  \/ t.op = "/" /\ t.kids[2].op = "Constant"
  \/ \E i \in DOMAIN t.kids : DividesByStored(t.kids[i])

(* Folding never changes what a formula is worth: neither the folds of the     *)
(* operators nor the reordering and folding an Equation does (simplify.hpp).    *)
FoldingSound ==
  \A env \in Environments :
    Jet(written, env).v # NaN =>
      /\ V0!EvalSeeded(expr, env) = Jet(written, env).v
      /\ V0!EvalSeeded(Canonicalise(expr), env) = Jet(written, env).v

(* One pass of canonicalise is enough (simplify.hpp:158-169).                  *)
OnePassSuffices == Canonicalise(Canonicalise(expr)) = Canonicalise(expr)

(* Every way to a gradient gives the gradient: the symbolic partials, the       *)
(* reverse sweep with the cells it leaves unwritten, the rows of a Jacobian     *)
(* over more symbols than the row has, and a forward sweep a symbol.            *)
Kept(eq) == Symbols(eq.expressions[1]) = eq.symbols
GradientsAre(jet, eq, pair, env) ==
  LET want == [i \in DOMAIN eq.symbols |-> jet.g[eq.symbols[i]]]
      wide == [i \in DOMAIN pair.symbols |-> jet.g[pair.symbols[i]]]
  IN  /\ Evaluate(eq, At(eq.symbols, env)) = <<jet.v>>
      /\ GradientSymbolic(eq, At(eq.symbols, env)) = want
      /\ Kept(eq) => GradientReverse(eq, At(eq.symbols, env)) = want
      /\ JacobianSymbolic(pair, At(pair.symbols, env))[1] = wide
      /\ JacobianReverseMode(pair, At(pair.symbols, env))[1] = wide
      /\ \A s \in Labels(expr) :
           Tangent(expr, At(Symbols(expr), env), s) = [v |-> jet.v, d |-> jet.g[s]]
GradientsAgree ==
  \A env \in Environments :
    Sloped(Jet(written, env)) /\ ~DividesByStored(written) =>
      GradientsAre(Jet(written, env), NewEquation(<<expr>>), NewEquation(<<expr, Times(X, Y)>>), env)

(* The two modes of gradient() are of one gradient, also when a symbol folds    *)
(* away: the point keeps the symbols of what was written (equation.hpp:68-69).  *)
GradientModesAgree ==
  LET eq == NewEquation(<<expr>>)
  IN  \A env \in Environments :
        Sloped(Jet(written, env)) =>
          GradientReverse(eq, At(eq.symbols, env)) = GradientSymbolic(eq, At(eq.symbols, env))

(* Every way to a Hessian gives the Hessian: coloured, dense and sparse,        *)
(* forward over reverse, and the packed second-order tensor.                    *)
HessiansAre(jet, t, x) ==
  LET n == Len(x)
      want(i, j) == jet.h[Symbols(t)[i], Symbols(t)[j]]
      sweeps == ColorSweeps(t, x)
      packed == ReverseModeHessian(t, sweeps)
      dense == HessianExprReverse(t, sweeps)
      sparse == HessianValuesSparse(t, sweeps)
      tensor == DerivativeTensor(2, NewEquation(<<t>>), x)[1]
  IN  \A i, j \in 1..n :
        /\ packed[Cell(<<i, j>>)] = want(i, j)
        /\ dense.hessian[i, j] = want(i, j)
        /\ dense.value = jet.v
        /\ dense.gradient[i] = jet.g[Symbols(t)[i]]
        /\ SparseHessianAt(t, sparse, i, j) = want(i, j)
        /\ tensor[Cell(<<i, j>>)] = want(i, j)
StackedAre(jet, pair, x) ==
  LET forward == HessianForwardOverReverse(pair, x)[1]
      tensor == DerivativeTensor(2, pair, x)[1]
  IN  \A i, j \in DOMAIN pair.symbols :
        /\ forward[Cell(<<i, j>>)] = jet.h[pair.symbols[i], pair.symbols[j]]
        /\ tensor[Cell(<<i, j>>)] = jet.h[pair.symbols[i], pair.symbols[j]]
HessiansAgree ==
  \A env \in Environments :
    Bent(Jet(written, env)) =>
      /\ HessiansAre(Jet(written, env), Canonicalise(expr), At(Symbols(Canonicalise(expr)), env))
      /\ LET pair == NewEquation(<<expr, Times(X, Y)>>)
         IN  StackedAre(Jet(written, env), pair, At(pair.symbols, env))

(* One Taylor sweep gives what nested duals give, to every order; an exponent    *)
(* that varies aside, whose series goes by exp and log.                          *)
RECURSIVE VaryingExponent(_)
VaryingExponent(t) ==
  \/ t.op = "pow" /\ LiveSymbols(t.kids[2]) # {}
  \/ \E i \in DOMAIN t.kids : VaryingExponent(t.kids[i])
TaylorIsNested(eq, x) ==
  \A order \in 1..MaxOrder :
    DerivativeTensor(order, eq, x)[1][1] # NaN =>
      UnivariateDerivative(order, eq, x[1]) = DerivativeTensor(order, eq, x)[1][1]
TaylorAgrees ==
  LET eq == NewEquation(<<expr>>)
  IN  Len(eq.symbols) = 1 /\ ~VaryingExponent(written) =>
        \A env \in Environments : Bent(Jet(written, env)) => TaylorIsNested(eq, At(eq.symbols, env))

(* A point by name is the same point in whatever order it is spelled, in         *)
(* whatever map it comes; one off a range is cut to length, or refused.          *)
Spellings(labels) ==
  {[j \in DOMAIN order |-> <<order[j], 10 * IndexIn(MCAlphabet, order[j])>>] :
     order \in SetToAllKPermutations(labels)}
PointsByName ==
  LET symbols == Symbols(expr)
      point == [i \in DOMAIN symbols |-> 10 * IndexIn(MCAlphabet, symbols[i])]
  IN  /\ \A named \in Spellings(Symbol) :
           Labels(expr) \subseteq NamesOf(named) =>
             /\ NamedPoint(symbols, Values(named)) = point
             /\ BoundPoint(symbols, Values(named)) = point
             /\ NamesOf(named) = Labels(expr) => MakeValues(symbols, named) = point
             /\ \A s \in NamesOf(named) : BoundPoint(symbols, Set(Values(named), s, 7)) =
                  [i \in DOMAIN symbols |-> IF symbols[i] = s THEN 7 ELSE point[i]]
      /\ \A k \in 0..Len(symbols) :
           RangePoint(symbols, SubSeq(point, 1, k)) = IF k < Len(symbols) THEN Short ELSE point
      /\ RangePoint(symbols, Append(point, 1)) = point

=============================================================================
