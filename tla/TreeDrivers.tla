---------------------------- MODULE TreeDrivers ----------------------------
(***************************************************************************)
(* An Equation over expression trees (expr/equation.hpp) and what its      *)
(* members compute (drivers/symbolic.hpp, expr/bound.hpp): the sweeps of   *)
(* TreeEval over scalars, nested duals and Taylor series, their seeds, and *)
(* where each result is stored.                                            *)
(***************************************************************************)
EXTENDS TreeCoupling

CONSTANTS
  SFn(_, _), SPower(_, _), SHypot(_, _), SAtan2(_, _),
  SLess(_, _), SIsZero(_), SLog10e

Self(s) == s
Raise(s, n) == SPower(s, S(n))

(* Dual<S> to Dual<Dual<Dual<S>>>, and TaylorDual<S, 3>. *)
E1 == INSTANCE Dual WITH
  TAdd <- SAdd, TSub <- SSub, TMul <- SMul, TDiv <- SDiv, TNeg <- SNeg,
  TAddS <- SAdd, TMulS <- SMul, TSSub <- SSub, TSDiv <- SDiv, TFn <- SFn,
  THypot <- SHypot, TAtan2 <- SAtan2, TPow <- Raise, TPower <- SPower, TAllZero <- SIsZero,
  TVal <- Self, TOf <- Self, Eq <- SEq, Less <- SLess, Ln10 <- SLn10,
  TwoInvSqrtPi <- STwoInvSqrtPi
E2 == INSTANCE Dual WITH
  TAdd <- E1!Add, TSub <- E1!Sub, TMul <- E1!Mul, TDiv <- E1!Div, TNeg <- E1!Neg,
  TAddS <- E1!AddS, TMulS <- E1!MulS, TSSub <- E1!SubFrom, TSDiv <- E1!DivInto, TFn <- E1!Fn,
  THypot <- E1!Hypot, TAtan2 <- E1!Atan2, TPow <- E1!Pow, TPower <- E1!Power,
  TAllZero <- E1!AllZero, TVal <- E1!Val, TOf <- E1!Of, Eq <- SEq, Less <- SLess,
  Ln10 <- SLn10, TwoInvSqrtPi <- STwoInvSqrtPi
E3 == INSTANCE Dual WITH
  TAdd <- E2!Add, TSub <- E2!Sub, TMul <- E2!Mul, TDiv <- E2!Div, TNeg <- E2!Neg,
  TAddS <- E2!AddS, TMulS <- E2!MulS, TSSub <- E2!SubFrom, TSDiv <- E2!DivInto, TFn <- E2!Fn,
  THypot <- E2!Hypot, TAtan2 <- E2!Atan2, TPow <- E2!Pow, TPower <- E2!Power,
  TAllZero <- E2!AllZero, TVal <- E2!Val, TOf <- E2!Of, Eq <- SEq, Less <- SLess,
  Ln10 <- SLn10, TwoInvSqrtPi <- STwoInvSqrtPi

MaxOrder == 3
TD == INSTANCE Taylor WITH N <- MaxOrder

V0 == INSTANCE TreeEval WITH
  TAdd <- SAdd, TSub <- SSub, TMul <- SMul, TDiv <- SDiv, TNeg <- SNeg, TFn <- SFn,
  TPower <- SPower, THypot <- SHypot, TAtan2 <- SAtan2, TVal <- Self, TOf <- Self,
  Count <- NodeCount
V1 == INSTANCE TreeEval WITH
  TAdd <- E1!Add, TSub <- E1!Sub, TMul <- E1!Mul, TDiv <- E1!Div, TNeg <- E1!Neg, TFn <- E1!Fn,
  TPower <- E1!Power, THypot <- E1!Hypot, TAtan2 <- E1!Atan2, TVal <- E1!Val, TOf <- E1!Of,
  Count <- NodeCount
V2 == INSTANCE TreeEval WITH
  TAdd <- E2!Add, TSub <- E2!Sub, TMul <- E2!Mul, TDiv <- E2!Div, TNeg <- E2!Neg, TFn <- E2!Fn,
  TPower <- E2!Power, THypot <- E2!Hypot, TAtan2 <- E2!Atan2, TVal <- E2!Val, TOf <- E2!Of,
  Count <- NodeCount
V3 == INSTANCE TreeEval WITH
  TAdd <- E3!Add, TSub <- E3!Sub, TMul <- E3!Mul, TDiv <- E3!Div, TNeg <- E3!Neg, TFn <- E3!Fn,
  TPower <- E3!Power, THypot <- E3!Hypot, TAtan2 <- E3!Atan2, TVal <- E3!Val, TOf <- E3!Of,
  Count <- NodeCount
VT == INSTANCE TreeEval WITH
  TAdd <- TD!Add, TSub <- TD!Sub, TMul <- TD!Mul, TDiv <- TD!Div, TNeg <- TD!Neg, TFn <- TD!Fn,
  TPower <- TD!Power, THypot <- TD!Hypot, TAtan2 <- TD!Atan2, TVal <- TD!Val, TOf <- TD!Const,
  Count <- NodeCount

-----------------------------------------------------------------------------
(* The trees are kept canonical; the symbols are those of what was written.   *)
NewEquation(trees) ==
  [symbols |-> InOrder(UNION {Labels(trees[i]) : i \in DOMAIN trees}),
   expressions |-> [i \in DOMAIN trees |-> Canonicalise(trees[i])]]

(* A point, one number a symbol, read through a list of symbols. *)
Read(symbols, x) ==
  [s \in {symbols[i] : i \in DOMAIN symbols} |-> x[IndexIn(symbols, s)]]

(* What a buffer over symbols holds of grads, padded to n cells. *)
Laid(symbols, grads, n) ==
  [i \in 1..n |-> IF i \in DOMAIN symbols THEN grads[symbols[i]] ELSE S(0)]

Evaluate(eq, x) ==
  [k \in DOMAIN eq.expressions |-> V0!EvalSeeded(eq.expressions[k], Read(eq.symbols, x))]

JacobianRow(eq, k) ==
  [i \in DOMAIN eq.symbols |-> Partial(eq.expressions[k], eq.symbols[i])]
JacobianSymbolic(eq, x) ==
  [k \in DOMAIN eq.expressions |->
     [i \in DOMAIN eq.symbols |->
        V0!EvalSeeded(JacobianRow(eq, k)[i], Read(eq.symbols, x))]]
JacobianReverseMode(eq, x) ==
  [k \in DOMAIN eq.expressions |->
     Laid(eq.symbols, V0!ReverseSweep(eq.expressions[k], Read(eq.symbols, x)).grads,
          Len(eq.symbols))]

(* gradient(): symbolic, and reverse_mode_gradient, which reads the point and *)
(* files the partials by the symbols the canonical tree has left.             *)
GradientSymbolic(eq, x) == JacobianSymbolic(eq, x)[1]
ReverseModeGradient(t, x) ==
  Laid(Symbols(t), V0!ReverseSweep(t, Read(Symbols(t), x)).grads, Len(x))
GradientReverse(eq, x) == ReverseModeGradient(eq.expressions[1], x)

(* tangent_dispatch: a unit tangent on the symbol seeded. *)
Unit(on) == S(IF on THEN 1 ELSE 0)
Tangent(t, x, seed) ==
  V1!EvalSeeded(t, [s \in Labels(t) |-> [v |-> x[IndexIn(Symbols(t), s)], d |-> Unit(s = seed)]])

-----------------------------------------------------------------------------
(* color_sweeps: the seeds of a colour on, a sweep, and the seeds off again.  *)
Toggle(symbols, color, c, seeds, value) ==
  [s \in DOMAIN seeds |->
     IF color[IndexIn(symbols, s)] = c THEN [seeds[s] EXCEPT !.d = value] ELSE seeds[s]]

Width(t) == Len(Symbols(t))
ColorsOf(t) == ColorColumns(HessianPattern(t), Width(t))
Bend(symbols, sweep, i) == sweep.grads[symbols[i]].d

ColorSweeps(t, x) ==
  LET symbols == Symbols(t)
      color == ColorsOf(t)
      count == Max({0} \cup {color[j] : j \in DOMAIN color})
      on(c, seeds) == Toggle(symbols, color, c, seeds, S(1))
      off(c, seeds) == Toggle(symbols, color, c, seeds, S(0))
      after[c \in 0..count] ==
        IF c = 0 THEN [s \in Labels(t) |-> E1!Of(x[IndexIn(symbols, s)])]
        ELSE off(c, on(c, after[c - 1]))
  IN  [c \in 1..count |-> V1!ReverseSweep(t, on(c, after[c - 1]))]

-----------------------------------------------------------------------------
(* md/layouts.hpp: a derivative of order K over n symbols is stored once for  *)
(* every multiset of indices, at the colex rank of the sorted index.          *)
Product2(f) == FoldFunction(LAMBDA a, b : a * b, 1, f)
BinomialFixed(k, n) ==
  IF n < k THEN 0
  ELSE Product2([i \in 0..(k - 1) |-> n - i]) \div Product2([i \in 0..(k - 1) |-> i + 1])
BlockSize(n, order) == BinomialFixed(order, n + order - 1)
Cell(idx) ==      \* of a block; idx counts from 1
  LET a == SortSeq(idx, <)
  IN  1 + FoldFunction(+, 0, [t \in DOMAIN a |-> BinomialFixed(t, a[t] - 1 + t - 1)])

(* What a driver does with the sweeps of all colours.  reverse_mode_hessian: *)
(* into packed cells, in the order the sweeps write them.                     *)
ReverseModeHessian(t, sweeps) ==
  LET rows == HessianPattern(t)
      color == ColorsOf(t)
      writes ==
        FlattenSeq([c \in DOMAIN sweeps |->
          SelectSeq([i \in 1..Width(t) |-> <<c, i, ScatterTarget(rows, color, c, i)>>],
                    LAMBDA w : w[3] # NoColumn)])
  IN  FoldLeft(LAMBDA h, w : [h EXCEPT ![Cell(<<w[2], w[3]>>)] = Bend(Symbols(t), sweeps[w[1]], w[2])],
               [k \in 1..BlockSize(Width(t), 2) |-> S(0)], writes)

(* hessian_expr_reverse: the dense matrix, each mirrored pair averaged.       *)
HessianExprReverse(t, sweeps) ==
  LET rows == HessianPattern(t)
      color == ColorsOf(t)
      entry == [i, j \in 1..Width(t) |->
                  IF ScatterTarget(rows, color, color[j], i) = j THEN Bend(Symbols(t), sweeps[color[j]], i)
                  ELSE S(0)]
  IN  [value |-> sweeps[1].root.v,
       gradient |-> [i \in 1..Width(t) |-> sweeps[1].grads[Symbols(t)[i]].v],
       hessian |-> [i, j \in 1..Width(t) |->
                      IF i = j THEN entry[i, i] ELSE SDiv(SAdd(entry[i, j], entry[j, i]), S(2))]]

(* hessian_values_sparse: straight into compressed storage, the sink at 0.    *)
HessianValuesSparse(t, sweeps) ==
  LET rows == HessianPattern(t)
      color == ColorsOf(t)
      slot == [c \in DOMAIN sweeps, i \in 1..Width(t) |-> SparseSlot(rows, Width(t), color, c, i)]
      written(k) == {w \in DOMAIN slot : slot[w] = k}
  IN  [k \in 1..Sink(rows) |->
         IF written(k) = {} THEN S(0)
         ELSE LET w == CHOOSE w \in written(k) : TRUE IN Bend(Symbols(t), sweeps[w[1]], w[2])]
SparseHessianAt(t, values, i, j) == values[SlotTable(HessianPattern(t), Width(t), i, j)]

(* hessian_forward_over_reverse: one sweep a column and output, the seed put  *)
(* back by its scope.                                                         *)
Seeded(symbols, x, j) ==
  [s \in {symbols[i] : i \in DOMAIN symbols} |->
     [v |-> x[IndexIn(symbols, s)], d |-> Unit(s = symbols[j])]]
Columns2(t, symbols, x) ==
  [j \in DOMAIN symbols |-> V1!ReverseSweep(t, Seeded(symbols, x, j)).grads]
Packed(symbols, columns) ==
  LET n == Len(symbols)
      writes == FlattenSeq([j \in 1..n |-> [i \in 1..n |-> <<i, j>>]])
  IN  FoldLeft(LAMBDA h, w : [h EXCEPT ![Cell(w)] = columns[w[2]][symbols[w[1]]].d],
               [c \in 1..BlockSize(n, 2) |-> S(0)], writes)
HessianForwardOverReverse(eq, x) ==
  [k \in DOMAIN eq.expressions |->
     Packed(eq.symbols, Columns2(eq.expressions[k], eq.symbols, x))]

-----------------------------------------------------------------------------
(* Nested duals: the tangent of level k is on for the k-th index.             *)
EmbedConstant(depth, s) ==
  CASE depth = 0 -> s [] depth = 1 -> E1!Of(s) [] depth = 2 -> E2!Of(s)
RECURSIVE MakeMixedSeed(_, _, _, _)
MakeMixedSeed(depth, value, idx, k) ==
  IF depth = 0 THEN value
  ELSE [v |-> MakeMixedSeed(depth - 1, value, Tail(idx), k),
        d |-> EmbedConstant(depth - 1, Unit(k = idx[1]))]
RECURSIVE ExtractNth(_, _)
ExtractNth(n, y) == IF n = 0 THEN y ELSE ExtractNth(n - 1, y.d)

(* simplex_index_table: raise the last that can be, the rest down onto it.    *)
Raised(idx, n) ==
  LET p == Max({p \in DOMAIN idx : idx[p] < n})
  IN  [q \in DOMAIN idx |-> IF q < p THEN idx[q] ELSE idx[p] + 1]
SimplexIndexTable(n, order) ==
  LET table[k \in 1..BlockSize(n, order)] ==
        IF k = 1 THEN [q \in 1..order |-> 1] ELSE Raised(table[k - 1], n)
  IN  [k \in DOMAIN table |-> table[k]]

EvalNested(order, t, at) ==
  CASE order = 1 -> V1!EvalSeeded(t, at)
    [] order = 2 -> V2!EvalSeeded(t, at)
    [] order = 3 -> V3!EvalSeeded(t, at)
MixedSeeds(order, symbols, x, idx) ==
  [s \in {symbols[i] : i \in DOMAIN symbols} |->
     MakeMixedSeed(order, x[IndexIn(symbols, s)], idx, IndexIn(symbols, s))]

(* derivative_tensor_impl, and equation_derivative_tensor_impl of a stack. *)
TensorOf(order, t, symbols, x) ==
  LET table == SimplexIndexTable(Len(x), order)
  IN  FoldLeft(LAMBDA r, idx : [r EXCEPT ![Cell(idx)] =
                   ExtractNth(order, EvalNested(order, t, MixedSeeds(order, symbols, x, idx)))],
               [c \in 1..BlockSize(Len(x), order) |-> S(0)],
               [k \in 1..BlockSize(Len(x), order) |-> table[k]])
DerivativeTensor(order, eq, x) ==
  IF Len(eq.expressions) = 1
  THEN <<TensorOf(order, eq.expressions[1], Symbols(eq.expressions[1]), x)>>
  ELSE [k \in DOMAIN eq.expressions |-> TensorOf(order, eq.expressions[k], eq.symbols, x)]

(* univariate_derivative: a Taylor sweep, and the factorial put back.         *)
Factorial(n) == Product2([i \in 1..n |-> i])
UnivariateSeed(x) == [k \in 0..MaxOrder |-> IF k = 0 THEN x ELSE Unit(k = 1)]
UnivariateDerivative(order, eq, x) ==
  SMul(VT!EvalSeeded(eq.expressions[1], Read(eq.symbols, <<UnivariateSeed(x)>>))[order],
       S(Factorial(order)))

=============================================================================
