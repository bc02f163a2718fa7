-------------------------------- MODULE Dual --------------------------------
(***************************************************************************)
(* Dual<T> (dual/dual.hpp) and the chain rules of expr/unary_math.hpp: a   *)
(* value and a derivative part, both of T.  T is whatever the operations   *)
(* passed in are of, so that Dual<Dual<S>> is an instance over another.    *)
(***************************************************************************)
EXTENDS Integers

CONSTANTS
  TAdd(_, _), TSub(_, _), TMul(_, _), TDiv(_, _), TNeg(_),    \* of two T
  TAddS(_, _), TMulS(_, _), TSSub(_, _), TSDiv(_, _),         \* of a T and a scalar S
  TFn(_, _),          \* a function of <cmath> by name
  THypot(_, _), TAtan2(_, _),
  TPow(_, _),         \* to an integer
  TPower(_, _),       \* to a T
  TAllZero(_),        \* zero in every component
  TVal(_),            \* val(): the scalar at the bottom
  TOf(_),             \* T(s), for a scalar s
  S(_),               \* the scalar an integer literal is
  Eq(_, _), Less(_, _),       \* == and < of scalars, both false on NaN
  Ln10, TwoInvSqrtPi  \* scalars

(* A constant embeds with a derivative part of zero. *)
Of(s) == [v |-> TOf(s), d |-> TOf(S(0))]
Val(x) == TVal(x.v)
AllZero(x) == TAllZero(x.v) /\ TAllZero(x.d)

Neg(x) == [v |-> TNeg(x.v), d |-> TNeg(x.d)]
Add(x, y) == [v |-> TAdd(x.v, y.v), d |-> TAdd(x.d, y.d)]
Sub(x, y) == [v |-> TSub(x.v, y.v), d |-> TSub(x.d, y.d)]
Mul(x, y) == [v |-> TMul(x.v, y.v), d |-> TAdd(TMul(x.d, y.v), TMul(x.v, y.d))]

(* dual_div: by the reciprocal, q = x / y. *)
Quotient(x, y, inv, q) == [v |-> q, d |-> TMul(TSub(x.d, TMul(q, y.d)), inv)]
DivBy(x, y, inv) == Quotient(x, y, inv, TMul(x.v, inv))
Div(x, y) == DivBy(x, y, TSDiv(S(1), y.v))

(* Kernels against a scalar, which has no derivative part to add. *)
AddS(x, s) == [v |-> TAddS(x.v, s), d |-> x.d]
ScaledBy(x, inv) == [v |-> TMul(x.v, inv), d |-> TMul(x.d, inv)]
DivS(x, s) == ScaledBy(x, TDiv(TOf(S(1)), TOf(s)))
MulS(x, s) == [v |-> TMulS(x.v, s), d |-> TMulS(x.d, s)]

SubFrom(s, x) == [v |-> TSSub(s, x.v), d |-> TNeg(x.d)]

Reciprocal(x, inv, q) == [v |-> q, d |-> TMul(TNeg(TMul(q, x.d)), inv)]
DivIntoBy(s, x, inv) == Reciprocal(x, inv, TMul(TOf(s), inv))
DivInto(s, x) == DivIntoBy(s, x, TSDiv(S(1), x.v))

-----------------------------------------------------------------------------
(* The registry's derivatives: from f = Fn(op, u) where they can be, else    *)
(* from u and g, the one other function of u that the rule calls.            *)
Called(op, u) ==
  CASE op = "sin" -> TFn("cos", u)
    [] op = "cos" -> TFn("sin", u)
    [] op = "sinh" -> TFn("cosh", u)
    [] op = "cosh" -> TFn("sinh", u)
    [] op = "asin" \/ op = "acos" -> TFn("sqrt", TMul(TSSub(S(1), u), TAddS(u, S(1))))
    [] op = "asinh" -> TFn("sqrt", TAddS(TMul(u, u), S(1)))
    [] op = "acosh" -> TMul(TFn("sqrt", TAddS(u, S(-1))), TFn("sqrt", TAddS(u, S(1))))
    [] op = "erf" -> TFn("exp", TNeg(TMul(u, u)))
    [] OTHER -> u

Slope(op, u, f, g) ==
  CASE op \in {"sin", "sinh", "cosh"} -> g
    [] op = "cos" -> TNeg(g)
    [] op = "exp" -> f
    [] op = "tan" -> TAddS(TMul(f, f), S(1))
    [] op = "tanh" -> TSSub(S(1), TMul(f, f))
    [] op = "log" -> TSDiv(S(1), u)
    [] op = "log10" -> TSDiv(S(1), TMulS(u, Ln10))
    [] op = "sqrt" -> TSDiv(S(1), TMulS(f, S(2)))
    [] op = "cbrt" -> TSDiv(S(1), TMul(TMulS(f, S(3)), f))
    [] op \in {"asin", "asinh", "acosh"} -> TSDiv(S(1), g)
    [] op = "acos" -> TSDiv(S(-1), g)
    [] op = "atan" -> TSDiv(S(1), TAddS(TMul(u, u), S(1)))
    [] op = "atanh" -> TSDiv(S(1), TMul(TSSub(S(1), u), TAddS(u, S(1))))
    [] op = "erf" -> TMulS(g, TwoInvSqrtPi)

(* abs_combine: sign * d, where v - v is the sign of a zero or a NaN. *)
Sign(v) ==
  IF Less(S(0), TVal(v)) THEN TOf(S(1))
  ELSE IF Less(TVal(v), S(0)) THEN TOf(S(-1)) ELSE TSub(v, v)
Abs(x) == [v |-> TFn("abs", x.v), d |-> TMul(Sign(x.v), x.d)]

(* unary_dual_combine: the chain rule. *)
Chained(op, x, f) == [v |-> f, d |-> TMul(Slope(op, x.v, f, Called(op, x.v)), x.d)]
Fn(op, x) == IF op = "abs" THEN Abs(x) ELSE Chained(op, x, TFn(op, x.v))

-----------------------------------------------------------------------------
(* pow(a, s) of a constant exponent, spent as a second power. *)
Pow(x, n) == [v |-> TPow(x.v, n), d |-> TMul(TPow(x.v, n - 1), TMulS(x.d, S(n)))]

(* pow(a, b) of two duals: no logarithm where b is constant to every order. *)
PowerOf(x, y, p) ==
  [v |-> p,
   d |-> IF TAllZero(y.d) THEN TMul(TPower(x.v, TSub(y.v, TOf(S(1)))), TMul(y.v, x.d))
         ELSE TMul(p, TAdd(TMul(y.d, TFn("log", x.v)), TDiv(TMul(y.v, x.d), x.v)))]
Power(x, y) == PowerOf(x, y, TPower(x.v, y.v))

(* max and min: one operand whole, the mean of a tie, NaN of the unordered. *)
Mean(x, y) == Add(x, DivS(Sub(y, x), S(2)))
Unordered(x, y) == Mul(Sub(x, y), Of(S(0)))
Max(x, y) ==
  CASE Eq(Val(x), Val(y)) -> Mean(x, y)
    [] Less(Val(x), Val(y)) -> y
    [] Less(Val(y), Val(x)) -> x
    [] OTHER -> Unordered(x, y)
Min(x, y) ==
  CASE Eq(Val(x), Val(y)) -> Mean(x, y)
    [] Less(Val(y), Val(x)) -> y
    [] Less(Val(x), Val(y)) -> x
    [] OTHER -> Unordered(x, y)

(* hypot and atan2, scaled by h. *)
HypotOf(x, y, h) == [v |-> h, d |-> TAdd(TMul(TDiv(x.v, h), x.d), TMul(TDiv(y.v, h), y.d))]
Hypot(x, y) == HypotOf(x, y, THypot(x.v, y.v))

Atan2Of(y, x, h) ==
  [v |-> TAtan2(y.v, x.v),
   d |-> TDiv(TSub(TMul(TDiv(x.v, h), y.d), TMul(TDiv(y.v, h), x.d)), h)]
Atan2(y, x) == Atan2Of(y, x, THypot(x.v, y.v))

=============================================================================
