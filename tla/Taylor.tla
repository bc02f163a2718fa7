------------------------------- MODULE Taylor -------------------------------
(***************************************************************************)
(* TaylorDual<S, N> (dual/taylor_dual.hpp): the coefficients f^(k)/k! of a *)
(* function of one variable, each function by the recurrence its           *)
(* differential equation gives.  A series is a function of 0..N.           *)
(***************************************************************************)
EXTENDS Integers, Functions

CONSTANTS
  N,
  SAdd(_, _), SSub(_, _), SMul(_, _), SDiv(_, _), SNeg(_),
  SFn(_, _), SPower(_, _), SHypot(_, _), SAtan2(_, _),
  SLess(_, _), SEq(_, _), S(_), STwoInvSqrtPi, SLog10e

LOCAL Sigma(term) == FoldFunction(LAMBDA x, y : SAdd(x, y), S(0), term)
LOCAL Series(w) == [k \in 0..N |-> w[k]]
LOCAL InvK(k) == SDiv(S(1), S(k))
LOCAL ByK(x, k) == SMul(x, InvK(k))

Const(s) == [k \in 0..N |-> IF k = 0 THEN s ELSE S(0)]
Val(u) == u[0]
Unit == Const(S(1))
With0(u, s) == [u EXCEPT ![0] = s]
Scaled(u, s) == [k \in 0..N |-> SMul(u[k], s)]

Add(u, v) == [k \in 0..N |-> SAdd(u[k], v[k])]
Sub(u, v) == [k \in 0..N |-> SSub(u[k], v[k])]
Neg(u) == [k \in 0..N |-> SNeg(u[k])]
Mul(u, v) == [k \in 0..N |-> Sigma([j \in 0..k |-> SMul(u[j], v[k - j])])]
Div(u, v) ==
  LET r[k \in 0..N] ==
        SDiv(SSub(u[k], Sigma([j \in 0..(k - 1) |-> SMul(r[j], v[k - j])])), v[0])
  IN  Series(r)

(* dconv: a coefficient of a.b', from a[j0] on. *)
Dconv(a, b, k, j0) == Sigma([j \in j0..(k - 1) |-> SMul(SMul(a[j], S(k - j)), b[k - j])])

(* g w' = u' for w, given w[0]. *)
ImplicitRecurrence(u, w0, g) ==
  LET w[k \in 0..N] ==
        IF k = 0 THEN w0
        ELSE SDiv(ByK(SSub(SMul(S(k), u[k]), Dconv(g, w, k, 1)), k), g[0])
  IN  Series(w)

Exp(u) ==
  LET w[k \in 0..N] == IF k = 0 THEN SFn("exp", u[0]) ELSE ByK(Dconv(w, u, k, 0), k)
  IN  Series(w)
Log(u) ==
  LET w[k \in 0..N] ==
        IF k = 0 THEN SFn("log", u[0])
        ELSE SDiv(SSub(u[k], ByK(Dconv(u, w, k, 1), k)), u[0])
  IN  Series(w)

(* coupled_pair: s' = c u' and c' = (bend) s u', as a series of pairs. *)
CoupledPair(u, s0, c0, bend) ==
  LET w[k \in 0..N] ==
        IF k = 0 THEN <<s0, c0>>
        ELSE <<ByK(Sigma([j \in 1..k |-> SMul(SMul(S(j), u[j]), w[k - j][2])]), k),
               SMul(bend, ByK(Sigma([j \in 1..k |-> SMul(SMul(S(j), u[j]), w[k - j][1])]), k))>>
  IN  Series(w)
Part(pairs, i) == [k \in 0..N |-> pairs[k][i]]
Circular(u) == CoupledPair(u, SFn("sin", u[0]), SFn("cos", u[0]), S(-1))
Hyperbolic(u) == CoupledPair(u, SFn("sinh", u[0]), SFn("cosh", u[0]), S(1))

Sqrt(u) ==
  LET w[k \in 0..N] ==
        IF k = 0 THEN SFn("sqrt", u[0])
        ELSE SDiv(SSub(u[k], Sigma([j \in 1..(k - 1) |-> SMul(w[j], w[k - j])])),
                  SMul(S(2), w[0]))
  IN  Series(w)

(* 0 at 0, and a NaN poisons every coefficient. *)
Abs(u) ==
  IF SEq(u[0], S(0)) THEN Const(S(0))
  ELSE IF SLess(S(0), u[0]) THEN u
  ELSE IF SLess(u[0], S(0)) THEN Neg(u) ELSE Mul(u, Const(S(0)))

(* tanh: w' = (1 - w^2) u', w^2 extended as each coefficient lands. *)
Tanh(u) ==
  LET w[k \in 0..N] ==
        IF k = 0 THEN SFn("tanh", u[0])
        ELSE LET sq == [j \in 0..(k - 1) |-> Sigma([i \in 0..j |-> SMul(w[i], w[j - i])])]
             IN  ByK(SSub(SMul(S(k), u[k]), Dconv(sq, u, k, 0)), k)
  IN  Series(w)

Asin(u) == ImplicitRecurrence(u, SFn("asin", u[0]), Sqrt(Mul(Sub(Unit, u), Add(Unit, u))))
Acos(u) == With0(Neg(Asin(u)), SFn("acos", u[0]))
Erf(u) ==
  LET g == Exp(Neg(Mul(u, u)))
  IN  [k \in 0..N |-> IF k = 0 THEN SFn("erf", u[0])
                      ELSE ByK(SMul(STwoInvSqrtPi, Dconv(g, u, k, 0)), k)]

(* w = u^p by u w' = p u' w. *)
Powser(u, p, w0) ==
  LET w[n \in 0..N] ==
        IF n = 0 THEN w0
        ELSE SDiv(ByK(SSub(SMul(p, Dconv(w, u, n, 0)), Dconv(u, w, n, 1)), n), u[0])
  IN  Series(w)

Fn(op, u) ==
  CASE op = "exp" -> Exp(u)
    [] op = "log" -> Log(u)
    [] op = "sin" -> Part(Circular(u), 1)
    [] op = "cos" -> Part(Circular(u), 2)
    [] op = "tan" -> Div(Part(Circular(u), 1), Part(Circular(u), 2))
    [] op = "sinh" -> Part(Hyperbolic(u), 1)
    [] op = "cosh" -> Part(Hyperbolic(u), 2)
    [] op = "sqrt" -> Sqrt(u)
    [] op = "abs" -> Abs(u)
    [] op = "tanh" -> Tanh(u)
    [] op = "asin" -> Asin(u)
    [] op = "acos" -> Acos(u)
    [] op = "atan" -> ImplicitRecurrence(u, SFn("atan", u[0]), Add(Mul(u, u), Unit))
    [] op = "cbrt" -> Powser(u, SDiv(S(1), S(3)), SFn("cbrt", u[0]))
    [] op = "log10" -> Scaled(Log(u), SLog10e)
    [] op = "asinh" -> ImplicitRecurrence(u, SFn("asinh", u[0]), Sqrt(Add(Unit, Mul(u, u))))
    [] op = "acosh" ->
         ImplicitRecurrence(u, SFn("acosh", u[0]), Sqrt(Mul(Sub(u, Unit), Add(u, Unit))))
    [] op = "atanh" -> ImplicitRecurrence(u, SFn("atanh", u[0]), Mul(Sub(Unit, u), Add(Unit, u)))
    [] op = "erf" -> Erf(u)

-----------------------------------------------------------------------------
(* pow.  Of a constant exponent p: where u[0] is 0, powser divides by it, and *)
(* a whole p >= 0 is the truncated product, past order N nothing at all.      *)
IsConst(v) == \A k \in 1..N : SEq(v[k], S(0))
Whole(p) == {n \in 0..5 : SEq(p, S(n))}          \* exponents past 5 are out of reach
RECURSIVE Repeated(_, _)
Repeated(u, n) == IF n = 0 THEN Unit ELSE Mul(Repeated(u, n - 1), u)
Truncated(u, n) == IF n > N THEN Const(S(0)) ELSE Repeated(u, n)
(* Mutant: by the recurrence, whatever u[0] is. *)
X_Power(u, v) ==
  IF IsConst(v) THEN Powser(u, v[0], SPower(u[0], v[0])) ELSE Exp(Mul(v, Log(u)))
Power(u, v) ==
  IF ~IsConst(v) THEN Exp(Mul(v, Log(u)))
  ELSE IF SEq(u[0], S(0)) /\ Whole(v[0]) # {}
  THEN Truncated(u, CHOOSE n \in Whole(v[0]) : TRUE)
  ELSE Powser(u, v[0], SPower(u[0], v[0]))

(* (x^2 + y^2) w' = x y' - y x', and h h' = x x' + y y'. *)
Atan2(y, x) ==
  LET n == [k \in 0..N |-> IF k = 0 THEN S(0)
                           ELSE ByK(SSub(Dconv(x, y, k, 0), Dconv(y, x, k, 0)), k)]
  IN  ImplicitRecurrence(n, SAtan2(y[0], x[0]), Add(Mul(x, x), Mul(y, y)))
Hypot(x, y) ==
  LET w[k \in 0..N] ==
        IF k = 0 THEN SHypot(x[0], y[0])
        ELSE SDiv(ByK(SSub(SAdd(Dconv(x, x, k, 0), Dconv(y, y, k, 0)), Dconv(w, w, k, 1)), k),
                  w[0])
  IN  Series(w)

=============================================================================
