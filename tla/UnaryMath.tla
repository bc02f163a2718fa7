------------------------------ MODULE UnaryMath ------------------------------
(***************************************************************************)
(* The descriptors of expr/unary_math.hpp: the derivative of each function *)
(* of one variable, written once for whatever u is, a tree or a number.    *)
(***************************************************************************)
EXTENDS Integers

CONSTANTS
  UAdd(_, _), USub(_, _), UMul(_, _), UDiv(_, _), UNeg(_),
  UFn(_, _),        \* a function of the table by name
  UNum(_)           \* a scalar among the u: T{1}, T{2}, ...

CONSTANTS UInt(_), ULn10, UTwoInvSqrtPi   \* the scalars of the rules

LOCAL Num(n) == UNum(UInt(n))

(* (1 - u)(1 + u). *)
OneMinusSquare(u) == UMul(USub(Num(1), u), UAdd(Num(1), u))

Deriv(op, u) ==
  CASE op = "sin" -> UFn("cos", u)
    [] op = "cos" -> UNeg(UFn("sin", u))
    [] op = "exp" -> UFn("exp", u)
    [] op = "tan" -> UDiv(Num(1), UMul(UFn("cos", u), UFn("cos", u)))
    [] op = "log" -> UDiv(Num(1), u)
    [] op = "sqrt" -> UDiv(Num(1), UMul(Num(2), UFn("sqrt", u)))
    [] op = "asin" -> UDiv(Num(1), UFn("sqrt", OneMinusSquare(u)))
    [] op = "acos" -> UDiv(Num(-1), UFn("sqrt", OneMinusSquare(u)))
    [] op = "atan" -> UDiv(Num(1), UAdd(Num(1), UMul(u, u)))
    [] op = "sinh" -> UFn("cosh", u)
    [] op = "cosh" -> UFn("sinh", u)
    [] op = "tanh" -> UDiv(Num(1), UMul(UFn("cosh", u), UFn("cosh", u)))
    [] op = "log10" -> UDiv(Num(1), UMul(u, UNum(ULn10)))
    [] op = "cbrt" -> UDiv(Num(1), UMul(UMul(Num(3), UFn("cbrt", u)), UFn("cbrt", u)))
    [] op = "asinh" -> UDiv(Num(1), UFn("sqrt", UAdd(UMul(u, u), Num(1))))
    [] op = "acosh" -> UDiv(Num(1), UMul(UFn("sqrt", USub(u, Num(1))), UFn("sqrt", UAdd(u, Num(1)))))
    [] op = "atanh" -> UDiv(Num(1), OneMinusSquare(u))
    [] op = "erf" -> UMul(UNum(UTwoInvSqrtPi), UFn("exp", UNeg(UMul(u, u))))
=============================================================================
