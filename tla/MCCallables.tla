----------------------------- MODULE MCCallables -----------------------------
(* Callables to differentiate, over any kind of dual: unary functions by    *)
(* name, graphs of one and two symbols, and a lambda of three numbers.      *)
EXTENDS Dual

Callable(f, x) ==
  CASE f = "cube" -> Pow(x[1], 3)
    [] f = "reciprocal" -> DivInto(2, SubFrom(1, x[1]))
    [] f = "lambda" -> Div(Mul(x[1], x[2]), x[3])
    [] f = "wave" -> Fn("sin", Mul(x[1], x[2]))
    [] f = "hypot" -> Hypot(x[1], x[2])
    [] f = "atan2" -> Atan2(x[1], x[2])
    [] f = "larger" -> Mul(Max(x[1], x[2]), AddS(x[1], 3))
    [] f = "smaller" -> Mul(Min(x[1], x[2]), MulS(x[1], 3))
    [] OTHER -> Fn(f, x[1])
=============================================================================
