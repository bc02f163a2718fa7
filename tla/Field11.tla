------------------------------- MODULE Field11 -------------------------------
(***************************************************************************)
(* The integers modulo 11, with a NaN for what has no value, in the place  *)
(* of the scalars: derivatives are formal there, so a wrong one shows as a *)
(* wrong number.  A non-zero square a has the root a^3, itself a square,   *)
(* and every a has the cube root a^7.                                      *)
(***************************************************************************)
EXTENDS Integers, Sequences

P == 11
NaN == P
Residue(n) == n % P
FAdd(a, b) == IF NaN \in {a, b} THEN NaN ELSE (a + b) % P
FNeg(a) == IF a = NaN THEN NaN ELSE (P - a) % P
FSub(a, b) == FAdd(a, FNeg(b))
FMul(a, b) == IF NaN \in {a, b} THEN NaN ELSE (a * b) % P
FInv(a) == IF a \in {0, NaN} THEN NaN ELSE (a ^ 9) % P
FDiv(a, b) == FMul(a, FInv(b))
FPow(a, n) ==
  CASE n = 0 -> 1
    [] a = NaN -> NaN
    [] n > 0 -> (a ^ n) % P
    [] OTHER -> FInv((a ^ (0 - n)) % P)
(* a^b for b a residue; one whose neighbours wrap round has no value.        *)
FPower(a, b) ==
  IF NaN \in {a, b} THEN NaN
  ELSE IF b \in 0..5 THEN FPow(a, b) ELSE IF b \in {8, 9, 10} THEN FPow(a, b - P) ELSE NaN
FSqrt(a) == IF a \in {0, 1, 3, 4, 5, 9} THEN (a ^ 3) % P ELSE NaN

(* The order of the representatives from -5 to 5. *)
Signed(a) == IF a > 5 THEN a - P ELSE a
FLess(a, b) == NaN \notin {a, b} /\ Signed(a) < Signed(b)
FEq(a, b) == a # NaN /\ a = b
FIsZero(a) == a = 0

(* The functions of <cmath>.  sin, cos and tan, and sinh, cosh and tanh,      *)
(* satisfy the identities the rules rest on: 1 + tan^2 and 1 - tanh^2 are      *)
(* squares wherever these are defined.  Of the others no rule uses more than   *)
(* that they have a derivative, and any function will do.                      *)
Named == <<"sin", "cos", "exp", "tan", "log", "asin", "acos", "atan", "sinh", "cosh",
           "tanh", "log10", "asinh", "acosh", "atanh", "erf">>
Rank(op) == CHOOSE n \in 1..Len(Named) : Named[n] = op
Tangents == <<0, 2, 5, 6, 9, 5, 6, 2, 9, 2, 5>>
HyperbolicTangents == <<0, 3, 5, 6, 8, 3, 8, 5, 6, 8, 3>>
Tan(a) == Tangents[a + 1]
Tanh(a) == HyperbolicTangents[a + 1]
Cos(a) == FInv(FSqrt(FAdd(1, FMul(Tan(a), Tan(a)))))
Cosh(a) == FInv(FSqrt(FSub(1, FMul(Tanh(a), Tanh(a)))))
Ln10 == 7
Log10e == FInv(Ln10)
TwoInvSqrtPi == 6
Arbitrary(op, a) == (a * a + Rank(op) * a + Rank(op) + 3) % P
FFn(op, a) ==
  CASE a = NaN -> NaN
    [] op = "sqrt" -> FSqrt(a)
    [] op = "cbrt" -> (a ^ 7) % P
    [] op = "abs" -> IF FLess(a, 0) THEN FNeg(a) ELSE a
    [] op = "tan" -> Tan(a)
    [] op = "cos" -> Cos(a)
    [] op = "sin" -> FMul(Tan(a), Cos(a))
    [] op = "tanh" -> Tanh(a)
    [] op = "cosh" -> Cosh(a)
    [] op = "sinh" -> FMul(Tanh(a), Cosh(a))
    [] op = "log" -> IF a = 0 THEN NaN ELSE Arbitrary("log", a)
    [] op = "log10" -> IF a = 0 THEN NaN ELSE FMul(Arbitrary("log", a), Log10e)
    [] OTHER -> Arbitrary(op, a)
FHypot(a, b) == FSqrt(FAdd(FMul(a, a), FMul(b, b)))
FAtan2(a, b) == IF NaN \in {a, b} THEN NaN ELSE (a + 2 * b) % P
Itself(a) == a

-----------------------------------------------------------------------------
(* What analysis says: the first and second derivatives in closed form.      *)
Multiple(n, a) == FMul(Residue(n), a)
Half(a) == FDiv(a, 2)
Squared(a) == FMul(a, a)
Cubed(a) == FMul(a, Squared(a))
Arc(u) == FSqrt(FSub(1, Squared(u)))              \* of asin and acos
ArcH(u) == FSqrt(FAdd(1, Squared(u)))             \* of asinh
ArcC(u) == FMul(FSqrt(FSub(u, 1)), FSqrt(FAdd(u, 1)))  \* of acosh
Bell(u) == FFn("exp", FNeg(Squared(u)))           \* of erf

First1(f, u) ==
  CASE f = "sin" -> FFn("cos", u)
    [] f = "cos" -> FNeg(FFn("sin", u))
    [] f = "exp" -> FFn("exp", u)
    [] f = "tan" -> FAdd(1, Squared(FFn("tan", u)))
    [] f = "log" -> FInv(u)
    [] f = "sqrt" -> FInv(Multiple(2, FSqrt(u)))
    [] f = "cbrt" -> FDiv(FFn("cbrt", u), Multiple(3, u))
    [] f = "asin" -> FInv(Arc(u))
    [] f = "acos" -> FNeg(FInv(Arc(u)))
    [] f = "atan" -> FInv(FAdd(1, Squared(u)))
    [] f = "sinh" -> FFn("cosh", u)
    [] f = "cosh" -> FFn("sinh", u)
    [] f = "tanh" -> FSub(1, Squared(FFn("tanh", u)))
    [] f = "log10" -> FInv(Multiple(Ln10, u))
    [] f = "asinh" -> FInv(ArcH(u))
    [] f = "acosh" -> FInv(ArcC(u))
    [] f = "atanh" -> FInv(FSub(1, Squared(u)))
    [] f = "erf" -> Multiple(TwoInvSqrtPi, Bell(u))
    [] f = "abs" -> IF u = 0 THEN 0 ELSE IF FLess(0, u) THEN 1 ELSE Residue(-1)

Second1(f, u) ==
  CASE f = "sin" -> FNeg(FFn("sin", u))
    [] f = "cos" -> FNeg(FFn("cos", u))
    [] f \in {"exp", "sinh", "cosh"} -> FFn(f, u)
    [] f = "tan" -> Multiple(2, FMul(FFn("tan", u), First1("tan", u)))
    [] f = "log" -> FNeg(FInv(Squared(u)))
    [] f = "sqrt" -> FNeg(FInv(Multiple(4, FMul(u, FSqrt(u)))))
    [] f = "cbrt" -> Multiple(-2, FDiv(FFn("cbrt", u), Multiple(9, Squared(u))))
    [] f = "asin" -> FDiv(u, Cubed(Arc(u)))
    [] f = "acos" -> FNeg(FDiv(u, Cubed(Arc(u))))
    [] f = "atan" -> FDiv(Multiple(-2, u), Squared(FAdd(1, Squared(u))))
    [] f = "tanh" -> Multiple(-2, FMul(FFn("tanh", u), First1("tanh", u)))
    [] f = "log10" -> FNeg(FInv(Multiple(Ln10, Squared(u))))
    [] f = "asinh" -> FNeg(FDiv(u, Cubed(ArcH(u))))
    [] f = "acosh" -> FNeg(FDiv(u, Cubed(ArcC(u))))
    [] f = "atanh" -> FDiv(Multiple(2, u), Squared(FSub(1, Squared(u))))
    [] f = "erf" -> Multiple(-2, FMul(u, First1("erf", u)))
    [] f = "abs" -> 0
=============================================================================
