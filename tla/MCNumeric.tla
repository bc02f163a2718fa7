------------------------------ MODULE MCNumeric ------------------------------
(***************************************************************************)
(* The numeric drivers over the integers modulo 11.                        *)
(***************************************************************************)
EXTENDS NumericDriver, Field11

-----------------------------------------------------------------------------
(* dual and dual2nd. *)
D1 == INSTANCE MCCallables WITH
  TAdd <- FAdd, TSub <- FSub, TMul <- FMul, TDiv <- FDiv, TNeg <- FNeg,
  TAddS <- FAdd, TMulS <- FMul, TSSub <- FSub, TSDiv <- FDiv, TFn <- FFn,
  THypot <- FHypot, TAtan2 <- FAtan2, TPow <- FPow, TPower <- FPower, TAllZero <- FIsZero, TVal <- Itself, TOf <- Itself,
  S <- Residue, Eq <- FEq, Less <- FLess, Ln10 <- Ln10, TwoInvSqrtPi <- TwoInvSqrtPi

D2 == INSTANCE MCCallables WITH
  TAdd <- D1!Add, TSub <- D1!Sub, TMul <- D1!Mul, TDiv <- D1!Div, TNeg <- D1!Neg,
  TAddS <- D1!AddS, TMulS <- D1!MulS, TSSub <- D1!SubFrom, TSDiv <- D1!DivInto, TFn <- D1!Fn,
  THypot <- D1!Hypot, TAtan2 <- D1!Atan2, TPow <- D1!Pow, TPower <- D1!Power, TAllZero <- D1!AllZero, TVal <- D1!Val, TOf <- D1!Of,
  S <- Residue, Eq <- FEq, Less <- FLess, Ln10 <- Ln10, TwoInvSqrtPi <- TwoInvSqrtPi

(* The callables: unary functions by name, and graphs and a lambda of        *)
(* several variables.  Only "lambda" advertises no arity.                    *)
Unary == {Named[n] : n \in 1..Len(Named)} \cup {"sqrt", "cbrt", "abs"}
MCArity(f) ==
  CASE f = "lambda" -> 0
    [] f \in Unary \cup {"cube", "reciprocal"} -> 1
    [] OTHER -> 2

MCEnergy(order, f, x) == IF order = 1 THEN D1!Callable(f, x) ELSE D2!Callable(f, x)

-----------------------------------------------------------------------------
(* What analysis says of a callable, in closed form.                         *)
Value1(f, u) ==
  CASE f = "cube" -> Cubed(u)
    [] f = "reciprocal" -> FDiv(2, FSub(1, u))
    [] OTHER -> FFn(f, u)

Slope1(f, u) ==
  CASE f = "cube" -> Multiple(3, Squared(u))
    [] f = "reciprocal" -> FDiv(2, Squared(FSub(1, u)))
    [] OTHER -> First1(f, u)

Bend1(f, u) ==
  CASE f = "cube" -> Multiple(6, u)
    [] f = "reciprocal" -> FDiv(4, Cubed(FSub(1, u)))
    [] OTHER -> Second1(f, u)

MCValue(f, x) ==
  CASE f = "lambda" -> FDiv(FMul(x[1], x[2]), x[3])
    [] f = "wave" -> FFn("sin", FMul(x[1], x[2]))
    [] f = "hypot" -> FHypot(x[1], x[2])
    [] f = "atan2" -> FAtan2(x[1], x[2])
    [] f = "larger" -> FMul(IF FLess(x[1], x[2]) THEN x[2] ELSE x[1], FAdd(x[1], 3))
    [] f = "smaller" -> FMul(IF FLess(x[1], x[2]) THEN x[1] ELSE x[2], Multiple(3, x[1]))
    [] OTHER -> Value1(f, x[1])

(* The gradient, and the upper triangle of the Hessian row by row.           *)
Gradient(f, x) ==
  CASE f = "lambda" ->
         <<FDiv(x[2], x[3]), FDiv(x[1], x[3]), FNeg(FDiv(FMul(x[1], x[2]), Squared(x[3])))>>
    [] f = "wave" ->
         <<FMul(x[2], FFn("cos", FMul(x[1], x[2]))), FMul(x[1], FFn("cos", FMul(x[1], x[2])))>>
    [] f = "hypot" -> <<FDiv(x[1], FHypot(x[1], x[2])), FDiv(x[2], FHypot(x[1], x[2]))>>
    [] f = "atan2" ->
         <<FDiv(x[2], Squared(FHypot(x[1], x[2]))), FNeg(FDiv(x[1], Squared(FHypot(x[1], x[2]))))>>
    [] f = "larger" /\ x[1] = x[2] ->
         <<FAdd(x[1], Half(FAdd(x[1], 3))), Half(FAdd(x[1], 3))>>
    [] f = "larger" /\ FLess(x[2], x[1]) -> <<FAdd(Multiple(2, x[1]), 3), 0>>
    [] f = "larger" /\ FLess(x[1], x[2]) -> <<x[2], FAdd(x[1], 3)>>
    [] f = "smaller" /\ x[1] = x[2] ->
         <<FAdd(Half(Multiple(3, x[1])), Multiple(3, x[1])), Half(Multiple(3, x[1]))>>
    [] f = "smaller" /\ FLess(x[1], x[2]) -> <<Multiple(6, x[1]), 0>>
    [] f = "smaller" /\ FLess(x[2], x[1]) -> <<Multiple(3, x[2]), Multiple(3, x[1])>>
    [] OTHER -> <<Slope1(f, x[1])>>

Hessian(f, x) ==
  CASE f = "lambda" ->
         <<0, FInv(x[3]), FNeg(FDiv(x[2], Squared(x[3]))),
           0, FNeg(FDiv(x[1], Squared(x[3]))),
           FDiv(Multiple(2, FMul(x[1], x[2])), Cubed(x[3]))>>
    [] f = "wave" ->
         <<FNeg(FMul(Squared(x[2]), MCValue(f, x))),
           FSub(FFn("cos", FMul(x[1], x[2])), FMul(FMul(x[1], x[2]), MCValue(f, x))),
           FNeg(FMul(Squared(x[1]), MCValue(f, x)))>>
    [] f = "hypot" ->
         <<FDiv(Squared(x[2]), Cubed(FHypot(x[1], x[2]))),
           FNeg(FDiv(FMul(x[1], x[2]), Cubed(FHypot(x[1], x[2])))),
           FDiv(Squared(x[1]), Cubed(FHypot(x[1], x[2])))>>
    [] f = "atan2" ->
         <<FDiv(Multiple(-2, FMul(x[1], x[2])), Squared(Squared(FHypot(x[1], x[2])))),
           FDiv(FSub(Squared(x[1]), Squared(x[2])), Squared(Squared(FHypot(x[1], x[2])))),
           FDiv(Multiple(2, FMul(x[1], x[2])), Squared(Squared(FHypot(x[1], x[2]))))>>
    [] f = "larger" /\ x[1] = x[2] -> <<1, Half(1), 0>>
    [] f = "larger" /\ FLess(x[2], x[1]) -> <<2, 0, 0>>
    [] f = "larger" /\ FLess(x[1], x[2]) -> <<0, 1, 0>>
    [] f = "smaller" /\ x[1] = x[2] -> <<3, Half(3), 0>>
    [] f = "smaller" /\ FLess(x[1], x[2]) -> <<6, 0, 0>>
    [] f = "smaller" /\ FLess(x[2], x[1]) -> <<0, 3, 0>>
    [] OTHER -> <<Bend1(f, x[1])>>

Reads(f) == IF f = "lambda" THEN 3 ELSE Arity(f)
Packed(n, a, b) == (a - 1) * n - ((a - 1) * (a - 2)) \div 2 + (b - a) + 1
MCSlope(f, x, a) == IF a <= Reads(f) THEN Gradient(f, x)[a] ELSE 0
MCBend(f, x, a, b) ==
  IF a > Reads(f) \/ b > Reads(f) THEN 0
  ELSE Hessian(f, x)[IF a <= b THEN Packed(Reads(f), a, b) ELSE Packed(Reads(f), b, a)]

-----------------------------------------------------------------------------
(* The calls.  An unchecked one is only made where its caller may: enough    *)
(* numbers for the callable, and indices of the point.                       *)
Call(order, f, x, every, active, room, reuse) ==
  [order |-> order, f |-> f, x |-> x, every |-> every, active |-> active,
   room |-> room, reuse |-> reuse]

Univariate ==
  {Call(order, f, <<u>>, TRUE, <<>>, 1, FALSE) :
     order \in {1, 2}, f \in Unary \cup {"cube", "reciprocal"}, u \in 0..(P - 1)}

Pairs == {<<3, 4>>, <<1, 2>>, <<0, 2>>, <<4, 0>>, <<2, 2>>, <<10, 3>>}
Bivariate ==
  {Call(2, f, x, TRUE, <<>>, 2, FALSE) :
     f \in {"wave", "hypot", "atan2", "larger", "smaller"}, x \in Pairs}

(* A graph of two symbols: checked, on points too short, right and too long  *)
(* and with stray indices; and in the writing form, where none are.          *)
Inside == {<<>>, <<2>>, <<2, 1>>, <<1, 1>>, <<1, 2>>}
Enough == {<<3, 4>>, <<5, 1, 2>>, <<2, 6, 1, 7>>}
Points == Enough \cup {<<3>>}
Graphs ==
  {Call(2, "wave", x, TRUE, <<>>, 2, FALSE) : x \in Points} \cup
  {Call(2, "wave", x, FALSE, active, 2, FALSE) : x \in Points, active \in Inside \cup {<<1, 3>>}} \cup
  {Call(2, "wave", x, FALSE, active, 2, TRUE) : x \in Enough, active \in Inside}

(* A lambda of three numbers, on the heap where the inline block is shorter; *)
(* a gradient's span may be shorter or longer than the indices.              *)
Indices == {<<3, 1>>, <<2, 2>>, <<1, 2, 3>>}
Lambdas ==
  {Call(2, "lambda", <<2, 3, 4>>, FALSE, active, 0, reuse) : active \in Indices, reuse \in BOOLEAN} \cup
  {Call(1, "lambda", <<2, 3, 4>>, FALSE, active, room, TRUE) : active \in Indices, room \in 1..3} \cup
  {Call(1, "lambda", <<2, 3, 4>>, FALSE, active, Len(active), FALSE) : active \in Indices}
Lines ==
  {Call(1, "wave", <<3, 4>>, FALSE, active, 2, TRUE) : active \in {<<>>, <<2, 1>>, <<1, 1>>}}

MCScalars == 0..P
MCCalls == Univariate \cup Bivariate \cup Graphs \cup Lambdas \cup Lines

-----------------------------------------------------------------------------
(* dual.hpp: on each of these callables the duals carry those derivatives,   *)
(* also where an earlier, longer point has left numbers behind this one.     *)
MCTails == [order \in {1, 2} |-> {<<>>, <<Lifted(order, 7)>>}]
ASSUME DualsAssumption == DifferentiatesOver(MCTails)

=============================================================================
