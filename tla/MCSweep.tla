------------------------------- MODULE MCSweep ------------------------------
(***************************************************************************)
(* The reverse sweep over GF(5) with an absorbing NaN: derivatives are     *)
(* formal there, so a wrong one shows as a wrong number.                   *)
(***************************************************************************)
EXTENDS Sweep

P == 5
MCEq(v, w) == v = w /\ v # NaN
Inverse5(r) == CHOOSE w \in 1..4 : (r * w) % P = 1
SignOf(u) == IF u = 0 THEN 0 ELSE IF u < 3 THEN 1 ELSE 4
Add5(l, r) == IF NaN \in {l, r} THEN NaN ELSE (l + r) % P
Mul5(l, r) == IF NaN \in {l, r} THEN NaN ELSE (l * r) % P
Neg5(u) == Mul5(4, u)
Div5(l, r) == IF NaN \in {l, r} \/ r = 0 THEN NaN ELSE (l * Inverse5(r)) % P

(* "Exp" is any function equal to its own derivative by decree. *)
FieldApply1(op, u) ==
  IF u = NaN THEN NaN
  ELSE CASE op = "Neg" -> Neg5(u)
         [] op = "Sign" -> SignOf(u)
         [] op = "Abs" -> Mul5(SignOf(u), u)
         [] op = "Exp" -> (u * u + u + 1) % P
FieldApply2(op, l, r) ==
  CASE op = "Add" -> Add5(l, r)
    [] op = "Mul" -> Mul5(l, r)
    [] op = "Div" -> Div5(l, r)
    [] op = "Max" -> IF NaN \in {l, r} THEN NaN
                     ELSE IF SignOf((l + P - r) % P) = 1 THEN l ELSE r

-----------------------------------------------------------------------------
(* Every arena two calls on x, y and the constant 2 can form. *)
Leaves == Constant(Variable(Variable(EmptyArena, "x").arena, "y").arena, 2).arena
ArenasAfter(B) ==
  {Make(B, op, a, NoNode).arena : op \in UnaryOps, a \in Ids(B)}
  \cup {Make(B, op, a, b).arena : op \in BinaryOps, a \in Ids(B), b \in Ids(B)}
MCPoints == {<<2, 3>>, <<4, 4>>}
MCModels == UNION {ArenasAfter(B) : B \in ArenasAfter(Leaves)}

-----------------------------------------------------------------------------
(* The derivatives of the operations, by calculus: 3 is a half. *)
FieldSlope(op, u) ==
  IF u = NaN THEN NaN
  ELSE CASE op = "Neg" -> 4
         [] op = "Sign" -> 0
         [] op = "Abs" -> SignOf(u)
         [] op = "Exp" -> (u * u + u + 1) % P
FieldSlopeLeft(op, l, r) ==
  IF NaN \in {l, r} THEN NaN
  ELSE CASE op = "Add" -> 1
         [] op = "Mul" -> r
         [] op = "Div" -> Div5(1, r)
         [] op = "Max" -> IF l = r THEN 3 ELSE IF FieldApply2("Max", l, r) = l THEN 1 ELSE 0
FieldSlopeRight(op, l, r) ==
  IF NaN \in {l, r} THEN NaN
  ELSE CASE op = "Add" -> 1
         [] op = "Mul" -> l
         [] op = "Div" -> Neg5(Div5(l, Mul5(r, r)))
         [] op = "Max" -> IF l = r THEN 3 ELSE IF FieldApply2("Max", l, r) = r THEN 1 ELSE 0

ASSUME LawsAssumption == CalculusLaws(Smooth)
=============================================================================
