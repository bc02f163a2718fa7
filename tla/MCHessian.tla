------------------------------ MODULE MCHessian -----------------------------
(***************************************************************************)
(* The compressed Hessian over GF(5) with an absorbing NaN: derivatives    *)
(* are formal there, so a wrong one shows as a wrong number.               *)
(***************************************************************************)
EXTENDS HessianSweep

P == 5
MCEq(v, w) == v = w /\ v # NaN
Inverse5(r) == CHOOSE w \in 1..4 : (r * w) % P = 1
Add5(l, r) == IF NaN \in {l, r} THEN NaN ELSE (l + r) % P
Mul5(l, r) == IF NaN \in {l, r} THEN NaN ELSE (l * r) % P
Neg5(u) == Mul5(4, u)
Div5(l, r) == IF NaN \in {l, r} \/ r = 0 THEN NaN ELSE (l * Inverse5(r)) % P
Exp5(u) == IF u = NaN THEN NaN ELSE (u * u + u + 1) % P

FieldApply1(op, u) == CASE op = "Neg" -> Neg5(u) [] op = "Exp" -> Exp5(u)
FieldApply2(op, l, r) ==
  CASE op = "Add" -> Add5(l, r) [] op = "Mul" -> Mul5(l, r) [] op = "Div" -> Div5(l, r)

-----------------------------------------------------------------------------
(* Every arena two calls on x, y and z can form, and those a third call that *)
(* joins their results to another node makes of them.                        *)
Leaves == Variable(Variable(Variable(EmptyArena, "x").arena, "y").arena, "z").arena
ArenasAfter(B) ==
  {Make(B, op, a, NoNode).arena : op \in UnaryOps, a \in Ids(B)}
  \cup {Make(B, op, a, b).arena : op \in BinaryOps, a \in Ids(B), b \in Ids(B)}
TwoCalls == {B \in UNION {ArenasAfter(B) : B \in ArenasAfter(Leaves)} : Len(B.nodes) = 5}
JoinedOnTop(B) == {Make(B, op, 4, 5).arena : op \in {"Add", "Div"}}
MCModels == TwoCalls \cup UNION {JoinedOnTop(B) : B \in TwoCalls}
MCPoints == {<<2, 3, 1>>, <<4, 1, 3>>}

-----------------------------------------------------------------------------
(* The derivatives of the operations, by calculus. *)
FieldSlope(op, u) == CASE op = "Neg" -> IF u = NaN THEN NaN ELSE 4 [] op = "Exp" -> Exp5(u)
FieldBend(op, u) == CASE op = "Neg" -> IF u = NaN THEN NaN ELSE 0 [] op = "Exp" -> Exp5(u)
Where(l, r, v) == IF NaN \in {l, r} THEN NaN ELSE v
Cube5(r) == Mul5(r, Mul5(r, r))
FieldSlopeLeft(op, l, r) ==
  Where(l, r, CASE op = "Add" -> 1 [] op = "Mul" -> r [] op = "Div" -> Div5(1, r))
FieldSlopeRight(op, l, r) ==
  Where(l, r, CASE op = "Add" -> 1 [] op = "Mul" -> l [] op = "Div" -> Neg5(Div5(l, Mul5(r, r))))
FieldBendLeft(op, l, r) == Where(l, r, 0)
FieldBendMixed(op, l, r) ==
  Where(l, r, CASE op = "Add" -> 0 [] op = "Mul" -> 1 [] op = "Div" -> Neg5(Div5(1, Mul5(r, r))))
FieldBendRight(op, l, r) ==
  Where(l, r, IF op = "Div" THEN Div5(Mul5(2, l), Cube5(r)) ELSE 0)

ASSUME LawsAssumption == CalculusLaws(Smooth) /\ CalculusLaws(Duals)
=============================================================================
