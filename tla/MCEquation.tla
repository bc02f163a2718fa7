------------------------------ MODULE MCEquation ----------------------------
(***************************************************************************)
(* Runtime equations over GF(5) with an absorbing NaN, where a derivative  *)
(* is formal and a wrong one shows as a wrong number.                      *)
(***************************************************************************)
EXTENDS Equation
LOCAL INSTANCE SequencesExt

P == 5
MCEq(v, w) == v = w /\ v # NaN
Inverse5(r) == CHOOSE w \in 1..4 : (r * w) % P = 1
Add5(l, r) == IF NaN \in {l, r} THEN NaN ELSE (l + r) % P
Mul5(l, r) == IF NaN \in {l, r} THEN NaN ELSE (l * r) % P
Neg5(u) == Mul5(4, u)
Div5(l, r) == IF NaN \in {l, r} \/ r = 0 THEN NaN ELSE (l * Inverse5(r)) % P
Sub5(l, r) == Add5(l, Neg5(r))
MCLess(l, r) == NaN \notin {l, r} /\ l < r
FieldApply1(op, u) == CASE op = "Neg" -> Neg5(u)
FieldApply2(op, l, r) ==
  CASE op = "Add" -> Add5(l, r) [] op = "Mul" -> Mul5(l, r) [] op = "Div" -> Div5(l, r)

(* The derivatives of the operations, by calculus. *)
FieldSlope(op, u) == CASE op = "Neg" -> IF u = NaN THEN NaN ELSE 4
FieldBend(op, u) == CASE op = "Neg" -> IF u = NaN THEN NaN ELSE 0
Where(l, r, v) == IF NaN \in {l, r} THEN NaN ELSE v
Cube5(r) == Mul5(r, Mul5(r, r))
FieldSlopeLeft(op, l, r) ==
  Where(l, r, CASE op = "Add" -> 1 [] op = "Mul" -> r [] op = "Div" -> Div5(1, r))
FieldSlopeRight(op, l, r) ==
  Where(l, r, CASE op = "Add" -> 1 [] op = "Mul" -> l [] op = "Div" -> Neg5(Div5(l, Mul5(r, r))))
FieldBendLeft(op, l, r) == Where(l, r, 0)
FieldBendMixed(op, l, r) ==
  Where(l, r, CASE op = "Add" -> 0 [] op = "Mul" -> 1 [] op = "Div" -> Neg5(Div5(1, Mul5(r, r))))
FieldBendRight(op, l, r) ==
  Where(l, r, IF op = "Div" THEN Div5(Mul5(2, l), Cube5(r)) ELSE 0)

ASSUME LawsAssumption == CalculusLaws(Smooth) /\ CalculusLaws(Duals)

(* Second derivatives of one variable by Taylor numbers of order 2.  Of the  *)
(* functions it has rules for, these equations are made of arithmetic only.  *)
NoFunction1(op, u) == NaN
NoFunction2(u, v) == NaN
Residue(k) == IF k < 0 THEN k + P ELSE k
Field == INSTANCE Taylor WITH
  N <- 2, SAdd <- Add5, SSub <- Sub5, SMul <- Mul5, SDiv <- Div5, SNeg <- Neg5,
  SFn <- NoFunction1, SPower <- NoFunction2, SHypot <- NoFunction2, SAtan2 <- NoFunction2,
  SLess <- MCLess, SEq <- MCEq, S <- Residue, STwoInvSqrtPi <- 1, SLog10e <- 1
MCExpansion(c0, c1) == [k \in 0..2 |-> CASE k = 0 -> c0 [] k = 1 -> c1 [] k = 2 -> 0]
MCOnSeries1(op, u) == CASE op = "Neg" -> Field!Neg(u)
MCOnSeries2(op, u, v) ==
  CASE op = "Add" -> Field!Add(u, v) [] op = "Mul" -> Field!Mul(u, v) [] op = "Div" -> Field!Div(u, v)
MCHighest(u) == Mul5(2, u[2])

-----------------------------------------------------------------------------
Handle(e) == [e |-> e, poisoned |-> FALSE]
Poison == [e |-> Lit(Zero), poisoned |-> TRUE]

X == Variable(EmptyArena, "x").arena
XY == Variable(X, "y").arena
XAndTwo == Constant(X, 2).arena
JustTwo == Constant(EmptyArena, 2).arena
Formed(B, op, a, b) == Make(B, op, a, b).arena
Products == {Formed(Formed(XY, "Mul", 1, f[1]), f[2], 3, 2) :
               f \in {<<1, "Mul">>, <<1, "Add">>, <<2, "Add">>}}
Quotients == {Formed(XY, "Div", 1, 2), Formed(XAndTwo, "Div", 2, 1)}
LastNode(B) == At(Len(B.nodes))

MCGivens ==
  {[arena |-> B, args |-> <<Handle(LastNode(B))>>] : B \in Products \cup Quotients \cup {JustTwo}}
  \cup {[arena |-> XY, args |-> <<Handle(At(2)), Handle(Lit(2))>>],
        [arena |-> Formed(XY, "Mul", 1, 2), args |-> <<Handle(At(3)), Handle(At(1))>>],
        [arena |-> XY, args |-> <<Handle(Lit(2)), Handle(At(1))>>],
        [arena |-> XY, args |-> <<Handle(At(1)), Poison>>]}

MCPositional == {<<>>, <<3>>, <<2, 3>>}
MCNamed == {<<[name |-> "y", value |-> 2], [name |-> "x", value |-> 4]>>,
            <<[name |-> "x", value |-> 1], [name |-> "x", value |-> 3]>>}
MCTables == {[width |-> 2, rows |-> <<<<2, 3>>, <<4, 1>>>>], [width |-> 1, rows |-> <<<<3>>>>],
             [width |-> 0, rows |-> <<<<>>>>]}

-----------------------------------------------------------------------------
(* The other reference is forward: numbers v + p e1 + q e2 + s e1 e2, whose  *)
(* s is the second derivative in the directions the parts are seeded in.     *)
QuadAdd(l, r) == [k \in 1..4 |-> Add5(l[k], r[k])]
QuadMul(l, r) ==
  <<Mul5(l[1], r[1]),
    Add5(Mul5(l[1], r[2]), Mul5(l[2], r[1])),
    Add5(Mul5(l[1], r[3]), Mul5(l[3], r[1])),
    Add5(Add5(Mul5(l[1], r[4]), Mul5(l[4], r[1])), Add5(Mul5(l[2], r[3]), Mul5(l[3], r[2])))>>
QuadOver(r) ==
  LET w == Div5(1, r[1])
      slope == Neg5(Mul5(w, w))
      bend == Mul5(2, Mul5(w, Mul5(w, w)))
  IN  <<w, Mul5(slope, r[2]), Mul5(slope, r[3]),
        Add5(Mul5(slope, r[4]), Mul5(bend, Mul5(r[2], r[3])))>>
QuadOf(n, quads, p, i, j) ==
  CASE n.op = "Const" -> <<n.value, 0, 0, 0>>
    [] n.op = "Var" -> <<p[n.slot], IF n.slot = i THEN 1 ELSE 0, IF n.slot = j THEN 1 ELSE 0, 0>>
    [] n.op = "Neg" -> QuadMul(<<4, 0, 0, 0>>, quads[n.a])
    [] n.op = "Add" -> QuadAdd(quads[n.a], quads[n.b])
    [] n.op = "Mul" -> QuadMul(quads[n.a], quads[n.b])
    [] n.op = "Div" -> QuadMul(quads[n.a], QuadOver(quads[n.b]))
Quad(id, p, i, j) ==
  FoldLeft(LAMBDA qs, n : Append(qs, QuadOf(n, qs, p, i, j)), <<>>, SubSeq(arena.nodes, 1, id))[id]

(* A univariate derivative is the second derivative of the only function.    *)
UnivariateCorrect ==
  answer.kind = "univariate" =>
    \A k \in DOMAIN answer.rows :
      Agrees(answer.rows[k].f[1], Quad(roots[1], answer.at[k], 1, 1)[4])
=============================================================================
