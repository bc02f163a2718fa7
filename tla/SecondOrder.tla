----------------------------- MODULE SecondOrder ----------------------------
(***************************************************************************)
(* What a second derivative is: the tangent of a tangent.  A kind of       *)
(* numbers that carries, beside each value, its derivative in one          *)
(* direction computes the tangents of another direction, and what these    *)
(* carry is the derivative by both.                                        *)
(***************************************************************************)
EXTENDS Calculus

CONSTANTS
  Bend(_, _),          \* the second derivative of a one-argument op at u
  BendLeft(_, _, _),   \* those of a two-argument op at l and r: twice by l,
  BendMixed(_, _, _),  \* by l and r,
  BendRight(_, _, _)   \* twice by r

(* A number with its derivative; without one of them it has no value.        *)
Pair(x, y) == IF NaN \in {x, y} THEN <<NaN, NaN>> ELSE <<x, y>>
Carried(slope, u) == Times(Smooth, slope, u)
Chained(left, l, right, r) == Plus(Smooth, Carried(left, l), Carried(right, r))
DualNumber == {<<NaN, NaN>>} \cup ((Scalar \ {NaN}) \X (Scalar \ {NaN}))
Duals ==
  [all |-> DualNumber, none |-> <<NaN, NaN>>,
   of  |-> [c \in Scalar |-> Pair(c, Zero)],
   one |-> [op \in UnaryOps |-> [u \in DualNumber |->
              Pair(Apply1(op, u[1]), Carried(Slope(op, u[1]), u[2]))]],
   two |-> [op \in BinaryOps |-> [l \in DualNumber |-> [r \in DualNumber |->
              Pair(Apply2(op, l[1], r[1]),
                   Chained(SlopeLeft(op, l[1], r[1]), l[2], SlopeRight(op, l[1], r[1]), r[2]))]]],
   slope |-> [op \in UnaryOps |-> [u \in DualNumber |->
                Pair(Slope(op, u[1]), Carried(Bend(op, u[1]), u[2]))]],
   left  |-> [op \in BinaryOps |-> [l \in DualNumber |-> [r \in DualNumber |->
                Pair(SlopeLeft(op, l[1], r[1]),
                     Chained(BendLeft(op, l[1], r[1]), l[2], BendMixed(op, l[1], r[1]), r[2]))]]],
   right |-> [op \in BinaryOps |-> [l \in DualNumber |-> [r \in DualNumber |->
                Pair(SlopeRight(op, l[1], r[1]),
                     Chained(BendMixed(op, l[1], r[1]), l[2], BendRight(op, l[1], r[1]), r[2]))]]]]

(* A point, moving in the direction of symbol i. *)
Moving(p, i) == [s \in DOMAIN p |-> Pair(p[s], IF s = i THEN One ELSE Zero)]

(* The derivative by symbols i and j of node r of B at p, or NaN.            *)
SecondDerivative(B, p, i, j, r) ==
  TangentsAt(Duals, B, ValuesAt(Duals, B, Moving(p, i)), j, r)[r][2]
=============================================================================
