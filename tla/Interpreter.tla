----------------------------- MODULE Interpreter ----------------------------
(***************************************************************************)
(* evaluate_all (rt/interpret.hpp): one pass over the arena in id order,   *)
(* each node computed from entries the pass has already written, in        *)
(* whatever numbers the point is made of: "hand it doubles and it computes *)
(* values, hand it Dual<double> and the same walk carries derivatives".    *)
(***************************************************************************)
EXTENDS Builder

CONSTANT NaN  \* what an operation gives where it has no value

(* A kind of numbers to compute in, which is that of the point: all of them, *)
(* the one that stands for no value, what a scalar of the arena converts to, *)
(* and apply().                                                              *)
On1(K, op, u) == K.one[op][u]
On2(K, op, l, r) == K.two[op][l][r]
Scalars ==
  [all |-> Scalar, none |-> NaN, of |-> [c \in Scalar |-> c],
   one |-> [op \in UnaryOps |-> [u \in Scalar |-> Apply1(op, u)]],
   two |-> [op \in BinaryOps |-> [l \in Scalar |-> [r \in Scalar |-> Apply2(op, l, r)]]]]

(* A point for the symbols of B. *)
PointFor(K, B) == [1..Len(B.symbols) -> K.all]

NodeValue(K, n, vals, point) ==
  CASE n.op = "Const" -> K.of[n.value]
    [] n.op = "Var" -> point[n.slot]
    [] n.op \in UnaryOps -> On1(K, n.op, vals[n.a])
    [] n.op \in BinaryOps -> On2(K, n.op, vals[n.a], vals[n.b])

Computed(K, vals, n, point) == Append(vals, NodeValue(K, n, vals, point))
ValuesAt(K, B, point) ==
  LET after[k \in 0..Len(B.nodes)] ==
        IF k = 0 THEN <<>> ELSE Computed(K, after[k - 1], B.nodes[k], point)
  IN  after[Len(B.nodes)]

(* The value of a reply's node, which adds at most one node to the arena.     *)
ReplyValue(K, reply, vals, p) ==
  IF reply.id \in DOMAIN vals THEN vals[reply.id]
  ELSE NodeValue(K, reply.arena.nodes[reply.id], vals, p)

-----------------------------------------------------------------------------
(* What fold() takes numbers for, wherever an operation has a value: that it *)
(* may compute with the scalars they convert from, and each identity that a  *)
(* rewrite is named for.                                                     *)
Is(K, value, x) == value \in {x, K.none}
Conversion(K) ==
  /\ \A c \in Scalar : K.of[c] \in K.all
  /\ \A op \in UnaryOps :
       /\ \A u \in K.all : On1(K, op, u) \in K.all
       /\ \A c \in Scalar : Is(K, On1(K, op, K.of[c]), K.of[Apply1(op, c)])
  /\ \A op \in BinaryOps :
       /\ \A u, v \in K.all : On2(K, op, u, v) \in K.all
       /\ \A c, d \in Scalar : Is(K, On2(K, op, K.of[c], K.of[d]), K.of[Apply2(op, c, d)])
NumberLaws(K) ==
  /\ \A v, w \in Scalar : Eq(v, w) => v = w
  /\ Conversion(K)
  /\ "Neg" \in UnaryOps => \A v \in K.all : On1(K, "Neg", On1(K, "Neg", v)) = v
  /\ \A op \in {o \in BinaryOps : IsCommutative(o)}, v, w \in K.all :
       On2(K, op, v, w) = On2(K, op, w, v)
  /\ \A v, w \in K.all :
       /\ "Add" \in BinaryOps =>
            Is(K, On2(K, "Add", K.of[Zero], v), v) /\ Is(K, On2(K, "Add", v, K.of[Zero]), v)
       /\ "Mul" \in BinaryOps =>
            /\ Is(K, On2(K, "Mul", K.of[Zero], v), K.of[Zero])
            /\ Is(K, On2(K, "Mul", v, K.of[Zero]), K.of[Zero])
            /\ Is(K, On2(K, "Mul", K.of[One], v), v) /\ Is(K, On2(K, "Mul", v, K.of[One]), v)
            /\ "Div" \in BinaryOps => Is(K, On2(K, "Mul", On2(K, "Div", v, w), w), v)
       /\ "Div" \in BinaryOps =>
            /\ Is(K, On2(K, "Div", v, v), K.of[One]) /\ Is(K, On2(K, "Div", K.of[Zero], v), K.of[Zero])
            /\ Is(K, On2(K, "Div", v, K.of[One]), v)
       /\ "Pow" \in BinaryOps =>
            Is(K, On2(K, "Pow", v, K.of[Zero]), K.of[One]) /\ Is(K, On2(K, "Pow", v, K.of[One]), v)
=============================================================================
