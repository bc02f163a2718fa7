------------------------------ MODULE Calculus ------------------------------
(***************************************************************************)
(* What a derivative is, apart from any way of forming one: the tangent of *)
(* every node of an arena, accumulated forward as numbers from the values  *)
(* and the tangents of its operands.  The derivatives of the operations    *)
(* are parameters, and SlopeLaws is what the rule tables rely on them for. *)
(***************************************************************************)
EXTENDS Derivative, Interpreter

CONSTANTS
  Slope(_, _),         \* the derivative of a one-argument op at u, a number
  SlopeLeft(_, _, _),  \* those of a two-argument op at l and r
  SlopeRight(_, _, _)

(* Scalars with their derivatives: of a kind of numbers K with these, K.slope, *)
(* K.left and K.right are what the operations are differentiated by.           *)
Smooth ==
  [all |-> Scalars.all, none |-> Scalars.none, of |-> Scalars.of,
   one |-> Scalars.one, two |-> Scalars.two,
   slope |-> [op \in UnaryOps |-> [u \in Scalar |-> Slope(op, u)]],
   left  |-> [op \in BinaryOps |-> [l \in Scalar |-> [r \in Scalar |-> SlopeLeft(op, l, r)]]],
   right |-> [op \in BinaryOps |-> [l \in Scalar |-> [r \in Scalar |-> SlopeRight(op, l, r)]]]]

Plus(K, u, v) == On2(K, "Add", u, v)
Times(K, u, v) == On2(K, "Mul", u, v)
Over(K, u, v) == On2(K, "Div", u, v)
Negated(K, u) == On1(K, "Neg", u)

(* The tangent of a node in the direction of symbol s. *)
Tangent(K, n, vals, tans, s) ==
  CASE n.op = "Const" -> K.of[Zero]
    [] n.op = "Var" -> IF n.slot = s THEN K.of[One] ELSE K.of[Zero]
    [] n.op \in UnaryOps -> Times(K, K.slope[n.op][vals[n.a]], tans[n.a])
    [] n.op \in BinaryOps ->
         Plus(K, Times(K, K.left[n.op][vals[n.a]][vals[n.b]], tans[n.a]),
                 Times(K, K.right[n.op][vals[n.a]][vals[n.b]], tans[n.b]))

(* The tangents of the first n nodes, which are those of any longer arena.   *)
WithTangent(K, tans, node, vals, s) == Append(tans, Tangent(K, node, vals, tans, s))
TangentsAt(K, B, vals, s, n) ==
  LET after[k \in 0..n] ==
        IF k = 0 THEN <<>> ELSE WithTangent(K, after[k - 1], B.nodes[k], vals, s)
  IN  after[n]

(* The sum of the first n terms. *)
Total(K, term, n) ==
  LET after[k \in 0..n] == IF k = 0 THEN K.of[Zero] ELSE Plus(K, after[k - 1], term[k])
  IN  after[n]

(* The contributions to the root's tangent, by node, of a sweep that has the  *)
(* nodes 1..cursor still to visit; and what they should add up to.            *)
Live(sweep, cursor, v) ==
  sweep.adj[v] # NoNode /\ (v <= cursor \/ sweep.arena.nodes[v].op = "Var")
Terms(K, sweep, cursor, vals, tans) ==
  [v \in DOMAIN sweep.adj |->
     IF Live(sweep, cursor, v) THEN Times(K, vals[sweep.adj[v]], tans[v]) ELSE K.of[Zero]]
AddsUp(K, sweep, cursor, root, vals, tans) ==
  tans[root] # K.none =>
    Total(K, Terms(K, sweep, cursor, vals, tans), Len(sweep.adj)) = tans[root]

(* partial names, by slot, the derivatives of r: at a point where one has a  *)
(* value, so does the node named, and the same.                              *)
IsGradient(K, B, partial, r, p) ==
  LET vals == ValuesAt(K, B, p)
  IN  \A s \in 1..Len(B.symbols) :
        \A tan \in {TangentsAt(K, B, vals, s, r)[r]} : tan # K.none => vals[partial[s]] = tan

-----------------------------------------------------------------------------
(* Numbers are a ring with an absorbing NaN: whatever has an operand without *)
(* a value has none, and sums and products of values are values.             *)
Absorbing(K) ==
  /\ K.none \in K.all /\ K.none \notin {K.of[Zero], K.of[One]}
  /\ \A op \in UnaryOps : On1(K, op, K.none) = K.none
  /\ \A op \in BinaryOps, v \in K.all :
       On2(K, op, K.none, v) = K.none /\ On2(K, op, v, K.none) = K.none
  /\ \A u, v \in K.all \ {K.none} : Plus(K, u, v) # K.none /\ Times(K, u, v) # K.none
RingLaws(K) ==
  /\ Absorbing(K)
  /\ \A u, v \in K.all : Plus(K, u, v) = Plus(K, v, u)
  /\ \A u, v, w \in K.all :
       /\ Plus(K, Plus(K, u, v), w) = Plus(K, u, Plus(K, v, w))
       /\ Times(K, Times(K, u, v), w) = Times(K, u, Times(K, v, w))
       /\ Times(K, u, Plus(K, v, w)) = Plus(K, Times(K, u, v), Times(K, u, w))
       /\ Times(K, Plus(K, u, v), w) = Plus(K, Times(K, u, w), Times(K, v, w))
  /\ \A v \in K.all \ {K.none} :
       /\ Plus(K, K.of[Zero], v) = v
       /\ Times(K, K.of[One], v) = v /\ Times(K, v, K.of[One]) = v
       /\ Times(K, K.of[Zero], v) = K.of[Zero] /\ Times(K, v, K.of[Zero]) = K.of[Zero]

(* Wherever an operation has a derivative, it is what the formula of its row *)
(* comes to: one plus or minus the sign of l - r, halved, for max and min.   *)
SignOfDifference(K, l, r) == On1(K, "Sign", Plus(K, l, Negated(K, r)))
HalfAbove(K, l, r) == Over(K, Plus(K, K.of[One], SignOfDifference(K, l, r)), K.of[Two])
HalfBelow(K, l, r) == Over(K, Plus(K, K.of[One], Negated(K, SignOfDifference(K, l, r))), K.of[Two])
RowOf(K, op, u) ==
  CASE op = "Neg" -> K.of[MinusOne]
    [] op = "Abs" -> On1(K, "Sign", u)
    [] op = "Sign" -> K.of[Zero]
    [] op = "Sine" -> On1(K, "Cosine", u)
    [] op = "Cosine" -> Negated(K, On1(K, "Sine", u))
    [] op = "Exp" -> On1(K, "Exp", u)
    [] op = "Log" -> Over(K, K.of[One], u)
    [] op = "Sqrt" -> Over(K, K.of[One], Times(K, K.of[Two], On1(K, "Sqrt", u)))
LeftOf(K, op, l, r) ==
  CASE op = "Add" -> K.of[One]
    [] op = "Mul" -> r
    [] op = "Div" -> Over(K, K.of[One], r)
    [] op = "Pow" -> Times(K, r, On2(K, "Pow", l, Plus(K, r, Negated(K, K.of[One]))))
    [] op = "Hypot" -> Over(K, l, On2(K, "Hypot", l, r))
    [] op = "Max" -> HalfAbove(K, l, r)
    [] op = "Min" -> HalfBelow(K, l, r)
RightOf(K, op, l, r) ==
  CASE op = "Add" -> K.of[One]
    [] op = "Mul" -> l
    [] op = "Div" -> Over(K, Negated(K, Over(K, l, r)), r)
    [] op = "Pow" -> Times(K, On2(K, "Pow", l, r), On1(K, "Log", l))
    [] op = "Hypot" -> Over(K, r, On2(K, "Hypot", l, r))
    [] op = "Max" -> HalfBelow(K, l, r)
    [] op = "Min" -> HalfAbove(K, l, r)
SlopeLaws(K) ==
  /\ \A op \in UnaryOps, u \in K.all : K.slope[op][u] \in {K.none, RowOf(K, op, u)}
  /\ \A op \in BinaryOps, l, r \in K.all :
       /\ K.left[op][l][r] \in {K.none, LeftOf(K, op, l, r)}
       /\ K.right[op][l][r] \in {K.none, RightOf(K, op, l, r)}

(* What a theorem about derivatives takes a kind of numbers for.             *)
CalculusLaws(K) == NumberLaws(K) /\ RingLaws(K) /\ SlopeLaws(K)
=============================================================================
