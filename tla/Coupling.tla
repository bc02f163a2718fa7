------------------------------ MODULE Coupling ------------------------------
(***************************************************************************)
(* Which second derivatives may be nonzero, and a colouring of the         *)
(* columns of the Hessian that lets one sweep compute several of them      *)
(* (rt/coupling.hpp).                                                      *)
(***************************************************************************)
EXTENDS Builder, FiniteSets

Slots(B) == 1..Len(B.symbols)

(* detail::reachable: one descending pass over the operands of each node.    *)
MarkBelow(below, live, v) == IF v \in live THEN live \cup below[v] ELSE live
Marked(below, roots) ==
  LET n == Len(below)
      after[k \in 0..n] == IF k = 0 THEN roots ELSE MarkBelow(below, after[k - 1], n + 1 - k)
  IN  after[n]
Reachable(B, roots) == Marked([v \in Ids(B) |-> Operands(B.nodes[v])], roots)

(* Every symbol of one set coupled with every symbol of the other. *)
Couple(rows, left, right) ==
  [i \in DOMAIN rows |->
     rows[i] \cup (IF i \in left THEN right ELSE {}) \cup (IF i \in right THEN left ELSE {})]

(* Mutant: a quotient is taken for linear in its denominator. *)
NodeCouples_LinearDivisor(rows, node, own, left, right) ==
  CASE node.op \in {"Const", "Var", "Neg", "Add"} -> rows
    [] node.op \in UnaryOps \ {"Neg"} -> Couple(rows, own, own)
    [] node.op \in {"Mul", "Div"} -> Couple(rows, left, right)
    [] node.op \in BinaryOps \ {"Add", "Mul", "Div"} -> Couple(rows, own, own)

(* What a node adds to the rows, given its support and its operands'.        *)
NodeCouples(rows, node, own, left, right) ==
  CASE node.op \in {"Const", "Var", "Neg", "Add"} -> rows
    [] node.op \in UnaryOps \ {"Neg"} -> Couple(rows, own, own)
    [] node.op = "Mul" -> Couple(rows, left, right)
    [] node.op = "Div" -> Couple(Couple(rows, left, right), right, right)
    [] node.op \in BinaryOps \ {"Add", "Mul", "Div"} -> Couple(rows, own, own)

(* coupling_pattern(): rows[i] has j when d2f/dxi dxj may be nonzero.        *)
SupportOf(pass, u) == IF u = NoNode THEN {} ELSE pass.support[u]
CoupledBy(pass, node, own, left, right) ==
  [support |-> Append(pass.support, own), rows |-> NodeCouples(pass.rows, node, own, left, right)]
CoupledUnder(pass, node, left, right) ==
  CoupledBy(pass, node, IF node.op = "Var" THEN {node.slot} ELSE left \cup right, left, right)
CoupleAt(pass, node, isLive) ==
  IF isLive THEN CoupledUnder(pass, node, SupportOf(pass, node.a), SupportOf(pass, node.b))
  ELSE [pass EXCEPT !.support = Append(@, {})]
CouplingPattern(B, root) ==
  LET live == Reachable(B, {root})
      after[v \in 0..Len(B.nodes)] ==
        IF v = 0 THEN [support |-> <<>>, rows |-> [i \in Slots(B) |-> {}]]
        ELSE CoupleAt(after[v - 1], B.nodes[v], v \in live)
  IN  after[Len(B.nodes)].rows

-----------------------------------------------------------------------------
(* color_columns() *)

(* Mutant: columns conflict when they couple with each other. *)
Conflict_Adjacent(rows, j, k) == k \in rows[j]

(* Two columns conflict when some row couples both. *)
Conflict(rows, j, k) == rows[j] \cap rows[k] # {}

(* boost::sequential_vertex_coloring: along `order`, each column takes the   *)
(* first colour none of its coloured conflicting columns has.  The order is  *)
(* boost's smallest-last one in the code; any order is allowed here.         *)
Taken(rows, color, j) ==
  {color[k] : k \in {k \in DOMAIN rows : k # j /\ Conflict(rows, j, k)}}

(* Mutant: a colour past those of as many columns as it conflicts with. *)
Paint_ByDegree(rows, color, j) ==
  [color EXCEPT ![j] = 1 + Cardinality({k \in DOMAIN rows : k # j /\ Conflict(rows, j, k)})]

FirstOf(free) == CHOOSE c \in free : \A d \in free : c <= d
Paint(rows, color, j) ==
  [color EXCEPT ![j] = FirstOf((1..Len(rows)) \ Taken(rows, color, j))]
GreedyColors(rows, order) ==
  LET after[k \in 0..Len(order)] ==
        IF k = 0 THEN [j \in DOMAIN rows |-> 0] ELSE Paint(rows, after[k - 1], order[k])
  IN  after[Len(order)]

Orders(n) == {order \in [1..n -> 1..n] : \A j, k \in 1..n : order[j] = order[k] => j = k}
ColorCount(color) == Cardinality({color[j] : j \in DOMAIN color})

(* scatter[c][i]: the last column of colour c that row i is coupled with.    *)
NoColumn == 0
LastOf(columns) == CHOOSE j \in columns : \A k \in columns : k <= j
Target(rows, color, c, i) ==
  LET owners == {j \in DOMAIN rows : color[j] = c /\ i \in rows[j]}
  IN  IF owners = {} THEN NoColumn ELSE LastOf(owners)
=============================================================================
