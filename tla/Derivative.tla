----------------------------- MODULE Derivative -----------------------------
(***************************************************************************)
(* The structural derivative rules (rt/opcode.hpp, expr/unary_math.hpp) and *)
(* the two accumulations of rt/derivative.hpp, one step of their loops at a *)
(* time.  A derivative is an expression of the same arena: every step may   *)
(* append to the builder the loop is reading.                               *)
(***************************************************************************)
EXTENDS Expression

CONSTANTS MinusOne, Two  \* T{-1}, T{2}

(* The rows of the tables that are modelled, and the ops their rules form.   *)
UnaryRules == {"Neg", "Abs", "Sign", "Sine", "Cosine", "Exp", "Log", "Sqrt"}
BinaryRules == {"Add", "Mul", "Div", "Pow", "Hypot", "Max", "Min"}

ASSUME RuleAssumption ==
  /\ MinusOne \in Scalar /\ Two \in Scalar
  /\ UnaryOps \subseteq UnaryRules /\ BinaryOps \subseteq BinaryRules
  /\ "Neg" \in UnaryOps /\ {"Add", "Mul", "Div"} \subseteq BinaryOps
  /\ "Abs" \in UnaryOps \/ {"Max", "Min"} \cap BinaryOps # {} => "Sign" \in UnaryOps
  /\ "Sine" \in UnaryOps <=> "Cosine" \in UnaryOps
  /\ "Pow" \in BinaryOps => "Log" \in UnaryOps

(* partial(): d/du of an op, given the node f of its result. *)
Partial(B, op, u, f) ==
  CASE op = "Neg" -> Start(B, Lit(MinusOne))
    [] op = "Abs" -> Unary("Sign", Start(B, u))
    [] op = "Sign" -> Start(B, Lit(Zero))
    [] op = "Sine" -> Unary("Cosine", Start(B, u))
    [] op = "Cosine" -> Unary("Neg", Unary("Sine", Start(B, u)))
    [] op = "Exp" -> Start(B, f)
    [] op = "Log" -> Form(B, "Div", Lit(One), u)
    [] op = "Sqrt" -> After(Lit(One), "Div", Form(B, "Mul", Lit(Two), f))

(* (T{1} +- sign(l - r)) / T{2} *)
Above(B, l, r) == Then(After(Lit(One), "Add", Unary("Sign", Minus(B, l, r))), "Div", Lit(Two))
Below(B, l, r) ==
  Then(After(Lit(One), "Add", Unary("Neg", Unary("Sign", Minus(B, l, r)))), "Div", Lit(Two))

(* partials(): d/dl and d/dr of a two-operand op. *)
LeftPartial(B, op, l, r, f) ==
  CASE op = "Add" -> Start(B, Lit(One))
    [] op = "Mul" -> Start(B, r)
    [] op = "Div" -> Form(B, "Div", Lit(One), r)
    [] op = "Pow" -> After(r, "Mul", After(l, "Pow", Minus(B, r, Lit(One))))
    [] op = "Hypot" -> Form(B, "Div", l, f)
    [] op = "Max" -> Above(B, l, r)
    [] op = "Min" -> Below(B, l, r)

(* Mutant: the quotient rule without its sign. *)
RightPartial_NoSign(B, op, l, r, f) ==
  CASE op = "Add" -> Start(B, Lit(One))
    [] op = "Mul" -> Start(B, l)
    [] op = "Div" -> Form(B, "Div", f, r)
    [] op = "Max" -> Below(B, l, r)

RightPartial(B, op, l, r, f) ==
  CASE op = "Add" -> Start(B, Lit(One))
    [] op = "Mul" -> Start(B, l)
    [] op = "Div" -> Then(Unary("Neg", Start(B, f)), "Div", r)
    [] op = "Pow" -> After(f, "Mul", Unary("Log", Start(B, l)))
    [] op = "Hypot" -> Form(B, "Div", r, f)
    [] op = "Max" -> Below(B, l, r)
    [] op = "Min" -> Above(B, l, r)

-----------------------------------------------------------------------------
(* A loop that forms nodes: what is left of base after steps 1 to n.          *)
Iterated(Step(_, _, _), over, base, n) ==
  LET after[k \in 0..n] == IF k = 0 THEN base ELSE Step(after[k - 1], over, k)
  IN  after[n]

(* reverse_gradient(): a sweep is the arena and adj, the adjoint node of each *)
(* node of the snapshot that has one.                                         *)

(* Mutant: the seed goes to the last node, which a root just formed would be. *)
BeginSweep_AtTheEnd(B, root) ==
  LET one == Constant(B, One)
  IN  [arena |-> one.arena,
       adj |-> [v \in Ids(B) |-> IF v = Len(B.nodes) THEN one.id ELSE NoNode]]

BeginSweep(B, root) ==
  LET one == Constant(B, One)
  IN  [arena |-> one.arena, adj |-> [v \in Ids(B) |-> IF v = root THEN one.id ELSE NoNode]]

Recorded(sweep, child, total) ==
  [arena |-> total.arena, adj |-> [sweep.adj EXCEPT ![child] = total.id]]

(* Mutant: the second contribution to a node replaces the first. *)
AddTo_Replace(sweep, child, stage) == Recorded(sweep, child, IdOf(stage))

(* add_to(): a first contribution is taken as it is, a later one summed. *)
Sum(sweep, child, c) ==
  IF sweep.adj[child] = NoNode THEN c ELSE Make(c.arena, "Add", sweep.adj[child], c.id)
AddedTo(sweep, child, c) == Recorded(sweep, child, Sum(sweep, child, c))
AddTo(sweep, child, stage) == AddedTo(sweep, child, IdOf(stage))

(* The body of the loop at node v.  Both partials are formed before either   *)
(* contribution is.                                                          *)
SweepUnary(sweep, v) ==
  LET node == sweep.arena.nodes[v]
  IN  AddTo(sweep, node.a,
            After(At(sweep.adj[v]), "Mul", Partial(sweep.arena, node.op, At(node.a), At(v))))

(* add_to(child, a * d), in the arena B. *)
AddProduct(sweep, child, B, a, d) == AddTo(sweep, child, Form(B, "Mul", a, d))
ThenProduct(sweep, child, a, d) == AddProduct(sweep, child, sweep.arena, a, d)
Contribute(sweep, node, a, dl, dr) ==
  ThenProduct(AddProduct(sweep, node.a, dr.arena, a, dl.e), node.b, a, dr.e)
ContributeAfter(sweep, node, v, dl) ==
  Contribute(sweep, node, At(sweep.adj[v]), dl,
             RightPartial(dl.arena, node.op, At(node.a), At(node.b), At(v)))
SweepBinary(sweep, v) ==
  LET node == sweep.arena.nodes[v]
  IN  ContributeAfter(sweep, node, v,
                      LeftPartial(sweep.arena, node.op, At(node.a), At(node.b), At(v)))

SweepAt(sweep, v) ==
  LET op == sweep.arena.nodes[v].op
  IN  CASE sweep.adj[v] = NoNode \/ op \in {"Const", "Var"} -> sweep
        [] sweep.adj[v] # NoNode /\ op \in UnaryOps -> SweepUnary(sweep, v)
        [] sweep.adj[v] # NoNode /\ op \in BinaryOps -> SweepBinary(sweep, v)

(* Mutant: a symbol with no adjoint is left without a partial. *)
Collect_NoZero(sweep) ==
  LET Leaves(s) == {v \in DOMAIN sweep.adj : /\ sweep.arena.nodes[v].op = "Var"
                                             /\ sweep.arena.nodes[v].slot = s}
  IN  [arena |-> sweep.arena,
       partial |-> [s \in 1..Len(sweep.arena.symbols) |->
                      sweep.adj[CHOOSE v \in Leaves(s) : TRUE]]]

(* The leaves' adjoints by slot; a symbol no leaf was reached for has the    *)
(* literal zero, which is formed either way.                                 *)
Collect(sweep) ==
  LET zero == Constant(sweep.arena, Zero)
      Leaves(s) == {v \in DOMAIN sweep.adj : /\ sweep.arena.nodes[v].op = "Var"
                                             /\ sweep.arena.nodes[v].slot = s
                                             /\ sweep.adj[v] # NoNode}
  IN  [arena |-> zero.arena,
       partial |-> [s \in 1..Len(sweep.arena.symbols) |->
                      IF Leaves(s) = {} THEN zero.id
                      ELSE sweep.adj[CHOOSE v \in Leaves(s) : TRUE]]]

(* The whole of a call, from the last node of the snapshot down. *)
SweepDown(sweep, n, k) == SweepAt(sweep, n + 1 - k)
ReverseGradient(B, root) ==
  Collect(Iterated(SweepDown, Len(B.nodes), BeginSweep(B, root), Len(B.nodes)))

(* jacobian(): a sweep per function, each over what the last one left.       *)
WithRow(j, g) == [arena |-> g.arena, partial |-> j.partial \o g.partial]
NextRow(j, roots, k) == WithRow(j, ReverseGradient(j.arena, roots[k]))
Jacobian(B, roots) ==
  Iterated(NextRow, roots, [arena |-> B, partial |-> <<>>], Len(roots))

-----------------------------------------------------------------------------
(* symbolic_gradient(): a pass per symbol carries d, the derivative of each  *)
(* node visited so far, up the graph.                                        *)

(* dl * d[a] + dr * d[b], the factors formed first, from left to right.      *)
SumOf(left, right) == Form(right.arena, "Add", left.e, right.e)
SumFrom(left, dr, db) == SumOf(left, Form(left.arena, "Mul", dr.e, db))
ProductSum(dl, da, dr, db) == SumFrom(Form(dr.arena, "Mul", dl.e, da), dr, db)
ChainAfter(pass, node, v, dl) ==
  ProductSum(dl, At(pass.d[node.a]),
             RightPartial(dl.arena, node.op, At(node.a), At(node.b), At(v)), At(pass.d[node.b]))
ChainOf(pass, node, v, s) ==
  IF node.op \in UnaryOps
  THEN Then(Partial(pass.arena, node.op, At(node.a), At(v)), "Mul", At(pass.d[node.a]))
  ELSE IF node.op \in BinaryOps
  THEN ChainAfter(pass, node, v,
                  LeftPartial(pass.arena, node.op, At(node.a), At(node.b), At(v)))
  ELSE Start(pass.arena, Lit(IF node.op = "Var" /\ node.slot = s THEN One ELSE Zero))
Pushed(pass, reply) == [arena |-> reply.arena, d |-> Append(pass.d, reply.id)]
ForwardAt(pass, v, s) == Pushed(pass, IdOf(ChainOf(pass, pass.arena.nodes[v], v, s)))

(* One pass over the snapshot that the builder is when the pass begins. *)
ForwardPass(B, s) ==
  LET after[v \in 0..Len(B.nodes)] ==
        IF v = 0 THEN [arena |-> B, d |-> <<>>] ELSE ForwardAt(after[v - 1], v, s)
  IN  after[Len(B.nodes)]

WithPartial(g, pass, root) == [arena |-> pass.arena, partial |-> Append(g.partial, pass.d[root])]
NextPartial(g, s, root) == WithPartial(g, ForwardPass(g.arena, s), root)
SymbolicGradient(B, root) ==
  LET after[s \in 0..Len(B.symbols)] ==
        IF s = 0 THEN [arena |-> B, partial |-> <<>>] ELSE NextPartial(after[s - 1], s, root)
  IN  after[Len(B.symbols)]
=============================================================================
