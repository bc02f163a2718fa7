----------------------------- MODULE Expression -----------------------------
(***************************************************************************)
(* rt::RTExpression (rt/expr.hpp): a handle to a node, or a literal that   *)
(* waits for the first graph it meets.  Forming one may append to the      *)
(* arena, so the operators take and return a stage: the arena so far and   *)
(* the expression formed last, which a formula of the code is a pipeline   *)
(* of: -f / r is Then(Unary("Neg", Start(B, f)), "Div", r).                *)
(***************************************************************************)
EXTENDS Builder

Expr == [id : Nat, lit : Scalar]
At(v) == [id |-> v, lit |-> Zero]
Lit(c) == [id |-> NoNode, lit |-> c]
Pending(e) == e.id = NoNode

(* id(): a pending literal becomes a node of the arena. *)
Materialise(B, e) == IF Pending(e) THEN Constant(B, e.lit) ELSE Existing(B, e.id)

IdOf(stage) == Materialise(stage.arena, stage.e)

Start(B, e) == [arena |-> B, e |-> e]
Node1(reply) == [arena |-> reply.arena, e |-> At(reply.id)]

(* form() of one operand; two literals never reach the graph. *)
Unary(op, stage) ==
  IF Pending(stage.e)
  THEN [stage EXCEPT !.e = Lit(Apply1(op, @.lit))]
  ELSE Node1(Make(stage.arena, op, stage.e.id, NoNode))

(* form() of two: the operands' ids, the left one's first, then the node.    *)
Joined(op, left, right) == Node1(Make(right.arena, op, left.id, right.id))
JoinedTo(op, left, r) == Joined(op, left, Materialise(left.arena, r))
Form(B, op, l, r) ==
  IF Pending(l) /\ Pending(r) THEN Start(B, Lit(Apply2(op, l.lit, r.lit)))
  ELSE JoinedTo(op, Materialise(B, l), r)

Then(stage, op, r) == Form(stage.arena, op, stage.e, r)
After(l, op, stage) == Form(stage.arena, op, l, stage.e)

(* operator-: l + (-r) *)
Minus(B, l, r) == After(l, "Add", Unary("Neg", Start(B, r)))
=============================================================================
