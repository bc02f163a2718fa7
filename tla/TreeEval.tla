------------------------------ MODULE TreeEval ------------------------------
(***************************************************************************)
(* The sweeps over a tree in numbers of one kind T (scalars, duals, Taylor *)
(* series): the seeded evaluation of expr/expressions.hpp and the reverse  *)
(* sweep of drivers/symbolic.hpp with the adjoints of operations.hpp.  A   *)
(* point, and a gradient, is indexed by symbol.                            *)
(***************************************************************************)
EXTENDS Integers, Sequences, SequencesExt

CONSTANTS
  TAdd(_, _), TSub(_, _), TMul(_, _), TDiv(_, _), TNeg(_),
  TFn(_, _), TPower(_, _), THypot(_, _), TAtan2(_, _),
  TVal(_),                    \* the scalar at the bottom
  TOf(_),                     \* T(s), for a scalar s
  Count(_),                   \* the nodes of a tree
  S(_), SLess(_, _), SEq(_, _), SLn10, STwoInvSqrtPi

U == INSTANCE UnaryMath WITH
  UAdd <- TAdd, USub <- TSub, UMul <- TMul, UDiv <- TDiv, UNeg <- TNeg,
  UFn <- TFn, UNum <- TOf, UInt <- S, ULn10 <- SLn10, UTwoInvSqrtPi <- STwoInvSqrtPi

Zero == TOf(S(0))
One == TOf(S(1))
Same(a, b) == SEq(TVal(a), TVal(b))
Less(a, b) == SLess(TVal(a), TVal(b))

(* sign_impl, max_impl and min_impl: a - a and (a - b) * 0 are NaN of a NaN. *)
Sign(a) ==
  IF Less(Zero, a) THEN One ELSE IF Less(a, Zero) THEN TOf(S(-1)) ELSE TSub(a, a)
Middle(a, b) == TAdd(a, TDiv(TSub(b, a), TOf(S(2))))
Poison(a, b) == TMul(TSub(a, b), Zero)
Either(lower, upper, a, b) ==     \* what to answer when a < b, and when b < a
  IF Same(a, b) THEN Middle(a, b)
  ELSE IF Less(a, b) THEN lower ELSE IF Less(b, a) THEN upper ELSE Poison(a, b)

Applied1(op, a) ==
  CASE op = "-" -> TNeg(a)
    [] op = "sign" -> Sign(a)
    [] OTHER -> TFn(op, a)
Applied2(op, a, b) ==
  CASE op = "+" -> TAdd(a, b)
    [] op = "*" -> TMul(a, b)
    [] op = "/" -> TDiv(a, b)
    [] op = "pow" -> TPower(a, b)
    [] op = "atan2" -> TAtan2(a, b)
    [] op = "hypot" -> THypot(a, b)
    [] op = "max" -> Either(b, a, a, b)
    [] op = "min" -> Either(a, b, a, b)

(* A constant embeds; a frozen symbol keeps its value and drops its seed. *)
Leaf(t, at) ==
  IF t.op # "Variable" THEN TOf(t.value)
  ELSE IF t.frozen THEN TOf(TVal(at[t.label])) ELSE at[t.label]

RECURSIVE EvalSeeded(_, _)
EvalSeeded(t, at) ==
  CASE t.kids = <<>> -> Leaf(t, at)
    [] Len(t.kids) = 1 -> Applied1(t.op, EvalSeeded(t.kids[1], at))
    [] OTHER -> Applied2(t.op, EvalSeeded(t.kids[1], at), EvalSeeded(t.kids[2], at))

-----------------------------------------------------------------------------
(* Mutant: no store below a product either. *)
X_ReadsPrimals(op) == op \notin {"+", "-", "sign", "*"}

ReadsPrimals(op) == op \notin {"+", "-", "sign"}

(* fill_cache: a node's cell, in preorder, is written only if its parent's    *)
(* adjoints read it.                                                          *)
RECURSIVE FillCache(_, _, _)
FillCache(t, at, store) ==
  <<IF store THEN EvalSeeded(t, at) ELSE Zero>>
    \o FlattenSeq([i \in DOMAIN t.kids |-> FillCache(t.kids[i], at, ReadsPrimals(t.op))])

(* What each operand's adjoint is, from the node's and its operands' values. *)
Adjoint1(op, adj, a) ==
  CASE op = "-" -> TNeg(adj)
    [] op = "sign" -> Zero
    [] op = "abs" -> TMul(adj, Sign(a))
    [] OTHER -> TMul(adj, U!Deriv(op, a))

Share(adj, a, b, lower, upper) ==
  IF Same(a, b) THEN <<TDiv(adj, TOf(S(2))), TDiv(adj, TOf(S(2)))>>
  ELSE IF Less(a, b) THEN lower
  ELSE IF Less(b, a) THEN upper ELSE <<Poison(a, b), Poison(a, b)>>
OfPower(adj, a, b, p) ==
  <<TMul(TMul(adj, b), TPower(a, TSub(b, One))), TMul(TMul(adj, p), TFn("log", a))>>
OfHypot(adj, a, b, h) == <<TMul(adj, TDiv(a, h)), TMul(adj, TDiv(b, h))>>
OfAtan2(adj, y, x, h) ==
  <<TDiv(TMul(adj, TDiv(x, h)), h), TDiv(TMul(TNeg(adj), TDiv(y, h)), h)>>
Adjoint2(op, adj, a, b) ==
  CASE op = "+" -> <<adj, adj>>
    [] op = "*" -> <<TMul(adj, b), TMul(a, adj)>>
    [] op = "/" -> <<TDiv(adj, b), TDiv(TMul(TNeg(adj), a), TMul(b, b))>>
    [] op = "pow" -> OfPower(adj, a, b, TPower(a, b))
    [] op = "hypot" -> OfHypot(adj, a, b, THypot(a, b))
    [] op = "atan2" -> OfAtan2(adj, a, b, THypot(b, a))
    [] op = "max" -> Share(adj, a, b, <<Zero, adj>>, <<adj, Zero>>)
    [] op = "min" -> Share(adj, a, b, <<adj, Zero>>, <<Zero, adj>>)

(* backward: adjoints down to the leaves, a live one adding its own to grads. *)
RECURSIVE Backward(_, _, _, _, _)
Backward(t, base, adj, grads, cache) ==
  CASE t.op = "Variable" -> IF t.frozen THEN grads ELSE [grads EXCEPT ![t.label] = TAdd(@, adj)]
    [] t.op \in {"Lit", "Constant"} -> grads
    [] Len(t.kids) = 1 ->
         Backward(t.kids[1], base + 1, Adjoint1(t.op, adj, cache[base + 1]), grads, cache)
    [] OTHER ->
         LET right == base + 1 + Count(t.kids[1])
             down == Adjoint2(t.op, adj, cache[base + 1], cache[right])
         IN  Backward(t.kids[2], right, down[2],
                      Backward(t.kids[1], base + 1, down[1], grads, cache), cache)

(* reverse_sweep: the root is returned, not stored, and its adjoint is one. *)
ReverseSweep(t, at) ==
  [root |-> EvalSeeded(t, at),
   grads |-> Backward(t, 1, One, [s \in DOMAIN at |-> Zero], FillCache(t, at, FALSE))]

=============================================================================
