------------------------------- MODULE Builder ------------------------------
(***************************************************************************)
(* rt::Builder (rt/builder.hpp): the append-only arena a runtime           *)
(* expression is formed in.  This module has the calls as operators from   *)
(* an arena to a reply [arena, id]; BuilderCalls makes actions of them and *)
(* the derivative modules are built on them.                               *)
(*                                                                         *)
(* Interning is what Interner promises, which InternTable is shown to keep *)
(* for scalars whose equal values are one value.  Ids and slots count from *)
(* 1 and NoNode = 0.  Scalars are abstract: Eq is ==, so Eq(v, v) may be   *)
(* false (a NaN), and Apply1 / Apply2 are rt::apply.                       *)
(***************************************************************************)
EXTENDS Naturals, Sequences

CONSTANTS
  Scalar,           \* the values of T
  Zero, One,        \* T{0}, T{1}
  Eq(_, _),         \* operator== of T
  Apply1(_, _),     \* apply(op, u)
  Apply2(_, _, _),  \* apply(op, l, r)
  UnaryOps,         \* the one-argument rows of the op table
  BinaryOps,        \* the two-argument rows
  CommutativeMul,   \* impl::CCommutativeMultiply<T>
  Name              \* symbol names

ASSUME ScalarAssumption ==
  /\ Zero \in Scalar /\ One \in Scalar
  /\ \A v, w \in Scalar : Eq(v, w) \in BOOLEAN /\ (Eq(v, w) <=> Eq(w, v))
  /\ \A op \in UnaryOps, u \in Scalar : Apply1(op, u) \in Scalar
  /\ \A op \in BinaryOps, l, r \in Scalar : Apply2(op, l, r) \in Scalar
\* T's == may hold of no NaN, but two values equal to a third are equal.
ASSUME EqAssumption == \A u, v, w \in Scalar : Eq(u, v) /\ Eq(v, w) => Eq(u, w)
ASSUME OpAssumption ==
  /\ UnaryOps \cap BinaryOps = {}
  /\ {"Const", "Var"} \cap (UnaryOps \cup BinaryOps) = {}
  /\ CommutativeMul \in BOOLEAN

NoNode == 0

Node == [op : {"Const", "Var"} \cup UnaryOps \cup BinaryOps,
         a : Nat, b : Nat, value : Scalar, slot : Nat]

ConstNode(v) == [op |-> "Const", a |-> NoNode, b |-> NoNode, value |-> v, slot |-> 0]
VarNode(s) == [op |-> "Var", a |-> NoNode, b |-> NoNode, value |-> Zero, slot |-> s]
OpNode(op, a, b) == [op |-> op, a |-> a, b |-> b, value |-> Zero, slot |-> 0]

EmptyArena == [nodes |-> <<>>, symbols |-> <<>>]
Ids(B) == 1..Len(B.nodes)
Arity(op) == IF op \in UnaryOps THEN 1 ELSE IF op \in BinaryOps THEN 2 ELSE 0
Operands(n) == {n.a, n.b} \ {NoNode}

-----------------------------------------------------------------------------
(* intern() *)

SameNode(l, r) ==
  /\ l.op = r.op /\ l.a = r.a /\ l.b = r.b
  /\ IF l.op = "Const" THEN Eq(l.value, r.value) ELSE l.slot = r.slot

(* Mutant: what is already there is not found. *)
Intern_AppendAlways(B, n) ==
  [arena |-> [nodes |-> Append(B.nodes, n), symbols |-> B.symbols], id |-> Len(B.nodes) + 1]

(* Mutant: a new node takes the id of the last one. *)
Intern_Overwrite(B, n) ==
  [arena |-> [B EXCEPT !.nodes = IF @ = <<>> THEN <<n>> ELSE [@ EXCEPT ![Len(@)] = n]],
   id |-> IF B.nodes = <<>> THEN 1 ELSE Len(B.nodes)]

FoundOrAppended(B, n, found) ==
  IF found # {}
  THEN [arena |-> B, id |-> CHOOSE v \in found : TRUE]
  ELSE [arena |-> [nodes |-> Append(B.nodes, n), symbols |-> B.symbols], id |-> Len(B.nodes) + 1]

Intern(B, n) == FoundOrAppended(B, n, {v \in Ids(B) : SameNode(B.nodes[v], n)})

Constant(B, v) == Intern(B, ConstNode(v))

(* Mutant: a known name is not looked for. *)
Variable_AlwaysNew(B, name) ==
  Intern([nodes |-> B.nodes, symbols |-> Append(B.symbols, name)], VarNode(Len(B.symbols) + 1))

(* A new name takes the next slot. *)
Variable(B, name) ==
  LET known == {s \in 1..Len(B.symbols) : B.symbols[s] = name}
  IN  IF known # {}
      THEN Intern(B, VarNode(CHOOSE s \in known : TRUE))
      ELSE Intern([nodes |-> B.nodes, symbols |-> Append(B.symbols, name)], VarNode(Len(B.symbols) + 1))

-----------------------------------------------------------------------------
(* make(): fold, else canonicalise and intern *)

IsConst(B, v) == v # NoNode /\ B.nodes[v].op = "Const"
Holds(B, v, k) == IsConst(B, v) /\ Eq(B.nodes[v].value, k)

(* cancel_quotient: q is some n / x. *)
IsQuotientBy(B, q, x) == B.nodes[q].op = "Div" /\ B.nodes[q].b = x

Existing(B, v) == [arena |-> B, id |-> v]
Unfolded(B) == [arena |-> B, id |-> NoNode]

FoldUnary(B, op, a) ==
  IF IsConst(B, a) THEN Constant(B, Apply1(op, B.nodes[a].value))
  ELSE IF op = "Neg" /\ B.nodes[a].op = "Neg" THEN Existing(B, B.nodes[a].a)
  ELSE Unfolded(B)

(* The rewrites, with a and b not both constants. *)
FoldAdd(B, a, b) ==
  IF Holds(B, a, Zero) THEN Existing(B, b)
  ELSE IF Holds(B, b, Zero) THEN Existing(B, a)
  ELSE Unfolded(B)

(* Mutant: the quotient cancels on either side whatever the scalar. *)
FoldMul_CancelAlways(B, a, b) ==
  IF Holds(B, a, Zero) \/ Holds(B, b, Zero) THEN Constant(B, Zero)
  ELSE IF Holds(B, a, One) THEN Existing(B, b)
  ELSE IF Holds(B, b, One) THEN Existing(B, a)
  ELSE IF IsQuotientBy(B, a, b) THEN Existing(B, B.nodes[a].a)
  ELSE IF IsQuotientBy(B, b, a) THEN Existing(B, B.nodes[b].a)
  ELSE Unfolded(B)

(* Mutant: the denominator is not looked at: (n/d) * x -> n. *)
FoldMul_AnyQuotient(B, a, b) ==
  IF Holds(B, a, Zero) \/ Holds(B, b, Zero) THEN Constant(B, Zero)
  ELSE IF Holds(B, a, One) THEN Existing(B, b)
  ELSE IF Holds(B, b, One) THEN Existing(B, a)
  ELSE IF B.nodes[a].op = "Div" THEN Existing(B, B.nodes[a].a)
  ELSE Unfolded(B)

FoldMul(B, a, b) ==
  IF Holds(B, a, Zero) \/ Holds(B, b, Zero) THEN Constant(B, Zero)
  ELSE IF Holds(B, a, One) THEN Existing(B, b)
  ELSE IF Holds(B, b, One) THEN Existing(B, a)
  ELSE IF IsQuotientBy(B, a, b) THEN Existing(B, B.nodes[a].a)
  ELSE IF CommutativeMul /\ IsQuotientBy(B, b, a) THEN Existing(B, B.nodes[b].a)
  ELSE Unfolded(B)

FoldDiv(B, a, b) ==
  IF a = b THEN Constant(B, One)
  ELSE IF Holds(B, a, Zero) THEN Constant(B, Zero)
  ELSE IF Holds(B, b, One) THEN Existing(B, a)
  ELSE Unfolded(B)

FoldPow(B, a, b) ==
  IF Holds(B, b, Zero) THEN Constant(B, One)
  ELSE IF Holds(B, b, One) THEN Existing(B, a)
  ELSE Unfolded(B)

FoldBinary(B, op, a, b) ==
  IF IsConst(B, a) /\ IsConst(B, b)
  THEN Constant(B, Apply2(op, B.nodes[a].value, B.nodes[b].value))
  ELSE CASE op = "Add" -> FoldAdd(B, a, b)
         [] op = "Mul" -> FoldMul(B, a, b)
         [] op = "Div" -> FoldDiv(B, a, b)
         [] op = "Pow" -> FoldPow(B, a, b)
         [] OTHER -> Unfolded(B)

Fold(B, op, a, b) == IF op \in UnaryOps THEN FoldUnary(B, op, a) ELSE FoldBinary(B, op, a, b)

IsCommutative(op) == op \in {"Add", "Max", "Min", "Hypot"} \/ (op = "Mul" /\ CommutativeMul)

FoldedOr(folded, interned) == IF folded.id # NoNode THEN folded ELSE interned

(* Operands that commute are in the order of their ids. *)
Canonical(op, a, b) ==
  IF IsCommutative(op) /\ b # NoNode /\ b < a THEN OpNode(op, b, a) ELSE OpNode(op, a, b)

(* Mutant: operands are left in the order they came. *)
Make_NoSwap(B, op, a, b) == FoldedOr(Fold(B, op, a, b), Intern(B, OpNode(op, a, b)))

(* Mutant: commuting operands are swapped whatever their order. *)
Make_AlwaysSwap(B, op, a, b) ==
  FoldedOr(Fold(B, op, a, b),
           Intern(B, IF IsCommutative(op) THEN OpNode(op, b, a) ELSE OpNode(op, a, b)))

Make(B, op, a, b) == FoldedOr(Fold(B, op, a, b), Intern(B, Canonical(op, a, b)))

-----------------------------------------------------------------------------
(* What an arena is, and what the calls keep of one *)

Arenas == [nodes : Seq(Node), symbols : Seq(Name)]

(* Ids are topological, which interpret.hpp, derivative.hpp and graph.hpp    *)
(* all walk by: a node's operands were formed before it, it has as many as   *)
(* its operation takes, and a variable's slot names a symbol.                *)
WellFormed(B) ==
  \A v \in Ids(B) :
    LET n == B.nodes[v]
    IN  /\ n.op \in UnaryOps \cup BinaryOps => n.a \in 1..(v - 1)
        /\ n.op \in BinaryOps => n.b \in 1..(v - 1)
        /\ n.op \notin BinaryOps => n.b = NoNode
        /\ n.op \notin UnaryOps \cup BinaryOps => n.a = NoNode
        /\ n.op = "Var" => n.slot \in 1..Len(B.symbols)

(* An id is the identity of a subexpression: no two nodes are the same, no   *)
(* symbol has two slots, and every symbol has its leaf.                      *)
NodesOnce(B) == \A v, w \in Ids(B) : SameNode(B.nodes[v], B.nodes[w]) => v = w
SymbolsOnce(B) == \A s, t \in 1..Len(B.symbols) : B.symbols[s] = B.symbols[t] => s = t
LeafEach(B) == \A s \in 1..Len(B.symbols) : \E v \in Ids(B) : B.nodes[v] = VarNode(s)

(* Earlier nodes and symbols never change under a caller that holds an id.   *)
Extends(C, B) ==
  /\ Len(B.nodes) <= Len(C.nodes) /\ \A v \in Ids(B) : C.nodes[v] = B.nodes[v]
  /\ Len(B.symbols) <= Len(C.symbols)
  /\ \A s \in 1..Len(B.symbols) : C.symbols[s] = B.symbols[s]

(* No constant of the arena is a NaN. *)
Regular(B) ==
  \A v \in Ids(B) : B.nodes[v].op = "Const" => Eq(B.nodes[v].value, B.nodes[v].value)
=============================================================================
