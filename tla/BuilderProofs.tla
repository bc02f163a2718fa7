---------------------------- MODULE BuilderProofs ---------------------------
(***************************************************************************)
(* The arena stays topological, append-only and free of duplicates, and    *)
(* what it holds is what make() would form again, for every scalar, every  *)
(* op table and every sequence of calls.                                   *)
(***************************************************************************)
EXTENDS BuilderCalls, BuilderLemmas

(* The invariant: arena is Sound, and no node or symbol is kept twice. *)
BInv == Sound(arena) /\ NodesOnce(arena) /\ SymbolsOnce(arena) /\ LeafEach(arena)

LEMMA InitBInv == Init => BInv
  BY DEF Init, BInv, EmptyArena, Sound, Arenas, WellFormed, NodesOnce, SymbolsOnce, LeafEach, Ids

(* One step of a client keeps the invariant and every node formed so far.    *)
LEMMA StepBInv ==
  ASSUME BInv, [Next]_arena
  PROVE  BInv' /\ Extends(arena', arena)
<1> DEFINE Good(C) == /\ Sound(C) /\ Extends(C, arena)
                      /\ NodesOnce(C) /\ SymbolsOnce(C) /\ LeafEach(C)
<1>0. ASSUME NEW reply, Answers(arena, reply) PROVE Good(reply.arena)
  <2>1. Keeps(arena, reply.arena) /\ NodesOnce(arena) /\ SymbolsOnce(arena) /\ LeafEach(arena)
    BY <1>0 DEF Answers, BInv
  <2>2. LeafEach(reply.arena)
    BY <2>1 DEF LeafEach, Keeps, Extends, Ids, Sound, Arenas, BInv
  <2> QED
    BY <2>1, <2>2 DEF Keeps, SymbolsOnce
<1>1. ASSUME NEW v \in Scalar, CallConstant(v) PROVE Good(arena')
  BY <1>0, <1>1, ConstantAnswers DEF CallConstant, BInv
<1>2. ASSUME NEW name \in Name, CallVariable(name) PROVE Good(arena')
  BY <1>2, VariableAnswers DEF CallVariable, BInv
<1>3. ASSUME NEW op \in UnaryOps, NEW a \in Ids(arena), CallUnary(op, a) PROVE Good(arena')
  BY <1>0, <1>3, MakeUnaryAnswers DEF CallUnary, BInv
<1>4. ASSUME NEW op \in BinaryOps, NEW a \in Ids(arena), NEW b \in Ids(arena), CallBinary(op, a, b)
      PROVE  Good(arena')
  BY <1>0, <1>4, MakeBinaryAnswers DEF CallBinary, BInv
<1>5. ASSUME arena' = arena PROVE Good(arena')
  BY <1>5, ExtendsRefl DEF BInv, Keeps, Sound
<1>6. ASSUME Next PROVE Good(arena')
  <2>1. CASE \E v \in Scalar : CallConstant(v)
    BY <1>1, <2>1
  <2>2. CASE \E name \in Name : CallVariable(name)
    BY <1>2, <2>2
  <2>3. CASE \E op \in UnaryOps, a \in Ids(arena) : CallUnary(op, a)
    BY <1>3, <2>3
  <2>4. CASE \E op \in BinaryOps, a, b \in Ids(arena) : CallBinary(op, a, b)
    BY <1>4, <2>4
  <2> QED
    BY <1>6, <2>1, <2>2, <2>3, <2>4 DEF Next
<1>7. Good(arena')
  BY <1>5, <1>6
<1> QED
  BY <1>7 DEF BInv, Sound, Arenas, WellFormed, NodesOnce, SymbolsOnce, LeafEach, Ids

THEOREM BInvHolds == Spec => []BInv
<1>1. BInv /\ [Next]_arena => BInv'
  BY StepBInv
<1> QED
  BY <1>1, InitBInv, PTL DEF Spec

(* Every arena a client can form is topological: operands precede the node   *)
(* that reads them, which evaluate_all, reverse_gradient and freeze walk by. *)
THEOREM ArenaIsTopological == Spec => []Topological
<1>1. BInv => Topological
  BY DEF BInv, Sound, Arenas, Topological, TypeOK
<1> QED
  BY <1>1, BInvHolds, PTL

(* builder.hpp: "an id *is* the identity of a subexpression", for scalars    *)
(* whose == is symmetric; a NaN is the one constant that may appear twice.   *)
THEOREM ArenaHasNoTwins == Spec => []IdIsIdentity
<1>1. BInv => IdIsIdentity
  BY DEF BInv, IdIsIdentity
<1> QED
  BY <1>1, BInvHolds, PTL

(* No call moves or rewrites a node or a symbol that was formed before it.   *)
THEOREM ArenaIsAppendOnly == Spec => AppendOnly
<1>1. BInv /\ [Next]_arena => [Extends(arena', arena)]_arena
  BY StepBInv
<1> QED
  BY <1>1, BInvHolds, PTL DEF AppendOnly, Spec

-----------------------------------------------------------------------------
(* Whether a rewrite applies does not depend on what is formed later, nor,   *)
(* for an operation that commutes, on the order of the operands.             *)
LEMMA FoldsStable ==
  ASSUME NEW B, NEW C, Sound(B), Extends(C, B), NEW op, NEW a \in Ids(B), NEW b \in Ids(B)
  PROVE  /\ FoldsUnary(C, op, a) <=> FoldsUnary(B, op, a)
         /\ FoldsBinary(C, op, a, b) <=> FoldsBinary(B, op, a, b)
<1>1. C.nodes[a] = B.nodes[a] /\ C.nodes[b] = B.nodes[b]
  BY DEF Extends
<1> QED BY <1>1 DEF FoldsUnary, FoldsBinary, IsConst, Holds, IsQuotientBy

LEMMA FoldsCommute ==
  ASSUME NEW B, NEW op, NEW a, NEW b, IsCommutative(op), FoldsBinary(B, op, b, a)
  PROVE  FoldsBinary(B, op, a, b)
BY DEF FoldsBinary, IsCommutative

(* The nodes make() has formed: no rewrite applies to one, and its operands  *)
(* are in canonical order.                                                   *)
Settled(B, n) ==
  /\ n.op \in UnaryOps => ~FoldsUnary(B, n.op, n.a) /\ Canonical(n.op, n.a, n.b) = n
  /\ n.op \in BinaryOps => ~FoldsBinary(B, n.op, n.a, n.b) /\ Canonical(n.op, n.a, n.b) = n
AllSettled(B) == \A v \in Ids(B) : Settled(B, B.nodes[v])

(* A settled node stays settled, whatever is formed later. *)
LEMMA SettledStable ==
  ASSUME NEW B, NEW C, Sound(B), Extends(C, B), NEW n, FitsArena(B, n), Settled(B, n)
  PROVE  Settled(C, n)
<1>1. CASE n.op \in UnaryOps
  BY <1>1, FoldsStable, OpAssumption DEF FitsArena, Settled
<1>2. CASE n.op \in BinaryOps
  BY <1>2, FoldsStable, OpAssumption DEF FitsArena, Settled
<1> QED BY <1>1, <1>2 DEF Settled

LEMMA NodesFit ==
  ASSUME NEW B, Sound(B), NEW v \in Ids(B)
  PROVE  FitsArena(B, B.nodes[v])
BY NodeOf, OperandsIn DEF FitsArena, Sound, WellFormed

LEMMA InternSettles ==
  ASSUME NEW B, Sound(B), AllSettled(B), NEW n, FitsArena(B, n), Settled(B, n)
  PROVE  AllSettled(Intern(B, n).arena)
<1> DEFINE C == Intern(B, n).arena
<1>1. Extends(C, B)
  BY InternAnswers DEF Answers, Keeps
<1>2. C = B \/ (C.nodes = Append(B.nodes, n) /\ B.nodes \in Seq(Node) /\ n \in Node)
  BY DEF Intern, FoundOrAppended, Sound, Arenas, FitsArena
<1>3. CASE C = B
  BY <1>3
<1>4. CASE C.nodes = Append(B.nodes, n) /\ B.nodes \in Seq(Node) /\ n \in Node
  <2> HIDE DEF C
  <2>1. ASSUME NEW v \in Ids(C) PROVE Settled(C, C.nodes[v])
    <3>1. v \in Ids(B) \/ (v = Len(B.nodes) + 1 /\ C.nodes[v] = n)
      BY <1>4 DEF Ids
    <3>2. CASE v \in Ids(B)
      <4>1. C.nodes[v] = B.nodes[v] /\ Settled(B, B.nodes[v]) /\ FitsArena(B, B.nodes[v])
        BY <1>1, <3>2, NodesFit DEF Extends, AllSettled
      <4> QED BY <1>1, <4>1, SettledStable
    <3>3. CASE v = Len(B.nodes) + 1 /\ C.nodes[v] = n
      BY <1>1, <3>3, SettledStable
    <3> QED BY <3>1, <3>2, <3>3
  <2> QED BY <2>1 DEF AllSettled, C
<1> QED BY <1>2, <1>3, <1>4

LEMMA LeavesSettle ==
  ASSUME NEW B, Sound(B), AllSettled(B)
  PROVE  /\ \A v \in Scalar : AllSettled(Constant(B, v).arena)
         /\ \A s \in 1..Len(B.symbols) : AllSettled(Intern(B, VarNode(s)).arena)
<1>0. Len(B.symbols) \in Nat
  BY DEF Sound, Arenas
<1>1. ASSUME NEW v \in Scalar PROVE AllSettled(Constant(B, v).arena)
  <2>1. FitsArena(B, ConstNode(v)) /\ Settled(B, ConstNode(v))
    BY OpAssumption DEF FitsArena, ConstNode, Node, NoNode, Settled
  <2> QED BY <2>1, InternSettles DEF Constant
<1>2. ASSUME NEW s \in 1..Len(B.symbols) PROVE AllSettled(Intern(B, VarNode(s)).arena)
  <2>1. FitsArena(B, VarNode(s)) /\ Settled(B, VarNode(s))
    BY <1>0, ScalarAssumption, OpAssumption DEF FitsArena, VarNode, Node, NoNode, Settled
  <2> QED BY <2>1, InternSettles
<1> QED BY <1>1, <1>2

LEMMA VariableSettles ==
  ASSUME NEW B, Sound(B), AllSettled(B), NEW name \in Name
  PROVE  AllSettled(Variable(B, name).arena)
<1> DEFINE known == {s \in 1..Len(B.symbols) : B.symbols[s] = name}
           D == [nodes |-> B.nodes, symbols |-> Append(B.symbols, name)]
           new == Len(B.symbols) + 1
<1>1. CASE known # {}
  <2> DEFINE s == CHOOSE t \in known : TRUE
  <2>1. s \in 1..Len(B.symbols)
    BY <1>1
  <2>2. Variable(B, name) = Intern(B, VarNode(s))
    BY <1>1 DEF Variable
  <2> HIDE DEF s
  <2> QED BY <2>1, <2>2, LeavesSettle
<1>2. CASE known = {}
  <2>1. Variable(B, name) = Intern(D, VarNode(new))
    BY <1>2 DEF Variable
  <2>2. /\ B.nodes \in Seq(Node) /\ B.symbols \in Seq(Name)
        /\ D.nodes = B.nodes /\ D.symbols = Append(B.symbols, name) /\ D \in Arenas
        /\ Ids(D) = Ids(B) /\ new \in 1..Len(D.symbols) /\ Len(D.symbols) = Len(B.symbols) + 1
        /\ \A t \in 1..Len(B.symbols) : D.symbols[t] = B.symbols[t]
    BY DEF Sound, Arenas, Ids
  <2> HIDE DEF D, new, known
  <2>3. Sound(D) /\ Extends(D, B)
    BY <2>2 DEF Sound, WellFormed, Extends, Ids
  <2>4. AllSettled(D)
    <3>1. ASSUME NEW v \in Ids(B) PROVE Settled(D, B.nodes[v])
      BY <2>3, SettledStable, NodesFit DEF AllSettled
    <3> QED BY <2>2, <3>1 DEF AllSettled
  <2> QED BY <2>1, <2>2, <2>3, <2>4, LeavesSettle
<1> QED BY <1>1, <1>2

(* What make() forms is settled: a rewrite that applied would have answered. *)
LEMMA MakeUnarySettles ==
  ASSUME NEW B, Sound(B), AllSettled(B), NEW op \in UnaryOps, NEW a \in Ids(B)
  PROVE  AllSettled(Make(B, op, a, NoNode).arena)
<1>1. CASE FoldsUnary(B, op, a)
  <2>1. Make(B, op, a, NoNode) = FoldUnary(B, op, a)
    BY <1>1, FoldUnaryWhen DEF Make, FoldedOr, Fold
  <2>2. Apply1(op, B.nodes[a].value) \in Scalar
    BY NodeOf, ScalarAssumption DEF Node
  <2> QED BY <1>1, <2>1, <2>2, LeavesSettle DEF FoldUnary, FoldsUnary, Existing
<1>2. CASE ~FoldsUnary(B, op, a)
  <2>1. Make(B, op, a, NoNode) = Intern(B, OpNode(op, a, NoNode))
    BY <1>2, FoldUnaryWhen DEF Make, FoldedOr, Canonical
  <2>2. FitsArena(B, OpNode(op, a, NoNode))
    BY ScalarAssumption, OpAssumption DEF FitsArena, OpNode, Node, NoNode, Ids
  <2>3. Settled(B, OpNode(op, a, NoNode))
    BY <1>2, OpAssumption DEF Settled, OpNode, Canonical
  <2> QED BY <2>1, <2>2, <2>3, InternSettles
<1> QED BY <1>1, <1>2

LEMMA FoldedArena ==
  ASSUME NEW B, Sound(B), AllSettled(B), NEW op \in BinaryOps, NEW a \in Ids(B), NEW b \in Ids(B)
  PROVE  AllSettled(FoldBinary(B, op, a, b).arena)
<1>1. \A v : AllSettled(Existing(B, v).arena)
  BY DEF Existing
<1>2. \A v \in Scalar : AllSettled(Constant(B, v).arena)
  BY LeavesSettle
<1>3. AllSettled(Unfolded(B).arena)
  BY DEF Unfolded
<1>4. Zero \in Scalar /\ One \in Scalar
  BY ScalarAssumption
<1> HIDE DEF AllSettled
<1>5. CASE IsConst(B, a) /\ IsConst(B, b)
  <2>1. Apply2(op, B.nodes[a].value, B.nodes[b].value) \in Scalar
    BY NodeOf, ScalarAssumption DEF Node
  <2> QED BY <1>2, <1>5, <2>1 DEF FoldBinary
<1>6. CASE ~(IsConst(B, a) /\ IsConst(B, b))
  <2>1. /\ AllSettled(FoldAdd(B, a, b).arena) /\ AllSettled(FoldMul(B, a, b).arena)
        /\ AllSettled(FoldDiv(B, a, b).arena) /\ AllSettled(FoldPow(B, a, b).arena)
    BY <1>1, <1>2, <1>3, <1>4 DEF FoldAdd, FoldMul, FoldDiv, FoldPow
  <2> QED BY <1>3, <1>6, <2>1 DEF FoldBinary
<1> QED BY <1>5, <1>6

LEMMA MakeBinarySettles ==
  ASSUME NEW B, Sound(B), AllSettled(B), NEW op \in BinaryOps, NEW a \in Ids(B), NEW b \in Ids(B)
  PROVE  AllSettled(Make(B, op, a, b).arena)
<1>1. CASE FoldsBinary(B, op, a, b)
  <2>1. Make(B, op, a, b) = FoldBinary(B, op, a, b)
    BY <1>1, FoldBinaryWhen, OpAssumption DEF Make, FoldedOr, Fold
  <2> QED BY <2>1, FoldedArena
<1>2. CASE ~FoldsBinary(B, op, a, b)
  <2> DEFINE n == Canonical(op, a, b)
  <2>1. Make(B, op, a, b) = Intern(B, n)
    BY <1>2, FoldBinaryWhen DEF Make, FoldedOr
  <2>2. \/ n = OpNode(op, b, a) /\ IsCommutative(op) /\ b < a
        \/ n = OpNode(op, a, b) /\ ~(IsCommutative(op) /\ b < a)
    BY DEF Canonical, Ids, NoNode
  <2>3. ASSUME NEW u \in Ids(B), NEW w \in Ids(B) PROVE FitsArena(B, OpNode(op, u, w))
    BY ScalarAssumption, OpAssumption DEF FitsArena, OpNode, Node, NoNode, Ids
  <2>4. CASE n = OpNode(op, b, a) /\ IsCommutative(op) /\ b < a
    <3>1. ~FoldsBinary(B, op, b, a)
      BY <1>2, <2>4, FoldsCommute
    <3>2. Canonical(op, b, a) = OpNode(op, b, a)
      BY <2>4 DEF Canonical, Ids
    <3>3. Settled(B, n)
      BY <2>4, <3>1, <3>2, OpAssumption DEF Settled, OpNode
    <3> QED BY <2>1, <2>3, <2>4, <3>3, InternSettles
  <2>5. CASE n = OpNode(op, a, b) /\ ~(IsCommutative(op) /\ b < a)
    <3>1. Settled(B, n)
      BY <1>2, <2>5, OpAssumption DEF Settled, OpNode
    <3> QED BY <2>1, <2>3, <2>5, <3>1, InternSettles
  <2> QED BY <2>2, <2>4, <2>5
<1> QED BY <1>1, <1>2

(* Forming a node again from its own parts finds it: make() neither rewrites *)
(* what it has formed nor forms it twice, whatever was formed since.         *)
THEOREM FormedOnce == Spec => []Rebuilds
<1>1. Init => AllSettled(arena)
  BY DEF Init, EmptyArena, AllSettled, Ids
<1>2. ASSUME BInv, AllSettled(arena), [Next]_arena
      PROVE  AllSettled(arena')
  <2>1. Sound(arena)
    BY <1>2 DEF BInv
  <2>2. ASSUME NEW v \in Scalar, CallConstant(v) PROVE AllSettled(arena')
    BY <1>2, <2>1, <2>2, LeavesSettle DEF CallConstant
  <2>3. ASSUME NEW name \in Name, CallVariable(name) PROVE AllSettled(arena')
    BY <1>2, <2>1, <2>3, VariableSettles DEF CallVariable
  <2>4. ASSUME NEW op \in UnaryOps, NEW a \in Ids(arena), CallUnary(op, a)
        PROVE  AllSettled(arena')
    BY <1>2, <2>1, <2>4, MakeUnarySettles DEF CallUnary
  <2>5. ASSUME NEW op \in BinaryOps, NEW a \in Ids(arena), NEW b \in Ids(arena),
               CallBinary(op, a, b)
        PROVE  AllSettled(arena')
    BY <1>2, <2>1, <2>5, MakeBinarySettles DEF CallBinary
  <2>6. CASE UNCHANGED arena
    BY <1>2, <2>6
  <2> QED BY <1>2, <2>2, <2>3, <2>4, <2>5, <2>6 DEF Next
<1>3. ASSUME BInv, AllSettled(arena)
      PROVE  Rebuilds
  <2> SUFFICES ASSUME NEW v \in Ids(arena), arena.nodes[v].op \in UnaryOps \cup BinaryOps
               PROVE  Make(arena, arena.nodes[v].op, arena.nodes[v].a, arena.nodes[v].b)
                        = Existing(arena, v)
    BY DEF Rebuilds
  <2> DEFINE n == arena.nodes[v]
             found == {w \in Ids(arena) : SameNode(arena.nodes[w], n)}
  <2>1. Sound(arena) /\ NodesOnce(arena) /\ Settled(arena, n)
    BY <1>3 DEF BInv, AllSettled
  <2>2. Fold(arena, n.op, n.a, n.b).id = NoNode /\ Canonical(n.op, n.a, n.b) = n
    BY <2>1, OperandsIn, FoldUnaryWhen, FoldBinaryWhen DEF Settled
  <2>3. Make(arena, n.op, n.a, n.b) = Intern(arena, n)
    BY <2>2 DEF Make, FoldedOr
  <2>4. SameNode(n, n)
    BY OpAssumption DEF SameNode
  <2>5. found = {v}
    BY <2>1, <2>4 DEF NodesOnce
  <2>6. Intern(arena, n) = [arena |-> arena, id |-> v]
    BY <2>5 DEF Intern, FoundOrAppended
  <2> QED BY <2>3, <2>6 DEF Existing
<1>4. BInv /\ AllSettled(arena) /\ [Next]_arena => AllSettled(arena)'
  BY <1>2
<1>5. BInv /\ AllSettled(arena) => Rebuilds
  BY <1>3
<1> QED BY <1>1, <1>4, <1>5, BInvHolds, PTL DEF Spec

-----------------------------------------------------------------------------
(* What the algebra owes: the operations that commute do on constants.       *)
Commutes ==
  \A op \in {o \in BinaryOps : IsCommutative(o)}, l, r \in Scalar :
    Apply2(op, l, r) = Apply2(op, r, l)

(* x + y and y + x are one node, whichever is formed first, and a rewrite    *)
(* answers the same for both.                                                *)
THEOREM OrderOfOperands ==
  ASSUME Commutes
  PROVE  Spec => []OperandOrderIrrelevant
<1>1. ASSUME BInv PROVE OperandOrderIrrelevant
  <2> SUFFICES ASSUME NEW op \in BinaryOps, IsCommutative(op),
                      NEW a \in Ids(arena), NEW b \in Ids(arena)
               PROVE  Make(arena, op, a, b) = Make(arena, op, b, a)
    BY DEF OperandOrderIrrelevant
  <2>1. Sound(arena) /\ op \notin UnaryOps
    BY <1>1, OpAssumption DEF BInv
  <2>2. Canonical(op, a, b) = Canonical(op, b, a)
    BY DEF Canonical, Ids, NoNode
  <2>3. Fold(arena, op, a, b) = Fold(arena, op, b, a)
    <3>1. CASE IsConst(arena, a) /\ IsConst(arena, b)
      <4>1. arena.nodes[a].value \in Scalar /\ arena.nodes[b].value \in Scalar
        BY <2>1, NodeOf DEF Node
      <4>2. Apply2(op, arena.nodes[a].value, arena.nodes[b].value)
              = Apply2(op, arena.nodes[b].value, arena.nodes[a].value)
        BY <4>1 DEF Commutes
      <4> QED BY <2>1, <3>1, <4>2 DEF Fold, FoldBinary
    <3>2. CASE ~(IsConst(arena, a) /\ IsConst(arena, b))
      <4>1. ~(Holds(arena, a, Zero) /\ Holds(arena, b, Zero))
            /\ ~(Holds(arena, a, One) /\ Holds(arena, b, One))
            /\ ~(Holds(arena, a, Zero) /\ Holds(arena, b, One))
            /\ ~(Holds(arena, a, One) /\ Holds(arena, b, Zero))
        BY <3>2 DEF Holds
      <4>2. ~(IsQuotientBy(arena, a, b) /\ IsQuotientBy(arena, b, a))
        <5>1. ASSUME IsQuotientBy(arena, a, b), IsQuotientBy(arena, b, a), "Div" \in BinaryOps
              PROVE  FALSE
          BY <2>1, <5>1 DEF IsQuotientBy, Sound, Arenas, WellFormed, Ids
        <5>2. ASSUME IsQuotientBy(arena, a, b), IsQuotientBy(arena, b, a), "Div" \notin BinaryOps
              PROVE  FALSE
          BY <2>1, <5>2 DEF IsQuotientBy, Sound, Arenas, WellFormed, Ids, NoNode
        <5> QED BY <5>1, <5>2
      <4>3. CASE op = "Add"
        BY <2>1, <3>2, <4>1, <4>3 DEF Fold, FoldBinary, FoldAdd
      <4>4. CASE op = "Mul"
        <5>1. CommutativeMul
          BY <4>4 DEF IsCommutative
        <5>2. FoldMul(arena, a, b) = FoldMul(arena, b, a)
          BY <4>1, <4>2, <5>1 DEF FoldMul
        <5> QED BY <2>1, <3>2, <4>4, <5>2 DEF Fold, FoldBinary
      <4>5. CASE op \in {"Max", "Min", "Hypot"}
        BY <2>1, <3>2, <4>5 DEF Fold, FoldBinary
      <4> QED BY <4>3, <4>4, <4>5 DEF IsCommutative
    <3> QED BY <3>1, <3>2
  <2> QED BY <2>2, <2>3 DEF Make
<1> QED BY <1>1, BInvHolds, PTL

-----------------------------------------------------------------------------
(* The rewrites of fold() and the order make() puts operands in change no    *)
(* function, for every scalar that keeps the laws they are named for.        *)
THEOREM RewritesAreSound ==
  ASSUME NumberLaws(Scalars)
  PROVE  Spec => []RewritesSound
<1>1. ASSUME BInv PROVE RewritesSound
  <2>1. ASSUME NEW p \in Points
        PROVE  /\ Sound(arena) /\ Interprets(Scalars, arena, p, ValuesAt(Scalars, arena, p))
               /\ \A a \in Ids(arena) : ValuesAt(Scalars, arena, p)[a] \in Scalar
    <3>1. Sound(arena) /\ p \in PointFor(Scalars, arena)
      BY <1>1, AmongScalars DEF BInv, Points, PointFor
    <3>2. Interprets(Scalars, arena, p, ValuesAt(Scalars, arena, p))
      BY <3>1, ValuesAnswers, ScalarsConvert
    <3>3. \A a \in Ids(arena) : ValuesAt(Scalars, arena, p)[a] \in Scalar
      BY <3>1, <3>2, AmongScalars DEF Interprets, Ids
    <3>. QED BY <3>1, <3>2, <3>3
  <2>2. BinaryRewritesSound
    <3> SUFFICES ASSUME NEW p \in Points, NEW op \in BinaryOps,
                        NEW a \in Ids(arena), NEW b \in Ids(arena),
                        Apply2(op, ValuesAt(Scalars, arena, p)[a], ValuesAt(Scalars, arena, p)[b]) # NaN
                 PROVE  ReplyValue(Scalars, Make(arena, op, a, b), ValuesAt(Scalars, arena, p), p)
                          = Apply2(op, ValuesAt(Scalars, arena, p)[a], ValuesAt(Scalars, arena, p)[b])
      BY DEF BinaryRewritesSound
    <3> DEFINE vals == ValuesAt(Scalars, arena, p)
    <3>1. Sound(arena) /\ Interprets(Scalars, arena, p, vals) /\ vals[a] \in Scalar /\ vals[b] \in Scalar
      BY <2>1
    <3> HIDE DEF vals
    <3>2. /\ On2(Scalars, op, vals[a], vals[b]) = Apply2(op, vals[a], vals[b])
          /\ Scalars.none = NaN
      BY <3>1, AmongScalars
    <3>3. On2(Scalars, op, vals[a], vals[b]) # Scalars.none
      BY <3>2 DEF vals
    <3>4. ReplyValue(Scalars, Make(arena, op, a, b), vals, p) = On2(Scalars, op, vals[a], vals[b])
      BY <3>1, <3>3, BinaryRewriteSound
    <3>. QED BY <3>2, <3>4 DEF vals
  <2>3. UnaryRewritesSound
    <3> SUFFICES ASSUME NEW p \in Points, NEW op \in UnaryOps, NEW a \in Ids(arena)
                 PROVE  ReplyValue(Scalars, Make(arena, op, a, NoNode), ValuesAt(Scalars, arena, p), p)
                          = Apply1(op, ValuesAt(Scalars, arena, p)[a])
      BY DEF UnaryRewritesSound
    <3> DEFINE vals == ValuesAt(Scalars, arena, p)
    <3>1. Sound(arena) /\ Interprets(Scalars, arena, p, vals) /\ vals[a] \in Scalar
      BY <2>1
    <3> HIDE DEF vals
    <3>2. On1(Scalars, op, vals[a]) = Apply1(op, vals[a]) /\ Given(Scalars, op, vals[a])
      BY <3>1, AmongScalars DEF Given
    <3>3. ReplyValue(Scalars, Make(arena, op, a, NoNode), vals, p) = On1(Scalars, op, vals[a])
      BY <3>1, <3>2, UnaryRewriteSound
    <3>. QED BY <3>2, <3>3 DEF vals
  <2>. QED BY <2>2, <2>3 DEF RewritesSound
<1>. QED BY <1>1, BInvHolds, PTL
=============================================================================
